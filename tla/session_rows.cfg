SPECIFICATION Spec
CONSTANTS
    MaxMessages = 3
    MaxInFlight = 2
    WindowMessages = 1
    ContextMessages = 1
    SkipAfterFailures = 3
    MaxActive = 4
    Topics = {t1, t2}
    Statements = {s1, s2}
    ActivitySeq <- ShuffledVersions
    Oversize <- LastMessage
    Forces <- BothForces
    MaxWrites = 1
    MaxRestarts = 0
SYMMETRY DataSymmetry
CHECK_DEADLOCK FALSE
INVARIANTS RunAgreesWithStore UniqueActive NewestStaysActive 
