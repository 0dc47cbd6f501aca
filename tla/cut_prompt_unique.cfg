SPECIFICATION Spec
CONSTANTS
    MaxMessages = 4
    MaxInFlight = 1
    WindowMessages = 1
    ContextMessages = 3
    SkipAfterFailures = 3
    MaxActive = 1
    Topics = {t1, t2}
    Statements = {s1, s2}
    ActivitySeq <- PositionVersions
    Oversize <- NoMessages
    Forces <- BothForces
    MaxWrites = 1
    MaxRestarts = 0
SYMMETRY DataSymmetry
CHECK_DEADLOCK FALSE
INVARIANTS UniqueActive
