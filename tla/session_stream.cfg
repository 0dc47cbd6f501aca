SPECIFICATION FairSpec
CONSTANTS
    MaxMessages = 3
    MaxInFlight = 1
    WindowMessages = 2
    ContextMessages = 1
    SkipAfterFailures = 3
    MaxActive = 4
    Topics = {t1}
    Statements = {s1}
    ActivitySeq <- MixedVersions
    Oversize <- NoMessages
    Forces <- BothForces
    MaxWrites = 1
    MaxRestarts = 1
CHECK_DEADLOCK FALSE
INVARIANTS ConsumedExactlyOnce
PROPERTIES SkipFollowsFailures ImplementsLedger EveryMessageConsumed
