SPECIFICATION FairSpec
CONSTANTS
    MaxMessages = 3
    MaxInFlight = 1
    WindowMessages = 1
    ContextMessages = 1
    SkipAfterFailures = 3
    MaxActive = 4
    Topics = {t1}
    Statements = {s1}
    ActivitySeq <- MixedVersions
    Oversize <- FirstMessage
    Forces <- OneForced
    MaxWrites = 1
    MaxRestarts = 0
CHECK_DEADLOCK FALSE
PROPERTIES EveryMessageConsumed
