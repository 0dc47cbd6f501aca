SPECIFICATION Spec
CONSTANTS
    Activity = {1, 2, 3}
    Failure = {2, 3}
    SeqNo <- Numbered
    Topics = {t1, t2}
    Statements = {s1, s2}
    MaxSources = 3
    MaxLessonSources = 8
    NoActivity = 0
    NoTopic = NoTopic
    NoStatement = NoStatement
    NoMemory = NoMemory
    Dismiss = Dismiss
    NoTarget = NoTarget
    t1 = t1
    t2 = t2
    s1 = s1
    s2 = s2
    Requests <- AllRequests
    ReplyBound <- Bounds
    RETRIES = 1
INVARIANTS AccountedOnce VersionsSound ConflictsNameMemories AttemptsTellAll
