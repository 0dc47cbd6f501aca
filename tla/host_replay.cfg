SPECIFICATION HostSpec
CONSTANTS
    Activity = {1, 2, 3}
    Failure = {1, 2, 3}
    SeqNo <- Numbered
    Topics = {t1, t2}
    Statements = {s1}
    MaxSources = 3
    MaxLessonSources = 2
    NoActivity = 0
    NoTopic = NoTopic
    NoStatement = NoStatement
    NoMemory = NoMemory
    Dismiss = Dismiss
    NoTarget = NoTarget
    t1 = t1
    t2 = t2
    s1 = s1
    s2 = s2
    WindowSize = 2
    MaxLessons = 1
    MaxAssignments = 2
SYMMETRY DataSymmetry
CHECK_DEADLOCK FALSE
INVARIANTS EachFailureCountedOnce ReplayIsNoop
