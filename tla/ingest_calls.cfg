SPECIFICATION FairSpec
CONSTANTS
    Callers = {c1, c2}
    Keys = {k1}
    NoKey = NoKey
    Bodies = {b1, b2}
    MaxDeaths = 1
CHECK_DEADLOCK FALSE
INVARIANTS KeyBindsOneMessage AnsweredIsIndexed UnracedIndexIsExact
PROPERTIES EveryCallAnswered EveryMessageIndexed
