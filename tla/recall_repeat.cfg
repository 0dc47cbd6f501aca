SPECIFICATION CacheSpec
CONSTANTS
    w1 = w1
    w2 = w2
    v = v
    x = x
    y = y
    z = z
    Threads = {w1, w2}
    Texts = {v, x, y, z}
    Requests <- RecallRequests
    Capacity = 2
    MaxRequests = 3
CHECK_DEADLOCK FALSE
SYMMETRY ThreadSymmetry
INVARIANTS SameRequestSameAnswer
