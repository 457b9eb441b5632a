SPECIFICATION Spec
CONSTANTS
    p1 = p1
    p2 = p2
    m1 = m1
    m2 = m2
    m3 = m3
    Producer <- MCOne
    Log <- MCLog2
    CountThreshold = 1
INVARIANT AllWrittenAtExit
CHECK_DEADLOCK FALSE
