SPECIFICATION Spec
CONSTANTS
    p1 = p1
    p2 = p2
    m1 = m1
    m2 = m2
    m3 = m3
    Producer <- MCProducer
    Log <- MCLog3
    CountThreshold = 1
INVARIANT TypeOK
INVARIANT FirstInFirstOut
PROPERTY BacklogIsFlushed
CHECK_DEADLOCK FALSE
