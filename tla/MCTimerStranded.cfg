SPECIFICATION ClientSpec
CONSTANTS
    a1 = a1
    a2 = a2
    a3 = a3
    c1 = c1
    c2 = c2
    NoCallback = NoCallback
    NoAddr = NoAddr
    Durations <- MCDurations
    Addr <- MCAddr
    Callback <- MCCallback
    MaxTime = 4
    MaxDelay = 0
CHECK_DEADLOCK FALSE
PROPERTY DueIsServed
