SPECIFICATION ClientSpec
CONSTANTS
    a1 = a1
    a2 = a2
    a3 = a3
    c1 = c1
    c2 = c2
    NoCallback = NoCallback
    NoAddr = NoAddr
    Durations <- MCDurations
    Addr <- MCAddr
    Callback <- MCCallback
    MaxTime = 4
    MaxDelay = 1
INVARIANT ClientTypeOK
INVARIANT NoDanglingTimer
INVARIANT NeverOversleeps
INVARIANT PointersFaithful
PROPERTY RunsOnceWhenDue
CHECK_DEADLOCK FALSE
