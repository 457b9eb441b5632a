SPECIFICATION RaceSpec
CONSTANTS
    u1 = u1
    u2 = u2
    d1 = d1
    th1 = th1
    th2 = th2
    Header = Header
    Tailer = Tailer
    None = None
    Url <- MCUrl
    Data <- MCData
    Size <- MCSize
    Thread <- MCThread
    Capacity = 1
    SizeModulus = 8
INVARIANT VictimIsCached
CHECK_DEADLOCK FALSE
