SPECIFICATION Spec
CONSTANTS
    a1 = a1
    a2 = a2
    a3 = a3
    c1 = c1
    c2 = c2
    fd1 = fd1
    fd2 = fd2
    NoCallback = NoCallback
    NoAddr = NoAddr
    NoConn = NoConn
    NoFd = NoFd
    Addr <- MCAddr3
    Client <- MCClient1
    Callback <- MCFd1
    TimerExpiration = 2
    MaxSends = 2
    MaxTime = 5
    MaxDelay = 0
PROPERTY KickOnlyIdle
CHECK_DEADLOCK FALSE
