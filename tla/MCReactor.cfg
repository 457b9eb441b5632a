SPECIFICATION Spec
CONSTANTS
    a1 = a1
    a2 = a2
    a3 = a3
    c1 = c1
    c2 = c2
    fd1 = fd1
    fd2 = fd2
    NoCallback = NoCallback
    NoAddr = NoAddr
    NoConn = NoConn
    NoFd = NoFd
    Addr <- MCAddr3
    Client <- MCClient2
    Callback <- MCFd2
    TimerExpiration = 1
    MaxSends = 1
    MaxTime = 2
    MaxDelay = 0
INVARIANT TypeOK
INVARIANT NoDanglingConnection
INVARIANT ConnectionTable
INVARIANT NoLostEvent
PROPERTY ClosedIsDeleted
PROPERTY MessagesAreRead
PROPERTY StopsOnExit
CHECK_DEADLOCK FALSE
