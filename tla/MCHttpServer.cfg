SPECIFICATION HttpSpec
CONSTANTS
    u1 = u1
    u2 = u2
    u3 = u3
    d0 = d0
    d1 = d1
    d2 = d2
    d3 = d3
    c1 = c1
    c2 = c2
    th1 = th1
    th2 = th2
    p1 = p1
    Header = Header
    Tailer = Tailer
    None = None
    Missing = Missing
    END = END
    BAD = BAD
    ErrorText = ErrorText
    Url <- MCUrl
    Data <- MCData
    Size <- MCSize
    Client <- MCClient
    Thread <- MCThread
    Program <- MCProgram
    Workloads <- MCWorkloads
    Disk <- MCDisk
    Owners <- MCOwners
    Capacity = 3
    SizeModulus = 8
INVARIANT HttpTypeOK
INVARIANT ListMatchesUntilRaced
INVARIANT OccupancyUntilRaced
INVARIANT BodiesExact
INVARIANT AnsweredInOrder
CHECK_DEADLOCK FALSE
PROPERTY LRUUntilRaced
PROPERTY RequestsAreAnswered
