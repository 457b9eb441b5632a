SPECIFICATION Spec
CONSTANTS
    w1 = w1
    w2 = w2
    main = main
    other = other
    t1 = t1
    t2 = t2
    t3 = t3
    Nobody = Nobody
    Worker <- MCWorker
    Submitter <- MCTwo
    Owner = main
    Task <- MCTask3
    ExitWaits = TRUE
INVARIANT TypeOK
INVARIANT FirstInFirstOut
INVARIANT DoneWhenDestroyed
PROPERTY AcceptedIsRun
CHECK_DEADLOCK FALSE
