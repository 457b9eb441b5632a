SPECIFICATION Spec
CONSTANTS
    w1 = w1
    w2 = w2
    main = main
    other = other
    t1 = t1
    t2 = t2
    t3 = t3
    Nobody = Nobody
    Worker <- MCWorker
    Submitter <- MCOne
    Owner = main
    Task <- MCTask1
    ExitWaits = TRUE
PROPERTY DestructorReturns
CHECK_DEADLOCK FALSE
