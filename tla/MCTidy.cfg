SPECIFICATION Spec
CONSTANTS
    f1 = f1
    f2 = f2
    Nobody = Nobody
    File <- MCFile
    Entries <- MCEntries
    J = 0
    CpuCount = 2
INVARIANT TypeOK
INVARIANT JoinMeansChecked
INVARIANT ZeroMeansClean
PROPERTY Terminates
PROPERTY SurvivorsDrain
CHECK_DEADLOCK FALSE
