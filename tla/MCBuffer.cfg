CONSTANTS
    a = a
    b = b
    Garbage = 99
    Records <- MCRecords
    Procs = {p1, p2, run}
    Runner = run
    FlushAt = 2
    DiskFaults = TRUE
    Deletable <- MCDeletable
SPECIFICATION FairSpec
INVARIANT IndexesAgree
PROPERTIES LifecycleOfRecords EventuallySettled
CHECK_DEADLOCK FALSE
