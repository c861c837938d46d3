CONSTANTS
    a = a
    b = b
    Garbage = 99
    Records <- MCRecords
    Questions <- MCQuestions
    Procs = {p1, run}
    Runner = run
    FlushAt = 2
    DiskFaults = FALSE
    Deletable <- MCDeletable
SPECIFICATION QSpec
PROPERTY DeleteRemovesAll
CHECK_DEADLOCK FALSE
