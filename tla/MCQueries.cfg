CONSTANTS
    a = a
    b = b
    Garbage = 99
    Records <- MCRecords
    Questions <- MCQuestions
    Procs = {p1, run}
    Runner = run
    FlushAt = 2
    DiskFaults = TRUE
    Deletable <- MCDeletable
SPECIFICATION QSpec
INVARIANTS NoDoubleRead MissedOnlyInFlight
CHECK_DEADLOCK FALSE
