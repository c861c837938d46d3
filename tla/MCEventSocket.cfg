CONSTANTS
    All = All
    a = a
    b = b
    Filters = {All, a, b}
    MaxSockets = 5
    MaxChanges = 5
SPECIFICATION FairSpec
INVARIANTS OneConnection KeepsTrying FilterInStep
PROPERTY Recovers
CHECK_DEADLOCK FALSE
