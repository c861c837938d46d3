CONSTANTS
    w1 = w1
    w2 = w2
    None = None
    Workers = {w1, w2}
    ClientTimes = {0}
    ActiveWindow = 3
    Stall = 2
    Failures = TRUE
    MaxClock = 7
    MaxMessages = 3
    MaxBoots = 2
SPECIFICATION FairSpec
INVARIANTS NumbersFollowOrder ActivationsApart CountsAdd 
PROPERTIES CountsSettle
CHECK_DEADLOCK FALSE
