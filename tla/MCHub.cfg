CONSTANTS
    a = a
    b = b
    k = k
    w1 = w1
    w2 = w2
    Empty = Empty
    Browsers = {w1, w2}
    Messages <- MCMessages
    Filters <- MCFilters
    SendBuffer = 1
    MaxEvents = 2
SPECIFICATION FairSpec
INVARIANT NoPanic
PROPERTIES ImplementsFeed Released Received
CHECK_DEADLOCK FALSE
