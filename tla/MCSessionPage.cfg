CONSTANTS
    None = None
    a = a
    b = b
    Sessions = {a, b}
    MaxRecords = 2
    PageSizes = {1, 2}
    LiveLimit = 2
    MaxLive = 2
    Slots = {1, 2}
    MaxClicks = 2
    MaxFailures = 1
SPECIFICATION FairSpec
INVARIANTS TypeOK RowsOfSelection TotalCoversRows
PROPERTIES TableAnswersBelong 
CHECK_DEADLOCK FALSE
