CONSTANTS
    None = None
    c1 = c1
    c2 = c2
    s1 = s1
    s2 = s2
    s3 = s3
    x = x
    y = y
    k1 = k1
    k2 = k2
    Blank = Blank
    DEFAULT_GREEN = DEFAULT_GREEN
    DEFAULT_RED = DEFAULT_RED
    Connections = {c1, c2}
    Sessions = {s1, s2, s3}
    Initially = {s1, s3}
    ConnectionOf <- MCConnectionOf
    Ports = {1, 2}
    WrongPort = 99
    Columns <- MCColumns
    Keys = {k1, k2}
    Colors = {DEFAULT_GREEN, DEFAULT_RED}
    Defaults <- MCDefaults
    Ranges = {300}
    Instants = {0, 1, 2}
    Slots = {1, 2}
    MaxClicks <- MCMaxClicks
    MaxElsewhere = 1
SPECIFICATION FairSpec
INVARIANTS TypeOK  SelectionFits 
PROPERTIES ReloadRestores   DialogsEnd
CHECK_DEADLOCK FALSE
