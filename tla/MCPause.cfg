CONSTANTS
    b1 = b1
    b2 = b2
    Browsers = {b1, b2}
    MaxCalls = 3
    MaxFaults = 2
SPECIFICATION Spec
INVARIANTS PauseSurvives HeardIsTrue
CHECK_DEADLOCK FALSE
SYMMETRY BrowserSymmetry
