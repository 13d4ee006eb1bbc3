CONSTANTS
    Tasks = {c1, c2}
    None = None
    REQUEST_INTERVAL = 1
    TIME_INTERVAL = 3
    HTTP_TIMEOUT = 2
    CLOCK_MAX_AGE = 3
    CLOCK_MAX_SKEW = 1
    MAX_DRIFT = 1
    Punctual = FALSE
    MaxTime = 5
    InitialShifts <- RightClock
    WallSteps <- StepsBothWays
    MaxWallSteps = 1
SPECIFICATION Spec
SYMMETRY CallersAlike
INVARIANTS SignedTimestampAccurate
