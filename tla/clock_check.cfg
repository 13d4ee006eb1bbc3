CONSTANTS
    Tasks = {c1, c2}
    None = None
    REQUEST_INTERVAL = 3
    TIME_INTERVAL = 4
    HTTP_TIMEOUT = 2
    CLOCK_MAX_AGE = 5
    CLOCK_MAX_SKEW = 2
    MAX_DRIFT = 1
    Punctual = TRUE
    MaxTime = 9
    InitialShifts <- RightClock
    WallSteps <- NoSteps
    MaxWallSteps = 0
SPECIFICATION Spec
SYMMETRY CallersAlike
INVARIANTS ExactClockAccepted
