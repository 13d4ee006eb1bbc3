CONSTANTS
    Tasks = {c1, c2}
    None = None
    REQUEST_INTERVAL = 1
    TIME_INTERVAL = 3
    HTTP_TIMEOUT = 4
    CLOCK_MAX_AGE = 3
    CLOCK_MAX_SKEW = 1
    MAX_DRIFT = 1
    Punctual = TRUE
    MaxTime = 6
    InitialShifts <- RightClock
    WallSteps <- NoSteps
    MaxWallSteps = 0
SPECIFICATION Spec
SYMMETRY CallersAlike
INVARIANTS RecentCheckSuffices
