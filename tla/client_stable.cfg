CONSTANTS
    Tasks = {c1, c2, c3}
    None = None
    REQUEST_INTERVAL = 1
    TIME_INTERVAL = 2
    HTTP_TIMEOUT = 1
    CLOCK_MAX_AGE = 2
    CLOCK_MAX_SKEW = 1
    MAX_DRIFT = 1
    Punctual = TRUE
    MaxTime = 4
    InitialShifts <- StableShifts
    WallSteps <- NoSteps
    MaxWallSteps = 0
SPECIFICATION Spec
SYMMETRY CallersAlike
INVARIANTS TypeOK LocksHeldByWaiters SyncSampleRecent AcceptedClockAccurate SyncWaitsItsTurn InFlightBounded
PROPERTIES WirePaced CallsImplementProgress ObservationHonest
