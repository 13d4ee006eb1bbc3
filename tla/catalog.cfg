CONSTANTS
    None = None
    USDT = "USDT"
    Files <- AllFiles
    Instruments = {"spot", "swap"}
    Rows <- ExchangeRows
    Modes = {"NetMode", "LongShortMode"}
    FirstExchanges <- WellAtFirst
    Offsets <- AheadOrBehind
    ClockSteps <- ForthOrBack
    HTTP_TIMEOUT = 1
    MAX_AGE = 1
    MaxTime = 3
    MaxChanges = 1
SPECIFICATION CatalogSpec
INVARIANTS CatalogTypeOK FreshEvidence TargetsExecutable EveryAccountCanRun DirectoryRefusals AssessmentRefusals
CHECK_DEADLOCK FALSE
