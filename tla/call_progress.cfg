CONSTANTS
    Tasks = {c1, c2, c3, c4}
    REQUEST_INTERVAL = 2
    TIME_INTERVAL = 4
    HTTP_TIMEOUT = 3
SPECIFICATION ProgressSpec
INVARIANTS ProgressTypeOK
PROPERTIES EveryCallReturns WaitOnlyShrinks
