SPECIFICATION KvdbSpec
CONSTANTS
    Keys = {a, b}
    Values = {x, y}
    NoValue = NoValue
    NoPut = NoPut
    CrashPoints = {"log_free"}
    NRecords = 2
    MaxPuts = 4
    MaxCrashes = 2
CHECK_DEADLOCK FALSE
PROPERTIES
    NothingReturns
