SPECIFICATION KvdbSpec
CONSTANTS
    Keys = {a, b}
    Values = {x, y}
    NoValue = NoValue
    NoPut = NoPut
    CrashPoints = {"record"}
    NRecords = 2
    MaxPuts = 4
    MaxCrashes = 2
CHECK_DEADLOCK FALSE
INVARIANTS
    RecoverEnds
