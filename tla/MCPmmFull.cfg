SPECIFICATION PmmSpec
CONSTANTS
    HeapLo = 4
    HeapHi = 16
    Sizes = {4}
    NullPtr = NullPtr
    NSlots = 12
    MaxLive = 4
INVARIANTS
    ChecksNeverFail
