SPECIFICATION PmmSpec
CONSTANTS
    HeapLo = 32
    HeapHi = 52
    Sizes = {3, 4, 8, 20}
    NullPtr = NullPtr
    NSlots = 11
    MaxLive = 4
VIEW View
INVARIANTS
    PmmInv
    ChecksPass
PROPERTIES
    HeapUntilTangled
CHECK_DEADLOCK FALSE
