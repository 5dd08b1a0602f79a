SPECIFICATION MachineSpec
CONSTANTS
    NCPU = 3
    Others <- FourOthers
    IntMin <- Lowest
    IntMax = 3
    Events = {"timer", "yield"}
    AnyEvent = "null"
CHECK_DEADLOCK FALSE
INVARIANTS
    BootStack
    EnterOnce
    WorldStops
    Ordered
    TrapOrder
PROPERTIES
    NoneLost
    AllEnter
    HaltEnds
