SPECIFICATION HostedSpec
CONSTANTS
    Procs = {"c0", "c1"}
    Heads = {"s1", "s2"}
    Vas = {"v1", "v2"}
    Pas = {"p"}
    Readers = {"main", "other"}
    KeyQueueLen = 3
    MaxKeys = 4
    MaxSwitches = 2
    SysNames = {"read", "write"}
    Micros = {0, 1, 2}
    MaxLines = 4
    PipeLines = 2
    WordBits = 3
CHECK_DEADLOCK FALSE
INVARIANTS
    HostMatches
    EndlessByRemap
    OneMutex
    KeysInOrder
    CountedOnce
    DivisionExact
    OffsetsKept
PROPERTIES
    AllRead
    EndsAfterChild
