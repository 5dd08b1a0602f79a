SPECIFICATION FairKmtSpec
CONSTANTS
    Producers <- FirstHalf
    Consumers <- SecondHalf
    BufSize = 1
    NoThread = NoThread
    NCPU = 2
    NThreads = 4
    MaxCt = 1
INVARIANTS
    SemInv
    KmtInv
    StackExclusive
    ContextFresh
PROPERTIES
    BracketSpec
    ResumeOnlyIfWoken
    OnceOffAlwaysOff
    SemRefinement
    Progress
