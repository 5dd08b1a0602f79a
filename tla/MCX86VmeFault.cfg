SPECIFICATION VmeSpec
CONSTANTS
    Spaces = {sa, sb}
    Kernel = kas
    Processors = {c0, c1}
    Bsp = c0
    Tables = {t1, t2, t3, t4, t5, t6}
    Index = {0, 1, 2}
    UserPaths <- TwoUserPaths
    KernelPaths <- TwoKernelPaths
    UserFrame = 50
    Ident <- OwnFrame
VIEW View
INVARIANT
    NotPresent
CHECK_DEADLOCK FALSE
