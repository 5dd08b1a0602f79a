SPECIFICATION FairSpec
CONSTANTS
    t1 = t1 t2 = t2 t3 = t3
    h1 = h1 h2 = h2 h3 = h3
    Threads = {t1, t2, t3}
    Handles = {h1, h2, h3}
    None = None
    Uses <- Partitions
    MaxCalls = 5
    MaxDeaths = 1
CHECK_DEADLOCK FALSE
PROPERTIES
    HeadKept
