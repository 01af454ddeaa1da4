CONSTANTS
    f = f
    g = g
    File = {f, g}
    PageId = {0}
    VACANT = VACANT
    Content = {x}
    Zeros = Zeros
    Garbage = Garbage
    Absent = Absent
    nPageBlocks = 2
    nCacheBlocks = 1
    MaxStamp = 1
    Volatile <- Addr
    Refusals <- AllOrNothing
SPECIFICATION Spec
PROPERTIES CacheOverflows
CHECK_DEADLOCK FALSE
