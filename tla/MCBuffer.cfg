CONSTANTS
    f = f
    g = g
    File = {f, g}
    PageId = {0}
    VACANT = VACANT
    Content = {x}
    Zeros = Zeros
    Garbage = Garbage
    Absent = Absent
    nPageBlocks = 2
    nCacheBlocks = 2
    MaxStamp = 1
    Volatile <- OneVolatile
    Refusals <- AllOrNothing
SPECIFICATION Spec
CONSTRAINT OneAtATime
INVARIANTS TypeOK OneCopy
PROPERTIES ImplementsPageStore PinnedStays
CHECK_DEADLOCK FALSE
