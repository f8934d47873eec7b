\* Two tables share one frame: every page is evicted again and again.
SPECIFICATION Spec
CONSTANTS
    FrameCount = 1
    FDs = {3, 4}
    Inodes = {i1, i2}
    MaxPages = 2
    Reopens = FALSE
    DiskMayFill = FALSE
    PageSize = 25
    schema <- TestSchema
    Rows <- TestRows
    Names = {n1, n2}
    MaxCrashes = 1
    MaxInserts = 3
    MaxEvents = 1
    MaxUsage = 2
CONSTRAINTS
    Bounds
    NamesInOrder
ACTION_CONSTRAINT LowestDescriptor
INVARIANT RowsAreWhatWasInserted
PROPERTIES
    ImplementsRowStore
    GrowsOnlyWhenFull
    CallsComeCloser
    OperationsEnd
CHECK_DEADLOCK FALSE
