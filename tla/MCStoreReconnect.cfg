\* A table is connected twice, as restart() of test_buffer_pool.cpp does.
SPECIFICATION Spec
CONSTANTS
    FrameCount = 2
    FDs = {3, 4}
    Inodes = {i1}
    MaxPages = 2
    Reopens = TRUE
    DiskMayFill = FALSE
    PageSize = 25
    schema <- TestSchema
    Rows <- WellTypedRows
    Names = {n1}
    MaxCrashes = 0
    MaxInserts = 3
    MaxEvents = 1
    MaxUsage = 2
CONSTRAINTS
    Bounds
    OneTable
PROPERTIES
    GetsWhatWasInserted
