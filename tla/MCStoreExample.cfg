\* The schema and a row of example/main.cpp.
SPECIFICATION Spec
CONSTANTS
    FrameCount = 1
    FDs = {3, 4}
    Inodes = {i1, i2}
    MaxPages = 2
    Reopens = FALSE
    DiskMayFill = FALSE
    PageSize = 40
    schema <- ExampleSchema
    Rows <- ExampleRows
    Names = {n1}
    MaxCrashes = 0
    MaxInserts = 3
    MaxEvents = 1
    MaxUsage = 2
CONSTRAINT Bounds
INVARIANT RowsReadBack
CHECK_DEADLOCK FALSE
