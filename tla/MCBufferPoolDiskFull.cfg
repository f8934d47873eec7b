\* One frame, one file, and a disk that may be full.
SPECIFICATION Spec
CONSTANTS
    FrameCount = 1
    FDs = {3}
    Inodes = {i1}
    MaxPages = 2
    PageValues = {0, 1}
    Zero = 0
    Holders = {h1}
    Reopens = FALSE
    DiskMayFill = TRUE
    MaxUsage = 2
CONSTRAINT Bounds
INVARIANT ReadsWholePages
CHECK_DEADLOCK FALSE
