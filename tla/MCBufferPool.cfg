\* Two frames for the pages of two files.
SPECIFICATION Spec
CONSTANTS
    FrameCount = 2
    FDs = {3, 4}
    Inodes = {i1, i2}
    MaxPages = 2
    PageValues = {0, 1}
    Zero = 0
    Holders = {h1, h2}
    Reopens = FALSE
    DiskMayFill = TRUE
    MaxUsage = 2
CONSTRAINT Bounds
SYMMETRY Symmetry
INVARIANTS
    TypeOK
    LayersAgree
    DescriptorsNotReused
    HeldPagesStay
PROPERTIES
    ImplementsPagedFiles
    PutComesCloser
CHECK_DEADLOCK FALSE
