\* Two transactions, several requests per on_tick call, repeated puts of a key.
SPECIFICATION Spec
CONSTANTS
    Server = server
    Clients = {client}
    TxIDs = {t1, t2}
    MsgIDs = {1}
    Keys = {k1, k2}
    Values = {v1, v2}
    Batches <- MCBatches
    MaxBatch = 2
    MaxClock = 4
    MaxPuts = 2
CONSTRAINT Bounds
SYMMETRY Symmetry
INVARIANTS
    LoopsAgree
    AtomicVisibility
PROPERTY ImplementsSnapshotIsolation
CHECK_DEADLOCK FALSE
