\* Three transactions, one request per on_tick call.
SPECIFICATION Spec
CONSTANTS
    Server = server
    Clients = {client}
    TxIDs = {t1, t2, t3}
    MsgIDs = {1}
    Keys = {k1, k2}
    Values = {v1}
    Batches <- MCBatches
    MaxBatch = 1
    MaxClock = 9
    MaxPuts = 1
CONSTRAINT Bounds
SYMMETRY Symmetry
INVARIANTS
    TypeOK
    FirstCommitterWins
    ConflictIsReal
    UniqueTimestamps
PROPERTIES
    HistoryIsFinal
    ImplementsSnapshotIsolation
CHECK_DEADLOCK FALSE
