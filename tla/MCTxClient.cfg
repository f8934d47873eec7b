SPECIFICATION Spec
CONSTANTS
    Server = server
    Clients = {client}
    TxIDs = {1, 2}
    MsgIDs = {1, 2, 3}
    Keys = {k1, k2}
    Values = {v1}
    k1 = k1
    k2 = k2
    v1 = v1
    other = other
    ClientTxs <- MCClientTxs
    TxsOf <- MCTxsOf
    Discoveries <- MCDiscoveries
    TxSpecs <- MCTxSpecs
    ReplyBatches <- MCReplyBatches
    MaxBatch = 2
    MaxClock = 12
CONSTRAINT Bounds
INVARIANTS
    ClientTypeOK
    CommitAfterEveryPut
    OneMessagePerTick
    VerdictsAgree
CHECK_DEADLOCK FALSE
