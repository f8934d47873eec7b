\* Three transactions of two clients.
SPECIFICATION Spec
CONSTANTS
    Server = server
    c1 = c1
    c2 = c2
    Clients = {c1, c2}
    TxIDs = {1, 2, 3}
    MsgIDs = {1, 2, 3, 4, 5, 6}
    k1 = k1
    k2 = k2
    v1 = v1
    v2 = v2
    Keys = {k1, k2}
    Values = {v1, v2}
    Registrations <- MCRegistrations
    MaxTicks = 14
    ClientTxs = {"a", "b", "c"}
    TxsOf <- TwoAndOne
    Discoveries <- OneServer
    TxSpecs <- MCTxSpecs
    Actions = {"COMMIT"}
INVARIANTS
    NoFailure
    OneMessagePerTransaction
    PutsInOrder
    ClientsAgreeWithServer
    StoreIsWhatClientsCommitted
    Conversations
CHECK_DEADLOCK FALSE
