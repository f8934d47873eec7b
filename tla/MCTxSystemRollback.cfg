\* Specs that ask for a rollback in the end.
SPECIFICATION Spec
CONSTANTS
    Server = server
    c1 = c1
    c2 = c2
    Clients = {c1, c2}
    TxIDs = {1, 2}
    MsgIDs = {1, 2, 3, 4}
    k1 = k1
    k2 = k2
    v1 = v1
    v2 = v2
    Keys = {k1, k2}
    Values = {v1, v2}
    Registrations <- MCRegistrations
    MaxTicks = 20
    ClientTxs = {"a", "b"}
    TxsOf <- OneEach
    Discoveries <- OneServer
    TxSpecs <- MCTxSpecs
    Actions = {"COMMIT", "ROLLBACK"}
PROPERTIES
    EndsAsSpecified
CHECK_DEADLOCK FALSE
