SPECIFICATION MCSpec
CONSTANTS
    ActorIDs = {server, client}
    Registrations <- MCRegistrations
    MaxTicks = 4
    Messages <- MCMessages
    Outboxes <- MCOutboxes
    Stranger = stranger
    MaxAdvance = 1
    MaxSends = 2
    MaxMessages = 4
INVARIANTS
    RuntimeTypeOK
    NoDuplicates
PROPERTIES
    ImplementsLockstepNetwork
    TimeAdvances
    RunEnds
CHECK_DEADLOCK FALSE
