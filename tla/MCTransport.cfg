CONSTANTS
    Calls = {c1, c2}
    Retries = 1
    InboxCapacity = 1
    MaxServers = 2
    MaxDrops = 1
SPECIFICATION Spec
INVARIANTS
    FailedNotCached
PROPERTIES
    ImplementsMessagingClient
    AcceptedIsHandled
    DrainEnds
CHECK_DEADLOCK FALSE
