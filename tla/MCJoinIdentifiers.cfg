SPECIFICATION Spec
CONSTANTS
    a = a
    b = b
    c = c
    NoConfig = NoConfig
    Members <- MCMembers
    Observers <- MCObservers
    Seed = a
    H = 1
    Retries = 3
    LastId = 3
    MaxEvents = 1
INVARIANT
    IdentifiersComplete
CHECK_DEADLOCK FALSE
