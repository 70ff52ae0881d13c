CONSTANTS
    MailboxCapacity = 2
    EventCapacity = 1
    MaxInFlight = 2
    MaxCalls = 3
    MaxTicks = 1
    LastConfig = 1
SPECIFICATION FairSpec
INVARIANTS
    InitialViewFirst
    RoundWithoutVoteWasOvertaken
PROPERTIES
    CallersReleased
    AlertsLeave
    VoteFallsBack
    ShutdownCompletes
CHECK_DEADLOCK FALSE
