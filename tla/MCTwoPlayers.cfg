SPECIFICATION FairSpec
CONSTANTS
    Host = host
    Clients = {c1}
    SingleThread = TRUE
    MaxHostEvents = 4
    MaxClientEvents = 2
INVARIANTS
    TypeOK
    ResponseHasEvent
    AwaitedEventInFlight
    HostQueueInv
PROPERTIES
    ClientTurnMonotone
    HostPlaysTurnGame
    EventuallyAnswered
    CompletedTurnEnds
CHECK_DEADLOCK FALSE
