SPECIFICATION Spec
CONSTANTS
    Host = host
    Clients = {c1}
    SingleThread = FALSE
    MaxHostEvents = 2
    MaxClientEvents = 2
INVARIANTS
    AwaitedEventInFlight
CHECK_DEADLOCK FALSE
