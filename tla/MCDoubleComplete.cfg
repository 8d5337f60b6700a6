SPECIFICATION Spec
CONSTANTS
    Host = host
    Clients = {c1}
    SingleThread = TRUE
    MaxHostEvents = 2
    MaxClientEvents = 1
INVARIANTS
    NoDoubleComplete
CHECK_DEADLOCK FALSE
