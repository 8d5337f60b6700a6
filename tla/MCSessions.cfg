SPECIFICATION MCSpec
CONSTANTS
    Accounts = {ann, bob, cy}
    NoAccount = nobody
    NumSlots = 2
    MaxSockets = 3
    MaxConnections = 3
    MaxPackets = 0
INVARIANTS
    TypeOK
    SessionInv
    SessionsMatchSlots
PROPERTIES
    SlotsChangeHandsOpen
SYMMETRY AccountSymmetry
CHECK_DEADLOCK FALSE
