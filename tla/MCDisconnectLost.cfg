SPECIFICATION Spec
CONSTANTS
    Accounts = {ann, bob}
    NoAccount = nobody
    NumSlots = 2
    MaxSockets = 2
    MaxConnections = 2
    MaxPackets = 0
INVARIANTS
    DisconnectReported
CHECK_DEADLOCK FALSE
