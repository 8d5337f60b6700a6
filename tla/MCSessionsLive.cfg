SPECIFICATION MCFairSpec
CONSTANTS
    Accounts = {ann, bob}
    NoAccount = nobody
    NumSlots = 2
    MaxSockets = 1
    MaxConnections = 2
    MaxPackets = 2
PROPERTIES
    KickedIsSilent
    LostPlayerLeaves
    AuthIsAnswered
    KickedIsClosed
CHECK_DEADLOCK FALSE
