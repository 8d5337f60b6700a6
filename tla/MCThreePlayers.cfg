SPECIFICATION AgreementSpec
CONSTANTS
    Host = host
    Clients = {c1, c2}
    SingleThread = FALSE
    MaxHostEvents = 2
    MaxClientEvents = 1
INVARIANTS
    NothingAhead
    SettledReplicasAgree
    ReplicasFollow
SYMMETRY ClientSymmetry
CHECK_DEADLOCK FALSE
