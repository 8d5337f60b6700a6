SPECIFICATION FairSpec
CONSTANTS
    Clients = {c1, c2}
    ChunkSize = 2
    Sizes <- MCSizes
INVARIANTS
    TypeOK
    DownloadInv
    CompleteIsOneSnapshot
    NobodyIsRefused
PROPERTIES
    DownloadEnds
CHECK_DEADLOCK FALSE
