SPECIFICATION FairSpec
CONSTANTS
    Roles = {"master", "client"}
    MaxGames = 3
INVARIANTS
    TypeOK
    CrashIsLoss
    FrontendIsCurrent
    NoStaleCancel
PROPERTIES
    WaitsEnd
    QuitEnds
CHECK_DEADLOCK FALSE
