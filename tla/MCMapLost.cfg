SPECIFICATION Spec
CONSTANTS
    Roles = {"client"}
    MaxGames = 1
INVARIANT MapOutlivesInitialize
CHECK_DEADLOCK FALSE
