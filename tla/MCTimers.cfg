SPECIFICATION FairSpec
CONSTANTS
    MaxTimers = 3
    MaxTime = 2
    MaxRepeats = 2
    Delays = {0, 2}
INVARIANTS
    TypeOK
    TablesMatchScripts
    FirstRunKept
PROPERTIES
    RunsAsExpected
    TimersRun
    ExitEnds
CHECK_DEADLOCK FALSE
