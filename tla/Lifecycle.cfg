\* Two modules, event 1 skipped, events 2 .. 4.
CONSTANTS
    NumModules = 2
    Skip = 1
    Events = 3
SPECIFICATION FairSpec
INVARIANTS
    StagesInOrder
    ExceptionsReachExit
    RunsAreFinalized
    ThreadHooksPaired
    InTurn
PROPERTIES
    Terminates
CHECK_DEADLOCK FALSE
