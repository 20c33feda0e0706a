\* Two workers, event 1 skipped, events 2 .. 4, the second of two modules
\* sequential.
CONSTANTS
    w1 = w1
    w2 = w2
    Main = main
    Nothing = nothing
    Workers <- MCTwoWorkers
    Skip = 1
    Events = 3
    NumModules = 2
    Sequential = {2}
    Faults = {"skip", "missing", "abort", "endofrun", "fatal", "interrupt"}
    MaxStandard = 1
    MaxPriority = 2
    Reserve <- MCReserve
    Ids <- MCIds
SPECIFICATION FairSpec
INVARIANTS
    SequentialExclusion
    SequentialOrder
    EngineContinues
    FinishedCountExact
    NoEventLost
PROPERTIES
    Terminates
    ImplementsEventOrder
CHECK_DEADLOCK FALSE
