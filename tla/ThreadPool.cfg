\* Two workers, three tasks, a queue of one place, exceptions in every stage.
CONSTANTS
    w1 = w1
    w2 = w2
    Main = main
    NoWorker = none
    Workers <- MCWorkers
    Tasks = 3
    Modulus = 8
    Throws = {"init", "task", "finalize"}
    MaxPauses = 1
    MaxStandard = 1
    MaxPriority = 2
    Reserve <- MCReserve
    Ids <- MCIds
SPECIFICATION FairSpec
INVARIANTS
    RunCountExact
    WaitReturnsDrained
    TaskExceptionsReachMain
PROPERTIES
    Terminates
CHECK_DEADLOCK FALSE
