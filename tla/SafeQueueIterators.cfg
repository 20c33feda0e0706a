\* Three workers complete events out of order.
CONSTANTS
    w1 = w1
    w2 = w2
    w3 = w3
    Workers <- MCWorkers
    Main = main
    Skip = 0
    Events = 3
    MaxStandard = 1
    MaxPriority = 3
    Reserve <- MCReserve
    Ids <- MCIds
SPECIFICATION FairSpec
INVARIANT
    IteratorsAlive
CHECK_DEADLOCK FALSE
