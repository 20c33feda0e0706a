\* Three workers, four tasks, a queue of one place, the smallest legal buffer.
CONSTANTS
    w1 = w1
    w2 = w2
    w3 = w3
    Workers <- MCWorkers
    Main = main
    Skip = 0
    Events = 4
    MaxStandard = 1
    MaxPriority = 3
    Reserve <- MCReserve
    Ids <- MCIds
SPECIFICATION FairSpec
INVARIANTS
    NoLostCompletion
    QueueSound
PROPERTIES
    EventuallyDrained
    InvalidateReleases
    RefinesOrderedQueue
CHECK_DEADLOCK FALSE
