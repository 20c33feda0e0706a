\* Three events of two particles with up to two tracks each, on one thread.
CONSTANTS
    Sensors = {d1, d2}
    World = world
    NumParticles = 2
    NumEvents = 3
    MaxTracks = 2
    MaxSteps = 3
    NULL = NULL
SYMMETRY Symmetry
SPECIFICATION Spec
INVARIANTS
    SeedsMatch
    OwnDataOnly
    HistoryTrue
CHECK_DEADLOCK FALSE
