\* Four events from number 1, 2 or 4 on; files that end before, with and after them.
CONSTANTS
    Formats = {"CSV", "ROOT", "BLOCKS", "GENIE", "HEPMC"}
    Files <- MCFiles
    Detectors = {"d1", "d2"}
    Skips = {0, 1, 3}
    NumEvents = 4
    NULL = NULL
SPECIFICATION InputSpec
INVARIANTS
    DeliveredExactly
    ParticlesTrue
PROPERTIES
    EventsFinish
CHECK_DEADLOCK FALSE
