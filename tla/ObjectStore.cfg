\* Three events of four kinds, two of them alive at a time when reading.
CONSTANTS
    NumEvents = 3
    Concurrent = 2
    Detectors = {"d1", "d2"}
    Contents <- MCContents
    WriteFilters <- MCWriteFilters
    ReadFilters <- MCReadFilters
    NULL = NULL
SPECIFICATION Spec
INVARIANTS
    ReadBackExact
    LinksRestored
CHECK_DEADLOCK FALSE
