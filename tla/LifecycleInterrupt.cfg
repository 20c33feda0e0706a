\* A signal while the modules are being loaded.
CONSTANTS
    NumModules = 2
    Skip = 1
    Events = 3
SPECIFICATION FairSpec
INVARIANT
    InterruptEndsProperly
CHECK_DEADLOCK FALSE
