\* Four instances in three sections, two of them of the same name; two message
\* types, up to three messages in the event.
CONSTANTS
    NumModules = 4
    Section <- MCSection
    UniqueName <- MCUniqueName
    Detector <- MCDetector
    Input <- MCInput
    Bindings <- MCBindings
    MessageTypes = {"A", "B"}
    Detectors = {"d1"}
    NoDetector = none
    Names = {"", "a"}
    MaxMessages = 3
SPECIFICATION Spec
INVARIANTS
    RegistryExact
    BestInstanceRuns
    MessagesTrue
    RequiredBeforeRun
CHECK_DEADLOCK FALSE
