SPECIFICATION Spec
CONSTANTS
    Waits = {"INFINITE", "finite"}
    MaxSignals = 4
    Targets = {"vertices", "pattern", "panda", "levels"}
    Entry <- MCEntry
    MaxCopies = 3
INVARIANTS
    UploaderTypeOK
    UploadedIsThere
PROPERTIES
    WaitReachesValue
    SignalAndWaitDrains
    WaitEnds
