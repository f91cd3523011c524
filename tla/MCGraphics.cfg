SPECIFICATION FairSpec
CHECK_DEADLOCK FALSE
CONSTANTS
    BufferCount = 2
    Styles = {"record", "swap"}
    MaxFrame = 5
    MaxSwaps = 3
INVARIANT
    Inv
PROPERTIES
    ImplementsCommandMemory
    ReleaseIsQuiet
    PaintEnds
