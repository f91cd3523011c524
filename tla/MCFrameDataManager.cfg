SPECIFICATION FairSpec
CHECK_DEADLOCK FALSE
CONSTANTS
    FrameCount = 3
    MaxFrame = 8
INVARIANTS
    Inv
PROPERTIES
    DataIsFree
    PrevWaitDrains
    WaitEnds
