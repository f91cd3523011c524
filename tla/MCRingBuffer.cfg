SPECIFICATION FairSpec
CONSTANTS
    BufferSize = 5
    Sizes <- MCSizes
    MaxFrame = 4
    MaxUsed = 12
INVARIANTS
    TypeOK
    QueueCoversGpu
PROPERTIES
    NoOverwrite
    ClearAfterGpu
    ImplementsAllocator
    AllocationEnds
