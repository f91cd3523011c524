SPECIFICATION Spec
CONSTANTS
    M_POOL_ALIGNMENT = 256
    PoolByteSize = 1200
    AskedSizes <- MCAskedSizes
    MaxFrame = 4
    MaxUsed = 3000
PROPERTY
    NewViewInPool
