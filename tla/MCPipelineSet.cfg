SPECIFICATION Spec
CHECK_DEADLOCK FALSE
CONSTANTS
    HeapSize = 6
    Tables <- MCTables
    DescriptorCount <- MCDescriptorCount
    Views <- MCViews
    AutoReplace <- MCAutoReplace
    CloneArguments <- MCCloneArguments
    CallerRules <- BothRules
    MaxDraws = 2
    MaxClones = 1
    MaxFrame = 3
    MaxUsed = 20
PROPERTIES
    DrawnIsKept
    ClearAfterDraws
    BoundIsComplete
