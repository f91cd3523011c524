SPECIFICATION PipelineSpec
CHECK_DEADLOCK FALSE
CONSTANTS
    Draws <- MCDraws
    MaxPaints = 2
INVARIANTS
    NothingRefused
    ShadersReadTheirNames
    DrawnTablesStay
    DrawnAsMeant
    AgreementDecides
