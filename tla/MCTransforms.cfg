SPECIFICATION Spec
CHECK_DEADLOCK FALSE
CONSTANTS
    Axes <- MCAxes
    Angles <- MCAngles
    MaxTurns = 2
    Matrices <- MCMatrices
    Tolerances <- MCTolerances
INVARIANTS
    TurnsAgree
    CameraSees
    Factorised
    InverseIsOne
