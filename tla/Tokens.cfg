CONSTANTS
    Texts <- MCTexts
    Limits = {3}
SPECIFICATION Spec
INVARIANTS
    PieceIsOneRun
CHECK_DEADLOCK FALSE
