CONSTANTS
    i1 = i1
    i2 = i2
    i3 = i3
    OutIdx <- ThreeIdx
    KindOf <- ThreeKinds
    Orderly = TRUE
    MaxPendingItems = 1
    MaxPendingBytes = 2
    MaxFrames = 5
    Pipelined = FALSE
SPECIFICATION Spec
INVARIANTS
    NothingLost
    ArgumentsWhole
    SignatureCarriesContent
CHECK_DEADLOCK FALSE
