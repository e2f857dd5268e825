CONSTANTS
    i1 = i1
    i2 = i2
    i3 = i3
    OutIdx <- AnyIdx
    KindOf <- AnyKind
    Orderly = FALSE
    MaxPendingItems = 1
    MaxPendingBytes = 1
    MaxFrames = 2
    Pipelined = TRUE
SPECIFICATION Spec
PROPERTIES
    SinkContract
    RunEnds
CHECK_DEADLOCK FALSE
