SPECIFICATION Spec
CONSTANTS
    Size = 5
    Frames <- AnyFrames
    MaxUint64 <- Unset
INVARIANTS BufferReachesMax OrderlyIsDelivered ClosedExactlyWhenComplete GapsAreTheHoles
PROPERTIES FinalSizeIsFinal
CHECK_DEADLOCK FALSE
