SPECIFICATION Spec
CONSTANTS
    Size = 8
    Frames <- Segments
    MaxUint64 <- Unset
INVARIANT DeliveredIsTheStream
