SPECIFICATION Spec
CONSTANTS
    Frames <- CryptoAndClose
    Capacity = 3
    AckLength = 1
    Arrivals <- WithHole
    MaxReceived = 2
    Requests = {"Best"}
    MaxPrepare = 1
    OtherInitials = 1
INVARIANTS FramesSentOnce PacketNumbersConsecutive
PROPERTIES AcksAreExact FramesGoOut AcksGoOut
CHECK_DEADLOCK FALSE
