SPECIFICATION Spec
CONSTANTS
    None = None
    StreamIds <- Ids
    Sessions <- All
INVARIANTS WrittenIsSent OneFinalSize  
PROPERTIES EventuallyReported StopEnds
CHECK_DEADLOCK FALSE
