SPECIFICATION Spec
CONSTANTS
    attached <- AdapterAttached
    added <- AdapterAdded
    FrameProducers <- Producers
    Events <- BusyAgents
    Packets = TRUE
    MaxVN = 0
    Retries = FALSE
    IdleTimeouts = TRUE
    Calls <- EndingCalls
INVARIANTS NeverPanics
PROPERTIES StopReturns CloseFrameCloses
CHECK_DEADLOCK FALSE
