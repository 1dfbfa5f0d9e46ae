SPECIFICATION Spec
CONSTANTS
    attached <- AdapterAttached
    added <- AdapterAdded
    FrameProducers <- Producers
    Events <- BusyAgents
    Packets = TRUE
    MaxVN = 0
    Retries = TRUE
    IdleTimeouts = FALSE
    Calls <- NoCalls
PROPERTIES RestartCompletes
CHECK_DEADLOCK FALSE
