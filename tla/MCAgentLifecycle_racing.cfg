SPECIFICATION Spec
CONSTANTS
    attached <- DefaultAttached
    added <- DefaultAdded
    FrameProducers <- OneProducer
    Events <- NoAgents
    Packets = TRUE
    MaxVN = 1
    Retries = TRUE
    IdleTimeouts = FALSE
    Calls <- RacingCalls
PROPERTIES OneGoroutinePerAgent
CHECK_DEADLOCK FALSE
