SPECIFICATION Spec
CONSTANTS
    Workloads <- Everything
    MaxBehind = 1
    MaxIncoming = 1
    MaxLoss = 1
    MaxEarly = 1
  
PROPERTIES  ClosingEnds
CHECK_DEADLOCK FALSE
