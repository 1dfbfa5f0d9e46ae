SPECIFICATION Spec
CONSTANTS
    StreamIds <- Client
    Limits <- FewLimits
    Spaces <- Roomy
    Configurations <- DefaultAndAdapter
    tpLocal <- Small
    tpRemote <- Peer
    CurrentStreamID = 4
    ForcedMaxData = 4
    MaxUint64 = 100
    DataBound = 3
    QueueBound = 1
INVARIANTS ReservedWithinLimits CreditAddsUp 
PROPERTIES GrantsOnlyGrow
