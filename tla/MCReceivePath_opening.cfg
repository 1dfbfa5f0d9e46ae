SPECIFICATION Spec
CONSTANTS
    Datagrams <- Server
    MaxCopies = 2
    Networks <- SmallNetworks
    MaxMessages = 2
    Messages <- TwoFlights
INVARIANTS KeysBeforeAnnouncement 
PROPERTIES PacketsOpenedOnce NothingLeftLying
CHECK_DEADLOCK FALSE
