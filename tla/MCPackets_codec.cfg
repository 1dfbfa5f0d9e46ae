SPECIFICATION Spec
CONSTANTS
    Conn <- Connection
    Types = {"Initial", "0RTT", "Handshake", "1RTT"}
    FramesFor <- FramesOfType
    MaxFrames = 2
    StartNumbers = {0, 255, 520}
    Numbers <- PacketNumbers
    Parameters <- EndpointParameters
    Cleartext <- ServerPackets
    MTU = 50
    InitialLength = 82
INVARIANTS   NumberWithinOneWindow
CHECK_DEADLOCK FALSE
