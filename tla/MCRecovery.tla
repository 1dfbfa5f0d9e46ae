----------------------------- MODULE MCRecovery -----------------------------
(* Loss recovery of early data, of the handshake's end, of application     *)
(* data alone, and of connections that one side closes.                    *)
EXTENDS Recovery

Numbers(initial, handshake, app) == [Initial |-> initial, Handshake |-> handshake, AppData |-> app]
Work(level, numbers, event) == [level |-> level, numbers |-> numbers, event |-> event]

EarlyData    == Work([hello |-> "Initial", early |-> "BestAppData"], Numbers(2, 0, 3), "retry")
HandshakeEnd == Work([fin |-> "Handshake", data |-> "BestAppData"], Numbers(0, 2, 3), "close")
TwoFrames    == Work([a |-> "1RTT", b |-> "1RTT"], Numbers(0, 0, 4), "none")
PeerCloses   == Work([a |-> "1RTT"], Numbers(0, 0, 3), "peerClose")

Everything == {EarlyData, HandshakeEnd, TwoFrames, PeerCloses}
=============================================================================
