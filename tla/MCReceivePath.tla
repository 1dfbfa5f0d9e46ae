---------------------------- MODULE MCReceivePath ----------------------------
(* A small server for ReceivePath, and networks that lose and duplicate.   *)
EXTENDS ReceivePath

Pkt(t, c, fs) == [type |-> t, frames |-> fs, crypto |-> c, broken |-> FALSE]

Damaged(p) == [p EXCEPT !.broken = TRUE]

Server == <<
    \* a ServerHello coalesced with the first of two Handshake messages
    <<Pkt("Initial", {1}, {}), Pkt("Handshake", {1}, {})>>,
    \* the second Handshake message with HANDSHAKE_DONE behind it
    <<Pkt("Handshake", {2}, {"PING"}), Pkt("1RTT", {}, {"DONE"})>>,
    \* a packet that only the 1-RTT keys open
    <<Pkt("1RTT", {1}, {"DONE", "BLOCKED"})>>,
    \* a damaged packet, a late Retry, a stateless reset, a close
    <<Damaged(Pkt("Handshake", {}, {})), Pkt("1RTT", {}, {})>>,
    <<Pkt("Retry", {}, {})>>,
    <<Pkt("Reset", {}, {})>>,
    <<Pkt("1RTT", {}, {"CLOSE"})>>>>

TwoFlights == [l \in Levels |-> IF l = "Handshake" THEN 2 ELSE 1]

Ordinary == <<1, 1, 1, 0, 0, 0, 0>>
Repeating == <<1, 2, 0, 0, 0, 0, 0>>
Disturbed == <<1, 0, 0, 1, 1, 0, 0>>
Resetting == <<1, 1, 0, 0, 0, 1, 0>>
Closing == <<1, 1, 0, 0, 0, 0, 1>>

SmallNetworks == {Ordinary, Repeating, Disturbed, Resetting, Closing}
=============================================================================
