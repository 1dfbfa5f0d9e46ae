------------------------------ MODULE MCSendPath ------------------------------
(* Small instances of SendPath.                                            *)
EXTENDS SendPath

Frame(l, n, p) == [level |-> l, length |-> n, priority |-> p]

Arrival(l, n, s) == [level |-> l, pn |-> n, shouldBeAcknowledged |-> s]

\* Two CRYPTO frames that do not fit into one packet, and a CLOSE frame for the best level.
CryptoAndClose == [crypto1 |-> Frame("Handshake", 2, 6), crypto2 |-> Frame("Handshake", 2, 6),
                   close |-> Frame("Best", 1, 1)]

\* Packets next to one another, the second with nothing but an ACK, and one after a hole.
WithHole == {Arrival("Handshake", 0, TRUE), Arrival("Handshake", 1, FALSE),
             Arrival("Handshake", 3, FALSE)}
=============================================================================
