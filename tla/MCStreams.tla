----------------------------- MODULE MCStreams -----------------------------
(* Small instances of Streams: one stream of Size bytes. *)
EXTENDS Streams

CONSTANT Size

\* Any frame of up to three bytes: the peer may send past its FIN, or move it.
AnyFrames == [Offset : 0 .. Size, Length : 0 .. 3, FinBit : BOOLEAN]

\* The stream cut once and for all into segments of two bytes, the last one with FIN; the
\* network reorders and duplicates them.
Segments == {[Offset |-> o, Length |-> 2, FinBit |-> o + 2 = Size] :
                o \in {k \in 0 .. Size - 2 : k % 2 = 0}}

Unset == 2 * Size + 1
=============================================================================
