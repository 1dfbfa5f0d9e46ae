------------------------------ MODULE Streams ------------------------------
(***************************************************************************)
(* The receiving half of one Stream (streams.go): STREAM frames, and the   *)
(* CRYPTO frames of one packet-number space, arrive in any order and       *)
(* addToRead turns them into the in-order byte stream that is broadcast on *)
(* ReadChan.                                                               *)
(*                                                                         *)
(* A peer sends the same byte every time it sends an offset, so a byte of  *)
(* ReadData is abstracted to where it comes from: position i holds i once  *)
(* that byte has been copied in, and Zero while it is the zero that        *)
(* make([]byte, n) left there.                                             *)
(***************************************************************************)
EXTENDS ByteIntervals, FiniteSets

CONSTANTS Frames,     \* the frames the peer may send: [Offset, Length, FinBit]
          MaxUint64   \* the value of ReadCloseOffset until a FIN is seen

ASSUME FramesAssumption ==
    /\ MaxUint64 \in Nat
    /\ Frames \subseteq [Offset : Nat, Length : Nat, FinBit : BOOLEAN]
    /\ \A f \in Frames : f.Offset + f.Length < MaxUint64

VARIABLES ReadOffset, maxReadReceived, ReadData, gaps, ReadCloseOffset, ReadClosed,
          delivered,  \* every byte broadcast on ReadChan so far, in order
          received,   \* history: the offsets some accepted frame carried
          orderly,    \* history: every accepted frame kept to the final size and repaired holes from the front
          halted      \* addToRead waits for a ReadChan that is closed

vars == <<ReadOffset, maxReadReceived, ReadData, gaps, ReadCloseOffset, ReadClosed,
          delivered, received, orderly, halted>>

Zero == 0
End(f) == f.Offset + f.Length
Offsets(f) == f.Offset .. End(f) - 1
Bytes(from, to) == [i \in 1 .. to - from |-> from + i]   \* the genuine bytes from..to-1

TypeOK ==
    /\ ReadOffset \in Nat /\ maxReadReceived \in Nat
    /\ ReadData \in Seq(Nat) /\ delivered \in Seq(Nat)
    /\ gaps \in Seq([start : Nat, end : Nat])
    /\ ReadCloseOffset \in Nat
    /\ ReadClosed \in BOOLEAN /\ halted \in BOOLEAN /\ orderly \in BOOLEAN
    /\ received \subseteq Nat

\* NewStream
Init ==
    /\ ReadOffset = 0 /\ maxReadReceived = 0
    /\ ReadData = <<>> /\ gaps = <<>> /\ delivered = <<>>
    /\ ReadCloseOffset = MaxUint64 /\ ReadClosed = FALSE
    /\ received = {} /\ orderly = TRUE /\ halted = FALSE

-----------------------------------------------------------------------------
(* addToRead, one disjunct per branch.                                     *)

\* ReadChan.Submit followed by the wait on readFeedback.  Once ReadChan has been
\* closed its broadcaster no longer runs, and the wait does not return.
Submit(data) ==
    /\ halted' = ReadClosed
    /\ delivered' = IF ReadClosed THEN delivered ELSE delivered \o data

NoSubmit == UNCHANGED <<delivered, halted>>

\* Past the final size, or a FIN that moves it.
WritePastFin(f) == f.Offset > ReadCloseOffset
\* Mutant: a FIN may move the final size.
MovesFinUnchecked(f) == FALSE
MovesFin(f) == f.FinBit /\ ReadCloseOffset \notin {MaxUint64, End(f)}

InOrder(f) == f.Offset = ReadOffset /\ f.Offset = maxReadReceived
Beyond(f) == ~InOrder(f) /\ End(f) > maxReadReceived
Within(f) == ~InOrder(f) /\ End(f) <= maxReadReceived

\* What every accepted frame does before and after its branch.
ReadCloseOffsetAfter(f) == IF f.FinBit THEN End(f) ELSE ReadCloseOffset
\* Mutant: the stream is closed when its end has been seen, holes or not.
CloseWhenAtEarly(f) == ReadClosed' = (ReadClosed \/ maxReadReceived' = ReadCloseOffsetAfter(f))
CloseWhenAt(f) == ReadClosed' = (ReadClosed \/ ReadOffset' = ReadCloseOffsetAfter(f))

\* A peer that loses packets, duplicates them and sends lost data again from the front of
\* each hole: a frame repeats data that arrived, or lies past all data seen, or starts
\* where a hole starts and stays inside it.  Holes may be repaired in any order.
RepairsHolesFromTheFront(f) ==
    \/ Offsets(f) \subseteq received
    \/ f.Offset >= maxReadReceived
    \/ /\ End(f) <= maxReadReceived
       /\ Offsets(f) \cap received = {}
       /\ f.Offset = 0 \/ f.Offset - 1 \in received

KeepsToFinalSize(f) ==
    /\ ReadCloseOffset \in {MaxUint64, ReadCloseOffsetAfter(f)}
    /\ End(f) <= ReadCloseOffsetAfter(f) /\ maxReadReceived <= ReadCloseOffsetAfter(f)

Accept(f) ==
    /\ ~WritePastFin(f) /\ ~MovesFin(f)
    /\ ReadCloseOffset' = ReadCloseOffsetAfter(f)
    /\ received' = received \cup Offsets(f)
    /\ orderly' = (orderly /\ RepairsHolesFromTheFront(f) /\ KeepsToFinalSize(f))
    /\ CloseWhenAt(f)

\* Mutant: in-order data is handed out but not kept.
KeptNot(f) == ReadData

Kept(f) == ReadData \o Bytes(f.Offset, End(f))

HandOut(f) == IF f.Length > 0 THEN Submit(Bytes(f.Offset, End(f))) ELSE NoSubmit

AddInOrder(f) ==
    /\ InOrder(f)
    /\ ReadOffset' = End(f)
    /\ maxReadReceived' = End(f)
    /\ ReadData' = Kept(f)
    /\ HandOut(f)
    /\ UNCHANGED gaps
    /\ Accept(f)

\* Mutant: the gap ends one byte late.
GapBeforeInclusive(f) == byteInterval(maxReadReceived, f.Offset + 1)
GapBefore(f) == byteInterval(maxReadReceived, f.Offset)

AddBeyond(f) ==
    /\ Beyond(f)
    /\ gaps' = IF maxReadReceived < f.Offset THEN Add(gaps, GapBefore(f)) ELSE gaps
    /\ maxReadReceived' = End(f)
    /\ ReadData' = [i \in 1 .. End(f) |-> IF i > f.Offset THEN i
                                          ELSE IF i <= Len(ReadData) THEN ReadData[i] ELSE Zero]
    /\ NoSubmit
    /\ UNCHANGED ReadOffset
    /\ Accept(f)

\* A fill that reaches the reader's position hands out everything up to the first gap left.
AddWithin(f) ==
    /\ Within(f) /\ f.Length > 0
    /\ gaps' = Fill(gaps, byteInterval(f.Offset, End(f)))
    /\ ReadData' = [i \in DOMAIN ReadData |-> IF i \in f.Offset + 1 .. End(f) THEN i ELSE ReadData[i]]
    /\ LET firstGap == IF gaps' # <<>> THEN Head(gaps').start ELSE Len(ReadData')
       IN  IF ReadOffset < firstGap
           THEN /\ Submit(SubSeq(ReadData', ReadOffset + 1, firstGap))
                /\ ReadOffset' = IF halted' THEN ReadOffset ELSE firstGap
           ELSE NoSubmit /\ UNCHANGED ReadOffset
    /\ UNCHANGED maxReadReceived
    /\ Accept(f)

AddEmpty(f) ==
    /\ Within(f) /\ f.Length = 0
    /\ NoSubmit
    /\ UNCHANGED <<ReadOffset, maxReadReceived, ReadData, gaps>>
    /\ Accept(f)

Ignore(f) ==
    /\ WritePastFin(f) \/ MovesFin(f)
    /\ UNCHANGED vars

addToRead(f) ==
    /\ ~halted
    /\ AddInOrder(f) \/ AddBeyond(f) \/ AddWithin(f) \/ AddEmpty(f) \/ Ignore(f)

-----------------------------------------------------------------------------
\* The peer sends whatever frames it likes, in any order.
Next == \E f \in Frames : addToRead(f)

Spec == Init /\ [][Next]_vars

-----------------------------------------------------------------------------
\* How far the received bytes reach without a hole.
Contiguous == CHOOSE n \in 0 .. maxReadReceived :
                  0 .. n - 1 \subseteq received /\ n \notin received

\* The bytes broadcast to the readers of ReadChan are the peer's bytes, each once
\* and in order, up to ReadOffset: never a zero left by make in the place of a byte that
\* is still missing.
DeliveredIsTheStream == delivered = Bytes(0, ReadOffset)

(* While the peer is orderly.                                              *)

\* The same, as long as holes are repaired from their front; and addToRead leaves no
\* received byte behind: every time it returns the readers have been given all the bytes
\* before the first hole.
OrderlyIsDelivered == orderly => DeliveredIsTheStream /\ ReadOffset = Contiguous

\* ReadChan is closed exactly when a FIN has given the final size and every byte before
\* it has arrived, and addToRead never submits on it afterwards, which would block the
\* goroutine that parses packets.
ClosedExactlyWhenComplete ==
    orderly => /\ ~halted
               /\ ReadClosed <=> /\ ReadCloseOffset # MaxUint64
                                 /\ 0 .. ReadCloseOffset - 1 \subseteq received

\* The gap list is exactly the set of bytes below maxReadReceived that no frame carried.
GapsAreTheHoles ==
    orderly => UNION {gaps[i].start .. gaps[i].end - 1 : i \in DOMAIN gaps}
                   = (0 .. maxReadReceived - 1) \ received

-----------------------------------------------------------------------------
(* Whatever the peer sends.                                                *)

\* The read buffer reaches exactly to the highest byte seen: the copy of a frame that
\* lies below maxReadReceived is never out of its range.
BufferReachesMax == Len(ReadData) = maxReadReceived

\* The final size, once a FIN has fixed it, and the end of the stream are for good.
FinalSizeIsFinal ==
    [][/\ ReadCloseOffset # MaxUint64 => ReadCloseOffset' = ReadCloseOffset
       /\ ReadClosed => ReadClosed']_vars

=============================================================================
