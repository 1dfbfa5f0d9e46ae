--------------------------- MODULE ByteIntervals ---------------------------
(***************************************************************************)
(* The gap list of a receiving stream (byteInterval and byteIntervalList,  *)
(* streams.go).  The doubly linked list is a sequence of [start, end]      *)
(* records; inserting before an element, pushing and removing are          *)
(* operations on the sequence.                                             *)
(*                                                                         *)
(* addToRead uses an interval as the half-open range start .. end-1.  The  *)
(* operators below are what the code computes, whichever reading is meant. *)
(***************************************************************************)
EXTENDS Integers, Sequences

byteInterval(s, e) == [start |-> s, end |-> e]

IsBefore(b, o) == b.end <= o.start

Overlap(b, o) ==
    \/ o.start <= b.end   /\ o.end >= b.end
    \/ b.start <= o.end   /\ b.end >= o.end
    \/ b.start <= o.start /\ b.end >= o.end
    \/ o.start <= b.start /\ o.end >= b.end

Merge(b, o) == byteInterval(IF b.start < o.start THEN b.start ELSE o.start,
                            IF b.end > o.end THEN b.end ELSE o.end)

\* Mutant: filling the head of a gap removes the whole gap.
ExcludeHeadDropped(b, o) ==
    CASE o.start > b.start /\ o.end < b.end -> <<byteInterval(b.start, o.start - 1),
                                                 byteInterval(o.end + 1, b.end)>>
      [] o.start <= b.start /\ o.end < b.end -> <<>>
      [] o.end > b.end -> <<byteInterval(b.start, o.start)>>
      [] OTHER -> <<>>

\* What is left of gap b once o is filled.
Exclude(b, o) ==
    CASE o.start > b.start /\ o.end < b.end -> <<byteInterval(b.start, o.start - 1),
                                                 byteInterval(o.end + 1, b.end)>>
      [] o.start <= b.start /\ o.end < b.end -> <<byteInterval(o.end, b.end)>>
      [] o.end > b.end -> <<byteInterval(b.start, o.start)>>
      [] OTHER -> <<>>

\* One turn of ensureConsistency: n is merged with its predecessor when they overlap or touch.
Joined(done, n) ==
    IF done # <<>> /\ Overlap(done[Len(done)], n)
    THEN [done EXCEPT ![Len(done)] = Merge(@, n)]
    ELSE Append(done, n)

ensureConsistency(l) ==
    LET done[k \in 0 .. Len(l)] == IF k = 0 THEN <<>> ELSE Joined(done[k - 1], l[k])
    IN  done[Len(l)]

\* The first element that b precedes, past the end if there is none.
Place(l, b) ==
    CHOOSE k \in 1 .. Len(l) + 1 :
        /\ k \in DOMAIN l => IsBefore(b, l[k])
        /\ \A i \in 1 .. k - 1 : ~IsBefore(b, l[i])

Add(l, b) ==
    LET k == Place(l, b)
    IN  ensureConsistency(SubSeq(l, 1, k - 1) \o <<b>> \o SubSeq(l, k, Len(l)))

\* One turn of Fill: what takes the place of gap n when b is filled.
Left(n, b) == IF Overlap(b, n) THEN Exclude(n, b) ELSE <<n>>

Fill(l, b) ==
    LET done[k \in 0 .. Len(l)] == IF k = 0 THEN <<>> ELSE done[k - 1] \o Left(l[k], b)
    IN  ensureConsistency(done[Len(l)])
=============================================================================
