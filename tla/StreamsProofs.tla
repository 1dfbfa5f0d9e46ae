--------------------------- MODULE StreamsProofs ---------------------------
(***************************************************************************)
(* What addToRead keeps: whatever frames the peer sends; and, while the    *)
(* peer repairs holes from their front, that the gap list is the set of    *)
(* missing bytes, and that the readers are given every byte before the     *)
(* first of them, once and in order.                                       *)
(***************************************************************************)
EXTENDS Streams, WellFoundedInduction, TLAPS

-----------------------------------------------------------------------------
(* The gap list.                                                           *)

Intervals == [start : Nat, end : Nat]

\* A set of naturals that is not empty has a least element.
LEMMA LeastNatural ==
    ASSUME NEW S \in SUBSET Nat, S # {}
    PROVE  \E n \in S : \A m \in S : n <= m
<1>1. IsWellFoundedOn(OpToRel(<, Nat), Nat)
  BY NatLessThanWellFounded, Zenon
<1>2. PICK n \in S : \A m \in S : ~(<<m, n>> \in OpToRel(<, Nat))
  BY <1>1, WFMin, Zenon
<1>3. ASSUME NEW m \in S
      PROVE  n <= m
  <2>1. ~(m < n)
    BY <1>2, Zenon DEF OpToRel
  <2> QED
    BY <2>1
<1> QED
  BY <1>3

\* Two functions that start alike and go on alike are alike.
LEMMA SameTurns ==
    ASSUME NEW n \in Nat, NEW f, NEW g, f[0] = g[0],
           \A k \in 1 .. n : f[k - 1] = g[k - 1] => f[k] = g[k]
    PROVE  f[n] = g[n]
<1> SUFFICES ASSUME f[n] # g[n]
             PROVE  FALSE
  OBVIOUS
<1> DEFINE differ == {k \in Nat : k <= n /\ f[k] # g[k]}
<1>1. PICK k \in differ : \A m \in differ : k <= m
  <2>1. differ \subseteq Nat /\ n \in differ
    OBVIOUS
  <2> HIDE DEF differ
  <2> QED
    BY <2>1, LeastNatural, Zenon
<1>2. k \in 1 .. n /\ k - 1 \in Nat /\ ~(k <= k - 1) /\ k - 1 <= n
  BY <1>1
<1>3. f[k - 1] = g[k - 1]
  BY <1>1, <1>2
<1> QED
  BY <1>1, <1>2, <1>3

\* ensureConsistency is its last turn.
LEMMA ConsistencyIs ==
    ASSUME NEW n \in Nat, NEW l, Len(l) = n, NEW f,
           f = [k \in 0 .. n |-> IF k = 0 THEN <<>> ELSE Joined(f[k - 1], l[k])]
    PROVE  ensureConsistency(l) = f[n]
<1> DEFINE g == CHOOSE h : h = [k \in 0 .. Len(l) |-> IF k = 0 THEN <<>> ELSE Joined(h[k - 1], l[k])]
<1>1. ensureConsistency(l) = g[n]
  BY DEF ensureConsistency
<1>2. g = [k \in 0 .. n |-> IF k = 0 THEN <<>> ELSE Joined(g[k - 1], l[k])]
  OBVIOUS
<1> HIDE DEF g
<1>3. n \in Nat /\ f[0] = g[0]
  BY <1>2
<1>4. ASSUME NEW k \in 1 .. n
      PROVE  f[k] = Joined(f[k - 1], l[k]) /\ g[k] = Joined(g[k - 1], l[k])
  BY <1>2
<1>5. \A k \in 1 .. n : f[k - 1] = g[k - 1] => f[k] = g[k]
  BY <1>4, ZenonT(40)
<1>6. f[n] = g[n]
  BY ONLY <1>3, <1>5, SameTurns, Zenon
<1> QED
  BY <1>1, <1>6

\* Fill makes consistent what its last turn leaves.
LEMMA FillIs ==
    ASSUME NEW n \in Nat, NEW l, Len(l) = n, NEW b, NEW f,
           f = [k \in 0 .. n |-> IF k = 0 THEN <<>> ELSE f[k - 1] \o Left(l[k], b)]
    PROVE  Fill(l, b) = ensureConsistency(f[n])
<1> DEFINE g == CHOOSE h : h = [k \in 0 .. Len(l) |-> IF k = 0 THEN <<>> ELSE h[k - 1] \o Left(l[k], b)]
<1>1. Fill(l, b) = ensureConsistency(g[n])
  BY DEF Fill
<1>2. g = [k \in 0 .. n |-> IF k = 0 THEN <<>> ELSE g[k - 1] \o Left(l[k], b)]
  BY Zenon
<1> HIDE DEF g
<1>3. n \in Nat /\ f[0] = g[0]
  BY <1>2
<1>4. ASSUME NEW k \in 1 .. n
      PROVE  f[k] = f[k - 1] \o Left(l[k], b) /\ g[k] = g[k - 1] \o Left(l[k], b)
  BY <1>2
<1>5. \A k \in 1 .. n : f[k - 1] = g[k - 1] => f[k] = g[k]
  BY <1>4, ZenonT(40)
<1>6. f[n] = g[n]
  BY ONLY <1>3, <1>5, SameTurns, Zenon
<1> QED
  BY <1>1, <1>6

\* Gaps that follow one another with a byte between them, all before max.
Separated(l, max) ==
    /\ \A i \in DOMAIN l : l[i].start < l[i].end /\ l[i].end <= max
    /\ \A i, j \in DOMAIN l : i < j => l[i].end < l[j].start

\* A prefix and its next element.
LEMMA PrefixFacts ==
    ASSUME NEW S, NEW l \in Seq(S), NEW k \in 1 .. Len(l)
    PROVE  /\ SubSeq(l, 1, k - 1) \in Seq(S) /\ Len(SubSeq(l, 1, k - 1)) = k - 1
           /\ \A i \in 1 .. k - 1 : SubSeq(l, 1, k - 1)[i] = l[i]
           /\ Append(SubSeq(l, 1, k - 1), l[k]) = SubSeq(l, 1, k)
<1>1. SubSeq(l, 1, k - 1) = [i \in 1 .. k - 1 |-> l[i]] /\ SubSeq(l, 1, k) = [i \in 1 .. k |-> l[i]]
  OBVIOUS
<1>2. \A i \in 1 .. k : l[i] \in S
  OBVIOUS
<1>3. SubSeq(l, 1, k - 1) \in Seq(S) /\ Len(SubSeq(l, 1, k - 1)) = k - 1
  BY <1>1, <1>2
<1>4. Append(SubSeq(l, 1, k - 1), l[k]) = [i \in 1 .. k |-> IF i = k THEN l[k] ELSE SubSeq(l, 1, k - 1)[i]]
  BY <1>3
<1>5. \A i \in 1 .. k - 1 : SubSeq(l, 1, k - 1)[i] = l[i]
  BY <1>1
<1>6. Append(SubSeq(l, 1, k - 1), l[k]) = SubSeq(l, 1, k)
  BY <1>1, <1>4, <1>5
<1> QED
  BY <1>3, <1>5, <1>6

\* Separated gaps are not merged.
LEMMA JoinedPrefix ==
    ASSUME NEW max \in Nat, NEW l \in Seq(Intervals), Separated(l, max), NEW k \in 1 .. Len(l)
    PROVE  Joined(SubSeq(l, 1, k - 1), l[k]) = SubSeq(l, 1, k)
<1> DEFINE front == SubSeq(l, 1, k - 1)
<1>1. /\ front \in Seq(Intervals) /\ Len(front) = k - 1
      /\ \A i \in 1 .. k - 1 : front[i] = l[i]
      /\ Append(front, l[k]) = SubSeq(l, 1, k)
  BY PrefixFacts
<1> HIDE DEF front
<1>2. CASE k = 1
  <2>1. front = <<>>
    BY <1>1, <1>2
  <2> QED
    BY <1>1, <2>1 DEF Joined, front
<1>3. CASE k # 1
  <2>1. k - 1 \in DOMAIN l /\ k \in DOMAIN l /\ k - 1 < k /\ front[Len(front)] = l[k - 1]
    BY <1>1, <1>3
  <2>2. l[k - 1] \in Intervals /\ l[k] \in Intervals
    BY <2>1
  <2>3. l[k - 1].start < l[k - 1].end /\ l[k].start < l[k].end /\ l[k - 1].end < l[k].start
    BY <2>1, Zenon DEF Separated
  <2>4. ~Overlap(l[k - 1], l[k])
    BY <2>2, <2>3, SMTT(30) DEF Overlap, Intervals
  <2> QED
    BY <1>1, <2>1, <2>4, Zenon DEF Joined, front
<1> QED
  BY <1>2, <1>3

\* ensureConsistency leaves separated gaps as they are.
LEMMA ConsistentAlready ==
    ASSUME NEW max \in Nat, NEW l \in Seq(Intervals), Separated(l, max)
    PROVE  ensureConsistency(l) = l
<1> DEFINE n == Len(l)
           f == [k \in 0 .. n |-> SubSeq(l, 1, k)]
<1>1. n \in Nat /\ SubSeq(l, 1, n) = l /\ SubSeq(l, 1, 0) = <<>>
  OBVIOUS
<1>2. f = [k \in 0 .. n |-> IF k = 0 THEN <<>> ELSE Joined(f[k - 1], l[k])]
  <2>1. ASSUME NEW k \in 0 .. n
        PROVE  SubSeq(l, 1, k) = IF k = 0 THEN <<>> ELSE Joined(f[k - 1], l[k])
    <3>1. CASE k = 0
      BY <1>1, <3>1
    <3>2. CASE k # 0
      <4>1. k \in 1 .. Len(l) /\ f[k - 1] = SubSeq(l, 1, k - 1)
        BY <3>2
      <4> QED
        BY <3>2, <4>1, JoinedPrefix, Zenon
    <3> QED
      BY <3>1, <3>2
  <2> QED
    BY <2>1, Zenon
<1>3. f[n] = l
  BY <1>1
<1> HIDE DEF f
<1>4. ensureConsistency(l) = f[n]
  BY <1>1, <1>2, ConsistencyIs, Zenon
<1> QED
  BY <1>3, <1>4

\* A gap at the back of separated ones is at most merged with the last of them.
LEMMA ConsistentAppended ==
    ASSUME NEW max \in Nat, NEW l \in Seq(Intervals), Separated(l, max), NEW b \in Intervals
    PROVE  ensureConsistency(Append(l, b)) = Joined(l, b)
<1> DEFINE n == Len(l)
           s == Append(l, b)
           f == [k \in 0 .. n + 1 |-> IF k = n + 1 THEN Joined(l, b) ELSE SubSeq(l, 1, k)]
<1>1. n \in Nat /\ n + 1 \in Nat /\ n + 1 # 0 /\ SubSeq(l, 1, n) = l /\ SubSeq(l, 1, 0) = <<>>
  OBVIOUS
<1>2. Len(s) = n + 1 /\ s[n + 1] = b /\ \A k \in 1 .. n : s[k] = l[k]
  OBVIOUS
<1>0. 1 .. n = 1 .. Len(l)
  OBVIOUS
<1> HIDE DEF s, n
<1>3. f = [k \in 0 .. n + 1 |-> IF k = 0 THEN <<>> ELSE Joined(f[k - 1], s[k])]
  <2>1. ASSUME NEW k \in 0 .. n + 1
        PROVE  f[k] = IF k = 0 THEN <<>> ELSE Joined(f[k - 1], s[k])
    <3>1. CASE k = 0
      BY <1>1, <3>1
    <3>2. CASE k \in 1 .. n
      <4>0. k - 1 \in 0 .. n + 1 /\ k - 1 # n + 1 /\ k # n + 1 /\ k # 0
        BY <1>1, <3>2
      <4>1. f[k - 1] = SubSeq(l, 1, k - 1) /\ f[k] = SubSeq(l, 1, k) /\ k # 0
        BY <4>0
      <4> QED
        BY <1>0, <1>2, <3>2, <4>1, JoinedPrefix, Zenon
    <3>3. CASE k = n + 1
      <4>1. f[k - 1] = l /\ f[k] = Joined(l, b) /\ k # 0
        BY <1>1, <3>3
      <4> QED
        BY <1>2, <3>3, <4>1, Zenon
    <3> QED
      BY <1>1, <3>1, <3>2, <3>3
  <2>2. f = [k \in 0 .. n + 1 |-> f[k]]
    OBVIOUS
  <2> HIDE DEF f
  <2> QED
    BY <2>1, <2>2, Zenon
<1>4. f[n + 1] = Joined(l, b)
  BY <1>1
<1> HIDE DEF f
<1>5. ensureConsistency(s) = f[n + 1]
  BY <1>1, <1>2, <1>3, ConsistencyIs, ZenonT(40)
<1> QED
  BY <1>4, <1>5 DEF s

\* A gap that b does not reach into stays, also where they touch.
LEMMA LeftAlone ==
    ASSUME NEW n \in Intervals, NEW b \in Intervals, n.start < n.end, b.start < b.end,
           b.end <= n.start \/ n.end <= b.start
    PROVE  Left(n, b) = <<n>>
<1>1. n = byteInterval(n.start, n.end)
  BY DEF Intervals, byteInterval
<1>2. n.start \in Nat /\ n.end \in Nat /\ b.start \in Nat /\ b.end \in Nat
  BY DEF Intervals
<1>3. CASE b.end <= n.start
  <2>1. ~(b.start > n.start /\ b.end < n.end) /\ b.start <= n.start /\ b.end < n.end
    BY <1>2, <1>3
  <2>2. Overlap(b, n) => b.end = n.start
    BY <1>2, <1>3 DEF Overlap
  <2>3. Exclude(n, b) = <<byteInterval(b.end, n.end)>>
    BY <1>2, <2>1 DEF Exclude
  <2> QED
    BY <1>1, <2>2, <2>3 DEF Left
<1>4. CASE n.end <= b.start
  <2>1. ~(b.start > n.start /\ b.end < n.end) /\ ~(b.start <= n.start /\ b.end < n.end) /\ b.end > n.end
    BY <1>2, <1>4
  <2>2. Overlap(b, n) => b.start = n.end
    BY <1>2, <1>4 DEF Overlap
  <2>3. Exclude(n, b) = <<byteInterval(n.start, b.start)>>
    BY <1>2, <2>1 DEF Exclude
  <2> QED
    BY <1>1, <2>2, <2>3 DEF Left
<1> QED
  BY <1>3, <1>4

\* A gap that is filled from its front shrinks, and one that is filled whole goes.
LEMMA LeftOfFilled ==
    ASSUME NEW n \in Intervals, NEW b \in Intervals, b.start < b.end, b.start = n.start
    PROVE  /\ b.end < n.end => Left(n, b) = <<byteInterval(b.end, n.end)>>
           /\ b.end = n.end => Left(n, b) = <<>>
<1>1. n.start \in Nat /\ n.end \in Nat /\ b.start \in Nat /\ b.end \in Nat
  BY DEF Intervals
<1>2. ASSUME b.end <= n.end
      PROVE  Overlap(b, n)
  BY <1>1, <1>2 DEF Overlap
<1>3. b.end < n.end => Exclude(n, b) = <<byteInterval(b.end, n.end)>>
  BY <1>1 DEF Exclude
<1>4. b.end = n.end => Exclude(n, b) = <<>>
  BY <1>1 DEF Exclude
<1> QED
  BY <1>1, <1>2, <1>3, <1>4 DEF Left

\* Fill where one interval is left of each gap: r[k] of gap k.
LEMMA FillShrinks ==
    ASSUME NEW max \in Nat, NEW l \in Seq(Intervals), NEW b, NEW r \in Seq(Intervals), Len(r) = Len(l),
           \A k \in DOMAIN l : Left(l[k], b) = <<r[k]>>, Separated(r, max)
    PROVE  Fill(l, b) = r
<1> DEFINE n == Len(l)
           f == [k \in 0 .. n |-> SubSeq(r, 1, k)]
<1>1. n \in Nat /\ DOMAIN l = 1 .. n
  OBVIOUS
<1>2. r \in Seq(Intervals) /\ Len(r) = n
  OBVIOUS
<1>3. \A k \in 1 .. n : Left(l[k], b) = <<r[k]>>
  BY <1>1, Zenon
<1>5. SubSeq(r, 1, n) = r /\ SubSeq(r, 1, 0) = <<>>
  BY <1>1, <1>2
<1>6. ASSUME NEW k \in 0 .. n
      PROVE  f[k] = IF k = 0 THEN <<>> ELSE f[k - 1] \o Left(l[k], b)
  <2>1. CASE k = 0
    BY <1>5, <2>1
  <2>2. CASE k # 0
    <3>1. k \in 1 .. n /\ k \in 1 .. Len(r) /\ f[k - 1] = SubSeq(r, 1, k - 1) /\ f[k] = SubSeq(r, 1, k)
      BY <1>1, <1>2, <2>2
    <3>2. /\ SubSeq(r, 1, k - 1) \in Seq(Intervals)
          /\ Append(SubSeq(r, 1, k - 1), r[k]) = SubSeq(r, 1, k)
      BY <1>2, <3>1, PrefixFacts, SMTT(30)
    <3>3. SubSeq(r, 1, k - 1) \o <<r[k]>> = Append(SubSeq(r, 1, k - 1), r[k])
      BY ONLY <3>2
    <3> QED
      BY <1>3, <2>2, <3>1, <3>2, <3>3, Zenon
  <2> QED
    BY <2>1, <2>2, Zenon
<1>7. f = [k \in 0 .. n |-> f[k]] /\ f[n] = r
  BY <1>1, <1>5
<1> HIDE DEF f
<1>8. f = [k \in 0 .. n |-> IF k = 0 THEN <<>> ELSE f[k - 1] \o Left(l[k], b)]
  BY <1>6, <1>7, Zenon
<1>9. Fill(l, b) = ensureConsistency(r)
  <2>1. Fill(l, b) = ensureConsistency(f[n])
    BY <1>1, <1>8, FillIs
  <2> QED
    BY <1>7, <2>1, Zenon
<1>10. ensureConsistency(r) = r
  BY <1>2, ConsistentAlready
<1> QED
  BY <1>9, <1>10

\* Fill where each gap is left alone but for gap g, which goes.
LEMMA FillRemoves ==
    ASSUME NEW max \in Nat, NEW l \in Seq(Intervals), NEW b, NEW g \in DOMAIN l,
           \A k \in DOMAIN l : Left(l[k], b) = IF k = g THEN <<>> ELSE <<l[k]>>,
           Separated([i \in 1 .. Len(l) - 1 |-> IF i < g THEN l[i] ELSE l[i + 1]], max)
    PROVE  Fill(l, b) = [i \in 1 .. Len(l) - 1 |-> IF i < g THEN l[i] ELSE l[i + 1]]
<1> DEFINE n == Len(l)
           r == [i \in 1 .. n - 1 |-> IF i < g THEN l[i] ELSE l[i + 1]]
           f == [k \in 0 .. n |-> IF k < g THEN SubSeq(r, 1, k) ELSE SubSeq(r, 1, k - 1)]
<1>1. /\ n \in Nat /\ g \in 1 .. n /\ DOMAIN l = 1 .. n /\ Len(l) = n
      /\ \A i \in 1 .. n : l[i] \in Intervals
  OBVIOUS
<1>0. Separated(r, max)
  OBVIOUS
<1> HIDE DEF n
<1>2. r \in Seq(Intervals) /\ Len(r) = n - 1
  <2>1. r \in [1 .. n - 1 -> Intervals] /\ n - 1 \in Nat
    BY <1>1
  <2> HIDE DEF r
  <2> QED
    BY <2>1
<1>3. /\ \A k \in 1 .. g - 1 : Left(l[k], b) = <<r[k]>>
      /\ \A k \in g + 1 .. n : Left(l[k], b) = <<r[k - 1]>>
      /\ Left(l[g], b) = <<>>
  <2>1. ASSUME NEW k \in 1 .. g - 1
        PROVE  Left(l[k], b) = <<r[k]>>
    BY <1>1
  <2>2. ASSUME NEW k \in g + 1 .. n
        PROVE  Left(l[k], b) = <<r[k - 1]>>
    <3>1. k - 1 \in 1 .. n - 1 /\ ~(k - 1 < g) /\ (k - 1) + 1 = k /\ k \in DOMAIN l /\ k # g
      BY <1>1
    <3> QED
      BY <3>1
  <2> QED
    BY <1>1, <2>1, <2>2
<1> HIDE DEF r
<1>5. SubSeq(r, 1, n - 1) = r /\ SubSeq(r, 1, 0) = <<>>
  BY <1>1, <1>2
<1>6. ASSUME NEW k \in 1 .. n - 1
      PROVE  SubSeq(r, 1, k - 1) \o <<r[k]>> = SubSeq(r, 1, k)
  <2>1. /\ SubSeq(r, 1, k - 1) \in Seq(Intervals)
        /\ Append(SubSeq(r, 1, k - 1), r[k]) = SubSeq(r, 1, k)
    BY <1>2, PrefixFacts
  <2> QED
    BY <2>1
<1>7. ASSUME NEW k \in 0 .. n
      PROVE  f[k] = IF k = 0 THEN <<>> ELSE f[k - 1] \o Left(l[k], b)
  <2>1. CASE k = 0
    BY <1>1, <1>5, <2>1
  <2>2. CASE k \in 1 .. g - 1
    <3>1. f[k - 1] = SubSeq(r, 1, k - 1) /\ f[k] = SubSeq(r, 1, k) /\ k \in 1 .. n - 1 /\ k # 0
      BY <1>1, <2>2
    <3> QED
      BY <1>3, <1>6, <2>2, <3>1, Zenon
  <2>3. CASE k = g
    <3>1. f[k - 1] = SubSeq(r, 1, k - 1) /\ f[k] = SubSeq(r, 1, k - 1) /\ k # 0
      BY <1>1, <2>3
    <3>2. SubSeq(r, 1, k - 1) \in Seq(Intervals)
      BY <1>1, <1>2, <2>3
    <3>3. SubSeq(r, 1, k - 1) \o <<>> = SubSeq(r, 1, k - 1)
      BY <3>2
    <3> QED
      BY <1>3, <2>3, <3>1, <3>3, Zenon
  <2>4. CASE k \in g + 1 .. n
    <3>1. f[k - 1] = SubSeq(r, 1, (k - 1) - 1) /\ f[k] = SubSeq(r, 1, k - 1) /\ k - 1 \in 1 .. n - 1 /\ k # 0
      BY <1>1, <2>4
    <3> QED
      BY <1>3, <1>6, <2>4, <3>1, Zenon
  <2> QED
    BY <1>1, <2>1, <2>2, <2>3, <2>4
<1>8. f = [k \in 0 .. n |-> f[k]] /\ f[n] = r
  BY <1>1, <1>5
<1> HIDE DEF f
<1>9. f = [k \in 0 .. n |-> IF k = 0 THEN <<>> ELSE f[k - 1] \o Left(l[k], b)]
  BY <1>7, <1>8, Zenon
<1>10. Fill(l, b) = ensureConsistency(r)
  <2>1. n \in Nat /\ Len(l) = n
    BY <1>1
  <2>2. Fill(l, b) = ensureConsistency(f[n])
    BY ONLY <1>9, <2>1, FillIs
  <2> QED
    BY <1>8, <2>2, Zenon
<1>11. ensureConsistency(r) = r
  BY <1>0, <1>2, ConsistentAlready
<1> QED
  BY <1>10, <1>11 DEF r, n

InGap(l, x) == \E i \in DOMAIN l : l[i].start <= x /\ x < l[i].end

\* Where the first gap starts: how far a reader can get.
FirstGap(l, max) == IF l = <<>> THEN max ELSE l[1].start

\* Before the first gap nothing is missing, and there something is.
LEMMA FirstGapFacts ==
    ASSUME NEW max \in Nat, NEW l \in Seq(Intervals), Separated(l, max)
    PROVE  /\ FirstGap(l, max) \in Nat /\ FirstGap(l, max) <= max
           /\ \A x \in Nat : x < FirstGap(l, max) => ~InGap(l, x)
           /\ FirstGap(l, max) < max => InGap(l, FirstGap(l, max))
           /\ l # <<>> => FirstGap(l, max) < max
<1>1. CASE l = <<>>
  <2>1. FirstGap(l, max) = max /\ \A x : ~InGap(l, x)
    BY <1>1 DEF FirstGap, InGap
  <2> QED
    BY <1>1, <2>1
<1>2. CASE l # <<>>
  <2>1. 1 \in DOMAIN l /\ l[1] \in Intervals
    BY <1>2
  <2>2. l[1].start \in Nat /\ l[1].end \in Nat /\ l[1].start < l[1].end /\ l[1].end <= max
    BY <2>1 DEF Separated, Intervals
  <2>3. FirstGap(l, max) = l[1].start
    BY <1>2 DEF FirstGap
  <2>4. ASSUME NEW x \in Nat, x < l[1].start, NEW i \in DOMAIN l
        PROVE  ~(l[i].start <= x)
    <3>1. i \in Nat /\ (i = 1 \/ 1 < i) /\ l[i] \in Intervals
      OBVIOUS
    <3>2. 1 < i => l[1].end < l[i].start
      BY <2>1, Zenon DEF Separated
    <3>3. l[i].start \in Nat
      BY <3>1 DEF Intervals
    <3> QED
      BY <2>2, <2>4, <3>1, <3>2, <3>3
  <2>5. InGap(l, l[1].start)
    BY <2>1, <2>2 DEF InGap
  <2> QED
    BY <2>2, <2>3, <2>4, <2>5 DEF InGap
<1> QED
  BY <1>1, <1>2

\* Add, for a gap behind all others.
LEMMA AddedBehind ==
    ASSUME NEW max \in Nat, NEW l \in Seq(Intervals), Separated(l, max), NEW o \in Nat, max < o
    PROVE  Add(l, byteInterval(max, o)) = Joined(l, byteInterval(max, o))
<1> DEFINE b == byteInterval(max, o)
<1>1. b \in Intervals /\ b.start = max /\ b.end = o
  BY DEF byteInterval, Intervals
<1>2. ASSUME NEW i \in DOMAIN l
      PROVE  ~IsBefore(b, l[i])
  <2>1. l[i] \in Intervals /\ l[i].start < l[i].end /\ l[i].end <= max
    BY DEF Separated
  <2> QED
    BY <1>1, <2>1 DEF IsBefore, Intervals
<1> HIDE DEF b
<1>3. Place(l, b) = Len(l) + 1
  <2>1. /\ Len(l) + 1 \in 1 .. Len(l) + 1 /\ Len(l) + 1 \notin DOMAIN l
        /\ \A i \in 1 .. (Len(l) + 1) - 1 : ~IsBefore(b, l[i])
    BY <1>2
  <2>2. ASSUME NEW k \in 1 .. Len(l) + 1, k \in DOMAIN l => IsBefore(b, l[k])
        PROVE  k = Len(l) + 1
    BY <1>2, <2>2
  <2> QED
    BY <2>1, <2>2 DEF Place
<1>4. SubSeq(l, 1, (Len(l) + 1) - 1) = l /\ SubSeq(l, Len(l) + 1, Len(l)) = <<>>
  OBVIOUS
<1>5. l \o <<b>> \o <<>> = Append(l, b)
  BY <1>1
<1>6. Add(l, b) = ensureConsistency(Append(l, b))
  BY <1>3, <1>4, <1>5, Zenon DEF Add
<1> QED
  BY <1>1, <1>6, ConsistentAppended DEF b

\* What Add leaves then: the gaps and the new one, and the same first gap.
LEMMA AddedFacts ==
    ASSUME NEW max \in Nat, NEW l \in Seq(Intervals), Separated(l, max), NEW o \in Nat, max < o,
           NEW r, r = Add(l, byteInterval(max, o))
    PROVE  /\ r \in Seq(Intervals) /\ Separated(r, o) /\ FirstGap(r, o) = FirstGap(l, max)
           /\ \A x \in Nat : InGap(r, x) <=> InGap(l, x) \/ (max <= x /\ x < o)
<1> DEFINE b == byteInterval(max, o)
           n == Len(l)
<1>1. b \in Intervals /\ b.start = max /\ b.end = o
  BY DEF byteInterval, Intervals
<1>2. r = Joined(l, b)
  BY AddedBehind
<1>3. n \in Nat /\ DOMAIN l = 1 .. n /\ Len(l) = n /\ (l # <<>> <=> n > 0)
  OBVIOUS
<1> HIDE DEF n
<1>4. \A i \in 1 .. n : /\ l[i] \in Intervals /\ l[i].start \in Nat /\ l[i].end \in Nat
                        /\ l[i].start < l[i].end /\ l[i].end <= max
  <2> SUFFICES ASSUME NEW i \in 1 .. n
               PROVE  /\ l[i] \in Intervals /\ l[i].start \in Nat /\ l[i].end \in Nat
                      /\ l[i].start < l[i].end /\ l[i].end <= max
    OBVIOUS
  <2>1. l[i] \in Intervals
    BY <1>3
  <2>2. l[i].start < l[i].end /\ l[i].end <= max
    BY <1>3, Zenon DEF Separated
  <2> QED
    BY <2>1, <2>2 DEF Intervals
<1>5. \A i, j \in 1 .. n : i < j => l[i].end < l[j].start
  BY <1>3, Zenon DEF Separated
<1> HIDE DEF b
<1>6. CASE n > 0 /\ l[n].end = max
  <2> DEFINE m == byteInterval(l[n].start, o)
  <2>1. n \in 1 .. n /\ l # <<>>
    BY <1>3, <1>6
  <2>2. Overlap(l[n], b)
    BY <1>1, <1>4, <1>6, <2>1 DEF Overlap
  <2>3. Merge(l[n], b) = m
    BY <1>1, <1>4, <1>6, <2>1 DEF Merge
  <2>4. m \in Intervals /\ m.start = l[n].start /\ m.end = o
    BY <1>4, <2>1 DEF byteInterval, Intervals
  <2> HIDE DEF m
  <2>5. r = [l EXCEPT ![n] = m]
    BY <1>2, <1>3, <2>1, <2>2, <2>3, Zenon DEF Joined
  <2>6. /\ r \in Seq(Intervals) /\ DOMAIN r = 1 .. n /\ r # <<>> /\ r[n] = m
        /\ \A i \in 1 .. n - 1 : r[i] = l[i]
    BY <1>3, <2>1, <2>4, <2>5
  <2>7. \A i \in 1 .. n : r[i].start = l[i].start
    BY <1>3, <2>1, <2>4, <2>6
  <2>8. Separated(r, o)
    <3>1. ASSUME NEW i \in 1 .. n
          PROVE  r[i].start < r[i].end /\ r[i].end <= o
      <4>1. CASE i = n
        BY <1>4, <2>1, <2>4, <2>6, <4>1, SMTT(30)
      <4>2. CASE i \in 1 .. n - 1
        BY <1>4, <2>6, <4>2
      <4> QED
        BY <1>3, <4>1, <4>2
    <3>2. ASSUME NEW i \in 1 .. n, NEW j \in 1 .. n, i < j
          PROVE  r[i].end < r[j].start
      <4>1. i \in 1 .. n - 1
        BY <1>3, <3>2
      <4> QED
        BY <1>5, <2>6, <2>7, <3>2, <4>1
    <3> QED
      BY <2>6, <3>1, <3>2 DEF Separated
  <2>9. FirstGap(r, o) = FirstGap(l, max)
    <3>1. 1 \in 1 .. n
      BY <1>3, <1>6
    <3> QED
      BY <2>1, <2>6, <2>7, <3>1 DEF FirstGap
  <2>10. ASSUME NEW x \in Nat
         PROVE  InGap(r, x) <=> InGap(l, x) \/ (max <= x /\ x < o)
    <3>1. ASSUME NEW i \in 1 .. n, r[i].start <= x, x < r[i].end
          PROVE  InGap(l, x) \/ (max <= x /\ x < o)
      <4>1. CASE i = n
        BY <1>3, <1>4, <1>6, <2>1, <2>4, <2>6, <3>1, <4>1 DEF InGap
      <4>2. CASE i \in 1 .. n - 1
        BY <1>3, <2>6, <3>1, <4>2 DEF InGap
      <4> QED
        BY <1>3, <4>1, <4>2
    <3>2. ASSUME NEW i \in 1 .. n, l[i].start <= x, x < l[i].end
          PROVE  InGap(r, x)
      <4>1. CASE i = n
        BY <1>4, <2>1, <2>4, <2>6, <3>2, <4>1 DEF InGap
      <4>2. CASE i \in 1 .. n - 1
        BY <2>6, <3>2, <4>2 DEF InGap
      <4> QED
        BY <1>3, <4>1, <4>2
    <3>3. ASSUME max <= x, x < o
          PROVE  InGap(r, x)
      BY <1>4, <1>6, <2>1, <2>4, <2>6, <3>3 DEF InGap
    <3> QED
      BY <1>3, <2>6, <3>1, <3>2, <3>3 DEF InGap
  <2> QED
    BY <2>6, <2>8, <2>9, <2>10
<1>7. CASE ~(n > 0 /\ l[n].end = max)
  <2>1. ~(l # <<>> /\ Overlap(l[n], b))
    <3> SUFFICES ASSUME l # <<>>
                 PROVE  ~Overlap(l[n], b)
      OBVIOUS
    <3>1. n \in 1 .. n /\ l[n].end < max
      BY <1>3, <1>4, <1>7
    <3> QED
      BY <1>1, <1>4, <3>1 DEF Overlap
  <2>2. r = Append(l, b)
    BY <1>2, <1>3, <2>1, Zenon DEF Joined
  <2>3. /\ r \in Seq(Intervals) /\ DOMAIN r = 1 .. n + 1 /\ r # <<>> /\ r[n + 1] = b
        /\ \A i \in 1 .. n : r[i] = l[i]
    BY <1>1, <1>3, <2>2
  <2>4. \A i \in 1 .. n : l[i].end < max
    <3> SUFFICES ASSUME NEW i \in 1 .. n
                 PROVE  l[i].end < max
      OBVIOUS
    <3>1. n \in 1 .. n /\ l[n].end < max /\ l[n].start < l[n].end
      BY <1>3, <1>4, <1>7
    <3>2. i < n => l[i].end < l[n].start
      BY <1>5, <3>1, Zenon
    <3> QED
      BY <1>3, <1>4, <3>1, <3>2
  <2>5. Separated(r, o)
    <3>1. ASSUME NEW i \in 1 .. n + 1
          PROVE  r[i].start < r[i].end /\ r[i].end <= o
      <4>1. CASE i = n + 1
        BY <1>1, <2>3, <4>1
      <4>2. CASE i \in 1 .. n
        BY <1>4, <2>3, <4>2
      <4> QED
        BY <1>3, <4>1, <4>2
    <3>2. ASSUME NEW i \in 1 .. n + 1, NEW j \in 1 .. n + 1, i < j
          PROVE  r[i].end < r[j].start
      <4>1. i \in 1 .. n
        BY <1>3, <3>2
      <4>2. CASE j = n + 1
        BY <1>1, <2>3, <2>4, <4>1, <4>2
      <4>3. CASE j \in 1 .. n
        BY <1>5, <2>3, <3>2, <4>1, <4>3
      <4> QED
        BY <1>3, <4>2, <4>3
    <3> QED
      BY <2>3, <3>1, <3>2 DEF Separated
  <2>6. FirstGap(r, o) = FirstGap(l, max)
    <3>1. CASE l = <<>>
      BY <1>1, <1>3, <2>3, <3>1 DEF FirstGap
    <3>2. CASE l # <<>>
      <4>1. 1 \in 1 .. n
        BY <1>3, <3>2
      <4> QED
        BY <2>3, <3>2, <4>1 DEF FirstGap
    <3> QED
      BY <3>1, <3>2
  <2>7. ASSUME NEW x \in Nat
        PROVE  InGap(r, x) <=> InGap(l, x) \/ (max <= x /\ x < o)
    <3>1. \A i \in 1 .. n + 1 : i \in 1 .. n \/ i = n + 1
      BY <1>3
    <3>2. n + 1 \in 1 .. n + 1 /\ \A i \in 1 .. n : i \in 1 .. n + 1
      BY <1>3
    <3> QED
      BY <1>1, <1>3, <2>3, <3>1, <3>2 DEF InGap
  <2> QED
    BY <2>3, <2>5, <2>6, <2>7
<1> QED
  BY <1>6, <1>7

\* Fill of bytes none of which is missing changes nothing.
LEMMA FilledAgain ==
    ASSUME NEW max \in Nat, NEW l \in Seq(Intervals), Separated(l, max), NEW b \in Intervals, b.start < b.end,
           \A x \in Nat : b.start <= x /\ x < b.end => ~InGap(l, x)
    PROVE  Fill(l, b) = l
<1>1. ASSUME NEW k \in DOMAIN l
      PROVE  Left(l[k], b) = <<l[k]>>
  <2>1. l[k] \in Intervals /\ l[k].start < l[k].end
    BY DEF Separated
  <2>2. l[k].start \in Nat /\ l[k].end \in Nat /\ b.start \in Nat /\ b.end \in Nat
    BY <2>1 DEF Intervals
  <2>3. ~InGap(l, l[k].start) => ~(l[k].start <= l[k].start /\ l[k].start < l[k].end)
    BY Zenon DEF InGap
  <2>4. ~InGap(l, b.start) => ~(l[k].start <= b.start /\ b.start < l[k].end)
    BY Zenon DEF InGap
  <2>5. b.end <= l[k].start \/ l[k].end <= b.start
    BY <2>1, <2>2, <2>3, <2>4
  <2> QED
    BY <2>1, <2>5, LeftAlone
<1> QED
  BY <1>1, FillShrinks

\* Fill of bytes from the front of a gap takes them out of it, and touches no other gap.
LEMMA FilledFront ==
    ASSUME NEW max \in Nat, NEW l \in Seq(Intervals), Separated(l, max), NEW b \in Intervals, b.start < b.end,
           NEW g \in DOMAIN l, l[g].start = b.start, b.end <= l[g].end, NEW r, r = Fill(l, b)
    PROVE  /\ r \in Seq(Intervals) /\ Separated(r, max)
           /\ \A x \in Nat : InGap(r, x) <=> InGap(l, x) /\ ~(b.start <= x /\ x < b.end)
<1> DEFINE n == Len(l)
<1>1. n \in Nat /\ DOMAIN l = 1 .. n /\ g \in 1 .. n /\ Len(l) = n
  OBVIOUS
<1> HIDE DEF n
<1>2. ASSUME NEW i \in 1 .. n
      PROVE  /\ l[i] \in Intervals /\ l[i].start \in Nat /\ l[i].end \in Nat
             /\ l[i].start < l[i].end /\ l[i].end <= max
  <2>1. l[i] \in Intervals
    BY <1>1
  <2>2. l[i].start < l[i].end /\ l[i].end <= max
    BY <1>1, Zenon DEF Separated
  <2> QED
    BY <2>1, <2>2 DEF Intervals
<1>3. \A i, j \in 1 .. n : i < j => l[i].end < l[j].start
  BY <1>1, Zenon DEF Separated
<1>4. b.start \in Nat /\ b.end \in Nat
  BY DEF Intervals
<1>5. ASSUME NEW i \in 1 .. n, i # g
      PROVE  b.end < l[i].start \/ l[i].end < b.start
  <2>1. i < g \/ g < i
    BY <1>1, <1>5
  <2>2. l[i].end < l[g].start \/ l[g].end < l[i].start
    BY <1>1, <1>3, <2>1, Zenon
  <2> QED
    BY <1>1, <1>2, <1>4, <2>2
<1>6. ASSUME NEW i \in 1 .. n, i # g
      PROVE  Left(l[i], b) = <<l[i]>>
  <2>1. b.end <= l[i].start \/ l[i].end <= b.start
    BY <1>2, <1>4, <1>5, <1>6
  <2> QED
    BY <1>2, <2>1, LeftAlone
<1>7. ASSUME NEW x \in Nat, NEW i \in 1 .. n, i # g, l[i].start <= x, x < l[i].end
      PROVE  ~(b.start <= x /\ x < b.end)
  BY <1>2, <1>4, <1>5, <1>7
<1>8. CASE b.end < l[g].end
  <2> DEFINE y == byteInterval(b.end, l[g].end)
             s == [i \in DOMAIN l |-> IF i = g THEN y ELSE l[i]]
  <2>1. y \in Intervals /\ y.start = b.end /\ y.end = l[g].end
    BY <1>1, <1>2, <1>4 DEF byteInterval, Intervals
  <2>2. Left(l[g], b) = <<y>>
    BY <1>1, <1>2, <1>8, LeftOfFilled
  <2> HIDE DEF y
  <2>3. DOMAIN s = 1 .. n /\ s[g] = y /\ \A i \in 1 .. n : i # g => s[i] = l[i]
    BY <1>1
  <2>4. s \in Seq(Intervals)
    <3>1. s \in [1 .. n -> Intervals]
      BY <1>1, <1>2, <2>1
    <3> HIDE DEF s
    <3> QED
      BY <1>1, <3>1
  <2>5. Separated(s, max)
    <3> HIDE DEF s
    <3>1. ASSUME NEW i \in 1 .. n
          PROVE  s[i].start < s[i].end /\ s[i].end <= max /\ s[i].end = l[i].end /\ l[i].start <= s[i].start
      <4>1. CASE i = g
        BY <1>1, <1>2, <1>4, <1>8, <2>1, <2>3, <4>1
      <4>2. CASE i # g
        BY <1>2, <2>3, <4>2
      <4> QED
        BY <4>1, <4>2
    <3>2. ASSUME NEW i \in 1 .. n, NEW j \in 1 .. n, i < j
          PROVE  s[i].end < s[j].start
      <4>1. l[i].end < l[j].start
        BY <1>3, <3>2, Zenon
      <4>2. s[i].end = l[i].end /\ l[j].start <= s[j].start
        BY <3>1
      <4>3. s[j].start \in Nat
        BY <1>2, <1>4, <2>1, <2>3
      <4> QED
        BY <1>2, <4>1, <4>2, <4>3
    <3> QED
      BY <2>3, <3>1, <3>2 DEF Separated
  <2>6. r = s
    <3> HIDE DEF s
    <3>1. \A k \in DOMAIN l : Left(l[k], b) = <<s[k]>>
      BY <1>1, <1>6, <2>2, <2>3, Zenon
    <3>2. Len(s) = Len(l)
      BY <1>1, <2>3, <2>4
    <3> QED
      BY <2>4, <2>5, <3>1, <3>2, FillShrinks
  <2> HIDE DEF s
  <2>7. ASSUME NEW x \in Nat
        PROVE  InGap(s, x) <=> InGap(l, x) /\ ~(b.start <= x /\ x < b.end)
    <3>1. (s[g].start <= x /\ x < s[g].end)
             <=> (l[g].start <= x /\ x < l[g].end) /\ ~(b.start <= x /\ x < b.end)
      BY <1>1, <1>2, <1>4, <2>1, <2>3
    <3>2. \A i \in 1 .. n : i # g => ((s[i].start <= x /\ x < s[i].end)
             <=> (l[i].start <= x /\ x < l[i].end) /\ ~(b.start <= x /\ x < b.end))
      BY <1>7, <2>3, Zenon
    <3>3. \A i \in 1 .. n : (s[i].start <= x /\ x < s[i].end)
             <=> (l[i].start <= x /\ x < l[i].end) /\ ~(b.start <= x /\ x < b.end)
      BY <3>1, <3>2, Zenon
    <3> QED
      BY <1>1, <2>3, <3>3, Zenon DEF InGap
  <2> QED
    BY <2>4, <2>5, <2>6, <2>7, Zenon
<1>9. CASE b.end = l[g].end
  <2> DEFINE s == [i \in 1 .. Len(l) - 1 |-> IF i < g THEN l[i] ELSE l[i + 1]]
             at(i) == IF i < g THEN i ELSE i + 1
  <2>1. Left(l[g], b) = <<>>
    BY <1>1, <1>2, <1>9, LeftOfFilled
  <2>2. DOMAIN s = 1 .. n - 1
    BY <1>1
  <2>3. ASSUME NEW i \in 1 .. n - 1
        PROVE  at(i) \in 1 .. n /\ at(i) # g /\ s[i] = l[at(i)]
    BY <1>1
  <2>4. ASSUME NEW i \in 1 .. n - 1, NEW j \in 1 .. n - 1, i < j
        PROVE  at(i) < at(j)
    BY <1>1, <2>4
  <2>5. s \in Seq(Intervals)
    <3>1. s \in [1 .. n - 1 -> Intervals] /\ n - 1 \in Nat
      <4>1. \A i \in 1 .. n - 1 : s[i] \in Intervals
        BY <1>2, <2>3, Zenon
      <4> QED
        BY <1>1, <4>1
    <3> HIDE DEF s
    <3> QED
      BY <3>1
  <2>6. ASSUME NEW j \in 1 .. n, j # g
        PROVE  \E i \in 1 .. n - 1 : at(i) = j
    <3>1. CASE j < g
      BY <1>1, <3>1
    <3>2. CASE j > g
      <4>1. j - 1 \in 1 .. n - 1 /\ at(j - 1) = j
        BY <1>1, <3>2
      <4> QED
        BY <4>1
    <3> QED
      BY <1>1, <2>6, <3>1, <3>2
  <2>7. Separated(s, max)
    <3> HIDE DEF s, at
    <3>1. \A i \in 1 .. n - 1 : s[i].start < s[i].end /\ s[i].end <= max
      BY <1>2, <2>3, Zenon
    <3>2. \A i, j \in 1 .. n - 1 : i < j => s[i].end < s[j].start
      BY <1>3, <2>3, <2>4, Zenon
    <3> QED
      BY <2>2, <3>1, <3>2, Zenon DEF Separated
  <2>8. r = s
    <3>1. \A k \in DOMAIN l : Left(l[k], b) = IF k = g THEN <<>> ELSE <<l[k]>>
      BY <1>1, <1>6, <2>1
    <3> QED
      BY <2>7, <3>1, FillRemoves
  <2> HIDE DEF s, at
  <2>9. ASSUME NEW x \in Nat
        PROVE  InGap(s, x) <=> InGap(l, x) /\ ~(b.start <= x /\ x < b.end)
    <3>1. ~((l[g].start <= x /\ x < l[g].end) /\ ~(b.start <= x /\ x < b.end))
      BY <1>9, Zenon
    <3>2. ASSUME InGap(s, x)
          PROVE  InGap(l, x) /\ ~(b.start <= x /\ x < b.end)
      <4>1. PICK i \in 1 .. n - 1 : s[i].start <= x /\ x < s[i].end
        BY <2>2, <3>2, Zenon DEF InGap
      <4> QED
        BY <1>1, <1>7, <2>3, <4>1, Zenon DEF InGap
    <3>3. ASSUME InGap(l, x), ~(b.start <= x /\ x < b.end)
          PROVE  InGap(s, x)
      <4>1. PICK j \in 1 .. n : l[j].start <= x /\ x < l[j].end
        BY <1>1, <3>3, Zenon DEF InGap
      <4>2. j # g
        BY <3>1, <3>3, <4>1, Zenon
      <4>3. PICK i \in 1 .. n - 1 : at(i) = j
        BY <2>6, <4>2, Zenon
      <4> QED
        BY <2>2, <2>3, <4>1, <4>3, Zenon DEF InGap
    <3> QED
      BY <3>2, <3>3, Zenon
  <2> QED
    BY <2>5, <2>7, <2>8, <2>9, Zenon
<1> QED
  BY <1>1, <1>2, <1>4, <1>8, <1>9

-----------------------------------------------------------------------------
(* The state of addToRead.                                                 *)

\* The length of the buffer and its type, whatever the peer sends.
BufferInv ==
    /\ ReadData \in Seq(Nat)
    /\ maxReadReceived \in Nat
    /\ Len(ReadData) = maxReadReceived

\* The gaps are apart and hold exactly the bytes below maxReadReceived that are missing.
HolesInv ==
    /\ gaps \in Seq(Intervals) /\ Separated(gaps, maxReadReceived)
    /\ received \subseteq 0 .. maxReadReceived - 1
    /\ \A x \in 0 .. maxReadReceived - 1 : x \in received <=> ~InGap(gaps, x)

\* The readers have all the bytes before the first gap, and addToRead does not wait.
ReaderInv ==
    /\ ReadOffset = FirstGap(gaps, maxReadReceived)
    /\ delivered = Bytes(0, ReadOffset)
    /\ ~halted

\* Every byte received is in its place of the buffer.
CopiedInv == \A x \in received : ReadData[x + 1] = x + 1

\* No byte lies behind the final size, and the stream is closed where it ends.
EndingInv ==
    /\ ReadCloseOffset \in Nat
    /\ maxReadReceived = 0 \/ maxReadReceived < MaxUint64
    /\ ReadCloseOffset # MaxUint64 => maxReadReceived <= ReadCloseOffset
    /\ ReadClosed <=> ReadCloseOffset # MaxUint64 /\ ReadOffset = ReadCloseOffset

\* The inductive invariant.
StreamInv ==
    /\ BufferInv
    /\ orderly => HolesInv /\ ReaderInv /\ CopiedInv /\ EndingInv

\* The genuine bytes from..to-1 are a sequence of that many elements.
LEMMA BytesIsSeq ==
    ASSUME NEW from \in Nat, NEW to \in Nat, from <= to
    PROVE  /\ Bytes(from, to) \in Seq(Nat) /\ Len(Bytes(from, to)) = to - from
           /\ \A i \in 1 .. to - from : Bytes(from, to)[i] = from + i
<1>1. to - from \in Nat
  OBVIOUS
<1>2. Bytes(from, to) \in [1 .. to - from -> Nat] /\ \A i \in 1 .. to - from : Bytes(from, to)[i] = from + i
  BY DEF Bytes
<1> QED
  BY <1>1, <1>2

\* A sequence that continues the genuine bytes with the following ones.
LEMMA BytesContinued ==
    ASSUME NEW from \in Nat, NEW to \in Nat, from <= to, NEW s \in Seq(Nat), Len(s) = to - from,
           \A i \in 1 .. to - from : s[i] = from + i
    PROVE  Bytes(0, from) \o s = Bytes(0, to)
<1>1. ASSUME NEW n \in Nat
      PROVE  Bytes(0, n) \in Seq(Nat) /\ Len(Bytes(0, n)) = n /\ \A i \in 1 .. n : Bytes(0, n)[i] = i
  <2>1. n - 0 = n /\ 0 <= n /\ \A i \in 1 .. n : 0 + i = i
    OBVIOUS
  <2> QED
    BY <2>1, BytesIsSeq, ZenonT(40)
<1> DEFINE u == Bytes(0, from)
           t == u \o s
<1>2. u \in Seq(Nat) /\ Len(u) = from /\ \A i \in 1 .. from : u[i] = i
  BY <1>1
<1> HIDE DEF u
<1>3. /\ t \in Seq(Nat) /\ Len(t) = to
      /\ \A i \in 1 .. to : t[i] = IF i <= from THEN u[i] ELSE s[i - from]
  BY <1>2, SMTT(30)
<1> HIDE DEF t
<1>4. ASSUME NEW i \in 1 .. to
      PROVE  t[i] = i
  <2>1. CASE i <= from
    BY <1>2, <1>3, <2>1
  <2>2. CASE i > from
    <3>1. i - from \in 1 .. to - from /\ t[i] = s[i - from] /\ from + (i - from) = i
      BY <1>3, <2>2
    <3> QED
      BY <3>1
  <2> QED
    BY <2>1, <2>2
<1>5. t = Bytes(0, to)
  BY <1>1, <1>3, <1>4
<1> QED
  BY <1>5 DEF t, u

\* A frame is a pair of natural numbers that ends below MaxUint64.
LEMMA FrameFacts ==
    ASSUME NEW f \in Frames
    PROVE  /\ f.Offset \in Nat /\ f.Length \in Nat /\ MaxUint64 \in Nat
           /\ End(f) \in Nat /\ End(f) = f.Offset + f.Length /\ End(f) < MaxUint64
           /\ \A x : x \in Offsets(f) <=> x \in Nat /\ f.Offset <= x /\ x < End(f)
<1>1. f.Offset \in Nat /\ f.Length \in Nat /\ MaxUint64 \in Nat /\ f.Offset + f.Length < MaxUint64
  BY FramesAssumption
<1>2. End(f) = f.Offset + f.Length /\ End(f) \in Nat
  BY <1>1 DEF End
<1> QED
  BY <1>1, <1>2 DEF Offsets

\* No byte behind the end of the list's range is in a gap.
LEMMA InGapBelow ==
    ASSUME NEW max \in Nat, NEW l \in Seq(Intervals), Separated(l, max), NEW x \in Nat, InGap(l, x)
    PROVE  x < max
<1>1. PICK i \in DOMAIN l : l[i].start <= x /\ x < l[i].end
  BY Zenon DEF InGap
<1>2. l[i] \in Intervals /\ l[i].end <= max
  BY DEF Separated
<1> QED
  BY <1>1, <1>2 DEF Intervals

\* The gaps stay apart when the range grows.
LEMMA SeparatedGrows ==
    ASSUME NEW max \in Nat, NEW l \in Seq(Intervals), Separated(l, max), NEW m \in Nat, max <= m
    PROVE  Separated(l, m)
<1>1. ASSUME NEW i \in DOMAIN l
      PROVE  l[i].end <= m
  <2>1. l[i] \in Intervals /\ l[i].end <= max
    BY DEF Separated
  <2> QED
    BY <2>1 DEF Intervals
<1> QED
  BY <1>1 DEF Separated

\* A stream that is closed has all its bytes: no frame that keeps to the final size reaches
\* behind them.
LEMMA ClosedIsFull ==
    ASSUME NEW f \in Frames, BufferInv, HolesInv, ReaderInv, EndingInv, ReadClosed, KeepsToFinalSize(f)
    PROVE  ReadOffset = maxReadReceived /\ End(f) <= maxReadReceived
<1>1. ReadOffset \in Nat /\ ReadOffset <= maxReadReceived /\ maxReadReceived \in Nat
  BY FirstGapFacts DEF BufferInv, HolesInv, ReaderInv
<1>2. ReadCloseOffset # MaxUint64 /\ ReadOffset = ReadCloseOffset /\ maxReadReceived <= ReadCloseOffset
  BY Zenon DEF EndingInv
<1>3. ReadCloseOffsetAfter(f) = ReadCloseOffset /\ End(f) <= ReadCloseOffsetAfter(f)
  BY <1>2, Zenon DEF KeepsToFinalSize
<1> QED
  BY <1>1, <1>2, <1>3, FrameFacts

\* An accepted frame closes the stream exactly when it makes the bytes up to the final size
\* complete.
LEMMA EndingStays ==
    ASSUME NEW f \in Frames, BufferInv, HolesInv, ReaderInv, EndingInv, Accept(f), orderly',
           maxReadReceived' \in {maxReadReceived, End(f)},
           ReadOffset' \in Nat, ReadOffset <= ReadOffset', ReadOffset' <= maxReadReceived'
    PROVE  EndingInv'
<1>1. /\ End(f) \in Nat /\ End(f) < MaxUint64 /\ MaxUint64 \in Nat
      /\ maxReadReceived \in Nat /\ ReadCloseOffset \in Nat
  BY FrameFacts DEF BufferInv, EndingInv
<1>2. KeepsToFinalSize(f) /\ ReadCloseOffset' = ReadCloseOffsetAfter(f)
  BY Zenon DEF Accept
<1>3. ReadCloseOffset' \in Nat
  BY <1>1, <1>2 DEF ReadCloseOffsetAfter
<1>4. maxReadReceived' \in Nat /\ maxReadReceived' <= ReadCloseOffset' /\ maxReadReceived' < MaxUint64
  <2>1. maxReadReceived' <= ReadCloseOffset'
    BY <1>2, Zenon DEF KeepsToFinalSize
  <2>2. maxReadReceived < MaxUint64
    BY <1>1 DEF EndingInv
  <2> QED
    BY <1>1, <2>1, <2>2
<1>5. ReadClosed => ReadCloseOffset' # MaxUint64 /\ ReadOffset' = ReadCloseOffset'
  <2>1. SUFFICES ASSUME ReadClosed
                 PROVE  ReadCloseOffset' # MaxUint64 /\ ReadOffset' = ReadCloseOffset'
    OBVIOUS
  <2>2. ReadCloseOffset # MaxUint64 /\ ReadOffset = ReadCloseOffset
    BY <2>1, Zenon DEF EndingInv
  <2>3. ReadCloseOffset' = ReadCloseOffset
    BY <1>2, <2>2, Zenon DEF KeepsToFinalSize
  <2> QED
    BY <1>1, <1>3, <1>4, <2>2, <2>3
<1>6. ReadOffset' = ReadCloseOffset' => ReadCloseOffset' # MaxUint64
  BY <1>1, <1>3, <1>4
<1>7. ReadClosed' <=> ReadClosed \/ ReadOffset' = ReadCloseOffset'
  BY <1>2, Zenon DEF Accept, CloseWhenAt
<1> QED
  BY <1>3, <1>4, <1>5, <1>6, <1>7, Zenon DEF EndingInv

\* In-order data: there is no gap, and the frame continues the stream.
LEMMA AddInOrderKeeps ==
    ASSUME NEW f \in Frames, BufferInv, HolesInv, ReaderInv, CopiedInv, EndingInv, AddInOrder(f), orderly'
    PROVE  /\ HolesInv' /\ ReaderInv' /\ CopiedInv'
           /\ maxReadReceived' = End(f) /\ ReadOffset <= ReadOffset'
<1>1. /\ f.Offset \in Nat /\ f.Length \in Nat /\ End(f) \in Nat /\ End(f) = f.Offset + f.Length
      /\ \A x : x \in Offsets(f) <=> x \in Nat /\ f.Offset <= x /\ x < End(f)
  BY FrameFacts
<1>2. /\ f.Offset = ReadOffset /\ f.Offset = maxReadReceived
      /\ ReadOffset' = End(f) /\ maxReadReceived' = End(f) /\ gaps' = gaps /\ KeepsToFinalSize(f)
      /\ received' = received \cup Offsets(f)
  BY Zenon DEF AddInOrder, InOrder, Accept
<1>3. gaps = <<>> /\ gaps' = <<>>
  <2>1. gaps # <<>> => FirstGap(gaps, maxReadReceived) < maxReadReceived
    BY FirstGapFacts DEF BufferInv, HolesInv
  <2> QED
    BY <1>1, <1>2, <2>1 DEF ReaderInv
<1>4. \A l, x : l = <<>> => ~InGap(l, x)
  BY DEF InGap
<1>5. /\ received \subseteq 0 .. maxReadReceived - 1
      /\ \A x \in 0 .. maxReadReceived - 1 : x \in received
  BY <1>3, <1>4, Zenon DEF HolesInv
<1>6. received' = 0 .. End(f) - 1
  <2>1. ASSUME NEW x
        PROVE  x \in received' <=> x \in Nat /\ x < End(f)
    <3>1. x \in received <=> x \in Nat /\ x < f.Offset
      <4>1. x \in 0 .. maxReadReceived - 1 <=> x \in Nat /\ x < f.Offset
        BY <1>1, <1>2
      <4> QED
        BY <1>5, <4>1, Zenon
    <3>2. x \in received' <=> x \in received \/ x \in Offsets(f)
      BY <1>2, Zenon
    <3>3. x \in Nat => (x < f.Offset \/ f.Offset <= x) /\ (x < f.Offset => x < End(f))
      BY <1>1
    <3> QED
      BY <1>1, <3>1, <3>2, <3>3, Zenon
  <2>2. \A x : x \in 0 .. End(f) - 1 <=> x \in Nat /\ x < End(f)
    BY <1>1
  <2> QED
    BY <2>1, <2>2, Zenon
<1>7. HolesInv'
  <2>1. <<>> \in Seq(Intervals) /\ Separated(<<>>, End(f))
    BY DEF Separated
  <2> QED
    BY <1>2, <1>3, <1>4, <1>6, <2>1, Zenon DEF HolesInv
<1> DEFINE o == f.Offset
           e == End(f)
           d == Bytes(o, e)
<1>8. /\ o \in Nat /\ e \in Nat /\ o <= e
      /\ d \in Seq(Nat) /\ Len(d) = e - o /\ \A i \in 1 .. e - o : d[i] = o + i
  <2>1. o \in Nat /\ e \in Nat /\ o <= e
    BY <1>1
  <2> HIDE DEF o, e
  <2> QED
    BY <2>1, BytesIsSeq
<1> HIDE DEF d
<1>9. ReaderInv'
  <2>1. FirstGap(gaps', maxReadReceived') = ReadOffset'
    BY <1>2, <1>3, Zenon DEF FirstGap
  <2>2. delivered = Bytes(0, f.Offset) /\ ~halted
    BY <1>2 DEF ReaderInv
  <2>3. CASE f.Length > 0
    <3>1. ~ReadClosed
      BY <1>1, <1>2, <2>3, ClosedIsFull
    <3>2. ~halted' /\ delivered' = delivered \o Bytes(f.Offset, End(f))
      BY <2>3, <3>1 DEF AddInOrder, HandOut, Submit
    <3>3. Bytes(0, o) \o d = Bytes(0, e)
      <4> HIDE DEF o, e
      <4> QED
        BY <1>8, BytesContinued, Zenon
    <3> QED
      BY <1>2, <2>1, <2>2, <3>2, <3>3, Zenon DEF ReaderInv, d
  <2>4. CASE ~(f.Length > 0)
    <3>1. halted' = halted /\ delivered' = delivered
      BY <2>4, Zenon DEF AddInOrder, HandOut, NoSubmit
    <3>2. End(f) = f.Offset
      BY <1>1, <2>4
    <3> QED
      BY <1>2, <2>1, <2>2, <3>1, <3>2, Zenon DEF ReaderInv
  <2> QED
    BY <2>3, <2>4
<1>10. CopiedInv'
  <2>1. ReadData \in Seq(Nat) /\ Len(ReadData) = o
    BY <1>2 DEF BufferInv
  <2>2. ReadData' = ReadData \o d
    BY Zenon DEF AddInOrder, Kept, d
  <2>3. \A x \in received' : x \in 0 .. e - 1
    BY <1>6, Zenon
  <2>4. \A x \in 0 .. e - 1 : x < o => ReadData[x + 1] = x + 1
    BY <1>1, <1>2, <1>5 DEF CopiedInv
  <2> HIDE DEF o, e
  <2>5. ASSUME NEW i \in 1 .. e
        PROVE  /\ i <= o => ReadData'[i] = ReadData[i]
               /\ ~(i <= o) => ReadData'[i] = d[i - o]
    BY ONLY <1>8, <2>1, <2>2, i \in 1 .. e, SMTT(30)
  <2>6. ASSUME NEW x \in 0 .. e - 1
        PROVE  ReadData'[x + 1] = x + 1
    <3>1. x + 1 \in 1 .. e
      BY <1>8
    <3>2. CASE x < o
      BY <1>8, <2>4, <2>5, <3>1, <3>2
    <3>3. CASE x >= o
      <4>1. (x + 1) - o \in 1 .. e - o /\ o + ((x + 1) - o) = x + 1 /\ ~(x + 1 <= o)
        BY <1>8, <3>3
      <4>2. ReadData'[x + 1] = d[(x + 1) - o]
        BY <2>5, <3>1, <4>1, Zenon
      <4> QED
        BY <1>8, <4>1, <4>2
    <3> QED
      BY <1>8, <3>2, <3>3
  <2> QED
    BY <2>3, <2>6, Zenon DEF CopiedInv
<1> QED
  BY <1>1, <1>2, <1>7, <1>9, <1>10

\* Data past everything seen: the bytes before it become a gap, and the reader stays where it is.
LEMMA AddBeyondKeeps ==
    ASSUME NEW f \in Frames, BufferInv, HolesInv, ReaderInv, CopiedInv, EndingInv, AddBeyond(f), orderly'
    PROVE  /\ HolesInv' /\ ReaderInv' /\ CopiedInv'
           /\ maxReadReceived' = End(f) /\ ReadOffset' = ReadOffset
<1> DEFINE o == f.Offset
           e == End(f)
           m == maxReadReceived
<1>1. /\ o \in Nat /\ e \in Nat /\ m \in Nat /\ o <= e /\ m < e
      /\ \A x : x \in Offsets(f) <=> x \in Nat /\ o <= x /\ x < e
  <2>1. m < e /\ m \in Nat
    BY FrameFacts DEF AddBeyond, Beyond, BufferInv
  <2> QED
    BY <2>1, FrameFacts
<1>2. /\ maxReadReceived' = e /\ ReadOffset' = ReadOffset /\ delivered' = delivered /\ halted' = halted
      /\ received' = received \cup Offsets(f) /\ RepairsHolesFromTheFront(f) /\ ~InOrder(f)
      /\ gaps' = IF m < o THEN Add(gaps, byteInterval(m, o)) ELSE gaps
      /\ ReadData' = [i \in 1 .. e |-> IF i > o THEN i
                                       ELSE IF i <= Len(ReadData) THEN ReadData[i] ELSE Zero]
  BY Zenon DEF AddBeyond, Beyond, Accept, NoSubmit, GapBefore
<1>3. /\ gaps \in Seq(Intervals) /\ Separated(gaps, m) /\ received \subseteq 0 .. m - 1
      /\ \A x \in 0 .. m - 1 : x \in received <=> ~InGap(gaps, x)
      /\ ReadOffset = FirstGap(gaps, m)
  BY DEF HolesInv, ReaderInv
<1>4. \A x : x \in 0 .. m - 1 <=> x \in Nat /\ x < m
  BY <1>1
<1>5. m <= o
  <2>1. CASE Offsets(f) \subseteq received
    <3>1. ~(e - 1 \in Offsets(f))
      BY <1>1, <1>3, <2>1
    <3>2. e - 1 \in Nat /\ e - 1 < e
      BY <1>1
    <3>3. ~(o <= e - 1)
      BY <1>1, <3>1, <3>2, Zenon
    <3> QED
      BY <1>1, <3>3
  <2>2. CASE End(f) <= maxReadReceived
    BY <1>1, <2>2
  <2>3. CASE f.Offset >= maxReadReceived
    BY <1>1, <2>3
  <2> QED
    BY <1>2, <2>1, <2>2, <2>3, Zenon DEF RepairsHolesFromTheFront
<1>6. InOrder(f) <=> o = ReadOffset /\ o = m
  BY Zenon DEF InOrder
<1> HIDE DEF o, e, m
<1>7. /\ gaps' \in Seq(Intervals) /\ Separated(gaps', o) /\ FirstGap(gaps', e) = FirstGap(gaps, m)
      /\ \A x \in Nat : InGap(gaps', x) <=> InGap(gaps, x) \/ (m <= x /\ x < o)
  <2>1. CASE m < o
    <3>1. gaps' = Add(gaps, byteInterval(m, o))
      BY <1>2, <2>1, Zenon
    <3>2. /\ gaps' \in Seq(Intervals) /\ Separated(gaps', o) /\ FirstGap(gaps', o) = FirstGap(gaps, m)
          /\ \A x \in Nat : InGap(gaps', x) <=> InGap(gaps, x) \/ (m <= x /\ x < o)
      BY <1>1, <1>3, <2>1, <3>1, AddedFacts
    <3>3. InGap(gaps', m)
      BY <1>1, <2>1, <3>2
    <3>4. gaps' # <<>>
      BY <3>3 DEF InGap
    <3>5. FirstGap(gaps', e) = FirstGap(gaps', o)
      BY <3>4, Zenon DEF FirstGap
    <3> QED
      BY <3>2, <3>5, Zenon
  <2>2. CASE m = o
    <3>1. gaps' = gaps /\ ~(o < o)
      BY <1>1, <1>2, <2>2
    <3>2. gaps # <<>>
      BY <1>2, <1>3, <1>6, <2>2, Zenon DEF FirstGap
    <3>3. FirstGap(gaps, e) = FirstGap(gaps, m)
      BY <3>2, Zenon DEF FirstGap
    <3>4. \A x \in Nat : ~(m <= x /\ x < o)
      BY <1>1, <2>2
    <3> QED
      BY <1>3, <2>2, <3>1, <3>3, <3>4, Zenon
  <2> QED
    BY <1>1, <1>5, <2>1, <2>2
<1>8. HolesInv'
  <2>1. Separated(gaps', e)
    BY <1>1, <1>7, SeparatedGrows
  <2>2. received' \subseteq 0 .. e - 1
    <3>1. \A x \in received : x \in Nat /\ x < m
      BY <1>3, <1>4, Zenon
    <3> QED
      BY <1>1, <1>2, <3>1
  <2>3. ASSUME NEW x \in 0 .. e - 1
        PROVE  x \in received' <=> ~InGap(gaps', x)
    <3>1. x \in Nat /\ x < e
      BY <1>1
    <3>2. x \in received' <=> x \in received \/ o <= x
      BY <1>1, <1>2, <3>1, Zenon
    <3>3. InGap(gaps', x) <=> InGap(gaps, x) \/ (m <= x /\ x < o)
      BY <1>7, <3>1, Zenon
    <3>4. InGap(gaps, x) => x < m
      BY <1>1, <1>3, <3>1, InGapBelow
    <3>5. x < m => (x \in received <=> ~InGap(gaps, x))
      BY <1>3, <1>4, <3>1, Zenon
    <3>6. x \in received => x < m
      BY <1>3, <1>4, Zenon
    <3> QED
      BY <1>1, <1>5, <3>1, <3>2, <3>3, <3>4, <3>5, <3>6
  <2> QED
    BY <1>2, <1>7, <2>1, <2>2, <2>3, Zenon DEF HolesInv
<1>9. ReaderInv'
  BY <1>2, <1>3, <1>7, Zenon DEF ReaderInv
<1>10. CopiedInv'
  <2>1. ASSUME NEW x \in received'
        PROVE  ReadData'[x + 1] = x + 1
    <3>1. CASE x \in received
      <4>1. x \in Nat /\ x < m /\ ReadData[x + 1] = x + 1
        BY <1>3, <1>4, <3>1, Zenon DEF CopiedInv
      <4>2. x + 1 \in 1 .. e /\ ~(x + 1 > o) /\ x + 1 <= Len(ReadData)
        BY <1>1, <1>5, <4>1 DEF BufferInv, m
      <4> QED
        BY <1>2, <4>1, <4>2
    <3>2. CASE x \in Offsets(f)
      <4>1. x + 1 \in 1 .. e /\ x + 1 > o
        BY <1>1, <3>2
      <4> QED
        BY <1>2, <4>1
    <3> QED
      BY <1>2, <2>1, <3>1, <3>2, Zenon
  <2> QED
    BY <2>1, Zenon DEF CopiedInv
<1> QED
  BY <1>2, <1>8, <1>9, <1>10, Zenon DEF e

\* Data below maxReadReceived, from a peer that repairs holes from the front: it is all there
\* already, or it comes from the front of one gap, and it leaves the gaps.
LEMMA FillIsExact ==
    ASSUME NEW f \in Frames, BufferInv, HolesInv, RepairsHolesFromTheFront(f),
           f.Length > 0, End(f) <= maxReadReceived,
           NEW r, r = Fill(gaps, byteInterval(f.Offset, End(f)))
    PROVE  /\ r \in Seq(Intervals) /\ Separated(r, maxReadReceived)
           /\ \A x \in Nat : InGap(r, x) <=> InGap(gaps, x) /\ x \notin Offsets(f)
<1> DEFINE o == f.Offset
           e == End(f)
           m == maxReadReceived
           b == byteInterval(o, e)
<1>1. /\ o \in Nat /\ e \in Nat /\ m \in Nat /\ o < e /\ e <= m
      /\ \A x \in Nat : x \in Offsets(f) <=> o <= x /\ x < e
  BY FrameFacts, SMTT(30) DEF BufferInv
<1>2. /\ gaps \in Seq(Intervals) /\ Separated(gaps, m) /\ received \subseteq 0 .. m - 1
      /\ \A x \in 0 .. m - 1 : x \in received <=> ~InGap(gaps, x)
  BY DEF HolesInv
<1>3. \A x : x \in 0 .. m - 1 <=> x \in Nat /\ x < m
  BY <1>1
<1>4. \A x \in Nat : x < m => (x \in received <=> ~InGap(gaps, x))
  BY <1>2, <1>3, Zenon
<1>5. b \in Intervals /\ b.start = o /\ b.end = e /\ r = Fill(gaps, b)
  BY <1>1 DEF byteInterval, Intervals
<1>6. \/ Offsets(f) \subseteq received
      \/ Offsets(f) \cap received = {} /\ (o = 0 \/ o - 1 \in received)
  <2>1. ~(f.Offset >= maxReadReceived)
    BY <1>1
  <2> QED
    BY <2>1, Zenon DEF RepairsHolesFromTheFront
<1> HIDE DEF o, e, m, b
<1>7. CASE Offsets(f) \subseteq received
  <2>1. ASSUME NEW x \in Nat, x \in Offsets(f)
        PROVE  ~InGap(gaps, x)
    BY <1>2, <1>3, <1>7, <2>1, Zenon
  <2>2. \A x \in Nat : b.start <= x /\ x < b.end => ~InGap(gaps, x)
    BY <1>1, <1>5, <2>1, Zenon
  <2>3. r = gaps
    BY <1>1, <1>2, <1>5, <2>2, FilledAgain
  <2> QED
    BY <1>2, <2>1, <2>3, Zenon DEF m
<1>8. CASE Offsets(f) \cap received = {} /\ (o = 0 \/ o - 1 \in received)
  <2>1. ASSUME NEW x \in Nat, o <= x, x < e
        PROVE  InGap(gaps, x)
    <3>1. x < m
      BY <1>1, <2>1
    <3>2. x \notin received
      BY <1>1, <1>8, <2>1
    <3> QED
      BY <1>4, <3>1, <3>2, Zenon
  <2>2. PICK g \in DOMAIN gaps : gaps[g].start <= o /\ o < gaps[g].end
    <3>1. InGap(gaps, o)
      BY <1>1, <2>1
    <3> QED
      BY <3>1, Zenon DEF InGap
  <2>3. \A i \in DOMAIN gaps : /\ gaps[i].start \in Nat /\ gaps[i].end \in Nat
                               /\ gaps[i].start < gaps[i].end /\ gaps[i].end <= m
    <3>1. ASSUME NEW i \in DOMAIN gaps
          PROVE  gaps[i].start \in Nat /\ gaps[i].end \in Nat
      <4>1. gaps[i] \in Intervals
        BY <1>2
      <4> QED
        BY <4>1 DEF Intervals
    <3> QED
      BY <1>2, <3>1, Zenon DEF Separated
  <2>4. gaps[g].start = o
    <3>1. SUFFICES ASSUME gaps[g].start < o
                   PROVE  FALSE
      BY <1>1, <2>2, <2>3
    <3>2. /\ o - 1 \in Nat /\ o - 1 < m /\ o # 0
          /\ gaps[g].start <= o - 1 /\ o - 1 < gaps[g].end
      BY <1>1, <2>2, <2>3, <3>1
    <3>3. InGap(gaps, o - 1)
      BY <3>2, Zenon DEF InGap
    <3> QED
      BY <1>4, <1>8, <3>2, <3>3, Zenon
  <2>5. e <= gaps[g].end
    <3> DEFINE y == gaps[g].end
    <3>1. SUFFICES ASSUME y < e
                   PROVE  FALSE
      BY <1>1, <2>3
    <3>2. y \in Nat /\ o <= y
      BY <1>1, <2>2, <2>3
    <3>3. PICK h \in DOMAIN gaps : gaps[h].start <= y /\ y < gaps[h].end
      <4>1. InGap(gaps, y)
        BY <2>1, <3>1, <3>2, Zenon
      <4> QED
        BY <4>1, Zenon DEF InGap
    <3>4. /\ h < g => gaps[h].end < gaps[g].start
          /\ g < h => gaps[g].end < gaps[h].start
      BY <1>2, Zenon DEF Separated
    <3>5. h # g
      BY <2>3, <3>3
    <3>6. h < g \/ g < h
      BY <1>2, <3>5
    <3> QED
      BY <1>1, <2>2, <2>3, <3>3, <3>4, <3>6
  <2>6. /\ r \in Seq(Intervals) /\ Separated(r, m)
        /\ \A x \in Nat : InGap(r, x) <=> InGap(gaps, x) /\ ~(b.start <= x /\ x < b.end)
    BY <1>1, <1>2, <1>5, <2>4, <2>5, FilledFront
  <2> QED
    BY <1>1, <1>5, <2>6, Zenon DEF m
<1> QED
  BY <1>6, <1>7, <1>8, Zenon

\* Data below maxReadReceived: it leaves the gaps, and the readers are given everything up to
\* the first gap that remains.
LEMMA AddWithinKeeps ==
    ASSUME NEW f \in Frames, BufferInv, HolesInv, ReaderInv, CopiedInv, EndingInv, AddWithin(f), orderly'
    PROVE  /\ HolesInv' /\ ReaderInv' /\ CopiedInv'
           /\ maxReadReceived' = maxReadReceived /\ ReadOffset <= ReadOffset'
<1> DEFINE o == f.Offset
           e == End(f)
           m == maxReadReceived
<1>1. /\ o \in Nat /\ e \in Nat /\ m \in Nat /\ o < e /\ e <= m
      /\ \A x \in Nat : x \in Offsets(f) <=> o <= x /\ x < e
      /\ \A x \in Offsets(f) : x \in Nat
  <2>1. f.Length > 0 /\ e <= m /\ m \in Nat
    BY FrameFacts DEF AddWithin, Within, BufferInv
  <2> QED
    BY <2>1, FrameFacts
<1>2. /\ maxReadReceived' = m /\ f.Length > 0 /\ End(f) <= maxReadReceived
      /\ received' = received \cup Offsets(f) /\ RepairsHolesFromTheFront(f) /\ KeepsToFinalSize(f)
      /\ gaps' = Fill(gaps, byteInterval(f.Offset, End(f)))
      /\ ReadData' = [i \in DOMAIN ReadData |-> IF i \in o + 1 .. e THEN i ELSE ReadData[i]]
  <2>1. e <= m
    BY <1>1
  <2> QED
    BY <2>1, Zenon DEF AddWithin, Accept
<1>3. /\ gaps \in Seq(Intervals) /\ Separated(gaps, m) /\ received \subseteq 0 .. m - 1
      /\ \A x \in 0 .. m - 1 : x \in received <=> ~InGap(gaps, x)
      /\ ReadOffset = FirstGap(gaps, m) /\ delivered = Bytes(0, ReadOffset) /\ ~halted
  BY DEF HolesInv, ReaderInv
<1>4. /\ gaps' \in Seq(Intervals) /\ Separated(gaps', m)
      /\ \A x \in Nat : InGap(gaps', x) <=> InGap(gaps, x) /\ x \notin Offsets(f)
  BY <1>2, FillIsExact
<1>5. \A x : x \in 0 .. m - 1 <=> x \in Nat /\ x < m
  BY <1>1
<1>6. ReadData \in Seq(Nat) /\ Len(ReadData) = m
  BY DEF BufferInv
<1> HIDE DEF o, e, m
<1>7. HolesInv'
  <2>1. received' \subseteq 0 .. m - 1
    <3>1. \A x \in Offsets(f) : x \in Nat /\ x < m
      BY <1>1
    <3> QED
      BY <1>2, <1>3, <1>5, <3>1, Zenon
  <2>2. \A x \in 0 .. m - 1 : x \in received' <=> ~InGap(gaps', x)
    BY <1>2, <1>3, <1>4, <1>5, Zenon
  <2> QED
    BY <1>2, <1>4, <2>1, <2>2, Zenon DEF HolesInv
<1>8. CopiedInv'
  <2>1. ASSUME NEW x \in received'
        PROVE  ReadData'[x + 1] = x + 1
    <3>1. x \in Nat /\ x < m
      BY <1>2, <1>5, <1>7, Zenon DEF HolesInv
    <3>2. x + 1 \in DOMAIN ReadData
      BY <1>1, <1>6, <3>1
    <3>3. CASE x \in Offsets(f)
      <4>1. x + 1 \in o + 1 .. e
        BY <1>1, <3>1, <3>3
      <4> QED
        BY <1>2, <3>2, <4>1
    <3>4. CASE x \in received
      <4>1. ReadData[x + 1] = x + 1
        BY <3>4, Zenon DEF CopiedInv
      <4> QED
        BY <1>2, <3>2, <4>1
    <3> QED
      BY <1>2, <2>1, <3>3, <3>4, Zenon
  <2> QED
    BY <2>1, Zenon DEF CopiedInv
<1> DEFINE g == FirstGap(gaps', m)
<1>9. /\ ReadOffset \in Nat /\ ReadOffset <= m /\ g \in Nat /\ g <= m
      /\ \A x \in Nat : x < ReadOffset => ~InGap(gaps, x)
      /\ \A x \in Nat : x < g => ~InGap(gaps', x)
      /\ g < m => InGap(gaps', g)
  <2>1. /\ ReadOffset \in Nat /\ ReadOffset <= m
        /\ \A x \in Nat : x < ReadOffset => ~InGap(gaps, x)
    BY <1>1, <1>3, FirstGapFacts
  <2>2. /\ g \in Nat /\ g <= m
        /\ \A x \in Nat : x < g => ~InGap(gaps', x)
        /\ g < m => InGap(gaps', g)
    BY <1>1, <1>4, FirstGapFacts
  <2> QED
    BY <2>1, <2>2, Zenon
<1>10. ReadData' \in Seq(Nat) /\ Len(ReadData') = m
  <2>1. \A i \in o + 1 .. e : i \in Nat
    BY <1>1
  <2>2. ReadData' \in [1 .. m -> Nat]
    BY <1>2, <1>6, <2>1
  <2> QED
    BY <1>1, <2>2
<1>11. g = IF gaps' # <<>> THEN Head(gaps').start ELSE Len(ReadData')
  BY <1>4, <1>10 DEF FirstGap
<1>12. IF ReadOffset < g
       THEN /\ Submit(SubSeq(ReadData', ReadOffset + 1, g))
            /\ ReadOffset' = IF halted' THEN ReadOffset ELSE g
       ELSE NoSubmit /\ UNCHANGED ReadOffset
  BY <1>11, Zenon DEF AddWithin
<1> HIDE DEF g
<1>13. ReadOffset <= g
  <2>1. SUFFICES ASSUME g < ReadOffset
                 PROVE  FALSE
    BY <1>9
  <2>2. InGap(gaps', g)
    BY <1>1, <1>9, <2>1
  <2> QED
    BY <1>4, <1>9, <2>1, <2>2, Zenon
<1>14. ReadOffset' = g /\ delivered' = Bytes(0, g) /\ ~halted'
  <2>1. CASE ReadOffset < g
    <3>1. ~ReadClosed
      <4>1. ReadClosed => ReadOffset = m
        BY <1>2, ClosedIsFull DEF m
      <4> QED
        BY <1>1, <1>9, <2>1, <4>1
    <3>2. /\ ~halted' /\ ReadOffset' = g
          /\ delivered' = delivered \o SubSeq(ReadData', ReadOffset + 1, g)
      BY <1>12, <2>1, <3>1, Zenon DEF Submit
    <3> DEFINE s == SubSeq(ReadData', ReadOffset + 1, g)
    <3>3. s \in Seq(Nat) /\ Len(s) = g - ReadOffset
          /\ \A i \in 1 .. g - ReadOffset : s[i] = ReadData'[ReadOffset + i]
      BY <1>1, <1>9, <1>10, <2>1
    <3> HIDE DEF s
    <3>4. ASSUME NEW i \in 1 .. g - ReadOffset
          PROVE  s[i] = ReadOffset + i
      <4> DEFINE x == ReadOffset + i - 1
      <4>1. x \in Nat /\ x < g /\ x < m /\ x + 1 = ReadOffset + i
        BY <1>1, <1>9, <2>1
      <4> HIDE DEF x
      <4>2. x \in received'
        BY <1>2, <1>5, <1>7, <1>9, <4>1, Zenon DEF HolesInv
      <4>3. ReadData'[x + 1] = x + 1
        BY <1>8, <4>2, Zenon DEF CopiedInv
      <4> QED
        BY <3>3, <4>1, <4>3
    <3>5. Bytes(0, ReadOffset) \o s = Bytes(0, g)
      BY <1>9, <2>1, <3>3, <3>4, BytesContinued
    <3> QED
      BY <1>3, <3>2, <3>5, Zenon DEF s
  <2>2. CASE ReadOffset = g
    <3>1. ReadOffset' = ReadOffset /\ delivered' = delivered /\ halted' = halted
      BY <1>9, <1>12, <2>2 DEF NoSubmit
    <3> QED
      BY <1>3, <2>2, <3>1, Zenon
  <2> QED
    BY <1>9, <1>13, <2>1, <2>2
<1>15. ReaderInv'
  BY <1>2, <1>14, Zenon DEF ReaderInv, g
<1> QED
  BY <1>2, <1>7, <1>8, <1>13, <1>14, <1>15, Zenon DEF m

\* addToRead keeps the buffer as long as the highest offset seen, in each of its branches.
LEMMA addToReadKeepsBufferInv ==
    ASSUME NEW f \in Frames, BufferInv, addToRead(f)
    PROVE  BufferInv'
<1>1. f.Offset \in Nat /\ f.Length \in Nat /\ End(f) \in Nat /\ f.Offset <= End(f)
  BY FramesAssumption DEF End
<1>2. CASE AddInOrder(f)
  <2> DEFINE d == Bytes(f.Offset, End(f))
  <2>1. d \in Seq(Nat) /\ Len(d) = End(f) - f.Offset
    BY <1>1, BytesIsSeq, Zenon
  <2>2. ReadData' = ReadData \o d /\ maxReadReceived' = End(f) /\ f.Offset = maxReadReceived
    BY <1>2, Zenon DEF AddInOrder, Kept, InOrder
  <2> HIDE DEF d
  <2>3. ReadData \o d \in Seq(Nat) /\ Len(ReadData \o d) = Len(ReadData) + Len(d)
    <3>1. ReadData \in Seq(Nat) /\ d \in Seq(Nat)
      BY <2>1 DEF BufferInv
    <3> QED
      BY ONLY <3>1
  <2> QED
    BY <1>1, <2>1, <2>2, <2>3 DEF BufferInv
<1>3. CASE AddBeyond(f)
  <2>1. maxReadReceived' = End(f)
    BY <1>3 DEF AddBeyond
  <2>2. ReadData' \in [1 .. End(f) -> Nat]
    BY <1>1, <1>3 DEF AddBeyond, BufferInv, Zero
  <2> QED
    BY <1>1, <2>1, <2>2 DEF BufferInv
<1>4. CASE AddWithin(f)
  <2>1. maxReadReceived' = maxReadReceived
    BY <1>4 DEF AddWithin
  <2>2. ReadData' \in [1 .. Len(ReadData) -> Nat]
    BY <1>1, <1>4 DEF AddWithin, BufferInv
  <2> QED
    BY <2>1, <2>2 DEF BufferInv
<1>5. CASE AddEmpty(f)
  BY <1>5 DEF AddEmpty, BufferInv
<1>6. CASE Ignore(f)
  BY <1>6 DEF Ignore, vars, BufferInv
<1> QED
  BY <1>2, <1>3, <1>4, <1>5, <1>6 DEF addToRead

\* addToRead keeps the invariant, in each of its branches.
LEMMA addToReadKeepsStreamInv ==
    ASSUME NEW f \in Frames, StreamInv, addToRead(f)
    PROVE  StreamInv'
<1>1. BufferInv /\ BufferInv'
  BY addToReadKeepsBufferInv DEF StreamInv
<1>2. SUFFICES ASSUME orderly'
               PROVE  HolesInv' /\ ReaderInv' /\ CopiedInv' /\ EndingInv'
  BY <1>1, Zenon DEF StreamInv
<1>3. CASE Ignore(f)
  <2>1. HolesInv /\ ReaderInv /\ CopiedInv /\ EndingInv
    BY <1>2, <1>3 DEF StreamInv, Ignore, vars
  <2> QED
    BY <1>3, <2>1, Zenon DEF Ignore, vars, HolesInv, ReaderInv, CopiedInv, EndingInv
<1>4. CASE Accept(f) /\ (AddInOrder(f) \/ AddBeyond(f) \/ AddWithin(f) \/ AddEmpty(f))
  <2>1. HolesInv /\ ReaderInv /\ CopiedInv /\ EndingInv
    BY <1>2, <1>4, Zenon DEF StreamInv, Accept
  <2>2. ReadOffset \in Nat
    BY <1>1, <2>1, FirstGapFacts DEF HolesInv, ReaderInv, BufferInv
  <2>3. ASSUME HolesInv', ReaderInv', maxReadReceived' \in {maxReadReceived, End(f)},
               ReadOffset <= ReadOffset' \/ ReadOffset' = ReadOffset
        PROVE  EndingInv'
    <3>1. ReadOffset' \in Nat /\ ReadOffset' <= maxReadReceived'
      BY <1>1, <2>3, FirstGapFacts DEF HolesInv, ReaderInv, BufferInv
    <3>2. ReadOffset <= ReadOffset'
      BY <2>2, <2>3, <3>1
    <3> QED
      BY <1>1, <1>2, <1>4, <2>1, <2>3, <3>1, <3>2, EndingStays, Zenon
  <2>4. CASE AddEmpty(f)
    <3>1. /\ ReadOffset' = ReadOffset /\ maxReadReceived' = maxReadReceived /\ ReadData' = ReadData
          /\ gaps' = gaps /\ delivered' = delivered /\ halted' = halted /\ f.Length = 0
          /\ received' = received \cup Offsets(f)
      BY <2>4, Zenon DEF AddEmpty, NoSubmit, Accept
    <3>2. Offsets(f) = {}
      BY <3>1, FrameFacts
    <3>3. received' = received
      BY <3>1, <3>2
    <3>4. HolesInv' /\ ReaderInv' /\ CopiedInv'
      BY <2>1, <3>1, <3>3, Zenon DEF HolesInv, ReaderInv, CopiedInv
    <3> QED
      BY <2>3, <3>1, <3>4
  <2>5. CASE AddInOrder(f) \/ AddBeyond(f) \/ AddWithin(f)
    <3>1. /\ HolesInv' /\ ReaderInv' /\ CopiedInv'
          /\ maxReadReceived' \in {maxReadReceived, End(f)}
          /\ ReadOffset <= ReadOffset' \/ ReadOffset' = ReadOffset
      BY <1>1, <1>2, <2>1, <2>5, AddInOrderKeeps, AddBeyondKeeps, AddWithinKeeps, Zenon
    <3> QED
      BY <2>3, <3>1
  <2> QED
    BY <1>4, <2>4, <2>5, Zenon
<1> QED
  BY <1>3, <1>4 DEF addToRead, AddInOrder, AddBeyond, AddWithin, AddEmpty

\* The invariant holds in every state of every run.
THEOREM StreamInvariant == Spec => []StreamInv
<1>1. Init => StreamInv
  <2>1. SUFFICES ASSUME Init
                 PROVE  StreamInv
    OBVIOUS
  <2>2. BufferInv
    BY <2>1 DEF Init, BufferInv
  <2>3. gaps = <<>> /\ maxReadReceived = 0 /\ received = {}
    BY <2>1, Zenon DEF Init
  <2>4. HolesInv
    <3>1. gaps \in Seq(Intervals) /\ Separated(gaps, 0) /\ 0 .. 0 - 1 = {}
      BY <2>3 DEF Separated
    <3> QED
      BY <2>3, <3>1 DEF HolesInv
  <2>5. ReaderInv
    <3>1. Bytes(0, 0) = <<>>
      BY BytesIsSeq
    <3> QED
      BY <2>1, <3>1 DEF Init, ReaderInv, FirstGap
  <2>6. CopiedInv /\ EndingInv
    BY <2>1, FramesAssumption DEF Init, CopiedInv, EndingInv
  <2> QED
    BY <2>2, <2>4, <2>5, <2>6 DEF StreamInv
<1>2. StreamInv /\ [Next]_vars => StreamInv'
  <2>1. CASE Next
    BY <2>1, addToReadKeepsStreamInv DEF Next
  <2>2. CASE UNCHANGED vars
    BY <2>2, Zenon DEF vars, StreamInv, BufferInv, HolesInv, ReaderInv, CopiedInv, EndingInv
  <2> QED
    BY <2>1, <2>2
<1> QED
  BY <1>1, <1>2, PTL DEF Spec

\* The reader stands at the first byte that has not been received.
LEMMA ReaderAtFirstMissing ==
    ASSUME StreamInv, orderly
    PROVE  /\ ReadOffset \in Nat /\ maxReadReceived \in Nat /\ ReadOffset <= maxReadReceived
           /\ \A x \in Nat : x < ReadOffset => x \in received
           /\ ReadOffset \notin received
<1>1. /\ maxReadReceived \in Nat /\ gaps \in Seq(Intervals) /\ Separated(gaps, maxReadReceived)
      /\ received \subseteq 0 .. maxReadReceived - 1
      /\ \A x \in 0 .. maxReadReceived - 1 : x \in received <=> ~InGap(gaps, x)
      /\ ReadOffset = FirstGap(gaps, maxReadReceived)
  BY DEF StreamInv, BufferInv, HolesInv, ReaderInv
<1>2. /\ ReadOffset \in Nat /\ ReadOffset <= maxReadReceived
      /\ \A x \in Nat : x < ReadOffset => ~InGap(gaps, x)
      /\ ReadOffset < maxReadReceived => InGap(gaps, ReadOffset)
  BY <1>1, FirstGapFacts
<1>3. ASSUME NEW x \in Nat, x < ReadOffset
      PROVE  x \in received
  <2>1. x \in 0 .. maxReadReceived - 1
    BY <1>1, <1>2, <1>3
  <2> QED
    BY <1>1, <1>2, <1>3, <2>1, Zenon
<1>4. ReadOffset \notin received
  <2>1. CASE ReadOffset < maxReadReceived
    <3>1. ReadOffset \in 0 .. maxReadReceived - 1
      BY <1>1, <1>2, <2>1
    <3> QED
      BY <1>1, <1>2, <2>1, <3>1, Zenon
  <2>2. CASE ReadOffset = maxReadReceived
    BY <1>1, <2>2
  <2> QED
    BY <1>1, <1>2, <2>1, <2>2
<1> QED
  BY <1>1, <1>2, <1>3, <1>4, Zenon

\* For every set of frames, in every order, while the peer repairs holes from their front:
\* the gap list that Add and Fill keep is exactly the set of missing bytes.
THEOREM GapsExact == Spec => []GapsAreTheHoles
<1>1. StreamInv => GapsAreTheHoles
  <2>1. SUFFICES ASSUME StreamInv, orderly
                 PROVE  UNION {gaps[i].start .. gaps[i].end - 1 : i \in DOMAIN gaps}
                            = (0 .. maxReadReceived - 1) \ received
    BY Zenon DEF GapsAreTheHoles
  <2>2. /\ maxReadReceived \in Nat /\ gaps \in Seq(Intervals) /\ Separated(gaps, maxReadReceived)
        /\ \A x \in 0 .. maxReadReceived - 1 : x \in received <=> ~InGap(gaps, x)
    BY <2>1 DEF StreamInv, BufferInv, HolesInv
  <2>3. ASSUME NEW x, NEW i \in DOMAIN gaps
        PROVE  x \in gaps[i].start .. gaps[i].end - 1 <=> x \in Nat /\ gaps[i].start <= x /\ x < gaps[i].end
    <3>1. gaps[i] \in Intervals
      BY <2>2
    <3>2. gaps[i].start \in Nat /\ gaps[i].end \in Nat
      BY <3>1 DEF Intervals
    <3> QED
      BY <3>2
  <2>4. ASSUME NEW x
        PROVE  x \in UNION {gaps[i].start .. gaps[i].end - 1 : i \in DOMAIN gaps}
                   <=> x \in Nat /\ InGap(gaps, x)
    <3>1. x \in UNION {gaps[i].start .. gaps[i].end - 1 : i \in DOMAIN gaps}
             <=> \E i \in DOMAIN gaps : x \in gaps[i].start .. gaps[i].end - 1
      BY Zenon
    <3> QED
      BY <2>3, <3>1, Zenon DEF InGap
  <2>5. ASSUME NEW x
        PROVE  x \in Nat /\ InGap(gaps, x) <=> x \in 0 .. maxReadReceived - 1 /\ x \notin received
    <3>1. x \in Nat /\ InGap(gaps, x) => x < maxReadReceived
      BY <2>2, InGapBelow
    <3>2. x \in 0 .. maxReadReceived - 1 <=> x \in Nat /\ x < maxReadReceived
      BY <2>2
    <3> QED
      BY <2>2, <3>1, <3>2, Zenon
  <2> QED
    BY <2>4, <2>5, Zenon
<1> QED
  BY <1>1, StreamInvariant, PTL

\* For every set of frames, in every order, while the peer repairs holes from their front:
\* what ReadChan broadcast is the peer's stream, each byte once and in order, up to the
\* first byte that is missing.
THEOREM ReadInOrder == Spec => []OrderlyIsDelivered
<1>1. StreamInv => OrderlyIsDelivered
  <2>1. SUFFICES ASSUME StreamInv, orderly
                 PROVE  DeliveredIsTheStream /\ ReadOffset = Contiguous
    BY Zenon DEF OrderlyIsDelivered
  <2>2. DeliveredIsTheStream
    BY <2>1, Zenon DEF StreamInv, ReaderInv, DeliveredIsTheStream
  <2>3. /\ ReadOffset \in Nat /\ maxReadReceived \in Nat /\ ReadOffset <= maxReadReceived
        /\ \A x \in Nat : x < ReadOffset => x \in received
        /\ ReadOffset \notin received
    BY <2>1, ReaderAtFirstMissing
  <2>4. /\ ReadOffset \in 0 .. maxReadReceived
        /\ 0 .. ReadOffset - 1 \subseteq received /\ ReadOffset \notin received
    BY <2>3
  <2>5. ASSUME NEW n \in 0 .. maxReadReceived, 0 .. n - 1 \subseteq received, n \notin received
        PROVE  n = ReadOffset
    <3>1. ~(n < ReadOffset)
      BY <2>3, <2>5
    <3>2. ~(ReadOffset < n)
      <4>1. ReadOffset < n => ReadOffset \in 0 .. n - 1
        BY <2>3
      <4> QED
        BY <2>3, <2>5, <4>1, Zenon
    <3> QED
      BY <2>3, <3>1, <3>2
  <2>6. /\ Contiguous \in 0 .. maxReadReceived
        /\ 0 .. Contiguous - 1 \subseteq received /\ Contiguous \notin received
    BY <2>4, Zenon DEF Contiguous
  <2> QED
    BY <2>2, <2>5, <2>6, Zenon
<1> QED
  BY <1>1, StreamInvariant, PTL

\* For every set of frames, in every order, while the peer repairs holes from their front:
\* the stream is closed exactly when the final size is known and every byte before it has
\* arrived, and addToRead never waits on a closed ReadChan.
THEOREM ClosedWhenComplete == Spec => []ClosedExactlyWhenComplete
<1>1. StreamInv => ClosedExactlyWhenComplete
  <2>1. SUFFICES ASSUME StreamInv, orderly
                 PROVE  /\ ~halted
                        /\ ReadClosed <=> /\ ReadCloseOffset # MaxUint64
                                          /\ 0 .. ReadCloseOffset - 1 \subseteq received
    BY Zenon DEF ClosedExactlyWhenComplete
  <2>2. /\ ReadOffset \in Nat /\ maxReadReceived \in Nat /\ ReadOffset <= maxReadReceived
        /\ \A x \in Nat : x < ReadOffset => x \in received
        /\ ReadOffset \notin received
    BY <2>1, ReaderAtFirstMissing
  <2>3. /\ ~halted /\ ReadCloseOffset \in Nat
        /\ ReadCloseOffset # MaxUint64 => maxReadReceived <= ReadCloseOffset
        /\ ReadClosed <=> ReadCloseOffset # MaxUint64 /\ ReadOffset = ReadCloseOffset
    BY <2>1, Zenon DEF StreamInv, ReaderInv, EndingInv
  <2>4. ReadOffset = ReadCloseOffset => 0 .. ReadCloseOffset - 1 \subseteq received
    BY <2>2
  <2>5. ASSUME ReadCloseOffset # MaxUint64, 0 .. ReadCloseOffset - 1 \subseteq received
        PROVE  ReadOffset = ReadCloseOffset
    <3>1. ~(ReadOffset < ReadCloseOffset)
      <4>1. ReadOffset < ReadCloseOffset => ReadOffset \in 0 .. ReadCloseOffset - 1
        BY <2>2, <2>3
      <4> QED
        BY <2>2, <2>5, <4>1, Zenon
    <3> QED
      BY <2>2, <2>3, <2>5, <3>1
  <2> QED
    BY <2>3, <2>4, <2>5, Zenon
<1> QED
  BY <1>1, StreamInvariant, PTL

\* For every set of frames, in every order: the read buffer reaches exactly to the highest
\* offset seen, so the copy of addToRead's last branch stays inside it.
THEOREM BufferLength == Spec => []BufferReachesMax
<1>1. StreamInv => BufferReachesMax
  BY DEF StreamInv, BufferInv, BufferReachesMax
<1> QED
  BY <1>1, StreamInvariant, PTL

\* For every set of frames, in every order: the first accepted FIN fixes the final size for
\* good, and a stream that has ended stays ended.
THEOREM FinalSize == Spec => FinalSizeIsFinal
<1>1. ASSUME NEW f \in Frames, addToRead(f)
      PROVE  /\ ReadCloseOffset # MaxUint64 => ReadCloseOffset' = ReadCloseOffset
             /\ ReadClosed => ReadClosed'
  <2>1. CASE Ignore(f)
    BY <2>1 DEF Ignore, vars
  <2>2. CASE Accept(f)
    BY <2>2, Zenon DEF Accept, MovesFin, ReadCloseOffsetAfter, CloseWhenAt
  <2> QED
    BY <1>1, <2>1, <2>2 DEF addToRead, AddInOrder, AddBeyond, AddWithin, AddEmpty
<1>2. [Next]_vars => [/\ ReadCloseOffset # MaxUint64 => ReadCloseOffset' = ReadCloseOffset
                      /\ ReadClosed => ReadClosed']_vars
  BY <1>1 DEF Next
<1> QED
  BY <1>2, PTL DEF Spec, FinalSizeIsFinal
=============================================================================
