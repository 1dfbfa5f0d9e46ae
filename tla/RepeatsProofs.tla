---------------------------- MODULE RepeatsProofs ----------------------------
(* Proofs about ReceivePath: repeated frames have no effect.  The messages  *)
(* of a level on their way to the TLS stack, and HANDSHAKE_DONE on its way  *)
(* to the HandshakeAgent.                                                   *)
EXTENDS ReceivePathProofs, WellFoundedInduction

\* s holds the numbers that follow n.
From(s, n) == \A i \in 1 .. Len(s) : s[i] = n + i

CryptoTypes ==
    /\ DOMAIN crypto = {"next", "held", "ReadChan", "cryptoChan"}
    /\ DOMAIN tls = {"pc", "incomingPackets", "fed", "announced"}
    /\ crypto.next \in [Levels -> Nat] /\ crypto.held \in [Levels -> SUBSET (1 .. MaxMessages)]
    /\ crypto.ReadChan \in [Levels -> Seq(Nat)] /\ crypto.cryptoChan \in [Levels -> Seq(Nat)]
    /\ tls.fed \in [Levels -> Seq(Nat)]
    /\ tls.incomingPackets \in Seq([type : Levels \cup {"Retry", "Reset"}, frames : SUBSET Frames])

\* The messages of a level that are contiguous are, in order, those given to the TLS stack,
\* those in cryptoChan and those in ReadChan.
CryptoInv(l) ==
    /\ crypto.next[l] > 0 /\ 1 .. crypto.next[l] - 1 \subseteq crypto.held[l]
    /\ From(tls.fed[l], 0) /\ From(crypto.cryptoChan[l], Len(tls.fed[l]))
    /\ From(crypto.ReadChan[l], Len(tls.fed[l]) + Len(crypto.cryptoChan[l]))
    /\ Len(tls.fed[l]) + Len(crypto.cryptoChan[l]) + Len(crypto.ReadChan[l]) = crypto.next[l] - 1

DoneTypes ==
    /\ DOMAIN handshake = {"running", "registered", "incPackets"}
    /\ handshake.incPackets \in Seq([type : Levels \cup {"Retry", "Reset"}, frames : SUBSET Frames])
    /\ HandshakeStatus \in Seq(BOOLEAN)
    /\ ReceiveFrameBuffer \in [Levels -> SUBSET Frames]

HasDone(i) == "DONE" \in handshake.incPackets[i].frames

\* The HANDSHAKE_DONE that is queued or has been reported is the first one, and came in a
\* packet that was opened with the keys the completed TLS stack gave.
DoneInv ==
    /\ \A i, j \in DOMAIN handshake.incPackets : HasDone(i) /\ HasDone(j) => i = j
    /\ \A i, j \in DOMAIN HandshakeStatus : HandshakeStatus[i] /\ HandshakeStatus[j] => i = j
    /\ \A i \in DOMAIN handshake.incPackets : \A j \in DOMAIN HandshakeStatus : ~(HasDone(i) /\ HandshakeStatus[j])
    /\ (\E i \in DOMAIN handshake.incPackets : HasDone(i)) => "DONE" \in ReceiveFrameBuffer["1RTT"]
    /\ (\E j \in DOMAIN HandshakeStatus : HandshakeStatus[j]) => "DONE" \in ReceiveFrameBuffer["1RTT"]
    /\ "DONE" \in ReceiveFrameBuffer["1RTT"] => "1RTT" \in CryptoStates
    /\ "1RTT" \in CryptoStates => "1RTT" \in Secrets

RepeatInv ==
    CryptoTypes /\ (\A l \in Levels : CryptoInv(l)) /\ DoneTypes /\ DoneInv

\* Servers send HANDSHAKE_DONE in 1-RTT packets only (RFC 9000, 12.5).
DoneOnlyIn1RTT ==
    \A d \in DOMAIN Datagrams : \A i \in DOMAIN Datagrams[d] :
        "DONE" \in Datagrams[d][i].frames => Datagrams[d][i].type = "1RTT"

\* Numbers that follow n, and the next one.
LEMMA FromAppend ==
    ASSUME NEW n \in Nat, NEW s \in Seq(Nat), From(s, n), NEW e, e = n + Len(s) + 1
    PROVE  Append(s, e) \in Seq(Nat) /\ From(Append(s, e), n) /\ Len(Append(s, e)) = Len(s) + 1
<1>1. e \in Nat
  OBVIOUS
<1> QED
  BY <1>1 DEF From

\* Without the first of the numbers, the rest follows its successor.
LEMMA FromTail ==
    ASSUME NEW n \in Nat, NEW s \in Seq(Nat), From(s, n), s # <<>>
    PROVE  /\ Head(s) = n + 1 /\ Tail(s) \in Seq(Nat) /\ From(Tail(s), n + 1)
           /\ Len(s) \in Nat /\ Len(Tail(s)) = Len(s) - 1
<1>1. /\ Tail(s) \in Seq(Nat) /\ Len(s) \in Nat \ {0} /\ Head(s) = s[1] /\ Len(Tail(s)) = Len(s) - 1
      /\ \A i \in 1 .. Len(s) - 1 : Tail(s)[i] = s[i + 1]
  OBVIOUS
<1>2. \A i \in 1 .. Len(s) - 1 : s[i + 1] = n + (i + 1)
  BY <1>1 DEF From
<1>3. s[1] = n + 1
  BY <1>1 DEF From
<1>4. From(Tail(s), n + 1)
  BY <1>1, <1>2 DEF From
<1> QED
  BY <1>1, <1>3, <1>4

\* Numbers that follow those of another sequence continue it.
LEMMA FromConcat ==
    ASSUME NEW n \in Nat, NEW s \in Seq(Nat), NEW t \in Seq(Nat), From(s, n), From(t, n + Len(s))
    PROVE  s \o t \in Seq(Nat) /\ From(s \o t, n) /\ Len(s \o t) = Len(s) + Len(t)
<1>1. /\ s \o t \in Seq(Nat) /\ Len(s \o t) = Len(s) + Len(t) /\ Len(s) \in Nat /\ Len(t) \in Nat
      /\ \A i \in 1 .. Len(s) + Len(t) : (s \o t)[i] = IF i <= Len(s) THEN s[i] ELSE t[i - Len(s)]
  OBVIOUS
<1>2. ASSUME NEW i \in 1 .. Len(s) + Len(t)
      PROVE  (s \o t)[i] = n + i
  <2>1. CASE i <= Len(s)
    BY <1>1, <2>1 DEF From
  <2>2. CASE ~(i <= Len(s))
    <3>1. i - Len(s) \in 1 .. Len(t)
      BY <1>1, <2>2
    <3>2. t[i - Len(s)] = n + Len(s) + (i - Len(s))
      BY <3>1 DEF From
    <3> QED
      BY <1>1, <2>2, <3>2
  <2> QED
    BY <2>1, <2>2
<1> QED
  BY <1>1, <1>2 DEF From

\* A set of numbers has a least one.
LEMMA LeastNatural ==
    ASSUME NEW T, T \subseteq Nat, T # {}
    PROVE  \E x \in T : \A y \in T : x <= y
<1> DEFINE R == OpToRel(<, Nat)
<1>1. IsWellFoundedOn(R, Nat)
  BY NatLessThanWellFounded, Zenon
<1>2. \A x, y \in Nat : <<y, x>> \in R <=> y < x
  BY DEF OpToRel
<1> HIDE DEF R
<1>3. PICK x \in T : \A y \in T : ~ (<<y, x>> \in R)
  BY <1>1, WFMin, Zenon
<1>4. ASSUME NEW y \in T
      PROVE  x <= y
  <2>1. x \in Nat /\ y \in Nat /\ ~(y < x)
    BY <1>2, <1>3, Zenon
  <2> QED
    BY <2>1
<1> QED
  BY <1>4

\* addToRead: the stream stays contiguous, whatever arrives, and the other streams are left alone.
LEMMA ReadContiguous ==
    ASSUME CryptoTypes, NEW l \in Levels, CryptoInv(l), NEW ns \in SUBSET (1 .. MaxMessages),
           crypto' = AddToRead(crypto, l, ns), tls'.fed = tls.fed
    PROVE  /\ DOMAIN crypto' = DOMAIN crypto
           /\ crypto'.next \in [Levels -> Nat] /\ crypto'.held \in [Levels -> SUBSET (1 .. MaxMessages)]
           /\ crypto'.ReadChan \in [Levels -> Seq(Nat)] /\ crypto'.cryptoChan = crypto.cryptoChan
           /\ \A k \in Levels \ {l} : /\ crypto'.next[k] = crypto.next[k] /\ crypto'.held[k] = crypto.held[k]
                                      /\ crypto'.ReadChan[k] = crypto.ReadChan[k]
           /\ CryptoInv(l)'
<1> DEFINE have == crypto.held[l] \cup ns
           n == crypto.next[l]
           rc == crypto.ReadChan[l]
           before == Len(tls.fed[l]) + Len(crypto.cryptoChan[l])
<1>1. /\ have \in SUBSET (1 .. MaxMessages) /\ n \in Nat /\ rc \in Seq(Nat) /\ before \in Nat /\ Len(rc) \in Nat
      /\ tls.fed[l] \in Seq(Nat) /\ crypto.cryptoChan[l] \in Seq(Nat)
      /\ n > 0 /\ 1 .. n - 1 \subseteq have /\ From(rc, before) /\ before + Len(rc) = n - 1
  <2>1. /\ crypto.held[l] \in SUBSET (1 .. MaxMessages) /\ n \in Nat /\ rc \in Seq(Nat)
        /\ tls.fed[l] \in Seq(Nat) /\ crypto.cryptoChan[l] \in Seq(Nat)
    BY DEF CryptoTypes
  <2>2. before \in Nat /\ Len(rc) \in Nat
    <3>1. Len(tls.fed[l]) \in Nat /\ Len(crypto.cryptoChan[l]) \in Nat /\ Len(rc) \in Nat
      BY <2>1
    <3>2. \A i, j \in Nat : i + j \in Nat
      OBVIOUS
    <3> QED
      BY <3>1, <3>2, Zenon
  <2>3. have \in SUBSET (1 .. MaxMessages)
    BY <2>1, Zenon
  <2>4. n > 0 /\ 1 .. n - 1 \subseteq crypto.held[l] /\ From(rc, before) /\ before + Len(rc) = n - 1
    BY Zenon DEF CryptoInv
  <2> QED
    BY <2>1, <2>2, <2>3, <2>4, Zenon
<1> DEFINE last == CHOOSE m \in 0 .. MaxMessages : 1 .. m \subseteq have /\ m + 1 \notin have
           new == [i \in 1 .. last + 1 - n |-> n + i - 1]
<1>2. /\ DOMAIN crypto' = DOMAIN crypto /\ crypto'.cryptoChan = crypto.cryptoChan
      /\ crypto'.held = [crypto.held EXCEPT ![l] = have]
      /\ crypto'.next = [crypto.next EXCEPT ![l] = last + 1]
      /\ crypto'.ReadChan = [crypto.ReadChan EXCEPT ![l] = rc \o new]
  BY Zenon DEF CryptoTypes, AddToRead
<1> HIDE DEF have, n, rc, before
<1>3. \E m \in 0 .. MaxMessages : 1 .. m \subseteq have /\ m + 1 \notin have
  <2> DEFINE missing == {m \in Nat : m + 1 \notin have}
  <2>1. MaxMessages \in missing
    BY <1>1, MessagesAssumption
  <2>2. PICK m \in missing : \A k \in missing : m <= k
    BY <2>1, LeastNatural, Zenon
  <2>3. m <= MaxMessages /\ m \in Nat /\ m + 1 \notin have
    BY <2>1, <2>2
  <2>4. ASSUME NEW j \in 1 .. m
        PROVE  j \in have
    <3>1. j - 1 \in Nat /\ ~(m <= j - 1) /\ (j - 1) + 1 = j
      BY <2>3
    <3>2. j - 1 \notin missing
      BY <2>2, <3>1
    <3> QED
      BY <3>1, <3>2
  <2>5. m \in 0 .. MaxMessages
    BY <2>3, MessagesAssumption
  <2> QED
    BY <2>3, <2>4, <2>5
<1>4. last \in 0 .. MaxMessages /\ 1 .. last \subseteq have /\ last + 1 \notin have
  BY <1>3
<1> HIDE DEF last
<1>5. n - 1 <= last
  BY <1>1, <1>4
<1>6. new \in Seq(Nat) /\ Len(new) = last + 1 - n /\ From(new, n - 1)
  <2>1. last + 1 - n \in Nat
    BY <1>1, <1>4, <1>5
  <2>2. new \in [1 .. last + 1 - n -> Nat]
    BY <1>1, <1>4
  <2>3. new \in Seq(Nat) /\ Len(new) = last + 1 - n
    BY <2>1, <2>2
  <2>4. \A i \in 1 .. last + 1 - n : new[i] = (n - 1) + i
    BY <1>1
  <2> QED
    BY <2>3, <2>4, Zenon DEF From
<1> HIDE DEF new
<1>7. rc \o new \in Seq(Nat) /\ From(rc \o new, before) /\ Len(rc \o new) = Len(rc) + Len(new)
  BY <1>1, <1>6, FromConcat, Zenon
<1>8. last + 1 \in Nat
  BY <1>4
<1>9. /\ crypto'.next \in [Levels -> Nat] /\ crypto'.held \in [Levels -> SUBSET (1 .. MaxMessages)]
      /\ crypto'.ReadChan \in [Levels -> Seq(Nat)]
      /\ crypto'.next[l] = last + 1 /\ crypto'.held[l] = have /\ crypto'.ReadChan[l] = rc \o new
      /\ \A k \in Levels \ {l} : /\ crypto'.next[k] = crypto.next[k] /\ crypto'.held[k] = crypto.held[k]
                                 /\ crypto'.ReadChan[k] = crypto.ReadChan[k]
  <2>1. /\ crypto.next \in [Levels -> Nat] /\ crypto.held \in [Levels -> SUBSET (1 .. MaxMessages)]
        /\ crypto.ReadChan \in [Levels -> Seq(Nat)]
    BY Zenon DEF CryptoTypes
  <2>2. /\ crypto'.next \in [Levels -> Nat] /\ crypto'.next[l] = last + 1
        /\ \A k \in Levels \ {l} : crypto'.next[k] = crypto.next[k]
    BY ONLY <1>2, <1>8, <2>1, l \in Levels, ZenonT(40)
  <2>3. /\ crypto'.held \in [Levels -> SUBSET (1 .. MaxMessages)] /\ crypto'.held[l] = have
        /\ \A k \in Levels \ {l} : crypto'.held[k] = crypto.held[k]
    BY ONLY <1>1, <1>2, <2>1, l \in Levels, Zenon
  <2>4. /\ crypto'.ReadChan \in [Levels -> Seq(Nat)] /\ crypto'.ReadChan[l] = rc \o new
        /\ \A k \in Levels \ {l} : crypto'.ReadChan[k] = crypto.ReadChan[k]
    BY ONLY <1>2, <1>7, <2>1, l \in Levels, ZenonT(40)
  <2> QED
    BY ONLY <2>2, <2>3, <2>4, Zenon
<1>10. CryptoInv(l)'
  <2>1. crypto'.next[l] > 0 /\ 1 .. crypto'.next[l] - 1 \subseteq crypto'.held[l]
    BY <1>4, <1>9
  <2>2. From(tls'.fed[l], 0) /\ From(crypto'.cryptoChan[l], Len(tls'.fed[l]))
    BY <1>2, Zenon DEF CryptoInv
  <2>3. From(crypto'.ReadChan[l], Len(tls'.fed[l]) + Len(crypto'.cryptoChan[l]))
    BY <1>2, <1>7, <1>9, Zenon DEF before
  <2>4. before + Len(rc \o new) = last
    <3>1. before \in Nat /\ Len(rc) \in Nat /\ n \in Nat /\ last \in Int
      BY <1>1, <1>4
    <3>2. before + Len(rc) = n - 1 /\ Len(rc \o new) = Len(rc) + (last + 1 - n)
      BY <1>1, <1>6, <1>7
    <3> QED
      BY <3>1, <3>2
  <2>5. Len(tls'.fed[l]) + Len(crypto'.cryptoChan[l]) + Len(crypto'.ReadChan[l]) = crypto'.next[l] - 1
    <3>1. Len(tls'.fed[l]) + Len(crypto'.cryptoChan[l]) = before
      BY <1>2 DEF before
    <3>2. crypto'.next[l] - 1 = last
      BY <1>4, <1>9
    <3> QED
      BY <1>9, <2>4, <3>1, <3>2, Zenon
  <2> QED
    BY <2>1, <2>2, <2>3, <2>5, Zenon DEF CryptoInv
<1> QED
  BY <1>2, <1>9, <1>10, Zenon

\* A level whose stream is left alone.
LEMMA StreamKept ==
    ASSUME NEW k \in Levels, CryptoInv(k), tls'.fed[k] = tls.fed[k], crypto'.next[k] = crypto.next[k],
           crypto'.held[k] = crypto.held[k], crypto'.ReadChan[k] = crypto.ReadChan[k],
           crypto'.cryptoChan[k] = crypto.cryptoChan[k]
    PROVE  CryptoInv(k)'
BY Zenon DEF CryptoInv

\* BroadcastCrypto: the first message of ReadChan goes to the end of cryptoChan.
LEMMA BroadcastInOrder ==
    ASSUME CryptoTypes, \A k \in Levels : CryptoInv(k), NEW l \in Levels, BroadcastCrypto(l)
    PROVE  CryptoTypes' /\ \A k \in Levels : CryptoInv(k)'
<1> DEFINE rc == crypto.ReadChan[l]
           cc == crypto.cryptoChan[l]
           f == Len(tls.fed[l])
<1>1. /\ rc \in Seq(Nat) /\ cc \in Seq(Nat) /\ f \in Nat /\ rc # <<>> /\ crypto.next[l] \in Nat
      /\ DOMAIN crypto' = DOMAIN crypto /\ crypto'.next = crypto.next /\ crypto'.held = crypto.held
      /\ crypto'.cryptoChan = [crypto.cryptoChan EXCEPT ![l] = Append(cc, Head(rc))]
      /\ crypto'.ReadChan = [crypto.ReadChan EXCEPT ![l] = Tail(rc)] /\ tls' = tls
  BY DEF CryptoTypes, BroadcastCrypto
<1>2. From(rc, f + Len(cc)) /\ From(cc, f) /\ f + Len(cc) + Len(rc) = crypto.next[l] - 1
  BY Zenon DEF CryptoInv
<1> HIDE DEF rc, cc, f
<1>3. Len(cc) \in Nat /\ Len(rc) \in Nat /\ f + Len(cc) \in Nat
  BY <1>1
<1>4. /\ Head(rc) = f + Len(cc) + 1 /\ Tail(rc) \in Seq(Nat) /\ From(Tail(rc), f + Len(cc) + 1)
      /\ Len(Tail(rc)) = Len(rc) - 1
  BY <1>1, <1>2, <1>3, FromTail
<1>5. /\ Append(cc, Head(rc)) \in Seq(Nat) /\ From(Append(cc, Head(rc)), f)
      /\ Len(Append(cc, Head(rc))) = Len(cc) + 1
  BY <1>1, <1>2, <1>4, FromAppend
<1>6. /\ crypto'.cryptoChan \in [Levels -> Seq(Nat)] /\ crypto'.ReadChan \in [Levels -> Seq(Nat)]
      /\ crypto'.cryptoChan[l] = Append(cc, Head(rc)) /\ crypto'.ReadChan[l] = Tail(rc)
      /\ \A k \in Levels \ {l} : /\ crypto'.cryptoChan[k] = crypto.cryptoChan[k]
                                 /\ crypto'.ReadChan[k] = crypto.ReadChan[k]
  <2>1. crypto.cryptoChan \in [Levels -> Seq(Nat)] /\ crypto.ReadChan \in [Levels -> Seq(Nat)]
    BY Zenon DEF CryptoTypes
  <2>2. /\ crypto'.cryptoChan \in [Levels -> Seq(Nat)] /\ crypto'.cryptoChan[l] = Append(cc, Head(rc))
        /\ \A k \in Levels \ {l} : crypto'.cryptoChan[k] = crypto.cryptoChan[k]
    BY ONLY <1>1, <1>5, <2>1, l \in Levels, Zenon
  <2>3. /\ crypto'.ReadChan \in [Levels -> Seq(Nat)] /\ crypto'.ReadChan[l] = Tail(rc)
        /\ \A k \in Levels \ {l} : crypto'.ReadChan[k] = crypto.ReadChan[k]
    BY ONLY <1>1, <1>4, <2>1, l \in Levels, Zenon
  <2> QED
    BY ONLY <2>2, <2>3, Zenon
<1>7. CryptoTypes'
  BY <1>1, <1>6, Zenon DEF CryptoTypes
<1>8. CryptoInv(l)'
  <2>1. crypto'.next[l] > 0 /\ 1 .. crypto'.next[l] - 1 \subseteq crypto'.held[l] /\ From(tls'.fed[l], 0)
    BY <1>1, Zenon DEF CryptoInv
  <2>2. Len(tls'.fed[l]) = f /\ crypto'.next[l] = crypto.next[l]
    BY <1>1 DEF f
  <2>3. From(crypto'.cryptoChan[l], f) /\ Len(crypto'.cryptoChan[l]) = Len(cc) + 1
    BY <1>5, <1>6
  <2>4. f + (Len(cc) + 1) = f + Len(cc) + 1 /\ f + (Len(cc) + 1) + (Len(rc) - 1) = crypto.next[l] - 1
    BY <1>1, <1>2, <1>3
  <2>5. From(crypto'.ReadChan[l], f + (Len(cc) + 1)) /\ Len(crypto'.ReadChan[l]) = Len(rc) - 1
    BY <1>4, <1>6, <2>4, Zenon
  <2> QED
    BY <2>1, <2>2, <2>3, <2>4, <2>5, Zenon DEF CryptoInv
<1>9. \A k \in Levels \ {l} : CryptoInv(k)'
  BY <1>1, <1>6, StreamKept, Zenon
<1> QED
  BY <1>7, <1>8, <1>9

\* HandlePacket: what is in cryptoChan is given to the TLS stack, all of it.
LEMMA FeedInOrder ==
    ASSUME CryptoTypes, \A k \in Levels : CryptoInv(k), HandlePacket
    PROVE  /\ CryptoTypes' /\ \A k \in Levels : CryptoInv(k)'
           /\ \A k \in Levels : Len(tls'.fed[k]) \in Nat /\ Len(tls.fed[k]) <= Len(tls'.fed[k])
<1> DEFINE W == [type : Levels \cup {"Retry", "Reset"}, frames : SUBSET Frames]
           q == tls.incomingPackets
<1>0. PICK l : l = q[1].type
  OBVIOUS
<1> DEFINE cc == crypto.cryptoChan[l]
           fd == tls.fed[l]
<1>1. q \in Seq(W) /\ q # <<>>
  BY Zenon DEF CryptoTypes, HandlePacket
<1> HIDE DEF W
<1>2. Head(q) = q[1] /\ Tail(q) \in Seq(W)
  BY <1>1
<1>3. CASE l \in Levels /\ cc # <<>>
  <2>1. /\ DOMAIN tls' = DOMAIN tls /\ DOMAIN crypto' = DOMAIN crypto
        /\ tls'.incomingPackets = Tail(q) /\ tls'.fed = [tls.fed EXCEPT ![l] = fd \o cc]
        /\ crypto'.next = crypto.next /\ crypto'.held = crypto.held /\ crypto'.ReadChan = crypto.ReadChan
        /\ crypto'.cryptoChan = [crypto.cryptoChan EXCEPT ![l] = <<>>]
    <3>1. /\ tls' = [[tls EXCEPT !.incomingPackets = Tail(q)] EXCEPT !.pc = "install", !.fed[l] = @ \o cc]
          /\ crypto' = [crypto EXCEPT !.cryptoChan[l] = <<>>]
      BY <1>0, <1>2, <1>3, Zenon DEF HandlePacket
    <3> QED
      BY <3>1 DEF CryptoTypes
  <2>2. fd \in Seq(Nat) /\ cc \in Seq(Nat) /\ crypto.next[l] \in Nat
    BY <1>3 DEF CryptoTypes
  <2>3. /\ From(fd, 0) /\ From(cc, Len(fd)) /\ From(crypto.ReadChan[l], Len(fd) + Len(cc))
        /\ Len(fd) + Len(cc) + Len(crypto.ReadChan[l]) = crypto.next[l] - 1
        /\ crypto.next[l] > 0 /\ 1 .. crypto.next[l] - 1 \subseteq crypto.held[l]
    BY <1>3, Zenon DEF CryptoInv
  <2> HIDE DEF q, fd, cc
  <2>4. Len(fd) \in Nat /\ Len(cc) \in Nat /\ 0 + Len(fd) = Len(fd)
    BY <2>2
  <2>5. fd \o cc \in Seq(Nat) /\ From(fd \o cc, 0) /\ Len(fd \o cc) = Len(fd) + Len(cc)
    <3>1. From(cc, 0 + Len(fd)) /\ 0 \in Nat
      BY <2>3, <2>4
    <3> QED
      BY ONLY <2>2, <2>3, <3>1, FromConcat, Zenon
  <2>6. /\ tls'.fed \in [Levels -> Seq(Nat)] /\ tls'.fed[l] = fd \o cc
        /\ crypto'.cryptoChan \in [Levels -> Seq(Nat)] /\ crypto'.cryptoChan[l] = <<>>
        /\ \A k \in Levels \ {l} : tls'.fed[k] = tls.fed[k] /\ crypto'.cryptoChan[k] = crypto.cryptoChan[k]
    BY <1>3, <2>1, <2>5 DEF CryptoTypes
  <2>7. CryptoTypes'
    BY <1>2, <2>1, <2>6, Zenon DEF CryptoTypes, W
  <2>8. CryptoInv(l)'
    <3>1. Len(tls'.fed[l]) = Len(fd) + Len(cc) /\ Len(crypto'.cryptoChan[l]) = 0 /\ From(tls'.fed[l], 0)
      BY <2>5, <2>6
    <3>2. From(crypto'.cryptoChan[l], Len(tls'.fed[l]))
      BY <3>1 DEF From
    <3>3. Len(tls'.fed[l]) + Len(crypto'.cryptoChan[l]) = Len(fd) + Len(cc)
      BY <2>4, <3>1
    <3>4. /\ From(crypto'.ReadChan[l], Len(tls'.fed[l]) + Len(crypto'.cryptoChan[l]))
          /\ Len(tls'.fed[l]) + Len(crypto'.cryptoChan[l]) + Len(crypto'.ReadChan[l]) = crypto'.next[l] - 1
          /\ crypto'.next[l] > 0 /\ 1 .. crypto'.next[l] - 1 \subseteq crypto'.held[l]
      BY <2>1, <2>3, <3>3, Zenon
    <3> QED
      BY <3>1, <3>2, <3>4, Zenon DEF CryptoInv
  <2>9. \A k \in Levels \ {l} : CryptoInv(k)'
    BY <2>1, <2>6, StreamKept, Zenon
  <2>10. \A k \in Levels : Len(tls'.fed[k]) \in Nat /\ Len(tls.fed[k]) <= Len(tls'.fed[k])
    <3>1. Len(tls'.fed[l]) \in Nat /\ Len(tls.fed[l]) <= Len(tls'.fed[l])
      BY <2>4, <2>5, <2>6 DEF fd
    <3>2. \A k \in Levels \ {l} : Len(tls'.fed[k]) \in Nat /\ tls'.fed[k] = tls.fed[k]
      BY <2>6
    <3> QED
      BY <3>1, <3>2
  <2> QED
    BY <1>3, <2>7, <2>8, <2>9, <2>10
<1>4. CASE ~(l \in Levels /\ cc # <<>>)
  <2>1. tls' = [tls EXCEPT !.incomingPackets = Tail(q)] /\ crypto' = crypto
    BY <1>0, <1>2, <1>4, Zenon DEF HandlePacket
  <2>2. DOMAIN tls' = DOMAIN tls /\ tls'.incomingPackets = Tail(q) /\ tls'.fed = tls.fed
    BY <2>1 DEF CryptoTypes
  <2>3. CryptoTypes'
    BY <1>2, <2>1, <2>2 DEF CryptoTypes, W
  <2>4. \A k \in Levels : CryptoInv(k)'
    BY <2>1, <2>2, StreamKept
  <2>5. \A k \in Levels : Len(tls.fed[k]) \in Nat /\ Len(tls'.fed[k]) = Len(tls.fed[k])
    BY <2>2 DEF CryptoTypes
  <2> QED
    BY <2>3, <2>4, <2>5
<1> QED
  BY <1>3, <1>4

-----------------------------------------------------------------------------
(* HANDSHAKE_DONE.                                                         *)

\* What is long enough and does not get shorter stays long enough.
LEMMA StillEnough ==
    ASSUME NEW n \in Nat, NEW m \in Nat, NEW enough \in Nat, n >= enough, n <= m
    PROVE  m >= enough
OBVIOUS

\* The secrets only become more.
LEMMA SecretsKept ==
    ASSUME CryptoTypes, CryptoTypes', \A k \in Levels : Len(tls.fed[k]) <= Len(tls'.fed[k]), "1RTT" \in Secrets
    PROVE  "1RTT" \in Secrets'
<1>1. \A k \in Levels : Len(tls.fed[k]) \in Nat /\ Len(tls'.fed[k]) \in Nat /\ Messages[k] \in Nat
  <2> SUFFICES ASSUME NEW k \in Levels
               PROVE  Len(tls.fed[k]) \in Nat /\ Len(tls'.fed[k]) \in Nat /\ Messages[k] \in Nat
    OBVIOUS
  <2>1. tls.fed[k] \in Seq(Nat) /\ tls'.fed[k] \in Seq(Nat)
    BY DEF CryptoTypes
  <2>2. Messages[k] \in Nat
    BY MessagesAssumption
  <2> QED
    BY <2>1, <2>2
<1>2. "Initial" \in Levels /\ "Handshake" \in Levels
  BY DEF Levels
<1>3. Len(tls.fed["Initial"]) >= Messages["Initial"] /\ Len(tls.fed["Handshake"]) >= Messages["Handshake"]
  BY DEF Secrets, Complete
<1>4. Len(tls'.fed["Initial"]) >= Messages["Initial"] /\ Len(tls'.fed["Handshake"]) >= Messages["Handshake"]
  <2>1. ASSUME NEW k \in Levels, Len(tls.fed[k]) >= Messages[k]
        PROVE  Len(tls'.fed[k]) >= Messages[k]
    BY <1>1, <2>1, StillEnough, Zenon
  <2> QED
    BY <1>2, <1>3, <2>1, Zenon
<1> QED
  BY <1>4 DEF Secrets, Complete

\* The HandshakeAgent and its queue are left alone, and there are no fewer keys and secrets.
LEMMA DoneKept ==
    ASSUME DoneTypes, DoneInv, UNCHANGED <<handshake, HandshakeStatus, ReceiveFrameBuffer>>,
           CryptoStates' = CryptoStates \/ CryptoStates' = CryptoStates \cup Secrets,
           "1RTT" \in Secrets => "1RTT" \in Secrets'
    PROVE  DoneTypes' /\ DoneInv'
<1>1. DoneTypes'
  BY DEF DoneTypes
<1>2. "1RTT" \in CryptoStates' => "1RTT" \in Secrets'
  BY DEF DoneInv
<1>3. DoneInv'
  BY <1>2, Zenon DEF DoneInv, HasDone
<1> QED
  BY <1>1, <1>3

\* HandshakeAgent: a HANDSHAKE_DONE is taken from the queue and reported, or nothing is.
LEMMA HandshakeOnce ==
    ASSUME DoneTypes, DoneInv, HandshakeAgent
    PROVE  DoneTypes' /\ DoneInv'
<1> DEFINE W == [type : Levels \cup {"Retry", "Reset"}, frames : SUBSET Frames]
           q == handshake.incPackets
           hs == HandshakeStatus
           D(i) == "DONE" \in q[i].frames
<1>1. /\ q \in Seq(W) /\ q # <<>> /\ hs \in Seq(BOOLEAN)
      /\ UNCHANGED <<ReceiveFrameBuffer, CryptoStates, tls>>
  BY Zenon DEF DoneTypes, HandshakeAgent
<1> HIDE DEF W
<1>2. /\ Head(q) = q[1] /\ Tail(q) \in Seq(W) /\ 1 \in DOMAIN q
      /\ \A i \in DOMAIN Tail(q) : i + 1 \in DOMAIN q /\ i + 1 # 1 /\ Tail(q)[i] = q[i + 1] /\ i \in Nat
  BY <1>1
<1>3. DOMAIN handshake' = DOMAIN handshake /\ handshake'.incPackets = Tail(q)
  BY Zenon DEF HandshakeAgent, DoneTypes
<1>4. \/ \E b \in BOOLEAN : hs' = Append(hs, b) /\ (b => D(1))
      \/ hs' = hs
  BY <1>2, Zenon DEF HandshakeAgent, Publish
<1>5. hs' \in Seq(BOOLEAN) /\ \A j \in DOMAIN hs' : hs'[j] => (j \in DOMAIN hs /\ hs[j]) \/ (D(1) /\ j = Len(hs) + 1)
  <2> HIDE DEF D
  <2> QED
    BY ONLY <1>1, <1>4, SMTT(30)
<1>6. DoneTypes'
  BY <1>1, <1>2, <1>3, <1>5 DEF DoneTypes, W
<1>7. Secrets' = Secrets
  BY <1>1 DEF Secrets, Complete
<1>8. \A i \in DOMAIN handshake'.incPackets : HasDone(i)' => D(i + 1) /\ ~D(1)
  BY <1>2, <1>3, Zenon DEF DoneInv, HasDone
<1>9. \A i, j \in DOMAIN handshake'.incPackets : HasDone(i)' /\ HasDone(j)' => i = j
  <2> SUFFICES ASSUME NEW i \in DOMAIN handshake'.incPackets, NEW j \in DOMAIN handshake'.incPackets,
                      HasDone(i)', HasDone(j)'
               PROVE  i = j
    OBVIOUS
  <2>1. i + 1 \in DOMAIN q /\ j + 1 \in DOMAIN q /\ i \in Nat /\ j \in Nat /\ D(i + 1) /\ D(j + 1)
    BY <1>2, <1>3, <1>8, Zenon
  <2>2. i + 1 = j + 1
    BY <2>1, Zenon DEF DoneInv, HasDone
  <2> QED
    BY <2>1, <2>2
<1>10. \A i, j \in DOMAIN hs' : hs'[i] /\ hs'[j] => i = j
  BY <1>2, <1>5, Zenon DEF DoneInv, HasDone
<1>11. \A i \in DOMAIN handshake'.incPackets : \A j \in DOMAIN hs' : ~(HasDone(i)' /\ hs'[j])
  BY <1>2, <1>3, <1>5, <1>8, Zenon DEF DoneInv, HasDone
<1>12. (\E i \in DOMAIN handshake'.incPackets : HasDone(i)') => "DONE" \in ReceiveFrameBuffer["1RTT"]
  BY <1>2, <1>3, <1>8, Zenon DEF DoneInv, HasDone
<1>13. (\E j \in DOMAIN hs' : hs'[j]) => "DONE" \in ReceiveFrameBuffer["1RTT"]
  BY <1>2, <1>5, Zenon DEF DoneInv, HasDone
<1>14. DoneInv'
  <2>1. /\ "DONE" \in ReceiveFrameBuffer'["1RTT"] => "1RTT" \in CryptoStates'
        /\ "1RTT" \in CryptoStates' => "1RTT" \in Secrets'
    BY <1>1, <1>7 DEF DoneInv
  <2> QED
    BY <1>1, <1>9, <1>10, <1>11, <1>12, <1>13, <2>1, ZenonT(30) DEF DoneInv
<1> QED
  BY <1>6, <1>14

\* What ReadPacket does with the frames of a packet.
LEMMA PacketFrames ==
    ASSUME PathInv, RepeatInv, ReadPacket
    PROVE  LET p  == Packet(parser.ic)
               l  == p.type
               fs == filterOutRetransmits(p.frames, ReceiveFrameBuffer[l])
               packet == [type |-> l, frames |-> IF l \in Levels THEN fs ELSE {}]
           IN  /\ p \in Packets /\ KeysNeeded(p) \subseteq CryptoStates
               /\ packet \in [type : Levels \cup {"Retry", "Reset"}, frames : SUBSET Frames]
               /\ tls'.fed = tls.fed /\ DOMAIN tls' = DOMAIN tls
               /\ tls'.incomingPackets = Append(tls.incomingPackets, packet)
               /\ DOMAIN handshake' = DOMAIN handshake
               /\ \/ handshake'.incPackets = Append(handshake.incPackets, packet)
                  \/ handshake'.incPackets = handshake.incPackets
               /\ l \in Levels => /\ crypto' = AddToRead(crypto, l, p.crypto)
                                  /\ ReceiveFrameBuffer' = [ReceiveFrameBuffer EXCEPT ![l] = @ \cup fs]
               /\ l \notin Levels => UNCHANGED <<crypto, ReceiveFrameBuffer>>
               /\ UNCHANGED <<CryptoStates, HandshakeStatus>>
<1> DEFINE p == Packet(parser.ic)
           l == p.type
           fs == filterOutRetransmits(p.frames, ReceiveFrameBuffer[l])
           packet == [type |-> l, frames |-> IF l \in Levels THEN fs ELSE {}]
<1>1. p \in Packets /\ KeysNeeded(p) \subseteq CryptoStates
  BY PayloadFacts, Zenon DEF ReadPacket, PathInv, PathTypes, ParserInv
<1>2. packet \in [type : Levels \cup {"Retry", "Reset"}, frames : SUBSET Frames]
  <2>1. l \in Levels \cup {"Retry", "Reset"} /\ p.frames \in SUBSET Frames
    BY <1>1 DEF Packets
  <2>2. fs \in SUBSET Frames
    BY <2>1 DEF filterOutRetransmits
  <2> QED
    BY <2>1, <2>2, Zenon
<1>3. /\ tls' = [tls EXCEPT !.incomingPackets = Append(@, packet)]
      /\ handshake' = IF handshake.registered
                      THEN [handshake EXCEPT !.incPackets = Append(@, packet)]
                      ELSE handshake
      /\ l \in Levels => /\ crypto' = AddToRead(crypto, l, p.crypto)
                         /\ ReceiveFrameBuffer' = [ReceiveFrameBuffer EXCEPT ![l] = @ \cup fs]
      /\ l \notin Levels => UNCHANGED <<crypto, ReceiveFrameBuffer>>
      /\ UNCHANGED <<CryptoStates, HandshakeStatus>>
  BY Zenon DEF ReadPacket
<1> HIDE DEF p, fs, packet
<1>4. /\ tls'.fed = tls.fed /\ DOMAIN tls' = DOMAIN tls
      /\ tls'.incomingPackets = Append(tls.incomingPackets, packet)
  BY <1>3, Zenon DEF RepeatInv, CryptoTypes
<1>5. /\ DOMAIN handshake' = DOMAIN handshake
      /\ \/ handshake'.incPackets = Append(handshake.incPackets, packet)
         \/ handshake'.incPackets = handshake.incPackets
  BY <1>3, Zenon DEF RepeatInv, DoneTypes
<1> QED
  BY <1>1, <1>2, <1>3, <1>4, <1>5, Zenon DEF p, fs, packet

\* ReadPacket: the streams.
LEMMA PacketInOrder ==
    ASSUME PathInv, RepeatInv, ReadPacket
    PROVE  CryptoTypes' /\ \A k \in Levels : CryptoInv(k)'
<1> DEFINE W == [type : Levels \cup {"Retry", "Reset"}, frames : SUBSET Frames]
<1>1. PICK l, ns, packet : /\ ns \in SUBSET (1 .. MaxMessages) /\ packet \in W
                           /\ tls'.fed = tls.fed /\ DOMAIN tls' = DOMAIN tls
                           /\ tls'.incomingPackets = Append(tls.incomingPackets, packet)
                           /\ l \in Levels => crypto' = AddToRead(crypto, l, ns)
                           /\ l \notin Levels => crypto' = crypto
  <2>1. Packet(parser.ic).crypto \in SUBSET (1 .. MaxMessages)
    BY PacketFrames, Zenon DEF Packets
  <2> QED
    BY <2>1, PacketFrames, Zenon
<1>2. tls.incomingPackets \in Seq(W) /\ CryptoTypes /\ \A k \in Levels : CryptoInv(k)
  BY DEF RepeatInv, CryptoTypes
<1> HIDE DEF W
<1>3. tls'.incomingPackets \in Seq(W)
  BY <1>1, <1>2, AppendAdded
<1>4. CASE l \in Levels
  <2>1. /\ DOMAIN crypto' = DOMAIN crypto
        /\ crypto'.next \in [Levels -> Nat] /\ crypto'.held \in [Levels -> SUBSET (1 .. MaxMessages)]
        /\ crypto'.ReadChan \in [Levels -> Seq(Nat)] /\ crypto'.cryptoChan = crypto.cryptoChan
        /\ \A k \in Levels \ {l} : /\ crypto'.next[k] = crypto.next[k] /\ crypto'.held[k] = crypto.held[k]
                                   /\ crypto'.ReadChan[k] = crypto.ReadChan[k]
        /\ CryptoInv(l)'
    BY <1>1, <1>2, <1>4, ReadContiguous, Zenon
  <2>2. CryptoTypes'
    BY <1>1, <1>2, <1>3, <2>1, Zenon DEF CryptoTypes, W
  <2>3. \A k \in Levels \ {l} : CryptoInv(k)'
    BY <1>1, <1>2, <2>1, StreamKept, Zenon
  <2> QED
    BY <1>4, <2>1, <2>2, <2>3
<1>5. CASE l \notin Levels
  <2>1. CryptoTypes'
    BY <1>1, <1>2, <1>3, <1>5, Zenon DEF CryptoTypes, W
  <2>2. \A k \in Levels : CryptoInv(k)'
    BY <1>1, <1>2, <1>5, StreamKept
  <2> QED
    BY <2>1, <2>2
<1> QED
  BY <1>4, <1>5

\* ReadPacket: HANDSHAKE_DONE is queued once.
LEMMA PacketOnce ==
    ASSUME PathInv, RepeatInv, ReadPacket, DoneOnlyIn1RTT
    PROVE  DoneTypes' /\ DoneInv'
<1> DEFINE W == [type : Levels \cup {"Retry", "Reset"}, frames : SUBSET Frames]
           q == handshake.incPackets
           seen == ReceiveFrameBuffer["1RTT"]
<1>1. PICK packet \in W :
          /\ handshake'.incPackets = Append(q, packet) \/ handshake'.incPackets = q
          /\ DOMAIN handshake' = DOMAIN handshake
          /\ ReceiveFrameBuffer' \in [Levels -> SUBSET Frames]
          /\ "DONE" \in packet.frames =>
                /\ "DONE" \notin seen /\ "DONE" \in ReceiveFrameBuffer'["1RTT"] /\ "1RTT" \in CryptoStates
          /\ "DONE" \in seen => "DONE" \in ReceiveFrameBuffer'["1RTT"]
          /\ "DONE" \in ReceiveFrameBuffer'["1RTT"] => "DONE" \in seen \/ "1RTT" \in CryptoStates
  <2> DEFINE p == Packet(parser.ic)
             l == p.type
             fs == filterOutRetransmits(p.frames, ReceiveFrameBuffer[l])
             packet == [type |-> l, frames |-> IF l \in Levels THEN fs ELSE {}]
  <2>1. /\ p \in Packets /\ KeysNeeded(p) \subseteq CryptoStates /\ packet \in W
        /\ handshake'.incPackets = Append(q, packet) \/ handshake'.incPackets = q
        /\ DOMAIN handshake' = DOMAIN handshake
        /\ l \in Levels => ReceiveFrameBuffer' = [ReceiveFrameBuffer EXCEPT ![l] = @ \cup fs]
        /\ l \notin Levels => UNCHANGED ReceiveFrameBuffer
    BY PacketFrames, Zenon
  <2>2. ReceiveFrameBuffer \in [Levels -> SUBSET Frames] /\ "1RTT" \in Levels /\ fs \in SUBSET Frames
    BY <2>1, Zenon DEF RepeatInv, DoneTypes, Levels, filterOutRetransmits, Packets
  <2>3. "DONE" \in fs => l = "1RTT" /\ "DONE" \notin ReceiveFrameBuffer[l]
    <3>1. "DONE" \in p.frames => l = "1RTT"
      BY PayloadFacts, ZenonT(40) DEF DoneOnlyIn1RTT, Packet, PathInv, PathTypes, ReadPacket
    <3>2. "DONE" \in fs => "DONE" \in p.frames /\ "DONE" \notin ReceiveFrameBuffer[l]
      BY DEF filterOutRetransmits
    <3> QED
      BY <3>1, <3>2
  <2>4. l = "1RTT" => "1RTT" \in CryptoStates
    BY <2>1, <2>2, Zenon DEF KeysNeeded
  <2>5. packet.frames = IF l \in Levels THEN fs ELSE {}
    OBVIOUS
  <2> HIDE DEF p, fs, packet
  <2>6. /\ ReceiveFrameBuffer' \in [Levels -> SUBSET Frames]
        /\ "DONE" \in ReceiveFrameBuffer'["1RTT"] <=> "DONE" \in seen \/ (l = "1RTT" /\ "DONE" \in fs)
    BY <2>1, <2>2
  <2>7. "DONE" \in packet.frames => l = "1RTT" /\ "DONE" \in fs /\ "DONE" \notin seen
    BY <2>3, <2>5
  <2>8. /\ "DONE" \in packet.frames =>
              /\ "DONE" \notin seen /\ "DONE" \in ReceiveFrameBuffer'["1RTT"] /\ "1RTT" \in CryptoStates
        /\ "DONE" \in seen => "DONE" \in ReceiveFrameBuffer'["1RTT"]
        /\ "DONE" \in ReceiveFrameBuffer'["1RTT"] => "DONE" \in seen \/ "1RTT" \in CryptoStates
    BY <2>4, <2>6, <2>7
  <2> QED
    BY <2>1, <2>6, <2>8, Zenon
<1>2. /\ q \in Seq(W) /\ DoneInv /\ DoneTypes
      /\ UNCHANGED <<CryptoStates, HandshakeStatus>> /\ tls'.fed = tls.fed
  BY PacketFrames, Zenon DEF RepeatInv, DoneTypes
<1> HIDE DEF W
<1>3. handshake'.incPackets \in Seq(W)
  BY <1>1, <1>2, AppendAdded, Zenon
<1>4. DoneTypes'
  BY <1>1, <1>2, <1>3 DEF DoneTypes, W
<1>5. \A i \in DOMAIN handshake'.incPackets : HasDone(i)' =>
          (i \in DOMAIN q /\ HasDone(i)) \/ ("DONE" \in packet.frames /\ i = Len(q) + 1)
  BY <1>1, <1>2 DEF HasDone
<1>6. "DONE" \in packet.frames => /\ \A i \in DOMAIN q : ~HasDone(i)
                                  /\ \A j \in DOMAIN HandshakeStatus : ~HandshakeStatus[j]
  BY <1>1, <1>2, Zenon DEF DoneInv
<1>7. Secrets' = Secrets
  BY <1>2 DEF Secrets, Complete
<1>8. \A i, j \in DOMAIN handshake'.incPackets : HasDone(i)' /\ HasDone(j)' => i = j
  BY <1>2, <1>5, <1>6 DEF DoneInv
<1>9. \A i \in DOMAIN handshake'.incPackets : \A j \in DOMAIN HandshakeStatus : ~(HasDone(i)' /\ HandshakeStatus[j])
  BY <1>2, <1>5, <1>6 DEF DoneInv
<1>10. /\ (\E i \in DOMAIN handshake'.incPackets : HasDone(i)') => "DONE" \in ReceiveFrameBuffer'["1RTT"]
       /\ (\E j \in DOMAIN HandshakeStatus : HandshakeStatus[j]) => "DONE" \in ReceiveFrameBuffer'["1RTT"]
  BY <1>1, <1>2, <1>5, Zenon DEF DoneInv
<1>11. /\ "DONE" \in ReceiveFrameBuffer'["1RTT"] => "1RTT" \in CryptoStates
       /\ "1RTT" \in CryptoStates => "1RTT" \in Secrets
       /\ \A i, j \in DOMAIN HandshakeStatus : HandshakeStatus[i] /\ HandshakeStatus[j] => i = j
  BY <1>1, <1>2, ZenonT(40) DEF DoneInv
<1>12. DoneInv'
  BY <1>2, <1>7, <1>8, <1>9, <1>10, <1>11 DEF DoneInv
<1> QED
  BY <1>4, <1>12

\* Every step keeps the messages in order and HANDSHAKE_DONE single.
LEMMA RepeatKept ==
    ASSUME PathInv, RepeatInv, [Next]_vars, DoneOnlyIn1RTT
    PROVE  RepeatInv'
<1>1. CryptoTypes /\ (\A k \in Levels : CryptoInv(k)) /\ DoneTypes /\ DoneInv
  BY DEF RepeatInv
<1>2. ASSUME CryptoTypes', \A k \in Levels : CryptoInv(k)', DoneTypes', DoneInv'
      PROVE  RepeatInv'
  BY <1>2 DEF RepeatInv
<1>3. CASE ReadPacket
  BY <1>2, <1>3, PacketInOrder, PacketOnce
<1>4. CASE HandlePacket
  <2>1. /\ CryptoTypes' /\ \A k \in Levels : CryptoInv(k)'
        /\ \A k \in Levels : Len(tls'.fed[k]) \in Nat /\ Len(tls.fed[k]) <= Len(tls'.fed[k])
    BY <1>1, <1>4, FeedInOrder
  <2>2. "1RTT" \in Secrets => "1RTT" \in Secrets'
    BY <1>1, <2>1, SecretsKept
  <2>3. UNCHANGED <<handshake, HandshakeStatus, ReceiveFrameBuffer, CryptoStates>>
    BY <1>4, Zenon DEF HandlePacket
  <2>4. DoneTypes' /\ DoneInv'
    BY <1>1, <2>2, <2>3, DoneKept
  <2> QED
    BY <1>2, <2>1, <2>4
<1>5. CASE \E l \in Levels : BroadcastCrypto(l)
  <2>1. CryptoTypes' /\ \A k \in Levels : CryptoInv(k)'
    BY <1>1, <1>5, BroadcastInOrder
  <2>2. UNCHANGED <<handshake, HandshakeStatus, ReceiveFrameBuffer, CryptoStates, tls>>
    BY <1>5 DEF BroadcastCrypto
  <2>3. Secrets' = Secrets
    BY <2>2 DEF Secrets, Complete
  <2>4. DoneTypes' /\ DoneInv'
    BY <1>1, <2>2, <2>3, DoneKept
  <2> QED
    BY <1>2, <2>1, <2>4
<1>6. ASSUME crypto' = crypto, tls'.fed = tls.fed, tls'.incomingPackets = tls.incomingPackets, DOMAIN tls' = DOMAIN tls
      PROVE  CryptoTypes' /\ (\A k \in Levels : CryptoInv(k)') /\ Secrets' = Secrets
  <2>1. CryptoTypes'
    BY <1>1, <1>6 DEF CryptoTypes
  <2>2. \A k \in Levels : CryptoInv(k)'
    BY <1>1, <1>6, StreamKept
  <2>3. Secrets' = Secrets
    BY <1>6 DEF Secrets, Complete
  <2> QED
    BY <2>1, <2>2, <2>3
<1>7. CASE HandshakeAgent
  <2>1. UNCHANGED <<crypto, tls>>
    BY <1>7, Zenon DEF HandshakeAgent
  <2> QED
    BY <1>1, <1>2, <1>6, <1>7, <2>1, HandshakeOnce
<1>8. CASE InstallKeys \/ AnnounceLevels
  <2>1. /\ crypto' = crypto /\ tls'.fed = tls.fed /\ tls'.incomingPackets = tls.incomingPackets
        /\ DOMAIN tls' = DOMAIN tls
    BY <1>1, <1>8, Zenon DEF InstallKeys, AnnounceLevels, CryptoTypes
  <2>2. /\ CryptoStates' = CryptoStates \/ CryptoStates' = CryptoStates \cup Secrets
        /\ UNCHANGED <<handshake, HandshakeStatus, ReceiveFrameBuffer>>
    BY <1>8 DEF InstallKeys, AnnounceLevels
  <2>3. CryptoTypes' /\ (\A k \in Levels : CryptoInv(k)') /\ Secrets' = Secrets
    BY <1>6, <2>1
  <2>4. DoneTypes' /\ DoneInv'
    BY <1>1, <2>2, <2>3, DoneKept
  <2> QED
    BY <1>2, <2>3, <2>4
<1>9. CASE \/ \E d \in DOMAIN Datagrams : Deliver(d)
           \/ TakePayload \/ ReadHeader \/ PutBack \/ BufferAgent \/ UNCHANGED vars
  <2>1. UNCHANGED <<crypto, tls, CryptoStates, handshake, HandshakeStatus, ReceiveFrameBuffer>>
    BY <1>9, Zenon DEF Deliver, TakePayload, ReadHeader, PutBack, BufferAgent, TakeUnprocessed, TakeLevel, PutBackKept, vars
  <2>2. CryptoTypes' /\ (\A k \in Levels : CryptoInv(k)') /\ Secrets' = Secrets
    BY <1>6, <2>1
  <2>3. DoneTypes' /\ DoneInv'
    BY <1>1, <2>1, <2>2, DoneKept
  <2> QED
    BY <1>2, <2>2, <2>3
<1> QED
  BY <1>3, <1>4, <1>5, <1>7, <1>8, <1>9 DEF Next, ParsingAgent, TLSAgent

\* At first nothing has been received.
LEMMA RepeatInit ==
    ASSUME Init
    PROVE  RepeatInv
<1>1. /\ crypto = [next |-> [l \in Levels |-> 1], held |-> [l \in Levels |-> {}],
                   ReadChan |-> Empty, cryptoChan |-> Empty]
      /\ tls = [pc |-> "select", incomingPackets |-> <<>>, fed |-> Empty, announced |-> {}]
      /\ handshake = [running |-> TRUE, registered |-> TRUE, incPackets |-> <<>>]
      /\ HandshakeStatus = <<>> /\ ReceiveFrameBuffer = [l \in Levels |-> {}] /\ CryptoStates = {"Initial"}
  BY Zenon DEF Init
<1>2. CryptoTypes
  BY <1>1 DEF CryptoTypes, Empty
<1>3. \A k \in Levels : CryptoInv(k)
  BY <1>1 DEF CryptoInv, Empty, From
<1>4. DoneTypes
  BY <1>1 DEF DoneTypes
<1>5. DoneInv
  <2>1. DOMAIN handshake.incPackets = {} /\ DOMAIN HandshakeStatus = {} /\ "1RTT" \notin CryptoStates
        /\ ReceiveFrameBuffer["1RTT"] = {}
    BY <1>1 DEF Levels
  <2> QED
    BY <2>1 DEF DoneInv
<1> QED
  BY <1>2, <1>3, <1>4, <1>5 DEF RepeatInv

\* The invariant is what is promised.
LEMMA RepeatSuffices ==
    ASSUME RepeatInv
    PROVE  RepeatsHaveNoEffect
<1> DEFINE successes == {i \in DOMAIN HandshakeStatus : HandshakeStatus[i]}
<1>1. \A l \in Levels : \A i \in DOMAIN tls.fed[l] : tls.fed[l][i] = i
  <2> SUFFICES ASSUME NEW l \in Levels, NEW i \in DOMAIN tls.fed[l]
               PROVE  tls.fed[l][i] = i
    OBVIOUS
  <2>1. tls.fed[l] \in Seq(Nat) /\ From(tls.fed[l], 0)
    BY Zenon DEF RepeatInv, CryptoTypes, CryptoInv
  <2>2. i \in 1 .. Len(tls.fed[l]) /\ i \in Nat
    BY <2>1
  <2> QED
    BY <2>1, <2>2 DEF From
<1>2. successes # {} => "1RTT" \in Secrets
  BY DEF RepeatInv, DoneInv
<1>3. \A i, j \in successes : i = j
  BY DEF RepeatInv, DoneInv
<1> QED
  BY <1>1, <1>2, <1>3 DEF RepeatsHaveNoEffect

\* For every network and interleaving, and every server that sends HANDSHAKE_DONE in 1-RTT
\* packets only: the TLS stack is given the messages of each level once each and in order, and
\* the success of the handshake is published at most once, after the TLS stack has completed.
THEOREM RepeatsAreFiltered ==
    ASSUME DoneOnlyIn1RTT
    PROVE  Spec => []RepeatsHaveNoEffect
<1>1. Init => PathInv /\ AnnouncedInv /\ RepeatInv
  BY InitRefines, RepeatInit
<1>2. PathInv /\ AnnouncedInv /\ RepeatInv /\ [Next]_vars => PathInv' /\ AnnouncedInv' /\ RepeatInv'
  BY StepRefines, AnnouncedKept, RepeatKept
<1>3. RepeatInv => RepeatsHaveNoEffect
  BY RepeatSuffices
<1> QED
  BY <1>1, <1>2, <1>3, PTL DEF Spec
=============================================================================
