-------------------------- MODULE ReceivePathProofs --------------------------
(* Proofs about ReceivePath.                                               *)
EXTENDS ReceivePath, TLAPS

-----------------------------------------------------------------------------
(* The keys of a level are there before the level is announced.            *)

Announcement == [level : Levels, Read : BOOLEAN, Available : BOOLEAN]

\* True announcements, and what the BufferAgent has made of them.
AnnouncedInv ==
    /\ EncryptionLevels \in Seq(Announcement)
    /\ DOMAIN buffer = {"unprocessedPayloads", "available", "putBack"}
    /\ KeysBeforeAnnouncement

\* Announcements follow those that are on their way.
LEMMA Announced ==
    ASSUME EncryptionLevels \in Seq(Announcement), KeysBeforeAnnouncement,
           NEW s \in Seq(Announcement), EncryptionLevels' = EncryptionLevels \o s,
           \A i \in 1 .. Len(s) : s[i].Available => s[i].level \in CryptoStates,
           buffer'.available = buffer.available, CryptoStates' = CryptoStates
    PROVE  EncryptionLevels' \in Seq(Announcement) /\ KeysBeforeAnnouncement'
<1>1. /\ EncryptionLevels' \in Seq(Announcement)
      /\ Len(EncryptionLevels') = Len(EncryptionLevels) + Len(s)
      /\ \A i \in 1 .. Len(EncryptionLevels) + Len(s) :
            EncryptionLevels'[i] = IF i <= Len(EncryptionLevels) THEN EncryptionLevels[i]
                                   ELSE s[i - Len(EncryptionLevels)]
  OBVIOUS
<1>2. ASSUME NEW i \in DOMAIN EncryptionLevels', EncryptionLevels'[i].Available
      PROVE  EncryptionLevels'[i].level \in CryptoStates'
  <2>1. /\ i \in 1 .. Len(EncryptionLevels) + Len(s) /\ Len(EncryptionLevels) \in Nat /\ Len(s) \in Nat
        /\ DOMAIN EncryptionLevels = 1 .. Len(EncryptionLevels)
    BY <1>1
  <2>2. CASE i <= Len(EncryptionLevels)
    BY <1>1, <1>2, <2>1, <2>2 DEF KeysBeforeAnnouncement
  <2>3. CASE ~(i <= Len(EncryptionLevels))
    <3>1. i - Len(EncryptionLevels) \in 1 .. Len(s)
      BY <2>1, <2>3
    <3> QED
      BY <1>1, <1>2, <2>1, <2>3, <3>1, Zenon
  <2> QED
    BY <2>2, <2>3, Zenon
<1> QED
  BY <1>1, <1>2, Zenon DEF KeysBeforeAnnouncement

\* The announcements of a level are of a level whose keys are installed.
LEMMA AnnouncementsTrue ==
    ASSUME NEW l \in Levels
    PROVE  /\ Announcements(l) \in Seq(Announcement)
           /\ \A i \in 1 .. Len(Announcements(l)) : Announcements(l)[i].level \in CryptoStates
<1>1. CASE l \in Ready \ tls.announced
  <2> DEFINE w == [level |-> l, Read |-> FALSE, Available |-> TRUE]
             r == [level |-> l, Read |-> TRUE, Available |-> TRUE]
  <2>1. Announcements(l) = <<w, r>> /\ l \in CryptoStates
    BY <1>1, Zenon DEF Announcements, encryptionLevels, Ready
  <2>2. w \in Announcement /\ r \in Announcement /\ w.level = l /\ r.level = l
    BY DEF Announcement
  <2> HIDE DEF w, r
  <2> QED
    BY <2>1, <2>2
<1>2. CASE l \notin Ready \ tls.announced
  <2>1. Announcements(l) = <<>>
    BY <1>2 DEF Announcements
  <2> QED
    BY <2>1
<1> QED
  BY <1>1, <1>2

\* Every step announces only levels whose keys are installed, and keys stay installed.
LEMMA AnnouncedKept ==
    ASSUME AnnouncedInv, [Next]_vars
    PROVE  AnnouncedInv'
<1>0. /\ EncryptionLevels \in Seq(Announcement) /\ KeysBeforeAnnouncement
      /\ DOMAIN buffer = {"unprocessedPayloads", "available", "putBack"}
  BY DEF AnnouncedInv
<1>1. CASE AnnounceLevels
  <2> DEFINE h == Announcements("Handshake")
             o == Announcements("1RTT")
  <2>1. /\ EncryptionLevels' = (EncryptionLevels \o h) \o o /\ UNCHANGED <<buffer, CryptoStates>>
    BY <1>1 DEF AnnounceLevels
  <2>2. /\ h \in Seq(Announcement) /\ \A i \in 1 .. Len(h) : h[i].level \in CryptoStates
        /\ o \in Seq(Announcement) /\ \A i \in 1 .. Len(o) : o[i].level \in CryptoStates
    BY AnnouncementsTrue DEF Levels
  <2> HIDE DEF h, o
  <2>3. /\ h \o o \in Seq(Announcement) /\ \A i \in 1 .. Len(h \o o) : (h \o o)[i].level \in CryptoStates
    <3>1. /\ h \o o \in Seq(Announcement) /\ Len(h \o o) = Len(h) + Len(o)
          /\ \A i \in 1 .. Len(h) + Len(o) : (h \o o)[i] = IF i <= Len(h) THEN h[i] ELSE o[i - Len(h)]
      BY <2>2
    <3>2. Len(h) \in Nat /\ Len(o) \in Nat
      BY <2>2
    <3>3. ASSUME NEW i \in 1 .. Len(h \o o)
          PROVE  (h \o o)[i].level \in CryptoStates
      <4>1. CASE i <= Len(h)
        BY <2>2, <3>1, <3>2, <4>1
      <4>2. CASE ~(i <= Len(h))
        <5>1. i - Len(h) \in 1 .. Len(o)
          BY <3>1, <3>2, <4>2
        <5> QED
          BY <2>2, <3>1, <3>2, <4>2, <5>1
      <4> QED
        BY <4>1, <4>2
    <3> QED
      BY <3>1, <3>3
  <2>4. EncryptionLevels' = EncryptionLevels \o (h \o o)
    BY <1>0, <2>1, <2>2
  <2>5. EncryptionLevels' \in Seq(Announcement) /\ KeysBeforeAnnouncement'
    BY ONLY <1>0, <2>1, <2>3, <2>4, Announced, Zenon
  <2> QED
    BY <1>0, <2>1, <2>5 DEF AnnouncedInv
<1>2. CASE HandshakeAgent
  <2> DEFINE i == [level |-> "Initial", Read |-> FALSE, Available |-> FALSE]
             h == [level |-> "Handshake", Read |-> FALSE, Available |-> FALSE]
  <2>1. /\ UNCHANGED <<buffer, CryptoStates>>
        /\ EncryptionLevels' = EncryptionLevels \o <<i, h>> \/ EncryptionLevels' = EncryptionLevels
    BY <1>2, Zenon DEF HandshakeAgent
  <2>2. i \in Announcement /\ h \in Announcement /\ ~i.Available /\ ~h.Available
    BY DEF Announcement, Levels
  <2> HIDE DEF i, h
  <2>3. <<i, h>> \in Seq(Announcement) /\ \A k \in 1 .. Len(<<i, h>>) : ~ <<i, h>>[k].Available
    BY <2>2
  <2>4. EncryptionLevels' = EncryptionLevels \o <<i, h>> =>
           EncryptionLevels' \in Seq(Announcement) /\ KeysBeforeAnnouncement'
    BY ONLY <1>0, <2>1, <2>3, Announced, Zenon
  <2> QED
    BY <1>0, <2>1, <2>4, Zenon DEF AnnouncedInv, KeysBeforeAnnouncement
<1>3. CASE TakeLevel
  <2> DEFINE e == Head(EncryptionLevels)
  <2>1. /\ EncryptionLevels # <<>> /\ EncryptionLevels' = Tail(EncryptionLevels) /\ UNCHANGED CryptoStates
        /\ buffer' = IF e.Available /\ e.Read
                     THEN [Mark(buffer, e.level) EXCEPT !.putBack = buffer.unprocessedPayloads[e.level],
                                                        !.unprocessedPayloads[e.level] = <<>>]
                     ELSE buffer
    BY <1>3 DEF TakeLevel
  <2>2. /\ e = EncryptionLevels[1] /\ 1 \in DOMAIN EncryptionLevels
        /\ EncryptionLevels' \in Seq(Announcement)
        /\ \A k \in DOMAIN EncryptionLevels' :
              k + 1 \in DOMAIN EncryptionLevels /\ EncryptionLevels'[k] = EncryptionLevels[k + 1]
    BY <1>0, <2>1
  <2> HIDE DEF e
  <2>3. /\ DOMAIN buffer' = {"unprocessedPayloads", "available", "putBack"}
        /\ buffer'.available \subseteq buffer.available \cup (IF e.Available THEN {e.level} ELSE {})
    BY <1>0, <2>1 DEF Mark
  <2> QED
    BY <1>0, <2>1, <2>2, <2>3 DEF AnnouncedInv, KeysBeforeAnnouncement
<1>4. CASE InstallKeys
  <2>1. UNCHANGED <<EncryptionLevels, buffer>> /\ CryptoStates \subseteq CryptoStates'
    BY <1>4 DEF InstallKeys
  <2> QED
    BY <1>0, <2>1 DEF AnnouncedInv, KeysBeforeAnnouncement
<1>5. CASE TakeUnprocessed \/ PutBackKept
  <2>1. /\ UNCHANGED <<EncryptionLevels, CryptoStates>> /\ buffer'.available = buffer.available
        /\ DOMAIN buffer' = {"unprocessedPayloads", "available", "putBack"}
    BY <1>0, <1>5, Zenon DEF TakeUnprocessed, PutBackKept
  <2> QED
    BY <1>0, <2>1 DEF AnnouncedInv, KeysBeforeAnnouncement
<1>6. CASE (\E d \in DOMAIN Datagrams : Deliver(d)) \/ ParsingAgent \/ (\E l \in Levels : BroadcastCrypto(l))
             \/ HandlePacket \/ UNCHANGED vars
  <2>1. UNCHANGED <<EncryptionLevels, CryptoStates, buffer>>
    BY <1>6, Zenon DEF Deliver, ParsingAgent, TakePayload, ReadHeader, PutBack, ReadPacket, BroadcastCrypto, HandlePacket,
                vars
  <2> QED
    BY <1>0, <2>1 DEF AnnouncedInv, KeysBeforeAnnouncement
<1> QED
  BY <1>1, <1>2, <1>3, <1>4, <1>5, <1>6 DEF Next, BufferAgent, TLSAgent

\* For every server, network and interleaving: a level that the BufferAgent has been told of, or
\* is about to be told of, has its keys installed (TLSAgent.Run installs under CryptoStateLock
\* before it submits to EncryptionLevels).
THEOREM KeysFirst ==
    Spec => []KeysBeforeAnnouncement
<1>1. Init => AnnouncedInv
  BY DEF Init, AnnouncedInv, KeysBeforeAnnouncement
<1>2. AnnouncedInv /\ [Next]_vars => AnnouncedInv'
  BY AnnouncedKept
<1>3. AnnouncedInv => KeysBeforeAnnouncement
  BY DEF AnnouncedInv
<1> QED
  BY <1>1, <1>2, <1>3, PTL DEF Spec

-----------------------------------------------------------------------------
(* The places where a payload can be are queues, and payloads move from    *)
(* one to another.                                                         *)

Places == {"incoming", "parser", "unprocessed", "putBack"} \cup Levels

Queue ==
    [x \in Places |->
        CASE x = "incoming"    -> IncomingPayloads
          [] x = "parser"      -> IF parser.pc = "select" THEN <<>> ELSE <<parser.ic>>
          [] x = "unprocessed" -> [j \in DOMAIN UnprocessedPayloads |-> UnprocessedPayloads[j].ic]
          [] x = "putBack"     -> buffer.putBack
          [] x \in Levels      -> buffer.unprocessedPayloads[x]]

\* Payloads of the same copy of a datagram.
SameCopy(p, q) == p.dg = q.dg /\ p.copy = q.copy

Contents(f) == UNION {{f[x][i] : i \in DOMAIN f[x]} : x \in Places}

\* No copy of a datagram is in two places.
Unique(f) ==
    \A x, y \in Places : \A i \in DOMAIN f[x] : \A j \in DOMAIN f[y] :
        SameCopy(f[x][i], f[y][j]) => x = y /\ i = j

PathTypes ==
    /\ copies \in [DOMAIN Datagrams -> Nat]
    /\ IncomingPayloads \in Seq(Payloads)
    /\ parser \in [pc : {"select", "header", "putBack", "packet"}, ic : Payloads \cup {NoPayload}]
    /\ parser.pc # "select" => parser.ic \in Payloads
    /\ UnprocessedPayloads \in Seq([ic : Payloads, level : Levels])
    /\ DOMAIN buffer = {"unprocessedPayloads", "available", "putBack"}
    /\ buffer.unprocessedPayloads \in [Levels -> Seq(Payloads)]
    /\ buffer.putBack \in Seq(Payloads)

\* What ReadHeader has found.
ParserInv ==
    /\ parser.pc = "putBack" => KeysNeeded(Packet(parser.ic)) # {}
    /\ parser.pc = "packet" => /\ KeysNeeded(Packet(parser.ic)) \subseteq CryptoStates
                               /\ ~Packet(parser.ic).broken

PathInv ==
    /\ PathTypes /\ ParserInv
    /\ Unique(Queue)
    /\ \A d \in DOMAIN Datagrams : copies[d] = 0 \/ copies[d] \in Copies(d)
    /\ \A ic \in Contents(Queue) : copies[ic.dg] < ic.copy /\ ic.copy \in Copies(ic.dg)
    /\ \A u \in parsed : u.dg \in DOMAIN Datagrams /\ u.copy \in Nat /\ copies[u.dg] < u.copy

Listed(f) == \A x \in Places : Len(f[x]) \in Nat /\ DOMAIN f[x] = 1 .. Len(f[x])

\* The first element is taken off s, and e is put at its end.
Dropped(s, t) == Len(s) > 0 /\ Len(t) = Len(s) - 1 /\ \A i \in 1 .. Len(s) - 1 : t[i] = s[i + 1]
Added(s, t, e) == Len(t) = Len(s) + 1 /\ t[Len(s) + 1] = e /\ \A i \in 1 .. Len(s) : t[i] = s[i]

\* The contents are what is at some position of some place.
LEMMA ContentsAre ==
    ASSUME NEW f, NEW e
    PROVE  e \in Contents(f) <=> \E x \in Places : \E i \in DOMAIN f[x] : e = f[x][i]
BY DEF Contents

\* A payload moves from the front of one place to the end of another.
LEMMA Moved ==
    ASSUME NEW f, NEW g, Listed(f), Listed(g), NEW x \in Places, NEW y \in Places, x # y,
           Dropped(f[x], g[x]), Added(f[y], g[y], f[x][1]), \A z \in Places \ {x, y} : g[z] = f[z]
    PROVE  Contents(g) = Contents(f) /\ (Unique(f) => Unique(g))
<1> DEFINE last(z, i) == z = y /\ i = Len(f[y]) + 1
           Z(z, i) == IF last(z, i) THEN x ELSE z
           I(z, i) == IF last(z, i) THEN 1 ELSE IF z = x THEN i + 1 ELSE i
<1>0. /\ Len(f[x]) \in Nat /\ DOMAIN f[x] = 1 .. Len(f[x]) /\ DOMAIN g[x] = 1 .. Len(f[x]) - 1
      /\ \A i \in 1 .. Len(f[x]) - 1 : g[x][i] = f[x][i + 1]
  BY Zenon DEF Listed, Dropped
<1>1. ASSUME NEW z \in Places, NEW i \in DOMAIN g[z]
      PROVE  Z(z, i) \in Places /\ I(z, i) \in DOMAIN f[Z(z, i)] /\ g[z][i] = f[Z(z, i)][I(z, i)]
  <2>1. CASE z = x
    <3>1. ~last(z, i) /\ Z(z, i) = x /\ I(z, i) = i + 1
      BY <2>1
    <3>2. i \in 1 .. Len(f[x]) - 1 /\ i + 1 \in 1 .. Len(f[x])
      BY <1>0, <2>1
    <3>3. g[z][i] = f[x][i + 1] /\ i + 1 \in DOMAIN f[x]
      BY <1>0, <2>1, <3>2, Zenon
    <3> HIDE DEF Z, I
    <3> QED
      BY <3>1, <3>3, Zenon
  <2>2. CASE z = y
    <3>1. i \in 1 .. Len(f[y]) + 1
      BY <2>2, Zenon DEF Listed, Added
    <3>2. CASE i = Len(f[y]) + 1
      <4>1. Z(z, i) = x /\ I(z, i) = 1
        BY <2>2, <3>2
      <4>2. 1 \in DOMAIN f[x] /\ g[z][i] = f[x][1]
        BY <1>0, <2>2, <3>2 DEF Dropped, Added
      <4> HIDE DEF Z, I
      <4> QED
        BY <4>1, <4>2, Zenon
    <3>3. CASE i # Len(f[y]) + 1
      <4>1. Z(z, i) = y /\ I(z, i) = i
        BY <2>2, <3>3
      <4>2. i \in DOMAIN f[y] /\ g[z][i] = f[y][i]
        <5>1. i \in 1 .. Len(f[y]) /\ DOMAIN f[y] = 1 .. Len(f[y])
          BY <3>1, <3>3 DEF Listed
        <5> QED
          BY <2>2, <5>1, Zenon DEF Added
      <4> HIDE DEF Z, I
      <4> QED
        BY <4>1, <4>2, Zenon
    <3> QED
      BY <3>2, <3>3, Zenon
  <2>3. CASE z # x /\ z # y
    BY <2>3, Zenon
  <2> QED
    BY <2>1, <2>2, <2>3, Zenon
<1>2. ASSUME NEW z \in Places, NEW w \in Places, NEW i \in DOMAIN g[z], NEW j \in DOMAIN g[w],
             Z(z, i) = Z(w, j), I(z, i) = I(w, j)
      PROVE  z = w /\ i = j
  BY <1>2 DEF Listed, Added
<1>3. \A e \in Contents(g) : e \in Contents(f)
  BY <1>1, ContentsAre
<1>4. ASSUME NEW z \in Places, NEW i \in DOMAIN f[z]
      PROVE  f[z][i] \in Contents(g)
  <2>1. CASE z = x /\ i = 1
    <3>1. Len(f[y]) + 1 \in DOMAIN g[y] /\ f[z][i] = g[y][Len(f[y]) + 1]
      BY <2>1 DEF Listed, Added
    <3> QED
      BY <3>1, ContentsAre, Zenon
  <2>2. CASE z = x /\ i # 1
    <3>1. i - 1 \in DOMAIN g[x] /\ f[z][i] = g[x][i - 1]
      <4>1. i \in 1 .. Len(f[x]) /\ i - 1 \in 1 .. Len(f[x]) - 1 /\ (i - 1) + 1 = i
        BY <1>0, <2>2
      <4>2. f[x][(i - 1) + 1] = g[x][i - 1]
        BY <1>0, <4>1, Zenon
      <4> QED
        BY <1>0, <2>2, <4>1, <4>2, Zenon
    <3> QED
      BY <3>1, ContentsAre, Zenon
  <2>3. CASE z = y
    <3>0. i \in 1 .. Len(f[y]) /\ Len(f[y]) \in Nat
      BY <2>3 DEF Listed
    <3>1. i \in DOMAIN g[y] /\ f[z][i] = g[y][i]
      BY <2>3, <3>0 DEF Listed, Added
    <3> QED
      BY <3>1, ContentsAre, Zenon
  <2>4. CASE z # x /\ z # y
    BY <2>4, ContentsAre
  <2> QED
    BY <2>1, <2>2, <2>3, <2>4
<1>5. Contents(g) = Contents(f)
  <2>1. \A e : e \in Contents(f) => e \in Contents(g)
    BY <1>4, ContentsAre
  <2> QED
    BY <1>3, <2>1, Zenon
<1>6. ASSUME Unique(f)
      PROVE  Unique(g)
  <2> SUFFICES ASSUME NEW z \in Places, NEW w \in Places, NEW i \in DOMAIN g[z], NEW j \in DOMAIN g[w],
                      SameCopy(g[z][i], g[w][j])
               PROVE  z = w /\ i = j
    BY Zenon DEF Unique
  <2>1. /\ Z(z, i) \in Places /\ I(z, i) \in DOMAIN f[Z(z, i)] /\ g[z][i] = f[Z(z, i)][I(z, i)]
        /\ Z(w, j) \in Places /\ I(w, j) \in DOMAIN f[Z(w, j)] /\ g[w][j] = f[Z(w, j)][I(w, j)]
    BY <1>1, Zenon
  <2> HIDE DEF Z, I
  <2>2. Z(z, i) = Z(w, j) /\ I(z, i) = I(w, j)
    BY <1>6, <2>1 DEF Unique
  <2> QED
    BY <1>2, <2>2
<1> QED
  BY <1>5, <1>6

\* All the payloads of one place move to another, which is empty.
LEMMA MovedAll ==
    ASSUME NEW f, NEW g, NEW x \in Places, NEW y \in Places, x # y,
           DOMAIN f[y] = {}, DOMAIN g[x] = {}, g[y] = f[x], \A z \in Places \ {x, y} : g[z] = f[z]
    PROVE  Contents(g) = Contents(f) /\ (Unique(f) => Unique(g))
<1>1. \A z \in Places : \A i \in DOMAIN g[z] : \E w \in Places : i \in DOMAIN f[w] /\ g[z][i] = f[w][i]
  OBVIOUS
<1>2. \A z \in Places : \A i \in DOMAIN f[z] : \E w \in Places : i \in DOMAIN g[w] /\ f[z][i] = g[w][i]
  OBVIOUS
<1>3. Contents(g) = Contents(f)
  <2>1. \A e : e \in Contents(g) => e \in Contents(f)
    BY <1>1, ContentsAre
  <2>2. \A e : e \in Contents(f) => e \in Contents(g)
    BY <1>2, ContentsAre
  <2> QED
    BY <2>1, <2>2
<1>4. ASSUME Unique(f), NEW z \in Places, NEW w \in Places, NEW i \in DOMAIN g[z], NEW j \in DOMAIN g[w],
             SameCopy(g[z][i], g[w][j])
      PROVE  z = w /\ i = j
  BY <1>4 DEF Unique
<1> QED
  BY <1>3, <1>4, Zenon DEF Unique

\* A payload of a new copy comes to the end of a place.
LEMMA Arrived ==
    ASSUME NEW f, NEW g, Listed(f), Listed(g), NEW x \in Places, NEW e, Added(f[x], g[x], e),
           \A z \in Places \ {x} : g[z] = f[z], \A p \in Contents(f) : ~SameCopy(p, e), Unique(f)
    PROVE  Contents(g) = Contents(f) \cup {e} /\ Unique(g)
<1> DEFINE n == Len(f[x]) + 1
<1>0. /\ n \in DOMAIN g[x] /\ n \notin DOMAIN f[x] /\ DOMAIN g[x] = DOMAIN f[x] \cup {n} /\ g[x][n] = e
      /\ \A i \in DOMAIN f[x] : g[x][i] = f[x][i]
  BY DEF Listed, Added
<1> HIDE DEF n
<1>1. ASSUME NEW z \in Places, NEW i \in DOMAIN g[z]
      PROVE  (z = x /\ i = n /\ g[z][i] = e) \/ (i \in DOMAIN f[z] /\ g[z][i] = f[z][i] /\ ~(z = x /\ i = n))
  BY <1>0, Zenon
<1>2. ASSUME NEW z \in Places, NEW i \in DOMAIN f[z]
      PROVE  i \in DOMAIN g[z] /\ g[z][i] = f[z][i] /\ ~SameCopy(f[z][i], e) /\ ~SameCopy(e, f[z][i])
  <2>1. ~SameCopy(f[z][i], e)
    BY ContentsAre
  <2> QED
    BY <1>0, <2>1, Zenon DEF SameCopy
<1>3. Contents(g) = Contents(f) \cup {e}
  <2>1. \A p : p \in Contents(g) => p \in Contents(f) \cup {e}
    BY <1>1, ContentsAre
  <2>2. \A p : p \in Contents(f) \cup {e} => p \in Contents(g)
    BY <1>0, <1>2, ContentsAre
  <2> QED
    BY <2>1, <2>2
<1>4. ASSUME NEW z \in Places, NEW w \in Places, NEW i \in DOMAIN g[z], NEW j \in DOMAIN g[w],
             SameCopy(g[z][i], g[w][j])
      PROVE  z = w /\ i = j
  BY <1>1, <1>2, <1>4 DEF Unique
<1> QED
  BY <1>3, <1>4, Zenon DEF Unique

\* The only payload of a place is gone, or replaced by one of the same copy.
LEMMA Replaced ==
    ASSUME NEW f, NEW g, NEW x \in Places, Unique(f), DOMAIN f[x] = {1}, DOMAIN g[x] \subseteq {1},
           1 \in DOMAIN g[x] => SameCopy(g[x][1], f[x][1]), \A z \in Places \ {x} : g[z] = f[z]
    PROVE  /\ Unique(g)
           /\ Contents(g) = (Contents(f) \ {f[x][1]}) \cup {g[x][i] : i \in DOMAIN g[x]}
<1> DEFINE new == {g[x][i] : i \in DOMAIN g[x]}
<1>1. \A z \in Places : \A i \in DOMAIN g[z] : i \in DOMAIN f[z] /\ SameCopy(g[z][i], f[z][i])
  BY Zenon DEF SameCopy
<1>2. Unique(g)
  BY <1>1 DEF Unique, SameCopy
<1>3. \A z \in Places \ {x} : \A i \in DOMAIN f[z] : f[z][i] # f[x][1]
  BY DEF Unique, SameCopy
<1>4. \A p : p \in Contents(g) => p \in (Contents(f) \ {f[x][1]}) \cup new
  BY <1>3, ContentsAre
<1>5. \A p : p \in (Contents(f) \ {f[x][1]}) \cup new => p \in Contents(g)
  <2>1. \A p \in new : p \in Contents(g)
    BY ContentsAre
  <2>2. ASSUME NEW p \in Contents(f), p # f[x][1]
        PROVE  p \in Contents(g)
    <3>1. PICK z \in Places : \E i \in DOMAIN f[z] : p = f[z][i]
      BY ContentsAre
    <3>2. z # x
      BY <2>2, <3>1
    <3> QED
      BY <3>1, <3>2, ContentsAre
  <2> QED
    BY <2>1, <2>2
<1>6. Contents(g) = (Contents(f) \ {f[x][1]}) \cup new
  BY <1>4, <1>5, Zenon
<1> QED
  BY <1>2, <1>6

QueuesAre ==
    /\ Listed(Queue)
    /\ Queue["incoming"] = IncomingPayloads
    /\ Queue["parser"] = IF parser.pc = "select" THEN <<>> ELSE <<parser.ic>>
    /\ Queue["unprocessed"] = [j \in DOMAIN UnprocessedPayloads |-> UnprocessedPayloads[j].ic]
    /\ Len(Queue["unprocessed"]) = Len(UnprocessedPayloads)
    /\ DOMAIN UnprocessedPayloads = 1 .. Len(UnprocessedPayloads) /\ Len(UnprocessedPayloads) \in Nat
    /\ Queue["putBack"] = buffer.putBack
    /\ \A l \in Levels : Queue[l] = buffer.unprocessedPayloads[l]

\* The queues are the places of the model.
LEMMA QueueFacts ==
    ASSUME PathTypes
    PROVE  QueuesAre
<1>1. /\ Queue["incoming"] = IncomingPayloads
      /\ Queue["parser"] = IF parser.pc = "select" THEN <<>> ELSE <<parser.ic>>
      /\ Queue["unprocessed"] = [j \in DOMAIN UnprocessedPayloads |-> UnprocessedPayloads[j].ic]
      /\ Queue["putBack"] = buffer.putBack
      /\ \A l \in Levels : Queue[l] = buffer.unprocessedPayloads[l]
  BY DEF Queue, Places, Levels
<1>2. DOMAIN UnprocessedPayloads = 1 .. Len(UnprocessedPayloads) /\ Len(UnprocessedPayloads) \in Nat
  BY DEF PathTypes
<1>3. Len(Queue["unprocessed"]) = Len(UnprocessedPayloads) /\ DOMAIN Queue["unprocessed"] = 1 .. Len(UnprocessedPayloads)
  <2>1. Queue["unprocessed"] \in [1 .. Len(UnprocessedPayloads) -> Payloads]
    <3>1. \A j \in DOMAIN UnprocessedPayloads : UnprocessedPayloads[j] \in [ic : Payloads, level : Levels]
      <4> DEFINE W == [ic : Payloads, level : Levels]
      <4>1. UnprocessedPayloads \in Seq(W)
        BY DEF PathTypes
      <4> HIDE DEF W
      <4>2. \A j \in DOMAIN UnprocessedPayloads : UnprocessedPayloads[j] \in W
        BY <4>1
      <4> QED
        BY <4>2 DEF W
    <3> QED
      BY <1>1, <1>2, <3>1
  <2> QED
    BY <1>2, <2>1
<1>4. /\ Len(IncomingPayloads) \in Nat /\ DOMAIN IncomingPayloads = 1 .. Len(IncomingPayloads)
      /\ Len(buffer.putBack) \in Nat /\ DOMAIN buffer.putBack = 1 .. Len(buffer.putBack)
      /\ \A l \in Levels : /\ Len(buffer.unprocessedPayloads[l]) \in Nat
                            /\ DOMAIN buffer.unprocessedPayloads[l] = 1 .. Len(buffer.unprocessedPayloads[l])
  BY DEF PathTypes
<1>5. Len(Queue["parser"]) \in Nat /\ DOMAIN Queue["parser"] = 1 .. Len(Queue["parser"])
  <2>1. CASE parser.pc = "select"
    BY <1>1, <2>1
  <2>2. CASE parser.pc # "select"
    BY <1>1, <2>2
  <2> QED
    BY <2>1, <2>2
<1>6. Listed(Queue)
  BY <1>1, <1>2, <1>3, <1>4, <1>5, Zenon DEF Listed, Places
<1> QED
  BY <1>1, <1>2, <1>3, <1>6 DEF QueuesAre

\* Held is put together from the places.
LEMMA HeldIs ==
    ASSUME NEW p
    PROVE  p \in Held <=> \/ p \in Range(IncomingPayloads)
                          \/ parser.pc # "select" /\ p = parser.ic
                          \/ \E j \in DOMAIN UnprocessedPayloads : p = UnprocessedPayloads[j].ic
                          \/ \E l \in Levels : p \in Range(buffer.unprocessedPayloads[l])
                          \/ p \in Range(buffer.putBack)
<1> DEFINE P == IF parser.pc = "select" THEN {} ELSE {parser.ic}
           U == {UnprocessedPayloads[j].ic : j \in DOMAIN UnprocessedPayloads}
           B == UNION {Range(buffer.unprocessedPayloads[l]) : l \in Levels}
<1>1. p \in P <=> parser.pc # "select" /\ p = parser.ic
  OBVIOUS
<1>2. p \in U <=> \E j \in DOMAIN UnprocessedPayloads : p = UnprocessedPayloads[j].ic
  OBVIOUS
<1>3. p \in B <=> \E l \in Levels : p \in Range(buffer.unprocessedPayloads[l])
  OBVIOUS
<1>4. Held = Range(IncomingPayloads) \cup P \cup U \cup B \cup Range(buffer.putBack)
  BY Zenon DEF Held
<1> HIDE DEF P, U, B
<1> QED
  BY <1>1, <1>2, <1>3, <1>4

\* Held is what is in the queues.
LEMMA HeldIsQueued ==
    ASSUME PathTypes
    PROVE  Held = Contents(Queue)
<1>1. \A p : p \in Held => p \in Contents(Queue)
  <2> SUFFICES ASSUME NEW p \in Held PROVE p \in Contents(Queue)
    OBVIOUS
  <2>1. CASE p \in Range(IncomingPayloads)
    <3>1. \E i \in DOMAIN Queue["incoming"] : p = Queue["incoming"][i]
      BY <2>1, QueueFacts DEF QueuesAre, Range
    <3> QED
      BY <3>1, ContentsAre DEF Places
  <2>2. CASE parser.pc # "select" /\ p = parser.ic
    <3>1. 1 \in DOMAIN Queue["parser"] /\ p = Queue["parser"][1]
      BY <2>2, QueueFacts DEF QueuesAre
    <3> QED
      BY <3>1, ContentsAre DEF Places
  <2>3. CASE \E j \in DOMAIN UnprocessedPayloads : p = UnprocessedPayloads[j].ic
    <3>1. \E i \in DOMAIN Queue["unprocessed"] : p = Queue["unprocessed"][i]
      BY <2>3, QueueFacts DEF QueuesAre
    <3> QED
      BY <3>1, ContentsAre DEF Places
  <2>4. CASE \E l \in Levels : p \in Range(buffer.unprocessedPayloads[l])
    <3>1. \E l \in Levels : \E i \in DOMAIN Queue[l] : p = Queue[l][i]
      BY <2>4, QueueFacts DEF QueuesAre, Range
    <3> QED
      BY <3>1, ContentsAre, Zenon DEF Places
  <2>5. CASE p \in Range(buffer.putBack)
    <3>1. \E i \in DOMAIN Queue["putBack"] : p = Queue["putBack"][i]
      BY <2>5, QueueFacts DEF QueuesAre, Range
    <3> QED
      BY <3>1, ContentsAre DEF Places
  <2> QED
    BY <2>1, <2>2, <2>3, <2>4, <2>5, HeldIs
<1>2. \A p : p \in Contents(Queue) => p \in Held
  <2> SUFFICES ASSUME NEW x \in Places, NEW i \in DOMAIN Queue[x]
               PROVE  Queue[x][i] \in Held
    BY ContentsAre
  <2>1. CASE x = "incoming"
    <3>1. Queue[x][i] \in Range(IncomingPayloads)
      BY <2>1, QueueFacts DEF QueuesAre, Range
    <3> QED
      BY <3>1, HeldIs
  <2>5. CASE x = "putBack"
    <3>1. Queue[x][i] \in Range(buffer.putBack)
      BY <2>5, QueueFacts, Zenon DEF QueuesAre, Range
    <3> QED
      BY <3>1, HeldIs
  <2>2. CASE x \in Levels
    <3>1. Queue[x][i] \in Range(buffer.unprocessedPayloads[x])
      BY <2>2, QueueFacts, Zenon DEF QueuesAre, Range
    <3> QED
      BY <2>2, <3>1, HeldIs
  <2>3. CASE x = "unprocessed"
    <3>1. i \in DOMAIN UnprocessedPayloads /\ Queue[x][i] = UnprocessedPayloads[i].ic
      BY <2>3, QueueFacts DEF QueuesAre
    <3> QED
      BY <3>1, HeldIs
  <2>4. CASE x = "parser"
    <3>1. parser.pc # "select" /\ Queue[x][i] = parser.ic
      BY <2>4, QueueFacts DEF QueuesAre
    <3> QED
      BY <3>1, HeldIs
  <2> QED
    BY <2>1, <2>2, <2>3, <2>4, <2>5 DEF Places
<1> QED
  BY <1>1, <1>2

\* Both in the next state.
LEMMA InTheNextState ==
    PathTypes' => QueuesAre' /\ (Held = Contents(Queue))'
<1>1. PathTypes => QueuesAre /\ Held = Contents(Queue)
  BY QueueFacts, HeldIsQueued
<1> QED
  BY <1>1, PTL

\* A datagram is a sequence of packets, at least one.
LEMMA DatagramFacts ==
    ASSUME NEW d \in DOMAIN Datagrams
    PROVE  /\ Datagrams[d] \in Seq(Packets) /\ Len(Datagrams[d]) \in Nat \ {0}
           /\ DOMAIN Datagrams[d] = 1 .. Len(Datagrams[d])
           /\ \A i \in DOMAIN Datagrams[d] : Datagrams[d][i] \in Packets
<1>1. Datagrams[d] \in Seq(Packets) \ {<<>>}
  BY DatagramsAssumption
<1> HIDE DEF Packets
<1> QED
  BY <1>1

\* A payload belongs to a copy of a datagram and begins inside it.
LEMMA PayloadFacts ==
    ASSUME NEW ic \in Payloads
    PROVE  /\ ic.dg \in DOMAIN Datagrams /\ ic.copy \in 1 .. MaxCopies
           /\ ic.off \in DOMAIN Datagrams[ic.dg] /\ ic.off \in Nat
           /\ Packet(ic) \in Packets
           /\ DOMAIN ic = {"dg", "copy", "off"}
<1>1. PICK d \in DOMAIN Datagrams : ic \in [dg : {d}, copy : 1 .. MaxCopies, off : DOMAIN Datagrams[d]]
  BY DEF Payloads
<1> QED
  BY <1>1, DatagramFacts DEF Packet

\* What a payload is made of.
LEMMA PayloadMade ==
    ASSUME NEW d \in DOMAIN Datagrams, NEW c \in 1 .. MaxCopies, NEW o \in DOMAIN Datagrams[d]
    PROVE  [dg |-> d, copy |-> c, off |-> o] \in Payloads
BY DEF Payloads

\* A packet needs the keys of at most one level.
LEMMA KeysFacts ==
    ASSUME NEW p \in Packets
    PROVE  KeysNeeded(p) \subseteq Levels
BY DEF KeysNeeded, Levels, Packets

\* Taking the first element and adding a last one.
LEMMA TailDropped ==
    ASSUME NEW S, NEW s \in Seq(S), s # <<>>
    PROVE  Tail(s) \in Seq(S) /\ Dropped(s, Tail(s)) /\ Head(s) = s[1] /\ s[1] \in S /\ 1 \in DOMAIN s
BY DEF Dropped

\* Adding a last element to a sequence adds it to the elements.
LEMMA AppendAdded ==
    ASSUME NEW S, NEW s \in Seq(S), NEW e \in S
    PROVE  Append(s, e) \in Seq(S) /\ Added(s, Append(s, e), e)
BY DEF Added

\* As long as the same payloads are around, nothing happens to the packets.
LEMMA Shuffled ==
    ASSUME PathInv, PathTypes', ParserInv', Unique(Queue'), Contents(Queue') = Contents(Queue),
           UNCHANGED <<copies, parsed>>
    PROVE  PathInv' /\ Waiting' = Waiting
<1>1. Held' = Held
  BY HeldIsQueued, InTheNextState DEF PathInv
<1>2. Waiting' = Waiting
  BY <1>1 DEF Waiting
<1>3. PathInv'
  BY Zenon DEF PathInv
<1> QED
  BY <1>2, <1>3

\* A payload that moves from place to place.
LEMMA Hop ==
    ASSUME PathInv, PathTypes', ParserInv', UNCHANGED <<copies, parsed>>,
           NEW x \in Places, NEW y \in Places, x # y, Dropped(Queue[x], Queue'[x]),
           Added(Queue[y], Queue'[y], Queue[x][1]), \A z \in Places \ {x, y} : Queue'[z] = Queue[z]
    PROVE  PathInv' /\ Waiting' = Waiting
<1>1. Listed(Queue) /\ Listed(Queue') /\ Unique(Queue)
  BY QueueFacts, InTheNextState, Zenon DEF PathInv, QueuesAre
<1>2. Unique(Queue') /\ Contents(Queue') = Contents(Queue)
  BY <1>1, Moved
<1> QED
  BY <1>2, Shuffled

-----------------------------------------------------------------------------
(* The steps that move payloads.                                           *)

\* TakePayload: from IncomingPayloads to the parser.
LEMMA TakeHops ==
    ASSUME PathInv, TakePayload
    PROVE  PathInv' /\ Waiting' = Waiting
<1>1. /\ IncomingPayloads \in Seq(Payloads) /\ IncomingPayloads # <<>> /\ parser.pc = "select"
      /\ IncomingPayloads' = Tail(IncomingPayloads)
      /\ UNCHANGED <<copies, UnprocessedPayloads, buffer, CryptoStates, parsed>>
  BY Zenon DEF PathInv, PathTypes, TakePayload
<1>2. /\ IncomingPayloads' \in Seq(Payloads) /\ Dropped(IncomingPayloads, IncomingPayloads')
      /\ Head(IncomingPayloads) = IncomingPayloads[1] /\ IncomingPayloads[1] \in Payloads
  BY <1>1, TailDropped
<1>3. parser' = [pc |-> "header", ic |-> IncomingPayloads[1]]
  BY <1>2, Zenon DEF PathInv, PathTypes, TakePayload
<1>4. PathTypes' /\ ParserInv'
  BY <1>1, <1>2, <1>3, Zenon DEF PathInv, PathTypes, ParserInv
<1>5. QueuesAre /\ QueuesAre'
  BY <1>4, QueueFacts, InTheNextState DEF PathInv
<1>6. Dropped(Queue["incoming"], Queue'["incoming"])
  BY <1>2, <1>5, Zenon DEF QueuesAre
<1>7. Added(Queue["parser"], Queue'["parser"], Queue["incoming"][1])
  BY <1>1, <1>3, <1>5 DEF QueuesAre, Added
<1>8. \A z \in Places \ {"incoming", "parser"} : Queue'[z] = Queue[z]
  BY <1>1, <1>5 DEF QueuesAre, Places
<1> QED
  BY <1>1, <1>4, <1>6, <1>7, <1>8, Hop, Zenon DEF Places

\* PutBack: from the parser to UnprocessedPayloads.
LEMMA PutBackHops ==
    ASSUME PathInv, PutBack
    PROVE  PathInv' /\ Waiting' = Waiting
<1> DEFINE W == [ic : Payloads, level : Levels]
           u == [ic |-> parser.ic, level |-> CHOOSE l \in KeysNeeded(Packet(parser.ic)) : TRUE]
<1>1. /\ UnprocessedPayloads \in Seq(W) /\ parser.pc = "putBack" /\ parser.ic \in Payloads
      /\ UnprocessedPayloads' = Append(UnprocessedPayloads, u) /\ parser' = Idle
      /\ UNCHANGED <<copies, IncomingPayloads, buffer, CryptoStates, parsed>>
  BY Zenon DEF PathInv, PathTypes, PutBack
<1>2. u \in W
  <2>1. KeysNeeded(Packet(parser.ic)) # {} /\ KeysNeeded(Packet(parser.ic)) \subseteq Levels
    BY <1>1, PayloadFacts, KeysFacts, Zenon DEF PathInv, ParserInv
  <2> QED
    BY <1>1, <2>1
<1>3. u.ic = parser.ic
  OBVIOUS
<1> HIDE DEF W, u
<1>4. UnprocessedPayloads' \in Seq(W) /\ Added(UnprocessedPayloads, UnprocessedPayloads', u)
  BY <1>1, <1>2, AppendAdded
<1>5. PathTypes' /\ ParserInv'
  BY <1>1, <1>4, Zenon DEF PathInv, PathTypes, ParserInv, Idle, W
<1>6. QueuesAre /\ QueuesAre'
  BY <1>5, QueueFacts, InTheNextState DEF PathInv
<1>7. Queue["parser"] = <<parser.ic>> /\ Queue'["parser"] = <<>>
  BY <1>1, <1>6, Zenon DEF QueuesAre, Idle
<1>8. Dropped(Queue["parser"], Queue'["parser"]) /\ Queue["parser"][1] = parser.ic
  BY <1>7 DEF Dropped
<1>9. Added(Queue["unprocessed"], Queue'["unprocessed"], parser.ic)
  BY <1>3, <1>4, <1>6 DEF QueuesAre, Added
<1>10. \A z \in Places \ {"parser", "unprocessed"} : Queue'[z] = Queue[z]
  BY <1>1, <1>6, Zenon DEF QueuesAre, Places
<1> QED
  BY <1>1, <1>5, <1>8, <1>9, <1>10, Hop, Zenon DEF Places

\* TakeUnprocessed: from UnprocessedPayloads to IncomingPayloads or to the payloads kept for a level.
LEMMA UnprocessedHops ==
    ASSUME PathInv, TakeUnprocessed
    PROVE  PathInv' /\ Waiting' = Waiting
<1> DEFINE W == [ic : Payloads, level : Levels]
           u == UnprocessedPayloads[1]
<1>1. /\ UnprocessedPayloads \in Seq(W) /\ UnprocessedPayloads # <<>>
      /\ UnprocessedPayloads' = Tail(UnprocessedPayloads)
      /\ UNCHANGED <<copies, parser, CryptoStates, parsed>>
  BY Zenon DEF PathInv, PathTypes, TakeUnprocessed
<1> HIDE DEF W
<1>2. /\ UnprocessedPayloads' \in Seq(W) /\ Dropped(UnprocessedPayloads, UnprocessedPayloads')
      /\ Head(UnprocessedPayloads) = u /\ u \in W
  BY <1>1, TailDropped
<1>3. u.ic \in Payloads /\ u.level \in Levels
  BY <1>2 DEF W
<1>4. \/ /\ IncomingPayloads' = Append(IncomingPayloads, u.ic) /\ buffer' = buffer
      \/ /\ buffer' = [buffer EXCEPT !.unprocessedPayloads[u.level] = Append(@, u.ic)]
         /\ IncomingPayloads' = IncomingPayloads
  BY <1>2, Zenon DEF TakeUnprocessed
<1> HIDE DEF u
<1>5. ASSUME PathTypes'
      PROVE  /\ QueuesAre /\ QueuesAre' /\ ParserInv'
             /\ Dropped(Queue["unprocessed"], Queue'["unprocessed"]) /\ Queue["unprocessed"][1] = u.ic
  <2>1. QueuesAre /\ QueuesAre'
    BY <1>5, QueueFacts, InTheNextState DEF PathInv
  <2>2. Dropped(Queue["unprocessed"], Queue'["unprocessed"]) /\ Queue["unprocessed"][1] = u.ic
    BY <1>2, <2>1 DEF QueuesAre, Dropped, u
  <2>3. ParserInv'
    BY <1>1, Zenon DEF PathInv, ParserInv
  <2> QED
    BY <2>1, <2>2, <2>3
<1>6. CASE IncomingPayloads' = Append(IncomingPayloads, u.ic) /\ buffer' = buffer
  <2>1. IncomingPayloads' \in Seq(Payloads) /\ Added(IncomingPayloads, IncomingPayloads', u.ic)
    BY <1>3, <1>6, AppendAdded DEF PathInv, PathTypes
  <2>2. PathTypes'
    BY <1>1, <1>2, <1>6, <2>1, Zenon DEF PathInv, PathTypes, W
  <2>3. Added(Queue["incoming"], Queue'["incoming"], u.ic)
    BY <1>5, <2>1, <2>2, Zenon DEF QueuesAre
  <2>4. \A z \in Places \ {"unprocessed", "incoming"} : Queue'[z] = Queue[z]
    BY <1>1, <1>5, <1>6, <2>2, Zenon DEF QueuesAre, Places
  <2> QED
    BY <1>1, <1>5, <2>2, <2>3, <2>4, Hop, Zenon DEF Places
<1>7. CASE /\ buffer' = [buffer EXCEPT !.unprocessedPayloads[u.level] = Append(@, u.ic)]
           /\ IncomingPayloads' = IncomingPayloads
  <2> DEFINE kept == buffer.unprocessedPayloads
  <2>1. /\ kept \in [Levels -> Seq(Payloads)] /\ DOMAIN buffer' = DOMAIN buffer
        /\ buffer'.putBack = buffer.putBack
        /\ buffer'.unprocessedPayloads = [kept EXCEPT ![u.level] = Append(kept[u.level], u.ic)]
    BY <1>7, Zenon DEF PathInv, PathTypes
  <2>2. kept[u.level] \in Seq(Payloads)
    BY <1>3, <2>1, Zenon
  <2> HIDE DEF kept
  <2>3. Append(kept[u.level], u.ic) \in Seq(Payloads) /\ Added(kept[u.level], Append(kept[u.level], u.ic), u.ic)
    BY <1>3, <2>2, AppendAdded
  <2>4. /\ buffer'.unprocessedPayloads \in [Levels -> Seq(Payloads)]
        /\ Added(kept[u.level], buffer'.unprocessedPayloads[u.level], u.ic)
        /\ \A l \in Levels \ {u.level} : buffer'.unprocessedPayloads[l] = kept[l]
    BY <1>3, <2>1, <2>3, Zenon
  <2>5. PathTypes'
    BY <1>1, <1>2, <1>7, <2>1, <2>4, Zenon DEF PathInv, PathTypes, W
  <2>6. Added(Queue[u.level], Queue'[u.level], u.ic)
    BY <1>3, <1>5, <2>4, <2>5, Zenon DEF QueuesAre, kept
  <2>7. \A z \in Places \ {"unprocessed", u.level} : Queue'[z] = Queue[z]
    <3>1. \A l \in Levels \ {u.level} : Queue'[l] = Queue[l]
      BY <1>5, <2>4, <2>5, Zenon DEF QueuesAre, kept
    <3>2. Queue'["incoming"] = Queue["incoming"] /\ Queue'["parser"] = Queue["parser"]
      BY <1>1, <1>5, <1>7, <2>5, Zenon DEF QueuesAre
    <3>3. Queue'["putBack"] = Queue["putBack"]
      BY <1>5, <2>1, <2>5, Zenon DEF QueuesAre
    <3> QED
      BY ONLY <3>1, <3>2, <3>3, Zenon DEF Places
  <2>8. u.level # "unprocessed" /\ u.level \in Places /\ "unprocessed" \in Places
    BY <1>3 DEF Places, Levels
  <2> QED
    BY <1>1, <1>5, <2>5, <2>6, <2>7, <2>8, Hop, Zenon
<1> QED
  BY <1>4, <1>6, <1>7, Zenon

\* PutBackKept: from the payloads that are put back to IncomingPayloads.
LEMMA KeptHops ==
    ASSUME PathInv, PutBackKept
    PROVE  PathInv' /\ Waiting' = Waiting
<1> DEFINE b == buffer.putBack
<1>1. /\ b \in Seq(Payloads) /\ b # <<>> /\ IncomingPayloads \in Seq(Payloads)
      /\ IncomingPayloads' = Append(IncomingPayloads, Head(b))
      /\ buffer'.putBack = Tail(b) /\ DOMAIN buffer' = DOMAIN buffer
      /\ buffer'.unprocessedPayloads = buffer.unprocessedPayloads
      /\ UNCHANGED <<copies, parser, UnprocessedPayloads, CryptoStates, parsed>>
  BY Zenon DEF PathInv, PathTypes, PutBackKept
<1> HIDE DEF b
<1>2. Tail(b) \in Seq(Payloads) /\ Dropped(b, Tail(b)) /\ Head(b) = b[1] /\ b[1] \in Payloads
  BY <1>1, TailDropped
<1>3. IncomingPayloads' \in Seq(Payloads) /\ Added(IncomingPayloads, IncomingPayloads', b[1])
  BY <1>1, <1>2, AppendAdded
<1>4. PathTypes' /\ ParserInv'
  BY <1>1, <1>2, <1>3, Zenon DEF PathInv, PathTypes, ParserInv
<1>5. QueuesAre /\ QueuesAre'
  BY <1>4, QueueFacts, InTheNextState DEF PathInv
<1>6. Dropped(Queue["putBack"], Queue'["putBack"]) /\ Queue["putBack"][1] = b[1]
  BY <1>1, <1>2, <1>5, Zenon DEF QueuesAre, b
<1>7. Added(Queue["incoming"], Queue'["incoming"], b[1])
  BY <1>3, <1>5, Zenon DEF QueuesAre
<1>8. \A z \in Places \ {"putBack", "incoming"} : Queue'[z] = Queue[z]
  BY <1>1, <1>5 DEF QueuesAre, Places
<1> QED
  BY <1>1, <1>4, <1>6, <1>7, <1>8, Hop, Zenon DEF Places

\* Nothing moves.
LEMMA Untouched ==
    ASSUME PathInv, CryptoStates \subseteq CryptoStates',
           UNCHANGED <<copies, IncomingPayloads, parser, UnprocessedPayloads, buffer, parsed>>
    PROVE  PathInv' /\ Waiting' = Waiting
<1>1. PathTypes' /\ ParserInv'
  BY Zenon DEF PathInv, PathTypes, ParserInv
<1>2. Queue' = Queue
  BY DEF Queue
<1> QED
  BY <1>1, <1>2, Shuffled, Zenon DEF PathInv

\* TakeLevel: what was kept for a level is put back, all of it.
LEMMA LevelHops ==
    ASSUME PathInv, AnnouncedInv, TakeLevel
    PROVE  PathInv' /\ Waiting' = Waiting
<1> DEFINE e == EncryptionLevels[1]
           kept == buffer.unprocessedPayloads
<1>1. /\ buffer.putBack = <<>> /\ Head(EncryptionLevels) = e /\ e \in Announcement
      /\ UNCHANGED <<copies, IncomingPayloads, parser, UnprocessedPayloads, CryptoStates, parsed>>
  BY TailDropped DEF AnnouncedInv, TakeLevel
<1>2. e.level \in Levels /\ kept \in [Levels -> Seq(Payloads)]
  BY <1>1, Zenon DEF PathInv, PathTypes, Announcement
<1>3. CASE e.Available /\ e.Read
  <2>1. /\ DOMAIN buffer' = DOMAIN buffer /\ buffer'.putBack = kept[e.level]
        /\ buffer'.unprocessedPayloads = [kept EXCEPT ![e.level] = <<>>]
    <3>1. buffer' = [Mark(buffer, e.level) EXCEPT
                        !.putBack = buffer.unprocessedPayloads[e.level],
                        !.unprocessedPayloads[e.level] = <<>>]
      BY <1>1, <1>3, Zenon DEF TakeLevel
    <3>2. /\ DOMAIN Mark(buffer, e.level) = DOMAIN buffer
          /\ Mark(buffer, e.level).unprocessedPayloads = kept
      BY DEF Mark, PathInv, PathTypes
    <3> QED
      BY <3>1, <3>2, Zenon DEF PathInv, PathTypes
  <2> HIDE DEF e, kept
  <2>2. /\ kept[e.level] \in Seq(Payloads) /\ <<>> \in Seq(Payloads)
        /\ buffer'.unprocessedPayloads \in [Levels -> Seq(Payloads)]
        /\ buffer'.unprocessedPayloads[e.level] = <<>>
        /\ \A l \in Levels \ {e.level} : buffer'.unprocessedPayloads[l] = kept[l]
    BY <1>2, <2>1
  <2>3. PathTypes' /\ ParserInv'
    BY <1>1, <2>1, <2>2, Zenon DEF PathInv, PathTypes, ParserInv
  <2>4. QueuesAre /\ QueuesAre'
    BY <2>3, QueueFacts, InTheNextState DEF PathInv
  <2>5. Queue["putBack"] = <<>> /\ Queue'[e.level] = <<>> /\ Queue'["putBack"] = Queue[e.level]
    BY <1>1, <1>2, <2>1, <2>2, <2>4, Zenon DEF QueuesAre, kept
  <2>6. \A z \in Places \ {e.level, "putBack"} : Queue'[z] = Queue[z]
    BY <1>1, <2>2, <2>4 DEF QueuesAre, Places, kept
  <2>7. e.level \in Places /\ "putBack" \in Places /\ e.level # "putBack"
    BY <1>2 DEF Places, Levels
  <2>8. DOMAIN Queue["putBack"] = {} /\ DOMAIN Queue'[e.level] = {}
    BY <2>5
  <2>9. Contents(Queue') = Contents(Queue) /\ Unique(Queue')
    BY <2>5, <2>6, <2>7, <2>8, MovedAll, Zenon DEF PathInv
  <2> QED
    BY <1>1, <2>3, <2>9, Shuffled
<1>4. CASE ~(e.Available /\ e.Read)
  <2>1. buffer' = buffer
    BY <1>1, <1>4, Zenon DEF TakeLevel
  <2> QED
    BY <1>1, <2>1, Untouched
<1> QED
  BY <1>3, <1>4

-----------------------------------------------------------------------------
(* The packets: what waits is what is behind the first packet of a payload.*)

\* A packet waits when it is in a payload.
LEMMA WaitingIs ==
    ASSUME NEW v
    PROVE  v \in Waiting <=> \E ic \in Held : v \in Rest(ic)
BY DEF Waiting

\* The rest of a payload, as packets of the abstract specification.
LEMMA RestFacts ==
    ASSUME NEW ic \in Payloads, ic.copy \in Copies(ic.dg)
    PROVE  /\ Unit(ic) \in AllUnits /\ Unit(ic) \in Rest(ic)
           /\ Rest(ic) = UnitsBehind(Unit(ic))
           /\ \A v \in Rest(ic) : v.dg = ic.dg /\ v.copy = ic.copy /\ v.i \in Nat /\ ic.off <= v.i
           /\ Unit(ic).dg = ic.dg /\ Unit(ic).copy = ic.copy /\ Unit(ic).i = ic.off
<1> DEFINE n == Len(Datagrams[ic.dg])
<1>1. /\ ic.dg \in DOMAIN Datagrams /\ ic.off \in 1 .. n /\ n \in Nat
      /\ DOMAIN Datagrams[ic.dg] = 1 .. n
  BY PayloadFacts, DatagramFacts
<1>2. Unit(ic).dg = ic.dg /\ Unit(ic).copy = ic.copy /\ Unit(ic).i = ic.off
  BY DEF Unit
<1>3. \A v : v \in AllUnits <=> \E d \in DOMAIN Datagrams : \E c \in Copies(d) : \E j \in DOMAIN Datagrams[d] :
                                   v = [dg |-> d, copy |-> c, i |-> j]
  BY DEF AllUnits
<1>4. \A v : v \in Rest(ic) <=> \E j \in ic.off .. n : v = [dg |-> ic.dg, copy |-> ic.copy, i |-> j]
  BY DEF Rest
<1>5. \A v \in Rest(ic) : v.dg = ic.dg /\ v.copy = ic.copy /\ v.i \in Nat /\ ic.off <= v.i /\ v.i \in 1 .. n
  BY <1>1, <1>4
<1>6. \A v : v \in Rest(ic) => v \in UnitsBehind(Unit(ic))
  <2> SUFFICES ASSUME NEW v \in Rest(ic) PROVE v \in UnitsBehind(Unit(ic))
    OBVIOUS
  <2>1. v \in AllUnits
    BY <1>1, <1>3, <1>4
  <2> QED
    BY <1>1, <1>2, <1>5, <2>1 DEF UnitsBehind
<1>7. \A v : v \in UnitsBehind(Unit(ic)) => v \in Rest(ic)
  <2> SUFFICES ASSUME NEW v \in UnitsBehind(Unit(ic)) PROVE v \in Rest(ic)
    OBVIOUS
  <2>1. v \in AllUnits /\ v.dg = ic.dg /\ v.copy = ic.copy /\ v.i >= ic.off
    BY <1>2 DEF UnitsBehind
  <2>2. PICK d \in DOMAIN Datagrams : \E c \in Copies(d) : \E j \in DOMAIN Datagrams[d] :
             v = [dg |-> d, copy |-> c, i |-> j]
    BY <1>3, <2>1
  <2> QED
    BY <1>1, <1>4, <2>1, <2>2
<1>8. Unit(ic) \in Rest(ic)
  BY <1>1, <1>4 DEF Unit
<1>9. Rest(ic) = UnitsBehind(Unit(ic))
  BY <1>6, <1>7
<1>10. Unit(ic) \in AllUnits
  BY <1>8, <1>9 DEF UnitsBehind
<1> QED
  BY <1>2, <1>5, <1>8, <1>9, <1>10

\* What is held.
LEMMA HeldFacts ==
    ASSUME PathInv, NEW ic \in Held
    PROVE  /\ ic \in Payloads /\ ic.copy \in Copies(ic.dg) /\ ic.copy \in Nat
           /\ copies[ic.dg] \in Nat /\ copies[ic.dg] < ic.copy
<1>1. ic \in Contents(Queue)
  BY HeldIsQueued DEF PathInv
<1>2. ic \in Payloads
  <2>1. CASE ic \in Range(IncomingPayloads)
    BY <2>1 DEF PathInv, PathTypes, Range
  <2>2. CASE parser.pc # "select" /\ ic = parser.ic
    BY <2>2 DEF PathInv, PathTypes
  <2>3. CASE \E j \in DOMAIN UnprocessedPayloads : ic = UnprocessedPayloads[j].ic
    <3> DEFINE W == [ic : Payloads, level : Levels]
    <3>1. UnprocessedPayloads \in Seq(W)
      BY DEF PathInv, PathTypes
    <3> HIDE DEF W
    <3>2. \A j \in DOMAIN UnprocessedPayloads : UnprocessedPayloads[j] \in W
      BY <3>1
    <3> QED
      BY <2>3, <3>2 DEF W
  <2>4. CASE \E l \in Levels : ic \in Range(buffer.unprocessedPayloads[l])
    BY <2>4 DEF PathInv, PathTypes, Range
  <2>5. CASE ic \in Range(buffer.putBack)
    BY <2>5 DEF PathInv, PathTypes, Range
  <2> QED
    BY <2>1, <2>2, <2>3, <2>4, <2>5, HeldIs
<1> QED
  BY <1>1, <1>2, PayloadFacts, NetworksAssumption DEF PathInv, PathTypes

\* Deliver: a new copy comes to IncomingPayloads, and all its packets wait.
LEMMA DeliverRefines ==
    ASSUME PathInv, NEW d \in DOMAIN Datagrams, Deliver(d)
    PROVE  PathInv' /\ \E u \in AllUnits : Promise!Deliver(u)
<1> DEFINE e == [dg |-> d, copy |-> copies[d], off |-> 1]
           u == Unit(e)
<1>1. /\ copies[d] \in Nat \ {0} /\ copies' = [copies EXCEPT ![d] = @ - 1]
      /\ copies \in [DOMAIN Datagrams -> Nat]
      /\ IncomingPayloads \in Seq(Payloads) /\ IncomingPayloads' = Append(IncomingPayloads, e)
      /\ UNCHANGED <<parser, UnprocessedPayloads, buffer, CryptoStates, parsed>>
  BY DEF PathInv, PathTypes, Deliver
<1>2. copies[d] \in Copies(d) /\ copies[d] \in 1 .. MaxCopies
  BY <1>1, Zenon DEF PathInv, Copies
<1>3. e \in Payloads
  BY <1>2, DatagramFacts, PayloadMade
<1>4. e.dg = d /\ e.copy = copies[d] /\ e.off = 1
  OBVIOUS
<1> HIDE DEF e
<1>5. IncomingPayloads' \in Seq(Payloads) /\ Added(IncomingPayloads, IncomingPayloads', e)
  BY <1>1, <1>3, AppendAdded
<1>6. copies' \in [DOMAIN Datagrams -> Nat] /\ copies'[d] = copies[d] - 1
      /\ \A c \in DOMAIN Datagrams \ {d} : copies'[c] = copies[c]
  BY <1>1
<1>7. PathTypes' /\ ParserInv'
  BY <1>1, <1>5, <1>6, Zenon DEF PathInv, PathTypes, ParserInv
<1>8. QueuesAre /\ QueuesAre'
  BY <1>7, QueueFacts, InTheNextState DEF PathInv
<1>9. Contents(Queue) = Held /\ Contents(Queue') = Held'
  BY <1>7, HeldIsQueued, InTheNextState DEF PathInv
<1>10. \A p \in Held : ~SameCopy(p, e)
  BY <1>1, <1>4, HeldFacts DEF SameCopy
<1>11. Held' = Held \cup {e} /\ Unique(Queue')
  <2>1. Added(Queue["incoming"], Queue'["incoming"], e)
    BY <1>5, <1>8, Zenon DEF QueuesAre
  <2>2. \A z \in Places \ {"incoming"} : Queue'[z] = Queue[z]
    BY <1>1, <1>8 DEF QueuesAre, Places
  <2>3. Listed(Queue) /\ Listed(Queue') /\ Unique(Queue) /\ "incoming" \in Places
    BY <1>8, Zenon DEF PathInv, QueuesAre, Places
  <2> QED
    BY <1>9, <1>10, <2>1, <2>2, <2>3, Arrived
<1>12. \A c \in DOMAIN Datagrams : copies'[c] = 0 \/ copies'[c] \in Copies(c)
  <2>1. copies'[d] = 0 \/ copies'[d] \in Copies(d)
    <3>1. PICK n \in Networks : copies[d] <= n[d]
      BY <1>2 DEF Copies
    <3>2. n[d] \in Nat
      BY NetworksAssumption
    <3>3. copies[d] - 1 = 0 \/ (copies[d] - 1 \in 1 .. MaxCopies /\ copies[d] - 1 <= n[d])
      BY <1>1, <1>2, <3>1, <3>2, NetworksAssumption
    <3> QED
      BY <1>6, <3>3 DEF Copies
  <2> QED
    BY <1>6, <2>1 DEF PathInv
<1>13. \A ic \in Held' : copies'[ic.dg] < ic.copy /\ ic.copy \in Copies(ic.dg)
  <2>1. \A ic \in Held : copies'[ic.dg] < ic.copy /\ ic.copy \in Copies(ic.dg)
    BY <1>1, <1>6, HeldFacts, PayloadFacts
  <2>2. copies'[e.dg] < e.copy /\ e.copy \in Copies(e.dg)
    BY <1>1, <1>2, <1>4, <1>6
  <2> QED
    BY <1>11, <2>1, <2>2
<1>14. \A v \in parsed' : v.dg \in DOMAIN Datagrams /\ v.copy \in Nat /\ copies'[v.dg] < v.copy
  BY <1>1, <1>6 DEF PathInv
<1>15. PathInv'
  BY <1>7, <1>9, <1>11, <1>12, <1>13, <1>14, Zenon DEF PathInv
<1>16. /\ u \in AllUnits /\ UnitsBehind(u) = Rest(e) /\ u.dg = d /\ u.copy = copies[d] /\ u.i = 1
       /\ \A v \in Rest(e) : v.dg = d /\ v.copy = copies[d]
  BY <1>2, <1>3, <1>4, RestFacts
<1> HIDE DEF u
<1>17. UnitsAhead(u) = {}
  <2>1. \A v \in AllUnits : v.i \in Nat \ {0}
    BY DatagramFacts DEF AllUnits
  <2> QED
    BY <1>16, <2>1 DEF UnitsAhead
<1>18. Rest(e) \cap (Waiting \cup parsed) = {}
  <2>1. \A v \in Rest(e) : v \notin Waiting
    <3> SUFFICES ASSUME NEW v \in Rest(e), v \in Waiting
                 PROVE  FALSE
      BY Zenon
    <3>1. PICK ic \in Held : v \in Rest(ic)
      BY WaitingIs, Zenon
    <3>2. ic \in Payloads /\ ic.copy \in Copies(ic.dg) /\ ic.copy \in Nat /\ copies[ic.dg] \in Nat /\ copies[ic.dg] < ic.copy
      BY <1>1, HeldFacts, Zenon
    <3>3. v.dg = ic.dg /\ v.copy = ic.copy /\ v.dg = d /\ v.copy = copies[d]
      BY <1>16, <3>1, <3>2, RestFacts, Zenon
    <3> QED
      BY ONLY <3>2, <3>3
  <2>2. \A v \in Rest(e) : v \notin parsed
    <3>1. \A v \in parsed : copies[v.dg] < v.copy /\ v.copy \in Nat
      BY <1>1, Zenon DEF PathInv
    <3>2. copies[d] \in Nat /\ ~(copies[d] < copies[d])
      BY <1>1
    <3> QED
      BY ONLY <1>16, <3>1, <3>2, Zenon
  <2> QED
    BY ONLY <2>1, <2>2, Zenon
<1>19. Waiting' = Waiting \cup Rest(e)
  BY <1>11 DEF Waiting
<1> QED
  BY <1>1, <1>15, <1>16, <1>17, <1>18, <1>19, SMTT(30) DEF Promise!Deliver

\* The packet that the ParsingAgent is at is the first of its copy that waits.
LEMMA FrontPacket ==
    ASSUME PathInv, parser.pc # "select"
    PROVE  LET u == Unit(parser.ic) IN
           /\ parser.ic \in Held /\ parser.ic \in Payloads
           /\ u \in AllUnits /\ u \in Waiting /\ UnitsAhead(u) \cap Waiting = {}
           /\ u.dg = parser.ic.dg /\ u.copy = parser.ic.copy /\ u.i = parser.ic.off
           /\ Rest(parser.ic) = UnitsBehind(u)
           /\ \A ic \in Held \ {parser.ic} : UnitsBehind(u) \cap Rest(ic) = {}
<1> DEFINE u == Unit(parser.ic)
<1>1. parser.ic \in Held
  BY HeldIs
<1>2. /\ parser.ic \in Payloads /\ u \in AllUnits /\ u \in Rest(parser.ic)
      /\ Rest(parser.ic) = UnitsBehind(u)
      /\ u.dg = parser.ic.dg /\ u.copy = parser.ic.copy /\ u.i = parser.ic.off /\ parser.ic.off \in Nat
  BY <1>1, HeldFacts, RestFacts, PayloadFacts, Zenon
<1>3. \A ic \in Held \ {parser.ic} : ~SameCopy(ic, parser.ic)
  <2> SUFFICES ASSUME NEW ic \in Held, SameCopy(ic, parser.ic) PROVE ic = parser.ic
    OBVIOUS
  <2>1. 1 \in DOMAIN Queue["parser"] /\ Queue["parser"][1] = parser.ic /\ "parser" \in Places
    BY QueueFacts DEF PathInv, QueuesAre, Places
  <2>2. PICK x \in Places : \E i \in DOMAIN Queue[x] : ic = Queue[x][i]
    BY HeldIsQueued, ContentsAre DEF PathInv
  <2> QED
    BY <2>1, <2>2 DEF PathInv, Unique
<1>4. \A ic \in Held \ {parser.ic} : \A v \in Rest(ic) : ~(v.dg = u.dg /\ v.copy = u.copy)
  BY <1>2, <1>3, HeldFacts, RestFacts DEF SameCopy
<1>5. u \in Waiting
  BY <1>1, <1>2, WaitingIs
<1> HIDE DEF u
<1>6. UnitsAhead(u) \cap Waiting = {}
  <2> SUFFICES ASSUME NEW v \in UnitsAhead(u), v \in Waiting PROVE FALSE
    OBVIOUS
  <2>1. v.dg = u.dg /\ v.copy = u.copy /\ v.i < u.i
    BY DEF UnitsAhead
  <2>2. PICK ic \in Held : v \in Rest(ic)
    BY WaitingIs
  <2>3. ic = parser.ic
    BY <1>4, <2>1, <2>2
  <2>4. v.i \in Nat /\ parser.ic.off <= v.i
    BY <1>1, <2>2, <2>3, HeldFacts, RestFacts
  <2> QED
    BY <1>2, <2>1, <2>4
<1>7. \A ic \in Held \ {parser.ic} : UnitsBehind(u) \cap Rest(ic) = {}
  BY <1>4 DEF UnitsBehind
<1> QED
  BY <1>1, <1>2, <1>5, <1>6, <1>7, Zenon DEF u

\* The ParsingAgent goes on in its datagram, or is done with it.
LEMMA ParserGoesOn ==
    ASSUME PathInv, PathTypes', parser.pc # "select", UNCHANGED <<IncomingPayloads, UnprocessedPayloads, buffer>>,
           parser'.pc # "select" => SameCopy(parser'.ic, parser.ic)
    PROVE  /\ Unique(Queue')
           /\ Held' = (Held \ {parser.ic}) \cup (IF parser'.pc = "select" THEN {} ELSE {parser'.ic})
           /\ Contents(Queue') = Held'
<1>1. QueuesAre /\ QueuesAre'
  BY QueueFacts, InTheNextState DEF PathInv
<1>2. Contents(Queue) = Held /\ Contents(Queue') = Held'
  BY HeldIsQueued, InTheNextState DEF PathInv
<1>3. Queue["parser"] = <<parser.ic>>
  BY <1>1, Zenon DEF QueuesAre
<1>4. DOMAIN Queue["parser"] = {1} /\ Queue["parser"][1] = parser.ic
  BY <1>3
<1>5. \A z \in Places \ {"parser"} : Queue'[z] = Queue[z]
  BY <1>1 DEF QueuesAre, Places
<1>6. CASE parser'.pc = "select"
  <2>1. DOMAIN Queue'["parser"] = {}
    BY <1>1, <1>6 DEF QueuesAre
  <2>2. /\ Unique(Queue')
        /\ Contents(Queue') = (Contents(Queue) \ {parser.ic}) \cup {Queue'["parser"][i] : i \in DOMAIN Queue'["parser"]}
    BY <1>4, <1>5, <2>1, Replaced DEF Places, PathInv
  <2> QED
    BY <1>2, <1>6, <2>1, <2>2
<1>7. CASE parser'.pc # "select"
  <2>1. Queue'["parser"] = <<parser'.ic>>
    BY <1>1, <1>7, Zenon DEF QueuesAre
  <2>2. DOMAIN Queue'["parser"] = {1} /\ Queue'["parser"][1] = parser'.ic
    BY <2>1
  <2>3. SameCopy(Queue'["parser"][1], Queue["parser"][1]) /\ "parser" \in Places /\ Unique(Queue)
    BY <1>4, <1>7, <2>2 DEF Places, PathInv
  <2>4. /\ Unique(Queue')
        /\ Contents(Queue') = (Contents(Queue) \ {Queue["parser"][1]})
                              \cup {Queue'["parser"][i] : i \in DOMAIN Queue'["parser"]}
    BY ONLY <1>4, <1>5, <2>2, <2>3, Replaced, SMTT(30)
  <2> QED
    BY <1>2, <1>4, <1>7, <2>2, <2>4
<1> QED
  BY <1>2, <1>6, <1>7

\* ReadHeader: nothing, or the rest of the datagram is given up.
LEMMA HeaderRefines ==
    ASSUME PathInv, ReadHeader
    PROVE  PathInv' /\ (Waiting' = Waiting \/ \E u \in AllUnits : Promise!Discard(u))
<1> DEFINE p == Packet(parser.ic)
           u == Unit(parser.ic)
<1>1. /\ parser.pc = "header" /\ parser.ic \in Payloads
      /\ DOMAIN parser = {"pc", "ic"}
      /\ UNCHANGED <<copies, IncomingPayloads, UnprocessedPayloads, buffer, CryptoStates, parsed>>
  BY Zenon DEF PathInv, PathTypes, ReadHeader
<1>2. CASE ~(KeysNeeded(p) \subseteq CryptoStates) \/ (KeysNeeded(p) \subseteq CryptoStates /\ ~p.broken)
  <2>1. /\ parser' \in [pc : {"putBack", "packet"}, ic : Payloads] /\ parser'.ic = parser.ic
        /\ parser'.pc = "putBack" => ~(KeysNeeded(p) \subseteq CryptoStates)
        /\ parser'.pc = "packet" => KeysNeeded(p) \subseteq CryptoStates /\ ~p.broken
    BY <1>1, <1>2, Zenon DEF ReadHeader, PathInv, PathTypes
  <2>2. PathTypes' /\ ParserInv'
    BY <1>1, <2>1, Zenon DEF PathInv, PathTypes, ParserInv
  <2>3. /\ Unique(Queue') /\ Contents(Queue') = Held'
        /\ Held' = (Held \ {parser.ic}) \cup {parser.ic}
    BY <1>1, <2>1, <2>2, ParserGoesOn DEF SameCopy
  <2>4. parser.ic \in Held /\ Contents(Queue) = Held
    BY <1>1, FrontPacket, HeldIsQueued, Zenon DEF PathInv
  <2>5. Contents(Queue') = Contents(Queue)
    BY <2>3, <2>4
  <2> QED
    BY <1>1, <2>2, <2>3, <2>5, Shuffled
<1>3. CASE KeysNeeded(p) \subseteq CryptoStates /\ p.broken
  <2>1. parser' = Idle
    BY <1>1, <1>3 DEF ReadHeader
  <2>2. PathTypes' /\ ParserInv'
    BY <1>1, <2>1, Zenon DEF PathInv, PathTypes, ParserInv, Idle
  <2>3. Unique(Queue') /\ Contents(Queue') = Held' /\ Held' = Held \ {parser.ic}
    BY <1>1, <2>1, <2>2, ParserGoesOn DEF Idle
  <2>4. PathInv'
    BY <1>1, <2>2, <2>3, HeldIsQueued, Zenon DEF PathInv
  <2>5. /\ u \in AllUnits /\ u \in Waiting /\ UnitsAhead(u) \cap Waiting = {} /\ parser.ic \in Held
        /\ u.dg = parser.ic.dg /\ u.i = parser.ic.off /\ Rest(parser.ic) = UnitsBehind(u)
        /\ \A ic \in Held \ {parser.ic} : UnitsBehind(u) \cap Rest(ic) = {}
    BY <1>1, FrontPacket, Zenon
  <2>6. UnitBroken(u) /\ UnitOpens(u, CryptoStates)
    BY <1>3, <2>5, Zenon DEF UnitBroken, UnitOpens, Packet
  <2> HIDE DEF u, p
  <2>7. Waiting' = Waiting \ UnitsBehind(u)
    <3>1. \A v : v \in Waiting' <=> \E ic \in Held \ {parser.ic} : v \in Rest(ic)
      BY <2>3 DEF Waiting
    <3>2. \A v : v \in Waiting' <=> v \in Waiting /\ v \notin UnitsBehind(u)
      BY <2>5, <3>1, WaitingIs
    <3> QED
      BY <3>2
  <2>8. Promise!Discard(u)
    BY <1>1, <2>5, <2>6, <2>7 DEF Promise!Discard
  <2> QED
    BY <2>4, <2>5, <2>8
<1> QED
  BY <1>2, <1>3

\* What is left of a payload after its first packet.
LEMMA RestAfter ==
    ASSUME NEW ic \in Payloads, ic.copy \in Copies(ic.dg)
    PROVE  LET n == NextPacket(ic) IN
           /\ n.pc = "select" => n = Idle /\ Rest(ic) = {Unit(ic)}
           /\ n.pc # "select" => /\ n.pc = "header" /\ n.ic \in Payloads /\ SameCopy(n.ic, ic)
                                 /\ n \in [pc : {"header"}, ic : Payloads]
                                 /\ Rest(n.ic) = Rest(ic) \ {Unit(ic)}
<1> DEFINE m == Len(Datagrams[ic.dg])
           next == [ic EXCEPT !.off = @ + 1]
<1>1. /\ ic.dg \in DOMAIN Datagrams /\ ic.copy \in 1 .. MaxCopies /\ ic.off \in 1 .. m /\ m \in Nat
      /\ DOMAIN Datagrams[ic.dg] = 1 .. m /\ DOMAIN ic = {"dg", "copy", "off"}
  BY PayloadFacts, DatagramFacts
<1>2. CASE ic.off = m
  <2>1. NextPacket(ic) = Idle
    BY <1>2 DEF NextPacket
  <2>2. Rest(ic) = {Unit(ic)}
    BY <1>1, <1>2 DEF Rest, Unit
  <2> QED
    BY <2>1, <2>2 DEF Idle
<1>3. CASE ic.off # m
  <2>1. NextPacket(ic) = [pc |-> "header", ic |-> next]
    BY <1>3 DEF NextPacket
  <2>2. next.dg = ic.dg /\ next.copy = ic.copy /\ next.off = ic.off + 1 /\ DOMAIN next = {"dg", "copy", "off"}
    BY <1>1
  <2>3. next = [dg |-> ic.dg, copy |-> ic.copy, off |-> ic.off + 1]
    BY <1>1
  <2>4. ic.off + 1 \in DOMAIN Datagrams[ic.dg]
    BY <1>1, <1>3
  <2>5. next \in Payloads
    BY <1>1, <2>3, <2>4, PayloadMade
  <2> HIDE DEF next
  <2>6. \A v : v \in Rest(next) <=> \E j \in ic.off + 1 .. m : v = [dg |-> ic.dg, copy |-> ic.copy, i |-> j]
    BY <2>2 DEF Rest
  <2>7. \A v : v \in Rest(ic) <=> \E j \in ic.off .. m : v = [dg |-> ic.dg, copy |-> ic.copy, i |-> j]
    BY DEF Rest
  <2>8. \A v : v \in Rest(next) => v \in Rest(ic) /\ v # Unit(ic)
    BY <1>1, <2>6, <2>7 DEF Unit
  <2>9. \A v : v \in Rest(ic) /\ v # Unit(ic) => v \in Rest(next)
    BY <1>1, <2>6, <2>7 DEF Unit
  <2>10. Rest(next) = Rest(ic) \ {Unit(ic)}
    BY <2>8, <2>9
  <2> QED
    BY <2>1, <2>2, <2>5, <2>10 DEF SameCopy
<1> QED
  BY <1>2, <1>3, Zenon

\* ReadPacket: the packet is opened.
LEMMA PacketRefines ==
    ASSUME PathInv, ReadPacket
    PROVE  PathInv' /\ \E u \in AllUnits : Promise!Open(u)
<1> DEFINE ic == parser.ic
           u == Unit(ic)
           n == NextPacket(ic)
<1>1. /\ parser.pc = "packet" /\ ic \in Payloads /\ parser' = n /\ parsed' = parsed \cup {u}
      /\ UNCHANGED <<copies, IncomingPayloads, UnprocessedPayloads, buffer, CryptoStates>>
  BY Zenon DEF PathInv, PathTypes, ReadPacket
<1>2. /\ u \in AllUnits /\ u \in Waiting /\ UnitsAhead(u) \cap Waiting = {} /\ ic \in Held
      /\ u.dg = ic.dg /\ u.copy = ic.copy /\ u.i = ic.off /\ Rest(ic) = UnitsBehind(u)
      /\ \A c \in Held \ {ic} : UnitsBehind(u) \cap Rest(c) = {}
  BY <1>1, FrontPacket, Zenon
<1>3. ic.copy \in Copies(ic.dg) /\ copies[ic.dg] < ic.copy /\ ic.copy \in Nat /\ ic.dg \in DOMAIN Datagrams
  BY <1>2, HeldFacts, PayloadFacts, Zenon
<1>4. ~UnitBroken(u) /\ UnitOpens(u, CryptoStates)
  <2>1. KeysNeeded(Packet(ic)) \subseteq CryptoStates /\ ~Packet(ic).broken
    BY <1>1, Zenon DEF PathInv, ParserInv
  <2> QED
    BY <1>2, <2>1, Zenon DEF UnitBroken, UnitOpens, Packet
<1>5. /\ n.pc = "select" => n = Idle /\ Rest(ic) = {u}
      /\ n.pc # "select" => /\ n.pc = "header" /\ n.ic \in Payloads /\ SameCopy(n.ic, ic)
                            /\ n \in [pc : {"header"}, ic : Payloads]
                            /\ Rest(n.ic) = Rest(ic) \ {u}
  BY <1>1, <1>3, RestAfter, Zenon
<1> HIDE DEF ic, u, n
<1>6. PathTypes' /\ ParserInv'
  <2>1. /\ parser' \in [pc : {"select", "header", "putBack", "packet"}, ic : Payloads \cup {NoPayload}]
        /\ parser'.pc # "select" => parser'.ic \in Payloads
        /\ parser'.pc \in {"select", "header"}
    BY <1>1, <1>5 DEF Idle
  <2> QED
    BY <1>1, <2>1, Zenon DEF PathInv, PathTypes, ParserInv
<1>7. /\ Unique(Queue') /\ Contents(Queue') = Held'
      /\ Held' = (Held \ {ic}) \cup (IF n.pc = "select" THEN {} ELSE {n.ic})
  BY <1>1, <1>5, <1>6, ParserGoesOn, Zenon DEF ic
<1>8. \A c \in Held' : copies[c.dg] < c.copy /\ c.copy \in Copies(c.dg)
  BY <1>3, <1>5, <1>7, HeldFacts DEF SameCopy
<1>9. PathInv'
  <2>1. \A v \in parsed' : v.dg \in DOMAIN Datagrams /\ v.copy \in Nat /\ copies[v.dg] < v.copy
    BY <1>1, <1>2, <1>3, Zenon DEF PathInv
  <2> QED
    BY <1>1, <1>6, <1>7, <1>8, <2>1, Zenon DEF PathInv
<1>10. Waiting' = Waiting \ {u}
  <2>1. \A v : v \in Waiting' <=> \E c \in Held' : v \in Rest(c)
    BY DEF Waiting
  <2>2. \A v : v \in Waiting' <=> (\E c \in Held \ {ic} : v \in Rest(c)) \/ (v \in Rest(ic) /\ v # u)
    BY <1>5, <1>7, <2>1
  <2>3. \A v : v \in Waiting <=> (\E c \in Held \ {ic} : v \in Rest(c)) \/ v \in Rest(ic)
    BY <1>2, WaitingIs
  <2>4. u \in UnitsBehind(u)
    BY <1>2, <2>3, RestFacts, <1>1, <1>3, Zenon DEF u
  <2>5. \A v : v \in Waiting' <=> v \in Waiting /\ v # u
    BY <1>2, <2>2, <2>3, <2>4, SMTT(30)
  <2> QED
    BY <2>5
<1>11. Promise!Open(u)
  BY <1>1, <1>2, <1>4, <1>10 DEF Promise!Open
<1> QED
  BY <1>2, <1>9, <1>11

\* Every step is one of the abstract specification, or none.
LEMMA StepRefines ==
    ASSUME PathInv, AnnouncedInv, [Next]_vars
    PROVE  PathInv' /\ [Promise!Next]_(Promise!vars)
<1> DEFINE Still == PathInv' /\ Waiting' = Waiting
<1>1. ASSUME Still, UNCHANGED <<parsed, CryptoStates>>
      PROVE  PathInv' /\ [Promise!Next]_(Promise!vars)
  BY <1>1 DEF Promise!vars
<1>2. CASE \E d \in DOMAIN Datagrams : Deliver(d)
  BY <1>2, DeliverRefines DEF Promise!Next
<1>3. CASE TakePayload
  BY <1>1, <1>3, TakeHops DEF TakePayload
<1>4. CASE ReadHeader
  <2>1. UNCHANGED <<parsed, CryptoStates>>
    BY <1>4 DEF ReadHeader
  <2> QED
    BY <1>1, <1>4, <2>1, HeaderRefines DEF Promise!Next
<1>5. CASE PutBack
  BY <1>1, <1>5, PutBackHops DEF PutBack
<1>6. CASE ReadPacket
  BY <1>6, PacketRefines DEF Promise!Next
<1>7. CASE TakeUnprocessed
  BY <1>1, <1>7, UnprocessedHops, Zenon DEF TakeUnprocessed
<1>8. CASE TakeLevel
  BY <1>1, <1>8, LevelHops DEF TakeLevel
<1>9. CASE PutBackKept
  BY <1>1, <1>9, KeptHops DEF PutBackKept
<1>10. CASE InstallKeys
  <2>1. /\ CryptoStates' = CryptoStates \cup Secrets
        /\ UNCHANGED <<copies, IncomingPayloads, parser, UnprocessedPayloads, buffer, parsed>>
    BY <1>10 DEF InstallKeys
  <2>2. Secrets \in SUBSET {"Handshake", "1RTT"}
    BY DEF Secrets
  <2>3. PathInv' /\ Waiting' = Waiting
    BY <2>1, Untouched
  <2>4. Promise!Install(Secrets)
    BY <2>1, <2>3 DEF Promise!Install
  <2> QED
    BY <2>2, <2>3, <2>4 DEF Promise!Next
<1>11. CASE \/ \E l \in Levels : BroadcastCrypto(l)
            \/ HandlePacket \/ AnnounceLevels \/ HandshakeAgent \/ UNCHANGED vars
  <2>1. UNCHANGED <<copies, IncomingPayloads, parser, UnprocessedPayloads, buffer, CryptoStates, parsed>>
    BY <1>11, Zenon DEF BroadcastCrypto, HandlePacket, AnnounceLevels, HandshakeAgent, vars
  <2> QED
    BY <1>1, <2>1, Untouched
<1> QED
  BY <1>2, <1>3, <1>4, <1>5, <1>6, <1>7, <1>8, <1>9, <1>10, <1>11, Zenon DEF Next, ParsingAgent, BufferAgent, TLSAgent

\* At first nothing waits and nothing is open.
LEMMA InitRefines ==
    ASSUME Init
    PROVE  PathInv /\ AnnouncedInv /\ Promise!Init
<1>1. PathTypes /\ ParserInv
  BY NetworksAssumption, SMTT(30) DEF Init, PathTypes, ParserInv, Idle, Empty, Levels
<1>2. QueuesAre /\ Held = Contents(Queue)
  BY <1>1, QueueFacts, HeldIsQueued
<1>3. \A x \in Places : Queue[x] = <<>>
  <2>1. UnprocessedPayloads = <<>>
    BY Zenon DEF Init
  <2>2. Queue["unprocessed"] = [j \in DOMAIN UnprocessedPayloads |-> UnprocessedPayloads[j].ic]
    BY <1>2, Zenon DEF QueuesAre
  <2>3. Queue["unprocessed"] = <<>>
    BY ONLY <2>1, <2>2
  <2> QED
    BY <1>2, <2>3, Zenon DEF Init, QueuesAre, Places, Idle, Empty, Levels
<1>4. Held = {} /\ Unique(Queue)
  BY ONLY <1>2, <1>3, ContentsAre, SMTT(30) DEF Unique
<1>5. \A d \in DOMAIN Datagrams : copies[d] = 0 \/ copies[d] \in Copies(d)
  BY NetworksAssumption DEF Init, Copies
<1>6. PathInv
  BY <1>1, <1>2, <1>4, <1>5, Zenon DEF PathInv, Init
<1>7. Promise!Init
  BY <1>4, Zenon DEF Init, Waiting, Promise!Init
<1>8. AnnouncedInv
  BY DEF Init, AnnouncedInv, KeysBeforeAnnouncement
<1> QED
  BY <1>6, <1>7, <1>8, ZenonT(40)

\* For every server, network and interleaving the receiving half implements Decryption: no
\* packet of a delivered datagram is lost between the ParsingAgent and the BufferAgent, and
\* none is opened twice, before its keys are installed or before the packets in front of it.
THEOREM ReceivingRefines ==
    Spec => PacketsOpenedOnce
<1>1. Init => PathInv /\ AnnouncedInv /\ Promise!Init
  BY InitRefines
<1>2. PathInv /\ AnnouncedInv /\ [Next]_vars => PathInv' /\ AnnouncedInv' /\ [Promise!Next]_(Promise!vars)
  BY StepRefines, AnnouncedKept
<1> QED
  BY <1>1, <1>2, PTL DEF Spec, PacketsOpenedOnce, Promise!Spec
==============================================================================
