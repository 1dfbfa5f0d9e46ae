----------------------------- MODULE ReceivePath -----------------------------
(***************************************************************************)
(* The receiving half of a connection during the handshake: the            *)
(* ParsingAgent, which opens the packets of each datagram, the BufferAgent,*)
(* which keeps the datagrams whose keys are not there yet, the TLSAgent,   *)
(* which feeds the CRYPTO streams to the TLS stack and installs keys, and  *)
(* the HandshakeAgent, which reports the outcome.  Each is a goroutine;    *)
(* between them are the broadcasters of the Connection, FIFO queues here.  *)
(*                                                                         *)
(* The connection is past Version Negotiation and Retry (AgentLifecycle    *)
(* has the restart they cause); a late Retry is still parsed and ignored.  *)
(* A CRYPTO frame carries one whole TLS message, named by its place in the *)
(* stream of its level; Streams models the bytes.  The TLS stack accepts   *)
(* these messages; what it answers belongs to the sending half.            *)
(***************************************************************************)
EXTENDS Naturals, Sequences, FiniteSets, Functions

CONSTANTS
    Datagrams,    \* what the server sends: a sequence of datagrams, each a sequence of packets
    MaxCopies,    \* how often the network delivers a datagram at most
    Networks,     \* how often each datagram gets through: functions to 0 .. MaxCopies
    MaxMessages,  \* how many TLS messages the server sends at a level at most
    Messages      \* the number of TLS messages the server sends at each level

Levels == {"Initial", "Handshake", "1RTT"}

Frames == {"DONE", "CLOSE", "PING", "BLOCKED", "STREAM"}

\* crypto: the TLS messages in the CRYPTO frames; broken: too short, or fails to decrypt.
Packets == [type : Levels \cup {"Retry", "Reset"}, frames : SUBSET Frames,
            crypto : SUBSET (1 .. MaxMessages), broken : BOOLEAN]

\* A datagram has a packet, and one that takes all the rest of its datagram is the last one in it.
ASSUME DatagramsAssumption ==
    /\ Datagrams \in Seq(Seq(Packets) \ {<<>>})
    /\ \A d \in DOMAIN Datagrams : \A i \in DOMAIN Datagrams[d] :
          Datagrams[d][i].type \in {"1RTT", "Retry", "Reset"} => i = Len(Datagrams[d])

ASSUME MessagesAssumption == MaxMessages \in Nat /\ Messages \in [Levels -> 0 .. MaxMessages]

ASSUME NetworksAssumption ==
    MaxCopies \in Nat /\ Networks \subseteq [DOMAIN Datagrams -> 0 .. MaxCopies]

VARIABLES
    copies,               \* how often each datagram can still be delivered
    IncomingPayloads,     \* the payloads on their way to the ParsingAgent
    parser,               \* the ParsingAgent: its step and its payload
    ReceiveFrameBuffer,   \* the frames seen so far, per level
    UnprocessedPayloads,  \* the payloads on their way to the BufferAgent
    EncryptionLevels,     \* the announcements on their way to the BufferAgent
    buffer,               \* the BufferAgent
    crypto,               \* the CRYPTO streams and the channels that carry their data
    tls,                  \* the TLSAgent and the TLS stack
    CryptoStates,         \* the levels whose read keys are installed
    handshake,            \* the HandshakeAgent
    HandshakeStatus,      \* what it has published
    parsed                \* history: the packets opened so far

vars == <<copies, IncomingPayloads, parser, ReceiveFrameBuffer, UnprocessedPayloads,
          EncryptionLevels, buffer, crypto, tls, CryptoStates, handshake,
          HandshakeStatus, parsed>>

NoPayload == [dg |-> 0, copy |-> 0, off |-> 0]

Idle == [pc |-> "select", ic |-> NoPayload]

Empty == [l \in Levels |-> <<>>]

Init ==
    /\ copies \in Networks
    /\ IncomingPayloads = <<>>
    /\ parser = Idle
    /\ ReceiveFrameBuffer = [l \in Levels |-> {}]
    /\ UnprocessedPayloads = <<>>
    /\ EncryptionLevels = <<>>
    /\ buffer = [unprocessedPayloads |-> Empty, available |-> {}, putBack |-> <<>>]
    /\ crypto = [next |-> [l \in Levels |-> 1], held |-> [l \in Levels |-> {}],
                 ReadChan |-> Empty, cryptoChan |-> Empty]
    /\ tls = [pc |-> "select", incomingPackets |-> <<>>, fed |-> Empty, announced |-> {}]
    /\ CryptoStates = {"Initial"}
    /\ handshake = [running |-> TRUE, registered |-> TRUE, incPackets |-> <<>>]
    /\ HandshakeStatus = <<>>
    /\ parsed = {}

-----------------------------------------------------------------------------
(* The network and the SocketAgent: a datagram may be lost, duplicated and *)
(* overtaken.                                                              *)

Deliver(d) ==
    /\ copies[d] > 0
    /\ copies' = [copies EXCEPT ![d] = @ - 1]
    /\ IncomingPayloads' = Append(IncomingPayloads, [dg |-> d, copy |-> copies[d], off |-> 1])
    /\ UNCHANGED <<parser, ReceiveFrameBuffer, UnprocessedPayloads, EncryptionLevels, buffer,
                   crypto, tls, CryptoStates, handshake, HandshakeStatus, parsed>>

-----------------------------------------------------------------------------
(* ParsingAgent.                                                           *)

Packet(ic) == Datagrams[ic.dg][ic.off]

Unit(ic) == [dg |-> ic.dg, copy |-> ic.copy, i |-> ic.off]

\* A stateless reset has the form of a packet with a short header.
KeysNeeded(p) == CASE p.type \in Levels -> {p.type} [] p.type = "Reset" -> {"1RTT"} [] OTHER -> {}

TakePayload ==
    /\ parser.pc = "select" /\ IncomingPayloads # <<>>
    /\ parser' = [parser EXCEPT !.pc = "header", !.ic = Head(IncomingPayloads)]
    /\ IncomingPayloads' = Tail(IncomingPayloads)
    /\ UNCHANGED <<copies, ReceiveFrameBuffer, UnprocessedPayloads, EncryptionLevels, buffer,
                   crypto, tls, CryptoStates, handshake, HandshakeStatus, parsed>>

\* Looks for the keys; a packet that does not decrypt ends the datagram.
ReadHeader ==
    /\ parser.pc = "header"
    /\ LET p == Packet(parser.ic) IN
       parser' = CASE ~ KeysNeeded(p) \subseteq CryptoStates -> [parser EXCEPT !.pc = "putBack"]
                   [] KeysNeeded(p) \subseteq CryptoStates /\ p.broken -> Idle
                   [] OTHER -> [parser EXCEPT !.pc = "packet"]
    /\ UNCHANGED <<copies, IncomingPayloads, ReceiveFrameBuffer, UnprocessedPayloads,
                   EncryptionLevels, buffer, crypto, tls, CryptoStates, handshake,
                   HandshakeStatus, parsed>>

\* Mutant: the whole datagram is handed to the BufferAgent.
PutBackWhole ==
    /\ parser.pc = "putBack"
    /\ UnprocessedPayloads' = Append(UnprocessedPayloads,
           [ic |-> [parser.ic EXCEPT !.off = 1], level |-> CHOOSE l \in KeysNeeded(Packet(parser.ic)) : TRUE])
    /\ parser' = Idle
    /\ UNCHANGED <<copies, IncomingPayloads, ReceiveFrameBuffer, EncryptionLevels, buffer,
                   crypto, tls, CryptoStates, handshake, HandshakeStatus, parsed>>

\* The rest of the datagram goes to the BufferAgent.
PutBack ==
    /\ parser.pc = "putBack"
    /\ UnprocessedPayloads' = Append(UnprocessedPayloads,
           [ic |-> parser.ic, level |-> CHOOSE l \in KeysNeeded(Packet(parser.ic)) : TRUE])
    /\ parser' = Idle
    /\ UNCHANGED <<copies, IncomingPayloads, ReceiveFrameBuffer, EncryptionLevels, buffer,
                   crypto, tls, CryptoStates, handshake, HandshakeStatus, parsed>>

\* addToRead for the messages ns of the stream of level l, in any order: whatever has become
\* contiguous is handed to ReadChan.
AddToRead(c, l, ns) ==
    LET have == c.held[l] \cup ns
        last == CHOOSE m \in 0 .. MaxMessages : 1 .. m \subseteq have /\ m + 1 \notin have
    IN  [c EXCEPT !.held[l] = have,
                  !.next[l] = last + 1,
                  !.ReadChan[l] = @ \o [i \in 1 .. last + 1 - c.next[l] |-> c.next[l] + i - 1]]

\* Mutant: only PING frames are filtered out.
KeepRetransmits(fs, seen) == fs \ {"PING"}

filterOutRetransmits(fs, seen) == {f \in fs \ {"PING"} : f = "BLOCKED" \/ f \notin seen}

NextPacket(ic) ==
    IF ic.off = Len(Datagrams[ic.dg]) THEN Idle
    ELSE [pc |-> "header", ic |-> [ic EXCEPT !.off = @ + 1]]

\* Decodes the frames, which feeds the CRYPTO streams, removes those seen before, submits
\* the packet to IncomingPackets and goes on to the next packet of the datagram.
ReadPacket ==
    /\ parser.pc = "packet"
    /\ LET p  == Packet(parser.ic)
           l  == p.type
           fs == filterOutRetransmits(p.frames, ReceiveFrameBuffer[l])
           packet == [type |-> l, frames |-> IF l \in Levels THEN fs ELSE {}]
       IN /\ IF l \in Levels
             THEN /\ crypto' = AddToRead(crypto, l, p.crypto)
                  /\ ReceiveFrameBuffer' = [ReceiveFrameBuffer EXCEPT ![l] = @ \cup fs]
             ELSE UNCHANGED <<crypto, ReceiveFrameBuffer>>
          /\ tls' = [tls EXCEPT !.incomingPackets = Append(@, packet)]
          /\ handshake' = IF handshake.registered
                          THEN [handshake EXCEPT !.incPackets = Append(@, packet)]
                          ELSE handshake
    /\ parser' = NextPacket(parser.ic)
    /\ parsed' = parsed \cup {Unit(parser.ic)}
    /\ UNCHANGED <<copies, IncomingPayloads, UnprocessedPayloads, EncryptionLevels, buffer,
                   CryptoStates, HandshakeStatus>>

ParsingAgent == TakePayload \/ ReadHeader \/ PutBack \/ ReadPacket

-----------------------------------------------------------------------------
(* BufferAgent.                                                            *)

TakeUnprocessed ==
    /\ buffer.putBack = <<>> /\ UnprocessedPayloads # <<>>
    /\ LET u == Head(UnprocessedPayloads) IN
       IF u.level \in buffer.available
       THEN /\ IncomingPayloads' = Append(IncomingPayloads, u.ic)
            /\ UNCHANGED buffer
       ELSE /\ buffer' = [buffer EXCEPT !.unprocessedPayloads[u.level] = Append(@, u.ic)]
            /\ UNCHANGED IncomingPayloads
    /\ UnprocessedPayloads' = Tail(UnprocessedPayloads)
    /\ UNCHANGED <<copies, parser, ReceiveFrameBuffer, EncryptionLevels, crypto, tls,
                   CryptoStates, handshake, HandshakeStatus, parsed>>

\* Mutant: the level is not marked as available.
MarkNot(b, l) == b

Mark(b, l) == [b EXCEPT !.available = @ \cup {l}]

TakeLevel ==
    /\ buffer.putBack = <<>> /\ EncryptionLevels # <<>>
    /\ LET e == Head(EncryptionLevels) IN
       buffer' = IF e.Available /\ e.Read
                 THEN [Mark(buffer, e.level) EXCEPT
                          !.putBack = buffer.unprocessedPayloads[e.level],
                          !.unprocessedPayloads[e.level] = <<>>]
                 ELSE buffer
    /\ EncryptionLevels' = Tail(EncryptionLevels)
    /\ UNCHANGED <<copies, IncomingPayloads, parser, ReceiveFrameBuffer, UnprocessedPayloads,
                   crypto, tls, CryptoStates, handshake, HandshakeStatus, parsed>>

\* One turn of the loop that puts the kept payloads back.
PutBackKept ==
    /\ buffer.putBack # <<>>
    /\ IncomingPayloads' = Append(IncomingPayloads, Head(buffer.putBack))
    /\ buffer' = [buffer EXCEPT !.putBack = Tail(@)]
    /\ UNCHANGED <<copies, parser, ReceiveFrameBuffer, UnprocessedPayloads, EncryptionLevels,
                   crypto, tls, CryptoStates, handshake, HandshakeStatus, parsed>>

BufferAgent == TakeUnprocessed \/ TakeLevel \/ PutBackKept

-----------------------------------------------------------------------------
(* TLSAgent.  The broadcaster of a stream hands data to the channels that  *)
(* are registered with it in no fixed order: addToRead may see its own     *)
(* copy, and return, before cryptoChan has got the data.                   *)

BroadcastCrypto(l) ==
    /\ crypto.ReadChan[l] # <<>>
    /\ crypto' = [crypto EXCEPT !.cryptoChan[l] = Append(@, Head(crypto.ReadChan[l])),
                                !.ReadChan[l] = Tail(@)]
    /\ UNCHANGED <<copies, IncomingPayloads, parser, ReceiveFrameBuffer, UnprocessedPayloads,
                   EncryptionLevels, buffer, tls, CryptoStates, handshake, HandshakeStatus, parsed>>

\* Takes a packet and, if its CRYPTO stream has data, gives that to the TLS stack.
HandlePacket ==
    /\ tls.pc = "select" /\ tls.incomingPackets # <<>>
    /\ LET l    == Head(tls.incomingPackets).type
           rest == [tls EXCEPT !.incomingPackets = Tail(@)]
       IN IF l \in Levels /\ crypto.cryptoChan[l] # <<>>
          THEN /\ tls' = [rest EXCEPT !.pc = "install", !.fed[l] = @ \o crypto.cryptoChan[l]]
               /\ crypto' = [crypto EXCEPT !.cryptoChan[l] = <<>>]
          ELSE tls' = rest /\ UNCHANGED crypto
    /\ UNCHANGED <<copies, IncomingPayloads, parser, ReceiveFrameBuffer, UnprocessedPayloads,
                   EncryptionLevels, buffer, CryptoStates, handshake, HandshakeStatus, parsed>>

\* The TLS stack: the secrets that the messages fed so far give it.
Complete(l) == Len(tls.fed[l]) >= Messages[l]

Secrets == (IF Complete("Initial") THEN {"Handshake"} ELSE {})
           \cup (IF Complete("Initial") /\ Complete("Handshake") THEN {"1RTT"} ELSE {})

InstallKeys ==
    /\ tls.pc = "install"
    /\ CryptoStates' = CryptoStates \cup Secrets
    /\ tls' = [tls EXCEPT !.pc = "announce"]
    /\ UNCHANGED <<copies, IncomingPayloads, parser, ReceiveFrameBuffer, UnprocessedPayloads,
                   EncryptionLevels, buffer, crypto, handshake, HandshakeStatus, parsed>>

\* The directional levels of a level, in the order in which the TLSAgent goes through them.
encryptionLevels(l) == <<[level |-> l, Read |-> FALSE, Available |-> TRUE],
                         [level |-> l, Read |-> TRUE, Available |-> TRUE]>>

\* Mutant: 1-RTT is announced as soon as the first message is there.
ReadyEarly == Secrets \cup (IF Complete("Initial") THEN {"1RTT"} ELSE {})

Ready == CryptoStates

Announcements(l) == IF l \in Ready \ tls.announced THEN encryptionLevels(l) ELSE <<>>

AnnounceLevels ==
    /\ tls.pc = "announce"
    /\ EncryptionLevels' = EncryptionLevels \o Announcements("Handshake") \o Announcements("1RTT")
    /\ tls' = [tls EXCEPT !.pc = "select", !.announced = @ \cup (Ready \ {"Initial"})]
    /\ UNCHANGED <<copies, IncomingPayloads, parser, ReceiveFrameBuffer, UnprocessedPayloads,
                   buffer, crypto, CryptoStates, handshake, HandshakeStatus, parsed>>

TLSAgent == HandlePacket \/ InstallKeys \/ AnnounceLevels

-----------------------------------------------------------------------------
(* HandshakeAgent.                                                         *)

Publish(completed) == HandshakeStatus' = Append(HandshakeStatus, completed)

\* A connection close ends the agent; the first HANDSHAKE_DONE is the success and drops
\* the keys of the handshake; a stateless reset is reported, and a Retry now ignored.
HandshakeAgent ==
    /\ handshake.running /\ handshake.incPackets # <<>>
    /\ LET p    == Head(handshake.incPackets)
           rest == [handshake EXCEPT !.incPackets = Tail(@)]
       IN CASE "CLOSE" \in p.frames ->
                  /\ Publish(FALSE)
                  /\ handshake' = [rest EXCEPT !.running = FALSE]
                  /\ UNCHANGED EncryptionLevels
            [] "CLOSE" \notin p.frames /\ "DONE" \in p.frames ->
                  /\ Publish(TRUE)
                  /\ handshake' = [rest EXCEPT !.registered = FALSE]
                  /\ EncryptionLevels' = EncryptionLevels
                         \o <<[level |-> "Initial", Read |-> FALSE, Available |-> FALSE],
                              [level |-> "Handshake", Read |-> FALSE, Available |-> FALSE]>>
            [] p.type = "Reset" ->
                  Publish(FALSE) /\ handshake' = rest /\ UNCHANGED EncryptionLevels
            [] OTHER ->
                  handshake' = rest /\ UNCHANGED <<EncryptionLevels, HandshakeStatus>>
    /\ UNCHANGED <<copies, IncomingPayloads, parser, ReceiveFrameBuffer, UnprocessedPayloads,
                   buffer, crypto, tls, CryptoStates, parsed>>

-----------------------------------------------------------------------------
Next ==
    \/ \E d \in DOMAIN Datagrams : Deliver(d)
    \/ ParsingAgent
    \/ BufferAgent
    \/ \E l \in Levels : BroadcastCrypto(l)
    \/ TLSAgent
    \/ HandshakeAgent

\* Every goroutine runs; the network owes nothing.
Spec ==
    /\ Init /\ [][Next]_vars
    /\ WF_vars(ParsingAgent) /\ WF_vars(BufferAgent)
    /\ WF_vars(\E l \in Levels : BroadcastCrypto(l)) /\ WF_vars(TLSAgent)
    /\ WF_vars(HandshakeAgent)

-----------------------------------------------------------------------------
Payloads == UNION {[dg : {d}, copy : 1 .. MaxCopies, off : DOMAIN Datagrams[d]] :
                   d \in DOMAIN Datagrams}

\* The types; in particular the ParsingAgent never looks past the end of a datagram.
TypeOK ==
    /\ copies \in [DOMAIN Datagrams -> 0 .. MaxCopies]
    /\ \A i \in DOMAIN IncomingPayloads : IncomingPayloads[i] \in Payloads
    /\ parser.pc \in {"select", "header", "putBack", "packet"}
    /\ parser.ic \in Payloads \cup {NoPayload}
    /\ \A i \in DOMAIN UnprocessedPayloads : UnprocessedPayloads[i] \in [ic : Payloads, level : Levels]
    /\ \A i \in DOMAIN EncryptionLevels :
          EncryptionLevels[i] \in [level : Levels, Read : BOOLEAN, Available : BOOLEAN]
    /\ buffer.available \subseteq Levels
    /\ tls.pc \in {"select", "install", "announce"}
    /\ CryptoStates \subseteq Levels
    /\ HandshakeStatus \in Seq(BOOLEAN)

\* What the BufferAgent has been told, or is about to be told, is true: the keys of a
\* level are installed before the level is announced as readable.  A payload that it puts
\* back is therefore never handed to it again for the same keys.
KeysBeforeAnnouncement ==
    /\ buffer.available \subseteq CryptoStates
    /\ \A i \in DOMAIN EncryptionLevels :
          EncryptionLevels[i].Available => EncryptionLevels[i].level \in CryptoStates

\* Whatever is duplicated, overtaken or buffered, the TLS stack is given the messages of
\* each level once each and in order; and however often the server repeats HANDSHAKE_DONE,
\* the success of the handshake is published at most once, and only by a connection whose
\* TLS stack has completed (filterOutRetransmits, addToRead, HandshakeAgent).
RepeatsHaveNoEffect ==
    LET successes == {i \in DOMAIN HandshakeStatus : HandshakeStatus[i]}
    IN  /\ \A l \in Levels : \A i \in DOMAIN tls.fed[l] : tls.fed[l][i] = i
        /\ \A i, j \in successes : i = j
        /\ successes # {} => "1RTT" \in Secrets

-----------------------------------------------------------------------------
(* The refinement: the packets that wait, wherever they are, and those     *)
(* that have been opened.                                                  *)

Copies(d) == {c \in 1 .. MaxCopies : \E n \in Networks : c <= n[d]}

AllUnits == UNION {{[dg |-> d, copy |-> c, i |-> j] : c \in Copies(d), j \in DOMAIN Datagrams[d]} :
                   d \in DOMAIN Datagrams}

Rest(ic) == {[dg |-> ic.dg, copy |-> ic.copy, i |-> j] : j \in ic.off .. Len(Datagrams[ic.dg])}

\* Every place where a payload can be.
Held ==
    Range(IncomingPayloads) \cup (IF parser.pc = "select" THEN {} ELSE {parser.ic})
    \cup {UnprocessedPayloads[j].ic : j \in DOMAIN UnprocessedPayloads}
    \cup (UNION {Range(buffer.unprocessedPayloads[l]) : l \in Levels}) \cup Range(buffer.putBack)

Waiting == UNION {Rest(ic) : ic \in Held}

UnitsAhead(u) == {v \in AllUnits : v.dg = u.dg /\ v.copy = u.copy /\ v.i < u.i}
UnitsBehind(u) == {v \in AllUnits : v.dg = u.dg /\ v.copy = u.copy /\ v.i >= u.i}
UnitOpens(u, ks) == KeysNeeded(Datagrams[u.dg][u.i]) \subseteq ks
UnitBroken(u) == Datagrams[u.dg][u.i].broken

Promise == INSTANCE Decryption WITH
    Units <- AllUnits, Ahead <- UnitsAhead, Behind <- UnitsBehind, Opens <- UnitOpens,
    Broken <- UnitBroken, waiting <- Waiting, opened <- parsed, keys <- CryptoStates

\* No packet is lost between the ParsingAgent and the BufferAgent, and none is opened
\* twice, before its keys or before the packets in front of it.
PacketsOpenedOnce == Promise!Spec

\* Once the keys of a level are installed, no payload waits for them in a queue or a buffer
\* for ever, whichever of the payload and the announcement of the keys reaches the
\* BufferAgent first.
WaitsFor(l) == \E ic \in Held : KeysNeeded(Packet(ic)) = {l}

NothingLeftLying == \A l \in Levels : (l \in CryptoStates /\ WaitsFor(l)) ~> ~WaitsFor(l)
=============================================================================
