------------------------------ MODULE Packets ------------------------------
(***************************************************************************)
(* Packets (headers.go, packets.go) on their way from one endpoint to      *)
(* another: a packet gets its number and its truncated number, is filled   *)
(* with frames up to the MTU, padded, given its length and sealed; the     *)
(* reader finds the number again from the largest it has seen and parses   *)
(* the frames.  Packets get lost, and the acknowledgements that shorten    *)
(* the truncated numbers arrive late.                                      *)
(*                                                                         *)
(* One type of packets per behaviour: the number spaces are independent.   *)
(* The AEAD is external: it adds Overhead bytes, and opening a packet      *)
(* gives back what was sealed.  Versions and connection IDs are bytes.     *)
(***************************************************************************)
EXTENDS Frames, TransportParameters

CONSTANTS
    Conn,            \* what headers take from the Connection: its IDs, Version, Token and bits
    Types,           \* the packet types that are built
    FramesFor(_),    \* the frames that are put in packets of a type
    MaxFrames,       \* how many frames the producers put in a packet
    StartNumbers,    \* the numbers that a space starts from, or is set to
    Parameters,      \* the transport parameters that an endpoint may have
    Cleartext,       \* the Version Negotiation and Retry packets that the server sends
    Numbers,         \* the packet numbers that are used
    MTU, InitialLength

Overhead == 16
LongTypes == <<"Initial", "0RTT", "Handshake", "Retry">>   \* types 0 to 3
IsLong(h) == h.PacketType # "1RTT"

ASSUME PacketsAssumption ==
    /\ Types \subseteq {"Initial", "0RTT", "Handshake", "1RTT"}
    /\ MaxFrames \in Nat /\ MTU \in Nat /\ InitialLength \in Nat
    /\ StartNumbers \subseteq Numbers /\ Numbers \subseteq Nat

VARIABLES
    kind,                     \* the type of the packets of this behaviour
    PacketNumber,             \* the next number
    LargestPNsAcknowledged,   \* the writer's view of what has arrived
    LargestPNsReceived,       \* the reader's
    packet,                   \* the packet being built: header, Frames, spaceLeft
    wire,                     \* the packet last sealed, until it is read or lost
    read,                     \* the packet last read
    recovery                  \* is there a RecoveryAgent, which takes the acknowledgements in

vars == <<kind, PacketNumber, LargestPNsAcknowledged, LargestPNsReceived, packet, wire, read, recovery>>

None == [none |-> TRUE]

-----------------------------------------------------------------------------
(* Headers.                                                                *)

NewVarInt(value) == [Value |-> value, Length |-> VarIntLen(value)]
UnsetVarInt == [Value |-> 0, Length |-> 0]

LongHeaderEncode(h) ==
    <<192 + 16 * (CHOOSE t \in 0 .. 3 : LongTypes[t + 1] = h.PacketType) + h.TruncatedPN.Length - 1>>
        \o h.Version
        \o <<Len(h.DestinationCID)>> \o h.DestinationCID
        \o <<Len(h.SourceCID)>> \o h.SourceCID
        \o (IF h.PacketType = "Initial" THEN EncodeVarInt(Len(h.Token)) \o h.Token ELSE <<>>)
        \o (IF h.PacketType # "Retry" THEN EncodeVarInt(h.Length.Value)
                                             \o EncodeTruncatedPN(h.TruncatedPN) ELSE <<>>)

\* Until Length has been set its own length counts as zero.
LongHeaderLength(h) ==
    7 + Len(h.DestinationCID) + Len(h.SourceCID) + h.Length.Length + h.TruncatedPN.Length
      + (IF h.PacketType = "Initial" THEN VarIntLen(Len(h.Token)) + Len(h.Token) ELSE 0)

\* A connection ID behind its length.
ReadConnectionID(b) == LET length == ReadBytes(b, 1) IN ReadBytes(length.rest, length.data[1])

ReadLongHeader(b, largestReceived) ==
    LET type    == LongTypes[((b[1] - 192) \div 16) + 1]
        version == ReadBytes(Tail(b), 4)
        dcid    == ReadConnectionID(version.rest)
        scid    == ReadConnectionID(dcid.rest)
        tokenLength == IF type = "Initial" THEN ReadVarIntValue(scid.rest)
                                           ELSE [Value |-> 0, rest |-> scid.rest]
        token   == ReadBytes(tokenLength.rest, tokenLength.Value)
        length  == ReadVarIntValue(token.rest)
        pn      == ReadTruncatedPN(length.rest, (b[1] % 4) + 1)
        common  == [PacketType |-> type, Version |-> version.data, DestinationCID |-> dcid.data,
                    SourceCID |-> scid.data, Token |-> token.data]
    IN  IF type = "Retry"
        THEN [h |-> [Length |-> UnsetVarInt, TruncatedPN |-> [Value |-> 0, Length |-> 0],
                     PacketNumber |-> 0] @@ common, rest |-> token.rest]
        ELSE [h |-> [Length |-> [Value |-> length.Value, Length |-> length.Length],
                     TruncatedPN |-> pn.pn,
                     PacketNumber |-> Join(pn.pn, largestReceived)] @@ common, rest |-> pn.rest]

ShortHeaderEncode(h) ==
    <<64 + (IF h.SpinBit THEN 32 ELSE 0) + (IF h.KeyPhase THEN 4 ELSE 0) + h.TruncatedPN.Length - 1>>
        \o h.DestinationCID \o EncodeTruncatedPN(h.TruncatedPN)

ShortHeaderLength(h) == 1 + Len(h.DestinationCID) + h.TruncatedPN.Length

\* The length of the connection ID is not on the wire: it is that of the reader's own.
ReadShortHeader(b, cidLength, largestReceived) ==
    LET dcid == ReadBytes(Tail(b), cidLength)
        pn   == ReadTruncatedPN(dcid.rest, (b[1] % 4) + 1)
    IN  [h |-> [PacketType |-> "1RTT", SpinBit |-> (b[1] \div 32) % 2 = 1,
                KeyPhase |-> (b[1] \div 4) % 2 = 1, DestinationCID |-> dcid.data,
                TruncatedPN |-> pn.pn, PacketNumber |-> Join(pn.pn, largestReceived)],
         rest |-> pn.rest]

ReadHeader(b, cidLength, largestReceived) ==
    IF b[1] >= 128 THEN ReadLongHeader(b, largestReceived)
                   ELSE ReadShortHeader(b, cidLength, largestReceived)

EncodeHeader(h) == IF IsLong(h) THEN LongHeaderEncode(h) ELSE ShortHeaderEncode(h)
HeaderLength(h) == IF IsLong(h) THEN LongHeaderLength(h) ELSE ShortHeaderLength(h)

\* The constructors take the next number and truncate it.
NewLongHeader(type, pn, largestAcknowledged) ==
    [PacketType |-> type, Version |-> Conn.Version, SourceCID |-> Conn.SourceCID,
     DestinationCID |-> IF type = "0RTT" THEN Conn.OriginalDestinationCID ELSE Conn.DestinationCID,
     Token |-> IF type = "Initial" THEN Conn.Token ELSE <<>>, Length |-> UnsetVarInt,
     PacketNumber |-> pn, TruncatedPN |-> Truncate(pn, largestAcknowledged)]

NewShortHeader(pn, largestAcknowledged) ==
    [PacketType |-> "1RTT", SpinBit |-> Conn.SpinBit, KeyPhase |-> Conn.KeyPhaseIndex % 2 = 1,
     DestinationCID |-> Conn.DestinationCID,
     PacketNumber |-> pn, TruncatedPN |-> Truncate(pn, largestAcknowledged)]

-----------------------------------------------------------------------------
(* Framers: records with a header and a sequence Frames.                   *)

EncodePayload(p) == FlattenSeq([i \in DOMAIN p.Frames |-> WriteTo(p.Frames[i])])
Encode(p) == EncodeHeader(p.header) \o EncodePayload(p)
AddFrame(p, f) == [p EXCEPT !.Frames = Append(@, f)]
PacketContains(p, type) == \E i \in DOMAIN p.Frames : p.Frames[i].type = type

WithLength(p, length) ==
    IF IsLong(p.header) THEN [p EXCEPT !.header.Length = NewVarInt(length)] ELSE p

\* PADDING frames are added one by one until the packet has the length, which a long
\* header's own length field may take one byte further.
PadTo(p, length) ==
    LET payload   == Len(EncodePayload(p))
        Padded(n) == WithLength([p EXCEPT !.Frames = @ \o [i \in 1 .. n |-> Bare("PADDING")]],
                                payload + n)
        LengthOf(n) == Len(EncodeHeader(Padded(n).header)) + payload + n
    IN  Padded(CHOOSE n \in 0 .. length : /\ LengthOf(n) >= length
                                          /\ \A m \in 0 .. n - 1 : LengthOf(m) < length)

ShouldBeAcknowledged(p) ==
    \E i \in DOMAIN p.Frames : p.Frames[i].type \notin
        {"ACK", "ACK_ECN", "PADDING", "CONNECTION_CLOSE", "APPLICATION_CLOSE"}

\* An Initial packet also keeps its padding if it carries CRYPTO.
GetRetransmittableFrames(p) ==
    LET keepPadding == p.header.PacketType = "Initial" /\ PacketContains(p, "CRYPTO")
    IN  SelectSeq(p.Frames, LAMBDA f : shouldBeRetransmitted(f) \/ (keepPadding /\ f.type = "PADDING"))

\* The loop of ReadInitialPacket, ReadHandshakePacket and ReadProtectedPacket.
RECURSIVE ReadFrames(_, _)
ReadFrames(frames, b) ==
    LET After(r) == IF r.frame.type \in {"none", "unknown"}
                    THEN [Frames |-> frames, panics |-> r.frame.type = "unknown"]
                    ELSE ReadFrames(Append(frames, r.frame), r.rest)
    IN  After(NewFrame(b))
ReadPacket(b, largestReceived) ==
    LET r == ReadHeader(b, Len(Conn.DestinationCID), largestReceived)
    IN  [header |-> r.h] @@ ReadFrames(<<>>, r.rest)

-----------------------------------------------------------------------------
(* EncodeAndEncrypt.  The sample for header protection starts four bytes   *)
(* after the packet number starts; a packet that is too short for it is    *)
(* padded and encoded again.                                               *)

SealedLength(p) == Len(Encode(p)) + Overhead

PNOffset(h) == IF IsLong(h) THEN HeaderLength(h) - h.TruncatedPN.Length ELSE 1 + Len(h.DestinationCID)

\* GetPacketSample
HasSample(p) == PNOffset(p.header) + 4 + 16 <= SealedLength(p)

PaddedSize(h) == PNOffset(h) + 4

RECURSIVE EncodeAndEncrypt(_, _)
EncodeAndEncrypt(p, rounds) ==
    LET q == WithLength(p, p.header.TruncatedPN.Length + Len(EncodePayload(p)) + Overhead)
    IN  IF HasSample(q) \/ rounds = 3
        THEN [packet |-> q, rounds |-> rounds]
        ELSE EncodeAndEncrypt(PadTo(q, PaddedSize(q.header)), rounds + 1)

-----------------------------------------------------------------------------
(* The packets that are not framers, as servers send them.                 *)

VersionNegotiationBytes(p) ==
    <<128>> \o p.Version \o <<Len(p.DestinationCID)>> \o p.DestinationCID
        \o <<Len(p.SourceCID)>> \o p.SourceCID \o FlattenSeq(p.SupportedVersions)

\* Four bytes make a version; a shorter rest is dropped.
ReadVersionNegotationPacket(b) ==
    LET version == ReadBytes(Tail(b), 4)
        dcid    == ReadConnectionID(version.rest)
        scid    == ReadConnectionID(dcid.rest)
    IN  [type |-> "VersionNegotiation", Version |-> version.data, DestinationCID |-> dcid.data,
         SourceCID |-> scid.data,
         SupportedVersions |-> [i \in 1 .. Len(scid.rest) \div 4 |->
                                   SubSeq(scid.rest, 4 * i - 3, 4 * i)]]

RetryBytes(p) ==
    <<240>> \o p.Version \o <<Len(p.DestinationCID)>> \o p.DestinationCID
        \o <<Len(p.SourceCID)>> \o p.SourceCID \o p.RetryToken \o p.RetryIntegrityTag

ReadRetryPacket(b) ==
    LET r     == ReadLongHeader(b, 0)
        token == ReadBytes(r.rest, Len(r.rest) - 16)
    IN  [type |-> "Retry", Version |-> r.h.Version, DestinationCID |-> r.h.DestinationCID,
         SourceCID |-> r.h.SourceCID, RetryToken |-> token.data, RetryIntegrityTag |-> token.rest]

-----------------------------------------------------------------------------
Init ==
    /\ kind \in Types
    /\ recovery \in BOOLEAN
    /\ PacketNumber \in StartNumbers    \* all packets before have arrived
    /\ LargestPNsReceived = IF PacketNumber = 0 THEN 0 ELSE PacketNumber - 1
    /\ LargestPNsAcknowledged = IF recovery THEN LargestPNsReceived ELSE 0
    /\ packet = None /\ wire = None /\ read = None

\* The adapter, which has no RecoveryAgent, gives the space the number that the learner asks for.
SetPacketNumber(n) ==
    /\ packet = None /\ wire = None /\ ~recovery
    /\ PacketNumber' = n
    /\ UNCHANGED <<kind, LargestPNsAcknowledged, LargestPNsReceived, packet, wire, read, recovery>>

\* A packet is created, with the room that fillPacket computes for its frames.
NewPacket ==
    /\ packet = None /\ wire = None /\ PacketNumber \in Numbers
    /\ PacketNumber' = PacketNumber + 1
    /\ LET h == IF kind = "1RTT" THEN NewShortHeader(PacketNumber, LargestPNsAcknowledged)
                ELSE NewLongHeader(kind, PacketNumber, LargestPNsAcknowledged)
       IN  packet' = [header |-> h, Frames |-> <<>>, spaceLeft |-> MTU - HeaderLength(h) - Overhead]
    /\ read' = None
    /\ UNCHANGED <<kind, LargestPNsAcknowledged, LargestPNsReceived, wire, recovery>>

\* A producer answers with a frame of at most the space that is left.  A STREAM frame
\* without a length reaches to the end of the packet.
Fill(f) ==
    /\ packet # None /\ Len(packet.Frames) < MaxFrames
    /\ \A i \in DOMAIN packet.Frames : packet.Frames[i].type = "STREAM" => packet.Frames[i].LenBit
    /\ packet.spaceLeft >= 1 /\ FrameLength(f) <= packet.spaceLeft
    /\ packet' = [AddFrame(packet, f) EXCEPT !.spaceLeft = @ - FrameLength(f)]
    /\ UNCHANGED <<kind, PacketNumber, LargestPNsAcknowledged, LargestPNsReceived, wire, read, recovery>>

InitialPadLength == InitialLength - Overhead

\* Initial packets are padded first.
Send ==
    /\ packet # None /\ packet.Frames # <<>>
    /\ LET p == IF kind = "Initial" THEN PadTo(packet, InitialPadLength) ELSE packet
       IN  wire' = [built |-> packet.Frames] @@ EncodeAndEncrypt(p, 0)
    /\ packet' = None
    /\ UNCHANGED <<kind, PacketNumber, LargestPNsAcknowledged, LargestPNsReceived, read, recovery>>

\* The packet can be opened only under its own number.
Opened(p) ==
    IF p.header.PacketNumber = wire.packet.header.PacketNumber
    THEN /\ read' = [sent |-> wire.packet, got |-> p]
         /\ LargestPNsReceived' = IF p.header.PacketNumber > LargestPNsReceived
                                  THEN p.header.PacketNumber ELSE LargestPNsReceived
    ELSE read' = None /\ UNCHANGED LargestPNsReceived

Receive ==
    /\ wire # None
    /\ Opened(ReadPacket(Encode(wire.packet), LargestPNsReceived))
    /\ wire' = None
    /\ UNCHANGED <<kind, PacketNumber, LargestPNsAcknowledged, packet, recovery>>

Lose ==
    /\ wire # None /\ wire' = None
    /\ UNCHANGED <<kind, PacketNumber, LargestPNsAcknowledged, LargestPNsReceived, packet, read, recovery>>

\* An ACK of all that was received reaches the RecoveryAgent.
Acknowledge ==
    /\ recovery /\ packet = None
    /\ LargestPNsReceived > LargestPNsAcknowledged
    /\ LargestPNsAcknowledged' = LargestPNsReceived
    /\ UNCHANGED <<kind, PacketNumber, LargestPNsReceived, packet, wire, read, recovery>>

\* A cleartext packet of the server is read.
ReceiveCleartext(p) ==
    /\ packet = None /\ wire = None
    /\ read' = [sent |-> p, got |-> IF p.type = "Retry" THEN ReadRetryPacket(RetryBytes(p))
                                    ELSE ReadVersionNegotationPacket(VersionNegotiationBytes(p))]
    /\ UNCHANGED <<kind, PacketNumber, LargestPNsAcknowledged, LargestPNsReceived, packet, wire, recovery>>

\* The first handshake packets have carried the first n bytes of an endpoint's parameters.
ReceiveParameters(p, n) ==
    /\ kind = "Handshake" /\ PacketNumber = 0
    /\ packet = None /\ wire = None /\ read = None
    /\ LET sent == GetExtensionData(p)
       IN  /\ n <= Len(sent)
           /\ read' = [sent |-> p, whole |-> n = Len(sent),
                       got |-> ReceiveExtensionData(NoParameters, SubSeq(sent, 1, n))]
    /\ UNCHANGED <<kind, PacketNumber, LargestPNsAcknowledged, LargestPNsReceived, packet, wire, recovery>>

Next ==
    \/ \E n \in StartNumbers : SetPacketNumber(n)
    \/ NewPacket
    \/ \E f \in FramesFor(kind) : Fill(f)
    \/ Send \/ Receive \/ Lose \/ Acknowledge
    \/ \E p \in Cleartext : ReceiveCleartext(p)
    \/ \E p \in Parameters, n \in 0 .. 60 : ReceiveParameters(p, n)

Spec == Init /\ [][Next]_vars

-----------------------------------------------------------------------------
TypeOK ==
    /\ kind \in Types /\ recovery \in BOOLEAN
    /\ {PacketNumber, LargestPNsAcknowledged, LargestPNsReceived} \subseteq Nat
    /\ packet # None => packet.Frames \in Seq(FramesFor(kind)) /\ packet.spaceLeft \in Nat
    /\ wire # None => Encode(wire.packet) \in Seq(Byte)

\* What the readers make of a frame: MAX_STREAMS and STREAMS_BLOCKED lose their direction.
AsRead(f) == IF f.type \in {"MAX_STREAMS", "STREAMS_BLOCKED"}
             THEN [f EXCEPT !.StreamsType = "bidi"] ELSE f

\* A packet that is read back has the header and the frames that were sent, in order, and
\* after them nothing but the padding that PadTo added: WriteTo and the readers of
\* frames.go agree on every frame, next to every other, at every length of its integers.
\* And if the writer keeps frames of it for retransmission, the reader will acknowledge it.
PacketSurvives ==
    read # None /\ "header" \in DOMAIN read.got =>
        /\ ~read.got.panics
        /\ read.got.header = read.sent.header
        /\ read.got.Frames = [i \in DOMAIN read.sent.Frames |-> AsRead(read.sent.Frames[i])]
        /\ GetRetransmittableFrames(read.sent) # <<>> => ShouldBeAcknowledged(read.got)

\* A Retry or Version Negotiation packet is read as the server wrote it: the whole token,
\* every version.
CleartextSurvives == read # None /\ "type" \in DOMAIN read.got => read.got = read.sent

\* Transport parameters arrive as they were announced, or an error is reported and none are
\* set; a blob that ends early is never taken for one with other values.  What is received
\* is what the endpoint has, but for the parameters it does not announce.
ParametersSurvive ==
    read # None /\ "err" \in DOMAIN read.got =>
        LET received == read.got.ReceivedParameters
        IN  /\ read.whole => /\ ~read.got.err
                             /\ received.bytes[15] = read.sent.bytes[15]
                             /\ received.AdditionalParameters = read.sent.AdditionalParameters
                             /\ \A t \in {1, 3, 4, 5, 7, 8, 9} : received.ints[t] = read.sent.ints[t]
            /\ \A t \in IntegerTypes : received.ints[t] \in {0, read.sent.ints[t]}
            /\ received.AdditionalParameters # <<>> => read.whole

\* What is written is read: packets, the server's cleartext packets, transport parameters.
ReadAsWritten == PacketSurvives /\ CleartextSurvives /\ ParametersSurvive

\* The sizes that the builders count on are those on the wire.  A packet too short for the
\* header protection sample is padded once and then is long enough (EncodeAndEncrypt calls
\* itself at most once).  A packet that is filled as far as fillPacket's count of
\* FrameLength, HeaderLength and overhead allows stays within the MTU, but for the length
\* field of a long header, which is not set yet when HeaderLength counts it.  An Initial
\* packet is padded to the minimum length, and at most one byte over it: PadTo counts a
\* length field that may be shorter than the final one.
SizesAreKept ==
    wire # None =>
        LET length == SealedLength(wire.packet)
        IN  /\ wire.rounds <= 1 /\ HasSample(wire.packet)
            /\ kind = "1RTT" => length <= MTU
            /\ kind \in {"0RTT", "Handshake"} => length <= MTU + wire.packet.header.Length.Length
            /\ kind = "Initial" /\ wire.packet.Frames # wire.built => length \in InitialLength .. InitialLength + 1

\* Truncate is never called with a number below the largest acknowledged, where it panics;
\* and the number read from a new packet is the one sent, unless a multiple of 256^Length
\* lies between it and the largest number received: then it is one window too low, and the
\* packet is dropped (Truncate, Join).
NumberWithinOneWindow ==
    /\ ~TruncatePanics(PacketNumber, LargestPNsAcknowledged)
    /\ wire # None /\ wire.packet.header.PacketNumber >= LargestPNsReceived =>
          LET h      == wire.packet.header
              window == 256 ^ h.TruncatedPN.Length
              found  == Join(h.TruncatedPN, LargestPNsReceived)
          IN  /\ found \in {h.PacketNumber, h.PacketNumber - window}
              /\ found = h.PacketNumber <=> h.PacketNumber \div window = LargestPNsReceived \div window
=============================================================================
