----------------------------- MODULE MCPackets -----------------------------
(* Packets with one or more frames of every type, with integers on both    *)
(* sides of the limits of the one-, two- and four-byte forms.              *)
EXTENDS Packets

Connection ==
    [SourceCID |-> <<9, 8, 7>>, DestinationCID |-> <<1, 2>>, OriginalDestinationCID |-> <<5>>,
     Version |-> <<255, 0, 0, 29>>, Token |-> <<4, 4>>, SpinBit |-> TRUE, KeyPhaseIndex |-> 1]

Ack(largest, delay, ranges) ==
    [type |-> "ACK", LargestAcknowledged |-> largest, AckDelay |-> delay,
     AckRangeCount |-> Len(ranges) - 1, AckRanges |-> ranges]
Range1(gap, range) == [Gap |-> gap, AckRange |-> range]
StreamFrame(id, offset, data, fin, len) ==
    [type |-> "STREAM", FinBit |-> fin, LenBit |-> len, OffBit |-> offset > 0, StreamId |-> id,
     Offset |-> offset, Length |-> Len(data), StreamData |-> data]
Crypto(offset, data) ==
    [type |-> "CRYPTO", Offset |-> offset, Length |-> Len(data), CryptoData |-> data]

Everywhere ==
    {Bare("PING"), Crypto(0, <<6, 0, 1>>), Crypto(16383, <<>>),
     Ack(0, 63, <<Range1(0, 0)>>), Ack(300, 64, <<Range1(0, 2), Range1(1, 63), Range1(64, 16384)>>),
     [type |-> "CONNECTION_CLOSE", ErrorCode |-> 10, ErrorFrameType |-> 6,
      ReasonPhraseLength |-> 2, ReasonPhrase |-> <<104, 105>>]}

InData ==
    {StreamFrame(0, 0, <<71, 69, 84>>, TRUE, TRUE), StreamFrame(4, 1073741823, <<>>, TRUE, TRUE),
     StreamFrame(64, 1073741824, <<8>>, FALSE, TRUE),
     [type |-> "RESET_STREAM", StreamId |-> 4, ApplicationErrorCode |-> 16384, FinalSize |-> 63],
     [type |-> "STOP_SENDING", StreamId |-> 64, ApplicationErrorCode |-> 0],
     [type |-> "NEW_TOKEN", Token |-> <<1, 2, 3>>],
     [type |-> "MAX_DATA", MaximumData |-> 16383],
     [type |-> "MAX_STREAM_DATA", StreamId |-> 0, MaximumStreamData |-> 80],
     [type |-> "MAX_STREAMS", StreamsType |-> "uni", MaximumStreams |-> 3],
     [type |-> "DATA_BLOCKED", DataLimit |-> 1073741824],
     [type |-> "STREAM_DATA_BLOCKED", StreamId |-> 3, StreamDataLimit |-> 64],
     [type |-> "STREAMS_BLOCKED", StreamsType |-> "bidi", StreamLimit |-> 1],
     [type |-> "NEW_CONNECTION_ID", Sequence |-> 1, RetirePriorTo |-> 0, Length |-> 2,
      ConnectionId |-> <<7, 7>>, StatelessResetToken |-> [i \in 1 .. 16 |-> i]],
     [type |-> "RETIRE_CONNECTION_ID", SequenceNumber |-> 0],
     [type |-> "PATH_CHALLENGE", Data |-> [i \in 1 .. 8 |-> 255]],
     [type |-> "PATH_RESPONSE", Data |-> [i \in 1 .. 8 |-> 0]],
     [type |-> "APPLICATION_CLOSE", ErrorCode |-> 5, ReasonPhraseLength |-> 0, ReasonPhrase |-> <<>>],
     Bare("HANDSHAKE_DONE")}

FramesOfType(t) == IF t \in {"Initial", "Handshake"} THEN Everywhere
                   ELSE IF t = "0RTT" THEN InData
                   ELSE Everywhere \cup InData \cup {StreamFrame(8, 5, <<1, 2, 3, 4, 5>>, TRUE, FALSE)}

Tag == [i \in 1 .. 16 |-> 16 - i]
ServerPackets ==
    {[type |-> "Retry", Version |-> <<255, 0, 0, 29>>, DestinationCID |-> <<9, 8, 7>>,
      SourceCID |-> <<3>>, RetryToken |-> t, RetryIntegrityTag |-> Tag] : t \in {<<1>>, <<1, 2, 3>>}}
    \cup
    {[type |-> "VersionNegotiation", Version |-> <<0, 0, 0, 0>>, DestinationCID |-> <<9, 8, 7>>,
      SourceCID |-> <<>>, SupportedVersions |-> v] :
        v \in {<<>>, <<<<255, 0, 0, 28>>, <<10, 10, 10, 10>>>>}}

EndpointParameters ==
    LET d == DefaultParameters(<<9, 8, 7>>)
    IN  {d, [d EXCEPT !.ints[14] = 1, !.ints[3] = 1200, !.ints[8] = 0,
                      !.AdditionalParameters = <<[ParameterType |-> 100, Value |-> <<1, 2>>]>>]}

PacketNumbers == 0 .. 2 \cup 254 .. 257 \cup {520}
=============================================================================
