------------------------------- MODULE Frames -------------------------------
(***************************************************************************)
(* The wire format of the QUIC frames (frames.go).  A frame is a record of *)
(* its fields under the names of the source, plus its type.  For each type *)
(* there is the writer, the length that the packet builder counts on, and  *)
(* the reader; a reader takes the buffer from the type byte on and returns *)
(* the frame and the rest of the buffer.                                   *)
(*                                                                         *)
(* What a reader does with the data besides (addToRead) is in Streams.     *)
(***************************************************************************)
EXTENDS VarInts, TLC

\* A reader's result.
Got(f, b) == [frame |-> f, rest |-> b]
\* The type is read again, and discarded, before the integers that have the given names.
Named(names, values) == [n \in ToSet(names) |-> values[CHOOSE i \in DOMAIN names : names[i] = n]]
GotNamed(names, r) == Got(Named(names, Tail(r.values)), r.rest)
Fields(b, names) == GotNamed(names, ReadVarIntValues(b, Len(names) + 1))
\* More fields after those that r holds: integers, and n bytes.
AndFields(r, f) == Got(r.frame @@ f.frame, f.rest)
AndInts(r, names) ==
    AndFields(r, LET v == ReadVarIntValues(r.rest, Len(names)) IN Got(Named(names, v.values), v.rest))
AndBytes(r, name, n) ==
    AndFields(r, LET d == ReadBytes(r.rest, n) IN Got(name :> d.data, d.rest))
\* The type that the reader gives to the frame it has read.
Typed(t, r) == Got([type |-> t] @@ r.frame, r.rest)

\* The frames that are their type and nothing else.
Bare(t) == [type |-> t]
PaddingFrameWriteTo(f) == EncodeVarInt(0)
NewPaddingFrame(b) == Typed("PADDING", Fields(b, <<>>))
PingFrameWriteTo(f) == EncodeVarInt(1)
NewPingFrame(b) == Typed("PING", Fields(b, <<>>))
HandshakeDoneFrameWriteTo(f) == EncodeVarInt(30)
NewHandshakeDoneFrame(b) == Typed("HANDSHAKE_DONE", Fields(b, <<>>))

-----------------------------------------------------------------------------
(* ACK: AckRanges[1] has no gap; the count is the number of ranges after it. *)

AckRangeInts(f) == Tail(FlattenSeq([i \in DOMAIN f.AckRanges |->
                                       <<f.AckRanges[i].Gap, f.AckRanges[i].AckRange>>]))

AckInts(f) == <<f.LargestAcknowledged, f.AckDelay, f.AckRangeCount>> \o AckRangeInts(f)

AckFrameWriteTo(f) == EncodeVarInt(2) \o EncodeVarInts(AckInts(f))

AckFrameLength(f) == 1 + VarIntLens(AckInts(f))

\* The ranges after the first, whose length is already in the frame.
AckRangesOf(first, values) ==
    <<[Gap |-> 0, AckRange |-> first]>> \o
        [i \in 1 .. Len(values) \div 2 |-> [Gap |-> values[2 * i - 1], AckRange |-> values[2 * i]]]
AndAckRanges(head, r) ==
    Got([LargestAcknowledged |-> head.LargestAcknowledged, AckDelay |-> head.AckDelay,
         AckRangeCount |-> head.AckRangeCount, AckRanges |-> AckRangesOf(head.AckRange, r.values)],
        r.rest)
ReadAckRanges(head, count) == AndAckRanges(head.frame, ReadVarIntValues(head.rest, 2 * count))
AckHead == <<"LargestAcknowledged", "AckDelay", "AckRangeCount", "AckRange">>
\* Mutant: one range fewer is read.
ReadAckFrameShort(b) ==
    LET head == Fields(b, AckHead)
    IN  Typed("ACK", ReadAckRanges(head, IF head.frame.AckRangeCount = 0 THEN 0
                                         ELSE head.frame.AckRangeCount - 1))
ReadAckFrame(b) ==
    LET head == Fields(b, AckHead) IN Typed("ACK", ReadAckRanges(head, head.frame.AckRangeCount))

\* The embedded AckFrame writes its own type, 2 and not 3.
AckECNInts(f) == <<f.ECT0Count, f.ECT1Count, f.ECTCECount>>
AckECNFrameWriteTo(f) == AckFrameWriteTo(f) \o EncodeVarInts(AckECNInts(f))
AckECNFrameLength(f) == AckFrameLength(f) + VarIntLens(AckECNInts(f))
ReadAckECNFrame(b) ==
    Typed("ACK_ECN", AndInts(ReadAckFrame(b), <<"ECT0Count", "ECT1Count", "ECTCECount">>))

-----------------------------------------------------------------------------
(* Frames of one to three integers.                                        *)

ResetStreamInts(f) == <<f.StreamId, f.ApplicationErrorCode, f.FinalSize>>
ResetStreamWriteTo(f) == EncodeVarInt(4) \o EncodeVarInts(ResetStreamInts(f))
ResetStreamLength(f) == 1 + VarIntLens(ResetStreamInts(f))
NewResetStream(b) == Typed("RESET_STREAM", Fields(b, <<"StreamId", "ApplicationErrorCode", "FinalSize">>))

StopSendingInts(f) == <<f.StreamId, f.ApplicationErrorCode>>
StopSendingFrameWriteTo(f) == EncodeVarInt(5) \o EncodeVarInts(StopSendingInts(f))
StopSendingFrameLength(f) == 1 + VarIntLens(StopSendingInts(f))
NewStopSendingFrame(b) == Typed("STOP_SENDING", Fields(b, <<"StreamId", "ApplicationErrorCode">>))

MaxDataFrameWriteTo(f) == EncodeVarInts(<<16, f.MaximumData>>)
MaxDataFrameLength(f) == 1 + VarIntLens(<<f.MaximumData>>)
NewMaxDataFrame(b) == Typed("MAX_DATA", Fields(b, <<"MaximumData">>))

MaxStreamDataFrameWriteTo(f) == EncodeVarInts(<<17, f.StreamId, f.MaximumStreamData>>)
MaxStreamDataFrameLength(f) == 1 + VarIntLens(<<f.StreamId, f.MaximumStreamData>>)
NewMaxStreamDataFrame(b) == Typed("MAX_STREAM_DATA", Fields(b, <<"StreamId", "MaximumStreamData">>))

\* The readers leave StreamsType at its zero value, bidirectional, whatever the type says.
Bidirectional(r) == Got([StreamsType |-> "bidi"] @@ r.frame, r.rest)
MaxStreamsFrameWriteTo(f) ==
    EncodeVarInts(<<IF f.StreamsType = "bidi" THEN 18 ELSE 19, f.MaximumStreams>>)
MaxStreamsFrameLength(f) == 1 + VarIntLen(f.MaximumStreams)
NewMaxStreamIdFrame(b) == Typed("MAX_STREAMS", Bidirectional(Fields(b, <<"MaximumStreams">>)))

DataBlockedFrameWriteTo(f) == EncodeVarInts(<<20, f.DataLimit>>)
DataBlockedFrameLength(f) == 1 + VarIntLens(<<f.DataLimit>>)
NewBlockedFrame(b) == Typed("DATA_BLOCKED", Fields(b, <<"DataLimit">>))

StreamDataBlockedFrameWriteTo(f) == EncodeVarInts(<<21, f.StreamId, f.StreamDataLimit>>)
StreamDataBlockedFrameLength(f) == 1 + VarIntLens(<<f.StreamId, f.StreamDataLimit>>)
NewStreamBlockedFrame(b) == Typed("STREAM_DATA_BLOCKED", Fields(b, <<"StreamId", "StreamDataLimit">>))

StreamsBlockedFrameWriteTo(f) ==
    EncodeVarInts(<<IF f.StreamsType = "bidi" THEN 22 ELSE 23, f.StreamLimit>>)
StreamsBlockedFrameLength(f) == 1 + VarIntLen(f.StreamLimit)
NewStreamIdNeededFrame(b) == Typed("STREAMS_BLOCKED", Bidirectional(Fields(b, <<"StreamLimit">>)))

RetireConnectionIdWriteTo(f) == EncodeVarInts(<<25, f.SequenceNumber>>)
RetireConnectionIdLength(f) == 1 + VarIntLens(<<f.SequenceNumber>>)
ReadRetireConnectionId(b) == Typed("RETIRE_CONNECTION_ID", Fields(b, <<"SequenceNumber">>))

-----------------------------------------------------------------------------
(* Frames that carry bytes.                                                *)

CryptoFrameWriteTo(f) == EncodeVarInts(<<6, f.Offset, f.Length>>) \o f.CryptoData
CryptoFrameLength(f) == 1 + VarIntLens(<<f.Offset, f.Length>>) + Len(f.CryptoData)
ReadCryptoFrame(b) ==
    LET r == Fields(b, <<"Offset", "Length">>)
    IN  Typed("CRYPTO", AndBytes(r, "CryptoData", r.frame.Length))

NewTokenFrameWriteTo(f) == EncodeVarInts(<<7, Len(f.Token)>>) \o f.Token
NewTokenFrameLength(f) == 1 + VarIntLen(Len(f.Token)) + Len(f.Token)
ReadToken(r) == AndBytes(Got(<<>>, r.rest), "Token", r.frame.Length)
ReadNewTokenFrame(b) == Typed("NEW_TOKEN", ReadToken(Fields(b, <<"Length">>)))

\* The offset and the length of a STREAM frame are optional.
StreamInts(f) == <<f.StreamId>> \o (IF f.OffBit THEN <<f.Offset>> ELSE <<>>)
                                \o (IF f.LenBit THEN <<f.Length>> ELSE <<>>)
StreamTypeByte(f) == 8 + (IF f.FinBit THEN 1 ELSE 0) + (IF f.LenBit THEN 2 ELSE 0)
                       + (IF f.OffBit THEN 4 ELSE 0)
StreamFrameWriteTo(f) ==
    EncodeVarInt(StreamTypeByte(f)) \o EncodeVarInts(StreamInts(f)) \o f.StreamData
\* Mutant: the optional offset is not counted.
StreamFrameLengthNoOffset(f) ==
    1 + VarIntLens(<<f.StreamId>>) + (IF f.LenBit THEN VarIntLen(f.Length) ELSE 0) + Len(f.StreamData)
StreamFrameLength(f) == 1 + VarIntLens(StreamInts(f)) + Len(f.StreamData)
\* Without a length the data is all that is left of the packet.
StreamFields(t) == [FinBit |-> t % 2 = 1, LenBit |-> (t \div 2) % 2 = 1, OffBit |-> (t \div 4) % 2 = 1]
OptionalOffset(r) ==
    IF r.frame.OffBit THEN AndInts(r, <<"Offset">>) ELSE Got([Offset |-> 0] @@ r.frame, r.rest)
OptionalLength(r) ==
    IF r.frame.LenBit THEN AndInts(r, <<"Length">>) ELSE Got([Length |-> Len(r.rest)] @@ r.frame, r.rest)
AllData(r) == AndBytes(r, "StreamData", r.frame.Length)
ReadStreamFrame(b) ==
    LET r == AndInts(Got(StreamFields(b[1]), Tail(b)), <<"StreamId">>)
    IN  Typed("STREAM", AllData(OptionalLength(OptionalOffset(r))))

NewConnectionIdFrameWriteTo(f) ==
    EncodeVarInts(<<24, f.Sequence, f.RetirePriorTo>>) \o <<f.Length>> \o f.ConnectionId
        \o f.StatelessResetToken
NewConnectionIdFrameLength(f) ==
    1 + VarIntLens(<<f.Sequence, f.RetirePriorTo>>) + 1 + Len(f.ConnectionId) + 16
ReadLength(r) == Got([Length |-> r.rest[1]] @@ r.frame, Tail(r.rest))
ReadIdAndToken(r) ==
    AndBytes(AndBytes(r, "ConnectionId", r.frame.Length), "StatelessResetToken", 16)
NewNewConnectionIdFrame(b) ==
    LET r == Fields(b, <<"Sequence", "RetirePriorTo">>)
    IN  Typed("NEW_CONNECTION_ID", ReadIdAndToken(ReadLength(r)))

PathChallengeWriteTo(f) == EncodeVarInt(26) \o f.Data
ReadPathChallenge(b) == Typed("PATH_CHALLENGE", AndBytes(Fields(b, <<>>), "Data", 8))
PathResponseWriteTo(f) == EncodeVarInt(27) \o f.Data
ReadPathResponse(b) == Typed("PATH_RESPONSE", AndBytes(Fields(b, <<>>), "Data", 8))

ConnectionCloseInts(f) == <<f.ErrorCode, f.ErrorFrameType, f.ReasonPhraseLength>>
ConnectionCloseFrameWriteTo(f) ==
    EncodeVarInt(28) \o EncodeVarInts(ConnectionCloseInts(f)) \o f.ReasonPhrase
ConnectionCloseFrameLength(f) == 1 + VarIntLens(ConnectionCloseInts(f)) + f.ReasonPhraseLength
ReadReason(r) == AndBytes(r, "ReasonPhrase", r.frame.ReasonPhraseLength)
NewConnectionCloseFrame(b) ==
    LET r == Fields(b, <<"ErrorCode", "ErrorFrameType", "ReasonPhraseLength">>)
    IN  Typed("CONNECTION_CLOSE", ReadReason(r))

\* The error code is written as an integer and counted as two bytes.
ApplicationCloseFrameWriteTo(f) ==
    EncodeVarInts(<<29, f.ErrorCode, f.ReasonPhraseLength>>) \o f.ReasonPhrase
ApplicationCloseFrameLength(f) == 1 + 2 + VarIntLen(f.ReasonPhraseLength) + f.ReasonPhraseLength
NewApplicationCloseFrame(b) ==
    LET r == Fields(b, <<"ErrorCode", "ReasonPhraseLength">>)
    IN  Typed("APPLICATION_CLOSE", ReadReason(r))


-----------------------------------------------------------------------------
(* The Frame interface.                                                    *)

WriteTo(f) ==
    CASE f.type = "PADDING" -> PaddingFrameWriteTo(f)
      [] f.type = "PING" -> PingFrameWriteTo(f)
      [] f.type = "ACK" -> AckFrameWriteTo(f)
      [] f.type = "ACK_ECN" -> AckECNFrameWriteTo(f)
      [] f.type = "RESET_STREAM" -> ResetStreamWriteTo(f)
      [] f.type = "STOP_SENDING" -> StopSendingFrameWriteTo(f)
      [] f.type = "CRYPTO" -> CryptoFrameWriteTo(f)
      [] f.type = "NEW_TOKEN" -> NewTokenFrameWriteTo(f)
      [] f.type = "STREAM" -> StreamFrameWriteTo(f)
      [] f.type = "MAX_DATA" -> MaxDataFrameWriteTo(f)
      [] f.type = "MAX_STREAM_DATA" -> MaxStreamDataFrameWriteTo(f)
      [] f.type = "MAX_STREAMS" -> MaxStreamsFrameWriteTo(f)
      [] f.type = "DATA_BLOCKED" -> DataBlockedFrameWriteTo(f)
      [] f.type = "STREAM_DATA_BLOCKED" -> StreamDataBlockedFrameWriteTo(f)
      [] f.type = "STREAMS_BLOCKED" -> StreamsBlockedFrameWriteTo(f)
      [] f.type = "NEW_CONNECTION_ID" -> NewConnectionIdFrameWriteTo(f)
      [] f.type = "RETIRE_CONNECTION_ID" -> RetireConnectionIdWriteTo(f)
      [] f.type = "PATH_CHALLENGE" -> PathChallengeWriteTo(f)
      [] f.type = "PATH_RESPONSE" -> PathResponseWriteTo(f)
      [] f.type = "CONNECTION_CLOSE" -> ConnectionCloseFrameWriteTo(f)
      [] f.type = "APPLICATION_CLOSE" -> ApplicationCloseFrameWriteTo(f)
      [] f.type = "HANDSHAKE_DONE" -> HandshakeDoneFrameWriteTo(f)

FrameLength(f) ==
    CASE f.type \in {"PADDING", "PING", "HANDSHAKE_DONE"} -> 1
      [] f.type \in {"PATH_CHALLENGE", "PATH_RESPONSE"} -> 1 + 8
      [] f.type = "ACK" -> AckFrameLength(f)
      [] f.type = "ACK_ECN" -> AckECNFrameLength(f)
      [] f.type = "RESET_STREAM" -> ResetStreamLength(f)
      [] f.type = "STOP_SENDING" -> StopSendingFrameLength(f)
      [] f.type = "CRYPTO" -> CryptoFrameLength(f)
      [] f.type = "NEW_TOKEN" -> NewTokenFrameLength(f)
      [] f.type = "STREAM" -> StreamFrameLength(f)
      [] f.type = "MAX_DATA" -> MaxDataFrameLength(f)
      [] f.type = "MAX_STREAM_DATA" -> MaxStreamDataFrameLength(f)
      [] f.type = "MAX_STREAMS" -> MaxStreamsFrameLength(f)
      [] f.type = "DATA_BLOCKED" -> DataBlockedFrameLength(f)
      [] f.type = "STREAM_DATA_BLOCKED" -> StreamDataBlockedFrameLength(f)
      [] f.type = "STREAMS_BLOCKED" -> StreamsBlockedFrameLength(f)
      [] f.type = "NEW_CONNECTION_ID" -> NewConnectionIdFrameLength(f)
      [] f.type = "RETIRE_CONNECTION_ID" -> RetireConnectionIdLength(f)
      [] f.type = "CONNECTION_CLOSE" -> ConnectionCloseFrameLength(f)
      [] f.type = "APPLICATION_CLOSE" -> ApplicationCloseFrameLength(f)

shouldBeRetransmitted(f) ==
    f.type \in {"RESET_STREAM", "STOP_SENDING", "CRYPTO", "NEW_TOKEN", "STREAM", "MAX_DATA",
                "MAX_STREAM_DATA", "MAX_STREAMS", "NEW_CONNECTION_ID", "RETIRE_CONNECTION_ID",
                "PATH_CHALLENGE", "HANDSHAKE_DONE"}

\* STREAM has the types 8 to 15, MAX_STREAMS and STREAMS_BLOCKED have two each.
NewFrameFromType(t, b) ==
    CASE t = 0 -> NewPaddingFrame(b)
      [] t = 1 -> NewPingFrame(b)
      [] t = 2 -> ReadAckFrame(b)
      [] t = 3 -> ReadAckECNFrame(b)
      [] t = 4 -> NewResetStream(b)
      [] t = 5 -> NewStopSendingFrame(b)
      [] t = 6 -> ReadCryptoFrame(b)
      [] t = 7 -> ReadNewTokenFrame(b)
      [] t \in 8 .. 15 -> ReadStreamFrame(b)
      [] t = 16 -> NewMaxDataFrame(b)
      [] t = 17 -> NewMaxStreamDataFrame(b)
      [] t \in {18, 19} -> NewMaxStreamIdFrame(b)
      [] t = 20 -> NewBlockedFrame(b)
      [] t = 21 -> NewStreamBlockedFrame(b)
      [] t \in {22, 23} -> NewStreamIdNeededFrame(b)
      [] t = 24 -> NewNewConnectionIdFrame(b)
      [] t = 25 -> ReadRetireConnectionId(b)
      [] t = 26 -> ReadPathChallenge(b)
      [] t = 27 -> ReadPathResponse(b)
      [] t = 28 -> NewConnectionCloseFrame(b)
      [] t = 29 -> NewApplicationCloseFrame(b)
      [] t = 30 -> NewHandshakeDoneFrame(b)
      [] OTHER -> Got(Bare("unknown"), <<>>)

\* The type is read, unread and given to the reader again; at the end of the buffer there
\* is no frame.
NewFrame(b) ==
    LET t == ReadVarIntValue(b)
    IN  IF t.err THEN Got(Bare("none"), <<>>) ELSE NewFrameFromType(t.Value, b)
=============================================================================
