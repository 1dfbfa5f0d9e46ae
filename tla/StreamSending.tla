---------------------------- MODULE StreamSending ----------------------------
(***************************************************************************)
(* The writing half of the streams: the StreamAgent                        *)
(* (agents/stream_agent.go) and the Send, Close, Reset and StopSending     *)
(* requests of streams.go it serves.  A request is a record of the input   *)
(* channel; a frame is handed over either to a packet the SendingAgent is  *)
(* filling or, through the frame queue, to the FrameQueueAgent: `sent` is  *)
(* the set of the frames handed over by either way.                        *)
(*                                                                         *)
(* streamBuffers holds the empty sequence for a stream that has no entry.  *)
(***************************************************************************)
EXTENDS VarInts

CONSTANT StreamIds      \* the streams that are written to

VARIABLES input, streamBuffers, streamClosing, WriteOffset, WriteClosed, WriteCloseOffset,
          DisableFrameSending, StreamQueue, streams, sent,
          written,      \* history: the bytes accepted by send, in order
          taken,        \* history: the requests served, in order
          cut           \* history: the streams whose buffer did not fit in a packet

sendingVars == <<input, streamBuffers, streamClosing, WriteOffset, WriteClosed, WriteCloseOffset,
                 DisableFrameSending, StreamQueue, streams, sent, written, taken, cut>>

IsBidi(streamId)   == (streamId \div 2) % 2 = 0
IsUni(streamId)    == ~IsBidi(streamId)
IsClient(streamId) == streamId % 2 = 0
IsServer(streamId) == ~IsClient(streamId)

\* The requests of streams.go.
Send(streamId, data, close) == [op |-> "send", StreamId |-> streamId, Data |-> data, Close |-> close]
Close(streamId)       == [op |-> "close", StreamId |-> streamId]
Reset(streamId)       == [op |-> "reset", StreamId |-> streamId]
StopSending(streamId) == [op |-> "stop", StreamId |-> streamId]

StreamFrame(streamId, offset, data, fin) ==
    [type |-> "STREAM", StreamId |-> streamId, Offset |-> offset, StreamData |-> data, FinBit |-> fin]
ResetStream(streamId, finalSize) == [type |-> "RESET_STREAM", StreamId |-> streamId, FinalSize |-> finalSize]
StopSendingFrame(streamId) == [type |-> "STOP_SENDING", StreamId |-> streamId]

FrameRequests == [FrameType : {"STREAM", "RESET_STREAM", "STOP_SENDING"}, EncryptionLevel : {"1RTT", "BestAppData"}]

SendingInit(requests, disable) ==
    /\ input = requests
    /\ streamBuffers = [s \in StreamIds |-> <<>>]
    /\ streamClosing = {}
    /\ WriteOffset = [s \in StreamIds |-> 0]
    /\ WriteClosed = [s \in StreamIds |-> FALSE]
    /\ WriteCloseOffset = [s \in StreamIds |-> 0]
    /\ DisableFrameSending = disable
    /\ StreamQueue = [fr \in FrameRequests |-> <<>>]
    /\ streams = {}
    /\ sent = {}
    /\ written = [s \in StreamIds |-> <<>>]
    /\ taken = <<>>
    /\ cut = {}

-----------------------------------------------------------------------------
SubmitFrame(f, level) ==
    LET fr == [FrameType |-> f.type, EncryptionLevel |-> level]
    IN  IF DisableFrameSending
        THEN StreamQueue' = [StreamQueue EXCEPT ![fr] = Append(@, f)] /\ UNCHANGED sent
        ELSE sent' = sent \union {f} /\ UNCHANGED StreamQueue

Take(op) ==
    /\ input # <<>>
    /\ Head(input).op = op
    /\ input' = Tail(input)
    /\ taken' = Append(taken, Head(input))
    /\ UNCHANGED <<DisableFrameSending, cut>>

CanWrite(s) == (IsClient(s) \/ IsBidi(s)) /\ ~WriteClosed[s]

\* Mutant: the FIN is put where the frames sent so far end.
FinOffsetSent(s) == WriteOffset[s] - Len(streamBuffers[s])
FinOffset(s) == WriteOffset[s]

\* WriteClosed stays as it is: a closed stream can still be written to.
CloseStream ==
    /\ Take("close")
    /\ LET s == Head(input).StreamId
       IN  /\ streams' = streams \union {s}
           /\ IF CanWrite(s)
              THEN /\ WriteCloseOffset' = [WriteCloseOffset EXCEPT ![s] = WriteOffset[s]]
                   /\ SubmitFrame(StreamFrame(s, FinOffset(s), <<>>, TRUE), "BestAppData")
              ELSE UNCHANGED <<WriteCloseOffset, StreamQueue, sent>>
    /\ UNCHANGED <<streamBuffers, streamClosing, WriteOffset, WriteClosed, written>>

ResetAStream ==
    /\ Take("reset")
    /\ LET s == Head(input).StreamId
       IN  /\ streams' = streams \union {s}
           /\ IF CanWrite(s)
              THEN /\ WriteCloseOffset' = [WriteCloseOffset EXCEPT ![s] = WriteOffset[s]]
                   /\ WriteClosed' = [WriteClosed EXCEPT ![s] = TRUE]
                   /\ SubmitFrame(ResetStream(s, WriteOffset[s]), "BestAppData")
              ELSE UNCHANGED <<WriteCloseOffset, WriteClosed, StreamQueue, sent>>
    /\ UNCHANGED <<streamBuffers, streamClosing, WriteOffset, written>>

StopReceiving ==
    /\ Take("stop")
    /\ LET s == Head(input).StreamId
       IN  IF (IsServer(s) \/ IsBidi(s)) /\ (IsServer(s) => s \in streams)
           THEN SubmitFrame(StopSendingFrame(s), "BestAppData")
           ELSE UNCHANGED <<StreamQueue, sent>>
    /\ UNCHANGED <<streamBuffers, streamClosing, WriteOffset, WriteClosed, WriteCloseOffset, streams, written>>

\* Mutant: the data replaces what is still waiting.
BufferedOver(buf, data) == data
Buffered(buf, data) == buf \o data

SendData ==
    /\ Take("send")
    /\ LET s == Head(input).StreamId
           data == Head(input).Data
           close == Head(input).Close
           end == WriteOffset[s] + Len(data)
       IN  /\ streams' = streams \union {s}
           /\ \/ /\ WriteClosed[s]
                 /\ UNCHANGED <<streamBuffers, streamClosing, WriteOffset, WriteClosed, WriteCloseOffset,
                                StreamQueue, sent, written>>
              \/ /\ ~WriteClosed[s]
                 /\ WriteOffset' = [WriteOffset EXCEPT ![s] = end]
                 /\ WriteClosed' = [WriteClosed EXCEPT ![s] = close]
                 /\ WriteCloseOffset' = [WriteCloseOffset EXCEPT ![s] = IF close THEN end ELSE @]
                 /\ written' = [written EXCEPT ![s] = @ \o data]
                 /\ IF DisableFrameSending
                    THEN /\ SubmitFrame(StreamFrame(s, end - Len(data), data, close), "1RTT")
                         /\ UNCHANGED <<streamBuffers, streamClosing>>
                    ELSE /\ streamBuffers' = [streamBuffers EXCEPT ![s] = Buffered(@, data)]
                         /\ streamClosing' = IF close THEN streamClosing \union {s} ELSE streamClosing
                         /\ UNCHANGED <<StreamQueue, sent>>

-----------------------------------------------------------------------------
FrameOffset(s) == WriteOffset[s] - Len(streamBuffers[s])

HeaderLength(s) == 2 + VarIntLen(s) + (IF FrameOffset(s) > 0 THEN VarIntLen(FrameOffset(s)) ELSE 0)

\* The length of the frame of a stream in the space that is left; 0 for none.
LengthIn(s, space) ==
    LET length == IF Len(streamBuffers[s]) + HeaderLength(s) < space THEN Len(streamBuffers[s]) + HeaderLength(s) ELSE space
    IN  IF length > HeaderLength(s) THEN length ELSE 0

\* The code compares with the length of the whole frame, its header included.
Emptied(s, length) == length > 0 /\ Len(streamBuffers[s]) <= length

FrameFor(s, length) ==
    StreamFrame(s, FrameOffset(s), SubSeq(streamBuffers[s], 1, length - HeaderLength(s)),
                Emptied(s, length) /\ s \in streamClosing)

Waiting == {s \in StreamIds : streamBuffers[s] # <<>>}

\* A packet of the application data is being filled; the map of the buffers is
\* walked in any order.  At the other levels, or when frames are only sent on
\* request, the agent gives nothing.
RequestFrames(space) ==
    /\ ~DisableFrameSending
    /\ Waiting # {}
    /\ \E order \in SetToSeqs(Waiting) :
          LET left[i \in 1 .. Len(order)] ==
                  IF i = 1 THEN space ELSE left[i - 1] - LengthIn(order[i - 1], left[i - 1])
              lengths == [s \in Waiting |-> LengthIn(s, left[CHOOSE i \in DOMAIN order : order[i] = s])]
          IN  /\ streamBuffers' = [s \in StreamIds |->
                                      IF s \notin Waiting \/ lengths[s] = 0 THEN streamBuffers[s]
                                      ELSE SubSeq(streamBuffers[s], lengths[s] + 1, Len(streamBuffers[s]))]
              /\ streamClosing' = {s \in streamClosing : s \in Waiting => ~Emptied(s, lengths[s])}
              /\ sent' = sent \union {FrameFor(s, lengths[s]) : s \in {t \in Waiting : lengths[t] > 0}}
              /\ cut' = cut \union {s \in Waiting : /\ lengths[s] > 0
                                                     /\ lengths[s] - HeaderLength(s) < Len(streamBuffers[s])}
    /\ UNCHANGED <<input, WriteOffset, WriteClosed, WriteCloseOffset, DisableFrameSending, StreamQueue, streams,
                   written, taken>>

SendFromQueue(fr) ==
    /\ StreamQueue[fr] # <<>>
    /\ sent' = sent \union Range(StreamQueue[fr])
    /\ StreamQueue' = [StreamQueue EXCEPT ![fr] = <<>>]
    /\ UNCHANGED <<input, streamBuffers, streamClosing, WriteOffset, WriteClosed, WriteCloseOffset,
                   DisableFrameSending, streams, written, taken, cut>>

StreamAgent == CloseStream \/ ResetAStream \/ StopReceiving \/ SendData

-----------------------------------------------------------------------------
Queued == UNION {Range(StreamQueue[fr]) : fr \in FrameRequests}
DataOf(s) == {f \in sent \union Queued : f.type = "STREAM" /\ f.StreamId = s}
End(f) == f.Offset + Len(f.StreamData)

\* Some frame carries the i-th byte.
Carries(frames, i) == \E f \in frames : f.Offset < i /\ i <= End(f)

\* Every STREAM frame carries the bytes that were written at its offset, however the
\* writes were cut and joined in the buffer (stream_agent.go Run, send), and a byte that
\* was written is in the buffer or in a frame, unless the buffer of its stream was once
\* too large for the packet (stream_agent.go:61).
WrittenIsSent ==
    /\ \A s \in StreamIds : \A f \in DataOf(s) :
          /\ End(f) <= Len(written[s])
          /\ f.StreamData = SubSeq(written[s], f.Offset + 1, End(f))
    /\ \A s \in StreamIds \ cut : \A i \in DOMAIN written[s] :
          i > Len(written[s]) - Len(streamBuffers[s]) \/ Carries(DataOf(s), i)

\* A stream has one final size, that of its FIN or RESET_STREAM frames, and it is
\* what was written, unless a buffer was too large for its packet or the stream
\* was written to after Close, which the code lets happen (stream_agent.go:93).
WrittenAfterClose(s) ==
    \E i, j \in DOMAIN taken : /\ i < j /\ taken[i] = Close(s)
                               /\ taken[j].op = "send" /\ taken[j].StreamId = s
OneFinalSize ==
    \A s \in {t \in StreamIds \ cut : ~WrittenAfterClose(t)} :
        /\ \A f \in DataOf(s) : f.FinBit => End(f) = Len(written[s])
        /\ \A f \in sent \union Queued : f.type = "RESET_STREAM" /\ f.StreamId = s => f.FinalSize = Len(written[s])
=============================================================================
