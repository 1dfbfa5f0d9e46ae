-------------------------------- MODULE Http --------------------------------
(***************************************************************************)
(* A request and its response, over HTTP/3 (agents/http3_agent.go with     *)
(* agents/qpack_agent.go) or HTTP/0.9 (agents/http09_agent.go): from       *)
(* SendRequest through the StreamAgent to the server, and back from the    *)
(* chunks read on the streams to the report of the response.               *)
(*                                                                         *)
(* The goroutines are the HTTP3Agent, the QPACKAgent, the one SendRequest  *)
(* starts (the pipe) and the caller.  A goroutine between two statements   *)
(* other goroutines can see is at a place of its own.  What the peer sends *)
(* and how its bytes are cut is the session, chosen in the initial state.  *)
(* The reading half of a stream is in order here: Streams covers the rest. *)
(*                                                                         *)
(* External: the peer and ls-qpack.  A header block is one byte; one of    *)
(* 100 or more refers to the dynamic table, and is blocked until the whole *)
(* encoder stream was fed to the decoder.                                  *)
(***************************************************************************)
EXTENDS FiniteSets, Http3Frames, StreamSending

CONSTANTS None, Sessions

VARIABLES session,      \* what the peer and the caller do
          got,          \* the number of bytes read, for each stream (len(ReadData))
          ReadClosed,   \* the FIN of the response stream was read
          registered,   \* the streams whose ReadChan feeds the agents
          chan,         \* the chunks waiting in those channels
          incoming,     \* incomingPackets of the two agents: <<stream, offset>>
          agent,        \* HTTP3Agent
          qpack,        \* QPACKAgent
          pipe,         \* the goroutine of SendRequest
          response, responseChan, stopping,
          reports,      \* history: the responses submitted
          control,      \* history: the frames decoded on the control stream
          missed,       \* history: the streams with a chunk nobody was registered for
          early,        \* history: fin was set with chunks still waiting
          raced         \* history: two goroutines were checking the response at once

httpVars == <<session, got, ReadClosed, registered, chan, incoming, agent, qpack, pipe, response, responseChan,
              stopping, reports, control, missed, early, raced>>
vars == <<httpVars, sendingVars>>

RequestStream == 0
ControlStream == 2
EncoderStreamID == 6
DecoderStreamID == 10
PeerStreams == {RequestStream, 3, 7, 11}

\* What the peer sends on each of its streams.
Content(s) == session.streams[s]
StreamType(s) == ReadVarIntValue(Content(s)).Value

Init ==
    /\ session \in Sessions
    /\ SendingInit(
          (IF session.protocol # "h3" THEN <<>>
           ELSE (IF session.DisableQPACKStreams THEN <<>>
                 ELSE <<Send(EncoderStreamID, <<2>>, FALSE), Send(DecoderStreamID, <<3>>, FALSE)>>)
                \o <<Send(ControlStream, <<0>>, FALSE), Send(ControlStream, WriteTo(NewSETTINGS(<<>>)), FALSE)>>)
          \o session.requests, session.disable)
    /\ got = [s \in PeerStreams |-> 0]
    /\ ReadClosed = FALSE
    /\ registered = {}
    /\ chan = [s \in PeerStreams |-> <<>>]
    /\ incoming = [h3 |-> <<>>, qpack |-> <<>>]
    /\ agent = [place |-> "select", control |-> None, settings |-> None, controlBuffer |-> <<>>,
                buffer |-> <<>>, frames |-> <<>>]
    /\ qpack = [place |-> "select", encoder |-> None, decoder |-> None, encode |-> 0, decode |-> <<>>,
                fed |-> 0, blocked |-> <<>>, encoded |-> <<>>, decoded |-> <<>>]
    /\ pipe = [place |-> IF session.protocol = "none" THEN "done" ELSE "start", data |-> <<>>]
    /\ response = [body |-> <<>>, headers |-> <<>>, fin |-> FALSE, headersRemaining |-> 0,
                   totalProcessed |-> 0, totalReceived |-> 0]
    /\ responseChan = 0
    /\ stopping = FALSE
    /\ reports = <<>>
    /\ control = <<>>
    /\ missed = {}
    /\ early = FALSE
    /\ raced = FALSE

-----------------------------------------------------------------------------
(* The peer.                                                               *)

RequestArrived ==
    LET frames == {f \in sent : f.type = "STREAM" /\ f.StreamId = RequestStream}
    IN  \E f \in frames : f.FinBit /\ \A i \in 1 .. End(f) : Carries(frames, i)

\* A chunk is read and submitted to ReadChan, with the packet to IncomingPackets
\* after it; the FIN closes ReadChan behind the last chunk.
Arrive(s) ==
    /\ got[s] < Len(Content(s))
    /\ s = RequestStream => RequestArrived
    /\ LET end == CHOOSE e \in session.cuts[s] \union {Len(Content(s))} :
                     /\ e > got[s]
                     /\ \A c \in session.cuts[s] : c > got[s] => e <= c
       IN  /\ got' = [got EXCEPT ![s] = end]
           /\ chan' = IF s \in registered
                      THEN [chan EXCEPT ![s] = Append(@, SubSeq(Content(s), got[s] + 1, end))] ELSE chan
           /\ ReadClosed' = (ReadClosed \/ (s = RequestStream /\ end = Len(Content(s)) /\ ~session.finAlone))
           /\ missed' = IF s \notin registered /\ s \in {RequestStream, agent.control, qpack.encoder}
                        THEN missed \union {s} ELSE missed
    /\ incoming' = IF IsUni(s) /\ session.protocol = "h3"
                   THEN [a \in DOMAIN incoming |-> Append(incoming[a], <<s, got[s]>>)] ELSE incoming
    /\ streams' = streams \union {s}
    /\ UNCHANGED <<session, registered, agent, qpack, pipe, response, responseChan, stopping, reports, control, early, raced>>
    /\ UNCHANGED <<input, streamBuffers, streamClosing, WriteOffset, WriteClosed, WriteCloseOffset,
                   DisableFrameSending, StreamQueue, sent, written, taken, cut>>

\* The FIN comes in a frame of its own.
ArriveFin ==
    /\ session.finAlone /\ ~ReadClosed
    /\ got[RequestStream] = Len(Content(RequestStream))
    /\ ReadClosed' = TRUE
    /\ UNCHANGED <<session, got, registered, chan, incoming, agent, qpack, pipe, response, responseChan, stopping,
                   reports, control, missed, early, raced, sendingVars>>

-----------------------------------------------------------------------------
(* SendRequest, and the goroutine it starts.                               *)

Write(requests) ==
    /\ input' = input \o requests
    /\ UNCHANGED <<streamBuffers, streamClosing, WriteOffset, WriteClosed, WriteCloseOffset, DisableFrameSending,
                   StreamQueue, streams, sent, written, taken, cut>>

\* What a step of the pipe, the agents or the caller leaves alone.
Environment == UNCHANGED <<session, got, ReadClosed, missed>>

PipeAt(place) == pipe.place = place
PipeTo(place) == pipe' = [pipe EXCEPT !.place = place]

\* HTTP/3: the stream is registered before the request is handed to QPACK.
SendRequest3 ==
    /\ session.protocol = "h3" /\ session.asks /\ PipeAt("start")
    /\ PipeTo("idle")
    /\ registered' = registered \union {RequestStream}
    /\ qpack' = [qpack EXCEPT !.encode = @ + 1]
    /\ Environment
    /\ UNCHANGED <<chan, incoming, agent, response, responseChan, stopping, reports, control, early, raced, sendingVars>>

\* HTTP/0.9: the stream is registered after the request was sent.
SendRequest09 ==
    /\ session.protocol = "hq"
    /\ \/ /\ PipeAt("start") /\ PipeTo("register")
          /\ Write(<<Send(RequestStream, <<71>>, TRUE)>>)
          /\ UNCHANGED registered
       \/ /\ PipeAt("register") /\ PipeTo(IF ReadClosed THEN "done" ELSE "collect")
          /\ registered' = registered \union {RequestStream}
          /\ UNCHANGED sendingVars
    /\ Environment
    /\ UNCHANGED <<chan, incoming, agent, qpack, response, responseChan, stopping, reports, control, early, raced>>

\* The body grows until the channel is closed.
Collect09 ==
    /\ PipeAt("collect")
    /\ IF chan[RequestStream] # <<>>
       THEN /\ response' = [response EXCEPT !.body = @ \o Head(chan[RequestStream])]
            /\ chan' = [chan EXCEPT ![RequestStream] = Tail(@)]
            /\ UNCHANGED pipe
       ELSE /\ ReadClosed
            /\ PipeTo("report")
            /\ UNCHANGED <<response, chan>>
    /\ Environment
    /\ UNCHANGED <<registered, incoming, agent, qpack, responseChan, stopping, reports, control, early, raced, sendingVars>>

AtEnd == "done"

\* A closed channel gives nil, and the pipe returns.
PipeTakes ==
    /\ PipeAt("idle")
    /\ \/ /\ chan[RequestStream] # <<>>
          /\ pipe' = [place |-> "hand", data |-> Head(chan[RequestStream])]
          /\ chan' = [chan EXCEPT ![RequestStream] = Tail(@)]
       \/ /\ chan[RequestStream] = <<>> /\ ReadClosed
          /\ PipeTo(AtEnd)
          /\ UNCHANGED chan
       \/ /\ stopping
          /\ PipeTo("done")
          /\ UNCHANGED chan
    /\ Environment
    /\ UNCHANGED <<registered, incoming, agent, qpack, response, responseChan, stopping, reports, control, early, raced,
                   sendingVars>>

\* The offset of the end of the stream is known only once its FIN was read.
PipeCounts ==
    /\ PipeAt("count")
    /\ LET total == response.totalReceived + Len(pipe.data)
       IN  /\ response' = [response EXCEPT !.totalReceived = total, !.fin = @ \/ ReadClosed]
           /\ pipe' = [place |-> IF ReadClosed THEN "check" ELSE "idle", data |-> <<>>]
           /\ early' = (early \/ (ReadClosed /\ total < Len(Content(RequestStream))))
           /\ raced' = (raced \/ (ReadClosed /\ agent.place = "check"))
    /\ Environment
    /\ UNCHANGED <<registered, chan, incoming, agent, qpack, responseChan, stopping, reports, control, sendingVars>>

\* Mutant: headers that are still being decoded are not waited for.
CompleteWithoutHeaders(r) == r.fin /\ r.totalReceived > 0 /\ r.totalProcessed = r.totalReceived
Complete(r) == r.fin /\ r.totalReceived > 0 /\ r.totalProcessed = r.totalReceived /\ r.headersRemaining = 0

\* checkResponse, by either goroutine: first the test ...
checkResponse ==
    /\ \/ /\ PipeAt("check")
          /\ PipeTo(IF Complete(response) THEN "report" ELSE "idle")
          /\ UNCHANGED agent
       \/ /\ agent.place = "check"
          /\ agent' = [agent EXCEPT !.place = IF Complete(response) THEN "report" ELSE "select"]
          /\ UNCHANGED pipe
    /\ Environment
    /\ UNCHANGED <<registered, chan, incoming, qpack, response, responseChan, stopping, reports, control, early, raced,
                   sendingVars>>

\* ... then the response is put in a channel that holds one, and a copy submitted.
Report ==
    /\ responseChan = 0
    /\ \/ /\ PipeAt("report")
          /\ PipeTo(IF session.protocol = "hq" THEN "done" ELSE "idle")
          /\ UNCHANGED agent
       \/ /\ agent.place = "report"
          /\ agent' = [agent EXCEPT !.place = "select"]
          /\ UNCHANGED pipe
    /\ responseChan' = 1
    /\ reports' = Append(reports, [body |-> response.body, headers |-> response.headers])
    /\ Environment
    /\ UNCHANGED <<registered, chan, incoming, qpack, response, stopping, control, early, raced, sendingVars>>

ReadResponse ==
    /\ session.reads /\ responseChan = 1
    /\ responseChan' = 0
    /\ Environment
    /\ UNCHANGED <<registered, chan, incoming, agent, qpack, pipe, response, stopping, reports, control, early, raced,
                   sendingVars>>

Stop ==
    /\ session.stops /\ ~stopping
    /\ stopping' = TRUE
    /\ Environment
    /\ UNCHANGED <<registered, chan, incoming, agent, qpack, pipe, response, responseChan, reports, control, early, raced,
                   sendingVars>>
-----------------------------------------------------------------------------
(* The HTTP3Agent: one case of its select in a step.                       *)

Selecting == session.protocol = "h3" /\ agent.place = "select"

ReadData(s) == SubSeq(Content(s), 1, got[s])

\* Mutant: the type is left at the head.
BeyondAndType(s) == <<ReadData(s)>>
\* The bytes of a stream behind its type, when there are any.
Beyond(s) == IF got[s] > 1 THEN <<SubSeq(ReadData(s), 2, got[s])>> ELSE <<>>

\* The peer's control stream is looked for among its unidirectional streams; what
\* was read of it is copied first, and the channel registered after.
TakePacket3 ==
    /\ Selecting /\ incoming.h3 # <<>>
    /\ incoming' = [incoming EXCEPT !.h3 = Tail(@)]
    /\ LET s == Head(incoming.h3)[1]
       IN  IF /\ Head(incoming.h3)[2] < 4 /\ s # agent.control
              /\ StreamType(s) = 0 /\ agent.control = None
           THEN /\ agent' = [agent EXCEPT !.control = s, !.place = "register"]
                /\ chan' = [chan EXCEPT ![s] = @ \o Beyond(s)]
           ELSE UNCHANGED <<agent, chan>>
    /\ Environment
    /\ UNCHANGED <<registered, qpack, pipe, response, responseChan, stopping, reports, control, early, raced, sendingVars>>

Register3 ==
    /\ agent.place = "register"
    /\ registered' = registered \union {agent.control}
    /\ agent' = [agent EXCEPT !.place = "select"]
    /\ Environment
    /\ UNCHANGED <<chan, incoming, qpack, pipe, response, responseChan, stopping, reports, control, early, raced,
                   sendingVars>>

\* The length of the frame at the head of a buffer; 0 when it is not all there.
WholeFrame(t, l, available) ==
    LET size == t.Length + l.Length + l.Value
    IN  IF t.err \/ l.err \/ available < size THEN 0 ELSE size
FrameSize(b) == LET t == ReadVarIntValue(b) IN WholeFrame(t, ReadVarIntValue(t.rest), Len(b))

\* attemptDecoding takes the frames from the head of the buffer while they are
\* whole: the frames it takes, and what it leaves.
Decoded(stream, buffer) ==
    LET decode[b \in Seq(Byte), n \in Nat] ==
            LET rest == SubSeq(b, n + 1, Len(b))
            IN  IF n = 0 THEN <<>> ELSE <<<<stream, ReadHTTPFrame(SubSeq(b, 1, n))>>>> \o decode[rest, FrameSize(rest)]
    IN  decode[buffer, FrameSize(buffer)]
Undecoded(buffer) ==
    LET decode[b \in Seq(Byte), n \in Nat] ==
            LET rest == SubSeq(b, n + 1, Len(b)) IN IF n = 0 THEN b ELSE decode[rest, FrameSize(rest)]
    IN  decode[buffer, FrameSize(buffer)]

TakeControlData ==
    /\ Selecting /\ agent.control # None
    /\ chan[agent.control] # <<>>
    /\ LET buffer == agent.controlBuffer \o Head(chan[agent.control])
       IN  agent' = [agent EXCEPT !.controlBuffer = Undecoded(buffer), !.frames = @ \o Decoded(agent.control, buffer)]
    /\ chan' = [chan EXCEPT ![agent.control] = Tail(@)]
    /\ Environment
    /\ UNCHANGED <<registered, incoming, qpack, pipe, response, responseChan, stopping, reports, control, early, raced,
                   sendingVars>>

\* The pipe and the agent meet on a channel without a buffer.
TakeStreamData ==
    /\ Selecting /\ PipeAt("hand")
    /\ LET buffer == agent.buffer \o pipe.data
       IN  agent' = [agent EXCEPT !.buffer = Undecoded(buffer), !.frames = @ \o Decoded(RequestStream, buffer)]
    /\ PipeTo("count")
    /\ Environment
    /\ UNCHANGED <<registered, chan, incoming, qpack, response, responseChan, stopping, reports, control, early, raced,
                   sendingVars>>

\* HEADERS and DATA on another stream match no response: what QPACK makes of those
\* headers is left out.
HeadersToCome(n) == n + 1

Checking == raced' = (raced \/ PipeAt("check"))

TakeFrame ==
    /\ Selecting /\ agent.frames # <<>>
    /\ LET s == Head(agent.frames)[1]
           f == Head(agent.frames)[2]
           rest == Tail(agent.frames)
           Processed(r) == IF s = RequestStream THEN [r EXCEPT !.totalProcessed = @ + WireLength(f)] ELSE r
       IN  /\ control' = IF s = RequestStream THEN control ELSE Append(control, f)
           /\ \/ /\ f.type = "HEADERS" /\ s = RequestStream
                 /\ qpack' = [qpack EXCEPT !.decode = Append(@, f.HeaderBlock)]
                 /\ response' = [Processed(response) EXCEPT !.headersRemaining = HeadersToCome(@)]
                 /\ agent' = [agent EXCEPT !.frames = rest]
                 /\ UNCHANGED raced
              \/ /\ f.type = "DATA" /\ s = RequestStream
                 /\ response' = [Processed(response) EXCEPT !.body = @ \o f.Payload]
                 /\ agent' = [agent EXCEPT !.frames = rest, !.place = "check"]
                 /\ Checking
                 /\ UNCHANGED qpack
              \/ /\ f.type = "SETTINGS"
                 /\ agent' = [agent EXCEPT !.frames = rest, !.settings = IF @ = None THEN f ELSE @]
                 /\ UNCHANGED <<response, qpack, raced>>
              \/ /\ f.type # "SETTINGS"
                 /\ f.type \in {"HEADERS", "DATA"} => s # RequestStream
                 /\ response' = Processed(response)
                 /\ agent' = [agent EXCEPT !.frames = rest]
                 /\ UNCHANGED <<qpack, raced>>
    /\ Environment
    /\ UNCHANGED <<registered, chan, incoming, pipe, responseChan, stopping, reports, early, sendingVars>>

\* Mutant: decoded headers do not complete a response.
AfterHeadersOnly == "select"
AfterHeaders == "check"

TakeDecodedHeaders ==
    /\ Selecting /\ qpack.decoded # <<>>
    /\ qpack' = [qpack EXCEPT !.decoded = Tail(@)]
    /\ response' = [response EXCEPT !.headersRemaining = @ - 1, !.headers = Append(@, Head(qpack.decoded))]
    /\ agent' = [agent EXCEPT !.place = AfterHeaders]
    /\ Checking
    /\ Environment
    /\ UNCHANGED <<registered, chan, incoming, pipe, responseChan, stopping, reports, control, early, sendingVars>>

TakeEncodedHeaders ==
    /\ Selecting /\ qpack.encoded # <<>>
    /\ qpack' = [qpack EXCEPT !.encoded = Tail(@)]
    /\ Write(<<Send(RequestStream, WriteTo(NewHEADERS(Head(qpack.encoded))), TRUE)>>)
    /\ Environment
    /\ UNCHANGED <<registered, chan, incoming, agent, pipe, response, responseChan, stopping, reports, control, early, raced>>

\* Mutant: Stop sends one value, and the pipe may be the one that takes it.
ClosingOnce == stopping /\ ~PipeAt("done")
Closing == stopping

Close3 ==
    /\ Selecting /\ Closing
    /\ agent' = [agent EXCEPT !.place = "ended"]
    /\ Environment
    /\ UNCHANGED <<registered, chan, incoming, qpack, pipe, response, responseChan, stopping, reports, control, early, raced,
                   sendingVars>>

HTTP3Agent == TakePacket3 \/ Register3 \/ TakeControlData \/ TakeStreamData \/ TakeFrame \/ TakeDecodedHeaders
                 \/ TakeEncodedHeaders \/ Close3

-----------------------------------------------------------------------------
(* The QPACKAgent.                                                         *)

QpackSelecting == session.protocol = "h3" /\ qpack.place = "select"

\* For a decoder stream the agent copies what was read of the encoder stream.
TakePacketQ ==
    /\ QpackSelecting /\ incoming.qpack # <<>>
    /\ incoming' = [incoming EXCEPT !.qpack = Tail(@)]
    /\ LET s == Head(incoming.qpack)[1]
           new == Head(incoming.qpack)[2] < 4 /\ s \notin {qpack.encoder, qpack.decoder}
       IN  \/ /\ new /\ StreamType(s) = 2 /\ qpack.encoder = None
              /\ qpack' = [qpack EXCEPT !.encoder = s, !.place = "encoder"]
              /\ chan' = [chan EXCEPT ![s] = @ \o Beyond(s)]
           \/ /\ new /\ StreamType(s) = 3 /\ qpack.decoder = None
              /\ qpack' = [qpack EXCEPT !.decoder = s, !.place = "decoder"]
              /\ chan' = [chan EXCEPT ![s] = @ \o (IF qpack.encoder = None THEN <<>> ELSE Beyond(qpack.encoder))]
           \/ /\ ~(new /\ StreamType(s) = 2 /\ qpack.encoder = None)
              /\ ~(new /\ StreamType(s) = 3 /\ qpack.decoder = None)
              /\ UNCHANGED <<qpack, chan>>
    /\ Environment
    /\ UNCHANGED <<registered, agent, pipe, response, responseChan, stopping, reports, control, early, raced, sendingVars>>

RegisterQ ==
    /\ qpack.place \in {"encoder", "decoder"}
    /\ registered' = registered \union {qpack[qpack.place]}
    /\ qpack' = [qpack EXCEPT !.place = "select"]
    /\ Environment
    /\ UNCHANGED <<chan, incoming, agent, pipe, response, responseChan, stopping, reports, control, early, raced,
                   sendingVars>>

\* External (ls-qpack): a block that refers to the dynamic table needs the whole encoder stream.
Decodable(block, fed) == block[1] < 100 \/ fed >= Len(session.streams[7]) - 1

\* checkForDecodedHeaders, when the decoder has been fed up to fed and holds blocks.
checkForDecodedHeaders(blocks, fed) ==
    LET ready == SelectSeq(blocks, LAMBDA b : Decodable(b, fed))
    IN  /\ qpack' = [qpack EXCEPT !.fed = fed, !.decoded = @ \o ready,
                                  !.blocked = SelectSeq(blocks, LAMBDA b : ~Decodable(b, fed)),
                                  !.decode = IF Len(blocks) > Len(qpack.blocked) THEN Tail(@) ELSE @]
        /\ Write(FlattenSeq([i \in DOMAIN ready |->
                    IF ready[i][1] < 100 THEN <<>> ELSE <<Send(DecoderStreamID, <<128>>, FALSE)>>]))

FeedDecoder ==
    /\ QpackSelecting /\ qpack.encoder # None
    /\ chan[qpack.encoder] # <<>>
    /\ chan' = [chan EXCEPT ![qpack.encoder] = Tail(@)]
    /\ checkForDecodedHeaders(qpack.blocked, qpack.fed + Len(Head(chan[qpack.encoder])))
    /\ Environment
    /\ UNCHANGED <<registered, incoming, agent, pipe, response, responseChan, stopping, reports, control, early, raced>>

\* External (ls-qpack): the encoder may refuse what it does not understand, and the agent returns.
FeedEncoder ==
    /\ QpackSelecting /\ qpack.decoder # None
    /\ chan[qpack.decoder] # <<>>
    /\ chan' = [chan EXCEPT ![qpack.decoder] = Tail(@)]
    /\ \/ /\ Head(chan[qpack.decoder])[1] # session.streams[11][2]
          /\ qpack' = [qpack EXCEPT !.place = "ended"]
       \/ UNCHANGED qpack
    /\ Environment
    /\ UNCHANGED <<registered, incoming, agent, pipe, response, responseChan, stopping, reports, control, early, raced,
                   sendingVars>>

\* The dynamic table is used once SETTINGS initialised the encoder.
EncodeHeaders ==
    /\ QpackSelecting /\ qpack.encode > 0
    /\ qpack' = [qpack EXCEPT !.encode = @ - 1, !.encoded = Append(@, <<1, 9>>)]
    /\ \/ Write(<<>>)
       \/ /\ agent.settings # None /\ ~session.DisableQPACKStreams
          /\ Write(<<Send(EncoderStreamID, <<8>>, FALSE)>>)
    /\ Environment
    /\ UNCHANGED <<registered, chan, incoming, agent, pipe, response, responseChan, stopping, reports, control, early, raced>>

DecodeHeaders ==
    /\ QpackSelecting /\ qpack.decode # <<>>
    /\ checkForDecodedHeaders(Append(qpack.blocked, Head(qpack.decode)), qpack.fed)
    /\ Environment
    /\ UNCHANGED <<registered, chan, incoming, agent, pipe, response, responseChan, stopping, reports, control, early, raced>>

QPACKAgent == TakePacketQ \/ RegisterQ \/ FeedDecoder \/ FeedEncoder \/ EncodeHeaders \/ DecodeHeaders

-----------------------------------------------------------------------------
Requester == SendRequest3 \/ SendRequest09 \/ Collect09 \/ PipeTakes \/ PipeCounts
Peer == (\E s \in PeerStreams : Arrive(s)) \/ ArriveFin
Sending == /\ UNCHANGED httpVars
           /\ StreamAgent \/ (\E space \in session.spaces : RequestFrames(space))
                          \/ (\E fr \in FrameRequests : SendFromQueue(fr))

Next == Requester \/ checkResponse \/ Report \/ ReadResponse \/ Stop \/ HTTP3Agent \/ QPACKAgent \/ Peer \/ Sending

\* The goroutines run, the peer answers, and every packet asks for frames.
Fairness == /\ WF_vars(Requester \/ checkResponse \/ Report)
            /\ WF_vars(HTTP3Agent)
            /\ WF_vars(QPACKAgent)
            /\ WF_vars(Peer)
            /\ WF_vars(Sending)
            /\ WF_vars(ReadResponse)

Spec == Init /\ [][Next]_vars /\ Fairness
-----------------------------------------------------------------------------
(* Properties.                                                             *)

\* The counters and channels of the agents and of the StreamAgent stay in their ranges.
TypeOK ==
    /\ session \in Sessions
    /\ \A s \in PeerStreams : got[s] \in 0 .. Len(Content(s)) /\ chan[s] \in Seq(Seq(Byte))
    /\ registered \subseteq PeerStreams /\ missed \subseteq PeerStreams
    /\ agent.place \in {"select", "register", "check", "report", "ended"}
    /\ agent.control \in {None, 3}
    /\ qpack.place \in {"select", "encoder", "decoder", "ended"}
    /\ pipe.place \in {"start", "register", "idle", "hand", "count", "check", "collect", "report", "done"}
    /\ response.headersRemaining \in Nat /\ response.totalProcessed \in Nat /\ response.totalReceived \in Nat
    /\ response.body \in Seq(Byte) /\ response.fin \in BOOLEAN
    /\ responseChan \in 0 .. 1
    /\ {ReadClosed, stopping, early, raced, DisableFrameSending} \subseteq BOOLEAN
    /\ streamBuffers \in [StreamIds -> Seq(Byte)] /\ streamClosing \subseteq StreamIds
    /\ WriteOffset = [s \in StreamIds |-> Len(written[s])]
    /\ WriteClosed \in [StreamIds -> BOOLEAN] /\ WriteCloseOffset \in [StreamIds -> Nat]
    /\ cut \subseteq StreamIds

ResponseFrames(type) == SelectSeq(session.response, LAMBDA f : f.type = type)
Body == IF session.protocol = "hq" THEN session.response
        ELSE FlattenSeq([i \in DOMAIN ResponseFrames("DATA") |-> ResponseFrames("DATA")[i].Payload])
Blocks == IF session.protocol = "hq" THEN {} ELSE {f.HeaderBlock : f \in Range(ResponseFrames("HEADERS"))}

\* The goroutines that are about to report the response.
Reporting == {x \in {"agent", "pipe"} : "report" = IF x = "agent" THEN agent.place ELSE pipe.place}

\* A response is reported once (checkResponse), unless the agent and the pipe check it at
\* the same time, and with the whole body and every header the server sent, unless HTTP/0.9
\* registered after the answer (http09_agent.go:49).  Neither is claimed if the stream was
\* closed while chunks of it were still waiting: the pipe takes ReadClosed for the end
\* (http3_agent.go:268).
ReportedWholeAndOnce ==
    ~early =>
        /\ Len(reports) + Cardinality(Reporting) > 1 => raced
        /\ RequestStream \notin missed =>
              \A i \in DOMAIN reports : reports[i].body = Body /\ Range(reports[i].headers) = Blocks

\* The frames decoded on the peer's control stream are the ones it sent, in order,
\* however its bytes were cut; PUSH_PROMISE comes without its header block.  Bytes
\* read between the copy of the stream and the registration are lost, and what
\* follows them is not claimed (http3_agent.go:110).
AsRead(f) == IF f.type = "PUSH_PROMISE" THEN [f EXCEPT !.HeaderBlock = [i \in DOMAIN @ |-> 0]] ELSE f
ControlInOrder ==
    3 \notin missed => IsPrefix(control, [i \in DOMAIN session.control |-> AsRead(session.control[i])])

\* Every response is reported in the end, with its FIN on the last bytes and its
\* last frame HEADERS or DATA: the other frames complete no response
\* (http3_agent.go:172), and a FIN alone only closes the channel.  Not when bytes
\* were lost before a registration or in a packet that was too small, or when the
\* QPACKAgent gave up.
Reportable ==
    \/ session.protocol = "hq"
    \/ /\ session.protocol = "h3" /\ session.asks /\ ~session.finAlone /\ ~session.stops
       /\ session.response[Len(session.response)].type \in {"HEADERS", "DATA"}
EventuallyReported ==
    Reportable ~> (reports # <<>> \/ missed \intersect {RequestStream, 7} # {} \/ qpack.place = "ended" \/ cut # {})

\* An HTTP/3 agent that is stopped ends, unless it waits to report a response for
\* the second time and nobody reads (http3_agent.go:222).
StopEnds == (stopping /\ session.protocol = "h3") ~> (agent.place = "ended" \/ early \/ raced)
=============================================================================
