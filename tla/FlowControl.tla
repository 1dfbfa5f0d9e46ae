---------------------------- MODULE FlowControl ----------------------------
(***************************************************************************)
(* FlowControlAgent (agents/flow_control_agent.go): the goroutine that     *)
(* learns the peer's limits, reserves send credit for streams, accounts    *)
(* for received stream data and advertises new limits.  Every case of its  *)
(* select is one action; the frames of a received packet are handled one   *)
(* after the other by the same goroutine and are one action each.          *)
(***************************************************************************)
EXTENDS Integers, FiniteSets, SequencesExt, TLC

CONSTANTS StreamIds,              \* the stream identifiers in use
          Limits,                 \* the values limits, offsets and amounts of credit take
          Spaces,                 \* the room a packet can have left for these frames
          Configurations,         \* how the agent is configured and used
          tpLocal, tpRemote,      \* the transport parameters of this end and of the peer
          CurrentStreamID,        \* of the Connection
          ForcedMaxData,          \* the 64 * 1024 of a MAX_DATA frame made on request
          MaxUint64,              \* a stream limit that has not been initialised
          DataBound,              \* bound of the model on the data read
          QueueBound              \* bound of the model on the length of a queue

FlowControlLimits ==
    [StreamsBidi : Nat, StreamsUni : Nat, MaxData : Nat, MaxStreamDataBidiLocal : Nat,
     MaxStreamDataBidiRemote : Nat, MaxStreamDataUni : Nat]

FrameTypes == {"MAX_DATA", "MAX_STREAM_DATA", "DATA_BLOCKED", "STREAM_DATA_BLOCKED",
               "BIDI_STREAMS_BLOCKED", "UNI_STREAMS_BLOCKED"}
\* 1RTT stands for the two levels frames are produced at (0-RTT and 1-RTT).
FrameRequests == [FrameType : FrameTypes, EncryptionLevel : {"1RTT", "BestAppData"}]

\* Limits travel as variable-length integers, which stay below 2^62.
ASSUME FlowControlAssumption ==
    /\ StreamIds \subseteq Nat /\ Limits \subseteq Nat /\ Spaces \subseteq Nat
    /\ CurrentStreamID \in Nat
    /\ Configurations \subseteq [DontSlideCreditWindow : BOOLEAN, DisableFrameSending : BOOLEAN,
                                 Requests : SUBSET FrameRequests]
    /\ ForcedMaxData \in Nat /\ MaxUint64 \in Nat
    /\ DataBound \in Nat /\ QueueBound \in Nat
    /\ tpLocal \in FlowControlLimits /\ tpRemote \in FlowControlLimits
    /\ \A l \in Limits : l < MaxUint64
    /\ tpRemote.MaxStreamDataBidiLocal < MaxUint64
    /\ tpRemote.MaxStreamDataBidiRemote < MaxUint64
    /\ tpRemote.MaxStreamDataUni < MaxUint64
    /\ MaxUint64 > 0

VARIABLES config,          \* set before Run
          ready, LocalFC, RemoteFC,
          WriteLimit, WriteReserved, ReadLimit,          \* of each Stream
          dataReserved, dataRead,
          dataBlocked, bidiStreamsBlocked, uniStreamsBlocked,
          blockedStreams,                                \* the keys of the map
          dataLimitsChanged,
          streamsDataLimits,                             \* a function on the map's keys
          TLSTPHandler,                                  \* MaxData and MaxStreamDataBidiLocal
          FlowControlQueue,
          advertised,      \* history: the highest limits handed to the send path
          highest          \* history: the highest end of the data received on each stream

local == <<LocalFC, ReadLimit, dataRead, dataLimitsChanged, streamsDataLimits, highest>>
remote == <<RemoteFC, WriteLimit, WriteReserved, dataReserved>>
flags == <<dataBlocked, bidiStreamsBlocked, uniStreamsBlocked, blockedStreams>>
output == <<FlowControlQueue, advertised>>
vars == <<config, ready, local, remote, flags, TLSTPHandler, output>>

DontSlideCreditWindow == config.DontSlideCreditWindow
DisableFrameSending == config.DisableFrameSending
Requests == config.Requests      \* the FrameRequests put on the channel SendFromQueue

-----------------------------------------------------------------------------
(* Stream identifiers (streams.go).                                        *)
IsUni(id) == (id \div 2) % 2 = 1
IsClient(id) == id % 2 = 0
IsBidiClient(id) == ~IsUni(id) /\ IsClient(id)
IsBidiServer(id) == ~IsUni(id) /\ ~IsClient(id)
IsUniClient(id) == IsUni(id) /\ IsClient(id)
IsUniServer(id) == IsUni(id) /\ ~IsClient(id)

GetMaxBidiClient(limit) == 4 * limit
GetMaxBidiServer(limit) == 1 + 4 * limit
GetMaxUniClient(limit) == 2 + 4 * limit
GetMaxUniServer(limit) == 3 + 4 * limit

min(a, b) == IF a < b THEN a ELSE b
max(a, b) == IF a > b THEN a ELSE b

Frames == [type : FrameTypes, stream : Nat, value : Nat]
Frame(t, id, v) == [type |-> t, stream |-> id, value |-> v]
NoStream == 0      \* the stream of a frame that is about no particular stream

TypeOK ==
    /\ config \in Configurations /\ ready \in BOOLEAN
    /\ LocalFC \in FlowControlLimits /\ RemoteFC \in FlowControlLimits
    /\ WriteLimit \in [StreamIds -> Nat] /\ WriteReserved \in [StreamIds -> Nat]
    /\ ReadLimit \in [StreamIds -> Nat]
    /\ dataReserved \in Nat /\ dataRead \in Nat
    /\ dataBlocked \in BOOLEAN /\ bidiStreamsBlocked \in BOOLEAN
    /\ uniStreamsBlocked \in BOOLEAN /\ dataLimitsChanged \in BOOLEAN
    /\ blockedStreams \subseteq StreamIds
    /\ DOMAIN streamsDataLimits \subseteq StreamIds
    /\ \A s \in DOMAIN streamsDataLimits : streamsDataLimits[s] \in Nat
    /\ TLSTPHandler \in [MaxData : Nat, MaxStreamDataBidiLocal : Nat]
    /\ FlowControlQueue \in [FrameRequests -> Seq(Frames)]
    /\ advertised \in [data : Nat, stream : [StreamIds -> Nat]]
    /\ highest \in [StreamIds -> Nat]

NoLimits == [StreamsBidi |-> 0, StreamsUni |-> 0, MaxData |-> 0, MaxStreamDataBidiLocal |-> 0,
             MaxStreamDataBidiRemote |-> 0, MaxStreamDataUni |-> 0]

\* The transport parameters tell the peer the initial limits.
Init ==
    /\ config \in Configurations
    /\ ready = FALSE
    /\ LocalFC = NoLimits /\ RemoteFC = NoLimits
    /\ WriteLimit = [s \in StreamIds |-> MaxUint64]
    /\ WriteReserved = [s \in StreamIds |-> 0]
    /\ ReadLimit = [s \in StreamIds |-> MaxUint64]
    /\ dataReserved = 0 /\ dataRead = 0
    /\ dataBlocked = FALSE /\ bidiStreamsBlocked = FALSE /\ uniStreamsBlocked = FALSE
    /\ blockedStreams = {} /\ dataLimitsChanged = FALSE
    /\ streamsDataLimits = [s \in {} |-> 0]
    /\ TLSTPHandler = [MaxData |-> tpLocal.MaxData,
                       MaxStreamDataBidiLocal |-> tpLocal.MaxStreamDataBidiLocal]
    /\ FlowControlQueue = [fr \in FrameRequests |-> <<>>]
    /\ advertised = [data |-> tpLocal.MaxData, stream |-> [s \in StreamIds |-> 0]]
    /\ highest = [s \in StreamIds |-> 0]

-----------------------------------------------------------------------------
(* Handing frames to the send path.                                        *)

\* What the peer will have been told once these frames are sent.
Told(fs) ==
    [data |-> FoldSet(max, advertised.data, {f.value : f \in {g \in fs : g.type = "MAX_DATA"}}),
     stream |-> [s \in StreamIds |->
         FoldSet(max, advertised.stream[s],
                 {f.value : f \in {g \in fs : g.type = "MAX_STREAM_DATA" /\ g.stream = s}})]]

Of(t, level) == [FrameType |-> t, EncryptionLevel |-> level]

\* SubmitFrame for each frame in turn: queued by type and level when frame
\* sending is disabled, given to conn.FrameQueue otherwise.
SubmitFrames(fs, level) ==
    IF DisableFrameSending
    THEN /\ \A f \in ToSet(fs) : Len(FlowControlQueue[Of(f.type, level)]) < QueueBound
         /\ FlowControlQueue' = [fr \in FrameRequests |->
                FlowControlQueue[fr] \o SelectSeq(fs, LAMBDA f : Of(f.type, level) = fr)]
         /\ UNCHANGED advertised
    ELSE advertised' = Told(ToSet(fs)) /\ UNCHANGED FlowControlQueue

-----------------------------------------------------------------------------
(* InitStreamLimits                                                        *)

InitialWriteLimit(s) ==
    IF WriteLimit[s] # MaxUint64 \/ IsUniServer(s) THEN WriteLimit[s]
    ELSE IF IsUni(s) THEN RemoteFC.MaxStreamDataUni
    ELSE IF IsBidiClient(s) THEN RemoteFC.MaxStreamDataBidiRemote
    ELSE RemoteFC.MaxStreamDataBidiLocal

InitialReadLimit(s) ==
    IF ReadLimit[s] # MaxUint64 \/ IsUniClient(s) THEN ReadLimit[s]
    ELSE IF IsUni(s) THEN LocalFC.MaxStreamDataUni
    ELSE IF IsBidiClient(s) THEN LocalFC.MaxStreamDataBidiLocal
    ELSE LocalFC.MaxStreamDataBidiRemote

-----------------------------------------------------------------------------
(* The transport parameters of the peer are known.                         *)
tpReceived ==
    /\ ~ready
    /\ ready' = TRUE
    /\ LocalFC' = [tpLocal EXCEPT !.MaxData = TLSTPHandler.MaxData,
                        !.MaxStreamDataBidiLocal = TLSTPHandler.MaxStreamDataBidiLocal]
    /\ RemoteFC' = tpRemote
    /\ UNCHANGED <<ReadLimit, dataRead, dataLimitsChanged, streamsDataLimits, highest,
                   WriteLimit, WriteReserved, dataReserved, flags, TLSTPHandler,
                   output>>

(* Frames of the ProtectedPackets received.                                *)
\* Mutant: the check for a non-increasing MAX_DATA is dropped.
MaxDataFrameAnyLimit(MaximumData) ==
    /\ dataBlocked' = (dataBlocked /\ MaximumData <= RemoteFC.MaxData)
    /\ RemoteFC' = [RemoteFC EXCEPT !.MaxData = MaximumData]
    /\ UNCHANGED <<ready, local, WriteLimit, WriteReserved, dataReserved, bidiStreamsBlocked,
                   uniStreamsBlocked, blockedStreams, TLSTPHandler, output>>

MaxDataFrame(MaximumData) ==
    /\ RemoteFC.MaxData <= MaximumData
    /\ dataBlocked' = (dataBlocked /\ MaximumData <= RemoteFC.MaxData)
    /\ RemoteFC' = [RemoteFC EXCEPT !.MaxData = MaximumData]
    /\ UNCHANGED <<ready, local, WriteLimit, WriteReserved, dataReserved, bidiStreamsBlocked,
                   uniStreamsBlocked, blockedStreams, TLSTPHandler, output>>

MaxBidiStreamsFrame(MaximumStreams) ==
    /\ RemoteFC.StreamsBidi <= MaximumStreams
    /\ bidiStreamsBlocked' = (bidiStreamsBlocked /\ MaximumStreams <= RemoteFC.StreamsBidi)
    /\ RemoteFC' = [RemoteFC EXCEPT !.StreamsBidi = MaximumStreams]
    /\ UNCHANGED <<ready, local, WriteLimit, WriteReserved, dataReserved, dataBlocked,
                   uniStreamsBlocked, blockedStreams, TLSTPHandler, output>>

MaxUniStreamsFrame(MaximumStreams) ==
    /\ RemoteFC.StreamsUni <= MaximumStreams
    /\ uniStreamsBlocked' = (uniStreamsBlocked /\ MaximumStreams <= RemoteFC.StreamsUni)
    /\ RemoteFC' = [RemoteFC EXCEPT !.StreamsUni = MaximumStreams]
    /\ UNCHANGED <<ready, local, WriteLimit, WriteReserved, dataReserved, dataBlocked,
                   bidiStreamsBlocked, blockedStreams, TLSTPHandler, output>>

Increasing(s, MaximumStreamData) == WriteLimit[s] <= MaximumStreamData

MaxStreamDataFrame(s, MaximumStreamData) ==
    /\ ~IsUniServer(s)
    /\ IF Increasing(s, MaximumStreamData)
       THEN /\ WriteLimit' = [WriteLimit EXCEPT ![s] = MaximumStreamData]
            /\ blockedStreams' = IF MaximumStreamData > WriteLimit[s]
                                 THEN blockedStreams \ {s} ELSE blockedStreams
       ELSE UNCHANGED <<WriteLimit, blockedStreams>>
    /\ UNCHANGED <<ready, local, RemoteFC, WriteReserved, dataReserved, dataBlocked,
                   bidiStreamsBlocked, uniStreamsBlocked, TLSTPHandler, output>>

\* The stream is one the peer may open.
MayBeOpen(s) ==
    /\ ~( /\ IsBidiServer(s)
          /\ LocalFC.StreamsBidi = 0 \/ GetMaxBidiServer(LocalFC.StreamsBidi) < s )
    /\ ~( /\ IsUniServer(s)
          /\ LocalFC.StreamsUni = 0 \/ GetMaxUniServer(LocalFC.StreamsUni) < s )

\* bufSpaceRequired is the end of the frame: nothing moves ReadBufferOffset from 0.
Accepts(s, end) ==
    /\ end <= InitialReadLimit(s)
    /\ end > 0
    /\ dataRead + end <= LocalFC.MaxData

Slid(limit, end) == limit + end

Mark(s, limit) == (s :> limit) @@ streamsDataLimits

StreamFrame(s, end) ==
    /\ MayBeOpen(s)
    /\ WriteLimit' = [WriteLimit EXCEPT ![s] = InitialWriteLimit(s)]
    /\ LET slides == Accepts(s, end) /\ ~DontSlideCreditWindow
           limit == IF slides THEN Slid(InitialReadLimit(s), end) ELSE InitialReadLimit(s) IN
       /\ ReadLimit' = [ReadLimit EXCEPT ![s] = limit]
       /\ LocalFC' = IF slides THEN [LocalFC EXCEPT !.MaxData = Slid(@, end)] ELSE LocalFC
       /\ dataLimitsChanged' = (dataLimitsChanged \/ slides)
       /\ streamsDataLimits' = IF slides THEN Mark(s, limit) ELSE streamsDataLimits
    /\ dataRead' = IF Accepts(s, end) THEN dataRead + end ELSE dataRead
    /\ highest' = IF Accepts(s, end) THEN [highest EXCEPT ![s] = max(@, end)] ELSE highest
    /\ dataRead' <= DataBound
    /\ UNCHANGED <<ready, RemoteFC, WriteReserved, dataReserved, flags, TLSTPHandler, output>>

-----------------------------------------------------------------------------
(* ReserveCredit and ReserveAtMost: what the goroutine does on a request.  *)
OverBidiLimit(s) ==
    IsBidiClient(s) /\ (RemoteFC.StreamsBidi = 0 \/ GetMaxBidiClient(RemoteFC.StreamsBidi) < s)
OverUniLimit(s) ==
    IsUniClient(s) /\ (RemoteFC.StreamsUni = 0 \/ GetMaxUniClient(RemoteFC.StreamsUni) < s)

RefusedBidi(s) ==
    /\ OverBidiLimit(s) /\ ~bidiStreamsBlocked
    /\ bidiStreamsBlocked' = TRUE
    /\ SubmitFrames(<<Frame("BIDI_STREAMS_BLOCKED", NoStream, RemoteFC.StreamsBidi)>>, "BestAppData")
    /\ UNCHANGED <<remote, dataBlocked, uniStreamsBlocked, blockedStreams>>

\* uniStreamsBlocked is set to FALSE, as in the code: it is never TRUE.
RefusedUni(s) ==
    /\ OverUniLimit(s) /\ ~uniStreamsBlocked
    /\ uniStreamsBlocked' = FALSE
    /\ SubmitFrames(<<Frame("UNI_STREAMS_BLOCKED", NoStream, RemoteFC.StreamsUni)>>, "BestAppData")
    /\ UNCHANGED <<remote, dataBlocked, bidiStreamsBlocked, blockedStreams>>

\* args.Credit after the adjustment of a partial reservation.
Credit(s, amount, Partial) ==
    IF Partial
    THEN min(min(amount, InitialWriteLimit(s) - WriteReserved[s]),
             min(amount, RemoteFC.MaxData - dataReserved))
    ELSE amount

\* Mutant: only the limit of the stream is checked.
EnoughOnStreamOnly(s, credit) == WriteReserved[s] + credit <= InitialWriteLimit(s)

Enough(s, credit) ==
    /\ WriteReserved[s] + credit <= InitialWriteLimit(s)
    /\ dataReserved + credit <= RemoteFC.MaxData

\* Mutant: the credit is not counted on the connection.
TakeOnStreamOnly(s, creditReserved) ==
    /\ WriteReserved' = [WriteReserved EXCEPT ![s] = @ + creditReserved]
    /\ UNCHANGED dataReserved

Take(s, creditReserved) ==
    /\ WriteReserved' = [WriteReserved EXCEPT ![s] = @ + creditReserved]
    /\ dataReserved' = dataReserved + creditReserved

\* dataBlocked is decided with LocalFC and told with the limit of the stream, as in the code.
Reserved(s, credit) ==
    LET creditReserved == IF Enough(s, credit) THEN credit ELSE 0
        nowBlocked == /\ s \notin blockedStreams
                      /\ \/ WriteReserved[s] + creditReserved >= InitialWriteLimit(s)
                         \/ creditReserved < credit
        nowDataBlocked == ~dataBlocked /\ dataReserved + creditReserved >= LocalFC.MaxData
    IN /\ ~(OverBidiLimit(s) /\ ~bidiStreamsBlocked)
       /\ ~(OverUniLimit(s) /\ ~uniStreamsBlocked)
       /\ WriteLimit' = [WriteLimit EXCEPT ![s] = InitialWriteLimit(s)]
       /\ Take(s, creditReserved)
       /\ blockedStreams' = IF nowBlocked THEN blockedStreams \cup {s} ELSE blockedStreams
       /\ dataBlocked' = (dataBlocked \/ nowDataBlocked)
       /\ SubmitFrames(
             (IF nowBlocked THEN <<Frame("STREAM_DATA_BLOCKED", s, InitialWriteLimit(s))>> ELSE <<>>)
             \o (IF nowDataBlocked
                 THEN <<Frame("DATA_BLOCKED", NoStream, InitialWriteLimit(s))>> ELSE <<>>),
             "BestAppData")
       /\ UNCHANGED <<RemoteFC, bidiStreamsBlocked, uniStreamsBlocked>>

reserveCredit(s, amount, Partial) ==
    /\ ready
    /\ \/ RefusedBidi(s) /\ UNCHANGED ReadLimit
       \/ RefusedUni(s) /\ UNCHANGED ReadLimit
       \/ /\ Reserved(s, Credit(s, amount, Partial))
          /\ ReadLimit' = [ReadLimit EXCEPT ![s] = InitialReadLimit(s)]
    /\ UNCHANGED <<ready, LocalFC, dataRead, dataLimitsChanged, streamsDataLimits, highest,
                   TLSTPHandler>>

-----------------------------------------------------------------------------
(* The SendingAgent asks for the frames of a packet.                       *)
FrameLength(f) == IF f.type \in {"MAX_STREAM_DATA", "STREAM_DATA_BLOCKED"} THEN 3 ELSE 2

\* The frames of fs that fit, in order, in the space: one that does not is passed over.
Fitting(fs, space) ==
    FoldLeft(LAMBDA acc, f :
                 IF acc.size + FrameLength(f) < space
                 THEN [size |-> acc.size + FrameLength(f), frames |-> Append(acc.frames, f)]
                 ELSE acc,
             [size |-> 0, frames |-> <<>>], fs).frames

If(cond, f) == IF cond THEN <<f>> ELSE <<>>

\* Mutant: the marks of changed stream limits are dropped without their frames.
LimitFramesWithoutStreams(order) ==
    If(dataLimitsChanged, Frame("MAX_DATA", NoStream, LocalFC.MaxData))

\* The order is the one in which Go visits the map of changed stream limits.
LimitFrames(order) ==
    If(dataLimitsChanged, Frame("MAX_DATA", NoStream, LocalFC.MaxData))
    \o [i \in 1..Len(order) |-> Frame("MAX_STREAM_DATA", order[i], streamsDataLimits[order[i]])]

BlockedFrames(order) ==
    If(dataBlocked, Frame("DATA_BLOCKED", NoStream, RemoteFC.MaxData))
    \o If(bidiStreamsBlocked, Frame("BIDI_STREAMS_BLOCKED", NoStream, RemoteFC.StreamsBidi))
    \o If(uniStreamsBlocked, Frame("UNI_STREAMS_BLOCKED", NoStream, RemoteFC.StreamsUni))
    \o [i \in 1..Len(order) |-> Frame("STREAM_DATA_BLOCKED", order[i], WriteLimit[order[i]])]

requestFrame(availableSpace) ==
    /\ \E changed \in SetToSeqs(DOMAIN streamsDataLimits), blocked \in SetToSeqs(blockedStreams) :
          SubmitFrames(Fitting(LimitFrames(changed) \o BlockedFrames(blocked), availableSpace), "1RTT")
    /\ dataLimitsChanged' = FALSE
    /\ streamsDataLimits' = [s \in {} |-> 0]
    /\ UNCHANGED <<ready, LocalFC, ReadLimit, dataRead, highest, remote, flags, TLSTPHandler>>

-----------------------------------------------------------------------------
(* The adapter asks for a frame (SendFromQueue).                           *)
QueuedFrame(fr) ==
    /\ FlowControlQueue[fr] # <<>>
    /\ advertised' = Told({Head(FlowControlQueue[fr])})
    /\ FlowControlQueue' = [FlowControlQueue EXCEPT ![fr] = Tail(@)]
    /\ UNCHANGED TLSTPHandler

NewFrame(fr) ==
    /\ FlowControlQueue[fr] = <<>>
    /\ TLSTPHandler' = [MaxData |-> ForcedMaxData,
                        MaxStreamDataBidiLocal |-> 2 * TLSTPHandler.MaxStreamDataBidiLocal]
    /\ TLSTPHandler'.MaxStreamDataBidiLocal <= DataBound
    /\ advertised' =
          CASE fr.FrameType = "MAX_DATA" -> Told({Frame("MAX_DATA", NoStream, ForcedMaxData)})
            [] fr.FrameType = "MAX_STREAM_DATA" ->
                  Told({Frame("MAX_STREAM_DATA", max(CurrentStreamID - 4, 0),
                              TLSTPHandler'.MaxStreamDataBidiLocal)})
            [] OTHER -> advertised
    /\ UNCHANGED FlowControlQueue

SendFromQueue(fr) ==
    /\ QueuedFrame(fr) \/ NewFrame(fr)
    /\ UNCHANGED <<ready, local, remote, flags>>

-----------------------------------------------------------------------------
IncomingPackets ==
    \E l \in Limits :
        \/ MaxDataFrame(l) \/ MaxBidiStreamsFrame(l) \/ MaxUniStreamsFrame(l)
        \/ \E s \in StreamIds : MaxStreamDataFrame(s, l) \/ StreamFrame(s, l)

Next ==
    /\ \/ tpReceived
       \/ IncomingPackets
       \/ \E s \in StreamIds, amount \in Limits, Partial \in BOOLEAN :
              reserveCredit(s, amount, Partial)
       \/ \E space \in Spaces : requestFrame(space)
       \/ \E fr \in Requests : SendFromQueue(fr)
    /\ UNCHANGED config

Spec == Init /\ [][Next]_vars

-----------------------------------------------------------------------------
(* Properties *)

\* The credit reserved stays within what the peer allows, on each stream and on
\* the connection, whatever the interleaving of reservations, MAX_DATA,
\* MAX_STREAM_DATA and transport parameters.  The subtractions of a partial
\* reservation, on unsigned integers, rely on it.
ReservedWithinLimits ==
    /\ dataReserved <= RemoteFC.MaxData
    /\ \A s \in StreamIds : WriteReserved[s] <= WriteLimit[s]

\* The connection's counter of reserved credit is the sum of those of the streams.
CreditAddsUp == dataReserved = FoldFunction(+, 0, WriteReserved)

\* Once the transport parameters are known, the limits set by the peer only grow.
GrantsOnlyGrow ==
    [][ready => /\ RemoteFC'.MaxData >= RemoteFC.MaxData
                /\ RemoteFC'.StreamsBidi >= RemoteFC.StreamsBidi
                /\ RemoteFC'.StreamsUni >= RemoteFC.StreamsUni
                /\ \A s \in StreamIds :
                      WriteLimit[s] # MaxUint64 => WriteLimit'[s] >= WriteLimit[s]]_vars

\* The limits told and the limits enforced agree.  A raised limit is either marked for the
\* next packet or has been handed to the send path, as long as the packets asked for have
\* room for all of the frames (requestFrame clears every mark, and leaves out the frames
\* that do not fit).  And the peer is never told a limit beyond the one enforced, so that
\* data within it is not taken for a flow control violation; but the frames made on request
\* advertise a limit of their own, which is not enforced.
LimitsToldAndEnforced ==
    /\ ~DontSlideCreditWindow =>
          /\ dataLimitsChanged \/ LocalFC.MaxData <= advertised.data
          /\ \A s \in StreamIds :
                \/ s \in DOMAIN streamsDataLimits \/ highest[s] = 0
                \/ ReadLimit[s] <= advertised.stream[s]
    /\ ready /\ Requests = {} =>
          /\ advertised.data <= LocalFC.MaxData
          /\ \A s \in StreamIds : advertised.stream[s] <= ReadLimit[s]

=============================================================================
