------------------------------ MODULE Recovery ------------------------------
(***************************************************************************)
(* Loss recovery (agents/recovery_agent.go) between the senders of the     *)
(* connection and a peer, over a network that loses, delays and reorders.  *)
(*                                                                         *)
(* The agent learns of a packet that was sent through OutgoingPackets, of  *)
(* what arrives through IncomingPackets, and of encryption levels through  *)
(* a third channel; its select takes them in any order.  A packet that is  *)
(* not acknowledged within TimerValue goes back, frame by frame, to the    *)
(* FrameQueue; the first flight goes back as a packet, to SendPacket.      *)
(*                                                                         *)
(* A frame is a name, queued for one level or for the best one for         *)
(* application data.  Time is abstracted: the timer of a packet runs out   *)
(* once nothing about it is on its way, or, MaxEarly times, before that.   *)
(***************************************************************************)
EXTENDS Integers, FiniteSets, SequencesExt, FiniteSetsExt

CONSTANTS
    Workloads,     \* what happens: the frames to be sent with their levels, the packets that each
                   \* number space may use, and one event, or "none"
    MaxBehind,     \* sent packets, and changes of level, that the agent has not heard of yet
    MaxIncoming,   \* packets on their way from the peer
    MaxLoss,       \* packets and acknowledgements that get lost
    MaxEarly       \* timers that run out while the packet or its ACK is on its way

Levels == {"Initial", "0RTT", "Handshake", "1RTT"}
PNSpaces == {"Initial", "Handshake", "AppData"}
SpaceOf(level) == IF level \in {"0RTT", "1RTT", "BestAppData"} THEN "AppData" ELSE level

ASSUME RecoveryAssumption ==
    /\ \A w \in Workloads : /\ \A f \in DOMAIN w.level : w.level[f] \in Levels \cup {"BestAppData"}
                            /\ w.numbers \in [PNSpaces -> Nat]
                            /\ w.event \in {"none", "close", "peerClose", "retry"}
    /\ {MaxBehind, MaxIncoming, MaxLoss, MaxEarly} \subseteq Nat

VARIABLES
    work,                   \* the workload of this behaviour
    PacketNumber,           \* by space, the next number
    FrameQueue,             \* frames that wait for a packet, with the level they are queued for
    SendPacket,             \* packets that wait to be sent as they are
    outgoing, incoming, eLAvailable,   \* the channels of the agent (incoming: and the way to it)
    network, received,      \* packets on their way, numbers the peer has
    delivered,              \* the frames that the peer has
    retransmissionBuffer,   \* packets to be acknowledged: space, number, frames, level
    packetsSent,            \* by space, the numbers that the agent has seen leave
    closing,                \* "no", "closed" (ConnectionClosed), "stopping" (a.close), "stopped"
    excused,                \* frames that a gap in an ACK, or a batch cut short, may have dropped
    stage,                  \* handshake: 1 1RTT available, 2 Initial dropped, 3 Handshake dropped
    lost, early             \* counters for the bounds

wire == <<network, received, delivered, lost>>
agent == <<retransmissionBuffer, packetsSent, closing, excused>>
vars == <<work, PacketNumber, FrameQueue, SendPacket, outgoing, incoming, eLAvailable, stage, wire, agent, early>>

Frames == DOMAIN work.level

Framer(space, pn, frames, level, close) ==
    [space |-> space, pn |-> pn, frames |-> frames, level |-> level, close |-> close]

Init ==
    /\ work \in Workloads
    /\ PacketNumber = [s \in PNSpaces |-> 0]
    /\ FrameQueue = {[frame |-> f, level |-> work.level[f]] : f \in Frames}
    /\ SendPacket = <<>> /\ outgoing = <<>> /\ incoming = {}
    /\ network = {} /\ received = [s \in PNSpaces |-> {}]
    /\ delivered = {} /\ lost = 0 /\ early = 0
    /\ retransmissionBuffer = {} /\ packetsSent = [s \in PNSpaces |-> {}]
    /\ closing = "no" /\ excused = {}
    /\ stage = IF \E f \in Frames : work.level[f] = "Initial" THEN 0 ELSE 1
    /\ eLAvailable = IF stage = 0 THEN <<>> ELSE <<1>>

-----------------------------------------------------------------------------
(* The senders and the network.                                            *)

nextPacketNumber(s) == PacketNumber' = [PacketNumber EXCEPT ![s] = @ + 1]

Transmit(p) ==
    /\ Len(outgoing) < MaxBehind
    /\ network' = network \cup {p}
    /\ outgoing' = Append(outgoing, p)

\* The levels that packets are asked for: 0RTT only as the best one for application data, so
\* not once there is 1RTT.  A level that is dropped can still be used.
Available(level) ==
    CASE level = "Initial" -> TRUE [] level = "0RTT" -> stage = 0
      [] level \in {"Handshake", "1RTT"} -> stage >= 1

\* The entries that a packet of a level may carry.
Queued(level) ==
    {q \in FrameQueue : q.level = level \/ (level \in {"0RTT", "1RTT"} /\ q.level = "BestAppData")}

\* A packet is asked for, and the SendingAgent puts queued frames of one level in it.
SendFrames(entries, level) ==
    LET s == SpaceOf(level)
    IN  /\ entries # {} /\ PacketNumber[s] < work.numbers[s] /\ Available(level)
        /\ FrameQueue' = FrameQueue \ entries
        /\ nextPacketNumber(s)
        /\ Transmit(Framer(s, PacketNumber[s], {q.frame : q \in entries}, level, FALSE))
        /\ UNCHANGED <<work, SendPacket, incoming, eLAvailable, stage, received, delivered, lost, agent, early>>

SendWholePacket ==
    /\ SendPacket # <<>>
    /\ Transmit(Head(SendPacket)) /\ SendPacket' = Tail(SendPacket)
    /\ UNCHANGED <<work, PacketNumber, FrameQueue, incoming, eLAvailable, stage, received, delivered, lost, agent, early>>

\* The last packet of a connection.
SendClose ==
    /\ work.event = "close" /\ PacketNumber["AppData"] < work.numbers["AppData"]
    /\ closing = "no" /\ \A i \in DOMAIN outgoing : ~outgoing[i].close
    /\ nextPacketNumber("AppData")
    /\ Transmit(Framer("AppData", PacketNumber["AppData"], {}, "1RTT", TRUE))
    /\ UNCHANGED <<work, FrameQueue, SendPacket, incoming, eLAvailable, stage, received, delivered, lost, agent, early>>

\* The frame that acknowledges the given numbers: its ranges, from the largest down, and
\* before each but the first the gap, which counts from zero.
AckFrame(numbers) ==
    LET lows   == {n \in numbers : n - 1 \notin numbers}
        lowSeq == SetToSortSeq(lows, LAMBDA a, b : a > b)
        High(i) == Max({n \in numbers : \A m \in lowSeq[i] .. n : m \in numbers})
    IN  [LargestAcknowledged |-> Max(numbers),
         AckRanges |-> [i \in DOMAIN lowSeq |->
             [Gap |-> IF i = 1 THEN 0 ELSE lowSeq[i - 1] - High(i) - 2,
              AckRange |-> High(i) - lowSeq[i]]]]

\* The peer gets a packet, and answers one that has frames with all it has so far.
\* Some peers do not acknowledge Initial packets; a server may ask the client to start again.
Arrive(p, answer) ==
    LET numbers == received[p.space] \cup {p.pn}
        Framed(acks) == [type |-> "Framer", space |-> p.space, close |-> FALSE, acks |-> acks]
    IN  /\ Cardinality(incoming) < MaxIncoming
        /\ network' = network \ {p}
        /\ received' = [received EXCEPT ![p.space] = IF answer = "Retry" THEN @ ELSE numbers]
        /\ delivered' = IF answer = "Retry" THEN delivered ELSE delivered \cup p.frames
        /\ incoming' = incoming \cup
               CASE answer = "none" -> {} [] answer = "ACK" -> {Framed(<<AckFrame(numbers)>>)}
                 [] answer = "CRYPTO" -> {Framed(<<>>)} [] answer = "Retry" -> {[type |-> "Retry"]}
        /\ UNCHANGED <<work, PacketNumber, FrameQueue, SendPacket, outgoing, eLAvailable, stage, lost, agent, early>>

AnswersTo(p) ==
    IF p.frames = {} THEN {"none"}
    ELSE {"ACK"} \cup (IF p.space = "Initial" THEN {"CRYPTO"} ELSE {})
           \cup (IF p.space = "Initial" /\ work.event = "retry" THEN {"Retry"} ELSE {})

PeerClose ==
    /\ work.event = "peerClose" /\ Cardinality(incoming) < MaxIncoming
    /\ incoming' = incoming \cup {[type |-> "Framer", space |-> "AppData", close |-> TRUE, acks |-> <<>>]}
    /\ UNCHANGED <<work, PacketNumber, FrameQueue, SendPacket, outgoing, eLAvailable, stage, wire, agent, early>>

Lose ==
    /\ lost < MaxLoss /\ lost' = lost + 1
    /\ \/ \E p \in network : network' = network \ {p} /\ UNCHANGED incoming
       \/ \E p \in incoming : incoming' = incoming \ {p} /\ UNCHANGED network
    /\ UNCHANGED <<work, PacketNumber, FrameQueue, SendPacket, outgoing, eLAvailable, stage, received, delivered, agent, early>>

-----------------------------------------------------------------------------
(* The agent.                                                              *)

PNs(s) == {e.pn : e \in {b \in retransmissionBuffer : b.space = s}}
Without(s, numbers) == {e \in retransmissionBuffer : ~(e.space = s /\ e.pn \in numbers)}
FramesOf(entries) == UNION {e.frames : e \in entries}
Requeued(entries) == UNION {{[frame |-> f, level |-> e.level] : f \in e.frames} : e \in entries}

\* Mutant: everything up to the number is taken for acknowledged.
PacketAcknowledgedCumulative(st, pn, s) ==
    [st EXCEPT !.buffer = @ \ (0 .. pn), !.acked = @ \cup (0 .. pn)]

\* A number that the agent has not seen leave is ignored.
PacketAcknowledged(st, pn, s) ==
    IF pn \in packetsSent[s] THEN [st EXCEPT !.buffer = @ \ {pn}, !.acked = @ \cup {pn}] ELSE st

\* One step through a gap: the number above is looked up, the number below is deleted.
WalkGap(st) ==
    [st EXCEPT !.lost = @ \cup ({st.current} \cap st.buffer), !.current = @ - 1,
               !.buffer = @ \ {st.current - 1}]

\* The number is not moved through the ranges, and by one too few through a gap.  For
\* acknowledgements of fewer numbers than the threshold, 1000.
ProcessAck(ack, s) ==
    LET first == PacketAcknowledged([current |-> ack.LargestAcknowledged, buffer |-> PNs(s),
                                     acked |-> {}, lost |-> {}], ack.LargestAcknowledged, s)
        Block(st, b) ==
            LET past == FoldLeft(LAMBDA t, i : WalkGap(t), st, [i \in 1 .. b.Gap + 1 |-> i])
            IN  IF b.AckRange > 0 THEN PacketAcknowledged(past, past.current, s) ELSE past
    IN  FoldLeft(Block, first, Tail(ack.AckRanges))

\* An Initial packet with more than 200 frames: the ClientHello and its padding.
FirstFlight(e) == e.level = "Initial"

\* The frames go back to the queue, for the level of the packet they were in.  The batch takes
\* the spaces in any order; a first flight in it goes back as a packet and ends the
\* batch.  kept: the part that was handed on.
RetransmitBatch(batch, kept) ==
    \/ /\ kept = batch /\ \A e \in batch : ~FirstFlight(e)
       /\ FrameQueue' = FrameQueue \cup Requeued(batch)
       /\ UNCHANGED <<SendPacket, PacketNumber>>
    \/ \E e \in batch, before \in SUBSET {"Handshake", "AppData"} :
         /\ FirstFlight(e) /\ kept = {e} \cup {b \in batch : b.space \in before}
         /\ PacketNumber["Initial"] < work.numbers["Initial"]
         /\ FrameQueue' = FrameQueue \cup Requeued(kept \ {e})
         /\ nextPacketNumber("Initial")
         /\ SendPacket' = Append(SendPacket, Framer("Initial", PacketNumber["Initial"], e.frames, "Initial", FALSE))

\* Nothing about the packet is on its way any more.
Settled(e) ==
    /\ \A p \in network : ~(p.space = e.space /\ p.pn = e.pn)
    /\ \A p \in incoming : p.type = "Framer" => p.space # e.space

\* Mutant: the application's packets are not looked at.
DueHandshakeOnly(e) == Settled(e) /\ e.space # "AppData"

Due(e) == Settled(e)

Tick ==
    /\ closing # "stopped"
    /\ \E batch \in SUBSET retransmissionBuffer :
         /\ batch # {}
         /\ \/ (\A e \in batch : Due(e)) /\ UNCHANGED early
            \/ early < MaxEarly /\ Cardinality(batch) = 1 /\ (\E e \in batch : ~Settled(e)) /\ early' = early + 1
         /\ \E kept \in SUBSET batch : /\ RetransmitBatch(batch, kept)
                                       /\ excused' = excused \cup FramesOf(batch \ kept)
         /\ retransmissionBuffer' = retransmissionBuffer \ batch
    /\ UNCHANGED <<work, outgoing, incoming, eLAvailable, stage, wire, packetsSent, closing>>

\* A packet with one ACK at most.  Without an ACK, an Initial packet empties its buffer.
ReceiveFramer(p) ==
    LET r == IF p.acks = <<>> THEN [buffer |-> IF p.space = "Initial" THEN {} ELSE PNs(p.space),
                                    acked |-> {}, lost |-> {}]
                              ELSE ProcessAck(p.acks[1], p.space)
        lostPackets == {e \in retransmissionBuffer : e.space = p.space /\ e.pn \in r.lost}
        hasGap == p.acks # <<>> /\ Len(p.acks[1].AckRanges) > 1
    IN  /\ retransmissionBuffer' = Without(p.space, PNs(p.space) \ r.buffer)
        /\ RetransmitBatch(lostPackets, lostPackets)
        /\ excused' = IF hasGap
                      THEN excused \cup FramesOf({e \in retransmissionBuffer :
                               e.space = p.space /\ e.pn < p.acks[1].LargestAcknowledged})
                      ELSE excused
        /\ closing' = IF p.close THEN "stopping" ELSE closing

\* A Retry or Version Negotiation packet empties the Initial buffer.
ReceiveRetry ==
    /\ retransmissionBuffer' = Without("Initial", PNs("Initial"))
    /\ UNCHANGED <<FrameQueue, SendPacket, PacketNumber, excused, closing>>

Receive(p) ==
    /\ closing # "stopped" /\ incoming' = incoming \ {p}
    /\ IF p.type = "Framer" THEN ReceiveFramer(p) ELSE ReceiveRetry
    /\ UNCHANGED <<work, outgoing, eLAvailable, stage, wire, packetsSent, early>>

\* Mutant: a frame that has been sent again is not kept once more.
RegisterOnce(p) ==
    IF p.frames = {} \/ p.pn > 1 THEN {} ELSE {[space |-> p.space, pn |-> p.pn, frames |-> p.frames, level |-> p.level]}

\* What is kept of a packet: its frames, if it has any to be sent again.
Register(p) ==
    IF p.frames = {} THEN {} ELSE {[space |-> p.space, pn |-> p.pn, frames |-> p.frames, level |-> p.level]}

\* Mutant: the application's buffer is not emptied.
KeptOnCloseAppData == {e \in retransmissionBuffer : e.space = "AppData"}
KeptOnClose == {}

\* A packet has been sent; one with a CLOSE empties the buffers.
Sent ==
    /\ closing # "stopped" /\ outgoing # <<>>
    /\ LET p == Head(outgoing)
       IN  /\ packetsSent' = [packetsSent EXCEPT ![p.space] = @ \cup {p.pn}]
           /\ retransmissionBuffer' = IF p.close THEN KeptOnClose ELSE retransmissionBuffer \cup Register(p)
           /\ closing' = IF p.close /\ closing = "no" THEN "closed" ELSE closing
    /\ outgoing' = Tail(outgoing)
    /\ UNCHANGED <<work, PacketNumber, FrameQueue, SendPacket, incoming, eLAvailable, stage, wire, excused, early>>

\* An encryption level has changed: when 1RTT is available the two buffers of the handshake
\* are emptied, when a level is dropped its own.
LevelEvent ==
    /\ closing # "stopped" /\ eLAvailable # <<>>
    /\ LET dropped == CASE Head(eLAvailable) = 1 -> {"Initial", "Handshake"}
                         [] Head(eLAvailable) = 2 -> {"Initial"}
                         [] Head(eLAvailable) = 3 -> {"Handshake"}
       IN  retransmissionBuffer' = {e \in retransmissionBuffer : e.space \notin dropped}
    /\ eLAvailable' = Tail(eLAvailable)
    /\ UNCHANGED <<work, PacketNumber, FrameQueue, SendPacket, outgoing, incoming, stage, wire,
                   packetsSent, closing, excused, early>>

\* The ClosingAgent has closed the channel ConnectionClosed, after a CLOSE or the idle
\* timeout; from then on the case is always ready.
ConnectionClosed ==
    /\ work.event = "close" /\ closing \in {"no", "closed"}
    /\ closing' = "closed" /\ retransmissionBuffer' = KeptOnClose
    /\ UNCHANGED <<work, PacketNumber, FrameQueue, SendPacket, outgoing, incoming, eLAvailable, stage, wire,
                   packetsSent, excused, early>>

Terminate ==
    /\ closing = "stopping" /\ closing' = "stopped"
    /\ UNCHANGED <<work, PacketNumber, FrameQueue, SendPacket, outgoing, incoming, eLAvailable, stage, wire,
                   retransmissionBuffer, packetsSent, excused, early>>

\* The handshake goes on: the server must have the frames that it is waiting for.
Handshake ==
    /\ stage < 3 /\ Len(eLAvailable) < MaxBehind
    /\ \A f \in Frames : (work.level[f] = "Initial" \/ (work.level[f] = "Handshake" /\ stage >= 1)) => f \in delivered
    /\ stage' = stage + 1 /\ eLAvailable' = Append(eLAvailable, stage + 1)
    /\ UNCHANGED <<work, PacketNumber, FrameQueue, SendPacket, outgoing, incoming, wire, agent, early>>

-----------------------------------------------------------------------------
\* What the agent does.
Agent ==
    \/ Tick \/ Sent \/ LevelEvent \/ Terminate
    \/ closing = "closed" /\ ConnectionClosed
    \/ \E p \in incoming : Receive(p)

\* What happens around it, until it knows that the connection closes: later packets make
\* no difference to it.
SendQueued ==
    /\ closing = "no"
    /\ \E level \in Levels : \E entries \in SUBSET Queued(level) : SendFrames(entries, level)

Around ==
    /\ closing = "no"
    /\ \/ SendWholePacket
       \/ \E p \in network : \E answer \in AnswersTo(p) : Arrive(p, answer)
       \/ Handshake

Fault == closing = "no" /\ (SendClose \/ ConnectionClosed \/ PeerClose \/ Lose)

Next == Agent \/ Around \/ SendQueued \/ Fault

\* The goroutines run on, the ticker ticks, and what is not lost arrives.
Spec == Init /\ [][Next]_vars /\ WF_vars(Agent \/ Around)

\* An assumption about the users of the connection: the FrameQueueAgent does not ask for packets
\* (the Submit in its Run is commented out), others have to, and go on doing so.
PacketsAreAskedFor == WF_vars(SendQueued)

-----------------------------------------------------------------------------
TypeOK ==
    /\ PacketNumber \in [PNSpaces -> Nat] /\ work \in Workloads 
    /\ \A q \in FrameQueue : q.frame \in Frames /\ SpaceOf(q.level) = SpaceOf(work.level[q.frame])
    /\ delivered \subseteq Frames /\ excused \subseteq Frames
    /\ \A e \in retransmissionBuffer : e.space = SpaceOf(e.level) /\ e.frames # {}
    /\ \A p \in network : p.pn < PacketNumber[p.space]
    /\ \A s \in PNSpaces : packetsSent[s] \subseteq 0 .. PacketNumber[s] - 1
    /\ stage \in 0 .. 3 /\ closing \in {"no", "closed", "stopping", "stopped"}

Somewhere ==
    {q.frame : q \in FrameQueue} \cup FramesOf(network) \cup FramesOf(retransmissionBuffer)
        \cup FramesOf(Range(outgoing)) \cup FramesOf(Range(SendPacket))

\* As long as the connection is not closing, a frame of the application that the peer does
\* not have is queued, on its way, or kept to be sent again (Run, RetransmitBatch), but for
\* frames below an ACK with a gap and in a batch that a first flight cut short.
NothingForgotten ==
    closing = "no" => \A f \in Frames : SpaceOf(work.level[f]) = "AppData"
                                       => f \in delivered \cup excused \cup Somewhere

\* Whichever ACK is taken next, only what the peer has is reported as acknowledged
\* (PacketAcknowledged), and only a packet that was seen to leave; unless the ACK has a gap.
AcknowledgedWereReceived ==
    \A p \in incoming :
        p.type = "Framer" /\ p.acks # <<>> /\ Len(p.acks[1].AckRanges) = 1
            => ProcessAck(p.acks[1], p.space).acked \subseteq received[p.space] \cap packetsSent[p.space]

\* Frames of a 0RTT packet that go back to the queue once there is 1RTT: no packet is asked for
\* at their level any more.
Stranded == {q.frame : q \in {e \in FrameQueue : e.level = "0RTT" /\ stage > 0}}

\* As long as packets are asked for, every frame of the application reaches the peer, whatever
\* is lost or reported late, unless the connection is closed first; with the exceptions of
\* NothingForgotten, and of early data that is lost and stays queued for 0RTT (Tick,
\* RetransmitBatch).  Behaviours that use up the numbers of the bound are left out.
EventuallyDelivered ==
    PacketsAreAskedFor =>
        <>(\/ closing # "no" \/ PacketNumber["AppData"] = work.numbers["AppData"]
           \/ \A f \in Frames : SpaceOf(work.level[f]) = "AppData" => f \in delivered \cup excused \cup Stranded)

\* Once the connection closes, the agent lets go of all that it keeps, also of packets that
\* it hears of later (ConnectionClosed), and after the peer's CLOSE it ends (Stop).
ClosingEnds == (closing # "no") ~> (retransmissionBuffer = {} \/ closing = "stopped")
=============================================================================
