------------------------------- MODULE SendPath -------------------------------
(***************************************************************************)
(* The sending half of a connection: the SendingAgent, which builds one    *)
(* packet at a time by asking the frame producing agents for frames, the   *)
(* FrameQueueAgent, which keeps queued frames by level and priority, and   *)
(* the AckAgent, which acknowledges the packets that were received.  They  *)
(* are goroutines; the broadcasters PreparePacket, SendPacket and          *)
(* EncryptionLevels are FIFO queues, RequestFrames is a rendezvous.        *)
(*                                                                         *)
(* A frame is a name with a level, a length and a priority; the other      *)
(* producers have nothing to send.  There is no 0-RTT.                     *)
(***************************************************************************)
EXTENDS Integers, Sequences, FiniteSets, Functions, TLC

CONSTANTS
    Frames,         \* the frames that other agents queue: a function to [level, length, priority]
    Capacity,       \* the space for frames in a packet
    AckLength,      \* the length of an ACK frame
    Arrivals,       \* the packets of the peer: records [level, pn, shouldBeAcknowledged]
    MaxReceived,    \* how many packets are received in each space at most
    Requests,       \* the levels at which other agents ask for a packet
    MaxPrepare,     \* how often they do
    OtherInitials   \* how many Initial packets other goroutines build

Levels == {"Initial", "Handshake", "1RTT"}
BestLevels == {"Best", "BestAppData"}

ASSUME FramesAssumption ==
    /\ Capacity \in Nat /\ AckLength \in 1 .. Capacity /\ Requests \subseteq Levels \cup BestLevels
    /\ MaxReceived \in Nat /\ MaxPrepare \in Nat /\ OtherInitials \in Nat
    /\ \A p \in Arrivals : p.level \in Levels /\ p.pn \in Nat /\ p.shouldBeAcknowledged \in BOOLEAN
    /\ IsFiniteSet(DOMAIN Frames)
    /\ \A f \in DOMAIN Frames :
          /\ Frames[f].level \in Levels \cup BestLevels
          /\ Frames[f].length \in 1 .. Capacity - AckLength
          /\ Frames[f].priority \in 1 .. 23

VARIABLES
    unqueued,          \* the frames that have not reached the FrameQueueAgent yet
    frameBuffer,       \* the FrameQueueAgent's priority queues
    PreparePacket,     \* the requests for a packet
    prepares,          \* how many requests other agents can still make
    CryptoStates,      \* the levels with write keys
    EncryptionLevels,  \* the announcements on their way to the SendingAgent
    available,         \* the levels that the SendingAgent knows to be available
    best,              \* its bestEncryptionLevels, "none" where the map has no entry
    sender,            \* the packet that it is filling
    PacketNumber,      \* the next packet number of each level's space
    SendPacket,        \* the packets that other goroutines have built
    initials,          \* how many of those can still be built
    AckQueue,          \* the packet numbers received, in order of arrival
    producers,         \* the order in which the SendingAgent asks the producing agents
    sent               \* history: the packet numbers, the frames and the acknowledgements sent

vars == <<unqueued, frameBuffer, PreparePacket, prepares, CryptoStates,
          EncryptionLevels, available, best, sender, PacketNumber, SendPacket, initials,
          AckQueue, producers, sent>>

NoAck == [largest |-> -1, ranges |-> <<>>]

Idle == [level |-> "none", pn |-> 0, asks |-> <<>>, spaceLeft |-> 0, frames |-> <<>>, ack |-> NoAck]

Init ==
    /\ unqueued = DOMAIN Frames
    /\ frameBuffer = [l \in Levels \cup BestLevels |-> {}]
    /\ PreparePacket = <<>>
    /\ prepares = MaxPrepare
    /\ CryptoStates = {"Initial"}
    /\ EncryptionLevels = <<>>
    /\ available = {"Initial"}
    /\ best = [Best |-> "Initial", BestAppData |-> "none"]
    /\ sender = Idle
    /\ PacketNumber = [l \in Levels |-> 0]
    /\ SendPacket = <<>>
    /\ initials = OtherInitials
    /\ AckQueue = [l \in Levels |-> <<>>]
    /\ producers \in {<<"Ack", "Queue">>, <<"Queue", "Ack">>}
    /\ sent = [numbers |-> [l \in Levels |-> <<>>], frames |-> [f \in DOMAIN Frames |-> 0],
               acked |-> [l \in Levels |-> {}]]

-----------------------------------------------------------------------------
(* The rest of the connection: packets are asked for, keys installed, and  *)
(* Initial packets built by the HandshakeAgent and the RecoveryAgent in    *)
(* their own goroutines.                                                   *)

AskForPacket(l) ==
    /\ prepares > 0
    /\ prepares' = prepares - 1
    /\ PreparePacket' = Append(PreparePacket, l)
    /\ UNCHANGED <<unqueued, frameBuffer, CryptoStates, EncryptionLevels, available, best,
                   sender, PacketNumber, SendPacket, initials, AckQueue, producers, sent>>

\* The TLSAgent installs write keys, Handshake before 1-RTT, and announces them.
InstallKeys(l) ==
    /\ l \notin CryptoStates
    /\ l = "1RTT" => "Handshake" \in CryptoStates
    /\ CryptoStates' = CryptoStates \cup {l}
    /\ EncryptionLevels' = Append(EncryptionLevels, l)
    /\ UNCHANGED <<unqueued, frameBuffer, PreparePacket, prepares, available, best, sender,
                   PacketNumber, SendPacket, initials, AckQueue, producers, sent>>

BuildInitial ==
    /\ initials > 0
    /\ initials' = initials - 1
    /\ SendPacket' = Append(SendPacket, PacketNumber["Initial"])
    /\ PacketNumber' = [PacketNumber EXCEPT !["Initial"] = @ + 1]
    /\ UNCHANGED <<unqueued, frameBuffer, PreparePacket, prepares, CryptoStates,
                   EncryptionLevels, available, best, sender, AckQueue, producers, sent>>

-----------------------------------------------------------------------------
(* AckAgent.                                                               *)

\* A packet has been opened, perhaps not for the first time.
ReceivePacket(p) ==
    /\ p.level \in CryptoStates
    /\ Len(AckQueue[p.level]) < MaxReceived
    /\ AckQueue' = [AckQueue EXCEPT ![p.level] = Append(@, p.pn)]
    /\ PreparePacket' = IF p.shouldBeAcknowledged THEN Append(PreparePacket, p.level)
                                                  ELSE PreparePacket
    /\ UNCHANGED <<unqueued, frameBuffer, prepares, CryptoStates, EncryptionLevels, available,
                   best, sender, PacketNumber, SendPacket, initials, producers, sent>>

\* Mutant: the gap is counted from one.
GapOfOneMore(previous, number) == previous - number - 1

\* Between two ranges the gap is counted from zero.
GapOf(previous, number) == previous - number - 2

\* One turn of the loop of GetAckFrame over the numbers in descending order.
AckNumber(number, a) ==
    IF a.previous - number = 1
    THEN [a EXCEPT !.previous = number, !.block.AckRange = @ + 1]
    ELSE [previous |-> number, ranges |-> Append(a.ranges, a.block),
          block |-> [Gap |-> GapOf(a.previous, number), AckRange |-> 0]]

\* The orders of the elements of S, and the one in which they descend.
Orders(S) == Injection(1 .. Cardinality(S), S)
Descending(S) == CHOOSE o \in Orders(S) : \A i, j \in DOMAIN o : i < j => o[i] > o[j]

\* The queue in descending order; numbers that came twice are next to one another.
Sorted(queue) ==
    {[i \in DOMAIN queue |-> queue[o[i]]] :
        o \in {p \in Orders(DOMAIN queue) : \A i, j \in DOMAIN queue : i < j => queue[p[i]] >= queue[p[j]]}}

GetAckFrame(queue) ==
    LET numbers == Descending(Range(queue))
        turn[k \in 1 .. Len(numbers)] ==
            IF k = 1
            THEN [previous |-> numbers[1], ranges |-> <<>>, block |-> [Gap |-> 0, AckRange |-> 0]]
            ELSE AckNumber(numbers[k], turn[k - 1])
        last == turn[Len(numbers)]
    IN  [largest |-> numbers[1], ranges |-> Append(last.ranges, last.block)]

\* The packet numbers that a peer reads in an ACK frame: ranges in descending order, each
\* Gap + 2 below the smallest number of the one before.
Acknowledged(ack) ==
    LET largest[k \in DOMAIN ack.ranges] ==
            IF k = 1 THEN ack.largest
            ELSE largest[k - 1] - ack.ranges[k - 1].AckRange - ack.ranges[k].Gap - 2
    IN  UNION {largest[k] - ack.ranges[k].AckRange .. largest[k] : k \in DOMAIN ack.ranges}

-----------------------------------------------------------------------------
(* FrameQueueAgent.                                                        *)

\* A frame that another agent has submitted to the FrameQueue.
QueueFrame(f) ==
    /\ f \in unqueued
    /\ unqueued' = unqueued \ {f}
    /\ frameBuffer' = [frameBuffer EXCEPT ![Frames[f].level] = @ \cup {f}]
    /\ UNCHANGED <<PreparePacket, prepares, CryptoStates, EncryptionLevels, available, best,
                   sender, PacketNumber, SendPacket, initials, AckQueue, producers, sent>>

Length(fs) == FoldFunction(+, 0, [i \in DOMAIN fs |-> Frames[fs[i]].length])

\* The orders in which heap.Pop may empty a queue: by priority, ties in any order.
PopOrders ==
    [S \in SUBSET DOMAIN Frames |->
        {o \in Orders(S) :
            \A i, j \in DOMAIN o : i < j => Frames[o[i]].priority <= Frames[o[j]].priority}]

\* Frames are popped as long as they fit: n of them, and the next, if there is one, is pushed
\* back.
Fitting(o, n, space) ==
    /\ Length(SubSeq(o, 1, n)) <= space
    /\ n < Len(o) => Length(SubSeq(o, 1, n + 1)) > space

-----------------------------------------------------------------------------
(* SendingAgent.                                                           *)

chooseBestEncryptionLevel(known, restrictAppData) ==
    CASE "1RTT" \in known \/ restrictAppData -> "1RTT"
      [] "Handshake" \in known /\ "1RTT" \notin known /\ ~restrictAppData -> "Handshake"
      [] OTHER -> "Initial"

TakeLevel ==
    /\ sender = Idle /\ EncryptionLevels # <<>>
    /\ available' = available \cup {Head(EncryptionLevels)}
    /\ best' = [Best |-> chooseBestEncryptionLevel(available', FALSE),
                BestAppData |-> chooseBestEncryptionLevel(available', TRUE)]
    /\ EncryptionLevels' = Tail(EncryptionLevels)
    /\ UNCHANGED <<unqueued, frameBuffer, PreparePacket, prepares, CryptoStates, sender,
                   PacketNumber, SendPacket, initials, AckQueue, producers, sent>>

\* The orders in which a range over the map of best levels may meet them.
MapOrders == [S \in SUBSET BestLevels |-> Orders(S)]

\* A level itself and then, in the order of a map, the best levels that stand for it.
LevelOrders(level, b) == {<<level>> \o o : o \in MapOrders[{e \in BestLevels : b[e] = level}]}

AsksOf(producer, ls) == [i \in DOMAIN ls |-> <<producer, ls[i]>>]

\* The orders in which fillPacket asks: one producer after the other.
AskOrders(level, b) ==
    {AsksOf(producers[1], p) \o AsksOf(producers[2], q) :
        p \in LevelOrders(level, b), q \in LevelOrders(level, b)}

\* Takes a request, resolves Best and BestAppData and takes a packet number; a request for
\* a level that is not available is forgotten.
BeginPacket ==
    /\ sender = Idle /\ PreparePacket # <<>>
    /\ LET asked == Head(PreparePacket)
           level == IF asked \in BestLevels
                    THEN chooseBestEncryptionLevel(available, asked = "BestAppData") ELSE asked
       IN /\ best' = IF asked \in BestLevels THEN [best EXCEPT ![asked] = level] ELSE best
          /\ IF level \in available
             THEN /\ \E asks \in AskOrders(level, best') :
                        sender' = [Idle EXCEPT !.level = level, !.pn = PacketNumber[level],
                                               !.asks = asks, !.spaceLeft = Capacity]
                  /\ PacketNumber' = [PacketNumber EXCEPT ![level] = @ + 1]
             ELSE UNCHANGED <<sender, PacketNumber>>
    /\ PreparePacket' = Tail(PreparePacket)
    /\ UNCHANGED <<unqueued, frameBuffer, prepares, CryptoStates, EncryptionLevels, available,
                   SendPacket, initials, AckQueue, producers, sent>>

\* Mutant: a single packet is not worth an ACK frame.
NothingToAcknowledgeYet(l, queue) == l \in BestLevels \/ Len(queue) <= 1

NothingToAcknowledge(l, queue) == l \in BestLevels \/ queue = <<>>

\* RequestFrames answered by the AckAgent, which has nothing for the best levels; GetAckFrame
\* leaves the queue sorted.
AskAckAgent ==
    /\ sender.asks # <<>> /\ Head(sender.asks)[1] = "Ack" /\ sender.spaceLeft >= 1
    /\ LET l    == Head(sender.asks)[2]
           rest == [sender EXCEPT !.asks = Tail(@)]
       IN IF NothingToAcknowledge(l, AckQueue[sender.level])
          THEN sender' = rest /\ UNCHANGED <<PreparePacket, AckQueue>>
          ELSE /\ IF sender.spaceLeft >= AckLength
                  THEN /\ sender' = [rest EXCEPT !.ack = GetAckFrame(AckQueue[l]),
                                                !.spaceLeft = @ - AckLength]
                       /\ UNCHANGED PreparePacket
                  ELSE /\ sender' = rest
                       /\ PreparePacket' = Append(PreparePacket, l)
               /\ \E queue \in Sorted(AckQueue[l]) : AckQueue' = [AckQueue EXCEPT ![l] = queue]
    /\ UNCHANGED <<unqueued, frameBuffer, prepares, CryptoStates, EncryptionLevels, available,
                   best, PacketNumber, SendPacket, initials, producers, sent>>

\* Mutant: the frame that did not fit is not pushed back.
LeftOverDropped(buffered, taken, o) ==
    {f \in buffered : \A i \in DOMAIN o : o[i] = f => i > Len(taken) + 1}

LeftOver(buffered, taken, o) == buffered \ Range(taken)

\* Mutant: no further packet is asked for.
AgainNever(queue, left, l) == queue

\* A frame that did not fit asks for another packet.
Again(queue, left, l) == IF left = {} THEN queue ELSE Append(queue, l)

\* RequestFrames answered by the FrameQueueAgent.
AskFrameQueueAgent ==
    /\ sender.asks # <<>> /\ Head(sender.asks)[1] = "Queue" /\ sender.spaceLeft >= 1
    /\ LET l == Head(sender.asks)[2] IN
       \E o \in PopOrders[frameBuffer[l]] : \E n \in 0 .. Len(o) :
          LET taken == SubSeq(o, 1, n)
              left  == LeftOver(frameBuffer[l], taken, o)
          IN  /\ Fitting(o, n, sender.spaceLeft)
              /\ frameBuffer' = [frameBuffer EXCEPT ![l] = left]
              /\ PreparePacket' = Again(PreparePacket, left, l)
              /\ sender' = [sender EXCEPT !.asks = Tail(@), !.frames = @ \o taken,
                                          !.spaceLeft = @ - Length(taken)]
    /\ UNCHANGED <<unqueued, prepares, CryptoStates, EncryptionLevels, available, best,
                   PacketNumber, SendPacket, initials, AckQueue, producers, sent>>

\* Mutant: the number of an empty packet is lost.
NumberKept(numbers, level) == numbers

\* An empty packet gives its number back.
NumberGivenBack(numbers, level) == [numbers EXCEPT ![level] = @ - 1]

\* All have been asked, or the packet is full: it is sent unless it is empty.
FinishPacket ==
    /\ sender # Idle
    /\ sender.asks = <<>> \/ sender.spaceLeft < 1
    /\ IF sender.frames = <<>> /\ sender.ack = NoAck
       THEN /\ PacketNumber' = NumberGivenBack(PacketNumber, sender.level)
            /\ UNCHANGED sent
       ELSE /\ sent' = [numbers |-> [sent.numbers EXCEPT ![sender.level] = Append(@, sender.pn)],
                        frames |-> [f \in DOMAIN Frames |-> sent.frames[f]
                            + Cardinality({i \in DOMAIN sender.frames : sender.frames[i] = f})],
                        acked |-> [sent.acked EXCEPT ![sender.level] = @ \cup Acknowledged(sender.ack)]]
            /\ UNCHANGED PacketNumber
    /\ sender' = Idle
    /\ UNCHANGED <<unqueued, frameBuffer, PreparePacket, prepares, CryptoStates,
                   EncryptionLevels, available, best, SendPacket, initials, AckQueue,
                   producers>>

SendBuilt ==
    /\ sender = Idle /\ SendPacket # <<>>
    /\ sent' = [sent EXCEPT !.numbers["Initial"] = Append(@, Head(SendPacket))]
    /\ SendPacket' = Tail(SendPacket)
    /\ UNCHANGED <<unqueued, frameBuffer, PreparePacket, prepares, CryptoStates,
                   EncryptionLevels, available, best, sender, PacketNumber, initials, AckQueue,
                   producers>>

FillPacket == AskAckAgent \/ AskFrameQueueAgent \/ FinishPacket

-----------------------------------------------------------------------------
Next ==
    \/ \E f \in DOMAIN Frames : QueueFrame(f)
    \/ \E l \in Requests : AskForPacket(l)
    \/ \E l \in Levels : InstallKeys(l)
    \/ BuildInitial
    \/ \E p \in Arrivals : ReceivePacket(p)
    \/ TakeLevel \/ BeginPacket \/ FillPacket \/ SendBuilt

\* The agents run, and select gives the requests their turn.
Spec == Init /\ [][Next]_vars /\ WF_vars(FillPacket) /\ SF_vars(BeginPacket)

-----------------------------------------------------------------------------
\* The types of the agents' state.
TypeOK ==
    /\ \A l \in Levels \cup BestLevels : frameBuffer[l] \subseteq DOMAIN Frames
    /\ \A i \in DOMAIN PreparePacket : PreparePacket[i] \in Levels \cup BestLevels
    /\ available \subseteq CryptoStates /\ CryptoStates \subseteq Levels
    /\ sender.level \in Levels \cup {"none"} /\ sender.spaceLeft \in 0 .. Capacity
    /\ PacketNumber \in [Levels -> Nat]

\* The places where a frame can be, each counted.
Held(f) ==
    (IF f \in unqueued THEN 1 ELSE 0)
    + Cardinality({l \in Levels \cup BestLevels : f \in frameBuffer[l]})
    + Cardinality({i \in DOMAIN sender.frames : sender.frames[i] = f})

\* A queued frame is lost nowhere on its way into a packet, and goes into one packet only.
FramesSentOnce == \A f \in DOMAIN Frames : Held(f) + sent.frames[f] = 1

\* The packets of a space carry the numbers 0, 1, 2 and so on, although an empty packet
\* takes a number first and gives it back.  (In the Initial space only as long as no other
\* goroutine takes numbers.)
PacketNumbersConsecutive ==
    \A l \in Levels : (l = "Initial" => OtherInitials = 0) =>
        \A i \in DOMAIN sent.numbers[l] : sent.numbers[l][i] = i - 1

\* An ACK frame names exactly the packets of its space that the AckAgent has seen, in
\* whatever order and however often they came.
AcksAreExact ==
    [][(sender'.ack # sender.ack /\ sender'.ack # NoAck)
           => Acknowledged(sender'.ack) = Range(AckQueue[sender.level])]_vars

Requested(l) == \E i \in DOMAIN PreparePacket : PreparePacket[i] = l

\* Once a packet is asked for at a level that can be used, every frame that waits at this
\* level is sent, however many packets it takes: a frame that did not fit asks for the next.
FramesGoOut ==
    \A f \in DOMAIN Frames : Frames[f].level \in Levels =>
        (/\ Frames[f].level \in available
         /\ Requested(Frames[f].level)
         /\ f \in frameBuffer[Frames[f].level]) ~> sent.frames[f] = 1

\* A packet that is to be acknowledged, and for which a packet is asked at a level that can
\* be used, is acknowledged, unless the other producers fill that packet to the last byte:
\* fillPacket then leaves its loop and the AckAgent's request is used up.
AcksGoOut ==
    \A p \in Arrivals : p.shouldBeAcknowledged =>
        (/\ p.level \in available
         /\ Requested(p.level)
         /\ p.pn \in Range(AckQueue[p.level]))
            ~> (\/ p.pn \in sent.acked[p.level]
                \/ sender.level = p.level /\ sender.spaceLeft < 1 /\ sender.ack = NoAck)
=============================================================================
