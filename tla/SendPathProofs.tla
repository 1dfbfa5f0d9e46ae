---------------------------- MODULE SendPathProofs ----------------------------
(***************************************************************************)
(* Proofs about the sending half of a connection, for every set of frames, *)
(* every capacity and every number of requests and received packets: a     *)
(* queued frame goes into one packet only and is lost nowhere on its way,  *)
(* the packet numbers of a space are consecutive, and the ranges of an ACK *)
(* frame stand for the packets received and for no others.                 *)
(***************************************************************************)
EXTENDS SendPath, FiniteSetTheorems, TLAPS

AllLevels == Levels \cup BestLevels

Asks == Seq({"Ack", "Queue"} \X AllLevels)

\* What is asked for a packet of a level.
AsksAt(level) == Seq({"Ack", "Queue"} \X ({level} \cup BestLevels))

\* The types of the state that the two results depend on; the SendingAgent has a level
\* exactly while it is filling a packet.
SendTypes ==
    /\ unqueued \subseteq DOMAIN Frames
    /\ frameBuffer \in [AllLevels -> SUBSET DOMAIN Frames]
    /\ EncryptionLevels \in Seq(Levels) /\ available \subseteq Levels
    /\ producers \in {<<"Ack", "Queue">>, <<"Queue", "Ack">>}
    /\ DOMAIN sender = {"level", "pn", "asks", "spaceLeft", "frames", "ack"}
    /\ sender.level \in Levels \cup {"none"}
    /\ sender.level = "none" => sender = Idle
    /\ sender.pn \in Int
    /\ sender.asks \in Asks /\ sender.frames \in Seq(DOMAIN Frames)
    /\ PacketNumber \in [Levels -> Int] /\ SendPacket \in Seq(Int) /\ initials \in Nat
    /\ DOMAIN sent = {"numbers", "frames", "acked"}
    /\ sent.numbers \in [Levels -> Seq(Int)] /\ sent.frames \in [DOMAIN Frames -> {0, 1}]

Carried(f) == \E i \in DOMAIN sender.frames : sender.frames[i] = f

\* Where a frame is: with the agent that will queue it, in the queue of its level, in the
\* packet that is being filled, or sent; in one of these places only, and once in a packet.
FramesInv ==
    /\ \A l \in AllLevels : \A f \in frameBuffer[l] : Frames[f].level = l
    /\ \A i, j \in DOMAIN sender.frames : sender.frames[i] = sender.frames[j] => i = j
    /\ \A f \in DOMAIN Frames :
          LET buffered == f \in frameBuffer[Frames[f].level] IN
          \/ f \in unqueued /\ ~buffered /\ ~Carried(f) /\ sent.frames[f] = 0
          \/ f \notin unqueued /\ buffered /\ ~Carried(f) /\ sent.frames[f] = 0
          \/ f \notin unqueued /\ ~buffered /\ Carried(f) /\ sent.frames[f] = 0
          \/ f \notin unqueued /\ ~buffered /\ ~Carried(f) /\ sent.frames[f] = 1

\* The spaces whose numbers only the SendingAgent takes.
Own(l) == l = "Initial" => OtherInitials = 0

\* The next number of a space is the number of packets sent in it, and one more while the
\* SendingAgent is filling a packet of that space, which holds the number just below.
Numbered(l) ==
    /\ PacketNumber[l] = Len(sent.numbers[l]) + (IF sender.level = l THEN 1 ELSE 0)
    /\ sender.level = l => sender.pn = PacketNumber[l] - 1
    /\ \A i \in DOMAIN sent.numbers[l] : sent.numbers[l][i] = i - 1

NumbersInv ==
    /\ OtherInitials = 0 => initials = 0 /\ SendPacket = <<>>
    /\ \A l \in Levels : Own(l) => Numbered(l)

SendInv == SendTypes /\ FramesInv /\ NumbersInv

-----------------------------------------------------------------------------
(* The sequences that the agents choose from.                              *)

\* A prefix of a sequence has the elements of the sequence, in their order.
LEMMA PrefixFacts ==
    ASSUME NEW S, NEW o \in Seq(S), NEW n \in 0 .. Len(o)
    PROVE  /\ SubSeq(o, 1, n) \in Seq(S) /\ Len(SubSeq(o, 1, n)) = n
           /\ \A i \in 1 .. n : SubSeq(o, 1, n)[i] = o[i]
<1>1. \A i \in 1 .. n : o[i] \in S
  OBVIOUS
<1> QED
  BY <1>1

\* Where the elements of a concatenation come from.
LEMMA ConcatFacts ==
    ASSUME NEW S, NEW s \in Seq(S), NEW t \in Seq(S)
    PROVE  /\ s \o t \in Seq(S) /\ DOMAIN (s \o t) = 1 .. Len(s) + Len(t)
           /\ \A i \in 1 .. Len(s) : (s \o t)[i] = s[i]
           /\ \A i \in 1 .. Len(t) : (s \o t)[Len(s) + i] = t[i]
           /\ \A i \in DOMAIN (s \o t) :
                 \/ i \in 1 .. Len(s)
                 \/ i - Len(s) \in 1 .. Len(t) /\ (s \o t)[i] = t[i - Len(s)]
<1>1. Len(s) \in Nat /\ Len(t) \in Nat
  OBVIOUS
<1>2. /\ s \o t \in Seq(S) /\ Len(s \o t) = Len(s) + Len(t)
      /\ \A i \in 1 .. Len(s) + Len(t) :
            (s \o t)[i] = IF i <= Len(s) THEN s[i] ELSE t[i - Len(s)]
  OBVIOUS
<1>3. DOMAIN (s \o t) = 1 .. Len(s) + Len(t)
  BY <1>2
<1>4. ASSUME NEW i \in 1 .. Len(s)
      PROVE  (s \o t)[i] = s[i]
  BY <1>1, <1>2
<1>5. ASSUME NEW i \in 1 .. Len(t)
      PROVE  (s \o t)[Len(s) + i] = t[i]
  <2>1. Len(s) + i \in 1 .. Len(s) + Len(t) /\ ~(Len(s) + i <= Len(s)) /\ Len(s) + i - Len(s) = i
    BY <1>1
  <2> QED
    BY <1>2, <2>1
<1>6. ASSUME NEW i \in 1 .. Len(s) + Len(t), i \notin 1 .. Len(s)
      PROVE  i - Len(s) \in 1 .. Len(t) /\ (s \o t)[i] = t[i - Len(s)]
  <2>1. i - Len(s) \in 1 .. Len(t) /\ ~(i <= Len(s))
    BY <1>1, <1>6
  <2> QED
    BY <1>2, <2>1
<1> QED
  BY <1>2, <1>3, <1>4, <1>5, <1>6

\* The orders of the elements of a finite set are sequences without repetitions.
LEMMA OrdersFacts ==
    ASSUME NEW S, IsFiniteSet(S), NEW o \in Orders(S)
    PROVE  /\ o \in Seq(S) /\ DOMAIN o = 1 .. Len(o)
           /\ \A i, j \in DOMAIN o : o[i] = o[j] => i = j
<1>1. Cardinality(S) \in Nat
  BY FS_CardinalityType
<1>2. /\ o \in [1 .. Cardinality(S) -> S]
      /\ \A i, j \in 1 .. Cardinality(S) : i # j => o[i] # o[j]
  BY DEF Orders, Injection, IsInjective
<1> QED
  BY <1>1, <1>2

\* heap.Pop empties a queue in an order that holds every frame of it once.
LEMMA PopOrderFacts ==
    ASSUME NEW S \in SUBSET DOMAIN Frames, NEW o \in PopOrders[S]
    PROVE  /\ o \in Seq(S) /\ DOMAIN o = 1 .. Len(o)
           /\ \A i, j \in DOMAIN o : o[i] = o[j] => i = j
<1>1. IsFiniteSet(S)
  BY FramesAssumption, FS_Subset
<1>2. o \in Orders(S)
  BY DEF PopOrders
<1> QED
  BY <1>1, <1>2, OrdersFacts

\* What fillPacket asks for: pairs of a producer and the level of the packet or a best level.
LEMMA AskOrderFacts ==
    ASSUME SendTypes, NEW level \in Levels, NEW b, NEW asks \in AskOrders(level, b)
    PROVE  asks \in AsksAt(level) /\ asks \in Asks
<1> DEFINE S == {e \in BestLevels : b[e] = level}
           mine == {level} \cup BestLevels
<1>1. IsFiniteSet(BestLevels)
  <2>1. IsFiniteSet({"Best"})
    BY FS_Singleton, Zenon
  <2>2. IsFiniteSet({"Best"} \cup {"BestAppData"})
    BY <2>1, FS_AddElement
  <2>3. BestLevels = {"Best"} \cup {"BestAppData"}
    BY DEF BestLevels
  <2> QED
    BY <2>2, <2>3
<1>2. IsFiniteSet(S)
  BY <1>1, FS_Subset
<1>3. ASSUME NEW p \in LevelOrders(level, b)
      PROVE  p \in Seq(mine)
  <2>1. PICK o \in MapOrders[S] : p = <<level>> \o o
    BY <1>3, Zenon DEF LevelOrders
  <2>2. o \in Seq(S)
    <3>1. o \in Orders(S)
      BY DEF MapOrders
    <3> QED
      BY <1>2, <3>1, OrdersFacts
  <2>3. o \in Seq(mine)
    BY <2>2
  <2>4. <<level>> \in Seq(mine)
    OBVIOUS
  <2> QED
    BY <2>1, <2>3, <2>4
<1>4. ASSUME NEW p \in LevelOrders(level, b), NEW producer \in {"Ack", "Queue"}
      PROVE  AsksOf(producer, p) \in AsksAt(level)
  <2>1. p \in Seq(mine)
    BY <1>3
  <2> QED
    BY <2>1 DEF AsksAt, AsksOf
<1>5. PICK p \in LevelOrders(level, b), q \in LevelOrders(level, b) :
          asks = AsksOf(producers[1], p) \o AsksOf(producers[2], q)
  BY DEF AskOrders
<1>6. producers[1] \in {"Ack", "Queue"} /\ producers[2] \in {"Ack", "Queue"}
  BY DEF SendTypes
<1>7. AsksOf(producers[1], p) \in AsksAt(level) /\ AsksOf(producers[2], q) \in AsksAt(level)
  BY <1>4, <1>6
<1>8. asks \in AsksAt(level)
  BY <1>5, <1>7 DEF AsksAt
<1>9. {"Ack", "Queue"} \X mine \subseteq {"Ack", "Queue"} \X AllLevels
  BY DEF AllLevels
<1> QED
  BY <1>8, <1>9 DEF Asks, AsksAt

\* The level that the SendingAgent resolves a request to is a level of packets.
LEMMA ChosenLevel ==
    ASSUME NEW known, NEW restrict \in BOOLEAN
    PROVE  chooseBestEncryptionLevel(known, restrict) \in Levels
BY DEF chooseBestEncryptionLevel, Levels

-----------------------------------------------------------------------------
(* Every action keeps the invariant.                                       *)

\* The frames stay where they are in a step that moves none.
LEMMA FramesKept ==
    ASSUME FramesInv, UNCHANGED <<unqueued, frameBuffer>>,
           sender'.frames = sender.frames, sent'.frames = sent.frames
    PROVE  FramesInv'
BY DEF FramesInv, Carried

\* The packet numbers of a space are kept by a step that takes, gives back and sends none.
LEMMA NumberedKept ==
    ASSUME NEW l \in Levels, Numbered(l), PacketNumber'[l] = PacketNumber[l],
           sender'.level = sender.level, sender'.pn = sender.pn,
           sent'.numbers[l] = sent.numbers[l]
    PROVE  Numbered(l)'
<1>1. /\ PacketNumber[l] = Len(sent.numbers[l]) + (IF sender.level = l THEN 1 ELSE 0)
      /\ sender.level = l => sender.pn = PacketNumber[l] - 1
      /\ \A i \in DOMAIN sent.numbers[l] : sent.numbers[l][i] = i - 1
  BY Zenon DEF Numbered
<1> QED
  BY <1>1, Zenon DEF Numbered

\* The same for all spaces.
LEMMA NumbersKept ==
    ASSUME NumbersInv, UNCHANGED <<PacketNumber, initials, SendPacket>>,
           sender'.level = sender.level, sender'.pn = sender.pn, sent'.numbers = sent.numbers
    PROVE  NumbersInv'
BY NumberedKept DEF NumbersInv, Own

\* The steps of the other agents: no packet is begun, filled or sent.
LEMMA OthersKeepInv ==
    ASSUME SendInv,
           \/ \E l \in Requests : AskForPacket(l)
           \/ \E l \in Levels : InstallKeys(l)
           \/ \E p \in Arrivals : ReceivePacket(p)
           \/ TakeLevel
           \/ UNCHANGED vars
    PROVE  SendInv'
<1>1. /\ UNCHANGED <<unqueued, frameBuffer, sender, PacketNumber, SendPacket, initials,
                     producers, sent>>
      /\ EncryptionLevels' \in Seq(Levels) /\ available' \subseteq Levels
  <2>0. EncryptionLevels \in Seq(Levels) /\ available \subseteq Levels
    BY DEF SendInv, SendTypes
  <2>1. CASE \E l \in Levels : InstallKeys(l)
    BY <2>0, <2>1 DEF InstallKeys
  <2>2. CASE TakeLevel
    BY <2>0, <2>2 DEF TakeLevel
  <2>3. CASE \/ \E l \in Requests : AskForPacket(l)
             \/ \E p \in Arrivals : ReceivePacket(p)
             \/ UNCHANGED vars
    BY <2>0, <2>3, Zenon DEF AskForPacket, ReceivePacket, vars
  <2> QED
    BY <2>1, <2>2, <2>3
<1>2. SendTypes'
  BY <1>1, Zenon DEF SendInv, SendTypes
<1> QED
  BY <1>1, <1>2, FramesKept, NumbersKept DEF SendInv

\* A frame that is queued leaves its agent for the queue of its level.
LEMMA QueueFrameKeepsInv ==
    ASSUME SendInv, NEW f \in DOMAIN Frames, QueueFrame(f)
    PROVE  SendInv'
<1> USE DEF SendInv
<1>1. /\ f \in unqueued /\ unqueued' = unqueued \ {f}
      /\ frameBuffer' = [frameBuffer EXCEPT ![Frames[f].level] = @ \cup {f}]
      /\ UNCHANGED <<EncryptionLevels, available, sender, PacketNumber, SendPacket, initials,
                     producers, sent>>
  BY DEF QueueFrame
<1>2. Frames[f].level \in AllLevels
  BY FramesAssumption DEF AllLevels
<1>3. SendTypes'
  BY <1>1, <1>2, Zenon DEF SendTypes
<1>4. frameBuffer \in [AllLevels -> SUBSET DOMAIN Frames]
  BY DEF SendTypes
<1>5. FramesInv'
  <2>1. (\A l \in AllLevels : \A g \in frameBuffer[l] : Frames[g].level = l)'
    BY <1>1, <1>2, <1>4 DEF FramesInv
  <2>2. \A g \in DOMAIN Frames :
           (g \in frameBuffer[Frames[g].level])' <=> g = f \/ g \in frameBuffer[Frames[g].level]
    BY <1>1, <1>2, <1>4, FramesAssumption DEF AllLevels
  <2>3. \A g \in DOMAIN Frames : Carried(g)' <=> Carried(g)
    BY <1>1 DEF Carried
  <2> QED
    BY <1>1, <2>1, <2>2, <2>3 DEF FramesInv
<1>6. NumbersInv'
  BY <1>1, NumbersKept
<1> QED
  BY <1>3, <1>5, <1>6

\* Another goroutine builds an Initial packet, and the SendingAgent sends one: neither
\* happens where the Initial space is its own.
LEMMA InitialsKeepInv ==
    ASSUME SendInv, BuildInitial \/ SendBuilt
    PROVE  SendInv'
<1> USE DEF SendInv
<1>1. CASE BuildInitial
  <2>1. /\ initials > 0 /\ initials' = initials - 1
        /\ SendPacket' = Append(SendPacket, PacketNumber["Initial"])
        /\ PacketNumber' = [PacketNumber EXCEPT !["Initial"] = @ + 1]
        /\ UNCHANGED <<unqueued, frameBuffer, EncryptionLevels, available, sender, producers,
                       sent>>
    BY <1>1 DEF BuildInitial
  <2>2. SendTypes'
    <3>1. PacketNumber["Initial"] \in Int
      BY DEF SendTypes, Levels
    <3>2. SendPacket' \in Seq(Int)
      BY <2>1, <3>1 DEF SendTypes
    <3>3. PacketNumber \in [Levels -> Int] /\ initials \in Nat
      BY DEF SendTypes
    <3>4. PacketNumber' \in [Levels -> Int]
      <4>1. PacketNumber["Initial"] + 1 \in Int
        BY <3>1
      <4>2. PacketNumber' = [PacketNumber EXCEPT !["Initial"] = PacketNumber["Initial"] + 1]
        BY <2>1
      <4> QED
        BY ONLY <3>3, <4>1, <4>2, Zenon
    <3>5. initials' \in Nat
      BY <2>1, <3>3
    <3> QED
      BY <2>1, <3>2, <3>4, <3>5 DEF SendTypes
  <2>3. FramesInv'
    BY <2>1, FramesKept
  <2>4. OtherInitials # 0
    BY <2>1 DEF NumbersInv, SendTypes
  <2>5. NumbersInv'
    <3>1. \A l \in Levels : Own(l) => PacketNumber'[l] = PacketNumber[l]
      BY <2>1, <2>4 DEF Own, SendTypes
    <3> QED
      BY <2>1, <2>4, <3>1, NumberedKept DEF NumbersInv, Own
  <2> QED
    BY <2>2, <2>3, <2>5
<1>2. CASE SendBuilt
  <2>1. /\ SendPacket # <<>> /\ SendPacket' = Tail(SendPacket)
        /\ sent' = [sent EXCEPT !.numbers["Initial"] = Append(@, Head(SendPacket))]
        /\ UNCHANGED <<unqueued, frameBuffer, EncryptionLevels, available, sender,
                       PacketNumber, initials, producers>>
    BY <1>2 DEF SendBuilt
  <2>2. Head(SendPacket) \in Int /\ Tail(SendPacket) \in Seq(Int)
    BY <2>1 DEF SendTypes
  <2>3. /\ DOMAIN sent' = {"numbers", "frames", "acked"}
        /\ sent'.numbers = [sent.numbers EXCEPT !["Initial"] = Append(@, Head(SendPacket))]
        /\ sent'.frames = sent.frames
    BY <2>1 DEF SendTypes
  <2>4. sent'.numbers \in [Levels -> Seq(Int)]
    <3>1. sent.numbers \in [Levels -> Seq(Int)] /\ "Initial" \in Levels
      BY DEF SendTypes, Levels
    <3>2. Append(sent.numbers["Initial"], Head(SendPacket)) \in Seq(Int)
      BY <2>2, <3>1
    <3> QED
      BY <2>3, <3>1, <3>2
  <2>5. SendTypes'
    BY <2>1, <2>2, <2>3, <2>4, Zenon DEF SendTypes
  <2>6. FramesInv'
    BY <2>1, <2>3, FramesKept
  <2>7. OtherInitials # 0
    BY <2>1 DEF NumbersInv
  <2>8. \A l \in Levels : Own(l) => sent'.numbers[l] = sent.numbers[l]
    BY <2>3, <2>7 DEF Own, SendTypes
  <2>9. NumbersInv'
    BY <2>1, <2>7, <2>8, NumberedKept DEF NumbersInv, Own
  <2> QED
    BY <2>5, <2>6, <2>9
<1> QED
  BY <1>1, <1>2

\* A packet is begun with the next number of its space, or the request is forgotten.
LEMMA BeginPacketKeepsInv ==
    ASSUME SendInv, BeginPacket
    PROVE  SendInv'
<1> USE DEF SendInv
<1>1. /\ sender = Idle
      /\ UNCHANGED <<unqueued, frameBuffer, EncryptionLevels, available, SendPacket, initials,
                     producers, sent>>
  BY Zenon DEF BeginPacket
<1>2. CASE UNCHANGED <<sender, PacketNumber>>
  <2>1. SendTypes'
    BY <1>1, <1>2 DEF SendTypes
  <2> QED
    BY <1>1, <1>2, <2>1, FramesKept, NumbersKept
<1>3. ASSUME NEW level \in Levels, NEW asks \in AskOrders(level, best'),
             sender' = [Idle EXCEPT !.level = level, !.pn = PacketNumber[level],
                                    !.asks = asks, !.spaceLeft = Capacity],
             PacketNumber' = [PacketNumber EXCEPT ![level] = @ + 1]
      PROVE  SendInv'
  <2>1. asks \in Asks
    BY AskOrderFacts
  <2>2. /\ DOMAIN sender' = {"level", "pn", "asks", "spaceLeft", "frames", "ack"}
        /\ sender'.level = level /\ sender'.pn = PacketNumber[level] /\ sender'.asks = asks
        /\ sender'.frames = <<>>
    BY <1>3 DEF Idle
  <2>3. level # "none"
    BY DEF Levels
  <2>4. <<>> \in Seq(DOMAIN Frames)
    OBVIOUS
  <2>5. PacketNumber' \in [Levels -> Int]
    BY <1>3 DEF SendTypes
  <2>6. SendTypes'
    BY <1>1, <2>1, <2>2, <2>3, <2>4, <2>5 DEF SendTypes
  <2>7. sender'.frames = sender.frames /\ sender.level = "none"
    BY <1>1, <2>2 DEF Idle
  <2>8. FramesInv'
    BY <1>1, <2>7, FramesKept
  <2>9. NumbersInv'
    <3>1. \A l \in Levels : l # "none"
      BY DEF Levels
    <3>2. (OtherInitials = 0 => initials = 0 /\ SendPacket = <<>>)'
      BY <1>1 DEF NumbersInv
    <3>3. ASSUME NEW l \in Levels, Own(l)
          PROVE  Numbered(l)'
      <4>1. /\ PacketNumber[l] = Len(sent.numbers[l])
            /\ \A i \in DOMAIN sent.numbers[l] : sent.numbers[l][i] = i - 1
            /\ Len(sent.numbers[l]) \in Nat
        <5>1. Numbered(l) /\ sender.level # l
          BY <2>7, <3>1, <3>3 DEF NumbersInv
        <5>2. sent.numbers[l] \in Seq(Int)
          BY DEF SendTypes
        <5>3. Len(sent.numbers[l]) \in Nat
          BY <5>2
        <5> QED
          BY <5>1, <5>3 DEF Numbered
      <4>2. PacketNumber'[l] = IF l = level THEN PacketNumber[l] + 1 ELSE PacketNumber[l]
        BY <1>3 DEF SendTypes
      <4>3. sent' = sent /\ PacketNumber[l] \in Int
        BY <1>1 DEF SendTypes
      <4>4. CASE l = level
        BY <2>2, <4>1, <4>2, <4>3, <4>4 DEF Numbered
      <4>5. CASE l # level
        <5>1. PacketNumber'[l] = Len(sent'.numbers[l]) + 0
          BY <4>1, <4>2, <4>3, <4>5
        <5> QED
          BY <2>2, <4>1, <4>3, <4>5, <5>1, Zenon DEF Numbered
      <4> QED
        BY <4>4, <4>5
    <3> QED
      BY <3>2, <3>3 DEF NumbersInv, Own
  <2> QED
    BY <2>6, <2>8, <2>9
<1> DEFINE asked == Head(PreparePacket)
           level == IF asked \in BestLevels
                    THEN chooseBestEncryptionLevel(available, asked = "BestAppData") ELSE asked
<1>4. CASE level \in available
  <2>1. level \in Levels
    BY <1>4 DEF SendTypes
  <2>2. /\ \E asks \in AskOrders(level, best') :
              sender' = [Idle EXCEPT !.level = level, !.pn = PacketNumber[level],
                                     !.asks = asks, !.spaceLeft = Capacity]
        /\ PacketNumber' = [PacketNumber EXCEPT ![level] = @ + 1]
    BY <1>4, Zenon DEF BeginPacket
  <2> HIDE DEF level
  <2> QED
    BY <1>3, <2>1, <2>2, Zenon
<1>5. CASE level \notin available
  BY <1>2, <1>5 DEF BeginPacket
<1> QED
  BY <1>4, <1>5

\* The AckAgent answers: the packet has no more and no other frames of the queues.
LEMMA AskAckAgentKeepsInv ==
    ASSUME SendInv, AskAckAgent
    PROVE  SendInv'
<1> USE DEF SendInv
<1>1. /\ sender.asks # <<>>
      /\ UNCHANGED <<unqueued, frameBuffer, EncryptionLevels, available, PacketNumber,
                     SendPacket, initials, producers, sent>>
  BY Zenon DEF AskAckAgent
<1>2. DOMAIN sender = {"level", "pn", "asks", "spaceLeft", "frames", "ack"}
  BY DEF SendTypes
<1>3. /\ DOMAIN sender' = DOMAIN sender /\ sender'.level = sender.level /\ sender'.pn = sender.pn
      /\ sender'.frames = sender.frames /\ sender'.asks = Tail(sender.asks)
  BY <1>2, Zenon DEF AskAckAgent
<1>4. sender'.asks \in Asks
  BY <1>1, <1>3 DEF SendTypes, Asks
<1>5. sender.level # "none"
  BY <1>1 DEF SendTypes, Idle
<1>6. SendTypes'
  BY <1>1, <1>3, <1>4, <1>5 DEF SendTypes
<1> QED
  BY <1>1, <1>3, <1>6, FramesKept, NumbersKept

\* The FrameQueueAgent answers: the frames that fit leave their queue for the packet.
LEMMA AskFrameQueueAgentKeepsInv ==
    ASSUME SendInv, AskFrameQueueAgent
    PROVE  SendInv'
<1> USE DEF SendInv
<1> DEFINE l == Head(sender.asks)[2]
<1>1. /\ sender.asks # <<>>
      /\ UNCHANGED <<unqueued, EncryptionLevels, available, PacketNumber, SendPacket, initials,
                     producers, sent>>
  BY Zenon DEF AskFrameQueueAgent
<1>2. l \in AllLevels /\ Tail(sender.asks) \in Asks
  BY <1>1 DEF SendTypes, Asks
<1>0. PICK o \in PopOrders[frameBuffer[l]] : \E n \in 0 .. Len(o) :
         /\ frameBuffer' = [frameBuffer EXCEPT ![l] = frameBuffer[l] \ Range(SubSeq(o, 1, n))]
         /\ sender' = [sender EXCEPT !.asks = Tail(@), !.frames = @ \o SubSeq(o, 1, n),
                                     !.spaceLeft = @ - Length(SubSeq(o, 1, n))]
  BY Zenon DEF AskFrameQueueAgent, LeftOver
<1>3. PICK n \in 0 .. Len(o) :
         /\ frameBuffer' = [frameBuffer EXCEPT ![l] = frameBuffer[l] \ Range(SubSeq(o, 1, n))]
         /\ sender' = [sender EXCEPT !.asks = Tail(@), !.frames = @ \o SubSeq(o, 1, n),
                                     !.spaceLeft = @ - Length(SubSeq(o, 1, n))]
  BY <1>0, Zenon
<1> DEFINE taken == SubSeq(o, 1, n)
<1> HIDE DEF l
<1>4. frameBuffer \in [AllLevels -> SUBSET DOMAIN Frames] /\ sender.frames \in Seq(DOMAIN Frames)
  BY DEF SendTypes
<1>5. /\ o \in Seq(frameBuffer[l]) /\ DOMAIN o = 1 .. Len(o)
      /\ \A i, j \in DOMAIN o : o[i] = o[j] => i = j
  BY <1>2, <1>3, <1>4, PopOrderFacts
<1>6. /\ taken \in Seq(frameBuffer[l]) /\ Len(taken) = n
      /\ \A i \in 1 .. n : taken[i] = o[i]
  <2>1. n \in 0 .. Len(o) /\ o \in Seq(frameBuffer[l])
    BY <1>5
  <2> QED
    BY ONLY <2>1, PrefixFacts, Zenon
<1>7. /\ n \in Nat /\ DOMAIN taken = 1 .. n /\ \A i \in 1 .. n : taken[i] \in frameBuffer[l]
      /\ \A i, j \in 1 .. n : taken[i] = taken[j] => i = j
  BY <1>3, <1>5, <1>6
<1>8. /\ DOMAIN sender' = {"level", "pn", "asks", "spaceLeft", "frames", "ack"}
      /\ sender'.level = sender.level /\ sender'.pn = sender.pn
      /\ sender'.asks = Tail(sender.asks) /\ sender'.frames = sender.frames \o taken
  BY <1>3, Zenon DEF SendTypes
<1> HIDE DEF taken
<1>9. taken \in Seq(DOMAIN Frames)
  BY <1>2, <1>4, <1>6
<1>10. /\ sender'.frames \in Seq(DOMAIN Frames)
       /\ DOMAIN sender.frames = 1 .. Len(sender.frames)
       /\ DOMAIN sender'.frames = 1 .. Len(sender.frames) + n
       /\ \A i \in 1 .. Len(sender.frames) : sender'.frames[i] = sender.frames[i]
       /\ \A i \in 1 .. n : sender'.frames[Len(sender.frames) + i] = taken[i]
       /\ \A i \in DOMAIN sender'.frames :
             \/ i \in 1 .. Len(sender.frames)
             \/ /\ i - Len(sender.frames) \in 1 .. n
                /\ sender'.frames[i] = taken[i - Len(sender.frames)]
  <2>1. DOMAIN sender.frames = 1 .. Len(sender.frames)
    BY <1>4
  <2>2. sender'.frames = sender.frames \o taken /\ Len(taken) = n
    BY <1>6, <1>8 DEF taken
  <2>3. sender.frames \in Seq(DOMAIN Frames)
    BY <1>4
  <2> DEFINE s == sender.frames
             t == taken
  <2>4. /\ s \o t \in Seq(DOMAIN Frames) /\ DOMAIN (s \o t) = 1 .. Len(s) + Len(t)
        /\ \A i \in 1 .. Len(s) : (s \o t)[i] = s[i]
        /\ \A i \in 1 .. Len(t) : (s \o t)[Len(s) + i] = t[i]
        /\ \A i \in DOMAIN (s \o t) :
              \/ i \in 1 .. Len(s)
              \/ i - Len(s) \in 1 .. Len(t) /\ (s \o t)[i] = t[i - Len(s)]
    BY ONLY <1>9, <2>3, ConcatFacts
  <2> QED
    BY ONLY <2>1, <2>2, <2>4
<1>11. sender.level # "none"
  BY <1>1 DEF SendTypes, Idle
<1>12. SendTypes'
  <2>1. frameBuffer' \in [AllLevels -> SUBSET DOMAIN Frames]
    BY <1>2, <1>3, <1>4
  <2> QED
    BY <1>1, <1>2, <1>8, <1>10, <1>11, <2>1, SMTT(30) DEF SendTypes
<1>13. ASSUME NEW f \in DOMAIN Frames
       PROVE  /\ f \in Range(taken) <=> \E i \in 1 .. n : taken[i] = f
              /\ Carried(f)' <=> Carried(f) \/ f \in Range(taken)
  <2>1. f \in Range(taken) <=> \E i \in 1 .. n : taken[i] = f
    BY <1>7 DEF Range
  <2>2. ASSUME NEW i \in DOMAIN sender'.frames, sender'.frames[i] = f
        PROVE  Carried(f) \/ f \in Range(taken)
    <3>1. CASE i \in 1 .. Len(sender.frames)
      BY <1>10, <2>2, <3>1, Zenon DEF Carried
    <3>2. CASE i \notin 1 .. Len(sender.frames)
      BY <1>10, <2>1, <2>2, <3>2, ZenonT(40)
    <3> QED
      BY <3>1, <3>2
  <2>3. ASSUME Carried(f)
        PROVE  Carried(f)'
    <3>1. PICK i \in 1 .. Len(sender.frames) : sender.frames[i] = f
      BY <1>10, <2>3 DEF Carried
    <3>2. i \in DOMAIN sender'.frames /\ sender'.frames[i] = f
      BY <1>4, <1>7, <1>10, <3>1, SMTT(30)
    <3> QED
      BY <3>2 DEF Carried
  <2>4. ASSUME f \in Range(taken)
        PROVE  Carried(f)'
    <3>1. PICK i \in 1 .. n : taken[i] = f
      BY <2>1, <2>4
    <3>2. /\ Len(sender.frames) + i \in DOMAIN sender'.frames
          /\ sender'.frames[Len(sender.frames) + i] = f
      BY <1>4, <1>7, <1>10, <3>1
    <3> QED
      BY <3>2 DEF Carried
  <2>5. Carried(f)' => Carried(f) \/ f \in Range(taken)
    BY <2>2 DEF Carried
  <2> QED
    BY <2>1, <2>3, <2>4, <2>5
<1>14. ASSUME NEW f \in DOMAIN Frames, f \in Range(taken)
       PROVE  f \in frameBuffer[l] /\ Frames[f].level = l
  BY <1>2, <1>4, <1>7, <1>13, <1>14, SMTT(30) DEF FramesInv
<1>15. FramesInv'
  <2>1. (\A m \in AllLevels : \A f \in frameBuffer[m] : Frames[f].level = m)'
    BY <1>2, <1>3, <1>4 DEF FramesInv
  <2>2. ASSUME NEW i \in DOMAIN sender'.frames, NEW j \in DOMAIN sender'.frames,
               sender'.frames[i] = sender'.frames[j]
        PROVE  i = j
    <3> DEFINE k == Len(sender.frames)
    <3>1. k \in Nat
      BY <1>4
    <3>2. ASSUME NEW a \in 1 .. k, NEW b \in 1 .. n
          PROVE  sender.frames[a] # taken[b]
      <4>1. taken[b] \in DOMAIN Frames
        BY <1>2, <1>4, <1>7
      <4>2. taken[b] \in frameBuffer[Frames[taken[b]].level]
        BY <1>7, <1>13, <1>14, <4>1
      <4>3. ~Carried(taken[b])
        BY <4>1, <4>2 DEF FramesInv
      <4> QED
        BY <1>10, <4>3, Zenon DEF Carried
    <3>3. \A a, b \in 1 .. k : sender.frames[a] = sender.frames[b] => a = b
      BY <1>10, Zenon DEF FramesInv
    <3>4. i \in 1 .. k \/ (i - k \in 1 .. n /\ sender'.frames[i] = taken[i - k])
      BY <1>10, Zenon
    <3>5. j \in 1 .. k \/ (j - k \in 1 .. n /\ sender'.frames[j] = taken[j - k])
      BY <1>10, Zenon
    <3> HIDE DEF k
    <3>6. \A a \in 1 .. k : sender'.frames[a] = sender.frames[a]
      BY <1>10 DEF k
    <3>7. i \in Int /\ j \in Int
      BY <1>7, <1>10, <3>1 DEF k
    <3>8. CASE i \in 1 .. k /\ j \in 1 .. k
      BY <2>2, <3>3, <3>6, <3>8
    <3>9. CASE i \notin 1 .. k /\ j \notin 1 .. k
      <4>1. i - k = j - k
        BY <1>7, <2>2, <3>4, <3>5, <3>9
      <4> QED
        BY <3>1, <3>7, <4>1
    <3>10. CASE i \in 1 .. k /\ j \notin 1 .. k
      BY <2>2, <3>2, <3>5, <3>6, <3>10
    <3>11. CASE i \notin 1 .. k /\ j \in 1 .. k
      BY <2>2, <3>2, <3>4, <3>6, <3>11
    <3> QED
      BY <3>8, <3>9, <3>10, <3>11
  <2>3. ASSUME NEW f \in DOMAIN Frames
        PROVE  (f \in frameBuffer[Frames[f].level])'
                   <=> f \in frameBuffer[Frames[f].level] /\ f \notin Range(taken)
    <3>1. Frames[f].level \in AllLevels
      BY FramesAssumption DEF AllLevels
    <3> QED
      BY <1>2, <1>3, <1>4, <1>14, <3>1 DEF taken
  <2>4. ASSUME NEW f \in DOMAIN Frames
        PROVE  f \in Range(taken) => f \in frameBuffer[Frames[f].level]
    BY <1>14
  <2>5. sent'.frames = sent.frames /\ unqueued' = unqueued
    BY <1>1
  <2> QED
    BY <1>13, <2>1, <2>2, <2>3, <2>4, <2>5 DEF FramesInv
<1>16. NumbersInv'
  BY <1>1, <1>8, NumbersKept
<1> QED
  BY <1>12, <1>15, <1>16

\* A frame is in the packet that is being filled once or not at all.
LEMMA CarriedOnce ==
    ASSUME FramesInv, NEW f \in DOMAIN Frames
    PROVE  Cardinality({i \in DOMAIN sender.frames : sender.frames[i] = f})
               = IF Carried(f) THEN 1 ELSE 0
<1> DEFINE S == {i \in DOMAIN sender.frames : sender.frames[i] = f}
<1>1. CASE Carried(f)
  <2>1. PICK i \in DOMAIN sender.frames : sender.frames[i] = f
    BY <1>1 DEF Carried
  <2>2. S = {i}
    BY <2>1 DEF FramesInv
  <2> QED
    BY <1>1, <2>2, FS_Singleton
<1>2. CASE ~Carried(f)
  <2>1. S = {}
    BY <1>2 DEF Carried
  <2> QED
    BY <1>2, <2>1, FS_EmptySet
<1> QED
  BY <1>1, <1>2

\* A packet is sent with the number and the frames that it holds; an empty one gives its
\* number back.
LEMMA FinishPacketKeepsInv ==
    ASSUME SendInv, FinishPacket
    PROVE  SendInv'
<1> USE DEF SendInv
<1> DEFINE level == sender.level
<1>1. /\ sender # Idle /\ sender' = Idle
      /\ UNCHANGED <<unqueued, frameBuffer, EncryptionLevels, available, SendPacket, initials,
                     producers>>
  BY Zenon DEF FinishPacket
<1>2. level \in Levels /\ level # "none"
  BY <1>1 DEF SendTypes
<1>3. /\ DOMAIN sender' = {"level", "pn", "asks", "spaceLeft", "frames", "ack"}
      /\ sender'.level = "none" /\ sender'.pn = 0 /\ sender'.asks = <<>> /\ sender'.frames = <<>>
  BY <1>1 DEF Idle
<1>4. /\ PacketNumber \in [Levels -> Int] /\ sent.numbers \in [Levels -> Seq(Int)]
      /\ sent.frames \in [DOMAIN Frames -> {0, 1}] /\ sender.pn \in Int
  BY DEF SendTypes
<1>5. <<>> \in Asks /\ <<>> \in Seq(DOMAIN Frames)
  BY DEF Asks
<1>6. \A l \in Levels : l # "none"
  BY DEF Levels
<1>7. (OtherInitials = 0 => initials = 0 /\ SendPacket = <<>>)'
  BY <1>1 DEF NumbersInv
<1>8. \A l \in Levels : sent.numbers[l] \in Seq(Int) /\ Len(sent.numbers[l]) \in Nat
  BY <1>4
<1>9. CASE sender.frames = <<>> /\ sender.ack = NoAck
  <2>1. PacketNumber' = [PacketNumber EXCEPT ![level] = @ - 1] /\ sent' = sent
    BY <1>9 DEF FinishPacket, NumberGivenBack
  <2>2. PacketNumber' \in [Levels -> Int]
    BY <1>2, <1>4, <2>1
  <2>3. SendTypes'
    BY <1>1, <1>3, <1>5, <2>1, <2>2 DEF SendTypes
  <2>4. FramesInv'
    BY <1>1, <1>3, <1>9, <2>1, FramesKept
  <2>5. ASSUME NEW l \in Levels, Own(l)
        PROVE  Numbered(l)'
    <3>1. Numbered(l)
      BY <2>5 DEF NumbersInv
    <3>2. PacketNumber'[l] = IF l = level THEN PacketNumber[l] - 1 ELSE PacketNumber[l]
      BY <1>4, <2>1
    <3>3. PacketNumber'[l] = Len(sent.numbers[l]) + 0
      <4>1. CASE l = level
        <5>1. PacketNumber[l] = Len(sent.numbers[l]) + 1
          BY <3>1, <4>1 DEF Numbered
        <5> QED
          BY <1>8, <3>2, <4>1, <5>1
      <4>2. CASE l # level
        BY <3>1, <3>2, <4>2, Zenon DEF Numbered
      <4> QED
        BY <4>1, <4>2
    <3> QED
      BY <1>3, <1>6, <2>1, <3>1, <3>3, Zenon DEF Numbered
  <2> QED
    BY <1>7, <2>3, <2>4, <2>5 DEF NumbersInv, Own
<1>10. CASE ~(sender.frames = <<>> /\ sender.ack = NoAck)
  <2>1. /\ PacketNumber' = PacketNumber
        /\ DOMAIN sent' = {"numbers", "frames", "acked"}
        /\ sent'.numbers = [sent.numbers EXCEPT ![level] = Append(@, sender.pn)]
        /\ sent'.frames = [f \in DOMAIN Frames |-> sent.frames[f]
                            + Cardinality({i \in DOMAIN sender.frames : sender.frames[i] = f})]
    <3>1. sent' = [numbers |-> [sent.numbers EXCEPT ![sender.level] = Append(@, sender.pn)],
                   frames |-> [f \in DOMAIN Frames |-> sent.frames[f]
                       + Cardinality({i \in DOMAIN sender.frames : sender.frames[i] = f})],
                   acked |-> [sent.acked EXCEPT ![sender.level] = @ \cup Acknowledged(sender.ack)]]
          /\ PacketNumber' = PacketNumber
      BY <1>10, Zenon DEF FinishPacket
    <3> QED
      BY <3>1, Zenon
  <2>2. \A f \in DOMAIN Frames :
           sent'.frames[f] = sent.frames[f] + (IF Carried(f) THEN 1 ELSE 0)
    BY <2>1, CarriedOnce
  <2>3. \A f \in DOMAIN Frames : Carried(f) => sent.frames[f] = 0
    BY DEF FramesInv
  <2>4. sent'.frames \in [DOMAIN Frames -> {0, 1}]
    <3>1. \A f \in DOMAIN Frames : sent'.frames[f] \in {0, 1}
      BY <1>4, <2>2, <2>3
    <3> QED
      BY <2>1, <3>1
  <2>5. sent'.numbers \in [Levels -> Seq(Int)]
    <3>1. Append(sent.numbers[level], sender.pn) \in Seq(Int)
      BY <1>2, <1>4
    <3> QED
      BY <1>4, <2>1, <3>1, Zenon
  <2>6. SendTypes'
    BY <1>1, <1>3, <1>5, <2>1, <2>4, <2>5, SMTT(30) DEF SendTypes
  <2>7. FramesInv'
    <3>1. \A f \in DOMAIN Frames : ~Carried(f)'
      BY <1>3 DEF Carried
    <3>2. \A f \in DOMAIN Frames :
             /\ Carried(f) => sent'.frames[f] = 1
             /\ ~Carried(f) => sent'.frames[f] = sent.frames[f]
      BY <1>4, <2>2, <2>3
    <3>3. \A i, j \in DOMAIN sender'.frames : sender'.frames[i] = sender'.frames[j] => i = j
      BY <1>3
    <3>4. unqueued' = unqueued /\ frameBuffer' = frameBuffer
      BY <1>1
    <3> QED
      BY <3>1, <3>2, <3>3, <3>4 DEF FramesInv
  <2>8. ASSUME NEW l \in Levels, Own(l)
        PROVE  Numbered(l)'
    <3>1. Numbered(l)
      BY <2>8 DEF NumbersInv
    <3>2. CASE l = level
      <4>1. /\ PacketNumber[l] = Len(sent.numbers[l]) + 1 /\ sender.pn = Len(sent.numbers[l])
            /\ \A i \in DOMAIN sent.numbers[l] : sent.numbers[l][i] = i - 1
        BY <1>8, <3>1, <3>2 DEF Numbered
      <4>2. sent'.numbers[l] = Append(sent.numbers[l], sender.pn)
        BY <1>4, <2>1, <3>2
      <4>3. /\ Len(sent'.numbers[l]) = Len(sent.numbers[l]) + 1
            /\ \A i \in 1 .. Len(sent.numbers[l]) : sent'.numbers[l][i] = sent.numbers[l][i]
            /\ sent'.numbers[l][Len(sent.numbers[l]) + 1] = sender.pn
            /\ DOMAIN sent'.numbers[l] = 1 .. Len(sent.numbers[l]) + 1
            /\ DOMAIN sent.numbers[l] = 1 .. Len(sent.numbers[l])
        BY <1>4, <1>8, <4>2
      <4>4. ASSUME NEW i \in DOMAIN sent'.numbers[l]
            PROVE  sent'.numbers[l][i] = i - 1
        <5>1. CASE i \in 1 .. Len(sent.numbers[l])
          BY ONLY <4>1, <4>3, <5>1, Zenon
        <5>2. CASE i = Len(sent.numbers[l]) + 1
          BY <1>8, <4>1, <4>3, <5>2, SMTT(30)
        <5> QED
          BY <1>8, <4>3, <5>1, <5>2
      <4>5. PacketNumber'[l] = Len(sent'.numbers[l]) + 0
        BY <1>8, <2>1, <4>1, <4>3
      <4> QED
        BY <1>3, <1>6, <4>4, <4>5, Zenon DEF Numbered
    <3>3. CASE l # level
      <4>1. sent'.numbers[l] = sent.numbers[l]
        BY <1>4, <2>1, <3>3
      <4>2. PacketNumber'[l] = Len(sent'.numbers[l]) + 0
        BY <2>1, <3>1, <3>3, <4>1, Zenon DEF Numbered
      <4>3. \A i \in DOMAIN sent.numbers[l] : sent.numbers[l][i] = i - 1
        BY <3>1 DEF Numbered
      <4> QED
        BY <1>3, <1>6, <4>1, <4>2, <4>3, Zenon DEF Numbered
    <3> QED
      BY <3>2, <3>3
  <2> QED
    BY <1>7, <2>6, <2>7, <2>8 DEF NumbersInv, Own
<1> QED
  BY <1>9, <1>10

-----------------------------------------------------------------------------
(* The ranges of an ACK frame.                                             *)

\* A set of naturals that is not empty has a least element.
LEMMA LeastNatural ==
    ASSUME NEW S \in SUBSET Nat, S # {}
    PROVE  \E n \in S : \A m \in S : n <= m
<1>1. IsWellFoundedOn(OpToRel(<, Nat), Nat)
  BY NatLessThanWellFounded, Zenon
<1>2. PICK n \in S : \A m \in S : ~(<<m, n>> \in OpToRel(<, Nat))
  BY <1>1, WFMin, Zenon
<1>3. ASSUME NEW m \in S
      PROVE  n <= m
  <2>1. ~(m < n)
    BY <1>2, Zenon DEF OpToRel
  <2> QED
    BY <2>1
<1> QED
  BY <1>3

\* Functions that start alike and go on alike are alike.
LEMMA SameTurns ==
    ASSUME NEW n \in Nat, NEW f, NEW g, f[1] = g[1],
           \A k \in 2 .. n : f[k - 1] = g[k - 1] => f[k] = g[k]
    PROVE  \A k \in 1 .. n : f[k] = g[k]
<1> DEFINE differ == {k \in Nat : k \in 1 .. n /\ f[k] # g[k]}
<1> SUFFICES ASSUME differ # {}
             PROVE  FALSE
  OBVIOUS
<1>1. PICK k \in differ : \A m \in differ : k <= m
  <2>1. differ \subseteq Nat
    OBVIOUS
  <2> HIDE DEF differ
  <2> QED
    BY <2>1, LeastNatural, Zenon
<1>2. k \in 2 .. n /\ k - 1 \in Nat /\ k - 1 \in 1 .. n /\ ~(k <= k - 1)
  BY <1>1
<1>3. f[k - 1] = g[k - 1]
  BY <1>1, <1>2
<1> QED
  BY <1>1, <1>2, <1>3

\* o lists n elements of S in descending order.
Descends(o, S, n) == o \in [1 .. n -> S] /\ \A i, j \in 1 .. n : i < j => o[i] > o[j]

\* Every finite set of numbers can be listed in descending order: its least element last.
LEMMA DescendingExists ==
    ASSUME NEW S \in SUBSET Nat, IsFiniteSet(S)
    PROVE  \E o : Descends(o, S, Cardinality(S))
<1> DEFINE Listed(T, n) == \E o : Descends(o, T, n)
           bad == {n \in Nat : \E T \in SUBSET Nat : IsFiniteSet(T) /\ Cardinality(T) = n /\ ~Listed(T, n)}
<1> SUFFICES ASSUME ~Listed(S, Cardinality(S))
             PROVE  FALSE
  OBVIOUS
<1> HIDE DEF Listed
<1>1. PICK n \in bad : \A m \in bad : n <= m
  <2>1. bad \subseteq Nat
    BY Zenon
  <2>2. Cardinality(S) \in bad
    BY FS_CardinalityType, Zenon
  <2> HIDE DEF bad
  <2> QED
    BY <2>1, <2>2, LeastNatural, Zenon
<1>2. n \in Nat
  BY <1>1, Zenon
<1>3. PICK T \in SUBSET Nat : IsFiniteSet(T) /\ Cardinality(T) = n /\ ~Listed(T, n)
  BY <1>1, Zenon
<1>4. CASE n = 0
  <2>1. Descends([i \in 1 .. n |-> 0], T, n)
    BY <1>4 DEF Descends
  <2> QED
    BY <1>3, <2>1, Zenon DEF Listed
<1>5. CASE n # 0
  <2>1. T # {}
    BY <1>3, <1>5, FS_EmptySet, Zenon
  <2>2. PICK m \in T : \A x \in T : m <= x
    BY <2>1, LeastNatural, Zenon
  <2> DEFINE U == T \ {m}
  <2>3. U \in SUBSET Nat /\ IsFiniteSet(U) /\ Cardinality(U) = n - 1
    <3>1. IsFiniteSet(U) /\ Cardinality(U) = Cardinality(T) - 1
      BY <1>3, FS_RemoveElement, Zenon
    <3> QED
      BY <1>3, <3>1
  <2>4. n - 1 \in Nat /\ ~(n <= n - 1)
    BY <1>2, <1>5
  <2>5. n - 1 \notin bad
    BY <1>1, <2>4, Zenon
  <2>6. Listed(U, n - 1)
    BY <2>3, <2>4, <2>5, Zenon
  <2>7. PICK o : Descends(o, U, n - 1)
    BY <2>6, Zenon DEF Listed
  <2>8. /\ \A i \in 1 .. n - 1 : o[i] \in Nat /\ o[i] \in T /\ o[i] > m
        /\ \A i, j \in 1 .. n - 1 : i < j => o[i] > o[j]
    <3>1. \A x \in U : x \in Nat /\ x \in T /\ x > m
      BY <2>2
    <3>2. o \in [1 .. n - 1 -> U] /\ \A i, j \in 1 .. n - 1 : i < j => o[i] > o[j]
      BY <2>7, Zenon DEF Descends
    <3> HIDE DEF U
    <3> QED
      BY <3>1, <3>2, Zenon
  <2> DEFINE q == [i \in 1 .. n |-> IF i = n THEN m ELSE o[i]]
  <2>9. ASSUME NEW i \in 1 .. n
        PROVE  (i = n /\ q[i] = m) \/ (i \in 1 .. n - 1 /\ q[i] = o[i])
    BY <1>2
  <2>10. q \in [1 .. n -> T]
    BY ONLY <1>2, <2>8, m \in T
  <2> HIDE DEF q
  <2>11. ASSUME NEW i \in 1 .. n, NEW j \in 1 .. n, i < j
         PROVE  q[i] > q[j]
    <3>1. i # n /\ i \in 1 .. n - 1
      BY <1>2, <2>11
    <3>2. q[i] = o[i]
      BY <2>9, <3>1, Zenon
    <3> QED
      BY ONLY <2>8, <2>9, <2>11, <3>1, <3>2, Zenon
  <2>12. Descends(q, T, n)
    BY <2>10, <2>11, Zenon DEF Descends
  <2> QED
    BY <1>3, <2>12, Zenon DEF Listed
<1> QED
  BY <1>4, <1>5, Zenon

\* Descending lists the elements of a finite set of numbers, all of them.
LEMMA DescendingFacts ==
    ASSUME NEW S \in SUBSET Nat, IsFiniteSet(S)
    PROVE  /\ Cardinality(S) \in Nat
           /\ Descends(Descending(S), S, Cardinality(S))
           /\ \A x \in S : \E i \in 1 .. Cardinality(S) : Descending(S)[i] = x
<1> DEFINE n == Cardinality(S)
<1>1. n \in Nat
  BY FS_CardinalityType, Zenon
<1> HIDE DEF n
<1>2. PICK o : Descends(o, S, n)
  BY DescendingExists, Zenon DEF n
<1>3. o \in [1 .. n -> S] /\ \A i, j \in 1 .. n : i < j => o[i] > o[j]
  BY <1>2, Zenon DEF Descends
<1>4. ASSUME NEW i \in 1 .. n, NEW j \in 1 .. n, o[i] = o[j]
      PROVE  i = j
  <2>1. o[i] \in Nat /\ o[j] \in Nat
    BY <1>3
  <2>2. ~(i < j) /\ ~(j < i)
    BY <1>3, <1>4, <2>1
  <2> QED
    BY <1>1, <2>2
<1>5. o \in Orders(S) /\ DOMAIN o = 1 .. n
  BY <1>3, <1>4, Zenon DEF Orders, Injection, IsInjective, n
<1>6. /\ Descending(S) \in Orders(S)
      /\ \A i, j \in DOMAIN Descending(S) : i < j => Descending(S)[i] > Descending(S)[j]
  BY <1>3, <1>5, Zenon DEF Descending
<1>7. Descending(S) \in Injection(1 .. n, S)
  BY <1>6, Zenon DEF Orders, n
<1>8. Descending(S) \in [1 .. n -> S]
  BY <1>7, Zenon DEF Injection
<1>9. Descending(S) \in Surjection(1 .. n, S)
  <2>1. Cardinality(1 .. n) = n
    BY <1>1, FS_Interval
  <2> QED
    BY <1>7, <2>1, FS_Injection, Zenon DEF n
<1>10. \A x \in S : \E i \in 1 .. n : Descending(S)[i] = x
  BY <1>9, Zenon DEF Surjection
<1>11. Descends(Descending(S), S, n)
  BY <1>6, <1>8, Zenon DEF Descends
<1> QED
  BY <1>1, <1>10, <1>11, Zenon DEF n

\* A peer that reads the ranges R, the first L[1] downwards, takes them for the numbers S.
Reads(n, L, R, S) ==
    /\ \A j \in 1 .. n : L[j] \in Int /\ R[j].AckRange \in Nat /\ R[j].Gap \in Int
    /\ \A j \in 2 .. n : L[j] = L[j - 1] - R[j - 1].AckRange - R[j].Gap - 2
    /\ \A x \in Int : x \in S <=> \E j \in 1 .. n : L[j] - R[j].AckRange <= x /\ x <= L[j]

\* A range is extended downwards.
LEMMA RangeGrows ==
    ASSUME NEW n \in Nat \ {0}, NEW L, NEW R, NEW Q, NEW S, NEW T, Reads(n, L, R, S),
           \A j \in 1 .. n - 1 : Q[j] = R[j], Q[n].Gap = R[n].Gap, Q[n].AckRange = R[n].AckRange + 1,
           T = S \cup {L[n] - R[n].AckRange - 1}
    PROVE  Reads(n, L, Q, T)
<1>1. n \in 1 .. n /\ n - 1 \in Nat /\ \A j \in 1 .. n : j = n \/ j \in 1 .. n - 1
  OBVIOUS
<1>2. \A j \in 1 .. n : L[j] \in Int /\ R[j].AckRange \in Nat /\ R[j].Gap \in Int
  BY Zenon DEF Reads
<1>3. \A j \in 1 .. n : L[j] \in Int /\ Q[j].AckRange \in Nat /\ Q[j].Gap \in Int
  BY <1>1, <1>2
<1>4. ASSUME NEW j \in 2 .. n
      PROVE  L[j] = L[j - 1] - Q[j - 1].AckRange - Q[j].Gap - 2
  <2>1. j - 1 \in 1 .. n - 1 /\ j \in 1 .. n
    OBVIOUS
  <2>2. Q[j - 1].AckRange = R[j - 1].AckRange /\ Q[j].Gap = R[j].Gap
    BY <1>1, <2>1, Zenon
  <2>3. L[j] = L[j - 1] - R[j - 1].AckRange - R[j].Gap - 2
    BY Zenon DEF Reads
  <2> QED
    BY <2>2, <2>3, Zenon
<1>5. ASSUME NEW x \in Int
      PROVE  x \in T <=> \E j \in 1 .. n : L[j] - Q[j].AckRange <= x /\ x <= L[j]
  <2>1. x \in S <=> \E j \in 1 .. n : L[j] - R[j].AckRange <= x /\ x <= L[j]
    BY Zenon DEF Reads
  <2>2. x \in T <=> x \in S \/ x = L[n] - R[n].AckRange - 1
    BY Zenon
  <2>3. /\ L[n] \in Int /\ R[n].AckRange \in Nat
        /\ L[n] - Q[n].AckRange <= x /\ x <= L[n]
              <=> (L[n] - R[n].AckRange <= x /\ x <= L[n]) \/ x = L[n] - R[n].AckRange - 1
    BY <1>1, <1>2
  <2>4. \A j \in 1 .. n - 1 : Q[j].AckRange = R[j].AckRange
    BY Zenon
  <2>5. \A j \in 1 .. n - 1 : j \in 1 .. n
    OBVIOUS
  <2> QED
    BY ONLY <1>1, <2>1, <2>2, <2>3, <2>4, <2>5, ZenonT(30)
<1> QED
  BY <1>3, <1>4, <1>5, Zenon DEF Reads

\* The range of one number is added, below a gap.
Adds(n, L, M, R, Q, number) ==
    /\ \A j \in 1 .. n : M[j] = L[j] /\ Q[j] = R[j]
    /\ M[n + 1] = number
    /\ Q[n + 1].Gap = L[n] - R[n].AckRange - number - 2 /\ Q[n + 1].AckRange = 0

\* Then the ranges stand for this number too.
LEMMA RangeAdded ==
    ASSUME NEW n \in Nat \ {0}, NEW L, NEW M, NEW R, NEW Q, NEW S, Reads(n, L, R, S),
           NEW number \in Int, Adds(n, L, M, R, Q, number)
    PROVE  Reads(n + 1, M, Q, S \cup {number})
<1> DEFINE T == S \cup {number}
<1> USE DEF Adds
<1>1. n \in 1 .. n /\ (\A j \in 1 .. n + 1 : j = n + 1 \/ j \in 1 .. n) /\ \A j \in 1 .. n : j \in 1 .. n + 1
  OBVIOUS
<1>2. \A j \in 1 .. n : L[j] \in Int /\ R[j].AckRange \in Nat /\ R[j].Gap \in Int
  BY Zenon DEF Reads
<1>3. \A j \in 1 .. n + 1 : M[j] \in Int /\ Q[j].AckRange \in Nat /\ Q[j].Gap \in Int
  <2>1. L[n] - R[n].AckRange - number - 2 \in Int /\ 0 \in Nat
    BY <1>1, <1>2
  <2> QED
    BY <1>1, <1>2, <2>1, Zenon
<1>4. ASSUME NEW j \in 2 .. n + 1
      PROVE  M[j] = M[j - 1] - Q[j - 1].AckRange - Q[j].Gap - 2
  <2>1. CASE j = n + 1
    <3>1. j - 1 = n
      BY <2>1
    <3>2. M[n] = L[n] /\ Q[n].AckRange = R[n].AckRange /\ L[n] \in Int /\ R[n].AckRange \in Int
      BY <1>1, <1>2
    <3>3. number = L[n] - R[n].AckRange - (L[n] - R[n].AckRange - number - 2) - 2
      BY <3>2
    <3> QED
      BY <2>1, <3>1, <3>2, <3>3
  <2>2. CASE j \in 2 .. n
    <3>1. j \in 1 .. n /\ j - 1 \in 1 .. n
      BY <2>2
    <3>2. L[j] = L[j - 1] - R[j - 1].AckRange - R[j].Gap - 2
      BY <2>2, Zenon DEF Reads
    <3> QED
      BY <3>1, <3>2, Zenon
  <2> QED
    BY <2>1, <2>2
<1>5. ASSUME NEW x \in Int
      PROVE  x \in T <=> \E j \in 1 .. n + 1 : M[j] - Q[j].AckRange <= x /\ x <= M[j]
  <2>1. x \in S <=> \E j \in 1 .. n : L[j] - R[j].AckRange <= x /\ x <= L[j]
    BY Zenon DEF Reads
  <2>2. x \in T <=> x \in S \/ x = number
    BY Zenon
  <2>3. M[n + 1] - Q[n + 1].AckRange <= x /\ x <= M[n + 1] <=> x = number
    OBVIOUS
  <2>4. \A j \in 1 .. n : M[j] = L[j] /\ Q[j].AckRange = R[j].AckRange
    BY Zenon
  <2>5. n + 1 \in 1 .. n + 1
    BY SMTT(30)
  <2> QED
    BY ONLY <1>1, <2>1, <2>2, <2>3, <2>4, <2>5, ZenonT(30)
<1> QED
  BY <1>3, <1>4, <1>5, Zenon DEF Reads

\* What the peer computes from an ACK frame whose ranges stand for S.
LEMMA AcknowledgedIs ==
    ASSUME NEW ack, NEW n \in Nat \ {0}, DOMAIN ack.ranges = 1 .. n, NEW L, NEW S \in SUBSET Int,
           Reads(n, L, ack.ranges, S), L[1] = ack.largest
    PROVE  Acknowledged(ack) = S
<1> DEFINE Down(h) == [k \in 1 .. n |-> IF k = 1 THEN ack.largest
                            ELSE h[k - 1] - ack.ranges[k - 1].AckRange - ack.ranges[k].Gap - 2]
           g == CHOOSE h : h = Down(h)
           M == [k \in 1 .. n |-> L[k]]
<1>1. Acknowledged(ack) = UNION {g[k] - ack.ranges[k].AckRange .. g[k] : k \in 1 .. n}
  BY Zenon DEF Acknowledged
<1>2. M = Down(M)
  <2>1. \A k \in 1 .. n : k = 1 \/ (k # 1 /\ k \in 2 .. n /\ k - 1 \in 1 .. n)
    OBVIOUS
  <2>2. \A k \in 2 .. n : L[k] = L[k - 1] - ack.ranges[k - 1].AckRange - ack.ranges[k].Gap - 2
    BY Zenon DEF Reads
  <2>3. \A k \in 1 .. n : M[k] = Down(M)[k]
    BY <2>1, <2>2, Zenon
  <2> QED
    BY <2>3, Zenon
<1>3. g = Down(g)
  BY <1>2, Zenon
<1> HIDE DEF g
<1>4. \A k \in 1 .. n : g[k] = L[k]
  <2>1. g[1] = M[1]
    BY <1>2, <1>3
  <2>2. \A k \in 2 .. n : g[k] = g[k - 1] - ack.ranges[k - 1].AckRange - ack.ranges[k].Gap - 2
    BY <1>3
  <2>3. \A k \in 2 .. n : M[k] = M[k - 1] - ack.ranges[k - 1].AckRange - ack.ranges[k].Gap - 2
    BY <1>2
  <2>4. \A k \in 1 .. n : M[k] = L[k]
    BY Zenon
  <2> HIDE DEF M
  <2>5. \A k \in 2 .. n : g[k - 1] = M[k - 1] => g[k] = M[k]
    BY <2>2, <2>3, Zenon
  <2>6. \A k \in 1 .. n : g[k] = M[k]
    <3>1. n \in Nat
      OBVIOUS
    <3> QED
      BY ONLY <2>1, <2>5, <3>1, SameTurns
  <2> QED
    BY <2>4, <2>6, Zenon
<1>5. ASSUME NEW x
      PROVE  x \in Acknowledged(ack) <=> x \in S
  <2>1. x \in Acknowledged(ack) <=> \E k \in 1 .. n : x \in L[k] - ack.ranges[k].AckRange .. L[k]
    BY <1>1, <1>4, Zenon
  <2>2. ASSUME NEW k \in 1 .. n
        PROVE  x \in L[k] - ack.ranges[k].AckRange .. L[k]
                 <=> x \in Int /\ L[k] - ack.ranges[k].AckRange <= x /\ x <= L[k]
    <3>1. L[k] \in Int /\ ack.ranges[k].AckRange \in Nat
      BY Zenon DEF Reads
    <3> QED
      BY <3>1
  <2>3. x \in Int => (x \in S <=> \E k \in 1 .. n : L[k] - ack.ranges[k].AckRange <= x /\ x <= L[k])
    BY Zenon DEF Reads
  <2> QED
    BY <2>1, <2>2, <2>3, Zenon
<1> QED
  BY <1>5, Zenon

\* The turns of the loop of GetAckFrame over the numbers d.
FirstTurn(d) == [previous |-> d[1], ranges |-> <<>>, block |-> [Gap |-> 0, AckRange |-> 0]]
Turns(t, d, n) == t = [k \in 1 .. n |-> IF k = 1 THEN FirstTurn(d) ELSE AckNumber(d[k], t[k - 1])]

\* The loop takes its turns, however many numbers there are.
LEMMA TurnsExist ==
    ASSUME NEW d, NEW n \in Nat
    PROVE  \E t : Turns(t, d, n)
<1> DEFINE Taken(m) == \E t : Turns(t, d, m)
           bad == {m \in Nat : ~Taken(m)}
<1> SUFFICES ASSUME ~Taken(n)
             PROVE  FALSE
  OBVIOUS
<1> HIDE DEF Taken
<1>1. PICK m \in bad : \A k \in bad : m <= k
  <2>1. bad \subseteq Nat /\ n \in bad
    BY Zenon
  <2> HIDE DEF bad
  <2> QED
    BY <2>1, LeastNatural, Zenon
<1>2. m \in Nat /\ ~Taken(m)
  BY <1>1, Zenon
<1>3. CASE m = 0
  <2>1. 1 .. m = {}
    BY <1>3
  <2>2. Turns([k \in 1 .. m |-> 0], d, m)
    BY <2>1, Zenon DEF Turns
  <2> QED
    BY <1>2, <2>2, Zenon DEF Taken
<1>4. CASE m # 0
  <2>1. m - 1 \in Nat /\ ~(m <= m - 1)
    BY <1>2, <1>4
  <2>2. PICK t : Turns(t, d, m - 1)
    BY <1>1, <2>1, Zenon DEF Taken
  <2> DEFINE u == [k \in 1 .. m |-> IF k < m THEN t[k]
                                    ELSE IF k = 1 THEN FirstTurn(d) ELSE AckNumber(d[k], t[k - 1])]
  <2>3. ASSUME NEW k \in 1 .. m
        PROVE  u[k] = IF k = 1 THEN FirstTurn(d) ELSE AckNumber(d[k], u[k - 1])
    <3>1. k # 1 => k - 1 \in 1 .. m /\ k - 1 < m
      BY <1>2
    <3>2. k # 1 => u[k - 1] = t[k - 1]
      BY <3>1, Zenon
    <3>3. CASE k < m
      <4>1. k \in 1 .. m - 1
        BY <1>2, <3>3
      <4>2. t[k] = IF k = 1 THEN FirstTurn(d) ELSE AckNumber(d[k], t[k - 1])
        BY <2>2, <4>1, Zenon DEF Turns
      <4>3. u[k] = t[k]
        BY <3>3, Zenon
      <4> HIDE DEF u
      <4> QED
        BY <3>2, <4>2, <4>3, Zenon
    <3>4. CASE ~(k < m)
      <4>1. u[k] = IF k = 1 THEN FirstTurn(d) ELSE AckNumber(d[k], t[k - 1])
        BY <3>4, Zenon
      <4> HIDE DEF u
      <4> QED
        BY <3>2, <4>1, Zenon
    <3> QED
      BY <3>3, <3>4, Zenon
  <2>4. Turns(u, d, m)
    BY <2>3, Zenon DEF Turns
  <2> QED
    BY <1>2, <2>4, Zenon DEF Taken
<1> QED
  BY <1>3, <1>4, Zenon

Blocks == [Gap : Int, AckRange : Nat]

\* After a turn the ranges stand for the numbers seen so far, and end at the last of them.
Exact(a, d, k) ==
    /\ DOMAIN a = {"previous", "ranges", "block"}
    /\ a.previous = d[k] /\ a.ranges \in Seq(Blocks) /\ a.block \in Blocks
    /\ \E L : /\ L[1] = d[1] /\ L[Len(a.ranges) + 1] - a.block.AckRange = d[k]
              /\ Reads(Len(a.ranges) + 1, L, Append(a.ranges, a.block), {d[i] : i \in 1 .. k})

\* At first.
LEMMA FirstTurnExact ==
    ASSUME NEW d, d[1] \in Nat
    PROVE  Exact(FirstTurn(d), d, 1)
<1> DEFINE b == [Gap |-> 0, AckRange |-> 0]
           L == [j \in 1 .. 1 |-> d[1]]
<1>1. /\ FirstTurn(d).previous = d[1] /\ FirstTurn(d).ranges = <<>> /\ FirstTurn(d).block = b
      /\ DOMAIN FirstTurn(d) = {"previous", "ranges", "block"}
  BY DEF FirstTurn
<1>2. b \in Blocks /\ <<>> \in Seq(Blocks) /\ Append(<<>>, b) = <<b>> /\ Len(<<>>) = 0
  BY DEF Blocks
<1>3. Reads(1, L, <<b>>, {d[i] : i \in 1 .. 1})
  <2>1. L[1] = d[1] /\ <<b>>[1].AckRange = 0 /\ <<b>>[1].Gap = 0 /\ {d[i] : i \in 1 .. 1} = {d[1]}
    OBVIOUS
  <2>2. 1 .. 1 = {1} /\ 2 .. 1 = {}
    OBVIOUS
  <2>3. ASSUME NEW x \in Int
        PROVE  x \in {d[1]} <=> d[1] - 0 <= x /\ x <= d[1]
    OBVIOUS
  <2>4. d[1] \in Int /\ 0 \in Nat /\ 0 \in Int
    OBVIOUS
  <2> HIDE DEF L, b
  <2> QED
    BY <2>1, <2>2, <2>3, <2>4, Zenon DEF Reads
<1>4. L[0 + 1] - b.AckRange = d[1] /\ 0 + 1 = 1 /\ L[1] = d[1]
  OBVIOUS
<1> HIDE DEF L, b
<1> QED
  BY <1>1, <1>2, <1>3, <1>4, Zenon DEF Exact

\* An element appended is behind the others.
LEMMA AppendedBlock ==
    ASSUME NEW r \in Seq(Blocks), NEW b \in Blocks
    PROVE  /\ Append(r, b) \in Seq(Blocks) /\ Len(Append(r, b)) = Len(r) + 1 /\ Len(r) \in Nat
           /\ Append(r, b)[Len(r) + 1] = b /\ \A j \in 1 .. Len(r) : Append(r, b)[j] = r[j]
OBVIOUS

\* A turn with a smaller number.
LEMMA TurnExact ==
    ASSUME NEW d, NEW k \in Nat \ {0}, \A i \in 1 .. k + 1 : d[i] \in Nat, d[k] > d[k + 1],
           NEW a, Exact(a, d, k)
    PROVE  Exact(AckNumber(d[k + 1], a), d, k + 1)
<1> DEFINE n == Len(a.ranges) + 1
           R == Append(a.ranges, a.block)
           S == {d[i] : i \in 1 .. k}
           T == {d[i] : i \in 1 .. k + 1}
           c == AckNumber(d[k + 1], a)
<1>1. /\ DOMAIN a = {"previous", "ranges", "block"} /\ a.previous = d[k]
      /\ a.ranges \in Seq(Blocks) /\ a.block \in Blocks
  BY Zenon DEF Exact
<1>2. PICK L : L[1] = d[1] /\ L[n] - a.block.AckRange = d[k] /\ Reads(n, L, R, S)
  BY Zenon DEF Exact
<1>3. /\ n \in Nat \ {0} /\ R \in Seq(Blocks) /\ Len(R) = n /\ R[n] = a.block
      /\ \A j \in 1 .. Len(a.ranges) : R[j] = a.ranges[j]
  <2>1. R \in Seq(Blocks) /\ Len(R) = n /\ R[n] = a.block /\ Len(a.ranges) \in Nat
        /\ \A j \in 1 .. Len(a.ranges) : R[j] = a.ranges[j]
    BY <1>1, AppendedBlock, Zenon
  <2> HIDE DEF R
  <2> QED
    BY <2>1
<1>4. d[k] \in Nat /\ d[k + 1] \in Nat /\ k \in 1 .. k + 1 /\ k + 1 \in 1 .. k + 1
  OBVIOUS
<1>5. T = S \cup {d[k + 1]}
  <2>1. 1 .. k + 1 = (1 .. k) \cup {k + 1}
    OBVIOUS
  <2> QED
    BY <2>1, Zenon
<1>6. a.block.AckRange \in Nat /\ a.block.Gap \in Int /\ DOMAIN a.block = {"Gap", "AckRange"}
  BY <1>1 DEF Blocks
<1>7. n \in 1 .. n /\ L[n] \in Int
  <2>1. n \in 1 .. n
    BY ONLY <1>3
  <2> QED
    BY <1>2, <2>1, Zenon DEF Reads
<1>8. CASE a.previous - d[k + 1] = 1
  <2> DEFINE b == [a.block EXCEPT !.AckRange = @ + 1]
             Q == Append(a.ranges, b)
  <2>1. b \in Blocks /\ b.AckRange = a.block.AckRange + 1 /\ b.Gap = a.block.Gap
    BY <1>1, <1>6 DEF Blocks
  <2>2. /\ DOMAIN c = {"previous", "ranges", "block"} /\ c.previous = d[k + 1]
        /\ c.ranges = a.ranges /\ c.block = b
    BY <1>1, <1>8, Zenon DEF AckNumber
  <2>3. Q[n] = b /\ \A j \in 1 .. Len(a.ranges) : Q[j] = a.ranges[j]
    BY <1>1, <2>1, AppendedBlock, Zenon
  <2>4. Len(a.ranges) = n - 1
    BY <1>1
  <2> HIDE DEF b, c
  <2>5. \A j \in 1 .. n - 1 : Q[j] = R[j]
    BY <1>3, <2>3, <2>4, Zenon
  <2>6. L[n] - b.AckRange = d[k + 1] /\ L[n] - R[n].AckRange - 1 = d[k + 1]
    <3>1. d[k] - d[k + 1] = 1
      BY <1>1, <1>8, Zenon
    <3>2. L[n] - a.block.AckRange = d[k] /\ R[n].AckRange = a.block.AckRange
      BY <1>2, <1>3, Zenon
    <3> HIDE DEF n, R
    <3> QED
      BY ONLY <1>4, <1>6, <1>7, <2>1, <3>1, <3>2
  <2>7. Q[n].Gap = R[n].Gap /\ Q[n].AckRange = R[n].AckRange + 1
    BY <1>3, <2>1, <2>3, Zenon
  <2> HIDE DEF n, R, S, T, Q
  <2>8. T = S \cup {L[n] - R[n].AckRange - 1}
    BY <1>5, <2>6, Zenon
  <2>9. Reads(n, L, Q, T)
    BY ONLY <1>2, <1>3, <2>5, <2>7, <2>8, RangeGrows
  <2> QED
    BY <1>1, <1>2, <2>1, <2>2, <2>6, <2>9, Zenon DEF Exact, n, T, Q, c
<1>9. CASE a.previous - d[k + 1] # 1
  <2> DEFINE b == [Gap |-> GapOf(a.previous, d[k + 1]), AckRange |-> 0]
             Q == Append(R, b)
             M == [j \in 1 .. n + 1 |-> IF j = n + 1 THEN d[k + 1] ELSE L[j]]
  <2>1. b.Gap = d[k] - d[k + 1] - 2 /\ b.AckRange = 0 /\ b \in Blocks
    BY <1>1, <1>4 DEF GapOf, Blocks
  <2>2. /\ DOMAIN c = {"previous", "ranges", "block"} /\ c.previous = d[k + 1]
        /\ c.ranges = R /\ c.block = b
    BY <1>9, Zenon DEF AckNumber
  <2> HIDE DEF b, c, R
  <2>3. Q[n + 1] = b /\ \A j \in 1 .. n : Q[j] = R[j]
    <3>1. Append(R, b)[Len(R) + 1] = b /\ \A j \in 1 .. Len(R) : Append(R, b)[j] = R[j]
      BY ONLY <1>3, <2>1, AppendedBlock, ZenonT(40)
    <3> QED
      BY <1>3, <3>1, Zenon
  <2> HIDE DEF n, S, T, Q
  <2>4. M[n + 1] = d[k + 1] /\ \A j \in 1 .. n : M[j] = L[j]
    BY ONLY <1>3
  <2>5. M[1] = d[1]
    <3>1. 1 \in 1 .. n
      BY ONLY <1>3
    <3> QED
      BY ONLY <1>2, <2>4, <3>1, Zenon
  <2> HIDE DEF M
  <2>6. Q[n + 1].Gap = L[n] - R[n].AckRange - d[k + 1] - 2 /\ Q[n + 1].AckRange = 0
    <3>1. L[n] - R[n].AckRange = d[k]
      BY <1>2, <1>3, Zenon
    <3> QED
      BY ONLY <2>1, <2>3, <3>1, Zenon
  <2>7. Reads(n + 1, M, Q, T)
    <3>1. n \in Nat \ {0} /\ Reads(n, L, R, S)
      BY <1>2, <1>3, Zenon
    <3>2. d[k + 1] \in Int
      BY <1>4
    <3>3. M[n + 1] = d[k + 1] /\ \A j \in 1 .. n : M[j] = L[j] /\ Q[j] = R[j]
      BY <2>3, <2>4, Zenon
    <3> QED
      <4>1. Adds(n, L, M, R, Q, d[k + 1])
        BY ONLY <2>6, <3>3, Zenon DEF Adds
      <4>2. Reads(n + 1, M, Q, S \cup {d[k + 1]})
        BY ONLY <3>1, <3>2, <4>1, RangeAdded, Zenon
      <4> QED
        BY ONLY <1>5, <4>2, Zenon
  <2>8. M[n + 1] - b.AckRange = d[k + 1]
    BY ONLY <1>4, <2>1, <2>4
  <2> QED
    BY <1>3, <2>1, <2>2, <2>5, <2>7, <2>8, Zenon DEF Exact, T, Q, c
<1> QED
  BY <1>8, <1>9, Zenon

\* After every turn the ranges stand for the numbers seen.
LEMMA TurnsExact ==
    ASSUME NEW n \in Nat, NEW d, Descends(d, Nat, n), NEW t, Turns(t, d, n), NEW k \in 1 .. n
    PROVE  Exact(t[k], d, k)
<1> DEFINE bad == {i \in Nat : i \in 1 .. n /\ ~Exact(t[i], d, i)}
<1> SUFFICES ASSUME k \in bad
             PROVE  FALSE
  OBVIOUS
<1>1. PICK i \in bad : \A j \in bad : i <= j
  <2>1. bad \subseteq Nat /\ k \in bad
    BY Zenon
  <2> HIDE DEF bad
  <2> QED
    BY <2>1, LeastNatural, Zenon
<1>2. i \in 1 .. n /\ i \in Nat /\ ~Exact(t[i], d, i)
  BY <1>1, Zenon
<1>3. t[i] = IF i = 1 THEN FirstTurn(d) ELSE AckNumber(d[i], t[i - 1])
  BY <1>2, Zenon DEF Turns
<1>4. \A j \in 1 .. n : d[j] \in Nat
  BY Zenon DEF Descends
<1>5. CASE i = 1
  <2>1. Exact(FirstTurn(d), d, 1)
    BY <1>2, <1>4, <1>5, FirstTurnExact, Zenon
  <2> QED
    BY <1>2, <1>3, <1>5, <2>1, Zenon
<1>6. CASE i # 1
  <2> DEFINE p == i - 1
  <2>1. p \in Nat \ {0} /\ p \in 1 .. n /\ ~(i <= p) /\ p + 1 = i /\ p < i /\ \A j \in 1 .. i : j \in 1 .. n
    BY <1>2, <1>6
  <2>2. Exact(t[p], d, p)
    BY <1>1, <2>1, Zenon
  <2>3. d[p] > d[i]
    BY <1>2, <2>1, Zenon DEF Descends
  <2> HIDE DEF p
  <2>4. Exact(AckNumber(d[p + 1], t[p]), d, p + 1)
    BY <1>4, <2>1, <2>2, <2>3, TurnExact, Zenon
  <2> QED
    BY <1>2, <1>3, <1>6, <2>1, <2>4, Zenon DEF p
<1> QED
  BY <1>5, <1>6, Zenon

\* The frame for a queue is read as the numbers of the queue.
LEMMA AckFrameExact ==
    ASSUME NEW queue \in Seq(Nat), queue # <<>>
    PROVE  Acknowledged(GetAckFrame(queue)) = Range(queue)
<1> DEFINE S == Range(queue)
           n == Cardinality(S)
           d == Descending(S)
           g == CHOOSE t : t = [k \in 1 .. Len(d) |-> IF k = 1 THEN FirstTurn(d) ELSE AckNumber(d[k], t[k - 1])]
           ack == GetAckFrame(queue)
<1>1. S \in SUBSET Nat /\ S # {}
  <2>1. 1 \in DOMAIN queue /\ \A i \in DOMAIN queue : queue[i] \in Nat
    BY ONLY queue \in Seq(Nat), queue # <<>>
  <2> QED
    BY <2>1, Zenon DEF Range
<1>2. IsFiniteSet(S)
  <2>1. Len(queue) \in Nat /\ DOMAIN queue = 1 .. Len(queue)
    OBVIOUS
  <2>2. IsFiniteSet(1 .. Len(queue))
    BY <2>1, FS_Interval
  <2>3. queue \in Surjection(1 .. Len(queue), S)
    <3>1. queue \in [1 .. Len(queue) -> S]
      BY <2>1 DEF Range
    <3> QED
      BY <2>1, <3>1, Zenon DEF Surjection, Range
  <2> QED
    BY <2>2, <2>3, FS_Surjection, Zenon
<1> HIDE DEF S
<1>3. /\ n \in Nat /\ d \in [1 .. n -> S] /\ (\A i, j \in 1 .. n : i < j => d[i] > d[j])
      /\ \A x \in S : \E i \in 1 .. n : d[i] = x
  BY <1>1, <1>2, DescendingFacts, Zenon DEF Descends
<1>4. n \in 1 .. n /\ n # 0
  <2>1. n # 0
    BY <1>1, <1>2, FS_EmptySet, Zenon
  <2> HIDE DEF n, d
  <2> QED
    BY <1>3, <2>1
<1>5. ack = [largest |-> d[1], ranges |-> Append(g[Len(d)].ranges, g[Len(d)].block)]
  BY DEF GetAckFrame, FirstTurn, S
<1> HIDE DEF ack, n, d
<1>6. Len(d) = n
  BY <1>3
<1>7. Turns(g, d, n)
  <2>1. PICK t : Turns(t, d, n)
    BY <1>3, TurnsExist, Zenon
  <2> QED
    BY <1>6, <2>1, Zenon DEF Turns
<1> HIDE DEF g
<1>8. Descends(d, Nat, n)
  <2>1. d \in [1 .. n -> Nat]
    BY <1>1, <1>3
  <2> QED
    BY <1>3, <2>1, Zenon DEF Descends
<1>9. Exact(g[n], d, n)
  BY <1>3, <1>4, <1>7, <1>8, TurnsExact, Zenon
<1> DEFINE r == g[n].ranges
           b == g[n].block
           m == Len(r) + 1
<1>10. PICK L : L[1] = d[1] /\ Reads(m, L, Append(r, b), {d[i] : i \in 1 .. n})
  BY <1>9, Zenon DEF Exact
<1>11. {d[i] : i \in 1 .. n} = S
  BY <1>3, Zenon
<1>12. r \in Seq(Blocks) /\ b \in Blocks
  BY <1>9, Zenon DEF Exact
<1>13. m \in Nat \ {0} /\ DOMAIN Append(r, b) = 1 .. m
  <2> HIDE DEF r, b
  <2>1. Append(r, b) \in Seq(Blocks) /\ Len(Append(r, b)) = Len(r) + 1 /\ Len(r) \in Nat
    BY <1>12, AppendedBlock, Zenon
  <2> QED
    BY <2>1
<1>14. ack.largest = d[1] /\ ack.ranges = Append(r, b)
  BY <1>5, <1>6, Zenon
<1> HIDE DEF r, b, m
<1>15. S \in SUBSET Int
  BY <1>1
<1>16. DOMAIN ack.ranges = 1 .. m /\ Reads(m, L, ack.ranges, S) /\ L[1] = ack.largest
  BY <1>10, <1>11, <1>13, <1>14, Zenon
<1>17. Acknowledged(ack) = S
  BY ONLY <1>13, <1>15, <1>16, AcknowledgedIs, Zenon
<1> QED
  BY <1>17, Zenon DEF ack, S

-----------------------------------------------------------------------------
(* The results.                                                            *)

\* The invariant holds for a new connection.
LEMMA SendInvInitially ==
    Init => SendInv
<1> SUFFICES ASSUME Init PROVE SendInv
  OBVIOUS
<1>1. /\ DOMAIN sender = {"level", "pn", "asks", "spaceLeft", "frames", "ack"}
      /\ sender = Idle /\ sender.level = "none" /\ sender.pn = 0 /\ sender.asks = <<>>
      /\ sender.frames = <<>>
  BY Zenon DEF Init, Idle
<1>2. /\ DOMAIN sent = {"numbers", "frames", "acked"}
      /\ sent.numbers = [l \in Levels |-> <<>>] /\ sent.frames = [f \in DOMAIN Frames |-> 0]
  BY DEF Init
<1>3. /\ unqueued = DOMAIN Frames /\ frameBuffer = [l \in AllLevels |-> {}]
      /\ EncryptionLevels = <<>> /\ available = {"Initial"}
      /\ producers \in {<<"Ack", "Queue">>, <<"Queue", "Ack">>}
      /\ PacketNumber = [l \in Levels |-> 0] /\ SendPacket = <<>> /\ initials = OtherInitials
  BY DEF Init, AllLevels
<1>4. /\ <<>> \in Asks /\ <<>> \in Seq(DOMAIN Frames) /\ <<>> \in Seq(Levels) /\ <<>> \in Seq(Int)
      /\ OtherInitials \in Nat /\ "Initial" \in Levels
  BY FramesAssumption DEF Asks, Levels
<1>5. SendTypes
  BY <1>1, <1>2, <1>3, <1>4 DEF SendTypes
<1>6. FramesInv
  <2>1. \A f \in DOMAIN Frames : Frames[f].level \in AllLevels
    BY FramesAssumption DEF AllLevels
  <2> QED
    BY <1>1, <1>2, <1>3, <2>1 DEF FramesInv, Carried
<1>7. \A l \in Levels : Numbered(l)
  <2>1. \A l \in Levels : l # "none"
    BY DEF Levels
  <2> QED
    BY <1>1, <1>2, <1>3, <2>1 DEF Numbered
<1>8. NumbersInv
  BY <1>3, <1>7 DEF NumbersInv
<1> QED
  BY <1>5, <1>6, <1>8 DEF SendInv

\* Every step keeps the invariant.
LEMMA NextKeepsInv ==
    SendInv /\ [Next]_vars => SendInv'
<1> SUFFICES ASSUME SendInv, [Next]_vars PROVE SendInv'
  OBVIOUS
<1>1. CASE \E f \in DOMAIN Frames : QueueFrame(f)
  BY <1>1, QueueFrameKeepsInv
<1>2. CASE BuildInitial \/ SendBuilt
  BY <1>2, InitialsKeepInv
<1>3. CASE BeginPacket
  BY <1>3, BeginPacketKeepsInv
<1>4. CASE AskAckAgent
  BY <1>4, AskAckAgentKeepsInv
<1>5. CASE AskFrameQueueAgent
  BY <1>5, AskFrameQueueAgentKeepsInv
<1>6. CASE FinishPacket
  BY <1>6, FinishPacketKeepsInv
<1>7. CASE \/ \E l \in Requests : AskForPacket(l)
           \/ \E l \in Levels : InstallKeys(l)
           \/ \E p \in Arrivals : ReceivePacket(p)
           \/ TakeLevel
           \/ UNCHANGED vars
  BY <1>7, OthersKeepInv
<1> QED
  BY <1>1, <1>2, <1>3, <1>4, <1>5, <1>6, <1>7 DEF Next, FillPacket

\* The counts of FramesSentOnce follow from where a frame is.
LEMMA InvSentOnce ==
    SendInv => FramesSentOnce
<1> SUFFICES ASSUME SendInv, NEW f \in DOMAIN Frames
             PROVE  Held(f) + sent.frames[f] = 1
  BY DEF FramesSentOnce
<1> DEFINE S == {l \in Levels \cup BestLevels : f \in frameBuffer[l]}
           C == Cardinality({i \in DOMAIN sender.frames : sender.frames[i] = f})
           level == Frames[f].level
<1>1. C = IF Carried(f) THEN 1 ELSE 0
  BY CarriedOnce DEF SendInv
<1>2. level \in AllLevels
  BY FramesAssumption DEF AllLevels
<1>3. Cardinality(S) = IF f \in frameBuffer[level] THEN 1 ELSE 0
  <2>1. \A l \in S : l = level
    BY DEF SendInv, FramesInv, AllLevels
  <2>2. CASE f \in frameBuffer[level]
    <3>1. S = {level}
      BY <1>2, <2>1, <2>2 DEF AllLevels
    <3> QED
      BY <2>2, <3>1, FS_Singleton, Zenon
  <2>3. CASE f \notin frameBuffer[level]
    <3>1. S = {}
      BY <2>1, <2>3
    <3> QED
      BY <2>3, <3>1, FS_EmptySet, Zenon
  <2> QED
    BY <2>2, <2>3
<1>4. Held(f) = (IF f \in unqueued THEN 1 ELSE 0) + Cardinality(S) + C
  BY DEF Held
<1> HIDE DEF S, C
<1>5. \/ f \in unqueued /\ f \notin frameBuffer[level] /\ ~Carried(f) /\ sent.frames[f] = 0
      \/ f \notin unqueued /\ f \in frameBuffer[level] /\ ~Carried(f) /\ sent.frames[f] = 0
      \/ f \notin unqueued /\ f \notin frameBuffer[level] /\ Carried(f) /\ sent.frames[f] = 0
      \/ f \notin unqueued /\ f \notin frameBuffer[level] /\ ~Carried(f) /\ sent.frames[f] = 1
  BY Zenon DEF SendInv, FramesInv
<1> QED
  BY <1>1, <1>3, <1>4, <1>5

\* A frame that an agent has queued is at every moment in one place: with its agent, in the
\* FrameQueueAgent's queue, in the packet that fillPacket is filling, or in one packet that
\* was sent; whatever the frames, the capacity of a packet and the order of the producers.
THEOREM EveryFrameOnce ==
    Spec => []FramesSentOnce
<1>1. Init => SendInv
  BY SendInvInitially
<1>2. SendInv /\ [Next]_vars => SendInv'
  BY NextKeepsInv
<1>3. SendInv => FramesSentOnce
  BY InvSentOnce
<1> QED
  BY <1>1, <1>2, <1>3, PTL DEF Spec

\* The packets that the SendingAgent sends in a space have the numbers 0, 1, 2 and so on,
\* although it takes a number before it knows whether the packet will be empty; in the
\* Initial space as long as no other goroutine takes numbers.
THEOREM NumbersConsecutive ==
    Spec => []PacketNumbersConsecutive
<1>1. Init => SendInv
  BY SendInvInitially
<1>2. SendInv /\ [Next]_vars => SendInv'
  BY NextKeepsInv
<1>3. SendInv => PacketNumbersConsecutive
  BY Zenon DEF SendInv, NumbersInv, Own, Numbered, PacketNumbersConsecutive
<1> QED
  BY <1>1, <1>2, <1>3, PTL DEF Spec

\* The numbers received are kept as they came or sorted, and the AckAgent is asked for the
\* level of the packet or for a best level.
AckInv ==
    /\ AckQueue \in [Levels -> Seq(Nat)]
    /\ sender.asks \in AsksAt(sender.level)

\* A function on the first naturals is a sequence.
LEMMA SeqOfFunction ==
    ASSUME NEW S, NEW n \in Nat, NEW f \in [1 .. n -> S]
    PROVE  f \in Seq(S)
OBVIOUS

\* Sorting keeps the numbers natural.
LEMMA SortedFacts ==
    ASSUME NEW q \in Seq(Nat), NEW queue \in Sorted(q)
    PROVE  queue \in Seq(Nat)
<1>1. Len(q) \in Nat /\ DOMAIN q = 1 .. Len(q) /\ \A i \in DOMAIN q : q[i] \in Nat
  OBVIOUS
<1>2. IsFiniteSet(DOMAIN q) /\ Cardinality(DOMAIN q) = Len(q)
  <2>0. 1 \in Int /\ Len(q) \in Int
    BY <1>1
  <2>1. IsFiniteSet(1 .. Len(q)) /\ Cardinality(1 .. Len(q)) = IF 1 > Len(q) THEN 0 ELSE Len(q) - 1 + 1
    BY <2>0, FS_Interval, Zenon
  <2>2. (IF 1 > Len(q) THEN 0 ELSE Len(q) - 1 + 1) = Len(q)
    BY <1>1
  <2> QED
    BY <1>1, <2>1, <2>2, Zenon
<1>3. PICK o \in Orders(DOMAIN q) : queue = [i \in DOMAIN q |-> q[o[i]]]
  BY Zenon DEF Sorted
<1>4. o \in [1 .. Len(q) -> DOMAIN q]
  BY <1>2, <1>3, Zenon DEF Orders, Injection
<1>5. queue \in [1 .. Len(q) -> Nat]
  BY <1>1, <1>3, <1>4, Zenon
<1> QED
  BY <1>1, <1>5, SeqOfFunction, Zenon

\* What is left to ask when the first has answered.
LEMMA AsksTail ==
    ASSUME AckInv, sender.asks # <<>>, sender'.asks = Tail(sender.asks), sender'.level = sender.level
    PROVE  sender'.asks \in AsksAt(sender'.level)
BY DEF AckInv, AsksAt

\* The AckAgent answers with a frame for the level of the packet, and sorts its queue.
LEMMA AskAckAgentExact ==
    ASSUME SendInv, AckInv, AskAckAgent
    PROVE  /\ AckInv'
           /\ sender'.ack # sender.ack => Acknowledged(sender'.ack) = Range(AckQueue[sender.level])
<1> DEFINE l == Head(sender.asks)[2]
<1>1. DOMAIN sender = {"level", "pn", "asks", "spaceLeft", "frames", "ack"}
  BY Zenon DEF SendInv, SendTypes
<1>2. sender.asks # <<>> /\ sender'.asks = Tail(sender.asks) /\ sender'.level = sender.level
  BY <1>1, Zenon DEF AskAckAgent
<1>3. sender.level \in Levels /\ l \in {sender.level} \cup BestLevels
  <2>1. sender.level \in Levels
    BY <1>2 DEF SendInv, SendTypes, Idle
  <2>2. l \in {sender.level} \cup BestLevels
    BY <1>2 DEF AckInv, AsksAt
  <2> QED
    BY <2>1, <2>2, Zenon
<1>4. \/ sender'.ack = sender.ack /\ AckQueue' = AckQueue
      \/ /\ l \notin BestLevels /\ AckQueue[sender.level] # <<>>
         /\ sender'.ack \in {sender.ack, GetAckFrame(AckQueue[l])}
         /\ \E queue \in Sorted(AckQueue[l]) : AckQueue' = [AckQueue EXCEPT ![l] = queue]
  BY <1>1, Zenon DEF AskAckAgent, NothingToAcknowledge
<1> HIDE DEF l
<1>5. CASE sender'.ack = sender.ack /\ AckQueue' = AckQueue
  BY <1>2, <1>5, AsksTail, Zenon DEF AckInv
<1>6. ASSUME l \notin BestLevels, AckQueue[sender.level] # <<>>,
             sender'.ack \in {sender.ack, GetAckFrame(AckQueue[l])},
             NEW queue \in Sorted(AckQueue[l]), AckQueue' = [AckQueue EXCEPT ![l] = queue]
      PROVE  /\ AckInv'
             /\ sender'.ack # sender.ack => Acknowledged(sender'.ack) = Range(AckQueue[sender.level])
  <2>1. l = sender.level /\ AckQueue[l] \in Seq(Nat)
    BY <1>3, <1>6, Zenon DEF AckInv
  <2>2. sender'.ack # sender.ack => Acknowledged(sender'.ack) = Range(AckQueue[sender.level])
    BY <1>6, <2>1, AckFrameExact, Zenon
  <2>3. queue \in Seq(Nat)
    BY <2>1, SortedFacts, Zenon
  <2>4. AckQueue' \in [Levels -> Seq(Nat)]
    BY <1>6, <2>3, Zenon DEF AckInv
  <2> QED
    BY <1>2, <2>2, <2>4, AsksTail, Zenon DEF AckInv
<1> QED
  BY <1>4, <1>5, <1>6, Zenon

\* Every step keeps AckInv, and only the AckAgent's answer puts an ACK frame into a packet.
LEMMA NextAcksExact ==
    ASSUME SendInv, AckInv, [Next]_vars
    PROVE  /\ AckInv'
           /\ sender'.ack # sender.ack /\ sender'.ack # NoAck
                 => Acknowledged(sender'.ack) = Range(AckQueue[sender.level])
<1>1. CASE UNCHANGED <<sender, AckQueue>>
  BY <1>1, Zenon DEF AckInv
<1>2. CASE AskAckAgent
  BY <1>2, AskAckAgentExact, Zenon
<1>3. ASSUME NEW p \in Arrivals, ReceivePacket(p)
      PROVE  AckInv' /\ sender' = sender
  <2>1. p.level \in Levels /\ p.pn \in Nat
    BY FramesAssumption, Zenon
  <2>2. sender' = sender /\ AckQueue' = [AckQueue EXCEPT ![p.level] = Append(@, p.pn)]
    BY <1>3, Zenon DEF ReceivePacket
  <2>3. AckQueue' \in [Levels -> Seq(Nat)]
    BY <2>1, <2>2 DEF AckInv
  <2> QED
    BY <2>2, <2>3, Zenon DEF AckInv
<1>4. CASE BeginPacket
  <2>1. AckQueue' = AckQueue
    BY <1>4, Zenon DEF BeginPacket
  <2>2. CASE sender' = sender
    BY <2>1, <2>2, Zenon DEF AckInv
  <2>3. ASSUME NEW level \in Levels, NEW asks \in AskOrders(level, best'),
               sender' = [Idle EXCEPT !.level = level, !.pn = PacketNumber[level],
                                      !.asks = asks, !.spaceLeft = Capacity]
        PROVE  AckInv' /\ sender'.ack = NoAck
    <3>1. sender'.level = level /\ sender'.asks = asks /\ sender'.ack = NoAck
      BY <2>3, Zenon DEF Idle
    <3>2. asks \in AsksAt(level)
      BY AskOrderFacts, Zenon DEF SendInv
    <3> QED
      BY <2>1, <3>1, <3>2, Zenon DEF AckInv
  <2> DEFINE asked == Head(PreparePacket)
             level == IF asked \in BestLevels
                      THEN chooseBestEncryptionLevel(available, asked = "BestAppData") ELSE asked
  <2>4. CASE level \in available
    <3>1. level \in Levels
      BY <2>4, Zenon DEF SendInv, SendTypes
    <3>2. \E asks \in AskOrders(level, best') :
              sender' = [Idle EXCEPT !.level = level, !.pn = PacketNumber[level],
                                     !.asks = asks, !.spaceLeft = Capacity]
      BY <1>4, <2>4, Zenon DEF BeginPacket
    <3> HIDE DEF level
    <3> QED
      BY <2>3, <3>1, <3>2, Zenon
  <2>5. CASE level \notin available
    BY <1>4, <2>2, <2>5, Zenon DEF BeginPacket
  <2> QED
    BY <2>4, <2>5, Zenon
<1>5. CASE AskFrameQueueAgent
  <2>1. DOMAIN sender = {"level", "pn", "asks", "spaceLeft", "frames", "ack"}
    BY Zenon DEF SendInv, SendTypes
  <2>2. /\ sender.asks # <<>> /\ sender'.asks = Tail(sender.asks) /\ sender'.level = sender.level
        /\ sender'.ack = sender.ack /\ AckQueue' = AckQueue
    BY <1>5, <2>1, Zenon DEF AskFrameQueueAgent
  <2> QED
    BY <2>2, AsksTail, Zenon DEF AckInv
<1>6. CASE FinishPacket
  <2>1. AckQueue' = AckQueue /\ sender'.asks = <<>> /\ sender'.ack = NoAck
    BY <1>6, Zenon DEF FinishPacket, Idle
  <2>2. <<>> \in AsksAt(sender'.level)
    BY DEF AsksAt
  <2> QED
    BY <2>1, <2>2, Zenon DEF AckInv
<1>7. CASE \/ \E f \in DOMAIN Frames : QueueFrame(f)
           \/ \E l \in Requests : AskForPacket(l)
           \/ \E l \in Levels : InstallKeys(l)
           \/ BuildInitial \/ TakeLevel \/ SendBuilt
           \/ UNCHANGED vars
  BY <1>1, <1>7, Zenon
     DEF QueueFrame, AskForPacket, InstallKeys, BuildInitial, TakeLevel, SendBuilt, vars
<1> QED
  BY <1>2, <1>3, <1>4, <1>5, <1>6, <1>7, Zenon DEF Next, FillPacket

\* For every sequence of packets received, with holes, out of order or repeated, an ACK frame
\* that GetAckFrame puts into a packet names exactly the packets of the packet's space that
\* the AckAgent has seen.
THEOREM AckFramesExact ==
    Spec => AcksAreExact
<1>1. Init => SendInv /\ AckInv
  <2>1. ASSUME Init PROVE AckInv
    <3>1. AckQueue = [l \in Levels |-> <<>>] /\ sender.asks = <<>>
      BY <2>1, Zenon DEF Init, Idle
    <3>2. <<>> \in Seq(Nat) /\ <<>> \in AsksAt(sender.level)
      BY DEF AsksAt
    <3> QED
      BY <3>1, <3>2, Zenon DEF AckInv
  <2> QED
    BY <2>1, SendInvInitially
<1>2. SendInv /\ AckInv /\ [Next]_vars => (SendInv /\ AckInv)'
  BY NextKeepsInv, NextAcksExact
<1>3. SendInv /\ AckInv /\ [Next]_vars
          => [(sender'.ack # sender.ack /\ sender'.ack # NoAck)
                 => Acknowledged(sender'.ack) = Range(AckQueue[sender.level])]_vars
  BY NextAcksExact
<1> QED
  BY <1>1, <1>2, <1>3, PTL DEF Spec, AcksAreExact
=============================================================================
