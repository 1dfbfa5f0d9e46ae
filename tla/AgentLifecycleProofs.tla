------------------------ MODULE AgentLifecycleProofs ------------------------
(***************************************************************************)
(* What the life of the agents keeps, for every list of agents and of      *)
(* frame producers: who may start a goroutine, and that stopping the       *)
(* SendingAgent first keeps the process alive.                             *)
(***************************************************************************)
EXTENDS AgentLifecycle, TLAPS

SA == "SendingAgent"
Askable == Range(FrameProducers)

\* The slice of the frame producers and the loop of fillPacket over it: what is still to be
\* asked is a producer, also after the slice shrank under the loop.
SenderType == [slots : Seq(Agents \cup {Nil}), len : Nat, i : Nat, n : Nat, gen : Nat]

SliceInv ==
    /\ sender \in SenderType
    /\ sender.len <= Len(sender.slots)
    /\ \A j \in 1 .. sender.len : sender.slots[j] \in Askable
    /\ loop[SA] \in {"handling", "requesting", "awaiting"} =>
          /\ 1 <= sender.i /\ sender.n <= Len(sender.slots)
          /\ \A j \in sender.i .. sender.n : sender.slots[j] \in Askable
    /\ loop[SA] \in {"requesting", "awaiting"} => sender.i <= sender.n

\* The goroutines: the SendingAgent waits for an answer exactly from an agent that gives one.
LoopInv ==
    /\ loop \in [Agents -> Running \cup {"terminated"}]
    /\ gen \in [Agents -> Nat]
    /\ loop[SA] = "awaiting" => loop[Producer] = "answering"

\* The goroutine that restarts the agents: it has joined those it has passed, and runs again
\* only agents it has joined.
ManagerInv ==
    /\ manager \in [pc : {"select", "restart", "send", "join", "run", "returned"}, i : 1 .. Len(attached)]
    /\ manager.pc \in {"restart", "send", "join"} =>
          \A j \in 1 .. manager.i - 1 : loop[attached[j]] = "terminated"
    /\ manager.pc = "run" => \A j \in manager.i .. Len(attached) : loop[attached[j]] = "terminated"

RestartInv == SliceInv /\ LoopInv /\ ManagerInv

-----------------------------------------------------------------------------
\* The agents that have a part of their own exist, and the SendingAgent asks only others.
LEMMA AgentsFacts ==
    /\ {SA, "SocketAgent", "ClosingAgent", "HandshakeAgent"} \subseteq Agents
    /\ Askable \subseteq Agents /\ SA \notin Askable
    /\ \A j \in 1 .. Len(attached) : attached[j] \in Agents
    /\ Len(attached) \in Nat \ {0}
<1>1. attached \in Seq(STRING) /\ FrameProducers \in Seq(Agents)
  BY LifecycleAssumption
<1>2. DOMAIN attached = 1 .. Len(attached)
  BY <1>1
<1> QED
  BY <1>1, <1>2, LifecycleAssumption DEF Agents, Askable, Range, SA

\* The agent that RequestFrames is called on is a producer, so not the SendingAgent.
LEMMA ProducerIsAskable ==
    ASSUME SliceInv, loop[SA] \in {"requesting", "awaiting"}
    PROVE  Producer \in Askable /\ Producer \in Agents /\ Producer # SA
BY AgentsFacts DEF SliceInv, SenderType, Producer

\* What append(a.FrameProducer[:i], a.FrameProducer[i+1:]...) leaves in the array: the others
\* move up by one, and behind the new end nothing moves but the last one is forgotten.
LEMMA RemovedFacts ==
    ASSUME NEW S, NEW s \in Seq(S \cup {Nil}), NEW len \in Nat, len <= Len(s), NEW i \in 1 .. len
    PROVE  /\ Removed(s, len, i) \in Seq(S \cup {Nil}) /\ Len(Removed(s, len, i)) = Len(s)
           /\ \A j \in 1 .. i - 1 : Removed(s, len, i)[j] = s[j]
           /\ \A j \in i .. len - 1 : Removed(s, len, i)[j] = s[j + 1]
           /\ \A j \in len .. Len(s) : j > i => Removed(s, len, i)[j] = s[j]
<1>1. Len(s) \in Nat /\ \A j \in 1 .. Len(s) : s[j] \in S \cup {Nil}
  OBVIOUS
<1>2. Removed(s, len, i) = [j \in 1 .. Len(s) |-> IF j >= i /\ j < len THEN s[j + 1]
                                                ELSE IF j = i THEN Nil ELSE s[j]]
  BY DEF Removed
<1>3. \A j \in 1 .. Len(s) : (IF j >= i /\ j < len THEN s[j + 1] ELSE IF j = i THEN Nil ELSE s[j]) \in S \cup {Nil}
  BY <1>1
<1>4. Removed(s, len, i) \in [1 .. Len(s) -> S \cup {Nil}]
  BY <1>2, <1>3
<1>5. Removed(s, len, i) \in Seq(S \cup {Nil}) /\ Len(Removed(s, len, i)) = Len(s)
  BY <1>1, <1>4
<1> QED
  BY <1>1, <1>2, <1>5

\* A step that leaves the slice alone and does not take the SendingAgent further into the
\* loop of fillPacket.
LEMMA SliceKept ==
    ASSUME SliceInv, UNCHANGED sender, loop'[SA] = loop[SA] \/ loop'[SA] \in {"select", "terminated"}
    PROVE  SliceInv'
BY DEF SliceInv, SenderType

\* A step of an agent or of the SendingAgent that starts no goroutine: those that have
\* returned stay so.
LEMMA ManagerKept ==
    ASSUME ManagerInv, UNCHANGED manager,
           \A a \in Agents : loop[a] = "terminated" => loop'[a] = "terminated"
    PROVE  ManagerInv'
BY AgentsFacts DEF ManagerInv

\* A step of an agent's own goroutine.
LEMMA AgentStepKeepsInv ==
    ASSUME RestartInv, NEW a \in Agents, AgentStep(a)
    PROVE  RestartInv'
<1> USE AgentsFacts DEF RestartInv, Running, At, Goes
<1>1. CASE Handles(a)
  <2>1. a # SA /\ loop[a] = "select" /\ loop' = [loop EXCEPT ![a] = "handling"] /\ UNCHANGED <<gen, sender, manager>>
    BY <1>1, LifecycleAssumption DEF Handles, SA
  <2>2. LoopInv'
    BY <2>1 DEF LoopInv, Producer
  <2>3. SliceInv' /\ ManagerInv'
    BY <2>1, SliceKept, ManagerKept DEF LoopInv
  <2> QED
    BY <2>2, <2>3
<1>2. CASE Handled(a)
  <2>1. a # SA /\ loop[a] = "handling" /\ loop' = [loop EXCEPT ![a] = "select"] /\ UNCHANGED <<gen, sender, manager>>
    BY <1>2 DEF Handled, SA
  <2>2. LoopInv'
    BY <2>1 DEF LoopInv, Producer
  <2>3. SliceInv' /\ ManagerInv'
    BY <2>1, SliceKept, ManagerKept DEF LoopInv
  <2> QED
    BY <2>2, <2>3
<1>3. CASE TakesClose(a)
  <2>1. loop[a] = "select" /\ loop' = [loop EXCEPT ![a] = "terminated"] /\ UNCHANGED <<gen, sender, manager>>
    BY <1>3 DEF TakesClose
  <2>2. LoopInv'
    BY <2>1 DEF LoopInv, Producer
  <2>3. SliceInv' /\ ManagerInv'
    BY <2>1, SliceKept, ManagerKept DEF LoopInv
  <2> QED
    BY <2>2, <2>3
<1>4. CASE TakesRestart(a)
  <2>1. /\ loop[a] = "select" /\ loop' = [loop EXCEPT ![a] = "terminated"] /\ UNCHANGED <<gen, sender>>
        /\ manager.pc = "send" /\ manager' = [manager EXCEPT !.pc = "join"]
    BY <1>4 DEF TakesRestart, Offered
  <2>2. LoopInv'
    BY <2>1 DEF LoopInv, Producer
  <2>3. SliceInv'
    BY <2>1, SliceKept DEF LoopInv
  <2>4. ManagerInv'
    BY <2>1, SMTT(30) DEF ManagerInv, LoopInv
  <2> QED
    BY <2>2, <2>3, <2>4
<1> QED
  BY <1>1, <1>2, <1>3, <1>4 DEF AgentStep

\* A step of the SendingAgent: the loop over the slice, and the rendezvous with a producer.
LEMMA SenderStepKeepsInv ==
    ASSUME RestartInv, SenderStep
    PROVE  RestartInv'
<1> USE AgentsFacts DEF RestartInv, Running, At, Goes
<1>1. CASE PreparePacket
  <2>1. /\ loop[SA] = "select" /\ loop' = [loop EXCEPT ![SA] = "handling"] /\ UNCHANGED <<gen, manager>>
        /\ sender' = [sender EXCEPT !.i = 1, !.n = sender.len]
    BY <1>1 DEF PreparePacket, SA
  <2>2. LoopInv' /\ ManagerInv'
    BY <2>1, ManagerKept DEF LoopInv
  <2>3. /\ sender'.slots = sender.slots /\ sender'.len = sender.len /\ sender'.i = 1 /\ sender'.n = sender.len
        /\ sender' \in SenderType
    BY <2>1, Zenon DEF SliceInv, SenderType
  <2>4. SliceInv'
    BY <2>1, <2>3 DEF SliceInv, SenderType
  <2> QED
    BY <2>2, <2>4
<1>2. CASE PacketFilled
  <2>1. loop[SA] = "handling" /\ loop' = [loop EXCEPT ![SA] = "select"] /\ UNCHANGED <<gen, sender, manager>>
    BY <1>2 DEF PacketFilled, SA
  <2> QED
    BY <2>1, SliceKept, ManagerKept DEF LoopInv
<1>3. CASE RequestFrames
  <2>1. /\ loop[SA] = "handling" /\ loop' = [loop EXCEPT ![SA] = "requesting"] /\ UNCHANGED <<gen, manager>>
        /\ sender.i <= sender.n /\ sender' = [sender EXCEPT !.gen = gen[Producer]]
    BY <1>3 DEF RequestFrames, SA
  <2>2. Producer \in Agents
    BY <2>1 DEF SliceInv, SenderType, Producer
  <2>3. LoopInv' /\ ManagerInv'
    BY <2>1, ManagerKept DEF LoopInv
  <2>4. SliceInv'
    BY <2>1, <2>2, Zenon DEF SliceInv, SenderType, LoopInv
  <2> QED
    BY <2>3, <2>4
<1>4. CASE RequestTaken
  <2>1. /\ loop[SA] = "requesting" /\ loop[Producer] = "select" /\ UNCHANGED <<gen, sender, manager>>
        /\ loop' = [loop EXCEPT ![SA] = "awaiting", ![Producer] = "answering"]
    BY <1>4 DEF RequestTaken, SA
  <2>2. Producer \in Agents /\ Producer # SA
    BY <2>1, ProducerIsAskable
  <2>3. LoopInv' /\ ManagerInv'
    BY <2>1, <2>2, ManagerKept DEF LoopInv, Producer
  <2>4. SliceInv'
    BY <2>1, <2>2 DEF SliceInv, SenderType, LoopInv
  <2> QED
    BY <2>3, <2>4
<1>5. CASE FramesReturned
  <2>1. /\ loop[SA] = "awaiting" /\ UNCHANGED <<gen, manager>>
        /\ loop' = [loop EXCEPT ![SA] = "handling", ![Producer] = "select"]
        /\ sender' = [sender EXCEPT !.i = @ + 1]
    BY <1>5 DEF FramesReturned, SA
  <2>2. Producer \in Agents /\ Producer # SA /\ loop[Producer] = "answering"
    BY <2>1, ProducerIsAskable DEF LoopInv
  <2>3. LoopInv' /\ ManagerInv'
    BY <2>1, <2>2, ManagerKept DEF LoopInv
  <2>4. /\ sender'.slots = sender.slots /\ sender'.len = sender.len /\ sender'.i = sender.i + 1
        /\ sender'.n = sender.n /\ sender' \in SenderType
    <3>1. sender \in SenderType
      BY Zenon DEF SliceInv
    <3>2. sender.i + 1 \in Nat
      BY <3>1 DEF SenderType
    <3> QED
      BY <2>1, <3>1, <3>2, Zenon DEF SenderType
  <2>5. loop'[SA] = "handling"
    BY <2>1, <2>2 DEF LoopInv
  <2>6. SliceInv'
    BY <2>1, <2>4, <2>5, SMTT(30) DEF SliceInv, SenderType
  <2> QED
    BY <2>3, <2>6
<1>6. CASE ProducerClosed
  <2>1. /\ loop[SA] = "requesting" /\ UNCHANGED gen
        /\ \/ UNCHANGED manager
           \/ manager.pc = "send" /\ manager' = [manager EXCEPT !.pc = "join"]
    BY <1>6 DEF ProducerClosed, Offered, SA
  <2>2. CASE UNCHANGED <<loop, sender>>
    BY <2>1, <2>2, SliceKept DEF LoopInv, ManagerInv, Producer
  <2>3. CASE /\ sender.i <= sender.len /\ loop' = [loop EXCEPT ![SA] = "handling"]
             /\ sender' = [sender EXCEPT !.slots = Removed(@, sender.len, sender.i), !.len = @ - 1, !.i = @ + 1]
    <3>1. LoopInv'
      BY <2>1, <2>3 DEF LoopInv
    <3>2. ManagerInv'
      <4>1. \A j \in 1 .. Len(attached) : loop[attached[j]] = "terminated" => loop'[attached[j]] = "terminated"
        BY <2>1, <2>3, AgentsFacts DEF LoopInv
      <4>2. Len(attached) \in Nat /\ manager.i \in 1 .. Len(attached)
        BY AgentsFacts DEF ManagerInv
      <4>3. CASE UNCHANGED manager
        BY <4>1, <4>2, <4>3 DEF ManagerInv
      <4>4. CASE manager.pc = "send" /\ manager' = [manager EXCEPT !.pc = "join"]
        <5>1. manager'.pc = "join" /\ manager'.i = manager.i
              /\ manager' \in [pc : {"select", "restart", "send", "join", "run", "returned"}, i : 1 .. Len(attached)]
          BY <4>4 DEF ManagerInv
        <5>2. \A j \in 1 .. manager.i - 1 : loop[attached[j]] = "terminated"
          BY <4>4, Zenon DEF ManagerInv
        <5> QED
          BY <4>1, <4>2, <5>1, <5>2 DEF ManagerInv
      <4> QED
        BY <2>1, <4>3, <4>4, Zenon
    <3>3. sender.i \in 1 .. sender.len /\ sender.n <= Len(sender.slots)
      BY <2>1, <2>3 DEF SliceInv, SenderType
    <3> DEFINE slots == Removed(sender.slots, sender.len, sender.i)
    <3>4. sender.slots \in Seq(Agents \cup {Nil}) /\ sender.len \in Nat /\ sender.len <= Len(sender.slots)
      BY DEF SliceInv, SenderType
    <3>5. /\ slots \in Seq(Agents \cup {Nil}) /\ Len(slots) = Len(sender.slots)
          /\ \A j \in 1 .. sender.i - 1 : slots[j] = sender.slots[j]
          /\ \A j \in sender.i .. sender.len - 1 : slots[j] = sender.slots[j + 1]
          /\ \A j \in sender.len .. Len(sender.slots) : j > sender.i => slots[j] = sender.slots[j]
      BY ONLY <3>3, <3>4, RemovedFacts, ZenonT(40)
    <3> HIDE DEF slots
    <3>6. sender.i \in Nat /\ sender.n \in Nat /\ Len(sender.slots) \in Nat
      BY <3>4 DEF SliceInv, SenderType
    <3>7. \A j \in 1 .. sender.len - 1 : slots[j] \in Askable
      <4>1. \A j \in 1 .. sender.len : sender.slots[j] \in Askable
        BY Zenon DEF SliceInv
      <4> SUFFICES ASSUME NEW j \in 1 .. sender.len - 1
                   PROVE  slots[j] \in Askable
        BY Zenon
      <4>2. CASE j \in 1 .. sender.i - 1
        <5>1. j \in 1 .. sender.len
          BY <3>4
        <5> QED
          BY <3>5, <4>1, <4>2, <5>1, Zenon
      <4>3. CASE j \in sender.i .. sender.len - 1
        <5>1. j + 1 \in 1 .. sender.len
          BY <3>4
        <5> QED
          BY <3>5, <4>1, <4>3, <5>1, Zenon
      <4> QED
        BY <3>3, <3>4, <3>6, <4>2, <4>3
    <3>8. \A j \in sender.i + 1 .. sender.n : slots[j] \in Askable
      <4>1. \A j \in 1 .. sender.len : sender.slots[j] \in Askable
        BY DEF SliceInv, SenderType
      <4>2. \A j \in sender.i .. sender.n : sender.slots[j] \in Askable
        BY <2>1 DEF SliceInv, SenderType
      <4> SUFFICES ASSUME NEW j \in sender.i + 1 .. sender.n
                   PROVE  slots[j] \in Askable
        OBVIOUS
      <4>3. CASE j < sender.len
        <5>1. j \in sender.i .. sender.len - 1 /\ j + 1 \in 1 .. sender.len
          BY <3>3, <3>4, <3>6, <4>3
        <5> QED
          BY <3>5, <4>1, <5>1
      <4>4. CASE ~(j < sender.len)
        <5>1. j \in sender.len .. Len(sender.slots) /\ j > sender.i /\ j \in sender.i .. sender.n
          BY <3>3, <3>4, <3>6, <4>4
        <5> QED
          BY <3>5, <4>2, <5>1
      <4> QED
        BY <4>3, <4>4
    <3>9. /\ sender'.slots = slots /\ sender'.len = sender.len - 1 /\ sender'.i = sender.i + 1
          /\ sender'.n = sender.n
          /\ sender' \in SenderType
      <4>1. sender' = [sender EXCEPT !.slots = slots, !.len = sender.len - 1, !.i = sender.i + 1]
        BY <2>3 DEF slots
      <4>2. sender.len - 1 \in Nat /\ sender.i + 1 \in Nat
        BY <3>3, <3>4, <3>6
      <4> QED
        BY <3>5, <4>1, <4>2, Zenon DEF SliceInv, SenderType
    <3>10. loop'[SA] = "handling"
      BY <2>3 DEF LoopInv
    <3>11. SliceInv'
      BY <3>3, <3>4, <3>5, <3>6, <3>7, <3>8, <3>9, <3>10 DEF SliceInv, SenderType
    <3> QED
      BY <3>1, <3>2, <3>11
  <2>4. sender.i > sender.len \/ sender.i <= sender.len
    BY DEF SliceInv, SenderType
  <2> QED
    BY <1>6, <2>2, <2>3, <2>4 DEF ProducerClosed, SA
<1> QED
  BY <1>1, <1>2, <1>3, <1>4, <1>5, <1>6 DEF SenderStep

\* The other ways in which the goroutines of the SocketAgent and the ClosingAgent return.
LEMMA EndingKeepsInv ==
    ASSUME RestartInv, SocketError \/ IdleTimeout \/ CloseFrameSent
    PROVE  RestartInv'
<1>1. PICK a \in {"SocketAgent", "ClosingAgent"} :
          loop[a] = "select" /\ loop' = [loop EXCEPT ![a] = "terminated"] /\ UNCHANGED <<gen, sender, manager>>
  BY DEF SocketError, IdleTimeout, CloseFrameSent, At, Goes
<1>2. a \in Agents /\ a # SA
  BY AgentsFacts DEF SA
<1>3. LoopInv'
  BY <1>1, <1>2 DEF RestartInv, LoopInv, Producer
<1>4. SliceInv' /\ ManagerInv'
  BY <1>1, <1>2, SliceKept, ManagerKept DEF RestartInv, LoopInv
<1> QED
  BY <1>3, <1>4 DEF RestartInv

\* Restart, Join and Run: a goroutine is started only for an agent whose goroutine has returned.
LEMMA ManagerStepKeepsInv ==
    ASSUME RestartInv, ManagerStep
    PROVE  /\ RestartInv'
           /\ \A a \in Agents : gen'[a] # gen[a] => loop[a] = "terminated"
<1> USE AgentsFacts DEF RestartInv
<1>1. CASE ManagerWakes
  BY <1>1, SliceKept DEF ManagerWakes, ManagerGoes, ManagerInv, LoopInv, Producer
<1>2. CASE RestartAgent
  BY <1>2, SliceKept DEF RestartAgent, ManagerGoes, ManagerInv, LoopInv, Producer
<1>3. CASE SendOnClosedChannel
  BY <1>3, SliceKept DEF SendOnClosedChannel, ManagerInv, LoopInv, Producer
<1>4. CASE JoinAgent
  <2>1. manager.pc = "join" /\ loop[attached[manager.i]] = "terminated" /\ UNCHANGED <<loop, gen, sender>>
    BY <1>4 DEF JoinAgent, At, Current
  <2>2. \A j \in 1 .. manager.i : loop[attached[j]] = "terminated"
    BY <2>1 DEF ManagerInv
  <2>3. ManagerInv'
    BY <1>4, <2>1, <2>2 DEF JoinAgent, NextOf, ManagerGoes, ManagerInv
  <2> QED
    BY <2>1, <2>3, SliceKept DEF LoopInv, Producer
<1>5. CASE RunAgent
  <2> DEFINE a == attached[manager.i]
  <2>1. /\ manager.pc = "run" /\ UNCHANGED sender
        /\ loop' = [loop EXCEPT ![a] = "select"] /\ gen' = [gen EXCEPT ![a] = @ + 1]
    BY <1>5 DEF RunAgent, Current
  <2>2. a \in Agents /\ loop[a] = "terminated"
    BY <2>1 DEF ManagerInv
  <2>3. LoopInv' /\ \A b \in Agents : gen'[b] # gen[b] => loop[b] = "terminated"
    BY <2>1, <2>2 DEF LoopInv, Running, Producer
  <2>4. SliceInv'
    BY <2>1, <2>2, SliceKept DEF LoopInv
  <2>5. ManagerInv'
    <3>1. CASE manager.i < Len(attached)
      <4>1. manager' = [pc |-> "run", i |-> manager.i + 1]
        BY <1>5, <3>1 DEF RunAgent, NextOf, ManagerGoes
      <4>2. \A j \in manager.i + 1 .. Len(attached) : attached[j] # a
        BY <2>1, LifecycleAssumption DEF IsInjective, ManagerInv
      <4>3. \A j \in manager.i + 1 .. Len(attached) : loop'[attached[j]] = "terminated"
        BY <2>1, <4>2 DEF ManagerInv, LoopInv
      <4> QED
        BY <3>1, <4>1, <4>3 DEF ManagerInv
    <3>2. CASE ~(manager.i < Len(attached))
      BY <1>5, <3>2 DEF RunAgent, NextOf, ManagerGoes, ManagerInv
    <3> QED
      BY <3>1, <3>2
  <2> QED
    BY <2>3, <2>4, <2>5
<1> QED
  BY <1>1, <1>2, <1>3, <1>4, <1>5 DEF ManagerStep

\* The HandshakeAgent and the goroutine that stops the agents start and end no goroutine; Stop
\* may take the value that Restart sends.
LEMMA OthersKeepInv ==
    ASSUME RestartInv, HandshakeStep \/ Call \/ CallerStep
    PROVE  RestartInv' /\ UNCHANGED gen
<1>1. /\ UNCHANGED <<loop, gen, sender>>
      /\ UNCHANGED manager \/ (manager.pc = "send" /\ manager' = [manager EXCEPT !.pc = "join"])
  BY DEF HandshakeStep, VersionNegotiation, Retry, Restarted, AsksForRestart, Call, CallerStep, StopAgent,
         JoinStopped, JoinBeforeClose, Close, Offered
<1> QED
  BY <1>1, SliceKept DEF RestartInv, LoopInv, ManagerInv, Producer

\* The invariant holds when the agents are created.
LEMMA RestartInvInitially == Init => RestartInv
<1> SUFFICES ASSUME Init
             PROVE  RestartInv
  OBVIOUS
<1>1. FrameProducers \in Seq(Agents) /\ Len(FrameProducers) \in Nat
  BY LifecycleAssumption
<1>2. \A j \in 1 .. Len(FrameProducers) : FrameProducers[j] \in Askable
  BY <1>1 DEF Askable, Range
<1>3. FrameProducers \in Seq(Agents \cup {Nil})
  BY <1>1
<1>4. SliceInv
  BY <1>1, <1>2, <1>3, AgentsFacts DEF Init, SliceInv, SenderType
<1>5. LoopInv /\ ManagerInv
  BY AgentsFacts DEF Init, LoopInv, ManagerInv, Running
<1> QED
  BY <1>4, <1>5 DEF RestartInv

\* Every step keeps the invariant, and starts a goroutine only for an agent without one.
LEMMA NextKeepsInv ==
    ASSUME RestartInv, [Next]_vars
    PROVE  /\ RestartInv'
           /\ \A a \in Agents : gen'[a] # gen[a] => loop[a] = "terminated"
<1>1. CASE UNCHANGED vars
  BY <1>1 DEF vars, RestartInv, SliceInv, LoopInv, ManagerInv, Producer
<1>2. ASSUME NEW a \in Agents, AgentStep(a)
      PROVE  RestartInv' /\ UNCHANGED gen
  BY <1>2, AgentStepKeepsInv, Zenon DEF AgentStep, Handles, Handled, TakesClose, TakesRestart
<1>3. CASE SenderStep
  BY <1>3, SenderStepKeepsInv, Zenon
     DEF SenderStep, PreparePacket, PacketFilled, RequestFrames, RequestTaken, FramesReturned, ProducerClosed
<1>4. CASE SocketError \/ IdleTimeout \/ CloseFrameSent
  BY <1>4, EndingKeepsInv DEF SocketError, IdleTimeout, CloseFrameSent
<1>5. CASE ManagerStep
  BY <1>5, ManagerStepKeepsInv
<1>6. CASE HandshakeStep \/ Call \/ CallerStep
  BY <1>6, OthersKeepInv
<1> QED
  BY <1>1, <1>2, <1>3, <1>4, <1>5, <1>6 DEF Next

\* For every list of agents, however often the connection restarts and whoever stops the
\* agents meanwhile: Run is called only on an agent whose goroutine has returned, so no agent
\* ever has two.  The goroutine of AttachAgentsToConnection joins all before it runs the first.
THEOREM NeverTwoGoroutines == Spec => OneGoroutinePerAgent
<1>1. Init => RestartInv
  BY RestartInvInitially
<1>2. RestartInv /\ [Next]_vars => RestartInv'
  BY NextKeepsInv
<1>3. RestartInv /\ [Next]_vars => [\A a \in Agents : gen'[a] # gen[a] => At(a, "terminated")]_vars
  BY NextKeepsInv DEF At
<1> QED
  BY <1>1, <1>2, <1>3, PTL DEF Spec, OneGoroutinePerAgent

-----------------------------------------------------------------------------
\* Adapter.Stop on a connection that is not restarted: as long as the SendingAgent runs it is
\* the only one that is stopped, so no slice shrinks under its loop, and the ClosingAgent, whose
\* goroutine returns once, closes ConnectionClosed once.
ConnType == [ConnectionRestart : BOOLEAN, ConnectionRestarted : BOOLEAN, ConnectionClosed : BOOLEAN,
             UdpConnection : BOOLEAN, closing : BOOLEAN, CloseFrame : {"none", "queued", "packed", "sent"}]

StopInv ==
    /\ RestartInv
    /\ closeClosed \in [Agents -> BOOLEAN]
    /\ manager.pc \in {"select", "returned"}
    /\ conn \in ConnType /\ conn.ConnectionRestart = FALSE
    /\ conn.ConnectionClosed = TRUE => loop["ClosingAgent"] = "terminated"
    /\ handshake.vns \in Nat
    /\ caller.pc \in {"ready", "stop", "join", "close", "done"}
    /\ caller.pc = "close" => caller.todo = {}
    /\ caller.pc \in {"stop", "join"} => caller.todo = {SA} \/ loop[SA] = "terminated"
    /\ caller.pc = "join" => caller.at \in caller.todo
    /\ loop[SA] # "terminated" => \A a \in Agents \ {SA} : closeClosed[a] = FALSE
    /\ panicked = FALSE

\* A goroutine that has returned has returned for good when nothing restarts.
LEMMA TerminatedStays ==
    ASSUME StopInv, [Next]_vars
    PROVE  \A a \in Agents : loop[a] = "terminated" => loop'[a] = "terminated"
<1> USE AgentsFacts DEF StopInv, RestartInv, LoopInv, At, Goes
<1>1. CASE UNCHANGED vars
  BY <1>1 DEF vars
<1>2. ASSUME NEW a \in Agents, AgentStep(a)
      PROVE  \A b \in Agents : loop[b] = "terminated" => loop'[b] = "terminated"
  BY <1>2, Zenon DEF AgentStep, Handles, Handled, TakesClose, TakesRestart
<1>3. CASE SocketError \/ IdleTimeout \/ CloseFrameSent
  BY <1>3 DEF SocketError, IdleTimeout, CloseFrameSent
<1>4. CASE PreparePacket \/ PacketFilled \/ RequestFrames \/ RequestTaken \/ ProducerClosed
  BY <1>4 DEF PreparePacket, PacketFilled, RequestFrames, RequestTaken, ProducerClosed, SA
<1>5. CASE FramesReturned
  BY <1>5 DEF FramesReturned, SA
<1>6. CASE ManagerStep
  BY <1>6 DEF ManagerStep, ManagerWakes, RestartAgent, SendOnClosedChannel, JoinAgent, RunAgent
<1>7. CASE HandshakeStep \/ Call \/ CallerStep
  BY <1>7 DEF HandshakeStep, VersionNegotiation, Retry, Restarted, AsksForRestart, Call, CallerStep, StopAgent,
              JoinStopped, JoinBeforeClose, Close
<1> QED
  BY <1>1, <1>2, <1>3, <1>4, <1>5, <1>6, <1>7 DEF Next, SenderStep

\* Every step keeps the invariant, if the only calls are Stop and Close.
LEMMA StopInvKept ==
    ASSUME StopInv, [Next]_vars, MaxVN = 0, Retries = FALSE, Calls \subseteq {"Stop", "Close"}
    PROVE  StopInv'
<1>1. RestartInv'
  BY NextKeepsInv DEF StopInv
<1>2. /\ loop["ClosingAgent"] = "terminated" => loop'["ClosingAgent"] = "terminated"
      /\ loop[SA] = "terminated" => loop'[SA] = "terminated"
  BY TerminatedStays, AgentsFacts
<1>3. CASE UNCHANGED vars
  BY <1>1, <1>3 DEF vars, StopInv
<1>4. ASSUME NEW a \in Agents, AgentStep(a)
      PROVE  StopInv'
  <2>1. CASE Handles(a) \/ Handled(a)
    BY <1>1, <1>2, <2>1 DEF Handles, Handled, StopInv
  <2>2. CASE TakesClose(a)
    <3>1. loop[a] = "select" /\ loop'[a] = "terminated" /\ UNCHANGED <<closeClosed, manager, caller, handshake>>
      BY <2>2 DEF TakesClose, At, Goes, StopInv, RestartInv, LoopInv
    <3>2. /\ conn' \in ConnType /\ conn'.ConnectionRestart = FALSE
          /\ panicked' = FALSE
          /\ conn'.ConnectionClosed = TRUE => loop'["ClosingAgent"] = "terminated"
      BY <1>2, <2>2, <3>1, ZenonT(40) DEF TakesClose, Returns, ClosesConnection, ConnType, StopInv
    <3> QED
      BY <1>1, <1>2, <3>1, <3>2 DEF StopInv
  <2>3. CASE TakesRestart(a)
    BY <2>3 DEF TakesRestart, Offered, StopInv
  <2> QED
    BY <1>4, <2>1, <2>2, <2>3 DEF AgentStep
<1>5. CASE SocketError
  BY <1>1, <1>2, <1>5 DEF SocketError, StopInv
<1>6. CASE IdleTimeout \/ CloseFrameSent
  <2>1. /\ loop["ClosingAgent"] = "select" /\ loop'["ClosingAgent"] = "terminated"
        /\ UNCHANGED <<closeClosed, manager, caller, handshake>>
    BY <1>6, AgentsFacts DEF IdleTimeout, CloseFrameSent, At, Goes, StopInv, RestartInv, LoopInv
  <2>2. conn' \in ConnType /\ conn'.ConnectionRestart = FALSE /\ panicked' = FALSE
    BY <1>6, <2>1, ZenonT(40) DEF IdleTimeout, CloseFrameSent, ClosesConnection, ConnType, StopInv
  <2> QED
    BY <1>1, <1>2, <2>1, <2>2 DEF StopInv
<1>7. CASE SenderStep
  <2>1. CASE ProducerClosed
    <3>1. loop[SA] = "requesting" /\ Producer \in Agents \ {SA}
      BY <2>1, ProducerIsAskable DEF ProducerClosed, At, SA, StopInv, RestartInv
    <3>2. closeClosed[Producer] = FALSE /\ manager.pc # "send"
      BY <3>1 DEF StopInv
    <3> QED
      BY <2>1, <3>2 DEF ProducerClosed, Offered
  <2>2. CASE FramesReturned
    <3>1. conn' \in ConnType /\ conn'.ConnectionRestart = FALSE /\ conn'.ConnectionClosed = conn.ConnectionClosed
      BY <2>2 DEF FramesReturned, ConnType, StopInv
    <3>2. UNCHANGED <<closeClosed, manager, caller, handshake, panicked>>
      BY <2>2 DEF FramesReturned
    <3> QED
      BY <1>1, <1>2, <3>1, <3>2 DEF StopInv
  <2>3. CASE PreparePacket \/ PacketFilled \/ RequestFrames \/ RequestTaken
    <3>1. UNCHANGED <<closeClosed, manager, caller, conn, handshake, panicked>>
      BY <2>3 DEF PreparePacket, PacketFilled, RequestFrames, RequestTaken
    <3> QED
      BY <1>1, <1>2, <3>1 DEF StopInv
  <2> QED
    BY <1>7, <2>1, <2>2, <2>3 DEF SenderStep
<1>8. CASE HandshakeStep
  <2>1. CASE Restarted
    <3>1. conn' \in ConnType /\ conn'.ConnectionRestart = FALSE /\ conn'.ConnectionClosed = conn.ConnectionClosed
      BY <2>1, Zenon DEF Restarted, ConnType, StopInv
    <3>2. UNCHANGED <<loop, closeClosed, manager, caller, handshake, panicked>>
      BY <2>1 DEF Restarted
    <3> QED
      BY <1>1, <3>1, <3>2 DEF StopInv
  <2>2. ~VersionNegotiation /\ ~Retry
    BY DEF VersionNegotiation, Retry, StopInv
  <2> QED
    BY <1>8, <2>1, <2>2 DEF HandshakeStep
<1>9. CASE ManagerStep
  <2>1. UNCHANGED <<loop, closeClosed, caller, conn, handshake, panicked>> /\ manager'.pc = "returned"
    BY <1>9 DEF ManagerStep, ManagerWakes, ManagerGoes, RestartAgent, SendOnClosedChannel, JoinAgent, RunAgent, StopInv
  <2> QED
    BY <1>1, <2>1 DEF StopInv
<1>10. CASE Call
  <2>1. /\ \/ caller'.pc = "stop" /\ caller'.todo = {SA}
           \/ caller'.pc = "close" /\ caller'.todo = {}
        /\ UNCHANGED <<loop, closeClosed, manager, conn, handshake, panicked>>
    BY <1>10 DEF Call, CallerGoes, SA
  <2> QED
    BY <1>1, <2>1 DEF StopInv
<1>11. CASE StopAgent
  <2>1. PICK a \in caller.todo :
            /\ closeClosed' = [closeClosed EXCEPT ![a] = TRUE] /\ UNCHANGED manager
            /\ CallerGoes("join", caller.todo, caller.then, a)
    BY <1>11 DEF StopAgent, Offered, StopInv
  <2>2. caller.pc = "stop" /\ UNCHANGED <<loop, conn, handshake, panicked>>
    BY <1>11 DEF StopAgent
  <2> QED
    BY <1>1, <2>1, <2>2, Zenon DEF CallerGoes, StopInv
<1>12. CASE JoinStopped
  BY <1>1, <1>12 DEF JoinStopped, At, CallerGoes, StopInv
<1>13. CASE JoinBeforeClose
  BY <1>13 DEF JoinBeforeClose, StopInv
<1>14. CASE Close
  <2>1. conn' \in ConnType /\ conn'.ConnectionRestart = FALSE /\ conn'.ConnectionClosed = conn.ConnectionClosed
    BY <1>14, Zenon DEF Close, ConnType, StopInv
  <2>2. /\ UNCHANGED <<loop, closeClosed, manager, handshake, panicked>>
        /\ caller'.pc = "ready"
    BY <1>14 DEF Close, CallerGoes, StopInv
  <2> QED
    BY <1>1, <2>1, <2>2 DEF StopInv
<1> QED
  BY <1>3, <1>4, <1>5, <1>6, <1>7, <1>8, <1>9, <1>10, <1>11, <1>12, <1>13, <1>14 DEF Next, CallerStep

\* For every list of agents, whatever the agents and the idle timeout do meanwhile: when a
\* connection that is not restarted is closed by ClosingAgent.Close or stopped by Adapter.Stop
\* (or Reset), which stops the SendingAgent first, no channel is closed twice and the slice of
\* frame producers is not indexed past its end.
THEOREM StoppingNeverPanics ==
    ASSUME MaxVN = 0, Retries = FALSE, Calls \subseteq {"Stop", "Close"}
    PROVE  Spec => []NeverPanics
<1>1. Init => StopInv
  <2> SUFFICES ASSUME Init
               PROVE  StopInv
    OBVIOUS
  <2>1. RestartInv
    BY RestartInvInitially
  <2>2. conn \in ConnType /\ conn.ConnectionRestart = FALSE /\ conn.ConnectionClosed = FALSE
    BY DEF Init, ConnType
  <2> QED
    BY <2>1, <2>2 DEF Init, StopInv
<1>2. StopInv /\ [Next]_vars => StopInv'
  BY StopInvKept, Zenon
<1>3. StopInv => NeverPanics
  BY DEF StopInv, NeverPanics
<1> QED
  BY <1>1, <1>2, <1>3, PTL DEF Spec
=============================================================================
