--------------------------- MODULE AgentLifecycle ---------------------------
(***************************************************************************)
(* The life of the agents attached to a connection (agents/base_agent.go): *)
(* BaseAgent.Stop, Restart and Join, the goroutine that restarts the       *)
(* agents after a Retry or a Version Negotiation packet, StopAll and       *)
(* CloseConnection, together with the parts of SocketAgent, ClosingAgent,  *)
(* HandshakeAgent and SendingAgent that end a goroutine or wait on one.    *)
(*                                                                         *)
(* The channel a.close is closed by Stop but receives a single value from  *)
(* Restart, on an unbuffered channel: whoever receives it takes it from    *)
(* the others.  Run replaces the channels of an agent, which the           *)
(* generation of the agent counts.                                         *)
(***************************************************************************)
EXTENDS Integers, Sequences, Functions

CONSTANTS attached,          \* the agents given to AttachAgentsToConnection, in order
          added,             \* the agents added to the connection afterwards
          FrameProducers,    \* GetFrameProducingAgents(), in the order of the slice
          Events,            \* agents, but the SendingAgent, that have other events to handle
          Packets,           \* TRUE if packets are asked for (conn.PreparePacket)
          MaxVN,             \* Version Negotiation packets that may arrive
          Retries,           \* TRUE if a Retry packet may arrive
          IdleTimeouts,      \* TRUE if the idle timeout may expire
          Calls              \* the operations that are called on the connection

Agents == Range(attached) \cup added

ASSUME LifecycleAssumption ==
    /\ attached \in Seq(STRING) /\ IsInjective(attached) /\ attached # <<>>
    /\ FrameProducers \in Seq(Agents) /\ IsInjective(FrameProducers)
    /\ "SendingAgent" \notin Range(FrameProducers)
    /\ {"SocketAgent", "ClosingAgent", "HandshakeAgent", "SendingAgent"} \subseteq Agents
    /\ Events \subseteq Agents \ {"SendingAgent"} /\ MaxVN \in Nat
    /\ Calls \subseteq {"Stop", "StopAll", "CloseConnection", "Close"}

VARIABLES loop,        \* where the goroutine of each agent is
          closeClosed, \* whether the channel a.close is closed
          gen,         \* the number of times Run was called on each agent
          sender,      \* SendingAgent: the slice FrameProducer and the loop over it
          manager,     \* the goroutine of AttachAgentsToConnection
          caller,      \* the goroutine that stops the agents or closes the connection
          conn,        \* the Connection: its channels and socket, the CLOSE frame
          handshake,   \* HandshakeAgent: receivedRetry and the VN packets received
          panicked     \* the process died on a misused channel or slice

vars == <<loop, closeClosed, gen, sender, manager, caller, conn, handshake, panicked>>

Nil == "nil"
Running == {"select", "handling", "answering", "requesting", "awaiting"}

TypeOK ==
    /\ loop \in [Agents -> Running \cup {"terminated"}]
    /\ closeClosed \in [Agents -> BOOLEAN]
    /\ gen \in [Agents -> Nat]
    /\ sender \in [slots : Seq(Agents \cup {Nil}), len : Nat, i : Nat, n : Nat, gen : Nat]
    /\ manager \in [pc : {"select", "restart", "send", "join", "run", "returned"}, i : 1..Len(attached)]
    /\ caller \in [pc : {"ready", "stop", "join", "joinClosing", "joinSending", "close", "done"},
                   todo : SUBSET Agents, then : SUBSET Agents, at : Agents \cup {Nil}]
    /\ conn \in [ConnectionRestart : BOOLEAN, ConnectionRestarted : BOOLEAN,
                 ConnectionClosed : BOOLEAN, UdpConnection : BOOLEAN, closing : BOOLEAN,
                 CloseFrame : {"none", "queued", "packed", "sent"}]
    /\ handshake \in [receivedRetry : BOOLEAN, vns : 0..MaxVN]
    /\ panicked \in BOOLEAN

\* A channel field of conn is TRUE when the channel is closed, UdpConnection while open.
Init ==
    /\ loop = [a \in Agents |-> "select"]
    /\ closeClosed = [a \in Agents |-> FALSE]
    /\ gen = [a \in Agents |-> 1]
    /\ sender = [slots |-> FrameProducers, len |-> Len(FrameProducers), i |-> 0, n |-> 0, gen |-> 0]
    /\ manager = [pc |-> "select", i |-> 1]
    /\ caller = [pc |-> "ready", todo |-> {}, then |-> {}, at |-> Nil]
    /\ conn = [ConnectionRestart |-> FALSE, ConnectionRestarted |-> FALSE,
               ConnectionClosed |-> FALSE, UdpConnection |-> TRUE, closing |-> FALSE,
               CloseFrame |-> "none"]
    /\ handshake = [receivedRetry |-> FALSE, vns |-> 0]
    /\ panicked = FALSE

At(a, l) == loop[a] = l
Goes(a, l) == loop' = [loop EXCEPT ![a] = l]

\* close(conn.ConnectionClosed), along with the other updates of conn in c.
ClosesConnection(c) ==
    /\ conn' = [c EXCEPT !.ConnectionClosed = TRUE]
    /\ panicked' = c.ConnectionClosed

-----------------------------------------------------------------------------
(* The goroutine of an agent                                               *)

\* Another case of the select: some work, after which the agent selects again.
Handles(a) ==
    /\ a \in Events /\ At(a, "select")
    /\ Goes(a, "handling")
    /\ UNCHANGED <<closeClosed, gen, sender, manager, caller, conn, handshake, panicked>>

Handled(a) ==
    /\ a # "SendingAgent" /\ At(a, "handling")
    /\ Goes(a, "select")
    /\ UNCHANGED <<closeClosed, gen, sender, manager, caller, conn, handshake, panicked>>

\* What the case <-a.close does before it returns.
Returns(a, shouldRestart) ==
    CASE a = "SocketAgent" -> conn' = [conn EXCEPT !.UdpConnection = FALSE] /\ UNCHANGED panicked
      [] a = "ClosingAgent" /\ ~shouldRestart -> ClosesConnection(conn)
      [] OTHER -> UNCHANGED <<conn, panicked>>

\* case <-a.close, on the closed channel.
TakesClose(a) ==
    /\ At(a, "select") /\ closeClosed[a]
    /\ Goes(a, "terminated")
    /\ Returns(a, FALSE)
    /\ UNCHANGED <<closeClosed, gen, sender, manager, caller, handshake>>

\* The value Restart sends is there to be received.
Offered(a) == manager.pc = "send" /\ attached[manager.i] = a /\ ~closeClosed[a]

\* case <-a.close, with the value that Restart sends.
TakesRestart(a) ==
    /\ At(a, "select") /\ Offered(a)
    /\ Goes(a, "terminated")
    /\ manager' = [manager EXCEPT !.pc = "join"]
    /\ Returns(a, TRUE)
    /\ UNCHANGED <<closeClosed, gen, sender, caller, handshake>>

\* The socket returns an error: recChan is closed and the SocketAgent returns.
SocketError ==
    /\ At("SocketAgent", "select") /\ ~conn.UdpConnection
    /\ Goes("SocketAgent", "terminated")
    /\ UNCHANGED <<closeClosed, gen, sender, manager, caller, conn, handshake, panicked>>

IdleTimeout ==
    /\ IdleTimeouts /\ At("ClosingAgent", "select")
    /\ Goes("ClosingAgent", "terminated")
    /\ ClosesConnection([conn EXCEPT !.closing = TRUE])
    /\ UNCHANGED <<closeClosed, gen, sender, manager, caller, handshake>>

\* The ClosingAgent sees the packet with the CLOSE frame go out.
CloseFrameSent ==
    /\ At("ClosingAgent", "select") /\ conn.CloseFrame = "packed" /\ conn.closing
    /\ Goes("ClosingAgent", "terminated")
    /\ ClosesConnection([conn EXCEPT !.CloseFrame = "sent"])
    /\ UNCHANGED <<closeClosed, gen, sender, manager, caller, handshake>>

-----------------------------------------------------------------------------
(* SendingAgent: the loop of fillPacket over a.FrameProducer.  The loop    *)
(* runs over the slice as it was when it started (n), on the same array.   *)
(* A producer is asked once here; the code asks once for each level.       *)

PreparePacket ==
    /\ Packets /\ At("SendingAgent", "select")
    /\ Goes("SendingAgent", "handling")
    /\ sender' = [sender EXCEPT !.i = 1, !.n = sender.len]
    /\ UNCHANGED <<closeClosed, gen, manager, caller, conn, handshake, panicked>>

\* All producers were asked, or the frames of those asked so far fill the packet.
PacketFilled ==
    /\ At("SendingAgent", "handling")
    /\ sender.i > sender.n \/ sender.i > 1
    /\ Goes("SendingAgent", "select")
    /\ UNCHANGED <<closeClosed, gen, sender, manager, caller, conn, handshake, panicked>>

Producer == sender.slots[sender.i]

\* RequestFrames: the select on the channels the producer has now.
RequestFrames ==
    /\ At("SendingAgent", "handling") /\ sender.i <= sender.n
    /\ Goes("SendingAgent", "requesting")
    /\ sender' = [sender EXCEPT !.gen = gen[Producer]]
    /\ UNCHANGED <<closeClosed, gen, manager, caller, conn, handshake, panicked>>

SameChannels == sender.gen = gen[Producer]

RequestTaken ==
    /\ At("SendingAgent", "requesting") /\ SameChannels /\ At(Producer, "select")
    /\ loop' = [loop EXCEPT !["SendingAgent"] = "awaiting", ![Producer] = "answering"]
    /\ UNCHANGED <<closeClosed, gen, sender, manager, caller, conn, handshake, panicked>>

FramesReturned ==
    /\ At("SendingAgent", "awaiting")
    /\ loop' = [loop EXCEPT !["SendingAgent"] = "handling", ![Producer] = "select"]
    /\ sender' = [sender EXCEPT !.i = @ + 1]
    /\ conn' = IF Producer = "FrameQueueAgent" /\ conn.CloseFrame = "queued"
               THEN [conn EXCEPT !.CloseFrame = "packed"] ELSE conn
    /\ UNCHANGED <<closeClosed, gen, manager, caller, handshake, panicked>>

\* The array after append(a.FrameProducer[:i], a.FrameProducer[i+1:]...).
Removed(slots, len, i) ==
    [j \in 1..Len(slots) |-> IF j >= i /\ j < len THEN slots[j + 1]
                             ELSE IF j = i THEN Nil ELSE slots[j]]

\* RequestFrames reads a.close: the producer is taken out of the slice.
ProducerClosed ==
    /\ At("SendingAgent", "requesting") /\ SameChannels
    /\ \/ closeClosed[Producer] /\ UNCHANGED manager
       \/ Offered(Producer) /\ manager' = [manager EXCEPT !.pc = "join"]
    /\ IF sender.i > sender.len
       THEN panicked' = TRUE /\ UNCHANGED <<loop, sender>>
       ELSE /\ sender' = [sender EXCEPT !.slots = Removed(@, sender.len, sender.i),
                                        !.len = @ - 1, !.i = @ + 1]
            /\ Goes("SendingAgent", "handling")
            /\ UNCHANGED panicked
    /\ UNCHANGED <<closeClosed, gen, caller, conn, handshake>>

-----------------------------------------------------------------------------
(* HandshakeAgent: what restarts the connection.                           *)

\* close(conn.ConnectionRestart)
AsksForRestart ==
    /\ conn' = [conn EXCEPT !.ConnectionRestart = TRUE]
    /\ panicked' = conn.ConnectionRestart
    /\ UNCHANGED <<loop, closeClosed, gen, sender, manager, caller>>

VersionNegotiation ==
    /\ At("HandshakeAgent", "select") /\ handshake.vns < MaxVN
    /\ handshake' = [handshake EXCEPT !.vns = @ + 1]
    /\ AsksForRestart

Retry ==
    /\ Retries /\ At("HandshakeAgent", "select") /\ ~handshake.receivedRetry
    /\ handshake' = [handshake EXCEPT !.receivedRetry = TRUE]
    /\ AsksForRestart

\* case <-conn.ConnectionRestarted: a new channel takes its place.
Restarted ==
    /\ At("HandshakeAgent", "select") /\ conn.ConnectionRestarted
    /\ conn' = [conn EXCEPT !.ConnectionRestarted = FALSE]
    /\ UNCHANGED <<loop, closeClosed, gen, sender, manager, caller, handshake, panicked>>

-----------------------------------------------------------------------------
(* The goroutine of AttachAgentsToConnection                               *)

ManagerGoes(pc, i) == manager' = [pc |-> pc, i |-> i]
Current == attached[manager.i]

NextOf(pc) == IF manager.i < Len(attached) THEN ManagerGoes(pc, manager.i + 1)
              ELSE ManagerGoes(IF pc = "restart" THEN "run" ELSE "select", 1)

ManagerWakes ==
    /\ manager.pc = "select"
    /\ \/ conn.ConnectionRestart /\ ManagerGoes("restart", 1)
       \/ conn.ConnectionClosed /\ ManagerGoes("returned", 1)
    /\ UNCHANGED <<loop, closeClosed, gen, sender, caller, conn, handshake, panicked>>

\* Restart: the select on a.close, before the value is sent.
RestartAgent ==
    /\ manager.pc = "restart"
    /\ ManagerGoes(IF closeClosed[Current] THEN "join" ELSE "send", manager.i)
    /\ UNCHANGED <<loop, closeClosed, gen, sender, caller, conn, handshake, panicked>>

\* a.close <- true, when Stop has closed the channel in between.
SendOnClosedChannel ==
    /\ manager.pc = "send" /\ closeClosed[Current]
    /\ panicked' = TRUE
    /\ UNCHANGED <<loop, closeClosed, gen, sender, manager, caller, conn, handshake>>

\* Mutant: the manager runs the agents again without waiting for their goroutines.
JoinAgentAtOnce ==
    /\ manager.pc = "join"
    /\ NextOf("restart")
    /\ UNCHANGED <<loop, closeClosed, gen, sender, caller, conn, handshake, panicked>>

JoinAgent ==
    /\ manager.pc = "join" /\ At(Current, "terminated")
    /\ NextOf("restart")
    /\ UNCHANGED <<loop, closeClosed, gen, sender, caller, conn, handshake, panicked>>

\* conn.ConnectionRestart is replaced before the first Run, and
\* conn.ConnectionRestarted closed after the last.
RunAgent ==
    /\ manager.pc = "run"
    /\ loop' = [loop EXCEPT ![Current] = "select"]
    /\ closeClosed' = [closeClosed EXCEPT ![Current] = FALSE]
    /\ gen' = [gen EXCEPT ![Current] = @ + 1]
    /\ LET last == manager.i = Len(attached) IN
       /\ conn' = [conn EXCEPT !.ConnectionRestart = @ /\ manager.i # 1,
                               !.ConnectionRestarted = @ \/ last]
       /\ panicked' = (last /\ conn.ConnectionRestarted)
    /\ NextOf("run")
    /\ UNCHANGED <<sender, caller, handshake>>

-----------------------------------------------------------------------------
(* Stop, StopAll and CloseConnection, called from another goroutine        *)

CallerGoes(pc, todo, then, at) ==
    caller' = [pc |-> pc, todo |-> todo, then |-> then, at |-> at]

\* Mutant: Adapter.Stop does not stop the SendingAgent before the others.
CallStopsInAnyOrder ==
    /\ caller.pc = "ready"
    /\ \/ "Stop" \in Calls /\ CallerGoes("stop", Agents, {}, Nil)
       \/ "StopAll" \in Calls /\ CallerGoes("stop", Agents, {}, Nil)
       \/ "CloseConnection" \in Calls /\ CallerGoes("joinClosing", {}, {}, Nil)
       \/ "Close" \in Calls /\ CallerGoes("close", {}, {}, Nil)
    /\ UNCHANGED <<loop, closeClosed, gen, sender, manager, conn, handshake, panicked>>

\* Adapter.Stop and Adapter.Reset stop the SendingAgent first.
Call ==
    /\ caller.pc = "ready"
    /\ \/ "Stop" \in Calls /\ CallerGoes("stop", {"SendingAgent"}, Agents, Nil)
       \/ "StopAll" \in Calls /\ CallerGoes("stop", Agents, {}, Nil)
       \/ "CloseConnection" \in Calls /\ CallerGoes("joinClosing", {}, {}, Nil)
       \/ "Close" \in Calls /\ CallerGoes("close", {}, {}, Nil)
    /\ UNCHANGED <<loop, closeClosed, gen, sender, manager, conn, handshake, panicked>>

\* Mutant: Stop returns at once when the agent is busy.
StopAgentIfIdle ==
    /\ caller.pc = "stop"
    /\ \E a \in caller.todo :
          /\ closeClosed' = [closeClosed EXCEPT ![a] = @ \/ At(a, "select")]
          /\ CallerGoes("join", caller.todo, caller.then, a)
    /\ UNCHANGED <<loop, gen, sender, manager, conn, handshake, panicked>>

\* Stop: a value that Restart is sending is received instead of closing the
\* channel, unless the sender has not got that far.
StopAgent ==
    /\ caller.pc = "stop"
    /\ \E a \in caller.todo :
          /\ \/ closeClosed' = [closeClosed EXCEPT ![a] = TRUE] /\ UNCHANGED manager
             \/ /\ Offered(a)
                /\ manager' = [manager EXCEPT !.pc = "join"]
                /\ UNCHANGED closeClosed
          /\ CallerGoes("join", caller.todo, caller.then, a)
    /\ UNCHANGED <<loop, gen, sender, conn, handshake, panicked>>

JoinStopped ==
    /\ caller.pc = "join" /\ At(caller.at, "terminated")
    /\ LET todo == caller.todo \ {caller.at} IN
       IF todo # {} THEN CallerGoes("stop", todo, caller.then, Nil)
       ELSE IF caller.then # {} THEN CallerGoes("stop", caller.then, {}, Nil)
       ELSE CallerGoes("done", {}, {}, Nil)
    /\ UNCHANGED <<loop, closeClosed, gen, sender, manager, conn, handshake, panicked>>

\* The two Joins at the start of CloseConnection.
JoinBeforeClose ==
    /\ \/ /\ caller.pc = "joinClosing" /\ At("ClosingAgent", "terminated")
          /\ CallerGoes("joinSending", {}, {}, Nil)
       \/ /\ caller.pc = "joinSending" /\ At("SendingAgent", "terminated")
          /\ CallerGoes("close", Agents, {}, Nil)
    /\ UNCHANGED <<loop, closeClosed, gen, sender, manager, conn, handshake, panicked>>

\* Mutant: Close does not set closing.
CloseWithoutMark ==
    /\ caller.pc = "close"
    /\ conn' = IF conn.closing THEN conn ELSE [conn EXCEPT !.CloseFrame = "queued"]
    /\ CallerGoes(IF caller.todo # {} THEN "stop" ELSE "ready", caller.todo, {}, Nil)
    /\ UNCHANGED <<loop, closeClosed, gen, sender, manager, handshake, panicked>>

\* ClosingAgent.Close; CloseConnection goes on with StopAll.
Close ==
    /\ caller.pc = "close"
    /\ conn' = IF conn.closing THEN conn
               ELSE [conn EXCEPT !.closing = TRUE, !.CloseFrame = "queued"]
    /\ CallerGoes(IF caller.todo # {} THEN "stop" ELSE "ready", caller.todo, {}, Nil)
    /\ UNCHANGED <<loop, closeClosed, gen, sender, manager, handshake, panicked>>

-----------------------------------------------------------------------------
AgentStep(a) == Handles(a) \/ Handled(a) \/ TakesClose(a) \/ TakesRestart(a)

SenderStep == PreparePacket \/ PacketFilled \/ RequestFrames \/ RequestTaken
              \/ FramesReturned \/ ProducerClosed

HandshakeStep == VersionNegotiation \/ Retry \/ Restarted

ManagerStep == ManagerWakes \/ RestartAgent \/ SendOnClosedChannel \/ JoinAgent \/ RunAgent

CallerStep == StopAgent \/ JoinStopped \/ JoinBeforeClose \/ Close

Next ==
    /\ ~panicked
    /\ \/ \E a \in Agents : AgentStep(a)
       \/ SocketError \/ IdleTimeout \/ CloseFrameSent
       \/ SenderStep \/ HandshakeStep \/ ManagerStep \/ Call \/ CallerStep

\* The steps that happen a bounded number of times in a behaviour: strong fairness
\* of their disjunction is that of each.
Bounded ==
    \/ \E a \in Agents : TakesClose(a) \/ TakesRestart(a)
    \/ SocketError \/ CloseFrameSent \/ Restarted \/ ManagerStep
    \/ StopAgent \/ JoinStopped \/ JoinBeforeClose

\* Goroutines that can run do run, and a select that is offered a case again and
\* again takes it: Go chooses among the ready cases at random.
Fairness ==
    /\ \A a \in Events : WF_vars(~panicked /\ Handled(a))
    /\ WF_vars(~panicked /\ Close)
    /\ WF_vars(~panicked /\ (PacketFilled \/ RequestFrames \/ FramesReturned))
    /\ SF_vars(~panicked /\ (RequestTaken \/ ProducerClosed))
    /\ SF_vars(~panicked /\ Bounded)

Spec == Init /\ [][Next]_vars /\ Fairness

-----------------------------------------------------------------------------
(* Properties *)

\* No goroutine closes a channel twice, sends on a closed one, or indexes the
\* slice of frame producers past its end.
NeverPanics == ~panicked

\* A goroutine is not started while the previous one of the same agent runs.
OneGoroutinePerAgent ==
    [][\A a \in Agents : gen'[a] # gen[a] => At(a, "terminated")]_vars

\* Stopping the agents ends: every Join returns, and when StopAll (or Adapter.Stop, or
\* Reset) has returned, the goroutine of every agent has.
StopReturns == (caller.pc = "stop") ~> (caller.pc = "done" /\ \A a \in Agents : At(a, "terminated"))

\* A restart ends with every agent running again ("give the connection time to
\* restart").
RestartCompletes == conn.ConnectionRestart ~> conn.ConnectionRestarted

\* Once its CLOSE frame has been packed, the connection is closed.
CloseFrameCloses == (conn.CloseFrame = "packed") ~> conn.ConnectionClosed
=============================================================================
