--------------------------- MODULE AdapterSession ---------------------------
(***************************************************************************)
(* The adapter between the learner and the connection (adapter/).          *)
(*                                                                         *)
(* A goroutine of the TCP server takes the learner's messages one by one:  *)
(* a query is a sequence of abstract symbols.  For each it empties the     *)
(* answer, hands the symbol over to the goroutine of Run, sleeps waitTime, *)
(* and takes what Run has put into the answer meanwhile.  The two share    *)
(* the fields of the adapter without a lock, and the answers by reference: *)
(* AbstractSet and ConcreteSet hold a pointer, so a set that is part of a  *)
(* query's outcome, or of the oracle table, still grows until the adapter  *)
(* gets a new one.                                                         *)
(*                                                                         *)
(* A symbol stands for the packet type, the packet number and version it   *)
(* asks for (or None) and its frame types.  The sleeps are abstracted to   *)
(* one bit: in a patient behaviour they outlast what was set in motion, in *)
(* the others they end at any time.                                        *)
(***************************************************************************)
EXTENDS Integers, FiniteSets, Sequences

CONSTANTS
    None,         \* a nil pointer
    Sessions,     \* what the learner sends: START, RESET, STOP and queries, in order; what the
                  \* system under learning may answer with, and how often; is there an interrupt; are the
                  \* sleeps long enough (patient)
    QuicVersion   \* the version of a new connection

PacketTypes == {"Initial", "Handshake", "Short"}
Supported == {"ACK", "PING", "CRYPTO", "PADDING", "STREAM", "MAX_DATA", "MAX_STREAM_DATA", "HANDSHAKE_DONE"}

\* An abstract symbol.
Symbols == [type : PacketTypes, number : Nat \cup {None}, version : STRING \cup {None}, frames : SUBSET STRING]

ASSUME AdapterAssumption ==
    /\ None \notin Symbols
    /\ \A s \in Sessions :
          /\ s.messages \in Seq([command : {"START", "RESET", "STOP", "QUERY"}, query : Seq(Symbols)])
          /\ \A k \in DOMAIN s.messages : s.messages[k].command = "QUERY" => s.messages[k].query # <<>>
          /\ s.answers \subseteq {"ack", "nothing", "cleartext"} /\ s.replies \in Nat
          /\ {s.interrupt, s.patient} \subseteq BOOLEAN

VARIABLES
    session,           \* the session of this behaviour
    commands,          \* messages so far
    pc,                \* where the handler of the learner's messages is
    query, done,       \* the query, and how many of its symbols have their answer
    asked,             \* for each symbol of the query, its place in the session and the sets made for it
    captured,          \* the packet that was taken as the concrete input of each symbol
    told,              \* the answers sent: their query, their text
    connection,        \* number, Version, PacketNumber, levels with a CryptoState, open
    incomingRequest,   \* the symbol in hand
    outgoingPacket,    \* the last packet sent
    sets,              \* every pair of sets made: incomingPacketSet, outgoingResponse; the last is current
    oracleTable, saved,\* by abstract pair, the concrete pair; what the file holds of it, or None
    loops,             \* the goroutines of Run: place, symbols to come, what is in hand
    requests,          \* frames asked of the agents
    frameQueue,        \* frames for the next packet
    preparePacket,     \* packets asked of the SendingAgent
    outgoingSul, incomingSul,  \* the channels of the connection that Run reads
    wire,              \* packets of the system under learning on their way
    replies            \* packets of it so far

learner == <<session, commands, told>>
handler == <<pc, query, done, asked, captured>>
agents == <<requests, frameQueue, preparePacket>>
network == <<wire, replies>>
answer == <<incomingRequest, outgoingPacket, sets>>
table == <<oracleTable, saved>>
channels == <<outgoingSul, incomingSul>>
adapter == <<connection, answer, table>>
outside == <<agents, channels, network>>
vars == <<learner, handler, adapter, loops, outside>>

NewConnection(n) ==
    [number |-> n, Version |-> QuicVersion, PacketNumber |-> [t \in PacketTypes |-> 0],
     levels |-> {"Initial"}, open |-> TRUE]

\* Mutant: the sets of the symbol before are kept.
NewSetsReused == UNCHANGED sets
NewSets == sets' = Append(sets, [concrete |-> {}, abstract |-> {}])
Current == Len(sets)

Loop(place, inbox, hand) == [place |-> place, inbox |-> inbox, hand |-> hand]
Go(i, place, hand) == loops' = [loops EXCEPT ![i].place = place, ![i].hand = hand]

Init ==
    /\ session \in Sessions /\ commands = 0 /\ told = {}
    /\ pc = "idle" /\ query = <<>> /\ done = 0 /\ asked = <<>> /\ captured = <<>>
    /\ connection = NewConnection(1)
    /\ incomingRequest = None /\ outgoingPacket = None
    /\ sets = <<[concrete |-> {}, abstract |-> {}]>>
    /\ oracleTable = {} /\ saved = None
    /\ loops = <<Loop("select", <<>>, None)>>
    /\ requests = {} /\ frameQueue = {} /\ preparePacket = <<>>
    /\ outgoingSul = <<>> /\ incomingSul = <<>> /\ wire = {} /\ replies = 0

-----------------------------------------------------------------------------
(* What the learner reads.                                                 *)

\* The version is a pointer to the one of the connection, read when the text is made.
SymbolString(e) ==
    [type |-> e.type, number |-> e.number, frames |-> e.frames,
     version |-> IF e.version = "connection" THEN connection.Version ELSE e.version]

\* The sets are sorted lists of strings; equal symbols have distinct pointers, and are all kept.
SetString(k) ==
    LET strings == {SymbolString(e) : e \in sets[k].abstract}
    IN  [s \in strings |-> Cardinality({e \in sets[k].abstract : SymbolString(e) = s})]

OutputStrings == [k \in DOMAIN asked |-> SetString(asked[k].sets)]

Quiet ==
    /\ \A i \in DOMAIN loops : loops[i].place = "select" /\ loops[i].inbox = <<>>
    /\ requests = {} /\ preparePacket = <<>> /\ outgoingSul = <<>> /\ incomingSul = <<>> /\ wire = {}

Slept == session.patient => Quiet

-----------------------------------------------------------------------------
(* The learner's messages.                                                 *)

Message(command) ==
    /\ pc = "idle" /\ commands < Len(session.messages)
    /\ session.messages[commands + 1].command = command
    /\ commands' = commands + 1
    /\ UNCHANGED session

Start ==
    /\ Message("START")
    /\ loops' = Append(loops, Loop("select", <<>>, None))
    /\ UNCHANGED <<told, handler, adapter, outside>>

\* Reset, until the old connection is closed; its channels can still be read.
Close ==
    /\ Message("RESET")
    /\ pc' = "reset"
    /\ connection' = [connection EXCEPT !.open = FALSE]
    /\ requests' = {} /\ frameQueue' = {} /\ preparePacket' = <<>> /\ wire' = {}
    /\ UNCHANGED <<told, query, done, asked, captured, answer, table, loops, channels, replies>>

Reopen ==
    /\ pc = "reset"
    /\ connection' = NewConnection(connection.number + 1)
    /\ outgoingSul' = <<>> /\ incomingSul' = <<>>
    /\ outgoingPacket' = None
    /\ NewSets
    /\ pc' = "idle"
    /\ UNCHANGED <<learner, query, done, asked, captured, incomingRequest, table, loops, agents, network>>

Query ==
    /\ Message("QUERY")
    /\ query' = session.messages[commands + 1].query
    /\ done' = 0 /\ asked' = <<>> /\ captured' = <<>>
    /\ pc' = "symbol"
    /\ UNCHANGED <<told, adapter, loops, outside>>

\* The sets and the packet are renewed ...
Fresh ==
    /\ pc = "symbol"
    /\ NewSets
    /\ asked' = Append(asked, [symbol |-> <<commands, done + 1>>, sets |-> Len(sets')])
    /\ outgoingPacket' = None
    /\ pc' = "ask"
    /\ UNCHANGED <<learner, query, done, captured, connection, incomingRequest, table, loops, outside>>

\* ... before the symbol is: it is handed to every Run, or skipped if it cannot be sent.
Ask ==
    /\ pc = "ask"
    /\ LET symbol == query[done + 1]
       IN  /\ incomingRequest' = symbol
           /\ IF symbol.type \in connection.levels
                THEN /\ loops' = [i \in DOMAIN loops |-> [loops[i] EXCEPT
                                    !.inbox = Append(@, [symbol |-> symbol, for |-> asked[done + 1].symbol])]]
                     /\ pc' = "wait"
                ELSE UNCHANGED loops /\ pc' = "skipped"
    /\ UNCHANGED <<learner, query, done, asked, captured, connection, outgoingPacket, sets, table, outside>>

\* Mutant: it sleeps until there is an answer.
WaitedForAnswer == pc = "wait" /\ Slept /\ sets[Current].abstract # {}
Waited == pc = "wait" /\ Slept

Capture ==
    /\ Waited \/ pc = "skipped"
    /\ captured' = Append(captured, outgoingPacket)
    /\ done' = done + 1
    /\ pc' = IF \E e \in sets[Current].abstract : e.type = "Retry" THEN "retry"
             ELSE IF done + 1 < Len(query) THEN "symbol" ELSE "record"
    /\ UNCHANGED <<learner, query, asked, adapter, loops, outside>>

AfterRetry ==
    /\ pc = "retry" /\ Slept
    /\ pc' = IF done < Len(query) THEN "symbol" ELSE "record"
    /\ UNCHANGED <<learner, query, done, asked, captured, adapter, loops, outside>>

Pair(in, out) == [inputs |-> in, outputs |-> out]

\* A pair that is in the table already is replaced.
\* Mutant: the table has one entry for a query.
SameKeyByInput(e) == e.key.inputs = query
SameKey(e) == e.key = Pair(query, OutputStrings)

AddIOs ==
    /\ pc = "record"
    /\ oracleTable' = {e \in oracleTable : ~SameKey(e)}
                        \cup {[key |-> Pair(query, OutputStrings), value |-> Pair(captured, asked)]}
    /\ pc' = "reply"
    /\ UNCHANGED <<learner, query, done, asked, captured, connection, answer, saved, loops, outside>>

Reply ==
    /\ pc = "reply"
    /\ told' = told \cup {Pair(query, OutputStrings)}
    /\ pc' = "idle"
    /\ UNCHANGED <<session, commands, query, done, asked, captured, adapter, loops, outside>>

-----------------------------------------------------------------------------
(* The end: STOP, an interrupt, or a panic of Run.                         *)

Exit == pc' = "ended" /\ UNCHANGED <<query, done, asked, captured>>
SaveOracleTable == saved' = {e.key : e \in oracleTable}

\* The handler itself stops the agents, saves the table and exits.
Stop ==
    /\ Message("STOP") /\ SaveOracleTable /\ Exit
    /\ UNCHANGED <<told, connection, answer, oracleTable, loops, outside>>

\* Ctrl+C: another goroutine saves the table, and then exits.
Interrupt ==
    /\ session.interrupt /\ pc # "ended" /\ saved = None /\ SaveOracleTable
    /\ UNCHANGED <<learner, handler, connection, answer, oracleTable, loops, outside>>

Interrupted ==
    /\ pc # "ended" /\ saved # None /\ Exit
    /\ UNCHANGED <<learner, adapter, loops, outside>>

-----------------------------------------------------------------------------
(* Run.                                                                    *)

Selects(i) == pc # "ended" /\ loops[i].place = "select"

Numbered(symbol) ==
    IF symbol.number = None THEN connection.PacketNumber
    ELSE [connection.PacketNumber EXCEPT ![symbol.type] = symbol.number]

\* The frames that a symbol has the agents prepare: MAX_DATA has an empty case.
FramesAsked(symbol) == symbol.frames \ {"MAX_DATA"}

TakeSymbol(i) ==
    /\ Selects(i) /\ loops[i].inbox # <<>>
    /\ LET s == Head(loops[i].inbox)
       IN  /\ s.symbol.frames \subseteq Supported
           /\ connection' = [connection EXCEPT
                  !.Version = IF s.symbol.version = None THEN @ ELSE s.symbol.version,
                  !.PacketNumber = Numbered(s.symbol)]
           /\ requests' = IF connection.open
                            THEN requests \cup {[type |-> s.symbol.type, frame |-> f, for |-> s.for, by |-> i]
                                                : f \in FramesAsked(s.symbol)}
                            ELSE requests
           /\ loops' = [loops EXCEPT ![i] = Loop("requesting", Tail(@.inbox), s)]
    /\ UNCHANGED <<learner, handler, answer, table, frameQueue, preparePacket, channels, network>>

\* A frame type without a case: the panic is recovered by main, which saves the table and exits;
\* there is no recovery in a goroutine that START began.
Panic(i) ==
    /\ Selects(i) /\ loops[i].inbox # <<>>
    /\ ~(Head(loops[i].inbox).symbol.frames \subseteq Supported)
    /\ IF i = 1 THEN SaveOracleTable ELSE UNCHANGED saved
    /\ Exit
    /\ UNCHANGED <<learner, connection, answer, oracleTable, loops, outside>>

\* Mutant: the packet is not put off until the frames are there.
PutOffNever == TRUE
PutOff == session.patient => requests = {}

SubmitPreparePacket(i) ==
    /\ pc # "ended" /\ loops[i].place = "requesting" /\ PutOff
    /\ preparePacket' = IF connection.open THEN Append(preparePacket, loops[i].hand) ELSE preparePacket
    /\ Go(i, "select", None)
    /\ UNCHANGED <<learner, handler, adapter, requests, frameQueue, channels, network>>

\* A packet of which nothing but PADDING is left is not reported.
NothingLeft(p) == p.framer /\ p.frames = {}

TakePacket(i) ==
    /\ Selects(i) /\ incomingSul # <<>>
    /\ incomingSul' = Tail(incomingSul)
    /\ LET p == Head(incomingSul)
       IN  IF NothingLeft(p)
             THEN UNCHANGED <<sets, loops>>
             ELSE /\ sets' = [sets EXCEPT ![Current].concrete = @ \cup {p}]
                  /\ Go(i, "packet", p)
    /\ UNCHANGED <<learner, handler, connection, incomingRequest, outgoingPacket, table, agents, outgoingSul, network>>

\* The abstraction of a packet shows the number and the version that the symbol in hand asks for.
NumberShown(p) == IF incomingRequest = None \/ incomingRequest.number = None THEN None ELSE p.number
VersionShown(p) ==
    IF incomingRequest = None \/ incomingRequest.version = None \/ p.type \in {"Retry", "StatelessReset"} THEN None
    ELSE IF p.type = "VersionNegotiation" THEN "0" ELSE "connection"

Abstraction(p) ==
    [of |-> p.id, type |-> p.type, frames |-> p.frames, number |-> NumberShown(p), version |-> VersionShown(p)]

AddResponse(i) ==
    /\ pc # "ended" /\ loops[i].place = "packet"
    /\ sets' = [sets EXCEPT ![Current].abstract = @ \cup {Abstraction(loops[i].hand)}]
    /\ Go(i, "select", None)
    /\ UNCHANGED <<learner, handler, connection, incomingRequest, outgoingPacket, table, outside>>

TakeSent(i) ==
    /\ Selects(i) /\ outgoingSul # <<>>
    /\ outgoingPacket' = Head(outgoingSul)
    /\ outgoingSul' = Tail(outgoingSul)
    /\ UNCHANGED <<learner, handler, connection, incomingRequest, sets, table, loops, agents, incomingSul, network>>

-----------------------------------------------------------------------------
(* The agents of the connection and the system under learning.             *)

\* An agent queues the frame.  Streams send at 1-RTT only, and the HTTP request behind a STREAM
\* frame may come too late.
Serve(r) ==
    /\ pc # "ended" /\ r \in requests
    /\ requests' = requests \ {r}
    /\ \/ r.frame = "STREAM" /\ (r.type # "Short" \/ ~session.patient) /\ UNCHANGED frameQueue
       \/ /\ r.frame = "STREAM" => r.type = "Short"
          /\ frameQueue' = frameQueue \cup {[type |-> r.type, frame |-> r.frame, for |-> r.for]}
    /\ UNCHANGED <<learner, handler, adapter, loops, preparePacket, channels, network>>

\* What the system under learning sends because of a symbol: news, nothing new, or no frames at all.
\* A stateless reset has no header, so no number.
ReplyPacket(id, type, contents, cause) ==
    [id |-> id, cause |-> cause, framer |-> contents # "cleartext",
     type |-> IF contents # "cleartext" THEN type
              ELSE IF type # "Initial" THEN "StatelessReset" ELSE IF id = 1 THEN "Retry" ELSE "VersionNegotiation",
     frames |-> IF contents = "ack" THEN {"ACK"} ELSE {},
     number |-> IF contents # "cleartext" THEN id ELSE IF type # "Initial" THEN None ELSE 0]

\* The SendingAgent makes a packet of the frames queued for the level, if there are any.
SendPacket ==
    /\ pc # "ended" /\ preparePacket # <<>>
    /\ preparePacket' = Tail(preparePacket)
    /\ LET type == Head(preparePacket).symbol.type
           frames == {q \in frameQueue : q.type = type}
       IN  IF frames = {}
             THEN UNCHANGED <<connection, frameQueue, outgoingSul, network>>
             ELSE /\ frameQueue' = frameQueue \ frames
                  /\ connection' = [connection EXCEPT !.PacketNumber[type] = @ + 1]
                  /\ outgoingSul' = Append(outgoingSul,
                        [type |-> type, number |-> connection.PacketNumber[type], frames |-> {q.frame : q \in frames}])
                  /\ \E n \in 0 .. (session.replies - replies) :
                       \E contents \in [1 .. n -> session.answers] :
                         /\ replies' = replies + n
                         /\ wire' = wire \cup {ReplyPacket(replies + k, type, contents[k], Head(preparePacket).for)
                                               : k \in 1 .. n}
    /\ UNCHANGED <<learner, handler, answer, table, loops, requests, incomingSul>>

\* One channel of IncomingPackets is registered for all the goroutines of Run.
\* Mutant: each has its own.
IncomingSulEach(p) == incomingSul \o [i \in DOMAIN loops |-> p]
IncomingSul(p) == Append(incomingSul, p)

\* The packet reaches Run, and the agents: TLS makes the next level available, a Retry starts again.
Deliver(p) ==
    /\ pc # "ended" /\ p \in wire
    /\ wire' = wire \ {p}
    /\ incomingSul' = IncomingSul(p)
    /\ connection' = CASE p.type = "Initial"   -> [connection EXCEPT !.levels = @ \cup {"Handshake"}]
                       [] p.type = "Handshake" -> [connection EXCEPT !.levels = @ \cup {"Short"}]
                       [] p.type = "Retry"     -> [connection EXCEPT !.levels = {"Initial"}, !.Version = QuicVersion]
                       [] OTHER                -> connection
    /\ UNCHANGED <<learner, handler, answer, table, loops, agents, outgoingSul, replies>>

-----------------------------------------------------------------------------
Handler == Reopen \/ Fresh \/ Ask \/ Capture \/ AfterRetry \/ AddIOs \/ Reply
Run == \E i \in DOMAIN loops :
         TakeSymbol(i) \/ Panic(i) \/ SubmitPreparePacket(i) \/ TakePacket(i) \/ AddResponse(i) \/ TakeSent(i)
Connection == (\E r \in requests : Serve(r)) \/ SendPacket \/ (\E p \in wire : Deliver(p))

Next == Start \/ Close \/ Query \/ Stop \/ Interrupt \/ Interrupted \/ Handler \/ Run \/ Connection

\* The learner and the user may stop at any time; no goroutine does, and a sleep ends.
Spec == Init /\ [][Next]_vars /\ WF_vars(Handler \/ Run \/ Connection)

-----------------------------------------------------------------------------
\* The pieces of the adapter have their types: the query's bookkeeping is in step, the goroutines
\* hold what their place says, and the concrete sets hold reportable packets.
TypeOK ==
    /\ pc \in {"idle", "symbol", "ask", "wait", "skipped", "retry", "record", "reply", "reset", "ended"}
    /\ done = Len(captured) /\ done <= Len(asked) /\ Len(asked) <= Len(query)
    /\ \A k \in DOMAIN asked : asked[k].sets \in DOMAIN sets
    /\ \A i \in DOMAIN loops : loops[i].place \in {"select", "requesting", "packet"}
                              /\ (loops[i].hand = None <=> loops[i].place = "select")
    /\ connection.levels \subseteq PacketTypes
    /\ \A k \in DOMAIN sets : \A p \in sets[k].concrete : p.framer => p.frames # {}

\* Whatever the timing, a packet is reported in one answer only, is recorded before it is abstracted,
\* and never abstracted into an earlier answer than the one that records it (TakePacket, AddResponse
\* against the handler's new sets).
ReportedOnce ==
    \A j, k \in DOMAIN sets :
        /\ j # k => sets[j].concrete \cap sets[k].concrete = {}
        /\ \A e \in sets[k].abstract : /\ j # k => \A d \in sets[j].abstract : d.of # e.of
                                      /\ \E i \in 1 .. k : \E p \in sets[i].concrete : p.id = e.of

\* The abstract answer to the k-th symbol is its concrete answer, packet by packet, with the packet's
\* own number if the symbol gives one, and a version only if it gives one.
Abstracted(k) ==
    LET a == sets[asked[k].sets]
    IN  /\ {e.of : e \in a.abstract} = {p.id : p \in a.concrete}
        /\ \A e \in a.abstract : \A p \in a.concrete : e.of = p.id =>
              /\ e.type = p.type /\ e.frames = p.frames
              /\ e.number = IF query[k].number = None THEN None ELSE p.number
              /\ query[k].version = None => e.version = None

\* If waitTime outlasts the round trip, the answer to a symbol holds the packets that the symbol
\* caused and no others, also after it was entered into the table, and across RESET; and the learner
\* is told of each of them as it is.
AnswerOfItsSymbol ==
    session.patient =>
        /\ \A k \in DOMAIN asked : \A p \in sets[asked[k].sets].concrete : p.cause = asked[k].symbol
        /\ \A e \in oracleTable : \A k \in DOMAIN e.value.outputs :
              \A p \in sets[e.value.outputs[k].sets].concrete : p.cause = e.value.outputs[k].symbol
        /\ \A k \in 1 .. done : Abstracted(k)

\* A packet is what a symbol asks for: it has the symbol's type, the number that the symbol gives, and
\* its frames, but for MAX_DATA, which has no case in Run, and STREAM below 1-RTT.
IsAsked(p, symbol) ==
    /\ p.type = symbol.type
    /\ symbol.number # None => p.number = symbol.number
    /\ p.frames = {f \in symbol.frames \ {"MAX_DATA"} : f = "STREAM" => symbol.type = "Short"}

\* If the sleeps outlast what they wait for and no START was sent, the packet taken as the concrete
\* input of a symbol is the one that the symbol asks for, with no frame missing and none left over from
\* another symbol, or there is none.
SentAsAsked ==
    session.patient /\ Len(loops) = 1 =>
        \A k \in 1 .. done : captured[k] # None => IsAsked(captured[k], query[k])

\* An answer is in the oracle table before the learner has it, so in the file that STOP or a panic
\* leaves behind; if waitTime outlasts the round trip, under the very text that the learner gets.
ToldIsRecorded ==
    \A t \in told : \E e \in oracleTable :
        /\ e.key.inputs = t.inputs
        /\ DOMAIN e.key.outputs = DOMAIN t.outputs
        /\ session.patient => e.key = t
        /\ saved # None /\ ~session.interrupt => e.key \in saved

\* Every message of the learner is dealt with: the handler returns, whatever the system under learning
\* answers and however the goroutines interleave, or the adapter ends.
EveryMessageEnds == (pc # "idle") ~> (pc \in {"idle", "ended"})
=============================================================================
