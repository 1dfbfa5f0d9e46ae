------------------------ MODULE AdapterAnswersProofs ------------------------
(***************************************************************************)
(* Proofs about the adapter: an answer belongs to the symbol it is the     *)
(* answer to, and the packet sent for a symbol is the packet that the      *)
(* symbol asks for.                                                        *)
(***************************************************************************)
EXTENDS AdapterSessionProofs

-----------------------------------------------------------------------------
(* The answer to a symbol is the answer to that symbol.                    *)

\* The places of the handler where the current sets are those of the symbol in hand.
InHand == {"ask", "wait", "skipped"}

\* The handler's bookkeeping: how many symbols have sets, and that no set of an earlier symbol
\* is current while a symbol is in hand.
PlacesInv ==
    /\ query \in Seq(Symbols) /\ commands \in Nat /\ done <= Len(asked)
    /\ pc \in InHand \cup {"symbol"} => done < Len(query)
    /\ pc \in InHand => Len(asked) = done + 1 /\ asked[done + 1].sets = Current
    /\ pc \notin InHand \cup {"ended"} => Len(asked) = done
    /\ \A k \in DOMAIN asked :
          asked[k].sets \in DOMAIN sets /\ (pc \in InHand /\ k <= done => asked[k].sets # Current)
    /\ \A e \in oracleTable : \A k \in DOMAIN e.value.outputs :
          e.value.outputs[k].sets \in DOMAIN sets /\ (pc \in InHand => e.value.outputs[k].sets # Current)

\* The concrete set of a symbol holds packets that the symbol has caused.
Caused(a) == \A p \in sets[a.sets].concrete : p.cause = a.symbol

\* All that is in motion is caused by the symbol in hand.
Motion(s) ==
    /\ \A i \in DOMAIN loops :
          /\ \A j \in DOMAIN loops[i].inbox : loops[i].inbox[j].for = s
          /\ loops[i].place = "requesting" => loops[i].hand.for = s
          /\ loops[i].place = "packet" => loops[i].hand \in sets[Current].concrete
    /\ \A j \in DOMAIN preparePacket : preparePacket[j].for = s
    /\ \A p \in wire : p.cause = s
    /\ \A j \in DOMAIN incomingSul : incomingSul[j].cause = s

\* How a packet is abstracted for a symbol.
Shows(e, p, symbol) ==
    /\ e.type = p.type /\ e.frames = p.frames
    /\ e.number = IF symbol.number = None THEN None ELSE p.number
    /\ symbol.version = None => e.version = None

\* The current abstract set holds the abstractions of the current concrete one, but for the
\* packets that a goroutine of Run still has in hand.
Answering ==
    /\ incomingRequest = query[done + 1]
    /\ \A e \in sets[Current].abstract : \E p \in sets[Current].concrete : e.of = p.id
    /\ \A p \in sets[Current].concrete :
          \/ \E e \in sets[Current].abstract : e.of = p.id
          \/ \E i \in DOMAIN loops : loops[i].place = "packet" /\ loops[i].hand = p
    /\ \A e \in sets[Current].abstract : \A p \in sets[Current].concrete :
          e.of = p.id => Shows(e, p, query[done + 1])

AnswerInv ==
    session.patient =>
        /\ \A k \in DOMAIN asked : Caused(asked[k])
        /\ \A k \in 1 .. done : Abstracted(k)
        /\ \A e \in oracleTable : \A k \in DOMAIN e.value.outputs : Caused(e.value.outputs[k])
        /\ pc \in {"ask", "skipped"} => sets[Current] = [concrete |-> {}, abstract |-> {}]
        /\ pc = "wait" => Motion(asked[done + 1].symbol) /\ Answering

\* Run and the connection make no sets, and only the current ones grow.
LEMMA RunKeepsSets ==
    ASSUME Shape, Run \/ Connection
    PROVE  /\ DOMAIN sets' = DOMAIN sets /\ Current' = Current
           /\ \A k \in DOMAIN sets : k # Current => sets'[k] = sets[k]
<1> USE DEF learner, handler, agents, network, answer, table, channels, adapter, outside
<1>1. CASE UNCHANGED sets
  BY <1>1 DEF Current
<1>2. ASSUME NEW i \in DOMAIN loops, TakePacket(i), ~UNCHANGED sets
      PROVE  /\ DOMAIN sets' = DOMAIN sets /\ Current' = Current
             /\ \A k \in DOMAIN sets : k # Current => sets'[k] = sets[k]
  <2>1. PICK S : sets' = [sets EXCEPT ![Current].concrete = S]
    BY <1>2, Zenon DEF TakePacket
  <2> QED
    BY <2>1, AddFacts, Zenon
<1>3. ASSUME NEW i \in DOMAIN loops, AddResponse(i)
      PROVE  /\ DOMAIN sets' = DOMAIN sets /\ Current' = Current
             /\ \A k \in DOMAIN sets : k # Current => sets'[k] = sets[k]
  <2>1. PICK S : sets' = [sets EXCEPT ![Current].abstract = S]
    BY <1>3, Zenon DEF AddResponse
  <2> QED
    BY <2>1, AddFacts, Zenon
<1>4. ASSUME NEW i \in DOMAIN loops,
             TakeSymbol(i) \/ Panic(i) \/ SubmitPreparePacket(i) \/ TakeSent(i)
      PROVE  UNCHANGED sets
  BY <1>4, Zenon DEF TakeSymbol, Panic, SubmitPreparePacket, TakeSent
<1>5. ASSUME Connection
      PROVE  UNCHANGED sets
  BY <1>5, Zenon DEF Connection, Serve, SendPacket, Deliver
<1> QED
  BY <1>1, <1>2, <1>3, <1>4, <1>5 DEF Run

\* Every step keeps the handler's bookkeeping.
LEMMA PlacesKept ==
    ASSUME Shape, PlacesInv, [Next]_vars
    PROVE  PlacesInv'
<1> USE DEF learner, handler, agents, network, answer, table, channels, adapter, outside
<1>0. /\ Sequence(asked) /\ done \in Nat /\ Len(asked) \in Nat /\ DOMAIN asked = 1 .. Len(asked)
      /\ Current \in Nat /\ Current + 1 \notin DOMAIN sets /\ "symbol" \notin InHand /\ "ended" \notin InHand
  BY SequenceDomain, CurrentFacts DEF Shape, InHand
<1>1. CASE Start \/ Close \/ AfterRetry \/ Reply
  <2>1. UNCHANGED <<session, query, done, asked, oracleTable, sets>> /\ commands' \in Nat
    BY <1>1 DEF Start, Close, AfterRetry, Reply, Message, PlacesInv
  <2>2. pc' \notin InHand \cup {"ended"} /\ pc \notin InHand \cup {"ended"} /\ (pc' = "symbol" => done < Len(query))
    BY <1>1, Zenon DEF Start, Close, AfterRetry, Reply, Message, InHand
  <2> QED
    BY <2>1, <2>2, Zenon DEF PlacesInv, Current
<1>2. CASE Reopen
  <2>1. /\ UNCHANGED <<session, commands, query, done, asked, oracleTable>> /\ NewSets
        /\ pc = "reset" /\ pc' = "idle"
    BY <1>2 DEF Reopen
  <2> QED
    BY <2>1, NewSetsFacts, Zenon DEF PlacesInv, InHand
<1>3. CASE Query
  <2>1. /\ UNCHANGED <<session, oracleTable, sets>> /\ commands < Len(session.messages)
        /\ commands' = commands + 1 /\ query' = session.messages[commands + 1].query
        /\ session.messages[commands + 1].command = "QUERY"
        /\ done' = 0 /\ asked' = <<>> /\ pc = "idle" /\ pc' = "symbol"
    BY <1>3, Zenon DEF Query, Message
  <2>2. /\ session.messages \in Seq([command : {"START", "RESET", "STOP", "QUERY"}, query : Seq(Symbols)])
        /\ \A k \in DOMAIN session.messages :
              session.messages[k].command = "QUERY" => session.messages[k].query # <<>>
    BY AdapterAssumption, Zenon DEF Shape
  <2>3. /\ commands \in Nat /\ commands + 1 \in DOMAIN session.messages
        /\ commands + 1 \in 1 .. Len(session.messages)
    BY <2>1, <2>2 DEF PlacesInv
  <2>4. query' \in Seq(Symbols) /\ query' # <<>>
    <3>1. session.messages[commands + 1]
             \in [command : {"START", "RESET", "STOP", "QUERY"}, query : Seq(Symbols)]
      BY ONLY <2>2, <2>3, ElementOf, Zenon
    <3> QED
      BY <2>1, <2>2, <2>3, <3>1, Zenon
  <2>5. Len(query') > 0
    BY <2>4
  <2> QED
    BY <2>1, <2>3, <2>4, <2>5, EmptyFacts DEF PlacesInv, InHand, Current
<1>4. CASE Fresh
  <2>1. /\ UNCHANGED <<session, commands, query, done, oracleTable>> /\ NewSets
        /\ asked' = Append(asked, [symbol |-> <<commands, done + 1>>, sets |-> Len(sets')])
        /\ pc = "symbol" /\ pc' = "ask"
    BY <1>4 DEF Fresh
  <2>2. /\ DOMAIN asked' = DOMAIN asked \cup {done + 1} /\ Len(asked') = done + 1 /\ done + 1 \notin DOMAIN asked
        /\ asked'[done + 1].sets = Current' /\ \A k \in DOMAIN asked : asked'[k] = asked[k]
    BY <1>0, <2>1, AppendFacts DEF PlacesInv, InHand, Current
  <2>3. \A k \in DOMAIN asked : asked[k].sets \in DOMAIN sets
    BY Zenon DEF PlacesInv
  <2>4. \A k \in DOMAIN asked' :
           asked'[k].sets \in DOMAIN sets' /\ (k <= done' => asked'[k].sets # Current')
    BY <1>0, <2>1, <2>2, <2>3, NewSetsFacts
  <2>5. \A e \in oracleTable' : \A k \in DOMAIN e.value.outputs :
           e.value.outputs[k].sets \in DOMAIN sets' /\ e.value.outputs[k].sets # Current'
    BY <2>1, NewSetsFacts, Zenon DEF PlacesInv
  <2>6. done < Len(query)
    BY <2>1, Zenon DEF PlacesInv
  <2>7. query' \in Seq(Symbols) /\ commands' \in Nat /\ done' <= Len(asked')
    BY <1>0, <2>1, <2>2 DEF PlacesInv
  <2>8. pc' \in InHand /\ Len(asked') = done' + 1 /\ asked'[done' + 1].sets = Current' /\ done' < Len(query')
    BY <2>1, <2>2, <2>6, Zenon DEF InHand
  <2> QED
    BY <2>4, <2>5, <2>7, <2>8, Zenon DEF PlacesInv
<1>5. CASE Ask \/ Interrupt \/ UNCHANGED vars
  <2>1. UNCHANGED <<session, commands, query, done, asked, oracleTable, sets>>
    BY <1>5, Zenon DEF Ask, Interrupt, vars
  <2>2. pc' = pc \/ {pc, pc'} \subseteq InHand
    BY <1>5, Zenon DEF Ask, Interrupt, vars, InHand
  <2> QED
    BY <1>0, <2>1, <2>2, Zenon DEF PlacesInv, Current
<1>6. CASE Capture
  <2>1. UNCHANGED <<session, commands, query, asked, oracleTable, sets>> /\ done' = done + 1
        /\ pc \in InHand /\ pc' \in {"retry", "symbol", "record"}
        /\ (pc' = "symbol" => done + 1 < Len(query))
    BY <1>6 DEF Capture, Waited, InHand
  <2>2. pc' \notin InHand \cup {"ended"}
    BY <2>1 DEF InHand
  <2>3. Len(asked) = done + 1
    BY <2>1, Zenon DEF PlacesInv
  <2>4. done' <= Len(asked') /\ Len(asked') = done'
    BY <1>0, <2>1, <2>3
  <2>5. pc' = "symbol" => done' < Len(query')
    BY <2>1
  <2> QED
    BY <2>1, <2>2, <2>4, <2>5, Zenon DEF PlacesInv, Current
<1>7. CASE AddIOs
  <2>1. /\ UNCHANGED <<session, commands, query, done, asked, sets>>
        /\ pc = "record" /\ pc' = "reply"
        /\ \A e \in oracleTable' : e \in oracleTable \/ e.value = Pair(captured, asked)
    BY <1>7 DEF AddIOs
  <2>2. Pair(captured, asked).outputs = asked
    BY DEF Pair
  <2> QED
    BY <2>1, <2>2, Zenon DEF PlacesInv, InHand, Current
<1>8. CASE Stop \/ Interrupted
  <2>1. UNCHANGED <<session, query, done, asked, oracleTable, sets>> /\ commands' \in Nat /\ pc' = "ended"
    BY <1>8 DEF Stop, Interrupted, Exit, Message, PlacesInv
  <2> QED
    BY <1>0, <2>1, Zenon DEF PlacesInv, Current
<1>9. CASE Run \/ Connection
  <2>1. UNCHANGED <<session, commands, query, done, asked, oracleTable>> /\ (pc' = pc \/ pc' = "ended")
    BY <1>9, RunLeavesHandler
  <2>2. DOMAIN sets' = DOMAIN sets /\ Current' = Current
    BY <1>9, RunKeepsSets
  <2> QED
    BY <1>0, <2>1, <2>2, Zenon DEF PlacesInv
<1> QED
  BY <1>1, <1>2, <1>3, <1>4, <1>5, <1>6, <1>7, <1>8, <1>9 DEF Next, Handler

\* The abstract set of an answer against its concrete set, with the symbol that was asked.
AbstractedBy(a, symbol) ==
    /\ {e.of : e \in a.abstract} = {p.id : p \in a.concrete}
    /\ \A e \in a.abstract : \A p \in a.concrete : e.of = p.id =>
          /\ e.type = p.type /\ e.frames = p.frames
          /\ e.number = IF symbol.number = None THEN None ELSE p.number
          /\ symbol.version = None => e.version = None

\* An answer whose sets are as they were stays abstracted.
LEMMA AbstractedStays ==
    ASSUME NEW k, Abstracted(k), sets'[asked'[k].sets] = sets[asked[k].sets], query' = query
    PROVE  Abstracted(k)'
<1>1. AbstractedBy(sets[asked[k].sets], query[k])
  BY Zenon DEF Abstracted, AbstractedBy
<1>2. AbstractedBy(sets'[asked'[k].sets], query'[k])
  BY <1>1, Zenon
<1> QED
  BY <1>2, Zenon DEF Abstracted, AbstractedBy

\* Where a set is as it was, so is the answer that it holds.
LEMMA Settled ==
    ASSUME PlacesInv, Shape, AnswerInv, session.patient,
           NEW Same, \A k \in Same : sets'[k] = sets[k]
    PROVE  /\ \A k \in DOMAIN asked :
                 asked' = asked /\ asked[k].sets \in Same => Caused(asked[k])'
           /\ \A k \in 1 .. done :
                 UNCHANGED <<asked, query>> /\ asked[k].sets \in Same => Abstracted(k)'
           /\ \A e \in oracleTable : \A k \in DOMAIN e.value.outputs :
                 e.value.outputs[k].sets \in Same => Caused(e.value.outputs[k])'
<1>1. \A k \in DOMAIN asked : asked' = asked /\ asked[k].sets \in Same => Caused(asked[k])'
  BY DEF AnswerInv, Caused
<1>2. \A k \in 1 .. done : UNCHANGED <<asked, query>> /\ asked[k].sets \in Same => Abstracted(k)'
  <2> SUFFICES ASSUME NEW k \in 1 .. done, UNCHANGED <<asked, query>>, asked[k].sets \in Same
               PROVE  Abstracted(k)'
    OBVIOUS
  <2>1. Abstracted(k)
    BY Zenon DEF AnswerInv
  <2>2. sets'[asked'[k].sets] = sets[asked[k].sets]
    OBVIOUS
  <2> QED
    BY <2>1, <2>2, AbstractedStays, Zenon
<1>3. \A e \in oracleTable : \A k \in DOMAIN e.value.outputs :
         e.value.outputs[k].sets \in Same => Caused(e.value.outputs[k])'
  BY DEF AnswerInv, Caused
<1> QED
  BY <1>1, <1>2, <1>3, Zenon

\* A step that changes no answer, and begins and moves none.
LEMMA AnswerUnchanged ==
    ASSUME Shape, PlacesInv, AnswerInv, UNCHANGED <<session, query, done, asked, oracleTable>>,
           \A k \in DOMAIN sets : sets'[k] = sets[k],
           \/ pc' \notin InHand
           \/ UNCHANGED <<pc, sets, loops, preparePacket, wire, incomingSul, incomingRequest>>
    PROVE  AnswerInv'
<1> SUFFICES ASSUME session.patient
             PROVE  AnswerInv'
  BY Zenon DEF AnswerInv
<1>1. /\ \A k \in DOMAIN asked' : Caused(asked[k])'
      /\ \A k \in 1 .. done' : Abstracted(k)'
      /\ \A e \in oracleTable' : \A k \in DOMAIN e.value.outputs : Caused(e.value.outputs[k])'
  <2>1. \A k \in DOMAIN asked : asked[k].sets \in DOMAIN sets
    BY Zenon DEF PlacesInv
  <2>2. \A k \in 1 .. done : k \in DOMAIN asked
    BY SequenceDomain DEF PlacesInv, Shape
  <2>3. \A e \in oracleTable : \A k \in DOMAIN e.value.outputs : e.value.outputs[k].sets \in DOMAIN sets
    BY Zenon DEF PlacesInv
  <2> QED
    BY <2>1, <2>2, <2>3, Settled, Zenon
<1>2. CASE pc' \notin InHand
  <2>1. pc' \notin {"ask", "skipped", "wait"}
    BY <1>2 DEF InHand
  <2> QED
    BY <1>1, <2>1, Zenon DEF AnswerInv
<1>3. CASE UNCHANGED <<pc, sets, loops, preparePacket, wire, incomingSul, incomingRequest>>
  <2>1. (pc \in {"ask", "skipped"} => sets[Current] = [concrete |-> {}, abstract |-> {}])'
    BY <1>3, Zenon DEF AnswerInv, Current
  <2>2. (pc = "wait" => Motion(asked[done + 1].symbol))'
    <3>1. pc = "wait" => Motion(asked[done + 1].symbol)
      BY Zenon DEF AnswerInv
    <3> QED
      BY <1>3, <3>1, Zenon DEF Motion, Current
  <2>3. (pc = "wait" => Answering)'
    <3>1. pc = "wait" => Answering
      BY Zenon DEF AnswerInv
    <3> QED
      BY <1>3, <3>1 DEF Answering, Current, Shows
  <2> QED
    BY <1>1, <2>1, <2>2, <2>3, Zenon DEF AnswerInv
<1> QED
  BY <1>2, <1>3

\* The symbol goes to every goroutine of Run; nothing else is in motion.
LEMMA AskKeepsAnswers ==
    ASSUME Shape, Still, PlacesInv, AnswerInv, session.patient, Ask
    PROVE  AnswerInv'
<1> USE DEF learner, handler, agents, network, answer, table, channels, adapter, outside
<1>1. /\ pc = "ask" /\ pc' \in {"wait", "skipped"} /\ incomingRequest' = query[done + 1]
      /\ UNCHANGED <<session, query, done, asked, oracleTable, sets, preparePacket, wire, incomingSul>>
  BY Zenon DEF Ask
<1>2. Quiet /\ sets[Current] = [concrete |-> {}, abstract |-> {}]
  BY <1>1, Zenon DEF Still, AnswerInv
<1>3. /\ \A k \in DOMAIN asked' : Caused(asked[k])'
      /\ \A k \in 1 .. done' : Abstracted(k)'
      /\ \A e \in oracleTable' : \A k \in DOMAIN e.value.outputs : Caused(e.value.outputs[k])'
  <2>1. \A k \in DOMAIN asked : asked[k].sets \in DOMAIN sets
    BY Zenon DEF PlacesInv
  <2>2. \A k \in 1 .. done : k \in DOMAIN asked
    BY SequenceDomain DEF PlacesInv, Shape
  <2>3. \A e \in oracleTable : \A k \in DOMAIN e.value.outputs : e.value.outputs[k].sets \in DOMAIN sets
    BY Zenon DEF PlacesInv
  <2>4. \A k \in DOMAIN sets : sets'[k] = sets[k]
    BY <1>1
  <2> QED
    BY <1>1, <2>1, <2>2, <2>3, <2>4, Settled, Zenon
<1>4. sets' = sets /\ sets'[Current'] = [concrete |-> {}, abstract |-> {}]
  BY <1>1, <1>2 DEF Current
<1>5. ASSUME pc' = "wait"
      PROVE  Motion(asked[done + 1].symbol)' /\ Answering'
  <2> DEFINE s == [symbol |-> query[done + 1], for |-> asked[done + 1].symbol]
  <2>1. loops' = [i \in DOMAIN loops |-> [loops[i] EXCEPT !.inbox = Append(loops[i].inbox, s)]]
    BY <1>5, Zenon DEF Ask
  <2>2. s.for = asked[done + 1].symbol
    OBVIOUS
  <2> HIDE DEF s
  <2>3. ASSUME NEW i \in DOMAIN loops
        PROVE  /\ loops'[i].place = "select"
               /\ \A j \in DOMAIN loops'[i].inbox : loops'[i].inbox[j] = s
    <3>1. DOMAIN loops[i] = {"place", "inbox", "hand"} /\ loops[i].inbox = <<>> /\ loops[i].place = "select"
      BY <1>2 DEF Shape, Quiet
    <3>2. loops'[i].place = "select" /\ loops'[i].inbox = Append(<<>>, s)
      BY <2>1, <3>1
    <3>3. \A j \in DOMAIN Append(<<>>, s) : Append(<<>>, s)[j] = s
      BY EmptyFacts, AppendFacts
    <3> QED
      BY <3>2, <3>3
  <2>4. DOMAIN loops' = DOMAIN loops
    BY <2>1
  <2>5. Motion(asked[done + 1].symbol)'
    BY <1>1, <1>2, <2>2, <2>3, <2>4, EmptyFacts, Zenon DEF Motion, Quiet
  <2>6. Answering'
    BY <1>1, <1>4 DEF Answering
  <2> QED
    BY <2>5, <2>6
<1> QED
  BY <1>3, <1>4, <1>5, Zenon DEF AnswerInv

\* The answer is taken when nothing is in motion any more.
LEMMA CaptureKeepsAnswers ==
    ASSUME Shape, Still, PlacesInv, AnswerInv, session.patient, Capture
    PROVE  AnswerInv'
<1> USE DEF learner, handler, agents, network, answer, table, channels, adapter, outside
<1>1. /\ pc \in {"wait", "skipped"} /\ pc' \in {"retry", "symbol", "record"} /\ done' = done + 1
      /\ UNCHANGED <<session, query, asked, oracleTable, sets>>
  BY Zenon DEF Capture, Waited
<1>2. Quiet
  BY <1>1 DEF Capture, Waited, Slept, Still
<1>3. /\ pc \in InHand /\ Len(asked) = done + 1 /\ asked[done + 1].sets = Current /\ done \in Nat
      /\ DOMAIN asked = 1 .. done + 1
  BY <1>1, SequenceDomain, Zenon DEF PlacesInv, InHand, Shape
<1>4. Abstracted(done + 1)
  <2> DEFINE a == sets[Current]
  <2>1. CASE pc = "skipped"
    <3>1. a.abstract = {} /\ a.concrete = {}
      BY <2>1 DEF AnswerInv
    <3> QED
      BY <1>3, <3>1 DEF Abstracted
  <2>2. CASE pc = "wait"
    <3>1. Answering /\ \A i \in DOMAIN loops : loops[i].place # "packet"
      BY <1>2, <2>2 DEF AnswerInv, Quiet
    <3>2. {e.of : e \in a.abstract} = {p.id : p \in a.concrete}
      BY <3>1, Zenon DEF Answering
    <3>3. \A e \in a.abstract : \A p \in a.concrete : e.of = p.id => Shows(e, p, query[done + 1])
      BY <3>1, Zenon DEF Answering
    <3> QED
      BY <1>3, <3>2, <3>3, Zenon DEF Abstracted, Shows
  <2> QED
    BY <1>1, <2>1, <2>2
<1>5. \A k \in 1 .. done + 1 : Abstracted(k)
  BY <1>3, <1>4 DEF AnswerInv
<1>6. ASSUME NEW k \in 1 .. done + 1
      PROVE  Abstracted(k)'
  <2>1. query' = query /\ asked' = asked /\ sets' = sets /\ Abstracted(k)
    BY <1>1, <1>5
  <2> QED
    BY ONLY <2>1 DEF Abstracted
<1>7. /\ \A k \in DOMAIN asked' : Caused(asked[k])'
      /\ \A e \in oracleTable' : \A k \in DOMAIN e.value.outputs : Caused(e.value.outputs[k])'
  BY <1>1, Zenon DEF AnswerInv, Caused
<1>8. pc' \notin {"ask", "skipped", "wait"}
  BY <1>1
<1> QED
  BY <1>1, <1>6, <1>7, <1>8, Zenon DEF AnswerInv

\* A symbol begins with empty sets.
LEMMA FreshKeepsAnswers ==
    ASSUME Shape, PlacesInv, AnswerInv, session.patient, Fresh
    PROVE  AnswerInv'
<1> USE DEF learner, handler, agents, network, answer, table, channels, adapter, outside
<1>1. /\ NewSets /\ pc' = "ask" /\ UNCHANGED <<session, query, done, oracleTable>> /\ pc = "symbol"
      /\ asked' = Append(asked, [symbol |-> <<commands, done + 1>>, sets |-> Len(sets')])
  BY DEF Fresh
<1>2. /\ \A k \in DOMAIN sets : sets'[k] = sets[k]
      /\ sets'[Current'] = [concrete |-> {}, abstract |-> {}]
  BY <1>1, NewSetsFacts, Zenon
<1>3. /\ DOMAIN asked' = DOMAIN asked \cup {Len(asked) + 1}
      /\ asked'[Len(asked) + 1].sets = Current'
      /\ \A k \in DOMAIN asked : asked'[k] = asked[k]
  BY <1>1, AppendFacts DEF Shape, Current
<1>4. \A k \in 1 .. done : k \in DOMAIN asked
  BY SequenceDomain DEF PlacesInv, Shape
<1>5. \A k \in DOMAIN asked : asked[k].sets \in DOMAIN sets
  BY Zenon DEF PlacesInv
<1>6. \A k \in DOMAIN asked' : Caused(asked[k])'
  <2>1. \A k \in DOMAIN asked : Caused(asked[k])'
    BY <1>2, <1>3, <1>5 DEF AnswerInv, Caused
  <2> QED
    BY <1>2, <1>3, <2>1 DEF Caused
<1>7. \A k \in 1 .. done' : Abstracted(k)'
  <2> SUFFICES ASSUME NEW k \in 1 .. done
               PROVE  Abstracted(k)'
    BY <1>1
  <2>1. Abstracted(k)
    BY Zenon DEF AnswerInv
  <2>2. sets'[asked'[k].sets] = sets[asked[k].sets] /\ query' = query
    BY <1>1, <1>2, <1>3, <1>4, <1>5, SMTT(30)
  <2> QED
    BY <2>1, <2>2, AbstractedStays, Zenon
<1>8. \A e \in oracleTable' : \A k \in DOMAIN e.value.outputs : Caused(e.value.outputs[k])'
  <2>1. \A e \in oracleTable : \A k \in DOMAIN e.value.outputs : e.value.outputs[k].sets \in DOMAIN sets
    BY Zenon DEF PlacesInv
  <2> QED
    BY <1>1, <1>2, <2>1 DEF AnswerInv, Caused
<1> QED
  BY <1>1, <1>2, <1>6, <1>7, <1>8, Zenon DEF AnswerInv

\* The table takes the answers over.
LEMMA AddIOsKeepsAnswers ==
    ASSUME Shape, PlacesInv, AnswerInv, session.patient, AddIOs
    PROVE  AnswerInv'
<1> USE DEF learner, handler, agents, network, answer, table, channels, adapter, outside
<1> DEFINE new == [key |-> Pair(query, OutputStrings), value |-> Pair(captured, asked)]
<1>1. /\ pc' = "reply" /\ UNCHANGED <<session, query, done, asked, sets>>
      /\ \A e \in oracleTable' : e \in oracleTable \/ e = new
  BY Zenon DEF AddIOs
<1>2. new.value.outputs = asked
  BY DEF Pair
<1> HIDE DEF new
<1>3. \A k \in DOMAIN asked : Caused(asked[k])'
  BY <1>1, Zenon DEF AnswerInv, Caused
<1>4. \A k \in 1 .. done' : Abstracted(k)'
  <2> SUFFICES ASSUME NEW k \in 1 .. done
               PROVE  Abstracted(k)'
    BY <1>1
  <2>1. Abstracted(k)
    BY Zenon DEF AnswerInv
  <2>2. sets'[asked'[k].sets] = sets[asked[k].sets] /\ query' = query
    BY <1>1
  <2> QED
    BY <2>1, <2>2, AbstractedStays, Zenon
<1>5. ASSUME NEW e \in oracleTable', NEW k \in DOMAIN e.value.outputs
      PROVE  \A p \in sets'[e.value.outputs[k].sets].concrete : p.cause = e.value.outputs[k].symbol
  <2>1. CASE e \in oracleTable
    BY <1>1, <2>1, Zenon DEF AnswerInv, Caused
  <2>2. CASE e = new
    BY <1>1, <1>2, <2>2, Zenon DEF AnswerInv, Caused
  <2> QED
    BY <1>1, <2>1, <2>2, Zenon
<1> QED
  BY <1>1, <1>3, <1>4, <1>5, Zenon DEF AnswerInv, Caused

\* The learner's messages and the handler.
LEMMA HandlerKeepsAnswers ==
    ASSUME Shape, Still, PlacesInv, AnswerInv, session.patient,
           \/ Start \/ Close \/ Query \/ Stop \/ Interrupt \/ Interrupted \/ Handler
    PROVE  AnswerInv'
<1> USE DEF learner, handler, agents, network, answer, table, channels, adapter, outside
<1>1. CASE Start \/ Close \/ Stop \/ Interrupted \/ AfterRetry \/ Reply
  <2>1. /\ UNCHANGED <<session, query, done, asked, oracleTable, sets>>
        /\ pc' \in {"idle", "reset", "ended", "symbol", "record"}
    BY <1>1, Zenon DEF Start, Close, Stop, Interrupted, AfterRetry, Reply, Message, Exit
  <2>2. pc' \notin InHand
    BY <2>1 DEF InHand
  <2> QED
    BY <2>1, <2>2, AnswerUnchanged
<1>2. CASE Interrupt
  <2>1. UNCHANGED <<session, query, done, asked, oracleTable, sets, pc, loops, preparePacket, wire,
                    incomingSul, incomingRequest>>
    BY <1>2, Zenon DEF Interrupt
  <2> QED
    BY <2>1, AnswerUnchanged
<1>3. CASE Reopen
  <2>1. NewSets /\ UNCHANGED <<session, query, done, asked, oracleTable>> /\ pc' = "idle"
    BY <1>3 DEF Reopen
  <2>2. pc' \notin InHand /\ \A k \in DOMAIN sets : sets'[k] = sets[k]
    BY <2>1, NewSetsFacts DEF InHand
  <2> QED
    BY <2>1, <2>2, AnswerUnchanged
<1>4. CASE Query
  <2>1. /\ asked' = <<>> /\ done' = 0 /\ pc' = "symbol" /\ UNCHANGED <<session, oracleTable, sets>>
    BY <1>4, Zenon DEF Query, Message
  <2>2. \A e \in oracleTable' : \A k \in DOMAIN e.value.outputs : Caused(e.value.outputs[k])'
    BY <2>1, Zenon DEF AnswerInv, Caused
  <2>3. DOMAIN asked' = {} /\ 1 .. done' = {}
    BY <2>1, EmptyFacts
  <2> QED
    BY <2>1, <2>2, <2>3, Zenon DEF AnswerInv
<1> QED
  BY <1>1, <1>2, <1>3, <1>4, FreshKeepsAnswers, AskKeepsAnswers, CaptureKeepsAnswers, AddIOsKeepsAnswers
     DEF Handler

\* While Run and the connection work on a symbol, only its own sets grow: the answers before it
\* and those of the table stay.
LEMMA RunLeavesAnswers ==
    ASSUME Shape, Still, PlacesInv, AnswerInv, session.patient, Run \/ Connection,
           pc' = pc => /\ Caused(asked[done + 1])'
                       /\ Motion(asked[done + 1].symbol)' /\ Answering'
    PROVE  AnswerInv'
<1>1. pc = "wait" /\ UNCHANGED <<session, query, done, asked, oracleTable>>
  BY QuietStays, RunLeavesHandler DEF Still, learner
<1>2. CASE pc' = "ended"
  <2>1. CASE sets' = sets
    <3>1. pc' \notin InHand /\ \A k \in DOMAIN sets : sets'[k] = sets[k]
      BY <1>2, <2>1 DEF InHand
    <3> QED
      BY <1>1, <3>1, AnswerUnchanged
  <2> QED
    BY <1>1, <1>2, <2>1, RunLeavesHandler DEF answer
<1>3. CASE pc' = pc
  <2> DEFINE Same == DOMAIN sets \ {Current}
  <2>1. \A k \in Same : sets'[k] = sets[k]
    BY RunKeepsSets
  <2>2. /\ done \in Nat /\ DOMAIN asked = 1 .. done + 1
        /\ \A k \in 1 .. done : k \in DOMAIN asked /\ asked[k].sets \in Same
        /\ \A e \in oracleTable : \A k \in DOMAIN e.value.outputs : e.value.outputs[k].sets \in Same
    <3>1. done \in Nat /\ DOMAIN asked = 1 .. done + 1 /\ pc \in InHand
      BY <1>1, SequenceDomain, Zenon DEF PlacesInv, InHand, Shape
    <3> QED
      BY <3>1 DEF PlacesInv
  <2> HIDE DEF Same
  <2>3. \A k \in 1 .. done' : Abstracted(k)'
    BY <1>1, <2>1, <2>2, Settled, Zenon
  <2>4. \A e \in oracleTable' : \A k \in DOMAIN e.value.outputs : Caused(e.value.outputs[k])'
    BY <1>1, <2>1, <2>2, Settled, Zenon
  <2>5. \A k \in 1 .. done : Caused(asked[k])'
    BY <1>1, <2>1, <2>2, Settled, Zenon
  <2>6. ASSUME NEW k \in DOMAIN asked'
        PROVE  Caused(asked[k])'
    <3>1. CASE k \in 1 .. done
      BY <2>5, <3>1
    <3>2. CASE k = done + 1
      BY <1>1, <1>3, <3>2, Zenon DEF Caused
    <3> QED
      BY <1>1, <2>2, <3>1, <3>2
  <2> QED
    BY <1>1, <1>3, <2>3, <2>4, <2>6, Zenon DEF AnswerInv
<1> QED
  BY <1>2, <1>3, RunLeavesHandler

\* What is in motion for a symbol moves on: from the inbox of a goroutine of Run to the
\* SendingAgent, and by the packets of the system under learning back to Run.
LEMMA WorkKeepsMotion ==
    ASSUME Shape, PlacesInv, AnswerInv, session.patient, pc = "wait", pc' = pc,
           NEW i, \/ i \in DOMAIN loops /\ (TakeSymbol(i) \/ SubmitPreparePacket(i) \/ TakeSent(i))
                  \/ Connection
    PROVE  /\ Caused(asked[done + 1])'
           /\ Motion(asked[done + 1].symbol)' /\ Answering'
<1> USE DEF learner, handler, agents, network, answer, table, channels, adapter, outside
<1> DEFINE s == asked[done + 1].symbol
<1>1. UNCHANGED <<query, done, asked, incomingRequest, sets>>
  BY Zenon DEF TakeSymbol, SubmitPreparePacket, TakeSent, Connection, Serve, SendPacket, Deliver
<1>2. Motion(s) /\ Answering
  BY Zenon DEF AnswerInv
<1>3. Caused(asked[done + 1])'
  <2>1. done + 1 \in DOMAIN asked
    BY SequenceDomain DEF PlacesInv, Shape, InHand
  <2> QED
    BY <1>1, <2>1, Zenon DEF AnswerInv, Caused
<1> HIDE DEF s
<1>4. (\A k \in DOMAIN loops : loops'[k].place = "packet" <=> loops[k].place = "packet")
      /\ (\A k \in DOMAIN loops : loops'[k].place = "packet" => loops'[k].hand = loops[k].hand)
      /\ DOMAIN loops' = DOMAIN loops
      /\ (\A k \in DOMAIN loops' : /\ \A j \in DOMAIN loops'[k].inbox : loops'[k].inbox[j].for = s
                                   /\ loops'[k].place = "requesting" => loops'[k].hand.for = s)
  <2>1. CASE loops' = loops
    BY <1>2, <2>1, Zenon DEF Motion
  <2>2. CASE i \in DOMAIN loops /\ TakeSymbol(i)
    <3>1. /\ loops' = [loops EXCEPT ![i] = Loop("requesting", Tail(loops[i].inbox), Head(loops[i].inbox))]
          /\ loops[i].place = "select" /\ loops[i].inbox # <<>>
      BY <2>2, Zenon DEF TakeSymbol, Selects
    <3>2. /\ DOMAIN loops' = DOMAIN loops /\ \A k \in DOMAIN loops : k # i => loops'[k] = loops[k]
          /\ loops'[i].place = "requesting" /\ loops'[i].inbox = Tail(loops[i].inbox)
          /\ loops'[i].hand = Head(loops[i].inbox)
      BY <2>2, <3>1, Zenon DEF Loop
    <3>3. /\ 1 \in DOMAIN loops[i].inbox /\ loops'[i].hand = loops[i].inbox[1]
          /\ \A j \in DOMAIN loops'[i].inbox :
                j + 1 \in DOMAIN loops[i].inbox /\ loops'[i].inbox[j] = loops[i].inbox[j + 1]
      <4> DEFINE b == loops[i].inbox
      <4>1. Sequence(b) /\ b # <<>>
        BY <2>2, <3>1 DEF Shape
      <4>2. loops'[i].inbox = Tail(b) /\ loops'[i].hand = Head(b)
        BY <3>2
      <4> HIDE DEF b
      <4>3. /\ 1 \in DOMAIN b /\ loops'[i].hand = b[1]
            /\ \A j \in DOMAIN loops'[i].inbox : j + 1 \in DOMAIN b /\ loops'[i].inbox[j] = b[j + 1]
        BY ONLY <4>1, <4>2, TailFacts, SMTT(30)
      <4> QED
        BY <4>3, Zenon DEF b
    <3>4. /\ loops'[i].hand.for = s /\ \A j \in DOMAIN loops'[i].inbox : loops'[i].inbox[j].for = s
      BY <1>2, <2>2, <3>3 DEF Motion
    <3>5. ASSUME NEW k \in DOMAIN loops
          PROVE  /\ loops'[k].place = "packet" <=> loops[k].place = "packet"
                 /\ loops'[k].place = "packet" => loops'[k].hand = loops[k].hand
                 /\ \A j \in DOMAIN loops'[k].inbox : loops'[k].inbox[j].for = s
                 /\ loops'[k].place = "requesting" => loops'[k].hand.for = s
      <4>1. CASE k = i
        BY <3>1, <3>2, <3>4, <4>1
      <4>2. CASE k # i
        <5>1. loops'[k] = loops[k]
          BY <3>2, <4>2, Zenon
        <5>2. /\ \A j \in DOMAIN loops[k].inbox : loops[k].inbox[j].for = s
              /\ loops[k].place = "requesting" => loops[k].hand.for = s
          BY <1>2, Zenon DEF Motion
        <5> QED
          BY <5>1, <5>2
      <4> QED
        BY <4>1, <4>2, ZenonT(40)
    <3> QED
      BY <3>2, <3>5, Zenon
  <2>3. CASE i \in DOMAIN loops /\ SubmitPreparePacket(i)
    <3>1. Go(i, "select", None) /\ loops[i].place = "requesting"
      BY <2>3, Zenon DEF SubmitPreparePacket
    <3>2. /\ DOMAIN loops' = DOMAIN loops /\ \A k \in DOMAIN loops : k # i => loops'[k] = loops[k]
          /\ loops'[i].place = "select" /\ loops'[i].inbox = loops[i].inbox
      BY <2>3, <3>1, GoFacts
    <3> QED
      BY <1>2, <3>1, <3>2 DEF Motion
  <2> QED
    BY <2>1, <2>2, <2>3, Zenon DEF TakeSent, Connection, Serve, SendPacket, Deliver
<1>5. \A j \in DOMAIN preparePacket' : preparePacket'[j].for = s
  <2>1. CASE preparePacket' = preparePacket
    BY <1>2, <2>1 DEF Motion
  <2>2. CASE i \in DOMAIN loops /\ SubmitPreparePacket(i) /\ preparePacket' # preparePacket
    <3>1. preparePacket' = Append(preparePacket, loops[i].hand) /\ loops[i].hand.for = s
      BY <1>2, <2>2, Zenon DEF SubmitPreparePacket, Motion
    <3> QED
      BY <1>2, <3>1, AppendFacts DEF Shape, Motion
  <2>3. CASE SendPacket
    <3>1. preparePacket' = Tail(preparePacket) /\ preparePacket # <<>>
      BY <2>3, Zenon DEF SendPacket
    <3> QED
      BY <1>2, <3>1, TailFacts DEF Shape, Motion
  <2> QED
    BY <2>1, <2>2, <2>3, Zenon DEF TakeSymbol, TakeSent, Connection, Serve, Deliver
<1>6. \A p \in wire' : p.cause = s
  <2>1. CASE wire' \subseteq wire
    BY <1>2, <2>1 DEF Motion
  <2>2. CASE SendPacket /\ wire' # wire
    <3> DEFINE type == Head(preparePacket).symbol.type
    <3>1. Head(preparePacket).for = s
      <4>1. preparePacket # <<>>
        BY <2>2, Zenon DEF SendPacket
      <4>2. 1 \in DOMAIN preparePacket /\ Head(preparePacket) = preparePacket[1]
        BY <4>1, TailFacts DEF Shape
      <4> QED
        BY <1>2, <4>2 DEF Motion
    <3>2. \E n \in 0 .. (session.replies - replies) : \E contents \in [1 .. n -> session.answers] :
             wire' = wire \cup {ReplyPacket(replies + k, type, contents[k], Head(preparePacket).for)
                                    : k \in 1 .. n}
      BY <2>2, ZenonT(40) DEF SendPacket
    <3>3. \A id, t, c : ReplyPacket(id, t, c, Head(preparePacket).for).cause = s
      BY <3>1 DEF ReplyPacket
    <3> QED
      BY <1>2, <3>2, <3>3, Zenon DEF Motion
  <2> QED
    BY <2>1, <2>2, Zenon DEF TakeSymbol, SubmitPreparePacket, TakeSent, Connection, Serve, Deliver
<1>7. \A j \in DOMAIN incomingSul' : incomingSul'[j].cause = s
  <2>1. CASE incomingSul' = incomingSul
    BY <1>2, <2>1 DEF Motion
  <2>2. CASE \E p \in wire : Deliver(p)
    <3>1. PICK p \in wire : incomingSul' = Append(incomingSul, p)
      BY <2>2 DEF Deliver, IncomingSul
    <3>2. p.cause = s
      BY <1>2 DEF Motion
    <3> QED
      BY <1>2, <3>1, <3>2, AppendFacts DEF Shape, Motion
  <2> QED
    BY <2>1, <2>2, Zenon DEF TakeSymbol, SubmitPreparePacket, TakeSent, Connection, Serve, SendPacket
<1>8. s' = s /\ Current' = Current
  BY <1>1 DEF s, Current
<1>9. Motion(s)'
  BY <1>1, <1>2, <1>4, <1>5, <1>6, <1>7, <1>8, Zenon DEF Motion
<1>10. Answering'
  BY <1>1, <1>2, <1>4, <1>8 DEF Answering, Shows
<1> QED
  BY <1>3, <1>9, <1>10 DEF s

\* A packet of the system under learning goes to the concrete set and into the hand of Run.
LEMMA TakePacketKeepsMotion ==
    ASSUME Shape, ReportInv, PlacesInv, AnswerInv, session.patient, pc = "wait",
           NEW i \in DOMAIN loops, TakePacket(i)
    PROVE  /\ Caused(asked[done + 1])'
           /\ Motion(asked[done + 1].symbol)' /\ Answering'
<1> USE DEF learner, handler, agents, network, answer, table, channels, adapter, outside
<1> DEFINE s == asked[done + 1].symbol
           p == Head(incomingSul)
<1>1. /\ UNCHANGED <<query, done, asked, incomingRequest, preparePacket, wire>>
      /\ incomingSul # <<>> /\ incomingSul' = Tail(incomingSul) /\ loops[i].place = "select"
      /\ \/ UNCHANGED <<sets, loops>>
         \/ /\ sets' = [sets EXCEPT ![Current].concrete = sets[Current].concrete \cup {p}]
            /\ Go(i, "packet", p)
  BY Zenon DEF TakePacket, Selects
<1>2. Motion(s) /\ Answering
  BY Zenon DEF AnswerInv
<1>3. /\ 1 \in DOMAIN incomingSul /\ p = incomingSul[1]
      /\ \A j \in DOMAIN incomingSul' : j + 1 \in DOMAIN incomingSul /\ incomingSul'[j] = incomingSul[j + 1]
  BY <1>1, TailFacts, SMTT(30) DEF Shape
<1>4. /\ Current \in DOMAIN sets /\ asked[done + 1].sets = Current /\ done + 1 \in DOMAIN asked
  BY CurrentFacts, SequenceDomain, SMTT(30) DEF PlacesInv, Shape, InHand
<1>5. \A q \in sets[Current].concrete : q.cause = s
  BY <1>4, Zenon DEF AnswerInv, Caused
<1> HIDE DEF s, p
<1>6. p.cause = s /\ \A j \in DOMAIN incomingSul' : incomingSul'[j].cause = s
  BY <1>2, <1>3 DEF Motion
<1>7. s' = s
  BY <1>1 DEF s
<1>8. CASE UNCHANGED <<sets, loops>>
  <2>1. Current' = Current /\ Caused(asked[done + 1])'
    BY <1>1, <1>4, <1>8 DEF Current, AnswerInv, Caused
  <2>2. Motion(s)'
    BY <1>1, <1>2, <1>6, <1>7, <1>8, <2>1, Zenon DEF Motion
  <2>3. Answering'
    BY <1>1, <1>2, <1>8, <2>1 DEF Answering, Shows
  <2> QED
    BY <2>1, <2>2, <2>3 DEF s
<1>9. CASE /\ sets' = [sets EXCEPT ![Current].concrete = sets[Current].concrete \cup {p}]
           /\ Go(i, "packet", p)
  <2>1. /\ Current' = Current /\ sets'[Current].concrete = sets[Current].concrete \cup {p}
        /\ sets'[Current].abstract = sets[Current].abstract
    BY <1>9, AddFacts, Zenon
  <2>2. /\ DOMAIN loops' = DOMAIN loops /\ \A j \in DOMAIN loops : j # i => loops'[j] = loops[j]
        /\ loops'[i].place = "packet" /\ loops'[i].hand = p /\ loops'[i].inbox = loops[i].inbox
    BY <1>9, GoFacts
  <2>3. Caused(asked[done + 1])'
    BY <1>1, <1>4, <1>5, <1>6, <2>1, Zenon DEF Caused, s
  <2>4. Motion(s)'
    <3>1. \A k \in DOMAIN loops' :
             /\ \A j \in DOMAIN loops'[k].inbox : loops'[k].inbox[j].for = s
             /\ loops'[k].place = "requesting" => loops'[k].hand.for = s
             /\ loops'[k].place = "packet" => loops'[k].hand \in sets'[Current].concrete
      BY <1>2, <2>1, <2>2 DEF Motion
    <3> QED
      BY <1>1, <1>2, <1>6, <1>7, <2>1, <3>1, Zenon DEF Motion
  <2>5. \A e \in sets[Current].abstract : e.of # p.id
    <3>1. \A q \in sets[Current].concrete : q.id # p.id
      BY <1>3, <1>4 DEF ReportInv, IdsInv
    <3> QED
      BY <1>2, <3>1 DEF Answering
  <2>6. \A q \in sets'[Current].concrete :
           \/ \E e \in sets'[Current].abstract : e.of = q.id
           \/ \E k \in DOMAIN loops' : loops'[k].place = "packet" /\ loops'[k].hand = q
    <3> SUFFICES ASSUME NEW q \in sets'[Current].concrete
                 PROVE  \/ \E e \in sets'[Current].abstract : e.of = q.id
                        \/ \E k \in DOMAIN loops' : loops'[k].place = "packet" /\ loops'[k].hand = q
      OBVIOUS
    <3>1. CASE q = p
      BY <2>2, <3>1
    <3>2. CASE q \in sets[Current].concrete
      <4>1. CASE \E e \in sets[Current].abstract : e.of = q.id
        BY <2>1, <4>1
      <4>2. ASSUME NEW k \in DOMAIN loops, loops[k].place = "packet", loops[k].hand = q
            PROVE  \E l \in DOMAIN loops' : loops'[l].place = "packet" /\ loops'[l].hand = q
        BY <1>1, <2>2, <4>2
      <4> QED
        BY <1>2, <3>2, <4>1, <4>2, Zenon DEF Answering
    <3> QED
      BY <2>1, <3>1, <3>2
  <2>7. Answering'
    <3>1. \A e \in sets'[Current].abstract : \E q \in sets'[Current].concrete : e.of = q.id
      BY <1>2, <2>1, Zenon DEF Answering
    <3>2. \A e \in sets'[Current].abstract : \A q \in sets'[Current].concrete :
             e.of = q.id => Shows(e, q, query[done + 1])
      BY <1>2, <2>1, <2>5, Zenon DEF Answering
    <3>3. incomingRequest' = query'[done' + 1]
      BY <1>1, <1>2, Zenon DEF Answering
    <3> QED
      BY <1>1, <2>1, <2>6, <3>1, <3>2, <3>3 DEF Answering, Shows
  <2> QED
    BY <2>3, <2>4, <2>7 DEF s
<1> QED
  BY <1>1, <1>8, <1>9, Zenon

\* The packet in hand is abstracted, as the symbol in hand asks for.
LEMMA AddResponseKeepsMotion ==
    ASSUME Shape, ReportInv, PlacesInv, AnswerInv, session.patient, pc = "wait",
           NEW i \in DOMAIN loops, AddResponse(i)
    PROVE  /\ Caused(asked[done + 1])'
           /\ Motion(asked[done + 1].symbol)' /\ Answering'
<1> USE DEF learner, handler, agents, network, answer, table, channels, adapter, outside
<1> DEFINE s == asked[done + 1].symbol
           p == loops[i].hand
           a == Abstraction(p)
<1>1. /\ UNCHANGED <<query, done, asked, incomingRequest, preparePacket, wire, incomingSul>>
      /\ loops[i].place = "packet" /\ Go(i, "select", None)
      /\ sets' = [sets EXCEPT ![Current].abstract = sets[Current].abstract \cup {a}]
  BY DEF AddResponse
<1>2. Motion(s) /\ Answering
  BY Zenon DEF AnswerInv
<1>3. /\ Current \in DOMAIN sets /\ asked[done + 1].sets = Current /\ done + 1 \in DOMAIN asked
  BY CurrentFacts, SequenceDomain DEF PlacesInv, Shape, InHand
<1>4. Shows(a, p, query[done + 1]) /\ a.of = p.id
  <2>1. query[done + 1] \in Symbols /\ incomingRequest = query[done + 1]
    <3>1. query \in Seq(Symbols) /\ done \in Nat /\ done < Len(query) /\ Len(query) \in Nat
      BY DEF PlacesInv, Shape, InHand
    <3>2. done + 1 \in 1 .. Len(query)
      BY <3>1
    <3>3. query[done + 1] \in Symbols
      BY ONLY <3>1, <3>2, ElementOf
    <3> QED
      BY <1>2, <3>3, Zenon DEF Answering
  <2>2. incomingRequest # None
    BY <2>1, AdapterAssumption
  <2> QED
    BY <2>1, <2>2, Zenon DEF Shows, Abstraction, NumberShown, VersionShown
<1> HIDE DEF s, a
<1>5. /\ Current' = Current /\ sets'[Current].concrete = sets[Current].concrete
      /\ sets'[Current].abstract = sets[Current].abstract \cup {a}
  BY <1>1, AddFacts, Zenon
<1>6. /\ DOMAIN loops' = DOMAIN loops /\ \A j \in DOMAIN loops : j # i => loops'[j] = loops[j]
      /\ loops'[i].place = "select" /\ loops'[i].inbox = loops[i].inbox
  BY <1>1, GoFacts
<1>7. p \in sets[Current].concrete
  BY <1>1, <1>2 DEF Motion
<1> HIDE DEF p
<1>8. s' = s
  BY <1>1 DEF s
<1>9. Caused(asked[done + 1])'
  BY <1>1, <1>3, <1>5 DEF Caused, AnswerInv
<1>10. Motion(s)'
  <2>1. \A k \in DOMAIN loops' :
           /\ \A j \in DOMAIN loops'[k].inbox : loops'[k].inbox[j].for = s
           /\ loops'[k].place = "requesting" => loops'[k].hand.for = s
           /\ loops'[k].place = "packet" => loops'[k].hand \in sets'[Current].concrete
    BY <1>2, <1>5, <1>6 DEF Motion
  <2> QED
    BY <1>1, <1>2, <1>5, <1>8, <2>1, Zenon DEF Motion
<1>11. Answering'
  <2>1. \A e \in sets'[Current].abstract : \E q \in sets'[Current].concrete : e.of = q.id
    BY <1>2, <1>4, <1>5, <1>7, Zenon DEF Answering
  <2>2. ASSUME NEW q \in sets'[Current].concrete
        PROVE  \/ \E e \in sets'[Current].abstract : e.of = q.id
               \/ \E k \in DOMAIN loops' : loops'[k].place = "packet" /\ loops'[k].hand = q
    <3>1. CASE \E e \in sets[Current].abstract : e.of = q.id
      BY <1>5, <3>1
    <3>2. ASSUME NEW k \in DOMAIN loops, loops[k].place = "packet", loops[k].hand = q
          PROVE  \/ \E e \in sets'[Current].abstract : e.of = q.id
                 \/ \E l \in DOMAIN loops' : loops'[l].place = "packet" /\ loops'[l].hand = q
      <4>1. CASE k = i
        BY <1>4, <1>5, <3>2, <4>1 DEF p
      <4>2. CASE k # i
        BY <1>6, <3>2, <4>2
      <4> QED
        BY <4>1, <4>2
    <3> QED
      BY <1>2, <1>5, <3>1, <3>2, Zenon DEF Answering
  <2>3. ASSUME NEW e \in sets'[Current].abstract, NEW q \in sets'[Current].concrete, e.of = q.id
        PROVE  Shows(e, q, query[done + 1])
    <3>1. CASE e \in sets[Current].abstract
      BY <1>2, <1>5, <2>3, <3>1, Zenon DEF Answering
    <3>2. CASE e = a
      <4>1. q = p
        BY <1>3, <1>4, <1>5, <1>7, <2>3, <3>2 DEF ReportInv, IdsInv
      <4> QED
        BY <1>4, <3>2, <4>1, SMTT(30)
    <3> QED
      BY <1>5, <3>1, <3>2
  <2>4. incomingRequest' = query'[done' + 1]
    BY <1>1, <1>2 DEF Answering
  <2> QED
    BY <1>1, <1>5, <2>1, <2>2, <2>3, <2>4 DEF Answering, Shows
<1> QED
  BY <1>9, <1>10, <1>11 DEF s

\* The answers are kept.
LEMMA AnswerKept ==
    ASSUME Shape, Still, ReportInv, PlacesInv, AnswerInv, [Next]_vars
    PROVE  AnswerInv'
<1> USE DEF learner, handler, agents, network, answer, table, channels, adapter, outside
<1>1. CASE ~session.patient
  <2>1. session' = session
    BY Zenon DEF Next, vars, Start, Close, Query, Stop, Interrupt, Interrupted, Handler, Message, Reopen, Fresh,
           Ask, Capture, AfterRetry, AddIOs, Reply, Run, TakeSymbol, Panic, SubmitPreparePacket, TakePacket,
           AddResponse, TakeSent, Connection, Serve, SendPacket, Deliver
  <2> QED
    BY <1>1, <2>1, Zenon DEF AnswerInv
<1>2. CASE session.patient /\ UNCHANGED vars
  BY <1>2, AnswerUnchanged, Zenon DEF vars
<1>3. CASE session.patient /\ Next
  <2>1. CASE Run \/ Connection
    <3>1. pc = "wait"
      BY <1>3, <2>1, QuietStays, RunLeavesHandler DEF Still
    <3>2. ASSUME pc' = pc
          PROVE  /\ Caused(asked[done + 1])'
                 /\ Motion(asked[done + 1].symbol)' /\ Answering'
      <4>1. CASE Run
        <5>1. PICK i \in DOMAIN loops :
                 TakeSymbol(i) \/ Panic(i) \/ SubmitPreparePacket(i) \/ TakePacket(i) \/ AddResponse(i)
                   \/ TakeSent(i)
          BY <4>1 DEF Run
        <5>2. ~Panic(i)
          BY <3>1, <3>2 DEF Panic, Exit
        <5> QED
          BY <1>3, <3>1, <3>2, <5>1, <5>2, WorkKeepsMotion, TakePacketKeepsMotion, AddResponseKeepsMotion, Zenon
      <4>2. CASE Connection
        BY <1>3, <3>1, <3>2, <4>2, WorkKeepsMotion
      <4> QED
        BY <2>1, <4>1, <4>2
    <3> QED
      BY <1>3, <2>1, <3>2, RunLeavesAnswers
  <2> QED
    BY <1>3, <2>1, HandlerKeepsAnswers DEF Next
<1> QED
  BY <1>1, <1>2, <1>3

\* At first nothing was asked and the table is empty.
LEMMA AnswerInitially ==
    Init => PlacesInv /\ AnswerInv
<1> SUFFICES ASSUME Init PROVE PlacesInv /\ AnswerInv
  OBVIOUS
<1>1. /\ query = <<>> /\ asked = <<>> /\ done = 0 /\ commands = 0 /\ pc = "idle" /\ oracleTable = {}
  BY DEF Init
<1>2. query \in Seq(Symbols) /\ Len(asked) = 0 /\ DOMAIN asked = {} /\ 1 .. done = {}
  BY <1>1, EmptyFacts
<1> QED
  BY <1>1, <1>2 DEF PlacesInv, AnswerInv, InHand

\* For every session in which waitTime outlasts the round trip, and any number of goroutines of
\* Run: the answer to a symbol holds the packets that the symbol caused and no others, also once
\* it is in the table and across RESET, and its abstract part shows each of them as the symbol
\* asks for (handleNewServerInput, the packet case of Run and AddIOs).
THEOREM AnswersBelong ==
    Spec => []AnswerOfItsSymbol
<1> DEFINE Inv == Shape /\ Still /\ ReportInv /\ PlacesInv /\ AnswerInv
<1>1. Init => Inv
  BY ShapeInitially, RecordInitially, ReportInitially, AnswerInitially DEF RecordInv
<1>2. Inv /\ [Next]_vars => Inv'
  <2> SUFFICES ASSUME Inv, [Next]_vars PROVE Inv'
    OBVIOUS
  <2>1. Shape' /\ Still'
    BY ShapeKept, StillKept
  <2>2. ReportInv'
    <3>1. CASE UNCHANGED vars
      BY <3>1, HandlerKeepsReports
    <3> QED
      BY <3>1, HandlerKeepsReports, RunKeepsReports, ConnectionKeepsReports DEF Next
  <2>3. PlacesInv' /\ AnswerInv'
    BY PlacesKept, AnswerKept
  <2> QED
    BY <2>1, <2>2, <2>3
<1>3. Inv => AnswerOfItsSymbol
  BY Zenon DEF AnswerInv, AnswerOfItsSymbol, Caused
<1> HIDE DEF Inv
<1> QED
  BY <1>1, <1>2, <1>3, PTL DEF Spec

-----------------------------------------------------------------------------
(* The packet of a symbol is the packet that the symbol asks for.          *)

\* The frames of a symbol that reach the packet.
Sendable(symbol) == {f \in symbol.frames \ {"MAX_DATA"} : f = "STREAM" => symbol.type = "Short"}

\* The packet number that a symbol gives is the one of the next packet.
NumberSet(symbol) == symbol.number # None => connection.PacketNumber[symbol.type] = symbol.number

\* Nothing of a symbol is with the agents, or has come from them.
Clean == requests = {} /\ frameQueue = {} /\ preparePacket = <<>>
Unsent == outgoingSul = <<>> /\ outgoingPacket = None

\* The way of a symbol: it waits for Run; its frames are asked of the agents and queued; the packet
\* is asked for when all of them are queued; the packet is sent, and Run is told of it.
Waiting(symbol) ==
    /\ Clean /\ Unsent /\ loops[1].place # "requesting"
    /\ Len(loops[1].inbox) = 1 /\ loops[1].inbox[1].symbol = symbol
Requesting(symbol) ==
    /\ loops[1].inbox = <<>> /\ loops[1].place = "requesting" /\ loops[1].hand.symbol = symbol
    /\ preparePacket = <<>> /\ Unsent /\ NumberSet(symbol)
    /\ \A r \in requests : r.type = symbol.type /\ r.frame \in symbol.frames \ {"MAX_DATA"}
    /\ \A q \in frameQueue : q.type = symbol.type /\ q.frame \in Sendable(symbol)
    /\ \A f \in Sendable(symbol) :
          (\E r \in requests : r.frame = f) \/ (\E q \in frameQueue : q.frame = f)
Preparing(symbol) ==
    /\ loops[1].inbox = <<>> /\ loops[1].place # "requesting" /\ requests = {}
    /\ Len(preparePacket) = 1 /\ preparePacket[1].symbol = symbol /\ Unsent /\ NumberSet(symbol)
    /\ \A q \in frameQueue : q.type = symbol.type
    /\ {q.frame : q \in frameQueue} = Sendable(symbol)
Sent(symbol) ==
    /\ loops[1].inbox = <<>> /\ loops[1].place # "requesting" /\ Clean
    /\ \/ outgoingSul = <<>> /\ (outgoingPacket # None => IsAsked(outgoingPacket, symbol))
       \/ Len(outgoingSul) = 1 /\ outgoingPacket = None /\ IsAsked(outgoingSul[1], symbol)

\* No START was sent.
Single == session.patient /\ Len(loops) = 1

\* The connection is a record with a packet number for each packet type; Run is running.
ConnectionShape ==
    /\ DOMAIN connection = {"number", "Version", "PacketNumber", "levels", "open"}
    /\ DOMAIN connection.PacketNumber = PacketTypes
    /\ Len(loops) > 0

OnItsWay == LET symbol == query[done + 1]
            IN  Waiting(symbol) \/ Requesting(symbol) \/ Preparing(symbol) \/ Sent(symbol)

SentInv ==
    Single =>
        /\ pc \notin {"reset", "ended"} => connection.open
        /\ pc \notin {"wait", "ended"} => frameQueue = {}
        /\ pc \in {"ask", "skipped"} => outgoingPacket = None
        /\ pc = "wait" => OnItsWay
        /\ Len(captured) = done
        /\ \A k \in 1 .. done : captured[k] # None => IsAsked(captured[k], query[k])

\* The shape is kept, and a goroutine of Run never ends.
LEMMA ConnectionShapeKept ==
    ASSUME Shape, ConnectionShape, [Next]_vars
    PROVE  ConnectionShape' /\ (Single' => Single)
<1> USE DEF learner, handler, agents, network, answer, table, channels, adapter, outside
<1>1. /\ DOMAIN connection' = {"number", "Version", "PacketNumber", "levels", "open"}
      /\ DOMAIN connection'.PacketNumber = PacketTypes
  <2>1. CASE connection' = connection
    BY <2>1 DEF ConnectionShape
  <2>2. CASE Close
    BY <2>2 DEF Close, ConnectionShape
  <2>3. CASE Reopen
    BY <2>3 DEF Reopen, NewConnection
  <2>4. ASSUME NEW i \in DOMAIN loops, TakeSymbol(i)
        PROVE  /\ DOMAIN connection' = {"number", "Version", "PacketNumber", "levels", "open"}
               /\ DOMAIN connection'.PacketNumber = PacketTypes
    <3>1. PICK v : connection' = [connection EXCEPT !.Version = v,
                                     !.PacketNumber = Numbered(Head(loops[i].inbox).symbol)]
      BY <2>4, Zenon DEF TakeSymbol
    <3>2. DOMAIN Numbered(Head(loops[i].inbox).symbol) = PacketTypes
      BY DEF ConnectionShape, Numbered
    <3> QED
      BY <3>1, <3>2 DEF ConnectionShape
  <2>5. CASE SendPacket
    <3>1. PICK t, n : connection' = connection \/ connection' = [connection EXCEPT !.PacketNumber[t] = n]
      BY <2>5, Zenon DEF SendPacket
    <3> QED
      BY <3>1 DEF ConnectionShape
  <2>6. ASSUME NEW p \in wire, Deliver(p)
        PROVE  /\ DOMAIN connection' = {"number", "Version", "PacketNumber", "levels", "open"}
               /\ DOMAIN connection'.PacketNumber = PacketTypes
    <3>1. PICK l, v : connection' \in {connection, [connection EXCEPT !.levels = l],
                                       [connection EXCEPT !.levels = l, !.Version = v]}
      BY <2>6, Zenon DEF Deliver
    <3> QED
      BY <3>1, Zenon DEF ConnectionShape
  <2>7. Start \/ Query \/ Stop \/ Interrupt \/ Interrupted \/ Fresh \/ Ask \/ Capture \/ AfterRetry
          \/ AddIOs \/ Reply \/ UNCHANGED vars => connection' = connection
    BY Zenon DEF Start, Query, Stop, Interrupt, Interrupted, Fresh, Ask, Capture, AfterRetry, AddIOs, Reply, vars
  <2>8. ASSUME NEW i, Panic(i) \/ SubmitPreparePacket(i) \/ TakePacket(i) \/ AddResponse(i) \/ TakeSent(i)
        PROVE  connection' = connection
    BY <2>8, Zenon DEF Panic, SubmitPreparePacket, TakePacket, AddResponse, TakeSent
  <2>9. ASSUME NEW r, Serve(r)
        PROVE  connection' = connection
    BY <2>9 DEF Serve
  <2> QED
    BY <2>1, <2>2, <2>3, <2>4, <2>5, <2>6, <2>7, <2>8, <2>9 DEF Next, Handler, Run, Connection
<1>2. session' = session
  BY ZenonT(40) DEF Next, vars, Start, Close, Query, Stop, Interrupt, Interrupted, Handler, Message, Reopen, Fresh,
         Ask, Capture, AfterRetry, AddIOs, Reply, Run, TakeSymbol, Panic, SubmitPreparePacket, TakePacket,
         AddResponse, TakeSent, Connection, Serve, SendPacket, Deliver
<1>3. Len(loops) \in Nat /\ (Len(loops') = Len(loops) \/ Len(loops') = Len(loops) + 1)
  <2>1. Sequence(loops) /\ Len(loops) \in Nat
    BY SequenceDomain DEF Shape
  <2>2. CASE loops' = loops
    BY <2>1, <2>2
  <2>3. CASE Start
    <3>1. loops' = Append(loops, Loop("select", <<>>, None))
      BY <2>3 DEF Start
    <3> QED
      BY <2>1, <3>1, AppendFacts
  <2>4. CASE loops' = [i \in DOMAIN loops |-> loops'[i]]
    BY ONLY <2>1, <2>4, FunctionFacts
  <2>5. CASE Ask
    BY <2>2, <2>4, <2>5, Zenon DEF Ask
  <2>6. ASSUME NEW i \in DOMAIN loops, TakeSymbol(i) \/ SubmitPreparePacket(i) \/ TakePacket(i) \/ AddResponse(i)
        PROVE  loops' = loops \/ loops' = [j \in DOMAIN loops |-> loops'[j]]
    BY <2>6, Zenon DEF TakeSymbol, SubmitPreparePacket, TakePacket, AddResponse, Go
  <2>7. ASSUME NEW i, Panic(i) \/ TakeSent(i)
        PROVE  loops' = loops
    BY <2>7, Zenon DEF Panic, TakeSent
  <2>8. Close \/ Query \/ Stop \/ Interrupt \/ Interrupted \/ Reopen \/ Fresh \/ Capture \/ AfterRetry
          \/ AddIOs \/ Reply \/ Connection \/ UNCHANGED vars => loops' = loops
    BY Zenon DEF Close, Query, Stop, Interrupt, Interrupted, Reopen, Fresh, Capture, AfterRetry, AddIOs, Reply,
           Connection, Serve, SendPacket, Deliver, vars
  <2> QED
    BY <2>2, <2>3, <2>4, <2>5, <2>6, <2>7, <2>8, Zenon DEF Next, Handler, Run
<1>4. Len(loops) > 0
  BY DEF ConnectionShape
<1>5. Len(loops') > 0 /\ (Len(loops') = 1 => Len(loops) = 1)
  <2>1. \A i \in Nat : i > 0 => i + 1 > 0 /\ i + 1 # 1
    OBVIOUS
  <2> QED
    BY <1>3, <1>4, <2>1, Zenon
<1>6. ConnectionShape'
  BY <1>1, <1>5, Zenon DEF ConnectionShape
<1> QED
  BY <1>2, <1>5, <1>6, Zenon DEF Single

\* A sequence of one element and its tail, and an element appended to nothing.
LEMMA OneElement ==
    ASSUME NEW s, Sequence(s), Len(s) = 1
    PROVE  s # <<>> /\ Head(s) = s[1] /\ Tail(s) = <<>>
<1>1. s # <<>>
  BY EmptyFacts
<1>2. Head(s) = s[1] /\ Sequence(Tail(s)) /\ Len(Tail(s)) = 0
  BY <1>1, TailFacts
<1>3. Tail(s) = <<>>
  BY <1>2, EmptyIs, Zenon DEF Sequence
<1> QED
  BY <1>1, <1>2, <1>3

\* An element appended to the empty sequence.
LEMMA AppendToNothing ==
    ASSUME NEW e
    PROVE  Len(Append(<<>>, e)) = 1 /\ Append(<<>>, e)[1] = e
<1>1. Len(<<>>) + 1 = 1
  BY EmptyFacts
<1> QED
  BY <1>1, EmptyFacts, AppendFacts

\* Run takes the symbol: its number is set and its frames are asked for.
LEMMA TakeSymbolOnItsWay ==
    ASSUME Shape, ConnectionShape, PlacesInv, session.patient, connection.open, pc = "wait",
           1 \in DOMAIN loops, OnItsWay, TakeSymbol(1)
    PROVE  OnItsWay'
<1> USE DEF learner, handler, agents, network, answer, table, channels, adapter, outside
<1> DEFINE symbol == query[done + 1]
           h == Head(loops[1].inbox)
<1>1. /\ loops[1].place = "select" /\ loops[1].inbox # <<>>
      /\ UNCHANGED <<query, done, frameQueue, preparePacket, outgoingSul, outgoingPacket>>
      /\ loops' = [loops EXCEPT ![1] = Loop("requesting", Tail(loops[1].inbox), h)]
      /\ requests' = requests \cup {[type |-> h.symbol.type, frame |-> f, for |-> h.for, by |-> 1]
                                      : f \in FramesAsked(h.symbol)}
  BY Zenon DEF TakeSymbol, Selects
<1>2. Waiting(symbol)
  BY <1>1, Zenon DEF OnItsWay, Requesting, Preparing, Sent
<1>3. symbol \in Symbols
  <2>1. query \in Seq(Symbols) /\ done \in Nat /\ done < Len(query) /\ Len(query) \in Nat
    BY DEF PlacesInv, Shape, InHand
  <2>2. done + 1 \in 1 .. Len(query)
    BY <2>1
  <2> QED
    BY ONLY <2>1, <2>2, ElementOf
<1>4. symbol.type \in PacketTypes
  BY <1>3 DEF Symbols
<1>5. Sequence(loops[1].inbox) /\ Len(loops[1].inbox) = 1 /\ loops[1].inbox[1].symbol = symbol
  BY <1>2 DEF Waiting, Shape
<1> HIDE DEF symbol
<1>6. h.symbol = symbol /\ Tail(loops[1].inbox) = <<>>
  BY <1>5, OneElement
<1>7. /\ loops'[1].place = "requesting" /\ loops'[1].inbox = <<>> /\ loops'[1].hand.symbol = symbol
  BY <1>1, <1>6, Zenon DEF Loop
<1>8. NumberSet(symbol)'
  <2>1. PICK v : connection' = [connection EXCEPT !.Version = v, !.PacketNumber = Numbered(h.symbol)]
    BY Zenon DEF TakeSymbol
  <2>2. connection'.PacketNumber = Numbered(symbol)
    BY <1>6, <2>1 DEF ConnectionShape
  <2>3. symbol' = symbol
    BY <1>1, Zenon DEF symbol
  <2> QED
    BY <1>4, <2>2, <2>3 DEF NumberSet, Numbered, ConnectionShape
<1>9. /\ requests = {} /\ frameQueue = {} /\ preparePacket = <<>> /\ outgoingSul = <<>> /\ outgoingPacket = None
  BY <1>2 DEF Waiting, Clean, Unsent
<1>10. \A r : r \in requests' <=> \E f \in symbol.frames \ {"MAX_DATA"} :
                                    r = [type |-> symbol.type, frame |-> f, for |-> h.for, by |-> 1]
  BY <1>1, <1>6, <1>9, Zenon DEF FramesAsked
<1>11. /\ \A r \in requests' : r.type = symbol.type /\ r.frame \in symbol.frames \ {"MAX_DATA"}
       /\ \A f \in symbol.frames \ {"MAX_DATA"} : \E r \in requests' : r.frame = f
  <2>1. \A r \in requests' : r.type = symbol.type /\ r.frame \in symbol.frames \ {"MAX_DATA"}
    BY <1>10
  <2>2. ASSUME NEW f \in symbol.frames \ {"MAX_DATA"}
        PROVE  \E r \in requests' : r.frame = f
    <3>1. [type |-> symbol.type, frame |-> f, for |-> h.for, by |-> 1] \in requests'
      BY <1>10
    <3> QED
      BY <3>1
  <2> QED
    BY <2>1, <2>2
<1>12. Requesting(symbol)'
  <2>1. symbol' = symbol
    BY <1>1, Zenon DEF symbol
  <2> QED
    BY <1>1, <1>7, <1>8, <1>9, <1>11, <2>1, Zenon DEF Requesting, Sendable, Unsent
<1> QED
  BY <1>12 DEF OnItsWay, symbol

\* When every frame has been asked for and queued, the packet is.
LEMMA SubmitOnItsWay ==
    ASSUME Shape, session.patient, connection.open, 1 \in DOMAIN loops, OnItsWay, SubmitPreparePacket(1)
    PROVE  OnItsWay'
<1> USE DEF learner, handler, agents, network, answer, table, channels, adapter, outside
<1> DEFINE symbol == query[done + 1]
<1>1. /\ loops[1].place = "requesting" /\ requests = {} /\ Go(1, "select", None)
      /\ UNCHANGED <<query, done, requests, frameQueue, connection, outgoingSul, outgoingPacket>>
      /\ preparePacket' = Append(preparePacket, loops[1].hand)
  BY Zenon DEF SubmitPreparePacket, PutOff
<1>2. Requesting(symbol)
  BY <1>1, Zenon DEF OnItsWay, Waiting, Preparing, Sent
<1>3. symbol' = symbol
  BY <1>1
<1> HIDE DEF symbol
<1>4. loops'[1].place = "select" /\ loops'[1].inbox = <<>>
  BY <1>1, <1>2, GoFacts, Zenon DEF Requesting
<1>5. preparePacket = <<>> /\ loops[1].hand.symbol = symbol
  BY <1>2 DEF Requesting
<1>6. Len(preparePacket') = 1 /\ preparePacket'[1].symbol = symbol
  BY <1>1, <1>5, AppendToNothing
<1>7. /\ \A q \in frameQueue : q.type = symbol.type /\ q.frame \in Sendable(symbol)
      /\ \A f \in Sendable(symbol) : \E q \in frameQueue : q.frame = f
  BY <1>1, <1>2, Zenon DEF Requesting
<1>8. {q.frame : q \in frameQueue} = Sendable(symbol)
  BY <1>7
<1>9. Unsent' /\ NumberSet(symbol)'
  BY <1>1, <1>2, <1>3 DEF Requesting, Unsent, NumberSet
<1>10. Sendable(symbol)' = Sendable(symbol)
  BY <1>3 DEF Sendable
<1>11. Preparing(symbol)'
  BY <1>1, <1>3, <1>4, <1>6, <1>7, <1>8, <1>9, <1>10, Zenon DEF Preparing
<1> QED
  BY <1>11 DEF OnItsWay, symbol

\* An agent queues a frame; only a STREAM frame below 1-RTT is not queued.
LEMMA ServeOnItsWay ==
    ASSUME session.patient, OnItsWay, NEW r \in requests, Serve(r)
    PROVE  OnItsWay'
<1> USE DEF learner, handler, agents, network, answer, table, channels, adapter, outside
<1> DEFINE symbol == query[done + 1]
           queued == [type |-> r.type, frame |-> r.frame, for |-> r.for]
<1>1. /\ UNCHANGED <<query, done, loops, preparePacket, connection, outgoingSul, outgoingPacket>>
      /\ requests' = requests \ {r}
      /\ \/ frameQueue' = frameQueue /\ r.frame = "STREAM" /\ r.type # "Short"
         \/ frameQueue' = frameQueue \cup {queued} /\ (r.frame = "STREAM" => r.type = "Short")
  BY Zenon DEF Serve
<1>2. Requesting(symbol)
  BY Zenon DEF OnItsWay, Waiting, Preparing, Sent, Clean
<1>3. symbol' = symbol
  BY <1>1
<1>4. queued.type = r.type /\ queued.frame = r.frame
  OBVIOUS
<1> HIDE DEF symbol, queued
<1>5. r.type = symbol.type /\ r.frame \in symbol.frames \ {"MAX_DATA"}
  BY <1>2, ZenonT(40) DEF Requesting
<1>6. /\ \A q \in frameQueue : q.type = symbol.type /\ q.frame \in Sendable(symbol)
      /\ \A q \in requests : q.type = symbol.type /\ q.frame \in symbol.frames \ {"MAX_DATA"}
      /\ \A f \in Sendable(symbol) :
            (\E q \in requests : q.frame = f) \/ (\E q \in frameQueue : q.frame = f)
  BY <1>2 DEF Requesting
<1>7. frameQueue' # frameQueue => r.frame \in Sendable(symbol)
  BY <1>1, <1>5, SMTT(30) DEF Sendable
<1>8. \A q \in frameQueue' : q.type = symbol.type /\ q.frame \in Sendable(symbol)
  BY <1>1, <1>4, <1>5, <1>6, <1>7
<1>9. ASSUME NEW f \in Sendable(symbol)
      PROVE  (\E q \in requests' : q.frame = f) \/ (\E q \in frameQueue' : q.frame = f)
  <2>1. CASE f = r.frame
    <3>1. f = "STREAM" => symbol.type = "Short"
      BY DEF Sendable
    <3>2. queued \in frameQueue'
      BY <1>1, <1>5, <2>1, <3>1
    <3> QED
      BY <1>4, <2>1, <3>2
  <2>2. CASE f # r.frame
    BY <1>1, <1>6, <2>2
  <2> QED
    BY <2>1, <2>2
<1>10. Unsent' /\ NumberSet(symbol)' /\ Sendable(symbol)' = Sendable(symbol)
  BY <1>1, <1>2, <1>3, Zenon DEF Requesting, Unsent, NumberSet, Sendable
<1>11. \A q \in requests' : q.type = symbol.type /\ q.frame \in symbol.frames \ {"MAX_DATA"}
  BY <1>1, <1>6
<1>12. Requesting(symbol)'
  BY <1>1, <1>2, <1>3, <1>8, <1>9, <1>10, <1>11, Zenon DEF Requesting
<1> QED
  BY <1>12 DEF OnItsWay, symbol

\* The SendingAgent takes all the frames that are queued into one packet.
LEMMA SendPacketOnItsWay ==
    ASSUME Shape, OnItsWay, SendPacket
    PROVE  OnItsWay'
<1> USE DEF learner, handler, agents, network, answer, table, channels, adapter, outside
<1> DEFINE symbol == query[done + 1]
           type == Head(preparePacket).symbol.type
           frames == {q \in frameQueue : q.type = type}
           p == [type |-> type, number |-> connection.PacketNumber[type], frames |-> {q.frame : q \in frames}]
<1>1. /\ UNCHANGED <<query, done, loops, requests, outgoingPacket>>
      /\ preparePacket # <<>> /\ preparePacket' = Tail(preparePacket)
      /\ \/ frames = {} /\ UNCHANGED <<frameQueue, outgoingSul>>
         \/ frameQueue' = frameQueue \ frames /\ outgoingSul' = Append(outgoingSul, p)
  BY Zenon DEF SendPacket
<1>2. Preparing(symbol)
  BY <1>1, Zenon DEF OnItsWay, Waiting, Requesting, Sent, Clean
<1>3. symbol' = symbol
  BY <1>1, Zenon
<1> HIDE DEF symbol
<1>4. /\ Sequence(preparePacket) /\ Len(preparePacket) = 1 /\ preparePacket[1].symbol = symbol
      /\ loops[1].inbox = <<>> /\ loops[1].place # "requesting" /\ requests = {}
      /\ outgoingSul = <<>> /\ outgoingPacket = None /\ NumberSet(symbol)
      /\ {q.frame : q \in frameQueue} = Sendable(symbol) /\ \A q \in frameQueue : q.type = symbol.type
  BY <1>2 DEF Preparing, Unsent, Shape
<1>5. type = symbol.type /\ preparePacket' = <<>>
  BY <1>1, <1>4, OneElement, Zenon
<1>6. frames = frameQueue
  BY <1>4, <1>5
<1>7. p.type = type /\ p.number = connection.PacketNumber[type] /\ p.frames = {q.frame : q \in frames}
  BY Zenon
<1>8. IsAsked(p, symbol)
  <2>1. p.type = symbol.type
    BY <1>5, <1>7, Zenon
  <2>2. symbol.number # None => p.number = symbol.number
    BY <1>4, <1>5, <1>7, Zenon DEF NumberSet
  <2>3. p.frames = Sendable(symbol)
    BY <1>4, <1>6, <1>7, Zenon
  <2> QED
    BY <2>1, <2>2, <2>3, Zenon DEF IsAsked, Sendable
<1> HIDE DEF p, frames, type
<1>9. Clean'
  BY <1>1, <1>4, <1>5, <1>6, ZenonT(40) DEF Clean
<1>10. \/ outgoingSul' = <<>> /\ outgoingPacket' = None
       \/ Len(outgoingSul') = 1 /\ outgoingPacket' = None /\ outgoingSul'[1] = p
  BY <1>1, <1>4, AppendToNothing
<1>11. Sent(symbol)'
  BY <1>1, <1>3, <1>4, <1>8, <1>9, <1>10, Zenon DEF Sent, IsAsked
<1> QED
  BY <1>11 DEF OnItsWay, symbol

\* Run is told of the packet.
LEMMA TakeSentOnItsWay ==
    ASSUME Shape, OnItsWay, TakeSent(1)
    PROVE  OnItsWay'
<1> USE DEF learner, handler, agents, network, answer, table, channels, adapter, outside
<1> DEFINE symbol == query[done + 1]
<1>1. /\ query' = query /\ done' = done /\ UNCHANGED <<loops, requests, frameQueue, preparePacket>>
      /\ outgoingSul # <<>> /\ outgoingSul' = Tail(outgoingSul) /\ outgoingPacket' = Head(outgoingSul)
  BY DEF TakeSent
<1>2. Sent(symbol)
  BY <1>1, Zenon DEF OnItsWay, Waiting, Requesting, Preparing, Unsent
<1>3. symbol' = symbol
  BY <1>1, ZenonT(40)
<1> HIDE DEF symbol
<1>4. Sequence(outgoingSul) /\ Len(outgoingSul) = 1 /\ IsAsked(outgoingSul[1], symbol)
  BY <1>1, <1>2 DEF Sent, Shape
<1>5. outgoingSul' = <<>> /\ outgoingPacket' = outgoingSul[1]
  BY <1>1, <1>4, OneElement
<1>6. Clean' /\ loops'[1].inbox = <<>> /\ loops'[1].place # "requesting"
  BY <1>1, <1>2, SMTT(30) DEF Sent, Clean
<1>7. Sent(symbol)'
  BY <1>3, <1>4, <1>5, <1>6 DEF Sent, IsAsked
<1> QED
  BY <1>7 DEF OnItsWay, symbol

\* The packets that Run takes and abstracts meanwhile do not touch the way of the symbol.
LEMMA OthersOnItsWay ==
    ASSUME Shape, ConnectionShape, 1 \in DOMAIN loops, OnItsWay,
           TakePacket(1) \/ AddResponse(1) \/ (\E p \in wire : Deliver(p))
    PROVE  OnItsWay'
<1> USE DEF learner, handler, agents, network, answer, table, channels, adapter, outside
<1> DEFINE symbol == query[done + 1]
<1>1. UNCHANGED <<query, done, requests, frameQueue, preparePacket, outgoingSul, outgoingPacket>>
  BY Zenon DEF TakePacket, AddResponse, Deliver
<1>2. connection'.PacketNumber = connection.PacketNumber
  <2>1. CASE connection' = connection
    BY <2>1
  <2>2. ASSUME NEW p \in wire, Deliver(p)
        PROVE  connection'.PacketNumber = connection.PacketNumber
    <3>1. PICK l, v : connection' \in {connection, [connection EXCEPT !.levels = l],
                                       [connection EXCEPT !.levels = l, !.Version = v]}
      BY <2>2, Zenon DEF Deliver
    <3> QED
      BY <3>1, Zenon DEF ConnectionShape
  <2> QED
    BY <2>1, <2>2, Zenon DEF TakePacket, AddResponse
<1>3. \/ loops' = loops
      \/ /\ loops'[1].inbox = loops[1].inbox
         /\ loops[1].place # "requesting" /\ loops'[1].place # "requesting"
  <2>1. CASE TakePacket(1) /\ loops' # loops
    <3>1. Go(1, "packet", Head(incomingSul)) /\ loops[1].place = "select"
      BY <2>1, Zenon DEF TakePacket, Selects
    <3>2. loops'[1].inbox = loops[1].inbox /\ loops'[1].place = "packet"
      BY <3>1, GoFacts
    <3> QED
      BY <3>1, <3>2
  <2>2. CASE AddResponse(1)
    <3>1. Go(1, "select", None) /\ loops[1].place = "packet"
      BY <2>2 DEF AddResponse
    <3>2. loops'[1].inbox = loops[1].inbox /\ loops'[1].place = "select"
      BY <3>1, GoFacts
    <3> QED
      BY <3>1, <3>2
  <2> QED
    BY <2>1, <2>2 DEF Deliver
<1>4. symbol' = symbol
  BY <1>1
<1>5. Waiting(symbol) \/ Requesting(symbol) \/ Preparing(symbol) \/ Sent(symbol)
  BY DEF OnItsWay
<1> HIDE DEF symbol
<1>6. /\ Clean => Clean'
      /\ Unsent => Unsent'
      /\ NumberSet(symbol) => NumberSet(symbol)'
      /\ Sendable(symbol)' = Sendable(symbol)
  BY <1>1, <1>2, <1>4 DEF Clean, Unsent, NumberSet, Sendable
<1>7. Waiting(symbol) => Waiting(symbol)'
  BY <1>1, <1>3, <1>4, <1>6, Zenon DEF Waiting
<1>8. Requesting(symbol) => Requesting(symbol)'
  BY <1>1, <1>3, <1>4, <1>6, Zenon DEF Requesting
<1>9. Preparing(symbol) => Preparing(symbol)'
  BY <1>1, <1>3, <1>4, <1>6, Zenon DEF Preparing
<1>10. Sent(symbol) => Sent(symbol)'
  BY <1>1, <1>3, <1>4, <1>6, Zenon DEF Sent, IsAsked
<1> QED
  BY <1>5, <1>7, <1>8, <1>9, <1>10, Zenon DEF OnItsWay, symbol

\* Run and the connection.
LEMMA RunKeepsSent ==
    ASSUME Shape, ConnectionShape, Still, PlacesInv, SentInv, Single, Run \/ Connection
    PROVE  SentInv'
<1> USE DEF learner, handler, agents, network, answer, table, channels, adapter, outside
<1>1. pc = "wait" /\ UNCHANGED <<query, done, captured>>
  BY QuietStays, RunLeavesHandler DEF Still, Single
<1>2. OnItsWay /\ connection.open /\ Len(captured) = done
      /\ \A k \in 1 .. done : captured[k] # None => IsAsked(captured[k], query[k])
  BY <1>1 DEF SentInv
<1>3. /\ Len(captured') = done'
      /\ \A k \in 1 .. done' : captured'[k] # None => IsAsked(captured'[k], query'[k])
  BY <1>1, <1>2
<1>4. DOMAIN loops = {1}
  <2>1. DOMAIN loops = 1 .. 1
    BY SequenceDomain DEF Single, Shape
  <2> QED
    BY <2>1
<1>5. CASE pc' = "ended"
  BY <1>3, <1>5, Zenon DEF SentInv, IsAsked
<1>6. CASE pc' = pc
  <2>1. OnItsWay'
    <3>1. CASE Run
      <4>1. TakeSymbol(1) \/ SubmitPreparePacket(1) \/ TakePacket(1) \/ AddResponse(1) \/ TakeSent(1)
        <5>1. ~Panic(1)
          BY <1>1, <1>6 DEF Panic, Exit
        <5> QED
          BY <1>4, <3>1, <5>1 DEF Run
      <4>2. 1 \in DOMAIN loops
        BY <1>4
      <4> QED
        BY <1>1, <1>2, <4>1, <4>2, TakeSymbolOnItsWay, SubmitOnItsWay, OthersOnItsWay, TakeSentOnItsWay, Zenon
           DEF Single
    <3>2. CASE Connection
      <4>1. 1 \in DOMAIN loops
        BY <1>4
      <4> QED
        BY <1>2, <3>2, <4>1, ServeOnItsWay, SendPacketOnItsWay, OthersOnItsWay DEF Connection, Single
    <3> QED
      BY <3>1, <3>2
  <2>2. connection'.open = connection.open
    <3>1. CASE connection' = connection
      BY <3>1
    <3>2. ASSUME NEW i, TakeSymbol(i)
          PROVE  connection'.open = connection.open
      <4>1. PICK v, n : connection' = [connection EXCEPT !.Version = v, !.PacketNumber = n]
        BY <3>2, Zenon DEF TakeSymbol
      <4> QED
        BY <4>1 DEF ConnectionShape
    <3>3. CASE SendPacket
      <4>1. PICK t, n : connection' = connection \/ connection' = [connection EXCEPT !.PacketNumber[t] = n]
        BY <3>3, Zenon DEF SendPacket
      <4> QED
        BY <4>1 DEF ConnectionShape
    <3>4. ASSUME NEW p \in wire, Deliver(p)
          PROVE  connection'.open = connection.open
      <4>1. PICK l, v : connection' \in {connection, [connection EXCEPT !.levels = l],
                                         [connection EXCEPT !.levels = l, !.Version = v]}
        BY <3>4, Zenon DEF Deliver
      <4> QED
        BY <4>1, Zenon DEF ConnectionShape
    <3>5. ASSUME NEW i, Panic(i) \/ SubmitPreparePacket(i) \/ TakePacket(i) \/ AddResponse(i) \/ TakeSent(i)
          PROVE  connection' = connection
      BY <3>5, Zenon DEF Panic, SubmitPreparePacket, TakePacket, AddResponse, TakeSent
    <3>6. ASSUME NEW r, Serve(r)
          PROVE  connection' = connection
      BY <3>6 DEF Serve
    <3> QED
      BY <3>1, <3>2, <3>3, <3>4, <3>5, <3>6 DEF Run, Connection
  <2> QED
    BY <1>1, <1>2, <1>3, <1>6, <2>1, <2>2, Zenon DEF SentInv, IsAsked
<1> QED
  BY <1>5, <1>6, RunLeavesHandler, ZenonT(40)

\* The symbol is handed over to Run.
LEMMA AskKeepsSent ==
    ASSUME Shape, Still, SentInv, Single, Ask
    PROVE  SentInv'
<1> USE DEF learner, handler, agents, network, answer, table, channels, adapter, outside
<1> DEFINE symbol == query[done + 1]
           t == [symbol |-> symbol, for |-> asked[done + 1].symbol]
<1>1. /\ pc = "ask" /\ pc' \in {"wait", "skipped"}
      /\ UNCHANGED <<query, done, captured, connection, outgoingPacket, requests, frameQueue, preparePacket,
                     outgoingSul>>
      /\ pc' = "wait" => loops' = [i \in DOMAIN loops |-> [loops[i] EXCEPT !.inbox = Append(loops[i].inbox, t)]]
  BY Zenon DEF Ask
<1>2. /\ connection.open /\ frameQueue = {} /\ outgoingPacket = None /\ Len(captured) = done
      /\ \A k \in 1 .. done : captured[k] # None => IsAsked(captured[k], query[k])
  BY <1>1 DEF SentInv
<1>3. /\ Len(captured') = done'
      /\ \A k \in 1 .. done' : captured'[k] # None => IsAsked(captured'[k], query'[k])
  BY <1>1, <1>2
<1>4. Quiet
  BY <1>1 DEF Still, Single
<1>5. t.symbol = symbol /\ symbol' = symbol
  BY <1>1
<1> HIDE DEF t, symbol
<1>6. ASSUME pc' = "wait"
      PROVE  OnItsWay'
  <2>1. 1 \in DOMAIN loops
    BY SequenceDomain DEF Single, Shape
  <2>2. loops[1].inbox = <<>> /\ loops[1].place = "select" /\ DOMAIN loops[1] = {"place", "inbox", "hand"}
    BY <1>4, <2>1 DEF Quiet, Shape
  <2>3. loops'[1].inbox = Append(<<>>, t) /\ loops'[1].place = "select"
    BY <1>1, <1>6, <2>1, <2>2
  <2>4. Len(loops'[1].inbox) = 1 /\ loops'[1].inbox[1] = t
    BY <2>3, AppendToNothing
  <2>5. Clean' /\ Unsent'
    BY <1>1, <1>2, <1>4 DEF Quiet, Clean, Unsent
  <2>6. loops'[1].place # "requesting" /\ loops'[1].inbox[1].symbol = symbol'
    BY <1>5, <2>3, <2>4
  <2>7. Waiting(symbol)'
    BY <2>4, <2>5, <2>6, ZenonT(40) DEF Waiting
  <2> QED
    BY <2>7 DEF OnItsWay, symbol
<1> QED
  BY <1>1, <1>2, <1>3, <1>6, Zenon DEF SentInv, IsAsked

\* When nothing is in motion, the last packet sent is the symbol's.
LEMMA CaptureKeepsSent ==
    ASSUME Shape, Still, SentInv, Single, Capture
    PROVE  SentInv'
<1> USE DEF learner, handler, agents, network, answer, table, channels, adapter, outside
<1>1. /\ pc \in {"wait", "skipped"} /\ pc' \in {"retry", "symbol", "record"} /\ done' = done + 1
      /\ UNCHANGED <<query, connection, frameQueue>> /\ captured' = Append(captured, outgoingPacket)
  BY DEF Capture, Waited
<1>2. Quiet
  BY <1>1, ZenonT(40) DEF Capture, Waited, Slept, Still, Single
<1>3. /\ connection.open /\ Len(captured) = done /\ Sequence(captured) /\ done \in Nat
      /\ \A k \in 1 .. done : captured[k] # None => IsAsked(captured[k], query[k])
  BY <1>1 DEF SentInv, Shape
<1>4. frameQueue = {} /\ (outgoingPacket # None => IsAsked(outgoingPacket, query[done + 1]))
  <2>1. CASE pc = "skipped"
    BY <2>1 DEF SentInv
  <2>2. CASE pc = "wait"
    <3>1. 1 \in DOMAIN loops
      BY SequenceDomain DEF Single, Shape
    <3>2. /\ loops[1].inbox = <<>> /\ loops[1].place = "select" /\ preparePacket = <<>> /\ outgoingSul = <<>>
      BY <1>2, <3>1 DEF Quiet
    <3>3. OnItsWay
      BY <2>2 DEF SentInv
    <3>4. Sent(query[done + 1])
      BY <3>2, <3>3, EmptyFacts, SMTT(30) DEF OnItsWay, Waiting, Requesting, Preparing
    <3> QED
      BY <3>2, <3>4, EmptyFacts DEF Sent, Clean
  <2> QED
    BY <1>1, <2>1, <2>2
<1>5. /\ Len(captured') = done + 1 /\ captured'[done + 1] = outgoingPacket
      /\ \A k \in 1 .. done : captured'[k] = captured[k]
  <2>1. DOMAIN captured = 1 .. done
    BY <1>3, SequenceDomain, SMTT(30)
  <2> QED
    BY <1>1, <1>3, <2>1, AppendFacts
<1>6. ASSUME NEW k \in 1 .. done + 1
      PROVE  captured'[k] # None => IsAsked(captured'[k], query[k])
  <2>1. CASE k \in 1 .. done
    BY <1>3, <1>5, <2>1
  <2>2. CASE k = done + 1
    BY <1>4, <1>5, <2>2
  <2> QED
    BY <1>3, <2>1, <2>2
<1> QED
  BY <1>1, <1>3, <1>4, <1>5, <1>6, ZenonT(40) DEF SentInv

\* The learner's messages and the handler.
LEMMA HandlerKeepsSent ==
    ASSUME Shape, Still, SentInv, Single,
           \/ Start \/ Close \/ Query \/ Stop \/ Interrupt \/ Interrupted \/ Handler \/ UNCHANGED vars
    PROVE  SentInv'
<1> USE DEF learner, handler, agents, network, answer, table, channels, adapter, outside
<1>0. /\ Len(captured) = done
      /\ \A k \in 1 .. done : captured[k] # None => IsAsked(captured[k], query[k])
  BY DEF SentInv
<1>1. CASE Start
  <2>1. loops' = Append(loops, Loop("select", <<>>, None)) /\ Sequence(loops) /\ Len(loops) = 1
    BY <1>1, Zenon DEF Start, Shape, Single
  <2>2. Len(loops') = 1 + 1
    BY <2>1, AppendFacts
  <2> QED
    BY <2>2 DEF SentInv, Single
<1>2. CASE Interrupt \/ UNCHANGED vars
  <2>1. UNCHANGED <<query, done, captured, connection, frameQueue, outgoingPacket, pc, loops, requests,
                    preparePacket, outgoingSul, session>>
    BY <1>2, Zenon DEF Interrupt, vars
  <2>2. OnItsWay => OnItsWay'
    BY <2>1, Zenon DEF OnItsWay, Waiting, Requesting, Preparing, Sent, Clean, Unsent, NumberSet, Sendable, IsAsked
  <2> QED
    BY <2>1, <2>2, Zenon DEF SentInv, Single, IsAsked
<1>3. CASE Close \/ Stop \/ Interrupted \/ AfterRetry \/ AddIOs \/ Reply \/ Fresh \/ Reopen
  <2>1. /\ UNCHANGED <<query, done, captured>>
        /\ pc' \in {"reset", "ended", "symbol", "record", "reply", "idle", "ask"}
        /\ pc' = "ask" => outgoingPacket' = None
    BY <1>3, Zenon DEF Close, Stop, Interrupted, AfterRetry, AddIOs, Reply, Fresh, Reopen, Exit, Message
  <2>2. pc' \notin {"reset", "ended"} => connection'.open
    <3>1. CASE Reopen
      BY <3>1 DEF Reopen, NewConnection
    <3>2. CASE ~Reopen
      BY <1>3, <3>2, Zenon DEF Close, Stop, Interrupted, AfterRetry, AddIOs, Reply, Fresh, Exit, Message, SentInv
    <3> QED
      BY <3>1, <3>2
  <2>3. pc' \notin {"ended"} => frameQueue' = {}
    BY <1>3, Zenon DEF Close, Stop, Interrupted, AfterRetry, AddIOs, Reply, Fresh, Reopen, Exit, Message, SentInv
  <2> QED
    BY <1>0, <2>1, <2>2, <2>3, Zenon DEF SentInv, IsAsked
<1>4. CASE Query
  <2>1. captured' = <<>> /\ done' = 0 /\ pc' = "symbol" /\ UNCHANGED <<connection, frameQueue>> /\ pc = "idle"
    BY <1>4, Zenon DEF Query, Message
  <2>2. Len(captured') = 0 /\ 1 .. done' = {}
    BY <2>1, EmptyFacts
  <2> QED
    BY <2>1, <2>2 DEF SentInv
<1> QED
  BY <1>1, <1>2, <1>3, <1>4, AskKeepsSent, CaptureKeepsSent DEF Handler

\* At first nothing was asked.
LEMMA SentInitially ==
    Init => ConnectionShape /\ SentInv
<1> SUFFICES ASSUME Init PROVE ConnectionShape /\ SentInv
  OBVIOUS
<1>1. /\ connection = NewConnection(1) /\ loops = <<Loop("select", <<>>, None)>> /\ frameQueue = {}
      /\ captured = <<>> /\ done = 0 /\ pc = "idle"
  BY DEF Init
<1>2. Len(loops) = 1 /\ Len(captured) = 0 /\ 1 .. done = {}
  BY <1>1, SingletonFacts, EmptyFacts
<1>3. connection.open /\ ConnectionShape
  BY <1>1, <1>2 DEF NewConnection, ConnectionShape
<1> QED
  BY <1>1, <1>2, <1>3 DEF SentInv

\* For every session in which the sleeps outlast what they wait for, as long as no START was sent:
\* the packet that is taken as the concrete input of a symbol has the type, the number and exactly
\* the frames that the symbol asks for (Run's symbol case, the 100 ms before PreparePacket, and the
\* SendingAgent).
THEOREM InputsAsAsked ==
    Spec => []SentAsAsked
<1> DEFINE Inv == Shape /\ ConnectionShape /\ Still /\ PlacesInv /\ SentInv
<1>1. Init => Inv
  BY ShapeInitially, RecordInitially, AnswerInitially, SentInitially DEF RecordInv
<1>2. Inv /\ [Next]_vars => Inv'
  <2> SUFFICES ASSUME Inv, [Next]_vars PROVE Inv'
    OBVIOUS
  <2>1. Shape' /\ Still' /\ PlacesInv'
    BY ShapeKept, StillKept, PlacesKept
  <2>2. ConnectionShape' /\ (Single' => Single)
    BY ConnectionShapeKept
  <2>3. SentInv'
    <3>1. CASE Single
      BY <3>1, HandlerKeepsSent, RunKeepsSent DEF Next
    <3>2. CASE ~Single
      BY <2>2, <3>2 DEF SentInv
    <3> QED
      BY <3>1, <3>2
  <2> QED
    BY <2>1, <2>2, <2>3
<1>3. Inv => SentAsAsked
  BY DEF SentInv, Single, SentAsAsked
<1> HIDE DEF Inv
<1> QED
  BY <1>1, <1>2, <1>3, PTL DEF Spec

=============================================================================
