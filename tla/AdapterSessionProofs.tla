------------------------- MODULE AdapterSessionProofs -------------------------
(***************************************************************************)
(* Proofs about the adapter, for every set of sessions: the queries that   *)
(* the learner sends, RESET, START and STOP among them, the answers of the *)
(* system under learning, an interrupt, and sleeps long enough or not.     *)
(***************************************************************************)
EXTENDS AdapterSession, TLAPS

-----------------------------------------------------------------------------
(* Sequences of anything.                                                  *)

Sequence(s) == s \in Seq({s[i] : i \in DOMAIN s})

\* The indices of a sequence.
LEMMA SequenceDomain ==
    ASSUME NEW s, Sequence(s)
    PROVE  Len(s) \in Nat /\ DOMAIN s = 1 .. Len(s)
BY DEF Sequence

\* An element of a sequence.
LEMMA ElementOf ==
    ASSUME NEW S, NEW s \in Seq(S), NEW i \in 1 .. Len(s)
    PROVE  s[i] \in S
OBVIOUS

\* A sequence without elements.
LEMMA EmptyIs ==
    ASSUME NEW S, NEW s \in Seq(S), Len(s) = 0
    PROVE  s = <<>>
OBVIOUS

\* The empty sequence.
LEMMA EmptyFacts ==
    Sequence(<<>>) /\ DOMAIN <<>> = {} /\ Len(<<>>) = 0
BY DEF Sequence

\* A sequence of one element.
LEMMA SingletonFacts ==
    ASSUME NEW e
    PROVE  Sequence(<<e>>) /\ DOMAIN <<e>> = {1} /\ Len(<<e>>) = 1 /\ <<e>>[1] = e
<1>1. DOMAIN <<e>> = {1} /\ Len(<<e>>) = 1 /\ <<e>>[1] = e
  OBVIOUS
<1>2. {<<e>>[i] : i \in DOMAIN <<e>>} = {e}
  BY <1>1
<1>3. <<e>> \in Seq({e})
  OBVIOUS
<1> QED
  BY <1>1, <1>2, <1>3 DEF Sequence

\* A function with the indices of a sequence is a sequence.
LEMMA FunctionFacts ==
    ASSUME NEW s, Sequence(s), NEW t, t = [i \in DOMAIN s |-> t[i]]
    PROVE  Sequence(t) /\ Len(t) = Len(s) /\ DOMAIN t = DOMAIN s
<1>1. Len(s) \in Nat /\ DOMAIN s = 1 .. Len(s)
  BY SequenceDomain
<1>2. DOMAIN t = 1 .. Len(s)
  BY <1>1
<1>3. t \in [1 .. Len(s) -> {t[i] : i \in DOMAIN t}]
  BY <1>1, <1>2
<1>4. t \in Seq({t[i] : i \in DOMAIN t})
  BY <1>1, <1>3
<1> QED
  BY <1>1, <1>2, <1>4 DEF Sequence

\* An element is appended: what was there stays, and it comes last.
LEMMA AppendFacts ==
    ASSUME NEW s, Sequence(s), NEW e
    PROVE  /\ Sequence(Append(s, e)) /\ Len(Append(s, e)) = Len(s) + 1
           /\ DOMAIN Append(s, e) = DOMAIN s \cup {Len(s) + 1}
           /\ Append(s, e)[Len(s) + 1] = e /\ Len(s) + 1 \notin DOMAIN s
           /\ \A i \in DOMAIN s : Append(s, e)[i] = s[i]
<1> DEFINE S == {s[i] : i \in DOMAIN s} \cup {e}
           t == Append(s, e)
<1>1. Len(s) \in Nat /\ DOMAIN s = 1 .. Len(s)
  BY SequenceDomain
<1>2. s \in Seq(S)
  <2>1. s \in Seq({s[i] : i \in DOMAIN s})
    BY DEF Sequence
  <2> HIDE DEF t
  <2> QED
    BY <2>1
<1> HIDE DEF S
<1>3. e \in S
  BY DEF S
<1>4. /\ t \in Seq(S) /\ Len(t) = Len(s) + 1 /\ DOMAIN t = 1 .. Len(s) + 1
      /\ \A i \in 1 .. Len(s) : t[i] = s[i]
      /\ t[Len(s) + 1] = e
  BY <1>1, <1>2, <1>3
<1> HIDE DEF t
<1>5. t = [i \in 1 .. Len(s) + 1 |-> t[i]]
  BY <1>1, <1>4
<1>6. t \in Seq({t[i] : i \in DOMAIN t})
  BY <1>1, <1>4, <1>5
<1>7. Sequence(t)
  BY <1>6 DEF Sequence
<1>8. 1 .. Len(s) + 1 = 1 .. Len(s) \cup {Len(s) + 1} /\ Len(s) + 1 \notin 1 .. Len(s)
  BY <1>1
<1> QED
  BY <1>1, <1>4, <1>7, <1>8 DEF t

\* The first element is taken: the others move up.
LEMMA TailFacts ==
    ASSUME NEW s, Sequence(s), s # <<>>
    PROVE  /\ Sequence(Tail(s)) /\ 1 \in DOMAIN s /\ Head(s) = s[1]
           /\ Len(s) > 0 /\ Len(Tail(s)) = Len(s) - 1
           /\ \A i \in DOMAIN Tail(s) : i + 1 \in DOMAIN s /\ i + 1 # 1 /\ Tail(s)[i] = s[i + 1]
<1> DEFINE S == {s[i] : i \in DOMAIN s}
           t == Tail(s)
<1>1. Len(s) \in Nat /\ DOMAIN s = 1 .. Len(s) /\ s \in Seq(S)
  BY SequenceDomain DEF Sequence
<1> HIDE DEF S
<1>2. Len(s) > 0
  BY <1>1
<1>3. /\ t \in Seq(S) /\ Len(t) = Len(s) - 1 /\ DOMAIN t = 1 .. Len(s) - 1
      /\ \A i \in 1 .. Len(s) - 1 : t[i] = s[i + 1]
  BY <1>1
<1> HIDE DEF t
<1>4. t = [i \in 1 .. Len(s) - 1 |-> t[i]]
  BY <1>1, <1>3
<1>5. t \in Seq({t[i] : i \in DOMAIN t})
  BY <1>1, <1>2, <1>3, <1>4
<1>6. Sequence(t)
  BY <1>5 DEF Sequence
<1>7. \A i \in DOMAIN t : i + 1 \in DOMAIN s /\ i + 1 # 1
  BY <1>1, <1>3
<1>8. Head(s) = s[1]
  BY <1>1
<1> QED
  BY <1>1, <1>2, <1>3, <1>6, <1>7, <1>8 DEF t

-----------------------------------------------------------------------------
(* The shape of the state.                                                 *)

\* The channels and lists are sequences, the goroutines and the pairs of sets records.
Shape ==
    /\ session \in Sessions /\ done \in Nat /\ replies \in Nat
    /\ Sequence(asked) /\ Sequence(captured)
    /\ Sequence(preparePacket) /\ Sequence(outgoingSul) /\ Sequence(incomingSul)
    /\ Sequence(loops)
    /\ \A i \in DOMAIN loops :
          DOMAIN loops[i] = {"place", "inbox", "hand"} /\ Sequence(loops[i].inbox)
    /\ Sequence(sets) /\ Current > 0
    /\ \A k \in DOMAIN sets : DOMAIN sets[k] = {"concrete", "abstract"}

\* The current sets are the last of them.
LEMMA CurrentFacts ==
    ASSUME Shape
    PROVE  /\ Current \in DOMAIN sets /\ Current \in Nat /\ DOMAIN sets = 1 .. Current
           /\ \A k \in DOMAIN sets : k <= Current
BY SequenceDomain DEF Shape, Current

\* A goroutine of Run moves to its next place.
LEMMA GoFacts ==
    ASSUME Shape, NEW i \in DOMAIN loops, NEW place, NEW hand, Go(i, place, hand)
    PROVE  /\ Sequence(loops') /\ DOMAIN loops' = DOMAIN loops /\ Len(loops') = Len(loops)
           /\ \A j \in DOMAIN loops : /\ DOMAIN loops'[j] = {"place", "inbox", "hand"}
                                      /\ loops'[j].inbox = loops[j].inbox
                                      /\ j # i => loops'[j] = loops[j]
           /\ loops'[i].place = place /\ loops'[i].hand = hand
<1>1. \A j \in DOMAIN loops : DOMAIN loops[j] = {"place", "inbox", "hand"}
  BY DEF Shape
<1>2. loops' = [loops EXCEPT ![i].place = place, ![i].hand = hand]
  BY DEF Go
<1>3. loops' = [j \in DOMAIN loops |-> loops'[j]] /\ Sequence(loops)
  BY <1>2, Zenon DEF Shape
<1>4. Sequence(loops') /\ DOMAIN loops' = DOMAIN loops /\ Len(loops') = Len(loops)
  BY ONLY <1>3, FunctionFacts
<1>5. \A j \in DOMAIN loops : j # i => loops'[j] = loops[j]
  BY <1>2
<1>6. loops'[i] = [[loops[i] EXCEPT !.place = place] EXCEPT !.hand = hand]
  BY <1>2
<1>7. /\ loops'[i].place = place /\ loops'[i].hand = hand
      /\ loops'[i].inbox = loops[i].inbox /\ DOMAIN loops'[i] = {"place", "inbox", "hand"}
  BY <1>1, <1>6
<1> QED
  BY <1>1, <1>4, <1>5, <1>7, Zenon

\* New sets come after the old ones, and are empty.
LEMMA NewSetsFacts ==
    ASSUME Shape, NewSets
    PROVE  /\ Sequence(sets') /\ Current' = Current + 1 /\ Current' \in Nat /\ Current' > 0
           /\ DOMAIN sets' = DOMAIN sets \cup {Current'} /\ Current' \notin DOMAIN sets
           /\ \A k \in DOMAIN sets : sets'[k] = sets[k]
           /\ sets'[Current'] = [concrete |-> {}, abstract |-> {}]
           /\ \A k \in DOMAIN sets' : DOMAIN sets'[k] = {"concrete", "abstract"}
<1>1. /\ Sequence(sets') /\ Current' = Current + 1 /\ Current' \in Nat /\ Current' > 0
      /\ DOMAIN sets' = DOMAIN sets \cup {Current'} /\ Current' \notin DOMAIN sets
      /\ \A k \in DOMAIN sets : sets'[k] = sets[k]
      /\ sets'[Current'] = [concrete |-> {}, abstract |-> {}]
  BY CurrentFacts, AppendFacts DEF Shape, NewSets, Current
<1>2. \A k \in DOMAIN sets : DOMAIN sets[k] = {"concrete", "abstract"}
  BY DEF Shape
<1>3. DOMAIN [concrete |-> {}, abstract |-> {}] = {"concrete", "abstract"}
  OBVIOUS
<1> QED
  BY <1>1, <1>2, <1>3, Zenon

\* A packet is added to the current concrete set, or its abstraction to the abstract one.
LEMMA AddFacts ==
    ASSUME Shape, NEW f \in {"concrete", "abstract"}, NEW S,
           sets' = [sets EXCEPT ![Current][f] = S]
    PROVE  /\ Sequence(sets') /\ Current' = Current /\ DOMAIN sets' = DOMAIN sets
           /\ \A k \in DOMAIN sets : DOMAIN sets'[k] = {"concrete", "abstract"}
           /\ \A k \in DOMAIN sets : k # Current => sets'[k] = sets[k]
           /\ sets'[Current][f] = S
           /\ \A g \in {"concrete", "abstract"} : g # f => sets'[Current][g] = sets[Current][g]
<1>1. /\ \A k \in DOMAIN sets : DOMAIN sets[k] = {"concrete", "abstract"}
      /\ Current \in DOMAIN sets /\ Sequence(sets)
  BY CurrentFacts DEF Shape
<1>2. sets' = [k \in DOMAIN sets |-> sets'[k]]
  BY Zenon
<1>3. Sequence(sets') /\ DOMAIN sets' = DOMAIN sets /\ Len(sets') = Len(sets)
  BY ONLY <1>1, <1>2, FunctionFacts
<1>4. sets'[Current] = [sets[Current] EXCEPT ![f] = S]
  BY <1>1
<1>5. \A k \in DOMAIN sets : k # Current => sets'[k] = sets[k]
  OBVIOUS
<1>6. /\ DOMAIN sets'[Current] = {"concrete", "abstract"} /\ sets'[Current][f] = S
      /\ \A g \in {"concrete", "abstract"} : g # f => sets'[Current][g] = sets[Current][g]
  BY <1>1, <1>4
<1> QED
  BY <1>1, <1>3, <1>5, <1>6, Zenon DEF Current

\* The variables that the shape is about.
shape == <<session, done, replies, asked, captured, preparePacket, outgoingSul, incomingSul,
           loops, sets>>

\* A step that leaves these variables alone keeps the shape.
LEMMA ShapeUnchanged ==
    ASSUME Shape, UNCHANGED shape
    PROVE  Shape'
BY DEF Shape, shape, Current

\* The learner's messages and the handler keep the shape.
LEMMA HandlerKeepsShape ==
    ASSUME Shape, Start \/ Close \/ Query \/ Stop \/ Interrupt \/ Interrupted \/ Handler
    PROVE  Shape'
<1> USE DEF learner, handler, agents, network, answer, table, channels, adapter, outside
<1>1. CASE Start
  <2>1. /\ loops' = Append(loops, Loop("select", <<>>, None))
        /\ UNCHANGED <<session, done, replies, asked, captured, preparePacket, outgoingSul,
                       incomingSul, sets>>
    BY <1>1, Zenon DEF Start, Message
  <2>2. /\ Sequence(loops') /\ DOMAIN loops' = DOMAIN loops \cup {Len(loops) + 1}
        /\ loops'[Len(loops) + 1] = Loop("select", <<>>, None)
        /\ \A i \in DOMAIN loops : loops'[i] = loops[i]
    BY <2>1, AppendFacts DEF Shape
  <2>3. \A i \in DOMAIN loops' :
           DOMAIN loops'[i] = {"place", "inbox", "hand"} /\ Sequence(loops'[i].inbox)
    BY <2>2, EmptyFacts DEF Loop, Shape
  <2> QED
    BY <2>1, <2>2, <2>3, Zenon DEF Shape, Current
<1>2. CASE Close
  <2>1. /\ preparePacket' = <<>>
        /\ UNCHANGED <<session, done, replies, asked, captured, outgoingSul, incomingSul, loops,
                       sets>>
    BY <1>2, Zenon DEF Close, Message
  <2> QED
    BY <2>1, EmptyFacts, Zenon DEF Shape, Current
<1>3. CASE Reopen
  <2>1. /\ outgoingSul' = <<>> /\ incomingSul' = <<>> /\ NewSets
        /\ UNCHANGED <<session, done, replies, asked, captured, preparePacket, loops>>
    BY <1>3 DEF Reopen
  <2> QED
    BY <2>1, NewSetsFacts, EmptyFacts, Zenon DEF Shape
<1>4. CASE Query
  <2>1. /\ done' = 0 /\ asked' = <<>> /\ captured' = <<>>
        /\ UNCHANGED <<session, replies, preparePacket, outgoingSul, incomingSul, loops, sets>>
    BY <1>4, Zenon DEF Query, Message
  <2> QED
    BY <2>1, EmptyFacts, Zenon DEF Shape, Current
<1>5. CASE Fresh
  <2>1. /\ NewSets /\ asked' = Append(asked, [symbol |-> <<commands, done + 1>>, sets |-> Len(sets')])
        /\ UNCHANGED <<session, done, replies, captured, preparePacket, outgoingSul, incomingSul,
                       loops>>
    BY <1>5 DEF Fresh
  <2>2. Sequence(asked')
    BY <2>1, AppendFacts, Zenon DEF Shape
  <2> QED
    BY <2>1, <2>2, NewSetsFacts, Zenon DEF Shape
<1>6. CASE Ask
  <2>1. UNCHANGED <<session, done, replies, asked, captured, preparePacket, outgoingSul,
                    incomingSul, sets>>
    BY <1>6, Zenon DEF Ask
  <2>2. CASE UNCHANGED loops
    BY <2>1, <2>2, ShapeUnchanged DEF shape
  <2>3. CASE ~UNCHANGED loops
    <3>1. PICK s : loops' = [i \in DOMAIN loops |-> [loops[i] EXCEPT !.inbox = Append(@, s)]]
      BY <1>6, <2>3, Zenon DEF Ask
    <3>2. Sequence(loops') /\ DOMAIN loops' = DOMAIN loops
      <4>1. Sequence(loops) /\ loops' = [i \in DOMAIN loops |-> loops'[i]]
        BY <3>1 DEF Shape
      <4> QED
        BY ONLY <4>1, FunctionFacts
    <3>3. ASSUME NEW i \in DOMAIN loops
          PROVE  DOMAIN loops'[i] = {"place", "inbox", "hand"} /\ Sequence(loops'[i].inbox)
      <4>1. DOMAIN loops[i] = {"place", "inbox", "hand"} /\ Sequence(loops[i].inbox)
        BY DEF Shape
      <4>2. loops'[i] = [loops[i] EXCEPT !.inbox = Append(loops[i].inbox, s)]
        BY <3>1
      <4>3. Sequence(Append(loops[i].inbox, s))
        BY <4>1, AppendFacts
      <4> QED
        BY <4>1, <4>2, <4>3
    <3> QED
      BY <2>1, <3>2, <3>3, Zenon DEF Shape, Current
  <2> QED
    BY <2>2, <2>3
<1>7. CASE Capture
  <2>1. /\ captured' = Append(captured, outgoingPacket) /\ done' = done + 1
        /\ UNCHANGED <<session, replies, asked, preparePacket, outgoingSul, incomingSul, loops,
                       sets>>
    BY <1>7 DEF Capture
  <2>2. Sequence(captured') /\ done' \in Nat
    BY <2>1, AppendFacts DEF Shape
  <2> QED
    BY <2>1, <2>2, Zenon DEF Shape, Current
<1>8. CASE AfterRetry \/ AddIOs \/ Reply \/ Stop \/ Interrupt \/ Interrupted
  <2>1. UNCHANGED shape
    BY <1>8, Zenon DEF AfterRetry, AddIOs, Reply, Stop, Interrupt, Interrupted, Exit, Message, shape
  <2> QED
    BY <2>1, ShapeUnchanged
<1> QED
  BY <1>1, <1>2, <1>3, <1>4, <1>5, <1>6, <1>7, <1>8 DEF Handler

\* A step of Run keeps the shape.
LEMMA RunKeepsShape ==
    ASSUME Shape, Run
    PROVE  Shape'
<1> USE DEF learner, handler, agents, network, answer, table, channels, adapter, outside
<1>0. PICK i \in DOMAIN loops :
         TakeSymbol(i) \/ Panic(i) \/ SubmitPreparePacket(i) \/ TakePacket(i) \/ AddResponse(i)
           \/ TakeSent(i)
  BY DEF Run
<1>1. \A j \in DOMAIN loops : Sequence(loops[j].inbox)
  BY DEF Shape
<1>2. CASE TakeSymbol(i)
  <2>1. /\ loops[i].inbox # <<>>
        /\ UNCHANGED <<session, done, replies, asked, captured, preparePacket, outgoingSul,
                       incomingSul, sets>>
    BY <1>2, Zenon DEF TakeSymbol
  <2>2. loops' = [loops EXCEPT ![i] = Loop("requesting", Tail(loops[i].inbox), Head(loops[i].inbox))]
    BY <1>2, Zenon DEF TakeSymbol
  <2>3. Sequence(loops') /\ DOMAIN loops' = DOMAIN loops
    <3>1. Sequence(loops) /\ loops' = [j \in DOMAIN loops |-> loops'[j]]
      BY <2>2, Zenon DEF Shape
    <3> QED
      BY ONLY <3>1, FunctionFacts
  <2>4. Sequence(Tail(loops[i].inbox))
    BY <1>1, <2>1, TailFacts
  <2>5. ASSUME NEW j \in DOMAIN loops
        PROVE  DOMAIN loops'[j] = {"place", "inbox", "hand"} /\ Sequence(loops'[j].inbox)
    <3>1. CASE j = i
      BY <2>2, <2>4, <3>1, Zenon DEF Loop
    <3>2. CASE j # i
      BY <2>2, <3>2 DEF Shape
    <3> QED
      BY <3>1, <3>2
  <2> QED
    BY <2>1, <2>3, <2>5, Zenon DEF Shape, Current
<1>3. CASE Panic(i)
  <2>1. UNCHANGED shape
    BY <1>3, Zenon DEF Panic, Exit, shape
  <2> QED
    BY <2>1, ShapeUnchanged
<1>4. CASE SubmitPreparePacket(i)
  <2>1. /\ preparePacket' = IF connection.open THEN Append(preparePacket, loops[i].hand) ELSE preparePacket
        /\ Go(i, "select", None)
        /\ UNCHANGED <<session, done, replies, asked, captured, outgoingSul, incomingSul, sets>>
    BY <1>4 DEF SubmitPreparePacket
  <2>2. Sequence(preparePacket')
    BY <2>1, AppendFacts, Zenon DEF Shape
  <2> QED
    BY <1>1, <2>1, <2>2, GoFacts, Zenon DEF Shape, Current
<1>5. CASE TakePacket(i)
  <2>1. /\ incomingSul # <<>> /\ incomingSul' = Tail(incomingSul)
        /\ UNCHANGED <<session, done, replies, asked, captured, preparePacket, outgoingSul>>
    BY <1>5 DEF TakePacket
  <2>2. Sequence(incomingSul')
    BY <2>1, TailFacts, Zenon DEF Shape
  <2>3. CASE UNCHANGED <<sets, loops>>
    BY <2>1, <2>2, <2>3 DEF Shape, Current
  <2>4. CASE ~UNCHANGED <<sets, loops>>
    <3> DEFINE p == Head(incomingSul)
    <3>1. /\ sets' = [sets EXCEPT ![Current].concrete = sets[Current].concrete \cup {p}]
          /\ Go(i, "packet", p)
      BY <1>5, <2>4, Zenon DEF TakePacket
    <3> HIDE DEF p
    <3>2. /\ Sequence(sets') /\ Current' = Current /\ DOMAIN sets' = DOMAIN sets
          /\ \A k \in DOMAIN sets : DOMAIN sets'[k] = {"concrete", "abstract"}
      BY <3>1, AddFacts, Zenon
    <3> QED
      BY <1>1, <2>1, <2>2, <3>1, <3>2, GoFacts, Zenon DEF Shape
  <2> QED
    BY <2>3, <2>4
<1>6. CASE AddResponse(i)
  <2>1. /\ sets' = [sets EXCEPT ![Current].abstract = sets[Current].abstract \cup {Abstraction(loops[i].hand)}]
        /\ Go(i, "select", None)
        /\ UNCHANGED <<session, done, replies, asked, captured, preparePacket, outgoingSul,
                       incomingSul>>
    BY <1>6 DEF AddResponse
  <2>2. /\ Sequence(sets') /\ Current' = Current /\ DOMAIN sets' = DOMAIN sets
        /\ \A k \in DOMAIN sets : DOMAIN sets'[k] = {"concrete", "abstract"}
    BY <2>1, AddFacts, Zenon
  <2> QED
    BY <1>1, <2>1, <2>2, GoFacts, Zenon DEF Shape
<1>7. CASE TakeSent(i)
  <2>1. /\ outgoingSul # <<>> /\ outgoingSul' = Tail(outgoingSul)
        /\ UNCHANGED <<session, done, replies, asked, captured, preparePacket, incomingSul, loops,
                       sets>>
    BY <1>7 DEF TakeSent
  <2> QED
    BY <2>1, TailFacts, Zenon DEF Shape, Current
<1> QED
  BY <1>0, <1>2, <1>3, <1>4, <1>5, <1>6, <1>7

\* A step of the connection keeps the shape.
LEMMA ConnectionKeepsShape ==
    ASSUME Shape, Connection
    PROVE  Shape'
<1> USE DEF learner, handler, agents, network, answer, table, channels, adapter, outside
<1>1. CASE \E r \in requests : Serve(r)
  <2>1. UNCHANGED shape
    BY <1>1, Zenon DEF Serve, shape
  <2> QED
    BY <2>1, ShapeUnchanged
<1>2. CASE SendPacket
  <2>1. /\ preparePacket # <<>> /\ preparePacket' = Tail(preparePacket)
        /\ UNCHANGED <<session, done, asked, captured, incomingSul, loops, sets>>
    BY <1>2, Zenon DEF SendPacket
  <2>2. Sequence(preparePacket')
    BY <2>1, TailFacts, Zenon DEF Shape
  <2>3. session.replies \in Nat
    BY AdapterAssumption, Zenon DEF Shape
  <2>4. Sequence(outgoingSul') /\ replies' \in Nat
    <3>1. CASE UNCHANGED <<outgoingSul, replies>>
      BY <3>1 DEF Shape
    <3>2. CASE ~UNCHANGED <<outgoingSul, replies>>
      <4>1. PICK x : outgoingSul' = Append(outgoingSul, x)
        BY <1>2, <3>2, Zenon DEF SendPacket
      <4>2. PICK n \in 0 .. (session.replies - replies) : replies' = replies + n
        BY <1>2, <3>2, Zenon DEF SendPacket
      <4>3. Sequence(outgoingSul')
        BY <4>1, AppendFacts, Zenon DEF Shape
      <4>4. replies' \in Nat
        BY <2>3, <4>2 DEF Shape
      <4> QED
        BY <4>3, <4>4
    <3> QED
      BY <3>1, <3>2
  <2> QED
    BY <2>1, <2>2, <2>4, Zenon DEF Shape, Current
<1>3. CASE \E p \in wire : Deliver(p)
  <2>1. PICK p \in wire : Deliver(p)
    BY <1>3
  <2>2. /\ incomingSul' = Append(incomingSul, p)
        /\ UNCHANGED <<session, done, replies, asked, captured, preparePacket, outgoingSul, loops,
                       sets>>
    BY <2>1 DEF Deliver, IncomingSul
  <2> QED
    BY <2>2, AppendFacts, Zenon DEF Shape, Current
<1> QED
  BY <1>1, <1>2, <1>3 DEF Connection

\* Every step keeps the shape.
LEMMA ShapeKept ==
    ASSUME Shape, [Next]_vars
    PROVE  Shape'
<1>1. CASE UNCHANGED vars
  <2>1. UNCHANGED shape
    BY <1>1 DEF vars, learner, handler, adapter, answer, outside, agents, channels, network, shape
  <2> QED
    BY <2>1, ShapeUnchanged
<1> QED
  BY <1>1, HandlerKeepsShape, RunKeepsShape, ConnectionKeepsShape DEF Next

-----------------------------------------------------------------------------
(* What is told is recorded.                                               *)

\* While the handler waits for no answer, a patient adapter has nothing in motion.
Still == session.patient /\ pc \notin {"wait", "ended"} => Quiet

\* The entry of an answer in the table.
EntryOf(e, t) ==
    /\ e.key.inputs = t.inputs
    /\ DOMAIN e.key.outputs = DOMAIN t.outputs
    /\ session.patient => e.key = t

Recorded(t) == \E e \in oracleTable : EntryOf(e, t)

\* An answer is entered before it is told, and until it is told its text changes only in an
\* impatient adapter; without an interrupt the file is written when all is over.
RecordInv ==
    /\ Still
    /\ \A t \in told : Recorded(t)
    /\ pc = "reply" => Recorded(Pair(query, OutputStrings))
    /\ saved # None /\ ~session.interrupt => pc = "ended" /\ saved = {e.key : e \in oracleTable}

\* Where nothing is in motion, neither Run nor the connection takes a step.
LEMMA QuietStays ==
    ASSUME Quiet
    PROVE  ~Run /\ ~Connection
<1>1. ASSUME NEW i \in DOMAIN loops
      PROVE  ~(TakeSymbol(i) \/ Panic(i) \/ SubmitPreparePacket(i) \/ TakePacket(i)
                 \/ AddResponse(i) \/ TakeSent(i))
  <2>1. loops[i].place = "select" /\ loops[i].inbox = <<>> /\ outgoingSul = <<>> /\ incomingSul = <<>>
    BY DEF Quiet
  <2> QED
    BY <2>1 DEF TakeSymbol, Panic, SubmitPreparePacket, TakePacket, AddResponse, TakeSent, Selects
<1>2. ~Connection
  BY DEF Quiet, Connection, SendPacket
<1> QED
  BY <1>1, <1>2 DEF Run

\* A step of Run or of the connection leaves the handler where it is, or ends all.
LEMMA RunLeavesHandler ==
    ASSUME Run \/ Connection
    PROVE  /\ UNCHANGED <<learner, query, done, asked, captured, oracleTable>> /\ pc # "ended"
           /\ \/ pc' = pc /\ saved' = saved
              \/ /\ pc' = "ended" /\ UNCHANGED <<connection, answer, loops, outside>>
                 /\ saved' \in {saved, {e.key : e \in oracleTable}}
<1> USE DEF learner, handler, agents, network, answer, table, channels, adapter, outside
<1>1. ASSUME NEW i, Panic(i)
      PROVE  /\ UNCHANGED <<learner, query, done, asked, captured, oracleTable, connection, answer,
                            loops, outside>>
             /\ pc # "ended" /\ pc' = "ended" /\ saved' \in {saved, {e.key : e \in oracleTable}}
  BY <1>1, Zenon DEF Panic, Exit, SaveOracleTable, Selects
<1>2. ASSUME NEW i, TakeSymbol(i) \/ SubmitPreparePacket(i) \/ TakePacket(i) \/ AddResponse(i)
                      \/ TakeSent(i)
      PROVE  UNCHANGED <<learner, handler, table>> /\ pc # "ended"
  BY <1>2, Zenon DEF TakeSymbol, SubmitPreparePacket, TakePacket, AddResponse, TakeSent, Selects
<1>3. ASSUME Connection
      PROVE  UNCHANGED <<learner, handler, table>> /\ pc # "ended"
  BY <1>3, Zenon DEF Connection, Serve, SendPacket, Deliver
<1> QED
  BY <1>1, <1>2, <1>3, Zenon DEF Run

\* Nothing is set in motion but by Ask, and the sleep after it outlasts what it set in motion.
LEMMA StillKept ==
    ASSUME Shape, Still, [Next]_vars
    PROVE  Still'
<1> USE DEF learner, handler, agents, network, answer, table, channels, adapter, outside
<1> DEFINE motion == <<loops, requests, preparePacket, outgoingSul, incomingSul, wire>>
<1>0. ASSUME Quiet, UNCHANGED motion
      PROVE  Quiet'
  BY <1>0 DEF Quiet
<1>1. CASE Start
  <2>1. UNCHANGED <<session, pc, requests, preparePacket, outgoingSul, incomingSul, wire>> /\ pc = "idle"
    BY <1>1, Zenon DEF Start, Message
  <2>2. /\ DOMAIN loops' = DOMAIN loops \cup {Len(loops) + 1}
        /\ loops'[Len(loops) + 1] = Loop("select", <<>>, None)
        /\ \A i \in DOMAIN loops : loops'[i] = loops[i]
    BY <1>1, AppendFacts DEF Start, Shape
  <2>3. Quiet => Quiet'
    BY <2>1, <2>2 DEF Quiet, Loop
  <2> QED
    BY <2>1, <2>3 DEF Still
<1>2. CASE Close
  <2>1. /\ UNCHANGED <<session, loops, outgoingSul, incomingSul>> /\ pc = "idle"
        /\ requests' = {} /\ preparePacket' = <<>> /\ wire' = {}
    BY <1>2 DEF Close, Message
  <2> QED
    BY <2>1 DEF Still, Quiet
<1>3. CASE Reopen
  <2>1. /\ UNCHANGED <<session, loops, requests, preparePacket, wire>> /\ pc = "reset"
        /\ outgoingSul' = <<>> /\ incomingSul' = <<>>
    BY <1>3 DEF Reopen
  <2> QED
    BY <2>1 DEF Still, Quiet
<1>4. CASE Query \/ Fresh \/ AddIOs \/ Reply
  <2>1. UNCHANGED motion /\ UNCHANGED session /\ pc \notin {"wait", "ended"}
    BY <1>4, Zenon DEF Query, Message, Fresh, AddIOs, Reply
  <2> QED
    BY <1>0, <2>1 DEF Still
<1>5. CASE Ask
  <2>1. UNCHANGED session /\ pc = "ask"
    BY <1>5, Zenon DEF Ask
  <2>2. pc' = "wait" \/ UNCHANGED motion
    BY <1>5, Zenon DEF Ask
  <2> QED
    BY <1>0, <2>1, <2>2 DEF Still
<1>6. CASE Capture \/ AfterRetry
  <2>1. UNCHANGED motion /\ UNCHANGED session /\ pc # "ended" /\ (pc = "wait" => Slept)
    BY <1>6, Zenon DEF Capture, Waited, AfterRetry
  <2> QED
    BY <1>0, <2>1 DEF Still, Slept
<1>7. CASE Stop \/ Interrupted
  <2>1. pc' = "ended"
    BY <1>7, Zenon DEF Stop, Interrupted, Exit
  <2> QED
    BY <2>1 DEF Still
<1>8. CASE Interrupt \/ UNCHANGED vars
  <2>1. UNCHANGED motion /\ UNCHANGED <<session, pc>>
    BY <1>8, Zenon DEF Interrupt, vars
  <2> QED
    BY <1>0, <2>1 DEF Still
<1>9. CASE Run \/ Connection
  <2>1. session' = session /\ pc # "ended" /\ (pc' = pc \/ pc' = "ended")
    BY <1>9, RunLeavesHandler
  <2>2. ~Quiet
    BY <1>9, QuietStays
  <2> QED
    BY <2>1, <2>2 DEF Still
<1> QED
  BY <1>1, <1>2, <1>3, <1>4, <1>5, <1>6, <1>7, <1>8, <1>9 DEF Next, Handler

\* An entry is replaced only by one with the same key.
LEMMA RecordedKept ==
    ASSUME NEW t, Recorded(t), session' = session,
           \A e \in oracleTable : \E d \in oracleTable' : d.key = e.key
    PROVE  Recorded(t)'
BY DEF Recorded, EntryOf

\* The text of the answer is the same where the answers and the version are.
LEMMA OutputStringsKept ==
    ASSUME UNCHANGED <<asked, sets, connection>>
    PROVE  OutputStrings' = OutputStrings
<1>1. connection'.Version = connection.Version
  OBVIOUS
<1>2. \A k : SetString(k)' = SetString(k)
  BY <1>1 DEF SetString, SymbolString
<1> QED
  BY <1>2 DEF OutputStrings

\* A step that neither answers nor saves keeps what is recorded.
LEMMA RecordUnchanged ==
    ASSUME RecordInv, Still', UNCHANGED <<session, told, oracleTable, saved>>,
           pc' # "reply" \/ UNCHANGED <<pc, query, asked, sets, connection>>,
           saved # None /\ ~session.interrupt => pc' = "ended"
    PROVE  RecordInv'
<1>1. ASSUME NEW t, Recorded(t)
      PROVE  Recorded(t)'
    BY <1>1, RecordedKept
<1>2. \A t \in told' : Recorded(t)'
  BY <1>1 DEF RecordInv
<1>3. ASSUME pc' = "reply"
      PROVE  Recorded(Pair(query, OutputStrings))'
  <2>1. UNCHANGED <<pc, query, asked, sets, connection>>
    BY <1>3
  <2>2. PICK t : t = Pair(query, OutputStrings)
    OBVIOUS
  <2>3. Recorded(t)'
    BY <1>1, <1>3, <2>1, <2>2 DEF RecordInv
  <2>4. Pair(query, OutputStrings)' = t
    BY <2>1, <2>2, OutputStringsKept DEF Pair
  <2> QED
    BY <2>3, <2>4 DEF Recorded, EntryOf
<1>4. (saved # None /\ ~session.interrupt => pc = "ended" /\ saved = {e.key : e \in oracleTable})'
  BY DEF RecordInv
<1> QED
  BY <1>2, <1>3, <1>4 DEF RecordInv

\* Every step keeps the record: AddIOs enters an answer before Reply tells it, and no entry
\* is lost but for one with the same text.
LEMMA RecordKept ==
    ASSUME Shape, RecordInv, [Next]_vars
    PROVE  RecordInv'
<1> USE DEF learner, handler, agents, network, answer, table, channels, adapter, outside
<1>0. Still'
  BY StillKept DEF RecordInv
<1>1. CASE Start \/ Close \/ Reopen \/ Query \/ Fresh \/ Ask \/ Capture \/ AfterRetry
  <2>1. UNCHANGED <<session, told, oracleTable, saved>> /\ pc' # "reply" /\ pc # "ended"
    BY <1>1, Zenon DEF Start, Message, Close, Reopen, Query, Fresh, Ask, Capture, Waited, AfterRetry
  <2>2. ~(saved # None /\ ~session.interrupt)
    BY <2>1 DEF RecordInv
  <2> QED
    BY <1>0, <2>1, <2>2, RecordUnchanged
<1>2. CASE UNCHANGED vars
  <2>1. UNCHANGED <<session, told, oracleTable, saved, pc, query, asked, sets, connection>>
    BY <1>2 DEF vars
  <2> QED
    BY <1>0, <2>1, RecordUnchanged, Zenon DEF RecordInv
<1>3. CASE AddIOs
  <2> DEFINE t == Pair(query, OutputStrings)
             new == [key |-> t, value |-> Pair(captured, asked)]
  <2>1. /\ oracleTable' = {e \in oracleTable : e.key # t} \cup {new} /\ pc = "record" /\ pc' = "reply"
        /\ UNCHANGED <<session, told, query, asked, sets, connection, saved>>
    BY <1>3, Zenon DEF AddIOs, SameKey
  <2>2. new.key = t
    OBVIOUS
  <2>3. t.inputs = query /\ t.outputs = OutputStrings
    BY DEF Pair
  <2>4. t' = t
    BY <2>1, OutputStringsKept DEF Pair
  <2> HIDE DEF t, new
  <2>5. \A e \in oracleTable : \E d \in oracleTable' : d.key = e.key
    BY <2>1, <2>2
  <2>6. \A u \in told' : Recorded(u)'
    BY <2>1, <2>5, RecordedKept DEF RecordInv
  <2>7. Recorded(t)'
    BY <2>1, <2>2, <2>4 DEF Recorded, EntryOf
  <2>8. ~(saved # None /\ ~session.interrupt)
    BY <2>1 DEF RecordInv
  <2> QED
    BY <1>0, <2>1, <2>6, <2>7, <2>8 DEF RecordInv, t
<1>4. CASE Reply
  <2>1. /\ told' = told \cup {Pair(query, OutputStrings)} /\ pc = "reply" /\ pc' = "idle"
        /\ UNCHANGED <<session, oracleTable, saved>>
    BY <1>4 DEF Reply
  <2>2. \A t \in told' : Recorded(t)
    BY <2>1 DEF RecordInv
  <2>3. \A t \in told' : Recorded(t)'
    BY <2>1, <2>2, RecordedKept
  <2>4. ~(saved # None /\ ~session.interrupt)
    BY <2>1 DEF RecordInv
  <2> QED
    BY <1>0, <2>1, <2>3, <2>4 DEF RecordInv
<1>5. CASE Stop \/ Interrupt \/ Interrupted
  <2>1. /\ UNCHANGED <<session, told, oracleTable, query, asked, sets, connection>>
        /\ pc' = "ended" \/ (pc' = pc /\ session.interrupt)
        /\ pc # "ended"
        /\ saved' = saved \/ saved' = {e.key : e \in oracleTable}
    BY <1>5, Zenon DEF Stop, Message, Exit, SaveOracleTable, Interrupt, Interrupted
  <2>2. \A t : Recorded(t) => Recorded(t)'
    BY <2>1, RecordedKept
  <2>3. ~(saved # None /\ ~session.interrupt)
    BY <2>1 DEF RecordInv
  <2>4. (saved # None /\ ~session.interrupt => pc = "ended" /\ saved = {e.key : e \in oracleTable})'
    BY <2>1, <2>3
  <2>5. ASSUME pc' = "reply"
        PROVE  Recorded(Pair(query, OutputStrings))'
    <3>1. PICK t : t = Pair(query, OutputStrings)
      OBVIOUS
    <3>2. Recorded(t)'
      BY <2>1, <2>2, <2>5, <3>1 DEF RecordInv
    <3>3. Pair(query, OutputStrings)' = t
      BY <2>1, <3>1, OutputStringsKept DEF Pair
    <3> QED
      BY <3>2, <3>3 DEF Recorded, EntryOf
  <2> QED
    BY <1>0, <2>1, <2>2, <2>4, <2>5 DEF RecordInv
<1>6. CASE Run \/ Connection
  <2>1. /\ UNCHANGED <<session, told, query, asked, oracleTable>> /\ pc # "ended"
        /\ \/ pc' = pc /\ saved' = saved
           \/ pc' = "ended" /\ saved' \in {saved, {e.key : e \in oracleTable}}
    BY <1>6, RunLeavesHandler
  <2>2. \A t : Recorded(t) => Recorded(t)'
    BY <2>1, RecordedKept
  <2>3. ~(saved # None /\ ~session.interrupt)
    BY <2>1 DEF RecordInv
  <2>4. (saved # None /\ ~session.interrupt => pc = "ended" /\ saved = {e.key : e \in oracleTable})'
    BY <2>1, <2>3
  <2>5. ASSUME pc' = "reply"
        PROVE  Recorded(Pair(query, OutputStrings))'
    <3>1. pc = "reply" /\ ~session.patient
      BY <1>6, <2>1, <2>5, QuietStays DEF RecordInv, Still
    <3>2. PICK e \in oracleTable : EntryOf(e, Pair(query, OutputStrings))
      BY <3>1 DEF RecordInv, Recorded
    <3>3. e.key.inputs = query /\ DOMAIN e.key.outputs = DOMAIN asked
      BY <3>2 DEF EntryOf, Pair, OutputStrings
    <3>4. /\ Pair(query, OutputStrings)'.inputs = query
          /\ DOMAIN Pair(query, OutputStrings)'.outputs = DOMAIN asked
      BY <2>1 DEF Pair, OutputStrings
    <3> QED
      BY <2>1, <3>1, <3>3, <3>4 DEF Recorded, EntryOf
  <2> QED
    BY <1>0, <2>1, <2>2, <2>4, <2>5 DEF RecordInv
<1> QED
  BY <1>1, <1>2, <1>3, <1>4, <1>5, <1>6 DEF Next, Handler

\* The shape at first.
LEMMA ShapeInitially ==
    Init => Shape
<1> SUFFICES ASSUME Init PROVE Shape
  OBVIOUS
<1>1. /\ session \in Sessions /\ done = 0 /\ replies = 0 /\ asked = <<>> /\ captured = <<>>
      /\ preparePacket = <<>> /\ outgoingSul = <<>> /\ incomingSul = <<>>
      /\ loops = <<Loop("select", <<>>, None)>> /\ sets = <<[concrete |-> {}, abstract |-> {}]>>
  BY DEF Init
<1>2. Sequence(loops) /\ Sequence(sets) /\ Len(sets) = 1 /\ DOMAIN loops = {1} /\ DOMAIN sets = {1}
  BY <1>1, SingletonFacts
<1>3. loops[1] = Loop("select", <<>>, None) /\ sets[1] = [concrete |-> {}, abstract |-> {}]
  BY <1>1
<1> QED
  BY <1>1, <1>2, <1>3, EmptyFacts DEF Shape, Current, Loop

\* At first nothing is told.
LEMMA RecordInitially ==
    Init => RecordInv
BY DEF Init, RecordInv, Still, Quiet, Loop

\* For every session, however the goroutines interleave: processQuery has the answer in the
\* oracle table before the learner is told it, so the file that STOP or a panic leaves behind
\* has it; and if waitTime outlasts the round trips, under the text that the learner gets.
THEOREM AnswersAreRecorded ==
    Spec => []ToldIsRecorded
<1>1. Init => Shape /\ RecordInv
  BY ShapeInitially, RecordInitially
<1>2. Shape /\ RecordInv /\ [Next]_vars => (Shape /\ RecordInv)'
  BY ShapeKept, RecordKept
<1>3. RecordInv => ToldIsRecorded
  <2> SUFFICES ASSUME RecordInv, NEW t \in told
               PROVE  \E e \in oracleTable :
                         /\ e.key.inputs = t.inputs
                         /\ DOMAIN e.key.outputs = DOMAIN t.outputs
                         /\ session.patient => e.key = t
                         /\ saved # None /\ ~session.interrupt => e.key \in saved
    BY DEF ToldIsRecorded
  <2>1. PICK e \in oracleTable : EntryOf(e, t)
    BY DEF RecordInv, Recorded
  <2>2. saved # None /\ ~session.interrupt => e.key \in saved
    BY DEF RecordInv
  <2> QED
    BY <2>1, <2>2 DEF EntryOf
<1> QED
  BY <1>1, <1>2, <1>3, PTL DEF Spec

-----------------------------------------------------------------------------
(* A packet is reported once.                                              *)

\* The packets of the system under learning have numbers of their own, wherever they are: on
\* the wire, in the channel to Run, or in a concrete set.
IdsInv ==
    /\ \A p \in wire : p.id \in 1 .. replies
    /\ \A p, q \in wire : p.id = q.id => p = q
    /\ \A i \in DOMAIN incomingSul : incomingSul[i].id \in 1 .. replies
    /\ \A i, j \in DOMAIN incomingSul : incomingSul[i].id = incomingSul[j].id => i = j
    /\ \A i \in DOMAIN incomingSul : \A p \in wire : incomingSul[i].id # p.id
    /\ \A k \in DOMAIN sets : \A p \in sets[k].concrete :
          /\ p.id \in 1 .. replies
          /\ \A q \in wire : p.id # q.id
          /\ \A i \in DOMAIN incomingSul : p.id # incomingSul[i].id
    /\ \A j, k \in DOMAIN sets : \A p \in sets[j].concrete : \A q \in sets[k].concrete :
          p.id = q.id => j = k /\ p = q

\* A packet that a goroutine of Run has in hand is recorded and not yet abstracted, and no
\* other goroutine has it; what is abstracted was recorded before, and is abstracted once.
HandsInv ==
    /\ \A i \in DOMAIN loops : loops[i].place = "packet" =>
          /\ \E k \in DOMAIN sets : loops[i].hand \in sets[k].concrete
          /\ \A k \in DOMAIN sets : \A e \in sets[k].abstract : e.of # loops[i].hand.id
          /\ \A j \in DOMAIN loops :
                j # i /\ loops[j].place = "packet" => loops[j].hand.id # loops[i].hand.id
    /\ \A k \in DOMAIN sets : \A e \in sets[k].abstract :
          /\ \E i \in 1 .. k : \E p \in sets[i].concrete : p.id = e.of
          /\ \A j \in DOMAIN sets : \A d \in sets[j].abstract : d.of = e.of => j = k

\* The old sets are as they were, and new ones empty.
SetsKept ==
    /\ DOMAIN sets \subseteq DOMAIN sets'
    /\ \A k \in DOMAIN sets : sets'[k] = sets[k]
    /\ \A k \in DOMAIN sets' \ DOMAIN sets : sets'[k] = [concrete |-> {}, abstract |-> {}]

\* A step that leaves the sets alone, or makes new ones, keeps the old ones.
LEMMA SetsKeptFacts ==
    ASSUME Shape, sets' = sets \/ NewSets
    PROVE  SetsKept
BY NewSetsFacts DEF SetsKept

\* No goroutine of Run takes a packet or is done with one.
HandsKept ==
    \A i \in DOMAIN loops' : loops'[i].place = "packet" =>
        i \in DOMAIN loops /\ loops[i].place = "packet" /\ loops'[i].hand = loops[i].hand

\* Packets may be forgotten.
LEMMA IdsKept ==
    ASSUME IdsInv, SetsKept, replies' = replies, wire' \subseteq wire,
           incomingSul' \in {incomingSul, <<>>}
    PROVE  IdsInv'
<1>1. \A k \in DOMAIN sets' : \A p \in sets'[k].concrete : k \in DOMAIN sets /\ p \in sets[k].concrete
  BY DEF SetsKept
<1>2. \A i \in DOMAIN incomingSul' : i \in DOMAIN incomingSul /\ incomingSul'[i] = incomingSul[i]
  BY EmptyFacts
<1>3. /\ \A p \in wire' : p.id \in 1 .. replies'
      /\ \A p, q \in wire' : p.id = q.id => p = q
      /\ \A i \in DOMAIN incomingSul' : incomingSul'[i].id \in 1 .. replies'
      /\ \A i, j \in DOMAIN incomingSul' : incomingSul'[i].id = incomingSul'[j].id => i = j
      /\ \A i \in DOMAIN incomingSul' : \A p \in wire' : incomingSul'[i].id # p.id
  BY <1>2 DEF IdsInv
<1>4. \A k \in DOMAIN sets' : \A p \in sets'[k].concrete :
         /\ p.id \in 1 .. replies'
         /\ \A q \in wire' : p.id # q.id
         /\ \A i \in DOMAIN incomingSul' : p.id # incomingSul'[i].id
  BY <1>1, <1>2 DEF IdsInv
<1>5. \A j, k \in DOMAIN sets' : \A p \in sets'[j].concrete : \A q \in sets'[k].concrete :
         p.id = q.id => j = k /\ p = q
  BY <1>1 DEF IdsInv
<1> QED
  BY <1>3, <1>4, <1>5, Zenon DEF IdsInv

\* A step that changes neither the sets nor what Run has in hand.
LEMMA HandsStay ==
    ASSUME Shape, HandsInv, SetsKept, HandsKept
    PROVE  HandsInv'
<1>1. \A k \in DOMAIN sets' : \A e \in sets'[k].abstract : k \in DOMAIN sets /\ e \in sets[k].abstract
  BY DEF SetsKept
<1>2. \A k \in DOMAIN sets : k \in DOMAIN sets' /\ sets'[k] = sets[k]
  BY DEF SetsKept
<1>3. ASSUME NEW i \in DOMAIN loops', loops'[i].place = "packet"
      PROVE  /\ \E k \in DOMAIN sets' : loops'[i].hand \in sets'[k].concrete
             /\ \A k \in DOMAIN sets' : \A e \in sets'[k].abstract : e.of # loops'[i].hand.id
             /\ \A j \in DOMAIN loops' :
                   j # i /\ loops'[j].place = "packet" => loops'[j].hand.id # loops'[i].hand.id
  <2>1. i \in DOMAIN loops /\ loops[i].place = "packet" /\ loops'[i].hand = loops[i].hand
    BY <1>3 DEF HandsKept
  <2>2. \E k \in DOMAIN sets' : loops'[i].hand \in sets'[k].concrete
    BY <1>2, <2>1, Zenon DEF HandsInv
  <2>3. \A k \in DOMAIN sets' : \A e \in sets'[k].abstract : e.of # loops'[i].hand.id
    BY <1>1, <2>1 DEF HandsInv
  <2>4. \A j \in DOMAIN loops' :
           j # i /\ loops'[j].place = "packet" => loops'[j].hand.id # loops'[i].hand.id
    BY <2>1 DEF HandsInv, HandsKept
  <2> QED
    BY <2>2, <2>3, <2>4
<1>4. ASSUME NEW k \in DOMAIN sets', NEW e \in sets'[k].abstract
      PROVE  /\ \E i \in 1 .. k : \E p \in sets'[i].concrete : p.id = e.of
             /\ \A j \in DOMAIN sets' : \A d \in sets'[j].abstract : d.of = e.of => j = k
  <2>1. k \in DOMAIN sets /\ e \in sets[k].abstract
    BY <1>1
  <2>2. PICK i \in 1 .. k : \E p \in sets[i].concrete : p.id = e.of
    BY <2>1, Zenon DEF HandsInv
  <2>3. i \in DOMAIN sets
    BY <2>1, CurrentFacts
  <2>4. \A j \in DOMAIN sets' : \A d \in sets'[j].abstract : d.of = e.of => j = k
    BY <1>1, <2>1, Zenon DEF HandsInv
  <2> QED
    BY <1>2, <2>2, <2>3, <2>4
<1> QED
  BY <1>3, <1>4, Zenon DEF HandsInv

ReportInv == IdsInv /\ HandsInv

\* The learner's messages and the handler: new sets, goroutines and symbols, no packets.
LEMMA HandlerKeepsReports ==
    ASSUME Shape, ReportInv, \/ Start \/ Close \/ Query \/ Stop \/ Interrupt \/ Interrupted \/ Handler
                             \/ UNCHANGED vars
    PROVE  ReportInv'
<1> USE DEF learner, handler, agents, network, answer, table, channels, adapter, outside
<1>1. replies' = replies /\ wire' \subseteq wire /\ incomingSul' \in {incomingSul, <<>>}
      /\ (sets' = sets \/ NewSets)
  BY Zenon DEF Start, Message, Close, Query, Stop, Exit, Interrupt, Interrupted, Handler, Reopen, Fresh,
         Ask, Capture, AfterRetry, AddIOs, Reply, vars
<1>2. HandsKept
  <2>1. CASE loops' = loops
    BY <2>1 DEF HandsKept
  <2>2. CASE Start
    <3>1. /\ DOMAIN loops' = DOMAIN loops \cup {Len(loops) + 1}
          /\ loops'[Len(loops) + 1] = Loop("select", <<>>, None)
          /\ \A i \in DOMAIN loops : loops'[i] = loops[i]
      BY <2>2, AppendFacts, SMTT(30) DEF Start, Shape
    <3> QED
      BY <3>1, SMTT(30) DEF HandsKept, Loop
  <2>3. CASE Ask /\ loops' # loops
    <3>1. PICK s : loops' = [i \in DOMAIN loops |-> [loops[i] EXCEPT !.inbox = Append(@, s)]]
      BY <2>3, Zenon DEF Ask
    <3>2. \A i \in DOMAIN loops : DOMAIN loops[i] = {"place", "inbox", "hand"}
      BY DEF Shape
    <3>3. ASSUME NEW i \in DOMAIN loops
          PROVE  loops'[i].place = loops[i].place /\ loops'[i].hand = loops[i].hand
      BY <3>1, <3>2
    <3> QED
      BY <3>1, <3>3, Zenon DEF HandsKept
  <2>4. CASE ~Start /\ ~Ask
    <3>1. loops' = loops
      BY <2>4, Zenon DEF Close, Query, Stop, Interrupt, Interrupted, Handler, Reopen, Fresh, Capture,
                  AfterRetry, AddIOs, Reply, vars
    <3> QED
      BY <2>1, <3>1
  <2> QED
    BY <2>1, <2>2, <2>3, <2>4
<1> QED
  BY <1>1, <1>2, SetsKeptFacts, IdsKept, HandsStay DEF ReportInv

\* Run takes a packet: from the channel into the current concrete set, and into its hand.
LEMMA TakePacketKeepsReports ==
    ASSUME Shape, ReportInv, NEW i \in DOMAIN loops, TakePacket(i)
    PROVE  ReportInv'
<1> USE DEF learner, handler, agents, network, answer, table, channels, adapter, outside
<1> DEFINE p == Head(incomingSul)
<1>1. /\ incomingSul # <<>> /\ incomingSul' = Tail(incomingSul)
      /\ UNCHANGED <<wire, replies>>
      /\ \/ UNCHANGED <<sets, loops>>
         \/ /\ sets' = [sets EXCEPT ![Current].concrete = sets[Current].concrete \cup {p}]
            /\ Go(i, "packet", p)
  BY Zenon DEF TakePacket
<1>2. /\ 1 \in DOMAIN incomingSul /\ p = incomingSul[1]
      /\ \A j \in DOMAIN incomingSul' :
            j + 1 \in DOMAIN incomingSul /\ j + 1 # 1 /\ incomingSul'[j] = incomingSul[j + 1]
      /\ DOMAIN incomingSul' \subseteq Int
  <2>1. Sequence(incomingSul) /\ Sequence(incomingSul')
    BY <1>1, TailFacts DEF Shape
  <2>2. DOMAIN incomingSul' \subseteq Int
    BY <2>1, SequenceDomain
  <2> QED
    BY <1>1, <2>1, <2>2, TailFacts
<1> HIDE DEF p
<1>3. /\ \A q \in wire' : q.id \in 1 .. replies'
      /\ \A q, r \in wire' : q.id = r.id => q = r
      /\ \A j \in DOMAIN incomingSul' : incomingSul'[j].id \in 1 .. replies'
      /\ \A j \in DOMAIN incomingSul' : \A q \in wire' : incomingSul'[j].id # q.id
      /\ \A j \in DOMAIN incomingSul' : incomingSul'[j].id # p.id
  BY <1>1, <1>2 DEF ReportInv, IdsInv
<1>4. \A j, k \in DOMAIN incomingSul' : incomingSul'[j].id = incomingSul'[k].id => j = k
  <2> SUFFICES ASSUME NEW j \in DOMAIN incomingSul', NEW k \in DOMAIN incomingSul',
                      incomingSul'[j].id = incomingSul'[k].id
               PROVE  j = k
    OBVIOUS
  <2>1. j + 1 = k + 1
    BY <1>2 DEF ReportInv, IdsInv
  <2> QED
    BY <1>2, <2>1
<1>5. CASE UNCHANGED <<sets, loops>>
  <2>1. \A k \in DOMAIN sets' : \A q \in sets'[k].concrete :
           /\ q.id \in 1 .. replies'
           /\ \A r \in wire' : q.id # r.id
           /\ \A j \in DOMAIN incomingSul' : q.id # incomingSul'[j].id
    BY <1>1, <1>2, <1>5 DEF ReportInv, IdsInv
  <2>2. \A j, k \in DOMAIN sets' : \A q \in sets'[j].concrete : \A r \in sets'[k].concrete :
           q.id = r.id => j = k /\ q = r
    BY <1>5 DEF ReportInv, IdsInv
  <2>3. HandsInv'
    BY <1>5, HandsStay DEF ReportInv, SetsKept, HandsKept
  <2> QED
    BY <1>3, <1>4, <2>1, <2>2, <2>3, Zenon DEF ReportInv, IdsInv
<1>6. CASE ~UNCHANGED <<sets, loops>>
  <2>1. /\ sets' = [sets EXCEPT ![Current].concrete = sets[Current].concrete \cup {p}]
        /\ Go(i, "packet", p) /\ Selects(i)
    BY <1>1, <1>6, Zenon DEF TakePacket
  <2>2. /\ DOMAIN sets' = DOMAIN sets
        /\ \A k \in DOMAIN sets : k # Current => sets'[k] = sets[k]
        /\ sets'[Current].concrete = sets[Current].concrete \cup {p}
        /\ sets'[Current].abstract = sets[Current].abstract
    BY <2>1, AddFacts, Zenon
  <2>3. /\ DOMAIN loops' = DOMAIN loops
        /\ \A j \in DOMAIN loops : j # i => loops'[j] = loops[j]
        /\ loops'[i].place = "packet" /\ loops'[i].hand = p
    BY <2>1, GoFacts
  <2>4. Current \in DOMAIN sets /\ DOMAIN sets = 1 .. Current /\ Current \in Nat
    BY CurrentFacts
  <2>5. \A k \in DOMAIN sets : \A q \in sets'[k].concrete :
           q \in sets[k].concrete \/ (k = Current /\ q = p)
    BY <2>2
  <2>6. \A k \in DOMAIN sets : sets'[k].abstract = sets[k].abstract /\ sets[k].concrete \subseteq sets'[k].concrete
    BY <2>2
  <2>7. /\ p.id \in 1 .. replies /\ \A q \in wire : p.id # q.id
        /\ \A k \in DOMAIN sets : \A q \in sets[k].concrete : q.id # p.id
    BY <1>2 DEF ReportInv, IdsInv
  <2>8. \A k \in DOMAIN sets' : \A q \in sets'[k].concrete :
           /\ q.id \in 1 .. replies'
           /\ \A r \in wire' : q.id # r.id
           /\ \A j \in DOMAIN incomingSul' : q.id # incomingSul'[j].id
    BY <1>1, <1>2, <1>3, <2>2, <2>5, <2>7 DEF ReportInv, IdsInv
  <2>9. \A j, k \in DOMAIN sets' : \A q \in sets'[j].concrete : \A r \in sets'[k].concrete :
           q.id = r.id => j = k /\ q = r
    BY <2>2, <2>5, <2>7 DEF ReportInv, IdsInv
  <2>10. ASSUME NEW k \in DOMAIN sets', NEW e \in sets'[k].abstract
         PROVE  /\ \E j \in 1 .. k : \E q \in sets'[j].concrete : q.id = e.of
                /\ \A j \in DOMAIN sets' : \A d \in sets'[j].abstract : d.of = e.of => j = k
                /\ e.of # p.id
    <3>1. PICK j \in 1 .. k : \E q \in sets[j].concrete : q.id = e.of
      BY <2>2, <2>6 DEF ReportInv, HandsInv
    <3>2. j \in DOMAIN sets
      BY <2>2, <2>4
    <3>3. \E q \in sets'[j].concrete : q.id = e.of
      BY <2>6, <3>1, <3>2
    <3>4. e.of # p.id
      BY <2>7, <3>1, <3>2
    <3>5. \A m \in DOMAIN sets' : \A d \in sets'[m].abstract : d.of = e.of => m = k
      BY <2>2, <2>6 DEF ReportInv, HandsInv
    <3> QED
      BY <3>3, <3>4, <3>5
  <2>11. ASSUME NEW l \in DOMAIN loops', loops'[l].place = "packet"
         PROVE  /\ \E k \in DOMAIN sets' : loops'[l].hand \in sets'[k].concrete
                /\ \A k \in DOMAIN sets' : \A e \in sets'[k].abstract : e.of # loops'[l].hand.id
                /\ \A j \in DOMAIN loops' :
                      j # l /\ loops'[j].place = "packet" => loops'[j].hand.id # loops'[l].hand.id
    <3>1. \A j \in DOMAIN loops' : j # i /\ loops'[j].place = "packet" =>
             /\ \E k \in DOMAIN sets : loops'[j].hand \in sets[k].concrete
             /\ loops'[j].hand.id # p.id
      BY <2>3, <2>7 DEF ReportInv, HandsInv
    <3>2. CASE l = i
      <4>1. p \in sets'[Current].concrete
        BY <2>2
      <4> QED
        BY <2>2, <2>3, <2>4, <2>10, <3>1, <3>2, <4>1, Zenon
    <3>3. CASE l # i
      <4>1. \E k \in DOMAIN sets' : loops'[l].hand \in sets'[k].concrete
        BY <2>2, <2>6, <2>11, <3>1, <3>3, SMTT(30)
      <4>2. \A k \in DOMAIN sets' : \A e \in sets'[k].abstract : e.of # loops'[l].hand.id
        BY <2>2, <2>3, <2>6, <2>11, <3>3 DEF ReportInv, HandsInv
      <4>3. ASSUME NEW j \in DOMAIN loops', j # l, loops'[j].place = "packet"
            PROVE  loops'[j].hand.id # loops'[l].hand.id
        <5>1. CASE j = i
          BY <2>3, <2>11, <3>1, <3>3, <5>1
        <5>2. CASE j # i
          BY <2>3, <2>11, <3>3, <4>3, <5>2 DEF ReportInv, HandsInv
        <5> QED
          BY <5>1, <5>2
      <4> QED
        BY <4>1, <4>2, <4>3
    <3> QED
      BY <3>2, <3>3, SMTT(30)
  <2>12. IdsInv'
    BY <1>3, <1>4, <2>8, <2>9, Zenon DEF IdsInv
  <2>13. HandsInv'
    BY <2>10, <2>11 DEF HandsInv
  <2> QED
    BY <2>12, <2>13 DEF ReportInv
<1> QED
  BY <1>5, <1>6

\* Run is done with a packet: its abstraction goes into the set that is current by then.
LEMMA AddResponseKeepsReports ==
    ASSUME Shape, ReportInv, NEW i \in DOMAIN loops, AddResponse(i)
    PROVE  ReportInv'
<1> USE DEF learner, handler, agents, network, answer, table, channels, adapter, outside
<1> DEFINE p == loops[i].hand
           a == Abstraction(p)
<1>1. /\ loops[i].place = "packet" /\ Go(i, "select", None)
      /\ sets' = [sets EXCEPT ![Current].abstract = sets[Current].abstract \cup {a}]
      /\ UNCHANGED <<wire, replies, incomingSul>>
  BY DEF AddResponse
<1>2. a.of = p.id
  BY DEF Abstraction
<1> HIDE DEF p, a
<1>3. /\ DOMAIN sets' = DOMAIN sets
      /\ \A k \in DOMAIN sets : k # Current => sets'[k] = sets[k]
      /\ sets'[Current].abstract = sets[Current].abstract \cup {a}
      /\ sets'[Current].concrete = sets[Current].concrete
  BY <1>1, AddFacts, Zenon
<1>4. /\ DOMAIN loops' = DOMAIN loops
      /\ \A j \in DOMAIN loops : j # i => loops'[j] = loops[j]
      /\ loops'[i].place = "select"
  BY <1>1, GoFacts
<1>5. Current \in DOMAIN sets /\ DOMAIN sets = 1 .. Current
  BY CurrentFacts
<1>6. /\ \A k \in DOMAIN sets : sets'[k].concrete = sets[k].concrete
      /\ \A k \in DOMAIN sets : \A e \in sets'[k].abstract :
            e \in sets[k].abstract \/ (k = Current /\ e = a)
  BY <1>3
<1>7. /\ \E k \in DOMAIN sets : p \in sets[k].concrete
      /\ \A k \in DOMAIN sets : \A e \in sets[k].abstract : e.of # p.id
      /\ \A j \in DOMAIN loops : j # i /\ loops[j].place = "packet" => loops[j].hand.id # p.id
  BY <1>1, Zenon DEF ReportInv, HandsInv, p
<1>8. IdsInv'
  <2>1. \A k \in DOMAIN sets' : \A q \in sets'[k].concrete :
           /\ q.id \in 1 .. replies'
           /\ \A r \in wire' : q.id # r.id
           /\ \A j \in DOMAIN incomingSul' : q.id # incomingSul'[j].id
    BY <1>1, <1>3, <1>6, SMTT(30) DEF ReportInv, IdsInv
  <2>2. \A j, k \in DOMAIN sets' : \A q \in sets'[j].concrete : \A r \in sets'[k].concrete :
           q.id = r.id => j = k /\ q = r
    <3>1. \A j, k \in DOMAIN sets : \A q \in sets[j].concrete : \A r \in sets[k].concrete :
             q.id = r.id => j = k /\ q = r
      BY Zenon DEF ReportInv, IdsInv
    <3>2. DOMAIN sets' = DOMAIN sets /\ \A k \in DOMAIN sets : sets'[k].concrete = sets[k].concrete
      BY <1>3, <1>6, Zenon
    <3> QED
      BY ONLY <3>1, <3>2, SMTT(30)
  <2> QED
    BY <1>1, <2>1, <2>2 DEF ReportInv, IdsInv
<1>9. ASSUME NEW l \in DOMAIN loops', loops'[l].place = "packet"
      PROVE  /\ \E k \in DOMAIN sets' : loops'[l].hand \in sets'[k].concrete
             /\ \A k \in DOMAIN sets' : \A e \in sets'[k].abstract : e.of # loops'[l].hand.id
             /\ \A j \in DOMAIN loops' :
                   j # l /\ loops'[j].place = "packet" => loops'[j].hand.id # loops'[l].hand.id
  <2>1. l # i /\ l \in DOMAIN loops /\ loops'[l] = loops[l]
    BY <1>4, <1>9
  <2>2. \E k \in DOMAIN sets' : loops'[l].hand \in sets'[k].concrete
    BY <1>3, <1>6, <1>9, <2>1, Zenon DEF ReportInv, HandsInv
  <2>3. loops[l].hand.id # p.id
    BY <1>7, <1>9, <2>1
  <2>4. \A k \in DOMAIN sets' : \A e \in sets'[k].abstract : e.of # loops'[l].hand.id
    BY <1>2, <1>3, <1>6, <1>9, <2>1, <2>3, SMTT(30) DEF ReportInv, HandsInv
  <2>5. \A j \in DOMAIN loops' :
           j # l /\ loops'[j].place = "packet" => loops'[j].hand.id # loops'[l].hand.id
    BY <1>4, <1>9, <2>1 DEF ReportInv, HandsInv
  <2> QED
    BY <2>2, <2>4, <2>5
<1>10. ASSUME NEW k \in DOMAIN sets', NEW e \in sets'[k].abstract
       PROVE  /\ \E j \in 1 .. k : \E q \in sets'[j].concrete : q.id = e.of
              /\ \A j \in DOMAIN sets' : \A d \in sets'[j].abstract : d.of = e.of => j = k
  <2>1. CASE e \in sets[k].abstract
    <3>1. PICK j \in 1 .. k : \E q \in sets[j].concrete : q.id = e.of
      BY <1>3, <2>1 DEF ReportInv, HandsInv
    <3>2. j \in DOMAIN sets
      BY <1>3, <1>5, CurrentFacts
    <3>3. e.of # a.of
      BY <1>2, <1>3, <1>7, <2>1
    <3>4. \A m \in DOMAIN sets' : \A d \in sets'[m].abstract : d.of = e.of => m = k
      BY <1>3, <1>6, <2>1, <3>3 DEF ReportInv, HandsInv
    <3> QED
      BY <1>6, <3>1, <3>2, <3>4
  <2>2. CASE k = Current /\ e = a
    <3>1. \E j \in 1 .. k : \E q \in sets'[j].concrete : q.id = e.of
      BY <1>2, <1>5, <1>6, <1>7, <2>2
    <3>2. \A m \in DOMAIN sets' : \A d \in sets'[m].abstract : d.of = e.of => m = k
      BY <1>2, <1>3, <1>6, <1>7, <2>2
    <3> QED
      BY <3>1, <3>2, SMTT(30)
  <2> QED
    BY <1>3, <1>6, <2>1, <2>2, Zenon
<1>11. HandsInv'
  BY <1>9, <1>10, Zenon DEF HandsInv
<1> QED
  BY <1>8, <1>11 DEF ReportInv

\* The other steps of Run take no packet.
LEMMA RunKeepsReports ==
    ASSUME Shape, ReportInv, Run
    PROVE  ReportInv'
<1> USE DEF learner, handler, agents, network, answer, table, channels, adapter, outside
<1>0. PICK i \in DOMAIN loops :
         TakeSymbol(i) \/ Panic(i) \/ SubmitPreparePacket(i) \/ TakePacket(i) \/ AddResponse(i)
           \/ TakeSent(i)
  BY DEF Run
<1>1. CASE TakeSymbol(i) \/ Panic(i) \/ SubmitPreparePacket(i) \/ TakeSent(i)
  <2>1. UNCHANGED <<sets, wire, replies, incomingSul>>
    BY <1>1, Zenon DEF TakeSymbol, Panic, SubmitPreparePacket, TakeSent
  <2>2. HandsKept
    <3>1. CASE loops' = loops
      BY <3>1 DEF HandsKept
    <3>2. CASE TakeSymbol(i)
      <4>1. loops' = [loops EXCEPT ![i] = Loop("requesting", Tail(loops[i].inbox), Head(loops[i].inbox))]
        BY <3>2, Zenon DEF TakeSymbol
      <4> QED
        BY <4>1 DEF HandsKept, Loop
    <3>3. CASE SubmitPreparePacket(i)
      <4>1. Go(i, "select", None)
        BY <3>3 DEF SubmitPreparePacket
      <4>2. /\ DOMAIN loops' = DOMAIN loops /\ loops'[i].place = "select"
            /\ \A j \in DOMAIN loops : j # i => loops'[j] = loops[j]
        BY <4>1, GoFacts
      <4> QED
        BY <4>2 DEF HandsKept
    <3>4. CASE Panic(i) \/ TakeSent(i)
      BY <3>1, <3>4, Zenon DEF Panic, TakeSent
    <3> QED
      BY <1>1, <3>2, <3>3, <3>4
  <2> QED
    BY <2>1, <2>2, SetsKeptFacts, IdsKept, HandsStay DEF ReportInv
<1> QED
  BY <1>0, <1>1, TakePacketKeepsReports, AddResponseKeepsReports

\* The system under learning numbers its packets, and a packet that arrives leaves the wire.
LEMMA ConnectionKeepsReports ==
    ASSUME Shape, ReportInv, Connection
    PROVE  ReportInv'
<1> USE DEF learner, handler, agents, network, answer, table, channels, adapter, outside
<1>1. UNCHANGED <<sets, loops>>
  BY Zenon DEF Connection, Serve, SendPacket, Deliver
<1>2. HandsInv'
  BY <1>1, HandsStay DEF ReportInv, SetsKept, HandsKept
<1>3. CASE UNCHANGED <<wire, replies, incomingSul>>
  BY <1>1, <1>2, <1>3, IdsKept DEF ReportInv, SetsKept
<1>4. CASE SendPacket /\ ~UNCHANGED <<wire, replies, incomingSul>>
  <2> DEFINE type == Head(preparePacket).symbol.type
  <2>1. PICK n \in 0 .. (session.replies - replies) : \E contents \in [1 .. n -> session.answers] :
           /\ replies' = replies + n
           /\ wire' = wire \cup {ReplyPacket(replies + k, type, contents[k], Head(preparePacket).for)
                                  : k \in 1 .. n}
    BY <1>4, Zenon DEF SendPacket
  <2>2. PICK contents \in [1 .. n -> session.answers] :
           /\ replies' = replies + n
           /\ wire' = wire \cup {ReplyPacket(replies + k, type, contents[k], Head(preparePacket).for)
                                  : k \in 1 .. n}
    BY <2>1, Zenon
  <2> DEFINE R(k) == ReplyPacket(replies + k, type, contents[k], Head(preparePacket).for)
  <2>3. replies \in Nat /\ session.replies \in Nat /\ n \in Nat /\ replies' \in Nat
    BY <2>2, AdapterAssumption DEF Shape
  <2>4. \A k \in 1 .. n : R(k).id = replies + k
    BY DEF ReplyPacket
  <2>5. \A q \in wire' : q \in wire \/ \E k \in 1 .. n : q = R(k)
    BY <2>2, Zenon
  <2> HIDE DEF R
  <2>6. incomingSul' = incomingSul
    BY <1>4, Zenon DEF SendPacket
  <2>7. \A x \in 1 .. replies : x \in 1 .. replies' /\ \A k \in 1 .. n : x # replies + k
    BY <2>2, <2>3
  <2>8. \A k \in 1 .. n : replies + k \in 1 .. replies'
    BY <2>2, <2>3
  <2>9. \A j, k \in 1 .. n : replies + j = replies + k => j = k
    BY <2>3
  <2>10. \A q \in wire' : q.id \in 1 .. replies'
    BY <2>4, <2>5, <2>7, <2>8 DEF ReportInv, IdsInv
  <2>11. ASSUME NEW q \in wire', NEW r \in wire', q.id = r.id
         PROVE  q = r
    <3>1. CASE q \in wire /\ r \in wire
      BY <2>11, <3>1 DEF ReportInv, IdsInv
    <3>2. CASE q \in wire /\ r \notin wire
      <4>1. q.id \in 1 .. replies
        BY <3>2 DEF ReportInv, IdsInv
      <4> QED
        BY <2>4, <2>5, <2>7, <2>11, <3>2, <4>1
    <3>3. CASE q \notin wire /\ r \in wire
      <4>1. r.id \in 1 .. replies
        BY <3>3 DEF ReportInv, IdsInv
      <4> QED
        BY <2>4, <2>5, <2>7, <2>11, <3>3, <4>1
    <3>4. CASE q \notin wire /\ r \notin wire
      BY <2>4, <2>5, <2>9, <2>11, <3>4
    <3> QED
      BY <3>1, <3>2, <3>3, <3>4
  <2>12. \A x \in 1 .. replies : (\A q \in wire : x # q.id) => \A q \in wire' : x # q.id
    BY <2>4, <2>5, <2>7
  <2>13. \A j \in DOMAIN incomingSul : /\ incomingSul[j].id \in 1 .. replies
                                       /\ \A q \in wire : incomingSul[j].id # q.id
    BY Zenon DEF ReportInv, IdsInv
  <2>14. \A k \in DOMAIN sets : \A p \in sets[k].concrete :
            /\ p.id \in 1 .. replies
            /\ \A q \in wire : p.id # q.id
            /\ \A i \in DOMAIN incomingSul : p.id # incomingSul[i].id
    BY Zenon DEF ReportInv, IdsInv
  <2>15. /\ \A i, j \in DOMAIN incomingSul' : incomingSul'[i].id = incomingSul'[j].id => i = j
         /\ \A j, k \in DOMAIN sets' : \A p \in sets'[j].concrete : \A q \in sets'[k].concrete :
               p.id = q.id => j = k /\ p = q
    BY <1>1, <2>6 DEF ReportInv, IdsInv
  <2>16. /\ \A j \in DOMAIN incomingSul' : incomingSul'[j].id \in 1 .. replies'
         /\ \A j \in DOMAIN incomingSul' : \A q \in wire' : incomingSul'[j].id # q.id
    BY <2>6, <2>7, <2>12, <2>13, SMTT(30)
  <2>17. \A k \in DOMAIN sets' : \A p \in sets'[k].concrete :
            /\ p.id \in 1 .. replies'
            /\ \A q \in wire' : p.id # q.id
            /\ \A i \in DOMAIN incomingSul' : p.id # incomingSul'[i].id
    <3> SUFFICES ASSUME NEW k \in DOMAIN sets, NEW p \in sets[k].concrete
                 PROVE  /\ p.id \in 1 .. replies'
                        /\ \A q \in wire' : p.id # q.id
                        /\ \A i \in DOMAIN incomingSul : p.id # incomingSul[i].id
      BY <1>1, <2>6
    <3> QED
      BY <2>7, <2>12, <2>14
  <2> QED
    BY <1>2, <2>10, <2>11, <2>15, <2>16, <2>17, Zenon DEF ReportInv, IdsInv
<1>5. CASE \E p \in wire : Deliver(p)
  <2>1. PICK p \in wire : Deliver(p)
    BY <1>5
  <2>2. incomingSul' = Append(incomingSul, p) /\ wire' = wire \ {p} /\ replies' = replies
    BY <2>1 DEF Deliver, IncomingSul
  <2>3. \A j \in DOMAIN incomingSul' :
           (j \in DOMAIN incomingSul /\ incomingSul'[j] = incomingSul[j])
             \/ (j = Len(incomingSul) + 1 /\ incomingSul'[j] = p)
    BY <2>2, AppendFacts DEF Shape
  <2>4. /\ p.id \in 1 .. replies /\ \A q \in wire' : q.id # p.id
        /\ \A j \in DOMAIN incomingSul : incomingSul[j].id # p.id
        /\ \A k \in DOMAIN sets : \A q \in sets[k].concrete : q.id # p.id
    BY <2>2, Zenon DEF ReportInv, IdsInv
  <2>5. /\ \A q \in wire' : q.id \in 1 .. replies'
        /\ \A q, r \in wire' : q.id = r.id => q = r
        /\ \A j \in DOMAIN incomingSul' : incomingSul'[j].id \in 1 .. replies'
        /\ \A j \in DOMAIN incomingSul' : \A q \in wire' : incomingSul'[j].id # q.id
    BY <2>2, <2>3, <2>4 DEF ReportInv, IdsInv
  <2>6. \A j, k \in DOMAIN incomingSul' : incomingSul'[j].id = incomingSul'[k].id => j = k
    BY <2>3, <2>4, ZenonT(40) DEF ReportInv, IdsInv
  <2>7. \A k \in DOMAIN sets' : \A q \in sets'[k].concrete :
           /\ q.id \in 1 .. replies'
           /\ \A r \in wire' : q.id # r.id
           /\ \A j \in DOMAIN incomingSul' : q.id # incomingSul'[j].id
    <3> SUFFICES ASSUME NEW k \in DOMAIN sets, NEW q \in sets[k].concrete
                 PROVE  /\ q.id \in 1 .. replies
                        /\ \A r \in wire : q.id # r.id
                        /\ \A j \in DOMAIN incomingSul : q.id # incomingSul[j].id
      BY <1>1, <2>2, <2>3, <2>4, SMTT(30)
    <3> QED
      BY Zenon DEF ReportInv, IdsInv
  <2>8. \A j, k \in DOMAIN sets' : \A q \in sets'[j].concrete : \A r \in sets'[k].concrete :
           q.id = r.id => j = k /\ q = r
    <3> SUFFICES ASSUME NEW j \in DOMAIN sets, NEW k \in DOMAIN sets,
                        NEW q \in sets[j].concrete, NEW r \in sets[k].concrete, q.id = r.id
                 PROVE  j = k /\ q = r
      BY <1>1
    <3> QED
      BY Zenon DEF ReportInv, IdsInv
  <2> QED
    BY <1>2, <2>5, <2>6, <2>7, <2>8, Zenon DEF ReportInv, IdsInv
<1>6. CASE \E r \in requests : Serve(r)
  BY <1>3, <1>6, Zenon DEF Serve
<1> QED
  BY <1>3, <1>4, <1>5, <1>6 DEF Connection

\* At first there are no packets.
LEMMA ReportInitially ==
    Init => ReportInv
<1> SUFFICES ASSUME Init PROVE ReportInv
  OBVIOUS
<1>1. /\ wire = {} /\ incomingSul = <<>> /\ loops = <<Loop("select", <<>>, None)>>
      /\ sets = <<[concrete |-> {}, abstract |-> {}]>>
  BY DEF Init
<1>2. /\ DOMAIN loops = {1} /\ loops[1].place = "select" /\ DOMAIN sets = {1}
      /\ sets[1].concrete = {} /\ sets[1].abstract = {}
  BY <1>1, SingletonFacts DEF Loop
<1> QED
  BY <1>1, <1>2, EmptyFacts, Zenon DEF ReportInv, IdsInv, HandsInv

\* For every session, also with sleeps that are too short and several goroutines of Run: the
\* sets of two symbols share no packet, concrete or abstract, and a packet is in a concrete set
\* before its abstraction is in an abstract one, of the same symbol or a later one.
THEOREM PacketsReportedOnce ==
    Spec => []ReportedOnce
<1>1. Init => Shape /\ ReportInv
  BY ShapeInitially, ReportInitially
<1>2. Shape /\ ReportInv /\ [Next]_vars => (Shape /\ ReportInv)'
  BY ShapeKept, HandlerKeepsReports, RunKeepsReports, ConnectionKeepsReports, SMTT(30) DEF Next
<1>3. ReportInv => ReportedOnce
  BY DEF ReportInv, IdsInv, HandsInv, ReportedOnce
<1> QED
  BY <1>1, <1>2, <1>3, PTL DEF Spec

=============================================================================
