------------------------- MODULE FlowControlProofs -------------------------
(***************************************************************************)
(* Proofs about the send credit of FlowControl, for any set of streams,    *)
(* any limits and any transport parameters.                                *)
(***************************************************************************)
EXTENDS FlowControl, TLAPS

\* The part of the state the credit depends on has its type, and no stream limit
\* the peer gives is the mark of a stream that has none.
CreditTypes ==
    /\ ready \in BOOLEAN
    /\ RemoteFC \in FlowControlLimits
    /\ RemoteFC.MaxStreamDataBidiLocal < MaxUint64
    /\ RemoteFC.MaxStreamDataBidiRemote < MaxUint64
    /\ RemoteFC.MaxStreamDataUni < MaxUint64
    /\ WriteLimit \in [StreamIds -> Nat] /\ WriteReserved \in [StreamIds -> Nat]
    /\ dataReserved \in Nat

\* Nothing is reserved before the transport parameters are known, nor on a stream
\* whose limit is still to be initialised: initialising it may then lower it.
NothingReservedEarly ==
    /\ ~ready => dataReserved = 0
    /\ \A s \in StreamIds : WriteLimit[s] = MaxUint64 /\ ~IsUniServer(s) => WriteReserved[s] = 0

CreditInv == CreditTypes /\ NothingReservedEarly /\ ReservedWithinLimits

\* The variables CreditInv reads.
creditVars == <<ready, RemoteFC, WriteLimit, WriteReserved, dataReserved>>

\* The invariant holds at first.
LEMMA InitCreditInv == Init => CreditInv
<1> SUFFICES ASSUME Init PROVE CreditInv
  OBVIOUS
<1>1. CreditTypes
  BY FlowControlAssumption, Zenon DEF Init, CreditTypes, FlowControlLimits, NoLimits
<1>2. NothingReservedEarly
  BY DEF Init, NothingReservedEarly
<1>3. ReservedWithinLimits
  BY FlowControlAssumption DEF Init, ReservedWithinLimits, NoLimits
<1> QED
  BY <1>1, <1>2, <1>3 DEF CreditInv

\* A stream that has a limit keeps it, and one that gets its limit from the
\* transport parameters gets one that covers what is reserved.
LEMMA InitialWriteLimitCovers ==
    ASSUME CreditInv, NEW s \in StreamIds
    PROVE  /\ InitialWriteLimit(s) \in Nat
           /\ WriteReserved[s] <= InitialWriteLimit(s)
           /\ WriteLimit[s] # MaxUint64 => InitialWriteLimit(s) = WriteLimit[s]
           /\ ~IsUniServer(s) => InitialWriteLimit(s) # MaxUint64
BY FlowControlAssumption
   DEF CreditInv, CreditTypes, NothingReservedEarly, ReservedWithinLimits, InitialWriteLimit,
       FlowControlLimits

\* A step that leaves the credit and the limits of the peer alone preserves CreditInv.
LEMMA UnchangedCredit == CreditInv /\ UNCHANGED creditVars => CreditInv'
BY DEF CreditInv, CreditTypes, NothingReservedEarly, ReservedWithinLimits, creditVars

\* Initialising the limits of one stream preserves CreditInv.
LEMMA StreamFrameCredit ==
    ASSUME CreditInv, NEW s \in StreamIds, NEW l \in Limits, StreamFrame(s, l)
    PROVE  CreditInv'
<1>1. /\ WriteLimit' = [WriteLimit EXCEPT ![s] = InitialWriteLimit(s)]
      /\ UNCHANGED <<ready, RemoteFC, WriteReserved, dataReserved>>
  BY DEF StreamFrame
<1> QED
  BY <1>1, InitialWriteLimitCovers, SMTT(30)
     DEF CreditInv, CreditTypes, NothingReservedEarly, ReservedWithinLimits

\* MAX_STREAM_DATA raises the limit of one stream, below the mark.
LEMMA MaxStreamDataFrameCredit ==
    ASSUME CreditInv, NEW s \in StreamIds, NEW l \in Limits, MaxStreamDataFrame(s, l)
    PROVE  CreditInv'
<1>1. UNCHANGED <<ready, RemoteFC, WriteReserved, dataReserved>>
  BY DEF MaxStreamDataFrame
<1>2. CASE Increasing(s, l)
  <2>1. WriteLimit' = [WriteLimit EXCEPT ![s] = l] /\ WriteLimit[s] <= l
    BY <1>2 DEF MaxStreamDataFrame, Increasing
  <2>2. l \in Nat /\ l < MaxUint64
    BY FlowControlAssumption
  <2> QED
    BY <1>1, <2>1, <2>2, FlowControlAssumption, SMTT(30)
       DEF CreditInv, CreditTypes, NothingReservedEarly, ReservedWithinLimits
<1>3. CASE ~Increasing(s, l)
  <2>1. UNCHANGED creditVars
    BY <1>1, <1>3 DEF MaxStreamDataFrame, creditVars
  <2> QED
    BY <2>1, UnchangedCredit, SMTT(30)
<1> QED
  BY <1>2, <1>3

\* The frames that raise a limit of the connection.
LEMMA ConnectionLimitCredit ==
    ASSUME CreditInv, NEW l \in Limits,
           MaxDataFrame(l) \/ MaxBidiStreamsFrame(l) \/ MaxUniStreamsFrame(l)
    PROVE  CreditInv'
<1>1. /\ UNCHANGED <<ready, WriteLimit, WriteReserved, dataReserved>>
      /\ RemoteFC' \in FlowControlLimits
      /\ RemoteFC'.MaxData >= RemoteFC.MaxData
      /\ RemoteFC'.MaxStreamDataBidiLocal = RemoteFC.MaxStreamDataBidiLocal
      /\ RemoteFC'.MaxStreamDataBidiRemote = RemoteFC.MaxStreamDataBidiRemote
      /\ RemoteFC'.MaxStreamDataUni = RemoteFC.MaxStreamDataUni
  BY FlowControlAssumption
     DEF CreditInv, CreditTypes, FlowControlLimits, MaxDataFrame, MaxBidiStreamsFrame,
         MaxUniStreamsFrame
<1>2. RemoteFC.MaxData \in Nat /\ RemoteFC'.MaxData \in Nat
  BY <1>1 DEF CreditInv, CreditTypes, FlowControlLimits
<1> QED
  BY <1>1, <1>2 DEF CreditInv, CreditTypes, NothingReservedEarly, ReservedWithinLimits

\* What a reservation of the adjusted credit does to the credit.
LEMMA ReservedCredit ==
    ASSUME CreditInv, ready, NEW s \in StreamIds, NEW amount \in Limits, NEW Partial \in BOOLEAN,
           UNCHANGED ready, Reserved(s, Credit(s, amount, Partial))
    PROVE  CreditInv'
<1> DEFINE credit == Credit(s, amount, Partial)
           creditReserved == IF Enough(s, credit) THEN credit ELSE 0
<1>1. credit \in Nat
  <2>1. /\ amount \in Nat /\ InitialWriteLimit(s) \in Nat /\ WriteReserved[s] \in Nat
        /\ WriteReserved[s] <= InitialWriteLimit(s)
        /\ RemoteFC.MaxData \in Nat /\ dataReserved \in Nat
        /\ dataReserved <= RemoteFC.MaxData
    BY InitialWriteLimitCovers, FlowControlAssumption, SMTT(30)
       DEF CreditInv, CreditTypes, ReservedWithinLimits, FlowControlLimits
  <2> QED
    BY <2>1 DEF Credit, min
<1>2. /\ WriteLimit' = [WriteLimit EXCEPT ![s] = InitialWriteLimit(s)]
      /\ WriteReserved' = [WriteReserved EXCEPT ![s] = @ + creditReserved]
      /\ dataReserved' = dataReserved + creditReserved
      /\ RemoteFC' = RemoteFC
  BY DEF Reserved, Take
<1>3. /\ creditReserved \in Nat
      /\ WriteReserved[s] + creditReserved <= InitialWriteLimit(s)
      /\ dataReserved + creditReserved <= RemoteFC.MaxData
  <2>1. /\ InitialWriteLimit(s) \in Nat /\ WriteReserved[s] \in Nat
        /\ WriteReserved[s] <= InitialWriteLimit(s)
        /\ dataReserved \in Nat /\ dataReserved <= RemoteFC.MaxData
    BY InitialWriteLimitCovers DEF CreditInv, CreditTypes, ReservedWithinLimits
  <2> QED
    BY <1>1, <2>1, SMTT(30) DEF Enough
<1> HIDE DEF creditReserved
<1>4. CreditTypes'
  BY <1>2, <1>3, InitialWriteLimitCovers DEF CreditInv, CreditTypes
<1>5. ReservedWithinLimits'
  BY <1>2, <1>3 DEF CreditInv, CreditTypes, ReservedWithinLimits
<1>6. NothingReservedEarly'
  BY <1>2, <1>3, InitialWriteLimitCovers
     DEF CreditInv, CreditTypes, NothingReservedEarly
<1> QED
  BY <1>4, <1>5, <1>6, SMTT(30) DEF CreditInv

\* Every step keeps the invariant.
LEMMA NextCreditInv == CreditInv /\ [Next]_vars => CreditInv'
<1> SUFFICES ASSUME CreditInv, [Next]_vars PROVE CreditInv'
  OBVIOUS
<1>1. CASE tpReceived
  <2>1. RemoteFC' = tpRemote /\ UNCHANGED <<WriteLimit, WriteReserved, dataReserved>>
        /\ ready' = TRUE /\ dataReserved = 0
    BY <1>1 DEF tpReceived, CreditInv, NothingReservedEarly
  <2>2. tpRemote.MaxData \in Nat
    BY FlowControlAssumption DEF FlowControlLimits
  <2> QED
    BY <2>1, <2>2, FlowControlAssumption
       DEF CreditInv, CreditTypes, NothingReservedEarly, ReservedWithinLimits
<1>2. CASE IncomingPackets
  BY <1>2, ConnectionLimitCredit, MaxStreamDataFrameCredit, StreamFrameCredit
     DEF IncomingPackets
<1>3. ASSUME NEW s \in StreamIds, NEW amount \in Limits, NEW Partial \in BOOLEAN,
             reserveCredit(s, amount, Partial)
      PROVE  CreditInv'
  <2>1. ready /\ UNCHANGED ready
    BY <1>3 DEF reserveCredit
  <2>2. CASE Reserved(s, Credit(s, amount, Partial))
    BY <2>1, <2>2, ReservedCredit
  <2>3. CASE RefusedBidi(s) \/ RefusedUni(s)
    BY <2>1, <2>3, UnchangedCredit, SMTT(30) DEF RefusedBidi, RefusedUni, remote, creditVars
  <2> QED
    BY <1>3, <2>2, <2>3 DEF reserveCredit
<1>4. ASSUME NEW space \in Spaces, requestFrame(space) PROVE CreditInv'
  BY <1>4, UnchangedCredit DEF requestFrame, remote, creditVars
<1>5. ASSUME NEW fr \in Requests, SendFromQueue(fr) PROVE CreditInv'
  BY <1>5, UnchangedCredit DEF SendFromQueue, remote, creditVars
<1>6. CASE UNCHANGED vars
  BY <1>6, UnchangedCredit DEF vars, remote, creditVars
<1> QED
  BY <1>1, <1>2, <1>3, <1>4, <1>5, <1>6, SMTT(30) DEF Next

\* The goroutine never reserves more credit than the peer allows, on any stream or
\* on the connection.
THEOREM CreditWithinLimits == Spec => []ReservedWithinLimits
<1>1. CreditInv => ReservedWithinLimits
  BY DEF CreditInv
<1> QED
  BY <1>1, InitCreditInv, NextCreditInv, PTL DEF Spec

\* Once the transport parameters are known, no step lowers a limit the peer gave.
THEOREM LimitsOnlyGrow == Spec => GrantsOnlyGrow
<1> DEFINE Grows ==
      ready => /\ RemoteFC'.MaxData >= RemoteFC.MaxData
               /\ RemoteFC'.StreamsBidi >= RemoteFC.StreamsBidi
               /\ RemoteFC'.StreamsUni >= RemoteFC.StreamsUni
               /\ \A s \in StreamIds :
                     WriteLimit[s] # MaxUint64 => WriteLimit'[s] >= WriteLimit[s]
<1>1. CreditInv /\ Next => Grows
  <2> SUFFICES ASSUME CreditInv, Next, ready PROVE Grows
    OBVIOUS
  <2>1. /\ RemoteFC.MaxData \in Nat /\ RemoteFC.StreamsBidi \in Nat /\ RemoteFC.StreamsUni \in Nat
        /\ WriteLimit \in [StreamIds -> Nat] /\ RemoteFC \in FlowControlLimits
    BY DEF CreditInv, CreditTypes, FlowControlLimits
  <2>2. CASE UNCHANGED <<RemoteFC, WriteLimit>>
    BY <2>1, <2>2, SMTT(30)
  <2>3. ASSUME NEW l \in Limits,
               MaxDataFrame(l) \/ MaxBidiStreamsFrame(l) \/ MaxUniStreamsFrame(l)
        PROVE  Grows
    <3>1. l \in Nat
      BY FlowControlAssumption
    <3>2. WriteLimit' = WriteLimit
      BY <2>3, Zenon DEF MaxDataFrame, MaxBidiStreamsFrame, MaxUniStreamsFrame
    <3>3. CASE MaxDataFrame(l)
      <4>1. /\ RemoteFC'.MaxData = l /\ RemoteFC.MaxData <= l
            /\ RemoteFC'.StreamsBidi = RemoteFC.StreamsBidi
            /\ RemoteFC'.StreamsUni = RemoteFC.StreamsUni
        BY <2>1, <3>3 DEF MaxDataFrame, FlowControlLimits
      <4> QED
        BY <2>1, <3>1, <3>2, <4>1
    <3>4. CASE MaxBidiStreamsFrame(l)
      <4>1. /\ RemoteFC'.StreamsBidi = l /\ RemoteFC.StreamsBidi <= l
            /\ RemoteFC'.MaxData = RemoteFC.MaxData
            /\ RemoteFC'.StreamsUni = RemoteFC.StreamsUni
        BY <2>1, <3>4 DEF MaxBidiStreamsFrame, FlowControlLimits
      <4> QED
        BY <2>1, <3>1, <3>2, <4>1
    <3>5. CASE MaxUniStreamsFrame(l)
      <4>1. /\ RemoteFC'.StreamsUni = l /\ RemoteFC.StreamsUni <= l
            /\ RemoteFC'.MaxData = RemoteFC.MaxData
            /\ RemoteFC'.StreamsBidi = RemoteFC.StreamsBidi
        BY <2>1, <3>5 DEF MaxUniStreamsFrame, FlowControlLimits
      <4> QED
        BY <2>1, <3>1, <3>2, <4>1
    <3> QED
      BY <2>3, <3>3, <3>4, <3>5, SMTT(30)
  <2>4. ASSUME NEW t \in StreamIds, UNCHANGED RemoteFC,
               WriteLimit' = [WriteLimit EXCEPT ![t] = InitialWriteLimit(t)]
        PROVE  Grows
    BY <2>1, <2>4, InitialWriteLimitCovers, SMTT(30)
  <2>5. ASSUME NEW t \in StreamIds, NEW l \in Limits, MaxStreamDataFrame(t, l)
        PROVE  Grows
    <3>1. l \in Nat /\ UNCHANGED RemoteFC
      BY <2>5, FlowControlAssumption, SMTT(30) DEF MaxStreamDataFrame
    <3>2. CASE Increasing(t, l)
      <4>1. WriteLimit' = [WriteLimit EXCEPT ![t] = l] /\ WriteLimit[t] <= l
        BY <2>5, <3>2, SMTT(30) DEF MaxStreamDataFrame, Increasing
      <4> QED
        BY <2>1, <3>1, <4>1
    <3>3. CASE ~Increasing(t, l)
      BY <2>2, <2>5, <3>1, <3>3, SMTT(30) DEF MaxStreamDataFrame
    <3> QED
      BY <3>2, <3>3
  <2>6. ASSUME NEW t \in StreamIds, NEW l \in Limits, StreamFrame(t, l)
        PROVE  Grows
    BY <2>4, <2>6, ZenonT(40) DEF StreamFrame
  <2>7. ASSUME NEW t \in StreamIds, NEW amount \in Limits, NEW Partial \in BOOLEAN,
               reserveCredit(t, amount, Partial)
        PROVE  Grows
    <3>1. CASE RefusedBidi(t) \/ RefusedUni(t)
      BY <2>2, <3>1, SMTT(30) DEF RefusedBidi, RefusedUni, remote
    <3>2. CASE Reserved(t, Credit(t, amount, Partial))
      BY <2>4, <3>2, Zenon DEF Reserved
    <3> QED
      BY <2>7, <3>1, <3>2, SMTT(30) DEF reserveCredit
  <2>8. CASE tpReceived
    BY <2>8 DEF tpReceived
  <2>9. CASE \E space \in Spaces : requestFrame(space)
    BY <2>2, <2>9, SMTT(30) DEF requestFrame, remote
  <2>10. CASE \E fr \in Requests : SendFromQueue(fr)
    BY <2>2, <2>10, SMTT(30) DEF SendFromQueue, remote
  <2>11. CASE IncomingPackets
    BY <2>3, <2>5, <2>6, <2>11, SMTT(30) DEF IncomingPackets
  <2> QED
    BY <2>7, <2>8, <2>9, <2>10, <2>11, SMTT(30) DEF Next
<1>2. CreditInv /\ [Next]_vars => [Grows]_vars
  BY <1>1
<1> QED
  BY <1>2, InitCreditInv, NextCreditInv, PTL DEF Spec, GrantsOnlyGrow
=============================================================================
