------------------------ MODULE LoggerServiceProofs ------------------------
(***************************************************************************)
(* Proofs about LoggerService, for every set of producers and any number   *)
(* of records and of restarts.                                             *)
(***************************************************************************)
EXTENDS LoggerService, TLAPS

\* What the worker holds and what a caller of Log has made are records.
HeldInv ==
    /\ worker \in {"dispatch", "writing"} => record \in Records
    /\ \A p \in Producers : pc[p] \in {"lock", "notify"} => mine[p] \in Records

PlacesOK ==
    /\ m_sequence \in 0..MaxRecords
    /\ m_queue \in Seq(Records)
    /\ sink \in Seq(Records)
    /\ accepted \in Seq(Records)
    /\ worker \in WorkerPCs
    /\ control \in ControlPCs
    /\ pc \in [Producers -> ProducerPCs]
    /\ DOMAIN mine = Producers

DataInv == PlacesOK /\ HeldInv

-----------------------------------------------------------------------------
(* Sequences *)

\* What Append returns, and where it goes in a concatenation.
LEMMA AppendType ==
    ASSUME NEW S, NEW s \in Seq(S), NEW e \in S
    PROVE  Append(s, e) \in Seq(S)
  OBVIOUS

LEMMA AppendToConcat ==
    \A s, t \in Seq(Records), e \in Records : Append(s \o t, e) = s \o Append(t, e)
  OBVIOUS


-----------------------------------------------------------------------------
(* Types *)

LEMMA DataInit == Init => DataInv
  BY MaxRecordsAssumption DEF Init, DataInv, PlacesOK, HeldInv, WorkerPCs, ControlPCs,
     ProducerPCs

LEMMA DataStep == DataInv /\ [Next]_vars => DataInv'
<1> SUFFICES ASSUME DataInv, [Next]_vars
             PROVE  DataInv'
  OBVIOUS
<1> USE MaxRecordsAssumption DEF DataInv, PlacesOK, HeldInv, WorkerPCs, ControlPCs,
        ProducerPCs, queueVars, sinkVars, workerVars, controlVars, prodVars, Woken
<1>1. ASSUME NEW p \in Producers, NEW fatal \in BOOLEAN, CallLog(p, fatal)
      PROVE  DataInv'
  <2>1. [sequence |-> m_sequence + 1, by |-> p, fatal |-> fatal] \in Records
    BY <1>1 DEF CallLog, Records
  <2> QED
    BY <1>1, <2>1 DEF CallLog
<1>2. ASSUME NEW p \in Producers, InLog(p)
      PROVE  DataInv'
  <2>1. CASE Enqueue(p)
    <3>1. mine[p] \in Records
      BY <2>1 DEF Enqueue
    <3>2. \/ m_queue' = Append(m_queue, mine[p]) /\ accepted' = Append(accepted, mine[p])
          \/ UNCHANGED <<m_queue, accepted>>
      BY <2>1 DEF Enqueue
    <3>7. m_queue' \in Seq(Records) /\ accepted' \in Seq(Records)
      <4>1. CASE m_queue' = Append(m_queue, mine[p]) /\ accepted' = Append(accepted, mine[p])
        BY <3>1, <4>1, AppendType
      <4>2. CASE UNCHANGED <<m_queue, accepted>>
        BY <4>2
      <4> QED
        BY <3>2, <4>1, <4>2
    <3>3. \E to \in {"notify", "flush", "idle"} : pc' = [pc EXCEPT ![p] = to]
      BY <2>1 DEF Enqueue, AfterLog
    <3>4. UNCHANGED <<m_sequence, sink, worker, record, control, mine>>
      BY <2>1 DEF Enqueue
    <3>5. PlacesOK'
      BY <3>3, <3>4, <3>7
    <3>6. HeldInv'
      BY <3>1, <3>3, <3>4
    <3> QED
      BY <3>5, <3>6
  <2>2. CASE NotifyOne(p)
    BY <2>2 DEF NotifyOne, AfterLog
  <2>3. CASE BeginFlush(p) \/ EndFlush(p)
    BY <2>3 DEF BeginFlush, EndFlush
  <2> QED
    BY <1>2, <2>1, <2>2, <2>3 DEF InLog
<1>3. CASE Worker
  <2>1. CASE TakeRecord
    BY <2>1 DEF TakeRecord
  <2>2. CASE WaitForRecord \/ BeginDrain \/ EndDrain
    BY <2>2 DEF WaitForRecord, BeginDrain, EndDrain
  <2>3. CASE BeginDispatch
    BY <2>3 DEF BeginDispatch
  <2>4. CASE EndDispatch
    <3>1. sink' \in Seq(Records)
      BY <2>4 DEF EndDispatch
    <3> QED
      BY <2>4, <3>1 DEF EndDispatch
  <2> QED
    BY <1>3, <2>1, <2>2, <2>3, <2>4 DEF Worker
<1>4. CASE SpuriousWake \/ Start \/ CallStop \/ CallFlush
  BY <1>4 DEF SpuriousWake, Start, CallStop, CallFlush
<1>5. CASE Control
  BY <1>5 DEF Control, StopAccepting, NotifyAll, RequestStop, Join, BeginLastFlush,
     EndControlFlush
<1>6. CASE UNCHANGED vars
  BY <1>6 DEF vars
<1> QED
  BY <1>1, <1>2, <1>3, <1>4, <1>5, <1>6 DEF Next

LEMMA DataCorrect == Spec => []DataInv
  BY DataInit, DataStep, PTL DEF Spec

-----------------------------------------------------------------------------
(* Start and Stop *)

\* How the places of the owner's thread and of the worker go together.
StopInv ==
    /\ m_accepting <=> control \in {"up", "flushing", "stop"}
    /\ stopRequested => ~m_accepting
    /\ draining => ~m_accepting
    /\ worker = "exited" => draining /\ m_queue = <<>>
    /\ worker = "none" => control = "down" /\ m_queue = <<>>
    /\ control \in {"flush", "lastFlush"} => worker = "exited"
    /\ control = "down" => worker \in {"none", "exited"} /\ flushed = Len(sink)

LEMMA StopInit == Init => StopInv
  BY DEF Init, StopInv

LEMMA StopStep == StopInv /\ [Next]_vars => StopInv'
<1> SUFFICES ASSUME StopInv, [Next]_vars
             PROVE  StopInv'
  OBVIOUS
<1> USE DEF StopInv, queueVars, sinkVars, workerVars, controlVars, Woken
<1>1. ASSUME NEW p \in Producers, NEW fatal \in BOOLEAN, CallLog(p, fatal)
      PROVE  StopInv'
  BY <1>1 DEF CallLog
<1>2. ASSUME NEW p \in Producers, InLog(p)
      PROVE  StopInv'
  <2>1. CASE Enqueue(p)
    BY <2>1 DEF Enqueue
  <2>2. CASE NotifyOne(p)
    BY <2>2 DEF NotifyOne
  <2>3. CASE BeginFlush(p) \/ EndFlush(p)
    BY <2>3 DEF BeginFlush, EndFlush
  <2> QED
    BY <1>2, <2>1, <2>2, <2>3 DEF InLog
<1>3. CASE Worker
  BY <1>3 DEF Worker, TakeRecord, WaitForRecord, BeginDrain, EndDrain, BeginDispatch,
     EndDispatch
<1>4. CASE SpuriousWake \/ Start \/ CallStop \/ CallFlush
  BY <1>4 DEF SpuriousWake, Start, CallStop, CallFlush
<1>5. CASE Control
  BY <1>5 DEF Control, StopAccepting, NotifyAll, RequestStop, Join, BeginLastFlush,
     EndControlFlush
<1>6. CASE UNCHANGED vars
  BY <1>6 DEF vars
<1> QED
  BY <1>1, <1>2, <1>3, <1>4, <1>5, <1>6 DEF Next

LEMMA StopCorrect == Spec => []StopInv
  BY StopInit, StopStep, PTL DEF Spec

-----------------------------------------------------------------------------
(* Order *)

\* The steps that move a record; every other step leaves all of them in place.
MovesRecord ==
    \/ \E p \in Producers : Enqueue(p)
    \/ TakeRecord
    \/ EndDispatch

LEMMA OtherStepsKeep ==
    ASSUME StopInv, [Next]_vars, ~MovesRecord
    PROVE  UNCHANGED <<accepted, sink, m_queue, InHand>>
<1> USE DEF queueVars, sinkVars, workerVars, controlVars, prodVars, InHand, Woken
<1>1. ASSUME NEW p \in Producers, NEW fatal \in BOOLEAN, CallLog(p, fatal)
      PROVE  UNCHANGED <<accepted, sink, m_queue, InHand>>
  BY <1>1 DEF CallLog
<1>2. ASSUME NEW p \in Producers, InLog(p)
      PROVE  UNCHANGED <<accepted, sink, m_queue, InHand>>
  BY <1>2 DEF InLog, NotifyOne, BeginFlush, EndFlush, MovesRecord
<1>3. CASE Worker
  BY <1>3 DEF Worker, MovesRecord, WaitForRecord, BeginDrain, EndDrain, BeginDispatch
<1>4. CASE SpuriousWake \/ Start \/ CallStop \/ CallFlush
  BY <1>4 DEF SpuriousWake, Start, CallStop, CallFlush, StopInv
<1>5. CASE Control
  BY <1>5 DEF Control, StopAccepting, NotifyAll, RequestStop, Join, BeginLastFlush,
     EndControlFlush
<1>6. CASE UNCHANGED vars
  BY <1>6 DEF vars
<1> QED
  BY <1>1, <1>2, <1>3, <1>4, <1>5, <1>6 DEF Next

LEMMA InOrderStep == DataInv /\ StopInv /\ InOrder /\ [Next]_vars => InOrder'
<1> SUFFICES ASSUME DataInv, StopInv, InOrder, [Next]_vars
             PROVE  InOrder'
  OBVIOUS
<1> USE DEF InOrder
<1>1. /\ m_queue \in Seq(Records) /\ sink \in Seq(Records)
      /\ InHand \in Seq(Records)
  BY DEF DataInv, PlacesOK, HeldInv, InHand
<1>2. ASSUME NEW p \in Producers, Enqueue(p)
      PROVE  InOrder'
  <2>1. InHand' = InHand /\ sink' = sink
    BY <1>2 DEF Enqueue, InHand, workerVars, sinkVars
  <2>2. mine[p] \in Records
    BY <1>2 DEF Enqueue, DataInv, HeldInv
  <2>3. CASE m_accepting
    <3>1. m_queue' = Append(m_queue, mine[p]) /\ accepted' = Append(accepted, mine[p])
      BY <1>2, <2>3 DEF Enqueue
    <3>2. Append((sink \o InHand) \o m_queue, mine[p])
              = (sink \o InHand) \o Append(m_queue, mine[p])
      <4>1. sink \o InHand \in Seq(Records)
        BY <1>1
      <4> QED
        BY <1>1, <2>2, <4>1, AppendToConcat
    <3>3. accepted' = Append((sink \o InHand) \o m_queue, mine[p])
      BY <3>1
    <3>4. accepted' = (sink' \o InHand') \o m_queue'
      BY <2>1, <3>1, <3>2, <3>3
    <3> QED
      BY <3>4
  <2>4. CASE ~m_accepting
    BY <1>2, <2>1, <2>4 DEF Enqueue
  <2> QED
    BY <2>3, <2>4
<1>3. CASE TakeRecord
  <2>1. InHand = <<>> /\ InHand' = <<Head(m_queue)>>
    BY <1>3 DEF TakeRecord, InHand
  <2>2. m_queue' = Tail(m_queue) /\ m_queue # <<>> /\ UNCHANGED <<sink, accepted>>
    BY <1>3 DEF TakeRecord, sinkVars
  <2>3. (sink \o <<>>) \o m_queue = (sink \o <<Head(m_queue)>>) \o Tail(m_queue)
    BY <1>1, <2>2
  <2> QED
    BY <2>1, <2>2, <2>3
<1>4. CASE EndDispatch
  <2>1. InHand = <<record>> /\ InHand' = <<>> /\ record \in Records
    BY <1>4 DEF EndDispatch, InHand, DataInv, HeldInv
  <2>2. sink' = Append(sink, record) /\ UNCHANGED <<m_queue, accepted>>
    BY <1>4 DEF EndDispatch, queueVars
  <2>3. (sink \o <<record>>) \o m_queue = (Append(sink, record) \o <<>>) \o m_queue
    BY <1>1, <2>1
  <2> QED
    BY <2>1, <2>2, <2>3
<1>5. CASE ~MovesRecord
  BY <1>5, OtherStepsKeep
<1> QED
  BY <1>2, <1>3, <1>4, <1>5 DEF MovesRecord

\* Between Log's queue and the sinks no record is lost, doubled or overtaken.
THEOREM InOrderCorrect == Spec => []InOrder
<1>1. Init => InOrder
  BY DEF Init, InOrder, InHand
<1>2. DataInv /\ StopInv /\ InOrder /\ [Next]_vars => InOrder'
  BY InOrderStep
<1> QED
  BY <1>1, <1>2, DataCorrect, StopCorrect, PTL DEF Spec

\* What Log accepted before or during Stop is in the sinks, flushed, when Stop has
\* returned.
THEOREM StoppedMeansFlushedCorrect == Spec => []StoppedMeansFlushed
<1>1. DataInv /\ StopInv /\ InOrder => StoppedMeansFlushed
  <2> SUFFICES ASSUME DataInv, StopInv, InOrder, control = "down"
               PROVE  accepted = sink /\ flushed = Len(sink)
    BY DEF StoppedMeansFlushed
  <2>1. m_queue = <<>> /\ InHand = <<>> /\ flushed = Len(sink)
    BY DEF StopInv, InHand
  <2>2. (sink \o <<>>) \o <<>> = sink
    BY DEF DataInv, PlacesOK
  <2> QED
    BY <2>1, <2>2 DEF InOrder
<1> QED
  BY <1>1, DataCorrect, StopCorrect, InOrderCorrect, PTL

-----------------------------------------------------------------------------
(* Wakeups *)

LEMMA WakeupStep == NoLostWakeup /\ DataInv /\ StopInv /\ [Next]_vars => NoLostWakeup'
<1> SUFFICES ASSUME NoLostWakeup, DataInv, StopInv, [Next]_vars
             PROVE  NoLostWakeup'
  OBVIOUS
<1> USE DEF NoLostWakeup, queueVars, sinkVars, workerVars, controlVars, prodVars, Woken
<1>0. pc \in [Producers -> ProducerPCs]
  BY DEF DataInv, PlacesOK
<1>1. ASSUME NEW p \in Producers, NEW fatal \in BOOLEAN, CallLog(p, fatal)
      PROVE  NoLostWakeup'
  <2>1. UNCHANGED <<m_queue, m_accepting, worker, stopRequested, control>>
    BY <1>1 DEF CallLog
  <2>2. \A q \in Producers : pc[q] = "notify" => pc'[q] = "notify"
    BY <1>1, <1>0 DEF CallLog
  <2> QED
    BY <2>1, <2>2
<1>2. ASSUME NEW p \in Producers, InLog(p)
      PROVE  NoLostWakeup'
  <2>1. CASE Enqueue(p)
    <3>1. UNCHANGED <<m_accepting, worker, stopRequested, control>>
      BY <2>1 DEF Enqueue
    <3>2. pc[p] = "lock"
      BY <2>1 DEF Enqueue
    <3>3. \/ pc' = [pc EXCEPT ![p] = "notify"]
          \/ m_queue' = m_queue /\ \E to \in ProducerPCs : pc' = [pc EXCEPT ![p] = to]
      BY <2>1 DEF Enqueue, AfterLog, ProducerPCs
    <3>4. CASE pc' = [pc EXCEPT ![p] = "notify"]
      <4>1. pc'[p] = "notify"
        BY <3>4, <1>0
      <4> QED
        BY <4>1
    <3>5. CASE m_queue' = m_queue /\ \E to \in ProducerPCs : pc' = [pc EXCEPT ![p] = to]
      <4>1. \A q \in Producers : pc[q] = "notify" => pc'[q] = "notify"
        BY <3>2, <3>5, <1>0
      <4> QED
        BY <3>1, <3>5, <4>1
    <3> QED
      BY <3>3, <3>4, <3>5
  <2>2. CASE NotifyOne(p)
    BY <2>2 DEF NotifyOne
  <2>3. CASE BeginFlush(p) \/ EndFlush(p)
    <3>1. UNCHANGED <<m_queue, m_accepting, worker, stopRequested, control>>
      BY <2>3 DEF BeginFlush, EndFlush
    <3>2. \A q \in Producers : pc[q] = "notify" => pc'[q] = "notify"
      BY <2>3, <1>0 DEF BeginFlush, EndFlush
    <3> QED
      BY <3>1, <3>2
  <2> QED
    BY <1>2, <2>1, <2>2, <2>3 DEF InLog
<1>3. CASE Worker
  BY <1>3 DEF Worker, TakeRecord, WaitForRecord, BeginDrain, EndDrain, BeginDispatch,
     EndDispatch
<1>4. CASE SpuriousWake \/ Start \/ CallStop \/ CallFlush
  BY <1>4 DEF SpuriousWake, Start, CallStop, CallFlush
<1>5. CASE Control
  BY <1>5 DEF Control, StopAccepting, NotifyAll, RequestStop, Join, BeginLastFlush,
     EndControlFlush, StopInv
<1>6. CASE UNCHANGED vars
  BY <1>6 DEF vars
<1> QED
  BY <1>1, <1>2, <1>3, <1>4, <1>5, <1>6 DEF Next

\* The worker never sleeps on work or on a Stop that nobody will tell it of.
THEOREM NoLostWakeupCorrect == Spec => []NoLostWakeup
<1>1. Init => NoLostWakeup
  BY DEF Init, NoLostWakeup
<1>2. NoLostWakeup /\ DataInv /\ StopInv /\ [Next]_vars => NoLostWakeup'
  BY WakeupStep
<1> QED
  BY <1>1, <1>2, DataCorrect, StopCorrect, PTL DEF Spec

-----------------------------------------------------------------------------
(* The order of one producer's records *)

Sorted ==
    \A i, j \in 1..Len(accepted) :
        i < j /\ accepted[i].by = accepted[j].by => accepted[i].sequence < accepted[j].sequence

\* The sequence numbers that Log gave out are used up.
UsedUp == \A i \in 1..Len(accepted) : accepted[i].sequence <= m_sequence

\* The record of a call under way carries a later number than its producer's others.
Latest ==
    \A p \in Producers : pc[p] = "lock" =>
        /\ mine[p] \in Records
        /\ mine[p].by = p
        /\ mine[p].sequence <= m_sequence
        /\ \A i \in 1..Len(accepted) :
               accepted[i].by = p => accepted[i].sequence < mine[p].sequence

OrderInv == Sorted /\ UsedUp /\ Latest

LEMMA OrderInit == Init => OrderInv
  BY DEF Init, OrderInv, Sorted, UsedUp, Latest

\* A step that neither queues a record nor begins a call keeps the order.
LEMMA OrderKept ==
    ASSUME OrderInv, UNCHANGED <<accepted, m_sequence, mine>>,
           \A p \in Producers : pc'[p] = "lock" => pc[p] = "lock"
    PROVE  OrderInv'
  BY DEF OrderInv, Sorted, UsedUp, Latest

LEMMA CallLogKeepsOrder ==
    ASSUME DataInv, OrderInv, NEW p \in Producers, NEW fatal \in BOOLEAN, CallLog(p, fatal)
    PROVE  OrderInv'
<1> DEFINE r == [sequence |-> m_sequence + 1, by |-> p, fatal |-> fatal]
<1>1. /\ m_sequence \in Nat /\ m_sequence' = m_sequence + 1 /\ accepted' = accepted
      /\ \A i \in 1..Len(accepted) : accepted[i] \in Records
  BY MaxRecordsAssumption DEF CallLog, DataInv, PlacesOK
<1>2. \A i \in 1..Len(accepted) :
          accepted[i].sequence \in Int /\ accepted[i].sequence <= m_sequence
  BY <1>1, MaxRecordsAssumption DEF OrderInv, UsedUp, Records
<1>3. Sorted' /\ UsedUp'
  BY <1>1, <1>2 DEF OrderInv, Sorted, UsedUp
<1>4. mine'[p] = r /\ r.by = p /\ r.sequence = m_sequence + 1
  BY DEF CallLog, DataInv, PlacesOK
<1>5. r \in Records
  BY <1>1, MaxRecordsAssumption DEF CallLog, Records
<1>6. \A q \in Producers : q # p => mine'[q] = mine[q] /\ pc'[q] = pc[q]
  BY DEF CallLog, DataInv, PlacesOK
<1> HIDE DEF r
<1>7. ASSUME NEW q \in Producers, pc'[q] = "lock"
      PROVE  /\ mine'[q] \in Records
             /\ mine'[q].by = q
             /\ mine'[q].sequence <= m_sequence'
             /\ \A i \in 1..Len(accepted') :
                    accepted'[i].by = q => accepted'[i].sequence < mine'[q].sequence
  <2>1. CASE q = p
    BY <1>1, <1>2, <1>4, <1>5, <2>1
  <2>2. CASE q # p
    <3>1. mine[q] \in Records /\ mine[q].sequence \in Int
      BY <1>6, <1>7, <2>2, MaxRecordsAssumption DEF OrderInv, Latest, Records
    <3> QED
      BY <1>1, <1>6, <1>7, <2>2, <3>1 DEF OrderInv, Latest
  <2> QED
    BY <2>1, <2>2
<1>8. Latest'
  BY <1>7 DEF Latest
<1> QED
  BY <1>3, <1>8 DEF OrderInv

LEMMA EnqueueKeepsOrder ==
    ASSUME DataInv, OrderInv, NEW p \in Producers, Enqueue(p)
    PROVE  OrderInv'
<1>1. /\ pc[p] = "lock"
      /\ UNCHANGED <<m_sequence, mine>>
      /\ pc'[p] # "lock"
      /\ \A q \in Producers : q # p => pc'[q] = pc[q]
  BY DEF Enqueue, AfterLog, DataInv, PlacesOK
<1>2. CASE ~m_accepting
  <2>1. accepted' = accepted
    BY <1>2 DEF Enqueue
  <2> QED
    BY <1>1, <2>1, OrderKept
<1>3. CASE m_accepting
  <2>1. accepted' = Append(accepted, mine[p])
    BY <1>3 DEF Enqueue
  <2>2. accepted \in Seq(Records) /\ mine[p] \in Records
    BY <1>1 DEF DataInv, PlacesOK, OrderInv, Latest
  <2>3. Len(accepted') = Len(accepted) + 1 /\ accepted'[Len(accepted) + 1] = mine[p]
    BY <2>1, <2>2
  <2>4. \A i \in 1..Len(accepted) : accepted'[i] = accepted[i]
    BY <2>1, <2>2
  <2>5. /\ mine[p].by = p /\ mine[p].sequence <= m_sequence
        /\ \A i \in 1..Len(accepted) :
               accepted[i].by = p => accepted[i].sequence < mine[p].sequence
    BY <1>1 DEF OrderInv, Latest
  <2>6. Len(accepted) \in Nat
    BY <2>2
  <2>7. Sorted'
    BY <2>3, <2>4, <2>5, <2>6 DEF Sorted, OrderInv
  <2>8. UsedUp'
    BY <1>1, <2>3, <2>4, <2>5, <2>6 DEF UsedUp, OrderInv
  <2>9. Latest'
    BY <1>1, <2>3, <2>4, <2>5, <2>6 DEF Latest, OrderInv
  <2> QED
    BY <2>7, <2>8, <2>9 DEF OrderInv
<1> QED
  BY <1>2, <1>3

LEMMA OrderStep ==
    ASSUME DataInv, OrderInv, [Next]_vars
    PROVE  OrderInv'
<1> USE DEF queueVars, prodVars
<1>1. ASSUME NEW p \in Producers, NEW fatal \in BOOLEAN, CallLog(p, fatal)
      PROVE  OrderInv'
  BY <1>1, CallLogKeepsOrder
<1>2. ASSUME NEW p \in Producers, InLog(p)
      PROVE  OrderInv'
  <2>1. CASE Enqueue(p)
    BY <2>1, EnqueueKeepsOrder
  <2>2. CASE NotifyOne(p) \/ BeginFlush(p) \/ EndFlush(p)
    BY <2>2, OrderKept DEF NotifyOne, BeginFlush, EndFlush, AfterLog, DataInv, PlacesOK
  <2> QED
    BY <1>2, <2>1, <2>2 DEF InLog
<1>3. CASE Worker \/ SpuriousWake
  BY <1>3, OrderKept DEF Worker, TakeRecord, WaitForRecord, BeginDrain, EndDrain,
     BeginDispatch, EndDispatch, SpuriousWake
<1>4. CASE Start \/ CallStop \/ CallFlush
  BY <1>4, OrderKept DEF Start, CallStop, CallFlush
<1>5. CASE Control
  BY <1>5, OrderKept DEF Control, StopAccepting, NotifyAll, RequestStop, Join,
     BeginLastFlush, EndControlFlush
<1>6. CASE UNCHANGED vars
  BY <1>6, OrderKept DEF vars
<1> QED
  BY <1>1, <1>2, <1>3, <1>4, <1>5, <1>6 DEF Next

\* The sinks show one thread's records in the order in which it logged them.
THEOREM ProducerOrderCorrect == Spec => []ProducerOrder
<1>1. DataInv /\ OrderInv /\ InOrder => ProducerOrder
  <2> SUFFICES ASSUME DataInv, OrderInv, InOrder
               PROVE  ProducerOrder
    OBVIOUS
  <2>1. /\ sink \in Seq(Records) /\ InHand \in Seq(Records) /\ m_queue \in Seq(Records)
        /\ accepted = (sink \o InHand) \o m_queue
    BY DEF DataInv, PlacesOK, HeldInv, InHand, InOrder
  <2>2. /\ Len(sink) \in Nat /\ Len(accepted) \in Nat /\ Len(sink) <= Len(accepted)
        /\ \A i \in 1..Len(sink) : accepted[i] = sink[i]
    <3> HIDE DEF InHand
    <3> QED
      BY <2>1
  <2> QED
    BY <2>2 DEF ProducerOrder, OrderInv, Sorted
<1>2. DataInv /\ OrderInv /\ [Next]_vars => OrderInv'
  BY OrderStep
<1> QED
  BY <1>1, <1>2, OrderInit, DataCorrect, InOrderCorrect, PTL DEF Spec

-----------------------------------------------------------------------------
(* The logger is a LogChannel *)

\* The record in the worker's hand is the next one that the channel writes.
LEMMA NextRecord ==
    ASSUME DataInv, InOrder, worker = "writing"
    PROVE  Len(sink) < Len(accepted) /\ accepted[Len(sink) + 1] = record
<1>1. sink \in Seq(Records) /\ m_queue \in Seq(Records) /\ record \in Records
  BY DEF DataInv, PlacesOK, HeldInv
<1>2. accepted = (sink \o <<record>>) \o m_queue
  BY DEF InOrder, InHand
<1>3. Len((sink \o <<record>>) \o m_queue) > Len(sink)
  BY <1>1
<1>4. ((sink \o <<record>>) \o m_queue)[Len(sink) + 1] = record
  BY <1>1
<1> QED
  BY <1>2, <1>3, <1>4

LEMMA ChannelStep ==
    ASSUME DataInv, StopInv, InOrder, [Next]_vars
    PROVE  [Channel!Next]_<<m_accepting, accepted, sink>>
<1> DEFINE Goal == [Channel!Next]_<<m_accepting, accepted, sink>>
<1> USE DEF queueVars, sinkVars
<1>1. ASSUME NEW p \in Producers, NEW fatal \in BOOLEAN, CallLog(p, fatal)
      PROVE  Goal
  BY <1>1 DEF CallLog
<1>2. ASSUME NEW p \in Producers, InLog(p)
      PROVE  Goal
  <2>1. CASE Enqueue(p)
    <3>1. mine[p] \in Records /\ UNCHANGED <<m_accepting, sink>>
      BY <2>1 DEF Enqueue, DataInv, HeldInv
    <3>2. CASE m_accepting
      <4>1. accepted' = Append(accepted, mine[p])
        BY <2>1, <3>2 DEF Enqueue
      <4>2. Channel!Accept(mine[p])
        BY <3>1, <3>2, <4>1 DEF Channel!Accept
      <4> QED
        BY <3>1, <4>2 DEF Channel!Next
    <3>3. CASE ~m_accepting
      BY <2>1, <3>1, <3>3 DEF Enqueue
    <3> QED
      BY <3>2, <3>3
  <2>2. CASE NotifyOne(p) \/ BeginFlush(p) \/ EndFlush(p)
    BY <2>2 DEF NotifyOne, BeginFlush, EndFlush
  <2> QED
    BY <1>2, <2>1, <2>2 DEF InLog
<1>3. CASE Worker
  <2>1. CASE EndDispatch
    <3>1. sink' = Append(sink, record) /\ UNCHANGED <<m_accepting, accepted>>
      BY <2>1 DEF EndDispatch
    <3>2. Len(sink) < Len(accepted) /\ accepted[Len(sink) + 1] = record
      BY <2>1, NextRecord DEF EndDispatch
    <3>3. Channel!Write
      BY <3>1, <3>2 DEF Channel!Write
    <3> QED
      BY <3>3 DEF Channel!Next
  <2>2. CASE TakeRecord \/ WaitForRecord \/ BeginDrain \/ EndDrain \/ BeginDispatch
    BY <2>2 DEF TakeRecord, WaitForRecord, BeginDrain, EndDrain, BeginDispatch
  <2> QED
    BY <1>3, <2>1, <2>2 DEF Worker
<1>4. CASE Start
  BY <1>4 DEF Start, StopInv, Channel!Next, Channel!Open
<1>5. CASE SpuriousWake \/ CallStop \/ CallFlush
  BY <1>5 DEF SpuriousWake, CallStop, CallFlush
<1>6. CASE Control
  <2>1. CASE StopAccepting
    BY <2>1 DEF StopAccepting, StopInv, Channel!Next, Channel!Close
  <2>2. CASE NotifyAll \/ RequestStop \/ Join \/ BeginLastFlush \/ EndControlFlush
    BY <2>2 DEF NotifyAll, RequestStop, Join, BeginLastFlush, EndControlFlush
  <2> QED
    BY <1>6, <2>1, <2>2 DEF Control
<1>7. CASE UNCHANGED vars
  BY <1>7 DEF vars
<1> QED
  BY <1>1, <1>2, <1>3, <1>4, <1>5, <1>6, <1>7 DEF Next

\* The logger implements its abstract specification: what goes in while it accepts
\* comes out once, in order.
THEOREM LoggerImplementsChannel == Spec => ImplementsChannel
<1>1. Init => Channel!Init
  BY DEF Init, Channel!Init
<1>2. DataInv /\ StopInv /\ InOrder /\ [Next]_vars
          => [Channel!Next]_<<m_accepting, accepted, sink>>
  BY ChannelStep
<1> QED
  BY <1>1, <1>2, DataCorrect, StopCorrect, InOrderCorrect, PTL
  DEF Spec, ImplementsChannel, Channel!Spec, Channel!vars
-----------------------------------------------------------------------------
(* The other fields *)

FlagsOK ==
    /\ m_accepting \in BOOLEAN
    /\ draining \in BOOLEAN
    /\ stopRequested \in BOOLEAN

RestOK ==
    /\ m_mutex \in {"free", "worker", "control", "producer"}
    /\ flushed \in Nat
    /\ record \in Records \cup {<<>>}
    /\ starts \in Nat
    /\ mine \in [Producers -> Records \cup {<<>>}]

LEMMA FlagsStep == FlagsOK /\ [Next]_vars => FlagsOK'
<1> SUFFICES ASSUME FlagsOK, [Next]_vars
             PROVE  FlagsOK'
  OBVIOUS
<1> USE DEF FlagsOK, queueVars, workerVars
<1>1. ASSUME NEW p \in Producers, NEW fatal, CallLog(p, fatal) \/ InLog(p)
      PROVE  FlagsOK'
  BY <1>1 DEF CallLog, InLog, Enqueue, NotifyOne, BeginFlush, EndFlush
<1>2. CASE Worker \/ SpuriousWake
  BY <1>2 DEF Worker, TakeRecord, WaitForRecord, BeginDrain, EndDrain, BeginDispatch,
     EndDispatch, SpuriousWake
<1>3. CASE Start \/ CallStop \/ CallFlush
  BY <1>3 DEF Start, CallStop, CallFlush
<1>4. CASE Control
  BY <1>4 DEF Control, StopAccepting, NotifyAll, RequestStop, Join, BeginLastFlush,
     EndControlFlush
<1>5. CASE UNCHANGED vars
  BY <1>5 DEF vars
<1> QED
  BY <1>1, <1>2, <1>3, <1>4, <1>5 DEF Next

LEMMA RestStep == DataInv /\ RestOK /\ [Next]_vars => RestOK'
<1> SUFFICES ASSUME DataInv, RestOK, [Next]_vars
             PROVE  RestOK'
  OBVIOUS
<1> USE DEF RestOK, DataInv, PlacesOK, sinkVars, workerVars, controlVars, prodVars
<1>1. ASSUME NEW p \in Producers, NEW fatal \in BOOLEAN, CallLog(p, fatal)
      PROVE  RestOK'
  <2>1. [sequence |-> m_sequence + 1, by |-> p, fatal |-> fatal] \in Records
    BY <1>1, MaxRecordsAssumption DEF CallLog, Records
  <2> QED
    BY <1>1, <2>1 DEF CallLog
<1>2. ASSUME NEW p \in Producers, InLog(p)
      PROVE  RestOK'
  <2>1. Len(sink) \in Nat
    OBVIOUS
  <2> QED
    BY <1>2, <2>1 DEF InLog, Enqueue, NotifyOne, BeginFlush, EndFlush
<1>3. CASE TakeRecord
  <2>1. Head(m_queue) \in Records
    BY <1>3 DEF TakeRecord
  <2> QED
    BY <1>3, <2>1 DEF TakeRecord
<1>4. CASE WaitForRecord \/ BeginDrain \/ EndDrain \/ BeginDispatch \/ EndDispatch
           \/ SpuriousWake
  BY <1>4 DEF WaitForRecord, BeginDrain, EndDrain, BeginDispatch, EndDispatch, SpuriousWake
<1>5. CASE Start \/ CallStop \/ CallFlush
  BY <1>5 DEF Start, CallStop, CallFlush
<1>6. CASE Control
  <2>1. Len(sink) \in Nat
    OBVIOUS
  <2> QED
    BY <1>6, <2>1 DEF Control, StopAccepting, NotifyAll, RequestStop, Join, BeginLastFlush,
       EndControlFlush
<1>7. CASE UNCHANGED vars
  BY <1>7 DEF vars
<1> QED
  BY <1>1, <1>2, <1>3, <1>4, <1>5, <1>6, <1>7 DEF Next, Worker

\* Every field keeps its type.
THEOREM TypeCorrect == Spec => []TypeOK
<1>1. Init => FlagsOK
  BY DEF Init, FlagsOK
<1>2. Init => RestOK
  BY DEF Init, RestOK
<1>3. DataInv /\ FlagsOK /\ RestOK => TypeOK
  BY DEF DataInv, PlacesOK, FlagsOK, RestOK, TypeOK
<1> QED
  BY <1>1, <1>2, <1>3, FlagsStep, RestStep, DataCorrect, PTL DEF Spec

=============================================================================
