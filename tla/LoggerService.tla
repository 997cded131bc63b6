--------------------------- MODULE LoggerService ---------------------------
(***************************************************************************)
(* The asynchronous logger: producers append records to a queue under      *)
(* m_mutex and notify a condition variable; one worker takes them and      *)
(* writes them to the sinks; Stop closes the queue, drains it and joins    *)
(* the worker.  Sources: LoggerService.cpp and, for Fatal,                 *)
(* Logger_Manager.hpp.                                                     *)
(*                                                                         *)
(* A critical section without I/O is one step that needs m_mutex free.     *)
(* The two that reach a sink, Dispatch and Flush, hold m_mutex over two    *)
(* steps.  The sinks are one sequence of written records.                  *)
(***************************************************************************)
EXTENDS Integers, Sequences, FiniteSets

CONSTANTS
    Producers,      \* the threads that call Log
    MaxRecords,     \* bound: calls of Log
    MaxStarts       \* bound: calls of Start

ASSUME MaxRecordsAssumption == MaxRecords \in Nat

VARIABLES
    m_sequence,
    m_mutex,        \* "free", "worker", "control" or "producer": who holds it
    m_queue,
    m_accepting,
    sink,           \* the records written to the sinks, in order
    flushed,        \* how many of them a Flush has covered
    worker,         \* where the worker is
    record,         \* the record it took from the queue
    draining,       \* it is in its second loop
    stopRequested,  \* its stop token
    control,        \* where the thread that calls Start and Stop is
    starts,
    pc,             \* where each producer is
    mine,           \* the record of the producer's call
    accepted        \* history: the records in the order in which they were queued

queueVars   == <<m_sequence, m_queue, m_accepting, accepted>>
sinkVars    == <<sink, flushed>>
workerVars  == <<worker, record, draining, stopRequested>>
controlVars == <<control, starts>>
prodVars    == <<pc, mine>>
vars == <<queueVars, m_mutex, sinkVars, workerVars, controlVars, prodVars>>

Records == [sequence : 1..MaxRecords, by : Producers, fatal : BOOLEAN]

WorkerPCs   == {"none", "top", "waiting", "dispatch", "writing", "exited"}
ControlPCs  == {"down", "up", "flushing", "stop", "notify", "request", "join",
                "flush", "lastFlush"}
ProducerPCs == {"idle", "lock", "notify", "flush", "flushing"}

Init ==
    /\ m_sequence = 0
    /\ m_mutex = "free"
    /\ m_queue = <<>>
    /\ m_accepting = FALSE
    /\ sink = <<>>
    /\ flushed = 0
    /\ worker = "none"
    /\ record = <<>>
    /\ draining = FALSE
    /\ stopRequested = FALSE
    /\ control = "down"
    /\ starts = 0
    /\ pc = [p \in Producers |-> "idle"]
    /\ mine = [p \in Producers |-> <<>>]
    /\ accepted = <<>>

-----------------------------------------------------------------------------
(* Log and Fatal *)

\* Log takes the next sequence number before it takes the mutex.
CallLog(p, fatal) ==
    /\ pc[p] = "idle"
    /\ m_sequence < MaxRecords
    /\ m_sequence' = m_sequence + 1
    /\ mine' = [mine EXCEPT ![p] = [sequence |-> m_sequence + 1, by |-> p, fatal |-> fatal]]
    /\ pc' = [pc EXCEPT ![p] = "lock"]
    /\ UNCHANGED <<m_queue, m_accepting, accepted, m_mutex, sinkVars, workerVars, controlVars>>

\* Where a call goes when Log returns: Fatal continues with Flush.
AfterLog(p) == IF mine[p].fatal THEN "flush" ELSE "idle"

\* Mutant: the worker is not notified.
EnqueueWithoutNotify(p) ==
    /\ pc[p] = "lock"
    /\ m_mutex = "free"
    /\ m_accepting
    /\ m_queue' = Append(m_queue, mine[p])
    /\ accepted' = Append(accepted, mine[p])
    /\ pc' = [pc EXCEPT ![p] = AfterLog(p)]
    /\ UNCHANGED <<m_sequence, m_accepting, m_mutex, sinkVars, workerVars, controlVars, mine>>

\* The critical section of Log: the record is queued, or dropped when the logger
\* does not accept.
Enqueue(p) ==
    /\ pc[p] = "lock"
    /\ m_mutex = "free"
    /\ IF m_accepting
         THEN /\ m_queue' = Append(m_queue, mine[p])
              /\ accepted' = Append(accepted, mine[p])
              /\ pc' = [pc EXCEPT ![p] = "notify"]
         ELSE /\ pc' = [pc EXCEPT ![p] = AfterLog(p)]
              /\ UNCHANGED <<m_queue, accepted>>
    /\ UNCHANGED <<m_sequence, m_accepting, m_mutex, sinkVars, workerVars, controlVars, mine>>

\* A notification wakes the worker if it is waiting, and is lost otherwise.
Woken == IF worker = "waiting" THEN "top" ELSE worker

\* m_cv.notify_one(), after the mutex was released.
NotifyOne(p) ==
    /\ pc[p] = "notify"
    /\ worker' = Woken
    /\ pc' = [pc EXCEPT ![p] = AfterLog(p)]
    /\ UNCHANGED <<queueVars, m_mutex, sinkVars, record, draining, stopRequested,
                   controlVars, mine>>

\* Flush, called by Fatal: the sinks are flushed under the mutex.
BeginFlush(p) ==
    /\ pc[p] = "flush"
    /\ m_mutex = "free"
    /\ m_mutex' = "producer"
    /\ pc' = [pc EXCEPT ![p] = "flushing"]
    /\ UNCHANGED <<queueVars, sinkVars, workerVars, controlVars, mine>>

EndFlush(p) ==
    /\ pc[p] = "flushing"
    /\ flushed' = Len(sink)
    /\ m_mutex' = "free"
    /\ pc' = [pc EXCEPT ![p] = "idle"]
    /\ UNCHANGED <<queueVars, sink, workerVars, controlVars, mine>>

\* What a producer does once it has called.
InLog(p) == Enqueue(p) \/ NotifyOne(p) \/ BeginFlush(p) \/ EndFlush(p)

-----------------------------------------------------------------------------
(* The worker *)

\* Mutant: the newest record is taken first.
TakeNewestRecord ==
    /\ worker = "top"
    /\ m_mutex = "free"
    /\ m_queue # <<>>
    /\ record' = m_queue[Len(m_queue)]
    /\ m_queue' = SubSeq(m_queue, 1, Len(m_queue) - 1)
    /\ worker' = "dispatch"
    /\ UNCHANGED <<m_sequence, m_accepting, accepted, m_mutex, sinkVars, draining,
                   stopRequested, controlVars, prodVars>>

\* The body of wait's loop, and the pop: with a record in the queue the worker
\* takes it, with none it ends its loop or waits.
TakeRecord ==
    /\ worker = "top"
    /\ m_mutex = "free"
    /\ m_queue # <<>>
    /\ record' = Head(m_queue)
    /\ m_queue' = Tail(m_queue)
    /\ worker' = "dispatch"
    /\ UNCHANGED <<m_sequence, m_accepting, accepted, m_mutex, sinkVars, draining,
                   stopRequested, controlVars, prodVars>>

\* Mutant: the wait's predicate looks at the queue only.
WaitForRecordOnly ==
    /\ worker = "top"
    /\ m_mutex = "free"
    /\ m_queue = <<>>
    /\ ~draining
    /\ worker' = "waiting"
    /\ UNCHANGED <<queueVars, m_mutex, sinkVars, record, draining, stopRequested,
                   controlVars, prodVars>>

\* With nothing to take and nothing to end for, the worker waits.
WaitForRecord ==
    /\ worker = "top"
    /\ m_mutex = "free"
    /\ m_queue = <<>>
    /\ ~draining /\ m_accepting /\ ~stopRequested
    /\ worker' = "waiting"
    /\ UNCHANGED <<queueVars, m_mutex, sinkVars, record, draining, stopRequested,
                   controlVars, prodVars>>

\* The first loop breaks when it finds the queue empty and the logger closed.
BeginDrain ==
    /\ worker = "top"
    /\ m_mutex = "free"
    /\ m_queue = <<>>
    /\ ~draining /\ (~m_accepting \/ stopRequested)
    /\ draining' = TRUE
    /\ UNCHANGED <<queueVars, m_mutex, sinkVars, worker, record, stopRequested,
                   controlVars, prodVars>>

\* The second loop ends when it finds the queue empty.
EndDrain ==
    /\ worker = "top"
    /\ m_mutex = "free"
    /\ m_queue = <<>>
    /\ draining
    /\ worker' = "exited"
    /\ UNCHANGED <<queueVars, m_mutex, sinkVars, record, draining, stopRequested,
                   controlVars, prodVars>>

\* A condition variable may wake a thread for no reason.
SpuriousWake ==
    /\ worker = "waiting"
    /\ worker' = "top"
    /\ UNCHANGED <<queueVars, m_mutex, sinkVars, record, draining, stopRequested,
                   controlVars, prodVars>>

\* Dispatch holds m_mutex while the sinks write.
BeginDispatch ==
    /\ worker = "dispatch"
    /\ m_mutex = "free"
    /\ m_mutex' = "worker"
    /\ worker' = "writing"
    /\ UNCHANGED <<queueVars, sinkVars, record, draining, stopRequested, controlVars, prodVars>>

\* Mutant: the record is written twice.
EndDispatchTwice ==
    /\ worker = "writing"
    /\ sink' = Append(Append(sink, record), record)
    /\ m_mutex' = "free"
    /\ worker' = "top"
    /\ UNCHANGED <<queueVars, flushed, record, draining, stopRequested, controlVars, prodVars>>

\* The sinks have the record and the mutex is released.
EndDispatch ==
    /\ worker = "writing"
    /\ sink' = Append(sink, record)
    /\ m_mutex' = "free"
    /\ worker' = "top"
    /\ UNCHANGED <<queueVars, flushed, record, draining, stopRequested, controlVars, prodVars>>

Worker == \/ TakeRecord \/ WaitForRecord \/ BeginDrain \/ EndDrain
          \/ BeginDispatch \/ EndDispatch

-----------------------------------------------------------------------------
(* Start, Flush and Stop *)

\* Start makes a worker with a stop token of its own.
Start ==
    /\ control = "down"
    /\ starts < MaxStarts
    /\ m_mutex = "free"
    /\ m_accepting' = TRUE
    /\ worker' = "top"
    /\ draining' = FALSE
    /\ stopRequested' = FALSE
    /\ control' = "up"
    /\ starts' = starts + 1
    /\ UNCHANGED <<m_sequence, m_queue, accepted, m_mutex, sinkVars, record, prodVars>>

\* The owner's thread calls Stop, as Logger_Manager::Stop does.
CallStop ==
    /\ control = "up"
    /\ control' = "stop"
    /\ UNCHANGED <<queueVars, m_mutex, sinkVars, workerVars, starts, prodVars>>

\* The owner's thread flushes and then calls Stop, as Runtime_Manager::Stop does.
CallFlush ==
    /\ control = "up"
    /\ m_mutex = "free"
    /\ m_mutex' = "control"
    /\ control' = "flushing"
    /\ UNCHANGED <<queueVars, sinkVars, workerVars, starts, prodVars>>

StopAccepting ==
    /\ control = "stop"
    /\ m_mutex = "free"
    /\ m_accepting' = FALSE
    /\ control' = "notify"
    /\ UNCHANGED <<m_sequence, m_queue, accepted, m_mutex, sinkVars, workerVars, starts, prodVars>>

NotifyAll ==
    /\ control = "notify"
    /\ worker' = Woken
    /\ control' = "request"
    /\ UNCHANGED <<queueVars, m_mutex, sinkVars, record, draining, stopRequested,
                   starts, prodVars>>

\* request_stop also wakes the wait that was given the token.
RequestStop ==
    /\ control = "request"
    /\ stopRequested' = TRUE
    /\ worker' = Woken
    /\ control' = "join"
    /\ UNCHANGED <<queueVars, m_mutex, sinkVars, record, draining, starts, prodVars>>

\* Mutant: the worker is detached, not joined.
JoinDetached ==
    /\ control = "join"
    /\ control' = "flush"
    /\ UNCHANGED <<queueVars, m_mutex, sinkVars, workerVars, starts, prodVars>>

\* The join waits for the worker's second loop.
Join ==
    /\ control = "join"
    /\ worker = "exited"
    /\ control' = "flush"
    /\ UNCHANGED <<queueVars, m_mutex, sinkVars, workerVars, starts, prodVars>>

BeginLastFlush ==
    /\ control = "flush"
    /\ m_mutex = "free"
    /\ m_mutex' = "control"
    /\ control' = "lastFlush"
    /\ UNCHANGED <<queueVars, sinkVars, workerVars, starts, prodVars>>

\* The end of a Flush by the owner's thread: Stop comes next, or returns.
EndControlFlush ==
    /\ control \in {"flushing", "lastFlush"}
    /\ flushed' = Len(sink)
    /\ m_mutex' = "free"
    /\ control' = IF control = "flushing" THEN "stop" ELSE "down"
    /\ UNCHANGED <<queueVars, sink, workerVars, starts, prodVars>>

\* What the owner's thread does once it has called Stop or Flush.
Control == \/ StopAccepting \/ NotifyAll \/ RequestStop \/ Join
           \/ BeginLastFlush \/ EndControlFlush

-----------------------------------------------------------------------------
Next ==
    \/ \E p \in Producers, fatal \in BOOLEAN : CallLog(p, fatal)
    \/ \E p \in Producers : InLog(p)
    \/ Worker \/ SpuriousWake
    \/ Start \/ CallStop \/ CallFlush \/ Control

Spec == Init /\ [][Next]_vars

\* Every thread that has something to do is scheduled; nothing makes a thread log
\* or stop the logger, and no wakeup comes without a cause.
FairSpec ==
    /\ Spec
    /\ WF_vars(Worker)
    /\ WF_vars(Control)
    /\ \A p \in Producers : WF_vars(InLog(p))

-----------------------------------------------------------------------------
(* Properties *)

TypeOK ==
    /\ m_sequence \in 0..MaxRecords
    /\ m_mutex \in {"free", "worker", "control", "producer"}
    /\ m_queue \in Seq(Records)
    /\ m_accepting \in BOOLEAN
    /\ sink \in Seq(Records)
    /\ flushed \in Nat
    /\ worker \in WorkerPCs
    /\ record \in Records \cup {<<>>}
    /\ draining \in BOOLEAN
    /\ stopRequested \in BOOLEAN
    /\ control \in ControlPCs
    /\ starts \in Nat
    /\ pc \in [Producers -> ProducerPCs]
    /\ mine \in [Producers -> Records \cup {<<>>}]
    /\ accepted \in Seq(Records)

\* The record that the worker holds between the pop and the write.
InHand == IF worker \in {"dispatch", "writing"} THEN <<record>> ELSE <<>>

\* Nothing is lost, doubled or reordered on the way: what was queued is what was
\* written, followed by the record in the worker's hand, followed by the queue.
InOrder == accepted = sink \o InHand \o m_queue

\* The worker never sleeps on a queued record or a closed logger: if it waits then
\* a notification is on its way.
NoLostWakeup ==
    worker = "waiting" /\ (m_queue # <<>> \/ ~m_accepting \/ stopRequested) =>
        \/ control \in {"notify", "request"}
        \/ \E p \in Producers : pc[p] = "notify"

\* When Stop has returned, each record that Log accepted before is in the sinks
\* and flushed, those that raced with Stop included.
StoppedMeansFlushed ==
    control = "down" => accepted = sink /\ flushed = Len(sink)

\* One producer's records come out in the order of its calls.
ProducerOrder ==
    \A i, j \in 1..Len(sink) :
        i < j /\ sink[i].by = sink[j].by => sink[i].sequence < sink[j].sequence

\* "Fatal errors synchronously flush diagnostics": when Fatal returns, the record it
\* queued (Log drops it when the logger is not accepting) is in the sinks and flushed.
Returns(p) == pc[p] # "idle" /\ pc'[p] = "idle"
Accepted(r) == \E i \in 1..Len(accepted) : accepted[i] = r
FatalFlushed ==
    [][\A p \in Producers :
          Returns(p) /\ mine[p].fatal /\ Accepted(mine[p]) =>
              \E i \in 1..flushed' : sink'[i] = mine[p]]_vars

\* A Stop returns: its notification and its stop request end the worker's wait.
StopReturns == control = "stop" ~> control = "down"

-----------------------------------------------------------------------------
(* The logger is a LogChannel. *)

Channel == INSTANCE LogChannel WITH
    open    <- m_accepting,
    sent    <- accepted,
    written <- sink

ImplementsChannel == Channel!Spec

\* Every record that Log accepted is written in the end.
ImplementsFairChannel == Channel!FairSpec
=============================================================================
