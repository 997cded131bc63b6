--------------------------- MODULE QueueExecutor ---------------------------
(***************************************************************************)
(* A named executor: callers of Submit append tasks to a queue under       *)
(* m_mutex and notify one worker; each worker waits with its stop token,   *)
(* takes the oldest task and runs it outside the mutex; Stop closes the    *)
(* queue, asks each worker to stop and joins them.                         *)
(* Source: ThreadManager.cpp, class QueueExecutor.                         *)
(*                                                                         *)
(* m_mutex is held over one step only, so it is not a variable.  A task is *)
(* named by the id that Submit gives it.                                   *)
(***************************************************************************)
EXTENDS Integers, Sequences, FiniteSets

CONSTANTS
    Workers,        \* the threads in m_workers
    Submitters,     \* the threads that call Submit
    MaxTasks        \* bound: calls of Submit

\* The constructor makes at least one worker.
ASSUME WorkersAssumption == Workers # {}

ASSUME MaxTasksAssumption == MaxTasks \in Nat

VARIABLES
    m_nextTask,
    m_queue,
    m_accepting,
    wpc,            \* where each worker is
    token,          \* stop_requested() of each worker's token
    item,           \* the task that each worker took
    pc,             \* where each caller of Submit is
    id,             \* the id of its task
    owner,          \* where the thread that stops and destroys the executor is
    fate,           \* history: what became of each task
    accepted,       \* history: the tasks in the order in which they were queued
    taken           \* history: the tasks in the order in which workers took them

queueVars  == <<m_queue, m_accepting, accepted, taken>>
workerVars == <<wpc, token, item>>
callVars   == <<m_nextTask, pc, id>>
vars == <<queueVars, workerVars, callVars, owner, fate>>

Tasks == 1..MaxTasks

WorkerPCs == {"top", "lock", "waiting", "run", "exited"}
CallPCs   == {"idle", "lock", "notify"}
OwnerPCs  == {"using", "stop", "notify", "request", "join", "stopped", "destroyed"}
Fates     == {"new", "refused", "queued", "running", "done", "failed", "dropped"}

Init ==
    /\ m_nextTask = 0
    /\ m_queue = <<>>
    /\ m_accepting = TRUE
    /\ wpc = [w \in Workers |-> "top"]
    /\ token = [w \in Workers |-> FALSE]
    /\ item = [w \in Workers |-> 0]
    /\ pc = [s \in Submitters |-> "idle"]
    /\ id = [s \in Submitters |-> 0]
    /\ owner = "using"
    /\ fate = [t \in Tasks |-> "new"]
    /\ accepted = <<>>
    /\ taken = <<>>

-----------------------------------------------------------------------------
(* Submit *)

\* ++m_nextTask, outside the mutex.
CallSubmit(s) ==
    /\ pc[s] = "idle"
    /\ m_nextTask < MaxTasks
    /\ owner # "destroyed"
    /\ m_nextTask' = m_nextTask + 1
    /\ id' = [id EXCEPT ![s] = m_nextTask + 1]
    /\ pc' = [pc EXCEPT ![s] = "lock"]
    /\ UNCHANGED <<queueVars, workerVars, owner, fate>>

\* Mutant: nobody is notified.
PushWithoutNotify(s) ==
    /\ pc[s] = "lock"
    /\ m_accepting
    /\ m_queue' = Append(m_queue, id[s])
    /\ accepted' = Append(accepted, id[s])
    /\ fate' = [fate EXCEPT ![id[s]] = "queued"]
    /\ pc' = [pc EXCEPT ![s] = "idle"]
    /\ UNCHANGED <<m_nextTask, m_accepting, taken, workerVars, id, owner>>

\* The critical section of an executor that accepts.
Push(s) ==
    /\ pc[s] = "lock"
    /\ m_accepting
    /\ m_queue' = Append(m_queue, id[s])
    /\ accepted' = Append(accepted, id[s])
    /\ fate' = [fate EXCEPT ![id[s]] = "queued"]
    /\ pc' = [pc EXCEPT ![s] = "notify"]
    /\ UNCHANGED <<m_nextTask, m_accepting, taken, workerVars, id, owner>>

\* "Executor is stopped": Submit throws.
Refuse(s) ==
    /\ pc[s] = "lock"
    /\ ~m_accepting
    /\ fate' = [fate EXCEPT ![id[s]] = "refused"]
    /\ pc' = [pc EXCEPT ![s] = "idle"]
    /\ UNCHANGED <<queueVars, workerVars, m_nextTask, id, owner>>

Waiting == {w \in Workers : wpc[w] = "waiting"}

\* m_cv.notify_one(): some waiting worker wakes, or the notification is lost.
NotifyOne(s) ==
    /\ pc[s] = "notify"
    /\ IF Waiting = {}
         THEN wpc' = wpc
         ELSE \E w \in Waiting : wpc' = [wpc EXCEPT ![w] = "lock"]
    /\ pc' = [pc EXCEPT ![s] = "idle"]
    /\ UNCHANGED <<queueVars, token, item, m_nextTask, id, owner, fate>>

\* What a caller does once it has called.
InSubmit(s) == Push(s) \/ Refuse(s) \/ NotifyOne(s)

-----------------------------------------------------------------------------
(* The workers *)

\* A worker moves and changes nothing else.
Goto(w, from, to) ==
    /\ wpc[w] = from
    /\ wpc' = [wpc EXCEPT ![w] = to]
    /\ UNCHANGED <<queueVars, token, item, callVars, owner, fate>>

\* while (!token.stop_requested())
TestToken(w) == Goto(w, "top", IF token[w] THEN "exited" ELSE "lock")

\* Mutant: the newest task is taken first.
TakeNewest(w) ==
    /\ wpc[w] = "lock"
    /\ m_queue # <<>>
    /\ item' = [item EXCEPT ![w] = m_queue[Len(m_queue)]]
    /\ m_queue' = SubSeq(m_queue, 1, Len(m_queue) - 1)
    /\ taken' = Append(taken, m_queue[Len(m_queue)])
    /\ fate' = [fate EXCEPT ![m_queue[Len(m_queue)]] = "running"]
    /\ wpc' = [wpc EXCEPT ![w] = "run"]
    /\ UNCHANGED <<m_accepting, accepted, token, callVars, owner>>

\* Mutant: the task is copied and left in the queue.
TakeWithoutPop(w) ==
    /\ wpc[w] = "lock"
    /\ m_queue # <<>>
    /\ item' = [item EXCEPT ![w] = Head(m_queue)]
    /\ taken' = Append(taken, Head(m_queue))
    /\ fate' = [fate EXCEPT ![Head(m_queue)] = "running"]
    /\ wpc' = [wpc EXCEPT ![w] = "run"]
    /\ UNCHANGED <<m_queue, m_accepting, accepted, token, callVars, owner>>

\* With a task in the queue the wait returns and the worker takes it, also when
\* its token was set meanwhile.
Take(w) ==
    /\ wpc[w] = "lock"
    /\ m_queue # <<>>
    /\ item' = [item EXCEPT ![w] = Head(m_queue)]
    /\ m_queue' = Tail(m_queue)
    /\ taken' = Append(taken, Head(m_queue))
    /\ fate' = [fate EXCEPT ![Head(m_queue)] = "running"]
    /\ wpc' = [wpc EXCEPT ![w] = "run"]
    /\ UNCHANGED <<m_accepting, accepted, token, callVars, owner>>

\* Mutant: the wait's predicate looks at the queue only, and has no token.
WaitForTaskOnly(w) ==
    m_queue = <<>> /\ Goto(w, "lock", "waiting")

\* With nothing to take the worker breaks when the executor is closed or its
\* token is set, and waits otherwise.
WaitOrBreak(w) ==
    /\ m_queue = <<>>
    /\ Goto(w, "lock", IF m_accepting /\ ~token[w] THEN "waiting" ELSE "exited")

\* The task returns, or throws into the empty handler.
Run(w) ==
    /\ wpc[w] = "run"
    /\ \E end \in {"done", "failed"} : fate' = [fate EXCEPT ![item[w]] = end]
    /\ item' = [item EXCEPT ![w] = 0]
    /\ wpc' = [wpc EXCEPT ![w] = "top"]
    /\ UNCHANGED <<queueVars, token, callVars, owner>>

Worker(w) == TestToken(w) \/ Take(w) \/ WaitOrBreak(w) \/ Run(w)

\* A condition variable may wake a thread for no reason.
SpuriousWake(w) == Goto(w, "waiting", "lock")

-----------------------------------------------------------------------------
(* Stop, and the end of the executor *)

CallStop ==
    /\ owner = "using"
    /\ owner' = "stop"
    /\ UNCHANGED <<queueVars, workerVars, callVars, fate>>

\* Mutant: the executor goes on accepting.
StopKeepsAccepting ==
    /\ owner = "stop"
    /\ owner' = "notify"
    /\ UNCHANGED <<queueVars, workerVars, callVars, fate>>

StopAccepting ==
    /\ owner = "stop"
    /\ m_accepting' = FALSE
    /\ owner' = "notify"
    /\ UNCHANGED <<m_queue, accepted, taken, workerVars, callVars, fate>>

NotifyAll ==
    /\ owner = "notify"
    /\ wpc' = [w \in Workers |-> IF wpc[w] = "waiting" THEN "lock" ELSE wpc[w]]
    /\ owner' = "request"
    /\ UNCHANGED <<queueVars, token, item, callVars, fate>>

\* request_stop on one worker, which also wakes its wait.
RequestStop(w) ==
    /\ owner = "request"
    /\ ~token[w]
    /\ token' = [token EXCEPT ![w] = TRUE]
    /\ wpc' = [wpc EXCEPT ![w] = IF @ = "waiting" THEN "lock" ELSE @]
    /\ UNCHANGED <<queueVars, item, callVars, owner, fate>>

BeginJoin ==
    /\ owner = "request"
    /\ \A w \in Workers : token[w]
    /\ owner' = "join"
    /\ UNCHANGED <<queueVars, workerVars, callVars, fate>>

\* Mutant: m_workers are detached.
JoinDetached ==
    /\ owner = "join"
    /\ owner' = "stopped"
    /\ UNCHANGED <<queueVars, workerVars, callVars, fate>>

\* m_workers.clear() joins every worker.
Join ==
    /\ owner = "join"
    /\ \A w \in Workers : wpc[w] = "exited"
    /\ owner' = "stopped"
    /\ UNCHANGED <<queueVars, workerVars, callVars, fate>>

\* The destructor, whose own Stop returns at once, destroys the queue.  Nobody may
\* be inside Submit then.
Destroy ==
    /\ owner = "stopped"
    /\ \A s \in Submitters : pc[s] = "idle"
    /\ m_queue' = <<>>
    /\ fate' = [t \in Tasks |-> IF fate[t] = "queued" THEN "dropped" ELSE fate[t]]
    /\ owner' = "destroyed"
    /\ UNCHANGED <<m_accepting, accepted, taken, workerVars, callVars>>

\* What the owner does once it has called Stop.
Owner ==
    \/ StopAccepting \/ NotifyAll \/ BeginJoin \/ Join \/ Destroy
    \/ \E w \in Workers : RequestStop(w)

-----------------------------------------------------------------------------
Next ==
    \/ \E s \in Submitters : CallSubmit(s) \/ InSubmit(s)
    \/ \E w \in Workers : Worker(w) \/ SpuriousWake(w)
    \/ CallStop \/ Owner

Spec == Init /\ [][Next]_vars

\* Every thread that has something to do is scheduled and every task ends; nothing
\* makes a thread submit or stop, and no wakeup comes without a cause.
FairSpec ==
    /\ Spec
    /\ WF_vars(Owner)
    /\ \A w \in Workers : WF_vars(Worker(w))
    /\ \A s \in Submitters : WF_vars(InSubmit(s))

-----------------------------------------------------------------------------
(* Properties *)

TypeOK ==
    /\ m_nextTask \in 0..MaxTasks
    /\ m_queue \in Seq(Tasks)
    /\ m_accepting \in BOOLEAN
    /\ wpc \in [Workers -> WorkerPCs]
    /\ token \in [Workers -> BOOLEAN]
    /\ item \in [Workers -> 0..MaxTasks]
    /\ pc \in [Submitters -> CallPCs]
    /\ id \in [Submitters -> 0..MaxTasks]
    /\ owner \in OwnerPCs
    /\ fate \in [Tasks -> Fates]
    /\ accepted \in Seq(Tasks)
    /\ taken \in Seq(Tasks)

\* Tasks are taken in the order in which they were queued, each once: what was
\* queued is what was taken followed by the queue.
TakenInOrder == owner # "destroyed" => accepted = taken \o m_queue

\* A task runs in one worker only, the one that holds it.
RunsInOneWorker ==
    /\ \A w \in Workers : wpc[w] = "run" => item[w] # 0 /\ fate[item[w]] = "running"
    /\ \A v, w \in Workers : wpc[v] = "run" /\ wpc[w] = "run" /\ item[v] = item[w] => v = w

\* The workers never all sleep on a queued task: a notification is on its way.
NoLostWakeup ==
    m_queue # <<>> /\ Waiting = Workers =>
        \/ owner \in {"notify", "request"}
        \/ \E s \in Submitters : pc[s] = "notify"

\* When Stop has returned no worker is left, and none begins a task later.
StoppedMeansQuiet ==
    owner \in {"stopped", "destroyed"} =>
        /\ \A w \in Workers : wpc[w] = "exited"
        /\ \A t \in Tasks : fate[t] # "running"

\* A Stop returns and the executor goes, whatever the workers were doing.
StopReturns == owner = "stop" ~> owner = "destroyed"

\* Every task that was queued runs to its end, or is dropped with the executor.
QueuedTaskEnds ==
    \A t \in Tasks : fate[t] = "queued" ~> fate[t] \in {"done", "failed", "dropped"}

-----------------------------------------------------------------------------
(* The executor is a TaskPool. *)

Pool == INSTANCE TaskPool WITH open <- m_accepting

ImplementsPool == Pool!Spec
=============================================================================
