------------------------ MODULE QueueExecutorProofs ------------------------
(***************************************************************************)
(* Proofs about QueueExecutor, for any number of workers, of callers and   *)
(* of tasks.                                                               *)
(***************************************************************************)
EXTENDS QueueExecutor, TLAPS

Types ==
    /\ m_nextTask \in 0..MaxTasks
    /\ m_queue \in Seq(Tasks)
    /\ wpc \in [Workers -> WorkerPCs]
    /\ item \in [Workers -> 0..MaxTasks]
    /\ pc \in [Submitters -> CallPCs]
    /\ id \in [Submitters -> 0..MaxTasks]
    /\ owner \in OwnerPCs
    /\ fate \in [Tasks -> Fates]
    /\ accepted \in Seq(Tasks)
    /\ taken \in Seq(Tasks)

\* A caller holds an id of its own, whose task nobody has seen yet.
CallsInv ==
    /\ \A t \in Tasks : t > m_nextTask => fate[t] = "new"
    /\ \A s \in Submitters : pc[s] = "lock" =>
           id[s] \in 1..m_nextTask /\ fate[id[s]] = "new"
    /\ \A r, s \in Submitters :
           pc[r] = "lock" /\ pc[s] = "lock" /\ id[r] = id[s] => r = s

\* The queue holds queued tasks, each once.
QueueInv ==
    /\ \A i \in 1..Len(m_queue) : fate[m_queue[i]] = "queued"
    /\ \A i, j \in 1..Len(m_queue) : m_queue[i] = m_queue[j] => i = j

\* Every running task is in the hands of a worker.
RunInv ==
    /\ RunsInOneWorker
    /\ \A t \in Tasks : fate[t] = "running" => \E w \in Workers : wpc[w] = "run" /\ item[w] = t

OwnerInv ==
    /\ m_accepting <=> owner \in {"using", "stop"}
    /\ owner \in {"stopped", "destroyed"} => \A w \in Workers : wpc[w] = "exited"

TokenInv ==
    /\ DOMAIN token = Workers
    /\ \A w \in Workers : token[w] => wpc[w] # "waiting"
    /\ owner = "join" => \A w \in Workers : token[w]

TaskInv == Types /\ CallsInv /\ QueueInv /\ RunInv

-----------------------------------------------------------------------------
(* Types *)

LEMMA TypesInit == Init => Types
  BY MaxTasksAssumption DEF Init, Types, Tasks, WorkerPCs, CallPCs, OwnerPCs, Fates

LEMMA TypesStep == Types /\ CallsInv /\ RunInv /\ [Next]_vars => Types'
<1> SUFFICES ASSUME Types, CallsInv, RunInv, [Next]_vars
             PROVE  Types'
  OBVIOUS
<1> USE MaxTasksAssumption DEF Types, WorkerPCs, CallPCs, OwnerPCs, Fates, queueVars,
        workerVars, callVars
<1>1. ASSUME NEW s \in Submitters, CallSubmit(s) \/ InSubmit(s)
      PROVE  Types'
  <2>1. CASE CallSubmit(s)
    BY <2>1 DEF CallSubmit
  <2>2. CASE Push(s)
    <3>1. id[s] \in Tasks
      BY <2>2 DEF Push, CallsInv, Tasks
    <3>2. Append(m_queue, id[s]) \in Seq(Tasks) /\ Append(accepted, id[s]) \in Seq(Tasks)
      BY <3>1
    <3> QED
      BY <2>2, <3>2 DEF Push
  <2>3. CASE Refuse(s)
    BY <2>3 DEF Refuse
  <2>4. CASE NotifyOne(s)
    <3>1. wpc' \in [Workers -> WorkerPCs]
      BY <2>4 DEF NotifyOne, Waiting
    <3> QED
      BY <2>4, <3>1 DEF NotifyOne
  <2> QED
    BY <1>1, <2>1, <2>2, <2>3, <2>4 DEF InSubmit
<1>2. ASSUME NEW w \in Workers, Worker(w) \/ SpuriousWake(w)
      PROVE  Types'
  <2>1. CASE Take(w)
    <3>1. Head(m_queue) \in Tasks /\ Tail(m_queue) \in Seq(Tasks)
      BY <2>1 DEF Take
    <3>2. Append(taken, Head(m_queue)) \in Seq(Tasks)
      BY <3>1
    <3>3. item' \in [Workers -> 0..MaxTasks]
      BY <2>1, <3>1 DEF Take, Tasks
    <3>4. fate' \in [Tasks -> Fates] /\ wpc' \in [Workers -> WorkerPCs]
      BY <2>1, <3>1 DEF Take
    <3>5. m_queue' = Tail(m_queue) /\ taken' = Append(taken, Head(m_queue))
      BY <2>1 DEF Take
    <3>6. UNCHANGED <<m_nextTask, pc, id, owner, accepted>>
      BY <2>1 DEF Take
    <3>7. m_queue' \in Seq(Tasks) /\ taken' \in Seq(Tasks)
      BY <3>1, <3>2, <3>5
    <3>8. /\ m_nextTask' \in 0..MaxTasks
          /\ pc' \in [Submitters -> CallPCs] /\ id' \in [Submitters -> 0..MaxTasks]
          /\ owner' \in OwnerPCs /\ accepted' \in Seq(Tasks)
      BY <3>6
    <3> QED
      BY <3>3, <3>4, <3>7, <3>8, Zenon
  <2>2. CASE Run(w)
    <3>1. PICK end \in {"done", "failed"} : fate' = [fate EXCEPT ![item[w]] = end]
      BY <2>2 DEF Run
    <3>2. fate' \in [Tasks -> Fates]
      BY <3>1
    <3>3. item' \in [Workers -> 0..MaxTasks] /\ wpc' \in [Workers -> WorkerPCs]
      BY <2>2 DEF Run
    <3> QED
      BY <2>2, <3>2, <3>3 DEF Run
  <2>3. CASE TestToken(w) \/ WaitOrBreak(w) \/ SpuriousWake(w)
    <3>1. \E to \in WorkerPCs : wpc' = [wpc EXCEPT ![w] = to]
      BY <2>3 DEF TestToken, WaitOrBreak, SpuriousWake, Goto
    <3>2. UNCHANGED <<queueVars, item, callVars, owner, fate>>
      BY <2>3 DEF TestToken, WaitOrBreak, SpuriousWake, Goto
    <3> QED
      BY <3>1, <3>2
  <2> QED
    BY <1>2, <2>1, <2>2, <2>3 DEF Worker
<1>3. CASE CallStop \/ Owner
  <2>1. CASE Destroy
    BY <2>1 DEF Destroy
  <2>2. CASE CallStop \/ StopAccepting \/ BeginJoin \/ Join
    BY <2>2 DEF CallStop, StopAccepting, BeginJoin, Join
  <2>3. CASE NotifyAll
    BY <2>3 DEF NotifyAll
  <2>4. ASSUME NEW w \in Workers, RequestStop(w)
        PROVE  Types'
    BY <2>4 DEF RequestStop
  <2> QED
    BY <1>3, <2>1, <2>2, <2>3, <2>4 DEF Owner
<1>4. CASE UNCHANGED vars
  BY <1>4 DEF vars
<1> QED
  BY <1>1, <1>2, <1>3, <1>4 DEF Next

-----------------------------------------------------------------------------
(* Tasks *)

LEMMA TaskInit == Init => CallsInv /\ QueueInv /\ RunInv
  BY DEF Init, CallsInv, QueueInv, RunInv, RunsInOneWorker

\* The steps that move a task.
MovesTask ==
    \/ \E s \in Submitters : CallSubmit(s) \/ Push(s) \/ Refuse(s)
    \/ \E w \in Workers : Take(w) \/ Run(w)
    \/ Destroy

\* The other steps neither change a task nor who runs it, nor who is in Push.
LEMMA OtherSteps ==
    ASSUME Types, [Next]_vars, ~MovesTask
    PROVE  /\ UNCHANGED <<m_nextTask, m_queue, item, id, fate, accepted, taken>>
           /\ \A w \in Workers : wpc'[w] = "run" <=> wpc[w] = "run"
           /\ \A s \in Submitters : pc'[s] = "lock" <=> pc[s] = "lock"
<1> DEFINE Goal ==
        /\ UNCHANGED <<m_nextTask, m_queue, item, id, fate, accepted, taken>>
        /\ \A w \in Workers : wpc'[w] = "run" <=> wpc[w] = "run"
        /\ \A s \in Submitters : pc'[s] = "lock" <=> pc[s] = "lock"
<1> USE DEF Types, queueVars, workerVars, callVars
<1>1. ASSUME NEW s \in Submitters, CallSubmit(s) \/ InSubmit(s)
      PROVE  Goal
  <2>1. NotifyOne(s)
    BY <1>1 DEF InSubmit, MovesTask
  <2>2. \A w \in Workers : wpc'[w] = "run" <=> wpc[w] = "run"
    BY <2>1 DEF NotifyOne, Waiting
  <2> QED
    BY <2>1, <2>2 DEF NotifyOne
<1>2. ASSUME NEW w \in Workers, Worker(w) \/ SpuriousWake(w)
      PROVE  Goal
  <2>1. TestToken(w) \/ WaitOrBreak(w) \/ SpuriousWake(w)
    BY <1>2 DEF Worker, MovesTask
  <2>2. /\ wpc[w] # "run"
        /\ \E to \in WorkerPCs \ {"run"} : wpc' = [wpc EXCEPT ![w] = to]
        /\ UNCHANGED <<queueVars, item, callVars, fate>>
    BY <2>1 DEF TestToken, WaitOrBreak, SpuriousWake, Goto, WorkerPCs
  <2> QED
    BY <2>2
<1>3. CASE CallStop \/ Owner
  <2>1. CASE CallStop \/ StopAccepting \/ BeginJoin \/ Join
    BY <2>1 DEF CallStop, StopAccepting, BeginJoin, Join
  <2>2. CASE NotifyAll
    BY <2>2 DEF NotifyAll
  <2>3. ASSUME NEW w \in Workers, RequestStop(w)
        PROVE  Goal
    BY <2>3 DEF RequestStop
  <2> QED
    BY <1>3, <2>1, <2>2, <2>3 DEF Owner, MovesTask
<1>4. CASE UNCHANGED vars
  BY <1>4 DEF vars
<1> QED
  BY <1>1, <1>2, <1>3, <1>4 DEF Next

LEMMA CallSubmitKeeps ==
    ASSUME TaskInv, NEW s \in Submitters, CallSubmit(s)
    PROVE  CallsInv' /\ QueueInv' /\ RunInv'
<1> USE DEF TaskInv, Types
<1>1. /\ m_nextTask \in Nat /\ m_nextTask' = m_nextTask + 1 /\ m_nextTask' \in Tasks
      /\ pc[s] = "idle"
      /\ pc' = [pc EXCEPT ![s] = "lock"] /\ id' = [id EXCEPT ![s] = m_nextTask + 1]
      /\ UNCHANGED <<m_queue, wpc, item, fate>>
  BY MaxTasksAssumption DEF CallSubmit, Tasks, queueVars, workerVars
<1>2. CallsInv'
  BY <1>1, MaxTasksAssumption DEF CallsInv, Tasks
<1>3. QueueInv' /\ RunInv'
  BY <1>1 DEF QueueInv, RunInv, RunsInOneWorker
<1> QED
  BY <1>2, <1>3

LEMMA PushKeeps ==
    ASSUME TaskInv, NEW s \in Submitters, Push(s)
    PROVE  CallsInv' /\ QueueInv' /\ RunInv'
<1> USE DEF TaskInv, Types
<1>1. /\ id[s] \in Tasks /\ fate[id[s]] = "new" /\ pc[s] = "lock"
      /\ m_queue' = Append(m_queue, id[s])
      /\ fate' = [fate EXCEPT ![id[s]] = "queued"]
      /\ pc' = [pc EXCEPT ![s] = "notify"]
      /\ id[s] <= m_nextTask
      /\ UNCHANGED <<m_nextTask, wpc, item, id>>
  BY MaxTasksAssumption DEF Push, CallsInv, Tasks, workerVars
<1>2. CallsInv'
  BY <1>1, MaxTasksAssumption DEF CallsInv, Tasks
<1>3. /\ Len(m_queue) \in Nat /\ Len(m_queue') = Len(m_queue) + 1
      /\ m_queue'[Len(m_queue) + 1] = id[s]
      /\ \A i \in 1..Len(m_queue) : m_queue'[i] = m_queue[i] /\ m_queue[i] \in Tasks
  BY <1>1
<1>4. QueueInv'
  BY <1>1, <1>3 DEF QueueInv
<1>5. RunInv'
  BY <1>1 DEF RunInv, RunsInOneWorker, Tasks
<1> QED
  BY <1>2, <1>4, <1>5

LEMMA RefuseKeeps ==
    ASSUME TaskInv, NEW s \in Submitters, Refuse(s)
    PROVE  CallsInv' /\ QueueInv' /\ RunInv'
<1> USE DEF TaskInv, Types
<1>1. /\ id[s] \in Tasks /\ fate[id[s]] = "new" /\ pc[s] = "lock"
      /\ fate' = [fate EXCEPT ![id[s]] = "refused"]
      /\ pc' = [pc EXCEPT ![s] = "idle"]
      /\ id[s] <= m_nextTask
      /\ UNCHANGED <<m_nextTask, m_queue, wpc, item, id>>
  BY MaxTasksAssumption DEF Refuse, CallsInv, Tasks, workerVars, queueVars
<1>2. CallsInv'
  BY <1>1, MaxTasksAssumption DEF CallsInv, Tasks
<1>3. QueueInv'
  BY <1>1 DEF QueueInv
<1>4. RunInv'
  BY <1>1 DEF RunInv, RunsInOneWorker, Tasks
<1> QED
  BY <1>2, <1>3, <1>4

LEMMA TakeKeeps ==
    ASSUME TaskInv, NEW w \in Workers, Take(w)
    PROVE  CallsInv' /\ QueueInv' /\ RunInv'
<1> USE DEF TaskInv, Types
<1> DEFINE t == Head(m_queue)
<1>1. /\ t \in Tasks /\ t = m_queue[1] /\ Len(m_queue) \in Nat \ {0}
      /\ Len(Tail(m_queue)) = Len(m_queue) - 1
      /\ \A i \in 1..Len(Tail(m_queue)) : Tail(m_queue)[i] = m_queue[i + 1]
      /\ \A i \in 1..Len(m_queue) : m_queue[i] \in Tasks
  BY DEF Take
<1>2. /\ wpc[w] = "lock"
      /\ m_queue' = Tail(m_queue)
      /\ fate' = [fate EXCEPT ![t] = "running"]
      /\ wpc' = [wpc EXCEPT ![w] = "run"]
      /\ item' = [item EXCEPT ![w] = t]
      /\ UNCHANGED <<m_nextTask, pc, id>>
  BY DEF Take, callVars
<1> HIDE DEF t
<1>3. fate[t] = "queued"
  BY <1>1 DEF QueueInv
<1>4. CallsInv'
  BY <1>1, <1>2, <1>3, MaxTasksAssumption DEF CallsInv, Tasks
<1>5. QueueInv'
  BY <1>1, <1>2, <1>3 DEF QueueInv
<1>6. t # 0
  BY <1>1 DEF Tasks
<1>7. RunInv'
  BY <1>1, <1>2, <1>3, <1>6 DEF RunInv, RunsInOneWorker
<1> QED
  BY <1>4, <1>5, <1>7

LEMMA RunKeeps ==
    ASSUME TaskInv, NEW w \in Workers, Run(w)
    PROVE  CallsInv' /\ QueueInv' /\ RunInv'
<1> USE DEF TaskInv, Types
<1>1. /\ wpc[w] = "run" /\ item[w] \in Tasks /\ fate[item[w]] = "running"
      /\ wpc' = [wpc EXCEPT ![w] = "top"]
      /\ item' = [item EXCEPT ![w] = 0]
      /\ UNCHANGED <<m_nextTask, m_queue, pc, id>>
  BY MaxTasksAssumption DEF Run, RunInv, RunsInOneWorker, Tasks, queueVars, callVars
<1>2. PICK end \in {"done", "failed"} : fate' = [fate EXCEPT ![item[w]] = end]
  BY DEF Run
<1>3. CallsInv'
  BY <1>1, <1>2, MaxTasksAssumption DEF CallsInv, Tasks
<1>4. QueueInv'
  BY <1>1, <1>2 DEF QueueInv
<1>5. /\ wpc'[w] = "top"
      /\ \A v \in Workers : v # w => wpc'[v] = wpc[v] /\ item'[v] = item[v]
      /\ \A v \in Workers : v # w /\ wpc[v] = "run" => item[v] \in Tasks /\ item[v] # item[w]
      /\ \A t \in Tasks : t # item[w] => fate'[t] = fate[t]
      /\ fate'[item[w]] # "running"
  BY <1>1, <1>2, MaxTasksAssumption DEF RunInv, RunsInOneWorker, Tasks
<1>9. /\ RunsInOneWorker
      /\ \A t \in Tasks : fate[t] = "running" => \E v \in Workers : wpc[v] = "run" /\ item[v] = t
  BY DEF RunInv
<1> HIDE DEF TaskInv, Types
<1>6. RunsInOneWorker'
  <2>1. ASSUME NEW v \in Workers, wpc'[v] = "run"
        PROVE  v # w /\ item'[v] = item[v] /\ item'[v] # 0 /\ fate'[item'[v]] = "running"
    BY <1>5, <1>9, <2>1 DEF RunsInOneWorker
  <2>2. \A u, v \in Workers :
            wpc'[u] = "run" /\ wpc'[v] = "run" /\ item'[u] = item'[v] => u = v
    BY <1>5, <1>9, <2>1 DEF RunsInOneWorker
  <2> QED
    BY <2>1, <2>2 DEF RunsInOneWorker
<1>7. \A t \in Tasks : fate'[t] = "running" => \E v \in Workers : wpc'[v] = "run" /\ item'[v] = t
  <2> SUFFICES ASSUME NEW t \in Tasks, fate'[t] = "running"
               PROVE  \E v \in Workers : wpc'[v] = "run" /\ item'[v] = t
    OBVIOUS
  <2>1. t # item[w] /\ fate[t] = "running"
    BY <1>5
  <2>2. PICK v \in Workers : wpc[v] = "run" /\ item[v] = t
    BY <1>9, <2>1
  <2> QED
    BY <1>5, <2>1, <2>2
<1>8. RunInv'
  BY <1>6, <1>7 DEF RunInv
<1> QED
  BY <1>3, <1>4, <1>8

LEMMA DestroyKeeps ==
    ASSUME TaskInv, Destroy
    PROVE  CallsInv' /\ QueueInv' /\ RunInv'
<1> USE DEF TaskInv, Types
<1>1. /\ m_queue' = <<>>
      /\ \A t \in Tasks : fate'[t] = IF fate[t] = "queued" THEN "dropped" ELSE fate[t]
      /\ \A s \in Submitters : pc'[s] = "idle"
      /\ UNCHANGED <<m_nextTask, wpc, item>>
  BY DEF Destroy, workerVars, callVars
<1>2. CallsInv' /\ QueueInv'
  BY <1>1 DEF CallsInv, QueueInv
<1>3. /\ RunsInOneWorker
      /\ \A w \in Workers : wpc[w] = "run" => item[w] \in Tasks
      /\ \A t \in Tasks : fate[t] = "running" => \E v \in Workers : wpc[v] = "run" /\ item[v] = t
  BY MaxTasksAssumption DEF RunInv, RunsInOneWorker, Tasks
<1> HIDE DEF TaskInv, Types
<1>4. RunsInOneWorker'
  BY <1>1, <1>3 DEF RunsInOneWorker
<1>5. RunInv'
  BY <1>1, <1>3, <1>4 DEF RunInv
<1> QED
  BY <1>2, <1>5

LEMMA TaskStep == TaskInv /\ [Next]_vars => TaskInv'
<1> SUFFICES ASSUME TaskInv, [Next]_vars
             PROVE  TaskInv'
  OBVIOUS
<1>1. Types'
  BY TypesStep DEF TaskInv
<1>2. CallsInv' /\ QueueInv' /\ RunInv'
  <2>1. CASE MovesTask
    BY <2>1, CallSubmitKeeps, PushKeeps, RefuseKeeps, TakeKeeps, RunKeeps, DestroyKeeps
    DEF MovesTask
  <2>2. CASE ~MovesTask
    <3>1. /\ UNCHANGED <<m_nextTask, m_queue, item, id, fate>>
          /\ \A w \in Workers : wpc'[w] = "run" <=> wpc[w] = "run"
          /\ \A s \in Submitters : pc'[s] = "lock" <=> pc[s] = "lock"
      BY <2>2, OtherSteps DEF TaskInv
    <3> QED
      BY <3>1 DEF TaskInv, CallsInv, QueueInv, RunInv, RunsInOneWorker
  <2> QED
    BY <2>1, <2>2
<1> QED
  BY <1>1, <1>2 DEF TaskInv

LEMMA TaskCorrect == Spec => []TaskInv
<1>1. Init => TaskInv
  BY TypesInit, TaskInit DEF TaskInv
<1> QED
  BY <1>1, TaskStep, PTL DEF Spec

\* No task runs twice, and none in two workers at once.
THEOREM RunsInOneWorkerCorrect == Spec => []RunsInOneWorker
<1>1. TaskInv => RunsInOneWorker
  BY DEF TaskInv, RunInv
<1> QED
  BY <1>1, TaskCorrect, PTL

-----------------------------------------------------------------------------
(* Order *)

LEMMA AppendToConcat ==
    \A s, t \in Seq(Tasks), e \in Tasks : Append(s \o t, e) = s \o Append(t, e)
  OBVIOUS

LEMMA HeadToFront ==
    \A s, t \in Seq(Tasks) : t # <<>> => s \o t = Append(s, Head(t)) \o Tail(t)
  OBVIOUS

LEMMA DestroyedForever ==
    ASSUME owner = "destroyed", [Next]_vars
    PROVE  owner' = "destroyed"
<1>1. ASSUME NEW s \in Submitters, CallSubmit(s) \/ InSubmit(s)
      PROVE  owner' = owner
  BY <1>1 DEF CallSubmit, InSubmit, Push, Refuse, NotifyOne
<1>2. ASSUME NEW w \in Workers, Worker(w) \/ SpuriousWake(w)
      PROVE  owner' = owner
  BY <1>2 DEF Worker, TestToken, Take, WaitOrBreak, Run, SpuriousWake, Goto
<1>3. ~(CallStop \/ Owner)
  BY DEF CallStop, Owner, StopAccepting, NotifyAll, RequestStop, BeginJoin, Join, Destroy
<1>4. CASE UNCHANGED vars
  BY <1>4 DEF vars
<1> QED
  BY <1>1, <1>2, <1>3, <1>4 DEF Next

LEMMA TakenStep ==
    ASSUME TaskInv, TakenInOrder, [Next]_vars
    PROVE  TakenInOrder'
<1>1. SUFFICES ASSUME owner' # "destroyed"
               PROVE  accepted' = taken' \o m_queue'
  BY DEF TakenInOrder
<1>2. /\ accepted \in Seq(Tasks) /\ taken \in Seq(Tasks) /\ m_queue \in Seq(Tasks)
  BY DEF TaskInv, Types
<1>3. ASSUME NEW s \in Submitters, Push(s)
      PROVE  accepted' = taken' \o m_queue'
  <2>1. id[s] \in Tasks
    BY <1>3, MaxTasksAssumption DEF Push, TaskInv, Types, CallsInv, Tasks
  <2>2. /\ m_queue' = Append(m_queue, id[s]) /\ accepted' = Append(accepted, id[s])
        /\ taken' = taken /\ owner' = owner
    BY <1>3 DEF Push
  <2>3. accepted = taken \o m_queue
    BY <1>1, <2>2 DEF TakenInOrder
  <2> QED
    BY <1>2, <2>1, <2>2, <2>3, AppendToConcat
<1>4. ASSUME NEW w \in Workers, Take(w)
      PROVE  accepted' = taken' \o m_queue'
  <2>1. /\ m_queue # <<>> /\ m_queue' = Tail(m_queue) /\ accepted' = accepted
        /\ taken' = Append(taken, Head(m_queue)) /\ owner' = owner
    BY <1>4 DEF Take
  <2>2. accepted = taken \o m_queue
    BY <1>1, <2>1 DEF TakenInOrder
  <2> QED
    BY <1>2, <2>1, <2>2, HeadToFront
<1>5. CASE \E s \in Submitters : CallSubmit(s) \/ Refuse(s)
  BY <1>1, <1>5 DEF CallSubmit, Refuse, queueVars, TakenInOrder
<1>6. CASE \E w \in Workers : Run(w)
  BY <1>1, <1>6 DEF Run, queueVars, TakenInOrder
<1>7. CASE ~MovesTask
  <2>1. UNCHANGED <<m_queue, accepted, taken>>
    BY <1>7, OtherSteps DEF TaskInv
  <2>2. owner # "destroyed"
    BY <1>1, DestroyedForever
  <2> QED
    BY <2>1, <2>2 DEF TakenInOrder
<1>8. ~Destroy
  BY <1>1 DEF Destroy
<1> QED
  BY <1>3, <1>4, <1>5, <1>6, <1>7, <1>8 DEF MovesTask

\* Tasks leave the queue in the order in which Submit put them there, each once.
THEOREM TakenInOrderCorrect == Spec => []TakenInOrder
<1>1. Init => TakenInOrder
  BY DEF Init, TakenInOrder
<1>2. TaskInv /\ TakenInOrder /\ [Next]_vars => TakenInOrder'
  BY TakenStep
<1> QED
  BY <1>1, <1>2, TaskCorrect, PTL DEF Spec

-----------------------------------------------------------------------------
(* Stop *)

LEMMA OwnerInit == Init => OwnerInv
  BY DEF Init, OwnerInv

LEMMA OwnerStep ==
    ASSUME Types, OwnerInv, [Next]_vars
    PROVE  OwnerInv'
<1> USE DEF OwnerInv, queueVars, workerVars, callVars, OwnerPCs
<1>1. ASSUME NEW s \in Submitters, CallSubmit(s) \/ InSubmit(s)
      PROVE  OwnerInv'
  <2>1. UNCHANGED <<m_accepting, owner>>
    BY <1>1 DEF CallSubmit, InSubmit, Push, Refuse, NotifyOne
  <2>2. \A w \in Workers : wpc[w] = "exited" => wpc'[w] = "exited"
    BY <1>1 DEF CallSubmit, InSubmit, Push, Refuse, NotifyOne, Waiting, Types
  <2> QED
    BY <2>1, <2>2
<1>2. ASSUME NEW w \in Workers, Worker(w) \/ SpuriousWake(w)
      PROVE  OwnerInv'
  <2>1. UNCHANGED <<m_accepting, owner>>
    BY <1>2 DEF Worker, TestToken, Take, WaitOrBreak, Run, SpuriousWake, Goto
  <2>2. wpc[w] # "exited"
    BY <1>2 DEF Worker, TestToken, Take, WaitOrBreak, Run, SpuriousWake, Goto
  <2> QED
    BY <2>1, <2>2
<1>3. CASE CallStop \/ Owner
  <2>1. CASE CallStop \/ StopAccepting \/ BeginJoin \/ Join
    BY <2>1 DEF CallStop, StopAccepting, BeginJoin, Join
  <2>2. CASE NotifyAll
    BY <2>2 DEF NotifyAll
  <2>3. CASE Destroy
    BY <2>3 DEF Destroy
  <2>4. ASSUME NEW w \in Workers, RequestStop(w)
        PROVE  OwnerInv'
    BY <2>4 DEF RequestStop
  <2> QED
    BY <1>3, <2>1, <2>2, <2>3, <2>4 DEF Owner
<1>4. CASE UNCHANGED vars
  BY <1>4 DEF vars
<1> QED
  BY <1>1, <1>2, <1>3, <1>4 DEF Next

LEMMA OwnerCorrect == Spec => []OwnerInv
<1>1. TaskInv /\ OwnerInv /\ [Next]_vars => OwnerInv'
  BY OwnerStep DEF TaskInv
<1> QED
  BY <1>1, OwnerInit, TaskCorrect, PTL DEF Spec

\* After Stop no worker is left and no task runs.
THEOREM StoppedMeansQuietCorrect == Spec => []StoppedMeansQuiet
<1>1. TaskInv /\ OwnerInv => StoppedMeansQuiet
  BY DEF TaskInv, RunInv, OwnerInv, StoppedMeansQuiet
<1> QED
  BY <1>1, TaskCorrect, OwnerCorrect, PTL

-----------------------------------------------------------------------------
(* Wakeups *)

LEMMA TokenInit == Init => TokenInv
  BY DEF Init, TokenInv

LEMMA TokenStep ==
    ASSUME Types, TokenInv, [Next]_vars
    PROVE  TokenInv'
<1> USE DEF TokenInv, queueVars, workerVars, callVars, OwnerPCs
<1>1. ASSUME NEW s \in Submitters, CallSubmit(s) \/ InSubmit(s)
      PROVE  TokenInv'
  <2>1. UNCHANGED <<token, owner>>
    BY <1>1 DEF CallSubmit, InSubmit, Push, Refuse, NotifyOne
  <2>2. \A w \in Workers : wpc[w] # "waiting" => wpc'[w] # "waiting"
    BY <1>1 DEF CallSubmit, InSubmit, Push, Refuse, NotifyOne, Waiting, Types
  <2> QED
    BY <2>1, <2>2
<1>2. ASSUME NEW w \in Workers, Worker(w) \/ SpuriousWake(w)
      PROVE  TokenInv'
  <2>1. UNCHANGED <<token, owner>>
    BY <1>2 DEF Worker, TestToken, Take, WaitOrBreak, Run, SpuriousWake, Goto
  <2>2. token[w] => wpc'[w] # "waiting"
    BY <1>2 DEF Worker, TestToken, Take, WaitOrBreak, Run, SpuriousWake, Goto, Types
  <2>3. \A v \in Workers : v # w => wpc'[v] = wpc[v]
    BY <1>2 DEF Worker, TestToken, Take, WaitOrBreak, Run, SpuriousWake, Goto, Types
  <2> QED
    BY <2>1, <2>2, <2>3
<1>3. CASE CallStop \/ Owner
  <2>1. CASE CallStop \/ StopAccepting \/ BeginJoin \/ Join \/ Destroy
    BY <2>1 DEF CallStop, StopAccepting, BeginJoin, Join, Destroy
  <2>2. CASE NotifyAll
    BY <2>2 DEF NotifyAll, Types
  <2>3. ASSUME NEW w \in Workers, RequestStop(w)
        PROVE  TokenInv'
    <3>1. /\ owner = "request" /\ owner' = owner
          /\ DOMAIN token' = Workers
          /\ \A v \in Workers : v # w => token'[v] = token[v] /\ wpc'[v] = wpc[v]
          /\ wpc'[w] # "waiting"
      BY <2>3 DEF RequestStop, Types
    <3> QED
      BY <3>1
  <2> QED
    BY <1>3, <2>1, <2>2, <2>3 DEF Owner
<1>4. CASE UNCHANGED vars
  BY <1>4 DEF vars
<1> QED
  BY <1>1, <1>2, <1>3, <1>4 DEF Next

LEMMA TokenCorrect == Spec => []TokenInv
<1>1. TaskInv /\ TokenInv /\ [Next]_vars => TokenInv'
  BY TokenStep DEF TaskInv
<1> QED
  BY <1>1, TokenInit, TaskCorrect, PTL DEF Spec

LEMMA WakeupStep ==
    ASSUME Types, TokenInv, NoLostWakeup, [Next]_vars
    PROVE  NoLostWakeup'
<1> USE DEF NoLostWakeup, Waiting, queueVars, workerVars, callVars
<1>1. ASSUME NEW s \in Submitters, CallSubmit(s) \/ InSubmit(s)
      PROVE  NoLostWakeup'
  <2>1. CASE CallSubmit(s) \/ Refuse(s)
    <3>1. /\ UNCHANGED <<m_queue, wpc, owner>>
          /\ \A r \in Submitters : pc[r] = "notify" => pc'[r] = "notify"
      BY <2>1 DEF CallSubmit, Refuse, Types
    <3> QED
      BY <3>1
  <2>2. CASE Push(s)
    <3>1. pc'[s] = "notify"
      BY <2>2 DEF Push, Types
    <3> QED
      BY <3>1
  <2>3. CASE NotifyOne(s)
    <3>1. \E w \in Workers : wpc'[w] # "waiting"
      BY <2>3, WorkersAssumption DEF NotifyOne, Types
    <3> QED
      BY <3>1
  <2> QED
    BY <1>1, <2>1, <2>2, <2>3 DEF InSubmit
<1>2. ASSUME NEW w \in Workers, Worker(w) \/ SpuriousWake(w)
      PROVE  NoLostWakeup'
  <2>1. CASE WaitOrBreak(w)
    <3>1. m_queue' = <<>>
      BY <2>1 DEF WaitOrBreak, Goto
    <3> QED
      BY <3>1
  <2>2. CASE TestToken(w) \/ Take(w) \/ Run(w) \/ SpuriousWake(w)
    <3>1. wpc'[w] # "waiting"
      BY <2>2 DEF TestToken, Take, Run, SpuriousWake, Goto, Types
    <3> QED
      BY <3>1
  <2> QED
    BY <1>2, <2>1, <2>2 DEF Worker
<1>3. CASE CallStop \/ Owner
  <2>1. CASE NotifyAll \/ StopAccepting \/ CallStop \/ Destroy \/ Join
    BY <2>1, WorkersAssumption DEF NotifyAll, StopAccepting, CallStop, Destroy, Join
  <2>2. CASE BeginJoin
    <3>1. \A w \in Workers : wpc'[w] # "waiting"
      BY <2>2 DEF BeginJoin, TokenInv
    <3> QED
      BY <3>1, WorkersAssumption
  <2>3. ASSUME NEW w \in Workers, RequestStop(w)
        PROVE  NoLostWakeup'
    BY <2>3 DEF RequestStop, Types
  <2> QED
    BY <1>3, <2>1, <2>2, <2>3 DEF Owner
<1>4. CASE UNCHANGED vars
  BY <1>4 DEF vars
<1> QED
  BY <1>1, <1>2, <1>3, <1>4 DEF Next

\* While a task is queued not every worker sleeps, or one is about to be woken.
THEOREM NoLostWakeupCorrect == Spec => []NoLostWakeup
<1>1. Init => NoLostWakeup
  BY DEF Init, NoLostWakeup
<1>2. TaskInv /\ TokenInv /\ NoLostWakeup /\ [Next]_vars => NoLostWakeup'
  BY WakeupStep DEF TaskInv
<1> QED
  BY <1>1, <1>2, TaskCorrect, TokenCorrect, PTL DEF Spec

-----------------------------------------------------------------------------
(* The executor is a TaskPool *)

LEMMA PoolStep ==
    ASSUME TaskInv, OwnerInv, [Next]_vars
    PROVE  [Pool!Next]_<<m_accepting, fate>>
<1> DEFINE Goal == [Pool!Next]_<<m_accepting, fate>>
<1> USE DEF queueVars, workerVars, callVars
<1>1. ASSUME NEW s \in Submitters, CallSubmit(s) \/ InSubmit(s)
      PROVE  Goal
  <2>1. CASE Push(s)
    <3>1. id[s] \in Tasks /\ fate[id[s]] = "new"
      BY <2>1, MaxTasksAssumption DEF Push, TaskInv, Types, CallsInv, Tasks
    <3>2. Pool!Accept(id[s])
      BY <2>1, <3>1 DEF Push, Pool!Accept, Pool!Move
    <3> QED
      BY <3>1, <3>2 DEF Pool!Next
  <2>2. CASE Refuse(s)
    <3>1. id[s] \in Tasks /\ fate[id[s]] = "new"
      BY <2>2, MaxTasksAssumption DEF Refuse, TaskInv, Types, CallsInv, Tasks
    <3>2. Pool!Refuse(id[s])
      BY <2>2, <3>1 DEF Refuse, Pool!Refuse, Pool!Move
    <3> QED
      BY <3>1, <3>2 DEF Pool!Next
  <2>3. CASE CallSubmit(s) \/ NotifyOne(s)
    BY <2>3 DEF CallSubmit, NotifyOne
  <2> QED
    BY <1>1, <2>1, <2>2, <2>3 DEF InSubmit
<1>2. ASSUME NEW w \in Workers, Worker(w) \/ SpuriousWake(w)
      PROVE  Goal
  <2>1. CASE Take(w)
    <3>1. Head(m_queue) \in Tasks /\ fate[Head(m_queue)] = "queued"
      BY <2>1 DEF Take, TaskInv, Types, QueueInv
    <3>2. Pool!Begin(Head(m_queue))
      BY <2>1, <3>1 DEF Take, Pool!Begin, Pool!Move
    <3> QED
      BY <3>1, <3>2 DEF Pool!Next
  <2>2. CASE Run(w)
    <3>1. item[w] \in Tasks /\ fate[item[w]] = "running"
      BY <2>2, MaxTasksAssumption DEF Run, TaskInv, Types, RunInv, RunsInOneWorker, Tasks
    <3>2. Pool!End(item[w])
      BY <2>2, <3>1 DEF Run, Pool!End, Pool!Move
    <3> QED
      BY <3>1, <3>2 DEF Pool!Next
  <2>3. CASE TestToken(w) \/ WaitOrBreak(w) \/ SpuriousWake(w)
    BY <2>3 DEF TestToken, WaitOrBreak, SpuriousWake, Goto
  <2> QED
    BY <1>2, <2>1, <2>2, <2>3 DEF Worker
<1>3. CASE CallStop \/ Owner
  <2>1. CASE StopAccepting
    BY <2>1 DEF StopAccepting, OwnerInv, Pool!Close, Pool!Next
  <2>2. CASE Destroy
    <3>1. ~m_accepting /\ \A t \in Tasks : fate[t] # "running"
      BY <2>2 DEF Destroy, OwnerInv, TaskInv, RunInv
    <3>2. Pool!Drop
      BY <2>2, <3>1 DEF Destroy, Pool!Drop
    <3> QED
      BY <3>2 DEF Pool!Next
  <2>3. CASE CallStop \/ NotifyAll \/ BeginJoin \/ Join
    BY <2>3 DEF CallStop, NotifyAll, BeginJoin, Join
  <2>4. ASSUME NEW w \in Workers, RequestStop(w)
        PROVE  Goal
    BY <2>4 DEF RequestStop
  <2> QED
    BY <1>3, <2>1, <2>2, <2>3, <2>4 DEF Owner
<1>4. CASE UNCHANGED vars
  BY <1>4 DEF vars
<1> QED
  BY <1>1, <1>2, <1>3, <1>4 DEF Next

\* The executor implements its abstract specification: a task is refused, runs once,
\* or is dropped with a closed executor in which nothing runs.
THEOREM ExecutorImplementsPool == Spec => ImplementsPool
<1>1. Init => Pool!Init
  BY DEF Init, Pool!Init
<1>2. TaskInv /\ OwnerInv /\ [Next]_vars => [Pool!Next]_<<m_accepting, fate>>
  BY PoolStep
<1> QED
  BY <1>1, <1>2, TaskCorrect, OwnerCorrect, PTL DEF Spec, ImplementsPool, Pool!Spec, Pool!vars
-----------------------------------------------------------------------------
(* The flags *)

FlagsOK == m_accepting \in BOOLEAN /\ token \in [Workers -> BOOLEAN]

LEMMA FlagsStep == FlagsOK /\ [Next]_vars => FlagsOK'
<1> SUFFICES ASSUME FlagsOK, [Next]_vars
             PROVE  FlagsOK'
  OBVIOUS
<1> USE DEF FlagsOK, queueVars, workerVars
<1>1. ASSUME NEW s \in Submitters, CallSubmit(s) \/ InSubmit(s)
      PROVE  FlagsOK'
  BY <1>1 DEF CallSubmit, InSubmit, Push, Refuse, NotifyOne
<1>2. ASSUME NEW w \in Workers, Worker(w) \/ SpuriousWake(w)
      PROVE  FlagsOK'
  BY <1>2 DEF Worker, TestToken, Take, WaitOrBreak, Run, SpuriousWake, Goto
<1>3. CASE CallStop \/ Owner
  BY <1>3 DEF CallStop, Owner, StopAccepting, NotifyAll, BeginJoin, Join, Destroy, RequestStop
<1>4. CASE UNCHANGED vars
  BY <1>4 DEF vars
<1> QED
  BY <1>1, <1>2, <1>3, <1>4 DEF Next

\* Every field keeps its type: ids, which are taken outside the mutex, are those of tasks.
THEOREM TypeCorrect == Spec => []TypeOK
<1>1. Init => FlagsOK
  BY DEF Init, FlagsOK
<1>2. TaskInv /\ FlagsOK => TypeOK
  BY DEF TaskInv, Types, FlagsOK, TypeOK
<1> QED
  BY <1>1, <1>2, FlagsStep, TaskCorrect, PTL DEF Spec

=============================================================================
