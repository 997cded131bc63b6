---------------------- MODULE FileSystemMonitorProofs ----------------------
(***************************************************************************)
(* Proofs about FileSystemMonitor for any number of clients, monitors,     *)
(* names, files and times.  Start, Stop and ~File_System_Monitor use       *)
(* m_worker without a lock, so that what is said of a monitor assumes that *)
(* no two calls work on one monitor at a time (Apart);                     *)
(* FileSystemMonitorDangling shows what a Remove beside a StopAll may meet.*)
(***************************************************************************)
EXTENDS FileSystemMonitor, TLAPS

StopPCs == {"stop", "request", "join"}

\* The monitors that a call in progress starts, or has on its list to stop.
WorksOn(c, m) ==
    \/ pc[c] \in {"scan", "assign"} /\ at[c] = m
    \/ pc[c] \in StopPCs /\ m \in todo[c]

\* No two calls work on one monitor.
Apart ==
    \A m \in Monitors, c, d \in Clients : WorksOn(c, m) /\ WorksOn(d, m) => c = d

\* While the service stops, nobody else is in a call of the manager.
StopAlone ==
    \A c, d \in Clients :
        c # d /\ pc[c] \in StopPCs /\ why[c] # "remove" => pc[d] \in {"idle", "initialize"}

Moving(m) == m_running[m] \/ thread[m] \in WatchingPCs
Registered(m) == \E n \in Names : m_monitors[n] = m
Removing(c, m) ==
    /\ pc[c] \in StopPCs
    /\ why[c] = "remove"
    /\ m \in todo[c]

\* What a call in progress knows of its monitor.
CallInv ==
    \A c \in Clients :
        /\ pc[c] \in {"scan", "assign", "request", "join"} => at[c] \in Monitors
        /\ pc[c] \in {"scan", "assign"} =>
              m_running[at[c]] /\ thread[at[c]] \in {"none", "exited"}
        /\ pc[c] \in {"request", "join"} =>
              /\ ~m_running[at[c]]
              /\ thread[at[c]] \in WatchingPCs \cup {"exited"}
              /\ at[c] \in todo[c]

\* A thread is asked to stop only by a call that waits for it.
TokenInv ==
    \A m \in Monitors :
        token[m] /\ thread[m] \in WatchingPCs =>
            \E c \in Clients : pc[c] = "join" /\ at[c] = m

\* Who runs is in the manager's map, or is on its way out.
RegInv ==
    \A m \in Monitors :
        Moving(m) => Registered(m) \/ \E c \in Clients : Removing(c, m)

\* StopAll still has every monitor on its list that runs.
StopInv ==
    \A c \in Clients :
        pc[c] \in StopPCs /\ why[c] # "remove" =>
            \A m \in Monitors : Moving(m) => m \in todo[c]

\* A Start that threw left the flag set, no thread, and nobody in a call.
ThrewInv ==
    \A m \in Monitors :
        threw[m] => m_running[m] /\ thread[m] \in {"none", "exited"} /\ ~Busy(m)

CtlInv == CallInv /\ RunningMeansWatched /\ ThrewInv /\ TokenInv /\ RegInv

\* What the listener knows between two polls, and while the events are sent.
Known(m) ==
    IF thread[m] = "report"
       THEN {f \in Files : IF f \in unread[m] THEN m_snapshot[m][f] # 0
                                              ELSE current[m][f] # 0}
       ELSE Present(m_snapshot[m])

ToldInv ==
    /\ \A m \in Monitors :
          /\ thread[m] \in WatchingPCs => told[m] = Known(m)
          /\ thread[m] = "report" =>
                \A f \in unread[m] : current[m][f] # m_snapshot[m][f]
    /\ \A c \in Clients :
          pc[c] = "assign" => told[at[c]] = Present(m_snapshot[at[c]])

-----------------------------------------------------------------------------
(* Types *)

LEMMA ScannerFacts ==
    /\ \A m \in Monitors : m \in Scanners /\ m \in 0..MaxMonitors
    /\ \A c \in Clients : c \in Scanners /\ c \notin Monitors /\ c \notin 0..MaxMonitors
    /\ Monitors \subseteq 0..MaxMonitors
BY MaxMonitorsAssumption, ClientsAssumption DEF Scanners, Monitors

LEMMA ListingFacts ==
    /\ Nothing \in Listings
    /\ \A l \in Listings : Present(l) \subseteq Files
    /\ \A l \in Listings, f \in Files : l[f] \in Times \cup {0}
BY DEF Nothing, Listings, Present

LEMMA TypeInit == Init => TypeOK
BY ScannerFacts, ListingFacts, MaxMonitorsAssumption
   DEF Init, TypeOK, ThreadPCs, ClientPCs, Purposes, Monitors

LEMMA TypeWorker ==
    ASSUME TypeOK, NEW m \in Monitors, Worker(m)
    PROVE  TypeOK'
<1> USE ScannerFacts, ListingFacts
<1> USE DEF TypeOK, managerVars, clientVars, scanVars, dirVars, ThreadPCs, WatchingPCs
<1>1. CASE LoopTest(m)
  BY <1>1 DEF LoopTest, Goto
<1>2. CASE Wake(m)
  BY <1>2 DEF Wake, Goto, BeginScan
<1>3. CASE thread[m] = "scan" /\ ScanFile(m)
  BY <1>3 DEF ScanFile, monitorVars, Listings
<1>4. CASE ScanFails(m)
  BY <1>4 DEF ScanFails, Goto, EndScan
<1>5. CASE ScanDone(m)
  BY <1>5 DEF ScanDone, Goto
<1>6. CASE \E f \in Files : Report(m, f)
  BY <1>6 DEF Report
<1>7. CASE ReportDone(m)
  BY <1>7 DEF ReportDone, Goto, EndScan
<1> QED  BY <1>1, <1>2, <1>3, <1>4, <1>5, <1>6, <1>7 DEF Worker

LEMMA TypeCall ==
    ASSUME TypeOK, NEW c \in Clients, InCall(c)
    PROVE  TypeOK'
<1> USE ScannerFacts, ListingFacts
<1> USE DEF TypeOK, managerVars, monitorVars, scanVars, dirVars, ThreadPCs, ClientPCs,
            WatchingPCs
<1>1. CASE pc[c] = "scan" /\ ScanFile(c)
  BY <1>1 DEF ScanFile, clientVars, Listings
<1>2. CASE StartFails(c)
  BY <1>2 DEF StartFails, EndScan
<1>3. CASE StartScanned(c)
  BY <1>3 DEF StartScanned, EndScan
<1>11. CASE StartThrows(c)
  BY <1>11 DEF StartThrows, EndScan
<1>4. CASE AssignWorker(c)
  BY <1>4 DEF AssignWorker
<1>5. CASE EndInitialize(c)
  BY <1>5 DEF EndInitialize
<1>6. CASE StopIdle(c)
  BY <1>6 DEF StopIdle, Done
<1>7. CASE StopRunning(c)
  BY <1>7 DEF StopRunning, Done
<1>8. CASE RequestStop(c)
  BY <1>8 DEF RequestStop
<1>9. CASE Join(c)
  BY <1>9 DEF Join, Done
<1>10. CASE EndStop(c)
  BY <1>10 DEF EndStop
<1> QED  BY <1>1, <1>2, <1>3, <1>4, <1>5, <1>6, <1>7, <1>8, <1>9, <1>10, <1>11
            DEF InCall

LEMMA TypeCaller ==
    ASSUME TypeOK, NEW c \in Clients,
           CallService(c) \/ \E n \in Names : CallManager(c, n)
    PROVE  TypeOK'
<1> USE ScannerFacts, ListingFacts
<1> USE DEF TypeOK, monitorVars, scanVars, clientVars, dirVars, ClientPCs, Purposes
<1>1. CASE \E n \in Names : Add(c, n)
  BY <1>1, MaxMonitorsAssumption DEF Add, Monitors
<1>2. CASE \E n \in Names : BeginStart(c, n)
  <2>1. PICK n \in Names : BeginStart(c, n)
    BY <1>2
  <2>2. m_monitors[n] \in 0..MaxMonitors
    OBVIOUS
  <2>3. m_running' \in [Monitors -> BOOLEAN]
    BY <2>1 DEF BeginStart
  <2>4. at' \in [Clients -> 0..MaxMonitors]
    BY <2>1, <2>2 DEF BeginStart
  <2>5. /\ unread' \in [Scanners -> SUBSET Files]
        /\ current' \in [Scanners -> Listings]
        /\ pc' \in [Clients -> ClientPCs]
    BY <2>1 DEF BeginStart, BeginScan
  <2> QED  BY <2>1, <2>3, <2>4, <2>5 DEF BeginStart
<1>3. CASE \E n \in Names : BeginRemove(c, n)
  BY <1>3, MaxMonitorsAssumption DEF BeginRemove, Monitors
<1>4. CASE BeginInitialize(c)
  BY <1>4, MaxMonitorsAssumption DEF BeginInitialize
<1>5. CASE StartService(c)
  BY <1>5, MaxMonitorsAssumption DEF StartService
<1>6. CASE \E reason \in {"stop", "shutdown"} : BeginStopAll(c, reason)
  BY <1>6, MaxMonitorsAssumption DEF BeginStopAll, Monitors
<1> QED  BY <1>1, <1>2, <1>3, <1>4, <1>5, <1>6 DEF CallManager, CallService

LEMMA TypeStep == TypeOK /\ [Next]_vars => TypeOK'
<1> SUFFICES ASSUME TypeOK, [Next]_vars PROVE TypeOK'
  OBVIOUS
<1>1. CASE \E f \in Files : Change(f)
  BY <1>1 DEF Change, TypeOK, managerVars, monitorVars, scanVars, clientVars, Listings
<1>2. CASE UNCHANGED vars
  BY <1>2 DEF vars, TypeOK, managerVars, monitorVars, scanVars, clientVars, dirVars
<1> QED  BY <1>1, <1>2, TypeWorker, TypeCall, TypeCaller DEF Next

-----------------------------------------------------------------------------
(* Flags, threads and calls *)

ctlVars == <<m_running, thread, token, threw, pc, at, todo, why, m_monitors>>

\* A step of c is no step of the others.
OnlyMoves(c) ==
    \A d \in Clients \ {c} :
        pc'[d] = pc[d] /\ at'[d] = at[d] /\ todo'[d] = todo[d] /\ why'[d] = why[d]

\* What a call works on no other call starts, stops or joins.
LEMMA Alone ==
    ASSUME Apart, CallInv, NEW m \in Monitors, NEW c \in Clients, WorksOn(c, m)
    PROVE  \A d \in Clients \ {c} :
              at[d] = m => pc[d] \notin {"scan", "assign", "request", "join"}
BY DEF Apart, CallInv, WorksOn, StopPCs

LEMMA CtlInit == Init => CtlInv
BY DEF Init, CtlInv, CallInv, RunningMeansWatched, ThrewInv, TokenInv, RegInv, Moving,
       Busy, WatchingPCs

LEMMA CtlFrame == CtlInv /\ UNCHANGED ctlVars => CtlInv'
BY DEF ctlVars, CtlInv, CallInv, RunningMeansWatched, ThrewInv, TokenInv, RegInv,
       Moving, Busy, Registered, Removing

\* The worker goes on.
LEMMA CtlPoll ==
    ASSUME TypeOK, CtlInv, NEW m \in Monitors, NEW p \in WatchingPCs,
           thread[m] \in WatchingPCs, thread' = [thread EXCEPT ![m] = p],
           UNCHANGED <<m_running, token, threw, pc, at, todo, why, m_monitors>>
    PROVE  CtlInv'
<1>1. \A k \in Monitors : thread'[k] \in WatchingPCs <=> thread[k] \in WatchingPCs
  BY DEF TypeOK
<1>2. \A k \in Monitors, P \in {{"none", "exited"}, {"exited"}} :
         thread'[k] \in P <=> thread[k] \in P
  BY DEF TypeOK, WatchingPCs
<1>3. \A k \in Monitors : Moving(k)' <=> Moving(k)
  BY <1>1 DEF Moving
<1>4. CallInv'
  BY <1>1, <1>2 DEF CtlInv, CallInv
<1>5. RunningMeansWatched'
  BY <1>1 DEF CtlInv, RunningMeansWatched, Busy
<1>8. ThrewInv'
  BY <1>1, <1>2 DEF CtlInv, ThrewInv, Busy
<1>6. TokenInv'
  BY <1>1 DEF CtlInv, TokenInv
<1>7. RegInv'
  BY <1>3 DEF CtlInv, RegInv, Registered, Removing
<1> QED  BY <1>4, <1>5, <1>6, <1>7, <1>8 DEF CtlInv

\* The worker ends, because it was asked to or because m_running is false: a call
\* waits for it.
LEMMA CtlExit ==
    ASSUME TypeOK, CtlInv, NEW m \in Monitors,
           thread[m] \in WatchingPCs, token[m] \/ ~m_running[m],
           thread' = [thread EXCEPT ![m] = "exited"],
           UNCHANGED <<m_running, token, threw, pc, at, todo, why, m_monitors>>
    PROVE  CtlInv'
<1>1. \A k \in Monitors \ {m} : thread'[k] = thread[k]
  BY DEF TypeOK
<1>2. thread'[m] = "exited"
  BY DEF TypeOK
<1>3. PICK c \in Clients : at[c] = m /\ pc[c] \in {"scan", "assign", "request", "join"}
  BY DEF CtlInv, TokenInv, RunningMeansWatched, Busy
<1>4. \A d \in Clients : at[d] = m => pc[d] \notin {"scan", "assign"}
  BY DEF CtlInv, CallInv, WatchingPCs
<1>5. CallInv'
  BY <1>1, <1>2, <1>4 DEF CtlInv, CallInv
<1>6. RunningMeansWatched'
  BY <1>1, <1>3 DEF CtlInv, RunningMeansWatched, Busy
<1>7. TokenInv'
  BY <1>1, <1>2 DEF CtlInv, TokenInv, WatchingPCs
<1>8. \A k \in Monitors : Moving(k)' => Moving(k)
  BY <1>1, <1>2 DEF Moving, WatchingPCs
<1>9. RegInv'
  BY <1>8 DEF CtlInv, RegInv, Registered, Removing
<1>10. ThrewInv'
  BY <1>1, <1>2 DEF CtlInv, ThrewInv, Busy
<1> QED  BY <1>5, <1>6, <1>7, <1>9, <1>10 DEF CtlInv

LEMMA CtlWorker ==
    ASSUME TypeOK, CtlInv, NEW m \in Monitors, Worker(m)
    PROVE  CtlInv'
<1>0. /\ "top" \in WatchingPCs /\ "asleep" \in WatchingPCs /\ "scan" \in WatchingPCs
      /\ "report" \in WatchingPCs
  BY DEF WatchingPCs
<1> USE DEF managerVars, clientVars
<1>1. CASE LoopTest(m)
  <2>1. CASE token[m] \/ ~m_running[m]
    BY <1>0, <1>1, <2>1, CtlExit DEF LoopTest, Goto
  <2>2. CASE ~(token[m] \/ ~m_running[m])
    BY <1>0, <1>1, <2>2, CtlPoll DEF LoopTest, Goto
  <2> QED  BY <2>1, <2>2
<1>2. CASE Wake(m)
  <2>1. CASE token[m]
    BY <1>0, <1>2, <2>1, CtlExit DEF Wake, Goto
  <2>2. CASE ~token[m]
    BY <1>0, <1>2, <2>2, CtlPoll DEF Wake, Goto
  <2> QED  BY <2>1, <2>2
<1>3. CASE thread[m] = "scan" /\ ScanFile(m)
  BY <1>3, CtlFrame DEF ScanFile, ctlVars, monitorVars
<1>4. CASE ScanFails(m)
  BY <1>0, <1>4, CtlPoll DEF ScanFails, Goto
<1>5. CASE ScanDone(m)
  BY <1>0, <1>5, CtlPoll DEF ScanDone, Goto
<1>6. CASE \E f \in Files : Report(m, f)
  BY <1>6, CtlFrame DEF Report, ctlVars
<1>7. CASE ReportDone(m)
  BY <1>0, <1>7, CtlPoll DEF ReportDone, Goto
<1> QED  BY <1>1, <1>2, <1>3, <1>4, <1>5, <1>6, <1>7 DEF Worker

LEMMA CtlStarting ==
    ASSUME TypeOK, Apart, CtlInv, NEW c \in Clients,
           StartFails(c) \/ StartThrows(c) \/ StartScanned(c) \/ AssignWorker(c)
    PROVE  /\ CtlInv'
           /\ \A k \in Monitors : Moving(k)' => Moving(k)
           /\ OnlyMoves(c) /\ pc'[c] \notin StopPCs
<1> DEFINE m == at[c]
<1>1. /\ m \in Monitors /\ pc[c] \in {"scan", "assign"}
      /\ m_running[m]
      /\ thread[m] \in {"none", "exited"}
  BY DEF CtlInv, CallInv, StartFails, StartThrows, StartScanned, AssignWorker
<1>2. \A d \in Clients \ {c} : at[d] = m => pc[d] \notin {"scan", "assign", "request", "join"}
  BY <1>1, Alone DEF CtlInv, WorksOn
<1>3. OnlyMoves(c) /\ at'[c] = m /\ UNCHANGED m_monitors
  BY DEF StartFails, StartThrows, StartScanned, AssignWorker, OnlyMoves, TypeOK, managerVars
<1>4. pc'[c] \in {"assign", "idle"}
  BY DEF StartFails, StartThrows, StartScanned, AssignWorker, TypeOK
<1>9. ~threw[m]
  BY <1>1 DEF CtlInv, ThrewInv, Busy
<1>5. CASE StartFails(c)
  <2>1. /\ pc'[c] = "idle" /\ ~m_running'[m] /\ UNCHANGED <<thread, token, threw>>
        /\ \A k \in Monitors \ {m} : m_running'[k] = m_running[k]
    BY <1>1, <1>5 DEF StartFails, TypeOK
  <2>2. \A k \in Monitors : Moving(k)' => Moving(k)
    BY <1>1, <2>1 DEF Moving, WatchingPCs
  <2>3. CallInv'
    BY <1>2, <1>3, <2>1 DEF CtlInv, CallInv, OnlyMoves
  <2>4. TokenInv'
    BY <1>1, <1>3, <2>1 DEF CtlInv, TokenInv, OnlyMoves
  <2>5. RunningMeansWatched'
    BY <1>1, <1>3, <1>9, <2>1 DEF CtlInv, RunningMeansWatched, Busy, WatchingPCs, OnlyMoves
  <2>6. RegInv'
    BY <1>1, <1>3, <2>1, <2>2 DEF CtlInv, RegInv, Registered, Removing, StopPCs, OnlyMoves
  <2>7. ThrewInv'
    BY <1>3, <1>9, <2>1 DEF CtlInv, ThrewInv, Busy, OnlyMoves
  <2> QED  BY <1>3, <2>1, <2>2, <2>3, <2>4, <2>5, <2>6, <2>7 DEF CtlInv, StopPCs
<1>8. CASE StartThrows(c)
  <2>1. /\ pc'[c] = "idle" /\ UNCHANGED <<m_running, thread, token>> /\ threw'[m]
        /\ \A k \in Monitors \ {m} : threw'[k] = threw[k]
    BY <1>1, <1>8 DEF StartThrows, TypeOK
  <2>2. CallInv'
    BY <1>3, <2>1 DEF CtlInv, CallInv, OnlyMoves
  <2>3. TokenInv'
    BY <1>1, <1>3, <2>1 DEF CtlInv, TokenInv, OnlyMoves
  <2>4. RunningMeansWatched'
    BY <1>1, <1>3, <2>1 DEF CtlInv, RunningMeansWatched, Busy, OnlyMoves
  <2>5. ThrewInv'
    BY <1>1, <1>2, <1>3, <2>1 DEF CtlInv, ThrewInv, Busy, OnlyMoves
  <2>6. \A k \in Monitors : Moving(k)' <=> Moving(k)
    BY <2>1 DEF Moving
  <2>7. RegInv'
    BY <1>1, <1>3, <2>1, <2>6 DEF CtlInv, RegInv, Registered, Removing, StopPCs, OnlyMoves
  <2> QED  BY <1>3, <2>1, <2>2, <2>3, <2>4, <2>5, <2>6, <2>7 DEF CtlInv, StopPCs
<1>6. CASE StartScanned(c)
  <2>1. /\ pc'[c] = "assign" /\ pc[c] = "scan"
        /\ UNCHANGED <<m_running, thread, token, threw, at, todo, why, m_monitors>>
    BY <1>6 DEF StartScanned, TypeOK, managerVars
  <2>2. CallInv'
    BY <1>1, <1>3, <2>1 DEF CtlInv, CallInv, OnlyMoves
  <2>3. TokenInv' /\ RunningMeansWatched' /\ ThrewInv'
    BY <1>1, <1>3, <2>1 DEF CtlInv, TokenInv, RunningMeansWatched, ThrewInv, Busy, OnlyMoves
  <2>4. \A k \in Monitors : Moving(k)' <=> Moving(k)
    BY <2>1 DEF Moving
  <2>5. RegInv'
    BY <1>3, <2>1, <2>4 DEF CtlInv, RegInv, Registered, Removing, StopPCs, OnlyMoves
  <2> QED  BY <1>3, <2>1, <2>2, <2>3, <2>4, <2>5 DEF CtlInv, StopPCs
<1>7. CASE AssignWorker(c)
  <2>1. /\ pc'[c] = "idle" /\ pc[c] = "assign" /\ thread'[m] = "top" /\ ~token'[m]
        /\ \A k \in Monitors \ {m} : thread'[k] = thread[k] /\ token'[k] = token[k]
        /\ UNCHANGED <<m_running, threw>>
    BY <1>1, <1>7 DEF AssignWorker, TypeOK
  <2>2. \A k \in Monitors : Moving(k)' => Moving(k)
    BY <1>1, <2>1 DEF Moving
  <2>3. CallInv'
    BY <1>2, <1>3, <2>1 DEF CtlInv, CallInv, OnlyMoves
  <2>4. TokenInv'
    BY <1>3, <2>1 DEF CtlInv, TokenInv, OnlyMoves
  <2>5. RunningMeansWatched'
    BY <1>1, <1>3, <2>1 DEF CtlInv, RunningMeansWatched, Busy, WatchingPCs, OnlyMoves
  <2>6. RegInv'
    BY <1>3, <2>1, <2>2 DEF CtlInv, RegInv, Registered, Removing, StopPCs, OnlyMoves
  <2>7. ThrewInv'
    BY <1>3, <1>9, <2>1 DEF CtlInv, ThrewInv, Busy, OnlyMoves
  <2> QED  BY <1>3, <2>1, <2>2, <2>3, <2>4, <2>5, <2>6, <2>7 DEF CtlInv, StopPCs
<1> QED  BY <1>5, <1>6, <1>7, <1>8

\* A call that stops monitors strikes off its list only what does not run.
LEMMA CtlStopping ==
    ASSUME TypeOK, Apart, CtlInv, NEW c \in Clients,
           StopIdle(c) \/ StopRunning(c) \/ RequestStop(c) \/ Join(c) \/ EndStop(c)
    PROVE  /\ CtlInv'
           /\ \A k \in Monitors : Moving(k)' => Moving(k) /\ (k \in todo[c] => k \in todo'[c])
           /\ OnlyMoves(c) /\ why'[c] = why[c] /\ pc[c] \in StopPCs
<1>1. OnlyMoves(c) /\ why'[c] = why[c] /\ pc[c] \in StopPCs /\ UNCHANGED m_monitors
  BY DEF StopIdle, StopRunning, RequestStop, Join, EndStop, Done, OnlyMoves, TypeOK,
         managerVars, StopPCs
<1>2. SUFFICES /\ CtlInv'
               /\ \A k \in Monitors : Moving(k)' =>
                     Moving(k) /\ (k \in todo[c] => k \in todo'[c])
  BY <1>1
<1>3. ASSUME NEW m \in todo[c]
      PROVE  /\ m \in Monitors
             /\ \A d \in Clients \ {c} :
                   at[d] = m => pc[d] \notin {"scan", "assign", "request", "join"}
             /\ pc[c] = "stop" => ~Busy(m)
  <2>1. m \in Monitors
    BY DEF TypeOK
  <2>2. \A d \in Clients \ {c} :
           at[d] = m => pc[d] \notin {"scan", "assign", "request", "join"}
    BY <1>1, <2>1, Alone DEF CtlInv, WorksOn
  <2> QED  BY <2>1, <2>2 DEF Busy
<1> USE DEF OnlyMoves
<1>4. CASE StopIdle(c)
  <2>1. PICK m \in todo[c] : ~m_running[m] /\ Done(c, m)
    BY <1>4 DEF StopIdle
  <2>2. /\ pc[c] = "stop" /\ pc'[c] = "stop" /\ todo'[c] = todo[c] \ {m} /\ m \in Monitors
        /\ UNCHANGED <<m_running, thread, token, threw, at>>
    BY <1>3, <1>4, <2>1 DEF StopIdle, Done, TypeOK, monitorVars
  <2>3. ~Moving(m)
    BY <1>3, <2>1, <2>2 DEF Moving, CtlInv, RunningMeansWatched
  <2>4. CallInv'
    BY <1>1, <2>2 DEF CtlInv, CallInv
  <2>5. TokenInv' /\ RunningMeansWatched' /\ ThrewInv'
    BY <1>1, <2>2 DEF CtlInv, TokenInv, RunningMeansWatched, ThrewInv, Busy
  <2>6. \A k \in Monitors : Moving(k)' <=> Moving(k)
    BY <2>2 DEF Moving
  <2>7. RegInv'
    BY <1>1, <2>2, <2>3, <2>6 DEF CtlInv, RegInv, Registered, Removing, StopPCs
  <2> QED  BY <2>2, <2>3, <2>4, <2>5, <2>6, <2>7 DEF CtlInv
<1>5. CASE StopRunning(c)
  <2>1. PICK m \in todo[c] :
          /\ m_running[m]
          /\ m_running' = [m_running EXCEPT ![m] = FALSE]
          /\ threw' = [threw EXCEPT ![m] = FALSE]
          /\ at' = [at EXCEPT ![c] = m]
          /\ IF thread[m] = "none"
                THEN Done(c, m) /\ UNCHANGED pc
                ELSE pc' = [pc EXCEPT ![c] = "request"] /\ UNCHANGED todo
    BY <1>5 DEF StopRunning
  <2>2. /\ pc[c] = "stop" /\ m \in Monitors /\ at'[c] = m /\ ~m_running'[m] /\ ~threw'[m]
        /\ \A k \in Monitors \ {m} : m_running'[k] = m_running[k] /\ threw'[k] = threw[k]
        /\ UNCHANGED <<thread, token>>
    BY <1>3, <1>5, <2>1 DEF StopRunning, TypeOK
  <2>3. \/ thread[m] \in WatchingPCs
        \/ threw[m] /\ thread[m] \in {"none", "exited"}
    BY <1>3, <2>1, <2>2 DEF CtlInv, RunningMeansWatched, ThrewInv
  <2>4. \A k \in Monitors : Moving(k)' => Moving(k)
    BY <2>2, <2>1 DEF Moving
  <2>5. TokenInv'
    BY <1>1, <2>1, <2>2 DEF CtlInv, TokenInv, Done
  <2>6. CASE thread[m] = "none"
    <3>1. pc' = pc /\ todo'[c] = todo[c] \ {m}
      BY <2>1, <2>6 DEF Done, TypeOK
    <3>2. CallInv'
      BY <1>1, <1>3, <2>1, <2>2, <3>1 DEF CtlInv, CallInv
    <3>3. ThrewInv' /\ RunningMeansWatched'
      BY <1>1, <2>2, <2>6, <3>1
         DEF CtlInv, ThrewInv, RunningMeansWatched, Busy, WatchingPCs
    <3>4. ~Moving(m)'
      BY <2>2, <2>6 DEF Moving, WatchingPCs
    <3>5. RegInv'
      BY <1>1, <2>2, <2>4, <3>1, <3>4 DEF CtlInv, RegInv, Registered, Removing, StopPCs
    <3> QED  BY <2>4, <2>5, <3>1, <3>2, <3>3, <3>4, <3>5 DEF CtlInv
  <2>7. CASE thread[m] # "none"
    <3>1. pc'[c] = "request" /\ todo' = todo
      BY <2>1, <2>7 DEF TypeOK
    <3>2. CallInv'
      BY <1>1, <1>3, <2>1, <2>2, <2>3, <2>7, <3>1 DEF CtlInv, CallInv
    <3>3. ThrewInv' /\ RunningMeansWatched'
      BY <1>1, <2>2, <3>1 DEF CtlInv, ThrewInv, RunningMeansWatched, Busy
    <3>4. RegInv'
      BY <1>1, <2>2, <2>4, <3>1 DEF CtlInv, RegInv, Registered, Removing, StopPCs
    <3> QED  BY <2>4, <2>5, <3>1, <3>2, <3>3, <3>4 DEF CtlInv
  <2> QED  BY <2>6, <2>7
<1>6. CASE RequestStop(c)
  <2>1. /\ pc[c] = "request" /\ pc'[c] = "join" /\ at[c] \in Monitors
        /\ \A k \in Monitors \ {at[c]} : token'[k] = token[k]
        /\ UNCHANGED <<m_running, thread, threw, at, todo>>
    BY <1>6 DEF RequestStop, CtlInv, CallInv, TypeOK
  <2>2. CallInv'
    BY <1>1, <2>1 DEF CtlInv, CallInv
  <2>3. TokenInv' /\ RunningMeansWatched' /\ ThrewInv'
    BY <1>1, <2>1 DEF CtlInv, TokenInv, RunningMeansWatched, ThrewInv, Busy
  <2>4. \A k \in Monitors : Moving(k)' <=> Moving(k)
    BY <2>1 DEF Moving
  <2>5. RegInv'
    BY <1>1, <2>1, <2>4 DEF CtlInv, RegInv, Registered, Removing, StopPCs
  <2> QED  BY <2>1, <2>2, <2>3, <2>4, <2>5 DEF CtlInv
<1>7. CASE Join(c)
  <2> DEFINE m == at[c]
  <2>1. /\ pc[c] = "join" /\ pc'[c] = "stop" /\ m \in Monitors /\ ~m_running[m]
        /\ m \in todo[c] /\ thread'[m] = "none" /\ todo'[c] = todo[c] \ {m}
        /\ \A k \in Monitors \ {m} : thread'[k] = thread[k]
        /\ UNCHANGED <<m_running, token, threw, at>>
    BY <1>7 DEF Join, Done, CtlInv, CallInv, TypeOK
  <2>2. CallInv'
    BY <1>1, <1>3, <2>1 DEF CtlInv, CallInv
  <2>3. TokenInv'
    BY <1>1, <2>1 DEF CtlInv, TokenInv, WatchingPCs
  <2>4. RunningMeansWatched' /\ ThrewInv'
    BY <1>1, <2>1 DEF CtlInv, RunningMeansWatched, ThrewInv, Busy, WatchingPCs
  <2>5. ~Moving(m)' /\ \A k \in Monitors \ {m} : Moving(k)' <=> Moving(k)
    BY <2>1 DEF Moving, WatchingPCs
  <2>6. RegInv'
    BY <1>1, <2>1, <2>5 DEF CtlInv, RegInv, Registered, Removing, StopPCs
  <2> QED  BY <2>1, <2>2, <2>3, <2>4, <2>5, <2>6 DEF CtlInv
<1>8. CASE EndStop(c)
  <2>1. /\ pc[c] = "stop" /\ pc'[c] = "idle" /\ todo[c] = {}
        /\ UNCHANGED <<m_running, thread, token, threw, at, todo>>
    BY <1>8 DEF EndStop, TypeOK, monitorVars
  <2>2. CallInv'
    BY <1>1, <2>1 DEF CtlInv, CallInv
  <2>3. TokenInv' /\ RunningMeansWatched' /\ ThrewInv'
    BY <1>1, <2>1 DEF CtlInv, TokenInv, RunningMeansWatched, ThrewInv, Busy
  <2>4. \A k \in Monitors : Moving(k)' <=> Moving(k)
    BY <2>1 DEF Moving
  <2>5. RegInv'
    BY <1>1, <2>1, <2>4 DEF CtlInv, RegInv, Registered, Removing, StopPCs
  <2> QED  BY <2>1, <2>2, <2>3, <2>4, <2>5 DEF CtlInv
<1> QED  BY <1>4, <1>5, <1>6, <1>7, <1>8

\* A Start that enters finds no thread: a call that still waits for one would work on
\* the same monitor.
LEMMA CtlBeginStart ==
    ASSUME TypeOK, Apart', CtlInv, NEW c \in Clients, NEW n \in Names, BeginStart(c, n)
    PROVE  CtlInv'
<1>1. PICK m \in Monitors : m = m_monitors[n]
  BY MaxMonitorsAssumption DEF BeginStart, Monitors, TypeOK
<1>2. /\ pc[c] = "idle" /\ pc'[c] = "scan" /\ at'[c] = m /\ ~m_running[m]
      /\ UNCHANGED <<thread, token, threw, todo, why, m_monitors>>
      /\ OnlyMoves(c)
  BY <1>1 DEF BeginStart, OnlyMoves, TypeOK
<1>3. m_running'[m] /\ \A k \in Monitors \ {m} : m_running'[k] = m_running[k]
  BY <1>1 DEF BeginStart, TypeOK
<1>4. ASSUME NEW d \in Clients, at[d] = m, pc[d] \in {"scan", "assign", "request", "join"}
      PROVE  FALSE
  <2>1. d # c /\ pc'[d] = pc[d] /\ at'[d] = m /\ todo'[d] = todo[d]
    BY <1>2, <1>4 DEF OnlyMoves
  <2>2. WorksOn(d, m)'
    BY <1>4, <2>1 DEF CtlInv, CallInv, WorksOn, StopPCs
  <2>3. WorksOn(c, m)'
    BY <1>2 DEF WorksOn
  <2> QED  BY <1>1, <2>1, <2>2, <2>3 DEF Apart
<1>5. thread[m] \in {"none", "exited"}
  BY <1>2, <1>1, <1>4 DEF CtlInv, RunningMeansWatched, Busy, TypeOK, ThreadPCs
<1>6. CallInv'
  BY <1>2, <1>1, <1>3, <1>4, <1>5 DEF CtlInv, CallInv, OnlyMoves
<1>7. TokenInv'
  BY <1>2 DEF CtlInv, TokenInv, OnlyMoves
<1>8. RunningMeansWatched'
  BY <1>2, <1>1, <1>3 DEF CtlInv, RunningMeansWatched, Busy, OnlyMoves
<1>9. \A k \in Monitors \ {m} : Moving(k)' <=> Moving(k)
  BY <1>2, <1>3 DEF Moving
<1>10. RegInv'
  BY <1>2, <1>1, <1>9 DEF CtlInv, RegInv, Registered, Removing, StopPCs, OnlyMoves
<1>11. ThrewInv'
  BY <1>2, <1>3 DEF CtlInv, ThrewInv, Busy, OnlyMoves
<1> QED  BY <1>6, <1>7, <1>8, <1>10, <1>11 DEF CtlInv

LEMMA CtlCalling ==
    ASSUME TypeOK, Apart', CtlInv, NEW c \in Clients,
           CallService(c) \/ EndInitialize(c) \/ \E n \in Names : CallManager(c, n)
    PROVE  CtlInv'
<1> USE DEF managerVars, monitorVars, scanVars, TypeOK, OnlyMoves
<1>1. ASSUME NEW n \in Names, Add(c, n)
      PROVE  CtlInv'
  <2>1. /\ m_monitors[n] = 0 /\ UNCHANGED <<m_running, thread, token, threw, pc, at, todo, why>>
        /\ \A k \in Names \ {n} : m_monitors'[k] = m_monitors[k]
    BY <1>1 DEF Add, clientVars
  <2>2. CallInv' /\ TokenInv' /\ RunningMeansWatched' /\ ThrewInv'
    BY <2>1 DEF CtlInv, CallInv, TokenInv, RunningMeansWatched, ThrewInv, Busy
  <2>3. ASSUME NEW k \in Monitors, Registered(k)
        PROVE  Registered(k)'
    <3>1. PICK p \in Names : m_monitors[p] = k
      BY <2>3 DEF Registered
    <3>2. k # 0
      BY DEF Monitors
    <3> QED  BY <2>1, <3>1, <3>2 DEF Registered
  <2>4. RegInv'
    BY <2>1, <2>3 DEF CtlInv, RegInv, Removing, Moving
  <2> QED  BY <2>2, <2>4 DEF CtlInv
<1>2. ASSUME NEW n \in Names, BeginRemove(c, n)
      PROVE  CtlInv'
  <2> DEFINE m == m_monitors[n]
  <2>1. /\ pc[c] = "idle" /\ pc'[c] = "stop" /\ todo'[c] = {m} /\ why'[c] = "remove"
        /\ \A k \in Names \ {n} : m_monitors'[k] = m_monitors[k]
        /\ UNCHANGED <<m_running, thread, token, threw>>
        /\ OnlyMoves(c)
    BY <1>2 DEF BeginRemove
  <2>2. CallInv'
    BY <2>1 DEF CtlInv, CallInv
  <2>3. TokenInv' /\ RunningMeansWatched' /\ ThrewInv'
    BY <2>1 DEF CtlInv, TokenInv, RunningMeansWatched, ThrewInv, Busy
  <2>4. \A k \in Monitors \ {m} : Registered(k) => Registered(k)'
    BY <2>1 DEF Registered
  <2>5. \A k \in Monitors : Moving(k)' <=> Moving(k)
    BY <2>1 DEF Moving
  <2>6. RegInv'
    BY <2>1, <2>4, <2>5 DEF CtlInv, RegInv, Removing, StopPCs
  <2> QED  BY <2>2, <2>3, <2>6 DEF CtlInv
<1>3. ASSUME BeginInitialize(c) \/ EndInitialize(c) \/ StartService(c)
             \/ \E reason \in {"stop", "shutdown"} : BeginStopAll(c, reason)
      PROVE  CtlInv'
  <2>1. /\ pc[c] \in {"idle", "initialize"} /\ pc'[c] \in {"idle", "initialize", "stop"}
        /\ UNCHANGED <<m_running, thread, token, threw, at, m_monitors>>
        /\ OnlyMoves(c)
    BY <1>3 DEF BeginInitialize, EndInitialize, StartService, BeginStopAll, clientVars
  <2>2. CallInv'
    BY <2>1 DEF CtlInv, CallInv
  <2>3. TokenInv' /\ RunningMeansWatched' /\ ThrewInv'
    BY <2>1 DEF CtlInv, TokenInv, RunningMeansWatched, ThrewInv, Busy
  <2>4. \A k \in Monitors : Moving(k)' <=> Moving(k)
    BY <2>1 DEF Moving
  <2>5. RegInv'
    BY <2>1, <2>4 DEF CtlInv, RegInv, Registered, Removing, StopPCs
  <2> QED  BY <2>2, <2>3, <2>5 DEF CtlInv
<1> QED  BY <1>1, <1>2, <1>3, CtlBeginStart DEF CallService, CallManager

LEMMA CtlStep == TypeOK /\ Apart /\ Apart' /\ CtlInv /\ [Next]_vars => CtlInv'
<1> SUFFICES ASSUME TypeOK, Apart, Apart', CtlInv, [Next]_vars PROVE CtlInv'
  OBVIOUS
<1>1. CASE \E f \in Files : Change(f)
  BY <1>1, CtlFrame DEF Change, ctlVars, managerVars, monitorVars, clientVars
<1>2. CASE UNCHANGED vars
  BY <1>2, CtlFrame DEF vars, ctlVars, managerVars, monitorVars, clientVars
<1>3. ASSUME NEW c \in Clients, InCall(c)
      PROVE  CtlInv'
  <2>1. CASE pc[c] = "scan" /\ ScanFile(c)
    BY <2>1, CtlFrame DEF ScanFile, ctlVars, managerVars, monitorVars, clientVars
  <2> QED  BY <1>3, <2>1, CtlStarting, CtlStopping, CtlCalling DEF InCall
<1> QED  BY <1>1, <1>2, <1>3, CtlWorker, CtlCalling DEF Next

-----------------------------------------------------------------------------
(* What a service that stops has still on its list *)

LEMMA StopFrame ==
    ASSUME StopInv,
           \A k \in Monitors : Moving(k)' => Moving(k),
           \A c \in Clients : pc'[c] \in StopPCs /\ why'[c] # "remove" =>
              /\ pc[c] \in StopPCs /\ why[c] # "remove"
              /\ \A k \in Monitors : Moving(k)' /\ k \in todo[c] => k \in todo'[c]
    PROVE  StopInv'
BY DEF StopInv

LEMMA StopCalling ==
    ASSUME TypeOK, CtlInv, StopInv, StopAlone', NEW c \in Clients,
           CallService(c) \/ EndInitialize(c) \/ \E n \in Names : CallManager(c, n)
    PROVE  StopInv'
<1> USE DEF managerVars, monitorVars, TypeOK
<1>1. CASE UNCHANGED <<m_running, thread>> /\ OnlyMoves(c) /\ (pc'[c] \in StopPCs => why'[c] = "remove")
  BY <1>1, StopFrame DEF Moving, OnlyMoves
<1>2. CASE \E n \in Names : Add(c, n)
  BY <1>2 DEF Add, clientVars, StopInv, Moving
<1>3. ASSUME NEW n \in Names, BeginStart(c, n)
      PROVE  StopInv'
  <2>1. pc'[c] = "scan" /\ UNCHANGED why
    BY <1>3 DEF BeginStart
  <2>2. \A d \in Clients : ~(pc'[d] \in StopPCs /\ why'[d] # "remove")
    BY <2>1 DEF StopAlone, StopPCs
  <2> QED  BY <2>2 DEF StopInv
<1>4. CASE \E n \in Names : BeginRemove(c, n)
  BY <1>1, <1>4 DEF BeginRemove, OnlyMoves
<1>5. CASE BeginInitialize(c) \/ EndInitialize(c)
  BY <1>1, <1>5 DEF BeginInitialize, EndInitialize, OnlyMoves, StopPCs
<1>6. CASE StartService(c)
  BY <1>6 DEF StartService, clientVars, StopInv, Moving
<1>7. ASSUME NEW reason \in {"stop", "shutdown"}, BeginStopAll(c, reason)
      PROVE  StopInv'
  <2>1. /\ pc'[c] = "stop" /\ why'[c] # "remove"
        /\ todo'[c] = {m_monitors[n] : n \in Names} \ {0}
        /\ UNCHANGED <<m_running, thread, m_monitors>> /\ OnlyMoves(c)
        /\ pc[c] = "idle"
    BY <1>7 DEF BeginStopAll, Purposes, OnlyMoves
  <2>2. \A d \in Clients \ {c} : pc'[d] \in {"idle", "initialize"}
    BY <2>1 DEF StopAlone, StopPCs
  <2>3. \A d \in Clients, m \in Monitors : ~Removing(d, m)
    BY <2>1, <2>2 DEF Removing, StopPCs, OnlyMoves
  <2>4. \A m \in Monitors : Moving(m)' => m # 0 /\ Registered(m)
    BY <2>1, <2>3 DEF CtlInv, RegInv, Moving, Monitors
  <2>5. \A m \in Monitors : Moving(m)' => m \in todo'[c]
    BY <2>1, <2>4 DEF Registered
  <2> QED  BY <2>2, <2>5 DEF StopInv, StopPCs
<1> QED  BY <1>2, <1>3, <1>4, <1>5, <1>6, <1>7 DEF CallService, CallManager

LEMMA StopStep ==
    ASSUME TypeOK, Apart, CtlInv, StopInv, StopAlone', [Next]_vars
    PROVE  StopInv'
<1>1. CASE (\E f \in Files : Change(f)) \/ UNCHANGED vars
  BY <1>1, StopFrame DEF Change, vars, managerVars, monitorVars, clientVars, Moving
<1>2. ASSUME NEW m \in Monitors, Worker(m)
      PROVE  StopInv'
  <2>1. UNCHANGED <<m_running, pc, why, todo>>
    BY <1>2 DEF Worker, LoopTest, Wake, ScanFile, ScanFails, ScanDone, Report, ReportDone,
                monitorVars, clientVars
  <2>2. \A k \in Monitors : thread'[k] = thread[k] \/ (k = m /\ thread[k] \in WatchingPCs)
    BY <1>2 DEF Worker, LoopTest, Wake, ScanFile, ScanFails, ScanDone, Report, ReportDone,
                Goto, monitorVars, WatchingPCs, TypeOK
  <2> QED  BY <2>1, <2>2, StopFrame DEF Moving
<1>3. ASSUME NEW c \in Clients, InCall(c)
      PROVE  StopInv'
  <2>1. CASE pc[c] = "scan" /\ ScanFile(c)
    BY <2>1, StopFrame DEF ScanFile, monitorVars, clientVars, Moving
  <2>2. CASE StartFails(c) \/ StartThrows(c) \/ StartScanned(c) \/ AssignWorker(c)
    BY <2>2, CtlStarting, StopFrame DEF OnlyMoves
  <2>3. CASE StopIdle(c) \/ StopRunning(c) \/ RequestStop(c) \/ Join(c) \/ EndStop(c)
    BY <2>3, CtlStopping, StopFrame DEF OnlyMoves
  <2> QED  BY <1>3, <2>1, <2>2, <2>3, StopCalling DEF InCall
<1> QED  BY <1>1, <1>2, <1>3, StopCalling DEF Next

-----------------------------------------------------------------------------
(* What the listener was told *)

LEMMA ToldInit == Init => ToldInv
BY DEF Init, ToldInv, WatchingPCs

\* A step that tells nothing, takes no listing and starts no comparison.
LEMMA ToldFrame ==
    ASSUME ToldInv,
           UNCHANGED <<told, m_snapshot>>,
           \A m \in Monitors : thread'[m] \in WatchingPCs => thread[m] \in WatchingPCs,
           \A m \in Monitors : thread'[m] = "report" <=> thread[m] = "report",
           \A m \in Monitors : thread[m] = "report" =>
              unread'[m] = unread[m] /\ current'[m] = current[m],
           \A c \in Clients : pc'[c] = "assign" => pc[c] = "assign" /\ at'[c] = at[c]
    PROVE  ToldInv'
<1>1. \A m \in Monitors : thread[m] \in WatchingPCs => Known(m)' = Known(m)
  BY DEF Known, Present
<1> QED  BY <1>1 DEF ToldInv

LEMMA ToldWorker ==
    ASSUME TypeOK, CtlInv, ToldInv, NEW m \in Monitors, Worker(m)
    PROVE  ToldInv'
<1> USE ScannerFacts DEF TypeOK, managerVars, monitorVars, clientVars, dirVars
<1>0. "report" \in WatchingPCs /\ "scan" \in WatchingPCs
  BY DEF WatchingPCs
<1>9. \A d \in Clients : pc[d] = "assign" => at[d] \in Monitors /\ thread[at[d]] # "report"
  BY DEF CtlInv, CallInv
<1>1. CASE LoopTest(m)
  BY <1>1, ToldFrame DEF LoopTest, Goto, scanVars, WatchingPCs
<1>2. CASE Wake(m)
  <2>1. \A k \in Monitors \ {m} : unread'[k] = unread[k] /\ current'[k] = current[k]
    BY <1>2 DEF Wake, BeginScan, scanVars
  <2>2. /\ thread[m] = "asleep" /\ thread'[m] \in {"exited", "scan"}
        /\ \A k \in Monitors \ {m} : thread'[k] = thread[k]
    BY <1>2 DEF Wake, Goto
  <2> QED  BY <1>2, <2>1, <2>2, ToldFrame DEF Wake, WatchingPCs
<1>3. CASE thread[m] = "scan" /\ ScanFile(m)
  BY <1>3, ToldFrame DEF ScanFile
<1>4. CASE ScanFails(m)
  BY <1>4, ToldFrame DEF ScanFails, Goto, EndScan, WatchingPCs
<1>5. CASE ScanDone(m)
  <2>1. /\ thread[m] = "scan" /\ thread'[m] = "report"
        /\ \A k \in Monitors \ {m} : thread'[k] = thread[k] /\ unread'[k] = unread[k]
        /\ unread'[m] = {f \in Files : current[m][f] # m_snapshot[m][f]}
        /\ UNCHANGED <<told, m_snapshot, current, pc, at>>
    BY <1>5 DEF ScanDone, Goto
  <2>2. told[m] = {f \in Files : m_snapshot[m][f] # 0}
    BY <1>0, <2>1 DEF ToldInv, Known, Present
  <2>3. Known(m)' = told[m]
    BY <2>1, <2>2 DEF Known
  <2>4. \A k \in Monitors \ {m} : Known(k)' = Known(k)
    BY <2>1 DEF Known, Present
  <2> QED  BY <2>1, <2>3, <2>4 DEF ToldInv
<1>6. ASSUME NEW f \in Files, Report(m, f)
      PROVE  ToldInv'
  <2>1. /\ thread[m] = "report" /\ f \in unread[m]
        /\ unread'[m] = unread[m] \ {f}
        /\ \A k \in Monitors \ {m} : unread'[k] = unread[k] /\ told'[k] = told[k]
        /\ UNCHANGED <<m_snapshot, thread, current, pc, at>>
    BY <1>6 DEF Report
  <2>2. /\ current[m][f] # m_snapshot[m][f]
        /\ told[m] = Known(m)
    BY <1>0, <2>1 DEF ToldInv
  <2>3. told'[m] = IF m_snapshot[m][f] = 0 THEN told[m] \cup {f}
                   ELSE IF current[m][f] = 0 THEN told[m] \ {f}
                   ELSE told[m]
    BY <1>6 DEF Report, EventType
  <2>4. told'[m] = Known(m)'
    BY <2>1, <2>2, <2>3 DEF Known
  <2>5. \A k \in Monitors \ {m} : Known(k)' = Known(k)
    BY <2>1 DEF Known, Present
  <2>6. \A d \in Clients : pc[d] = "assign" => told'[at[d]] = Present(m_snapshot[at[d]])
    BY <1>9, <2>1 DEF ToldInv
  <2> QED  BY <2>1, <2>4, <2>5, <2>6 DEF ToldInv
<1>7. CASE ReportDone(m)
  <2>1. /\ thread[m] = "report" /\ thread'[m] = "top" /\ unread[m] = {}
        /\ m_snapshot'[m] = current[m]
        /\ \A k \in Monitors \ {m} : /\ thread'[k] = thread[k] /\ unread'[k] = unread[k]
                                     /\ current'[k] = current[k]
                                     /\ m_snapshot'[k] = m_snapshot[k]
        /\ UNCHANGED <<told, pc, at>>
    BY <1>7 DEF ReportDone, Goto, EndScan
  <2>2. told[m] = {f \in Files : current[m][f] # 0}
    BY <1>0, <2>1 DEF ToldInv, Known
  <2>3. told'[m] = Known(m)'
    BY <2>1, <2>2 DEF Known, Present
  <2>4. ASSUME NEW k \in Monitors \ {m}
        PROVE  Known(k)' = Known(k)
    <3>1. /\ thread'[k] = thread[k] /\ unread'[k] = unread[k]
          /\ current'[k] = current[k] /\ m_snapshot'[k] = m_snapshot[k]
      BY <2>1
    <3>2. CASE thread[k] = "report"
      BY <3>1, <3>2 DEF Known
    <3>3. CASE thread[k] # "report"
      BY <3>1, <3>3 DEF Known, Present
    <3> QED  BY <3>2, <3>3
  <2>5. \A d \in Clients : pc[d] = "assign" =>
           told[at[d]] = Present(m_snapshot'[at[d]])
    BY <1>9, <2>1 DEF ToldInv, Present
  <2> QED  BY <2>1, <2>3, <2>4, <2>5 DEF ToldInv
<1> QED  BY <1>1, <1>2, <1>3, <1>4, <1>5, <1>6, <1>7 DEF Worker

\* The steps of a client that neither take a listing nor start a thread.
LEMMA ToldQuiet ==
    ASSUME TypeOK, CtlInv, ToldInv, NEW c \in Clients,
           UNCHANGED <<told, m_snapshot>>,
           thread' = thread \/ Join(c),
           UNCHANGED scanVars \/ BeginScan(c) \/ EndScan(c) \/ ScanFile(c),
           pc'[c] # "assign",
           \A d \in Clients \ {c} : pc'[d] = pc[d] /\ at'[d] = at[d]
    PROVE  ToldInv'
<1>1. \A m \in Monitors : thread'[m] \in WatchingPCs => thread[m] \in WatchingPCs
  BY DEF Join, TypeOK, WatchingPCs
<1>2. \A m \in Monitors : thread'[m] = "report" <=> thread[m] = "report"
  BY DEF Join, TypeOK
<1>3. \A m \in Monitors : unread'[m] = unread[m] /\ current'[m] = current[m]
  BY ScannerFacts DEF TypeOK, scanVars, BeginScan, EndScan, ScanFile
<1> QED  BY <1>1, <1>2, <1>3, ToldFrame

LEMMA ToldCall ==
    ASSUME TypeOK, Apart, CtlInv, ToldInv, NEW c \in Clients,
           InCall(c) \/ CallService(c) \/ \E n \in Names : CallManager(c, n)
    PROVE  ToldInv'
<1> USE DEF TypeOK, managerVars, monitorVars, scanVars, dirVars
<1>1. CASE pc[c] = "scan" /\ ScanFile(c)
  BY <1>1, ToldQuiet DEF ScanFile, clientVars
<1>2. CASE StartFails(c)
  BY <1>2, ToldQuiet DEF StartFails
<1>13. CASE StartThrows(c)
  BY <1>13, ToldQuiet DEF StartThrows
<1>3. CASE StartScanned(c)
  <2> DEFINE m == at[c]
  <2>1. /\ m \in Monitors /\ thread[m] \in {"none", "exited"}
        /\ \A d \in Clients \ {c} : at[d] = m => pc[d] # "assign"
    BY <1>3, Alone DEF CtlInv, CallInv, StartScanned, WorksOn
  <2>2. /\ told'[m] = Present(current[c]) /\ m_snapshot'[m] = current[c]
        /\ \A k \in Monitors \ {m} : told'[k] = told[k] /\ m_snapshot'[k] = m_snapshot[k]
        /\ \A k \in Monitors : unread'[k] = unread[k] /\ current'[k] = current[k]
        /\ UNCHANGED <<thread, at>>
        /\ \A d \in Clients \ {c} : pc'[d] = pc[d]
    BY <1>3, <2>1, ScannerFacts DEF StartScanned, EndScan
  <2>3. thread[m] \notin WatchingPCs
    BY <2>1 DEF WatchingPCs
  <2>4. ASSUME NEW k \in Monitors \ {m}
        PROVE  Known(k)' = Known(k)
    <3>1. CASE thread[k] = "report"
      BY <2>2, <3>1 DEF Known
    <3>2. CASE thread[k] # "report"
      BY <2>2, <3>2 DEF Known, Present
    <3> QED  BY <3>1, <3>2
  <2>5. told'[m] = Present(m_snapshot'[m])
    BY <2>2
  <2>6. \A d \in Clients : pc'[d] = "assign" => told'[at'[d]] = Present(m_snapshot'[at'[d]])
    <3> SUFFICES ASSUME NEW d \in Clients \ {c}, pc[d] = "assign"
                 PROVE  told'[at[d]] = Present(m_snapshot'[at[d]])
      BY <2>2, <2>5
    <3>1. at[d] \in Monitors \ {m}
      BY <2>1 DEF CtlInv, CallInv
    <3>2. told[at[d]] = Present(m_snapshot[at[d]])
      BY DEF ToldInv
    <3> QED  BY <2>2, <3>1, <3>2
  <2> QED  BY <2>2, <2>3, <2>4, <2>6 DEF ToldInv, WatchingPCs
<1>4. CASE AssignWorker(c)
  <2> DEFINE m == at[c]
  <2>1. /\ pc[c] = "assign" /\ m \in Monitors /\ thread'[m] = "top"
        /\ \A k \in Monitors \ {m} : thread'[k] = thread[k]
        /\ pc'[c] = "idle" /\ \A d \in Clients \ {c} : pc'[d] = pc[d]
        /\ UNCHANGED <<told, m_snapshot, unread, current, at>>
    BY <1>4 DEF CtlInv, CallInv, AssignWorker
  <2>2. told[m] = Present(m_snapshot[m])
    BY <2>1 DEF ToldInv
  <2>3. told'[m] = Known(m)'
    BY <2>1, <2>2 DEF Known, Present
  <2>4. \A k \in Monitors \ {m} : Known(k)' = Known(k)
    BY <2>1 DEF Known, Present
  <2> QED  BY <2>1, <2>3, <2>4 DEF ToldInv
<1>5. CASE EndInitialize(c)
  BY <1>5, ToldQuiet DEF EndInitialize
<1>6. CASE StopIdle(c)
  BY <1>6, ToldQuiet DEF StopIdle
<1>7. CASE StopRunning(c)
  BY <1>7, ToldQuiet DEF StopRunning
<1>8. CASE RequestStop(c)
  BY <1>8, ToldQuiet DEF RequestStop
<1>9. CASE Join(c)
  BY <1>9, ToldQuiet DEF Join
<1>10. CASE EndStop(c)
  BY <1>10, ToldQuiet DEF EndStop
<1>11. ASSUME NEW n \in Names, CallManager(c, n)
       PROVE  ToldInv'
  BY <1>11, ToldQuiet DEF CallManager, Add, BeginStart, BeginRemove, clientVars
<1>12. CASE CallService(c)
  BY <1>12, ToldQuiet DEF CallService, BeginInitialize, StartService, BeginStopAll, clientVars
<1> QED  BY <1>1, <1>2, <1>3, <1>4, <1>5, <1>6, <1>7, <1>8, <1>9, <1>10, <1>11, <1>12,
            <1>13 DEF InCall

LEMMA ToldStep == TypeOK /\ Apart /\ CtlInv /\ ToldInv /\ [Next]_vars => ToldInv'
<1> SUFFICES ASSUME TypeOK, Apart, CtlInv, ToldInv, [Next]_vars PROVE ToldInv'
  OBVIOUS
<1>1. CASE (\E f \in Files : Change(f)) \/ UNCHANGED vars
  BY <1>1, ToldFrame DEF Change, vars, managerVars, monitorVars, scanVars, clientVars
<1> QED  BY <1>1, ToldWorker, ToldCall DEF Next

-----------------------------------------------------------------------------
(* Theorems *)

\* Every variable keeps its type, however the clients' calls overlap.
THEOREM TypeCorrect == Spec => []TypeOK
BY TypeInit, TypeStep, PTL DEF Spec

\* A single client keeps both rules.
THEOREM OneOwnerKeepsRules ==
    ASSUME \A c, d \in Clients : c = d
    PROVE  Spec => [](Apart /\ StopAlone)
<1>1. Apart /\ StopAlone
  BY DEF Apart, StopAlone
<1> QED  BY <1>1, PTL

IInv == TypeOK /\ CtlInv /\ ToldInv

THEOREM Correct == Spec /\ []Apart => []IInv
<1>1. Init => IInv
  BY TypeInit, CtlInit, ToldInit DEF IInv
<1>2. IInv /\ Apart /\ Apart' /\ [Next]_vars => IInv'
  BY TypeStep, CtlStep, ToldStep DEF IInv
<1> QED  BY <1>1, <1>2, PTL DEF Spec

\* IsRunning tells whether the directory is watched, for any number of owners whose calls
\* do not overlap on one monitor: a start that fails clears the flag, a stop that returns
\* has joined the thread, and only a start that throws (the constructor of the thread, or
\* an allocation) leaves the flag set with no thread, until the next stop.
THEOREM RunningMeansWatchedCorrect == Spec /\ []Apart => []RunningMeansWatched
<1>1. IInv => RunningMeansWatched
  BY DEF IInv, CtlInv
<1> QED  BY <1>1, Correct, PTL

\* Every callback makes sense to who follows the callbacks of a monitor (EventsMakeSense).
THEOREM EventsMakeSenseCorrect == Spec /\ []Apart => EventsMakeSense
<1>1. ASSUME IInv, NEW m \in Monitors, NEW f \in Files, Report(m, f)
      PROVE  EventType(m, f) = "Created" <=> f \notin told[m]
  <2>1. thread[m] = "report" /\ f \in unread[m]
    BY <1>1 DEF Report
  <2>2. told[m] = Known(m)
    BY <1>1, <2>1 DEF IInv, ToldInv, WatchingPCs
  <2>3. f \in told[m] <=> m_snapshot[m][f] # 0
    BY <2>1, <2>2 DEF Known
  <2> QED  BY <2>3 DEF EventType
<1>2. IInv => [\A m \in Monitors, f \in Files :
                  Report(m, f) => (EventType(m, f) = "Created" <=> f \notin told[m])]_vars
  BY <1>1
<1> QED  BY <1>2, Correct, PTL DEF EventsMakeSense

\* No monitor calls back once Stop or Shutdown says that the service is stopped, if nobody
\* else was in a call meanwhile (StoppedServiceWatchesNothing).
THEOREM StoppedServiceWatchesNothingCorrect ==
    Spec /\ [](Apart /\ StopAlone) => StoppedServiceWatchesNothing
<1> DEFINE Quiet == m_state # "Stopped" /\ m_state' = "Stopped" =>
                       \A m \in Monitors : thread'[m] \notin WatchingPCs
<1>1. Init => StopInv
  BY DEF Init, StopInv, StopPCs
<1>2. IInv /\ Apart /\ StopInv /\ StopAlone' /\ [Next]_vars => StopInv'
  BY StopStep DEF IInv
<1>3. Spec /\ [](Apart /\ StopAlone) => []StopInv
  BY <1>1, <1>2, Correct, PTL DEF Spec
<1>4. ASSUME StopInv, Next, m_state # "Stopped", m_state' = "Stopped"
      PROVE  \A m \in Monitors : thread'[m] \notin WatchingPCs
  <2>1. PICK c \in Clients : EndStop(c) /\ why[c] # "remove"
    <3> USE DEF managerVars
    <3>1. CASE \E f \in Files : Change(f)
      BY <1>4, <3>1 DEF Change
    <3>2. CASE \E m \in Monitors : Worker(m)
      BY <1>4, <3>2 DEF Worker, LoopTest, Wake, ScanFile, ScanFails, ScanDone, Report,
                        ReportDone
    <3>3. CASE \E c \in Clients, n \in Names : CallManager(c, n)
      BY <1>4, <3>3 DEF CallManager, Add, BeginStart, BeginRemove
    <3>4. CASE \E c \in Clients : CallService(c)
      BY <1>4, <3>4 DEF CallService, BeginInitialize, StartService, BeginStopAll
    <3>5. CASE \E c \in Clients : InCall(c)
      BY <1>4, <3>5 DEF InCall, ScanFile, StartFails, StartThrows, StartScanned, AssignWorker,
                        EndInitialize, StopIdle, StopRunning, RequestStop, Join, EndStop
    <3> QED  BY <1>4, <3>1, <3>2, <3>3, <3>4, <3>5 DEF Next
  <2>2. todo[c] = {} /\ pc[c] = "stop" /\ thread' = thread
    BY <2>1 DEF EndStop, monitorVars
  <2>3. \A m \in Monitors : ~Moving(m)
    BY <1>4, <2>1, <2>2 DEF StopInv, StopPCs
  <2> QED  BY <2>2, <2>3 DEF Moving
<1>5. StopInv /\ [Next]_vars => [Quiet]_vars
  <2>1. StopInv /\ Next => Quiet
    BY <1>4
  <2> QED  BY <2>1
<1>6. [][Quiet]_vars <=> StoppedServiceWatchesNothing
  BY DEF StoppedServiceWatchesNothing
<1> HIDE DEF Quiet
<1> QED  BY <1>3, <1>5, <1>6, PTL DEF Spec

=============================================================================
