-------------------------- MODULE FileSystemMonitor ------------------------
(***************************************************************************)
(* File_System_Monitor (a thread that polls a directory and calls back),   *)
(* File_System_Monitor_Manager (monitors by name, behind m_mutex) and      *)
(* Folder_System_Module (the service that owns the manager).               *)
(*                                                                         *)
(* A listing maps each file to its last write time, 0 when it is absent.   *)
(* All monitors watch one directory; a monitor is named by the number of   *)
(* the Add that created it.                                                *)
(***************************************************************************)
EXTENDS Integers, FiniteSets

CONSTANTS
    Names,        \* names under which monitors are registered
    Clients,      \* threads that call the manager and the service
    Files,        \* files that the directory may hold
    Times,        \* last write times
    MaxMonitors,  \* bound on the calls of Add that succeed
    MaxChanges,   \* bound on the changes of the directory
    MaxFailures   \* bound on the snapshots and the starts that fail

ASSUME TimesAssumption == Times \subseteq Nat \ {0}
ASSUME MaxMonitorsAssumption == MaxMonitors \in Nat
ASSUME ClientsAssumption == Clients \cap (0..MaxMonitors) = {}

Monitors == 1..MaxMonitors
Listings == [Files -> Times \cup {0}]
Present(listing) == {f \in Files : listing[f] # 0}
Nothing == [f \in Files |-> 0]

\* Each thread that can build a snapshot has the locals of BuildSnapshot.
Scanners == Monitors \cup Clients

VARIABLES
    m_state,      \* the service's ServiceState
    m_mutex,      \* the manager's mutex: its holder, or "free"
    m_monitors,   \* the manager's map: name to monitor, 0 for none
    added,        \* how many monitors were created
    alive,        \* whether the object exists
    m_running,    \* the monitor's atomic flag
    m_snapshot,   \* the monitor's last listing
    thread,       \* where the monitor's m_worker is
    token,        \* stop_requested() of m_worker's token
    unread,       \* a scanner's files still to read; a worker's events still to send
    current,      \* a scanner's listing under construction
    pc,           \* where each client is
    at,           \* the monitor that a client starts or stops
    todo,         \* the monitors that it will stop
    why,          \* for which call it stops them
    told,         \* history: the files that exist for who hears the callbacks
    threw,        \* history: whether the monitor's last Start threw, until its Stop
    dir,          \* the directory
    changes, failures

managerVars == <<m_state, m_mutex, m_monitors, added, alive>>
monitorVars == <<m_running, m_snapshot, thread, token, told, threw>>
scanVars    == <<unread, current>>
clientVars  == <<pc, at, todo, why>>
dirVars     == <<dir, changes, failures>>
vars == <<managerVars, monitorVars, scanVars, clientVars, dirVars>>

WatchingPCs == {"top", "asleep", "scan", "report"}
ThreadPCs == {"none", "exited"} \cup WatchingPCs
ClientPCs == {"idle", "initialize", "scan", "assign", "stop", "request", "join"}
Purposes  == {"remove", "stop", "shutdown", "none"}

Init ==
    /\ m_state = "Created"
    /\ m_mutex = "free"
    /\ m_monitors = [n \in Names |-> 0]
    /\ added = 0
    /\ alive = [m \in Monitors |-> FALSE]
    /\ m_running = [m \in Monitors |-> FALSE]
    /\ m_snapshot = [m \in Monitors |-> Nothing]
    /\ thread = [m \in Monitors |-> "none"]
    /\ token = [m \in Monitors |-> FALSE]
    /\ told = [m \in Monitors |-> {}]
    /\ threw = [m \in Monitors |-> FALSE]
    /\ unread = [s \in Scanners |-> {}]
    /\ current = [s \in Scanners |-> Nothing]
    /\ pc = [c \in Clients |-> "idle"]
    /\ at = [c \in Clients |-> 0]
    /\ todo = [c \in Clients |-> {}]
    /\ why = [c \in Clients |-> "none"]
    /\ dir \in Listings
    /\ changes = 0
    /\ failures = 0

-----------------------------------------------------------------------------
(* The directory, and BuildSnapshot *)

\* Somebody writes, creates or removes a file.
Change(f) ==
    /\ changes < MaxChanges
    /\ \E t \in (Times \cup {0}) \ {dir[f]} : dir' = [dir EXCEPT ![f] = t]
    /\ changes' = changes + 1
    /\ UNCHANGED <<managerVars, monitorVars, scanVars, clientVars, failures>>

\* The locals of a BuildSnapshot that begins.
BeginScan(s) ==
    /\ unread' = [unread EXCEPT ![s] = Files]
    /\ current' = [current EXCEPT ![s] = Nothing]

\* The locals are gone.
EndScan(s) ==
    /\ unread' = [unread EXCEPT ![s] = {}]
    /\ current' = [current EXCEPT ![s] = Nothing]

\* The iterator comes to one file; a file that has gone is left out.
ScanFile(s) ==
    /\ \E f \in unread[s] :
          /\ current' = [current EXCEPT ![s][f] = dir[f]]
          /\ unread' = [unread EXCEPT ![s] = @ \ {f}]
    /\ UNCHANGED <<managerVars, monitorVars, clientVars, dirVars>>

-----------------------------------------------------------------------------
(* File_System_Monitor::Worker *)

Goto(m, from, to) == thread[m] = from /\ thread' = [thread EXCEPT ![m] = to]

\* while (!token.stop_requested() && m_running.load())
LoopTest(m) ==
    /\ Goto(m, "top", IF token[m] \/ ~m_running[m] THEN "exited" ELSE "asleep")
    /\ UNCHANGED <<managerVars, m_running, m_snapshot, token, told, threw, scanVars,
                   clientVars, dirVars>>

\* The end of sleep_for, and the second test of the token.
Wake(m) ==
    /\ Goto(m, "asleep", IF token[m] THEN "exited" ELSE "scan")
    /\ IF token[m] THEN UNCHANGED scanVars ELSE BeginScan(m)
    /\ UNCHANGED <<managerVars, m_running, m_snapshot, token, told, threw, clientVars, dirVars>>

\* Mutant: a snapshot that fails ends the thread.
ScanFailsEnds(m) ==
    /\ Goto(m, "scan", "exited")
    /\ failures < MaxFailures
    /\ failures' = failures + 1
    /\ EndScan(m)
    /\ UNCHANGED <<managerVars, m_running, m_snapshot, token, told, threw, clientVars, dir,
                   changes>>

\* BuildSnapshot fails: the error is logged and the loop goes on.
ScanFails(m) ==
    /\ Goto(m, "scan", "top")
    /\ failures < MaxFailures
    /\ failures' = failures + 1
    /\ EndScan(m)
    /\ UNCHANGED <<managerVars, m_running, m_snapshot, token, told, threw, clientVars, dir,
                   changes>>

\* The comparison of the listing with m_snapshot begins.
ScanDone(m) ==
    /\ unread[m] = {}
    /\ Goto(m, "scan", "report")
    /\ unread' = [unread EXCEPT ![m] = {f \in Files : current[m][f] # m_snapshot[m][f]}]
    /\ UNCHANGED <<managerVars, m_running, m_snapshot, token, told, threw, current,
                   clientVars, dirVars>>

\* Which event the worker sends for a file that changed.
EventType(m, f) ==
    IF m_snapshot[m][f] = 0 THEN "Created"
    ELSE IF current[m][f] = 0 THEN "Removed"
    ELSE "Modified"

\* m_callback with one event.  The first loop sends Created and Modified, the second
\* one Removed.
Report(m, f) ==
    /\ thread[m] = "report"
    /\ f \in unread[m]
    /\ EventType(m, f) = "Removed" =>
          \A g \in unread[m] : EventType(m, g) = "Removed"
    /\ told' = [told EXCEPT ![m] =
          IF EventType(m, f) = "Created" THEN @ \cup {f}
          ELSE IF EventType(m, f) = "Removed" THEN @ \ {f}
          ELSE @]
    /\ unread' = [unread EXCEPT ![m] = @ \ {f}]
    /\ UNCHANGED <<managerVars, m_running, m_snapshot, thread, token, threw, current,
                   clientVars, dirVars>>

\* Mutant: m_snapshot is not replaced.
ReportDoneForgets(m) ==
    /\ unread[m] = {}
    /\ Goto(m, "report", "top")
    /\ EndScan(m)
    /\ UNCHANGED <<managerVars, m_running, m_snapshot, token, told, threw, clientVars, dirVars>>

\* m_snapshot = std::move(current).
ReportDone(m) ==
    /\ unread[m] = {}
    /\ Goto(m, "report", "top")
    /\ m_snapshot' = [m_snapshot EXCEPT ![m] = current[m]]
    /\ EndScan(m)
    /\ UNCHANGED <<managerVars, m_running, token, told, threw, clientVars, dirVars>>

Worker(m) ==
    \/ LoopTest(m) \/ Wake(m)
    \/ thread[m] = "scan" /\ ScanFile(m)
    \/ ScanFails(m) \/ ScanDone(m)
    \/ (\E f \in Files : Report(m, f))
    \/ ReportDone(m)

-----------------------------------------------------------------------------
(* File_System_Monitor_Manager: Add, Start and Remove *)

\* A monitor under a new name; a name that is taken is refused.
Add(c, n) ==
    /\ pc[c] = "idle"
    /\ m_mutex = "free"
    /\ m_monitors[n] = 0
    /\ added < MaxMonitors
    /\ added' = added + 1
    /\ m_monitors' = [m_monitors EXCEPT ![n] = added + 1]
    /\ alive' = [alive EXCEPT ![added + 1] = TRUE]
    /\ UNCHANGED <<m_state, m_mutex, monitorVars, scanVars, clientVars, dirVars>>

\* The manager's lock, and the exchange of m_running; a monitor that runs is left alone.
BeginStart(c, n) ==
    /\ pc[c] = "idle"
    /\ m_mutex = "free"
    /\ m_monitors[n] # 0 /\ ~m_running[m_monitors[n]]
    /\ m_running' = [m_running EXCEPT ![m_monitors[n]] = TRUE]
    /\ m_mutex' = c
    /\ at' = [at EXCEPT ![c] = m_monitors[n]]
    /\ pc' = [pc EXCEPT ![c] = "scan"]
    /\ BeginScan(c)
    /\ UNCHANGED <<m_state, m_monitors, added, alive, m_snapshot, thread, token, told, threw,
                   todo, why, dirVars>>

\* Mutant: m_running stays set.
StartFailsRunning(c) ==
    /\ pc[c] = "scan"
    /\ failures < MaxFailures
    /\ failures' = failures + 1
    /\ m_mutex' = "free"
    /\ EndScan(c)
    /\ pc' = [pc EXCEPT ![c] = "idle"]
    /\ UNCHANGED <<m_state, m_monitors, added, alive, m_running, m_snapshot, thread,
                   token, told, threw, at, todo, why, dir, changes>>

\* BuildSnapshot fails: m_running is cleared again.
StartFails(c) ==
    /\ pc[c] = "scan"
    /\ failures < MaxFailures
    /\ failures' = failures + 1
    /\ m_running' = [m_running EXCEPT ![at[c]] = FALSE]
    /\ m_mutex' = "free"
    /\ EndScan(c)
    /\ pc' = [pc EXCEPT ![c] = "idle"]
    /\ UNCHANGED <<m_state, m_monitors, added, alive, m_snapshot, thread, token, told, threw,
                   at, todo, why, dir, changes>>

\* m_snapshot = std::move(snapshot.Value()): no event tells of these files.
StartScanned(c) ==
    /\ pc[c] = "scan"
    /\ unread[c] = {}
    /\ m_snapshot' = [m_snapshot EXCEPT ![at[c]] = current[c]]
    /\ told' = [told EXCEPT ![at[c]] = Present(current[c])]
    /\ EndScan(c)
    /\ pc' = [pc EXCEPT ![c] = "assign"]
    /\ UNCHANGED <<managerVars, m_running, thread, token, threw, at, todo, why, dirVars>>

\* m_worker = std::jthread(...), which first waits for the end of an earlier thread.
AssignWorker(c) ==
    /\ pc[c] = "assign"
    /\ thread[at[c]] \in {"none", "exited"}
    /\ thread' = [thread EXCEPT ![at[c]] = "top"]
    /\ token' = [token EXCEPT ![at[c]] = FALSE]
    /\ m_mutex' = "free"
    /\ pc' = [pc EXCEPT ![c] = "idle"]
    /\ UNCHANGED <<m_state, m_monitors, added, alive, m_running, m_snapshot, told, threw,
                   scanVars, at, todo, why, dirVars>>

\* An allocation of BuildSnapshot or the constructor of the jthread throws out of Start:
\* the lock is released, m_running stays set and no thread was made.
StartThrows(c) ==
    /\ pc[c] \in {"scan", "assign"}
    /\ failures < MaxFailures
    /\ failures' = failures + 1
    /\ threw' = [threw EXCEPT ![at[c]] = TRUE]
    /\ m_mutex' = "free"
    /\ EndScan(c)
    /\ pc' = [pc EXCEPT ![c] = "idle"]
    /\ UNCHANGED <<m_state, m_monitors, added, alive, m_running, m_snapshot, thread,
                   token, told, at, todo, why, dir, changes>>

\* Remove takes the monitor out of the map under the lock and stops it after that.
BeginRemove(c, n) ==
    /\ pc[c] = "idle"
    /\ m_mutex = "free"
    /\ m_monitors[n] # 0
    /\ m_monitors' = [m_monitors EXCEPT ![n] = 0]
    /\ at' = [at EXCEPT ![c] = m_monitors[n]]
    /\ todo' = [todo EXCEPT ![c] = {m_monitors[n]}]
    /\ why' = [why EXCEPT ![c] = "remove"]
    /\ pc' = [pc EXCEPT ![c] = "stop"]
    /\ UNCHANGED <<m_state, m_mutex, added, alive, monitorVars, scanVars, dirVars>>

-----------------------------------------------------------------------------
(* Folder_System_Module *)

\* The default folders are registered and created, or that fails.
BeginInitialize(c) ==
    /\ pc[c] = "idle"
    /\ m_state' = "Initializing"
    /\ pc' = [pc EXCEPT ![c] = "initialize"]
    /\ UNCHANGED <<m_mutex, m_monitors, added, alive, monitorVars, scanVars, at, todo, why,
                   dirVars>>

EndInitialize(c) ==
    /\ pc[c] = "initialize"
    /\ \E outcome \in {"Created", "Failed"} : m_state' = outcome
    /\ pc' = [pc EXCEPT ![c] = "idle"]
    /\ UNCHANGED <<m_mutex, m_monitors, added, alive, monitorVars, scanVars, at, todo, why,
                   dirVars>>

\* A failed service does not start.
StartService(c) ==
    /\ pc[c] = "idle"
    /\ m_state \notin {"Running", "Failed"}
    /\ m_state' = "Running"
    /\ UNCHANGED <<m_mutex, m_monitors, added, alive, monitorVars, scanVars, clientVars,
                   dirVars>>

\* Stop and Shutdown: StopAll copies the pointers under the lock.
BeginStopAll(c, reason) ==
    /\ pc[c] = "idle"
    /\ m_mutex = "free"
    /\ m_state' = IF reason = "stop" THEN "Stopping" ELSE m_state
    /\ todo' = [todo EXCEPT ![c] = {m_monitors[n] : n \in Names} \ {0}]
    /\ why' = [why EXCEPT ![c] = reason]
    /\ pc' = [pc EXCEPT ![c] = "stop"]
    /\ UNCHANGED <<m_mutex, m_monitors, added, alive, monitorVars, scanVars, at, dirVars>>

-----------------------------------------------------------------------------
(* File_System_Monitor::Stop, for one monitor after the other *)

\* One monitor less to stop.
Done(c, m) == todo' = [todo EXCEPT ![c] = @ \ {m}]

\* The exchange of m_running finds it false.
StopIdle(c) ==
    /\ pc[c] = "stop"
    /\ \E m \in todo[c] : ~m_running[m] /\ Done(c, m)
    /\ UNCHANGED <<managerVars, monitorVars, scanVars, pc, at, why, dirVars>>

\* The exchange of m_running finds it true; m_worker is joinable unless Start threw.
StopRunning(c) ==
    /\ pc[c] = "stop"
    /\ \E m \in todo[c] :
          /\ m_running[m]
          /\ m_running' = [m_running EXCEPT ![m] = FALSE]
          /\ threw' = [threw EXCEPT ![m] = FALSE]
          /\ at' = [at EXCEPT ![c] = m]
          /\ IF thread[m] = "none"
                THEN Done(c, m) /\ UNCHANGED pc
                ELSE pc' = [pc EXCEPT ![c] = "request"] /\ UNCHANGED todo
    /\ UNCHANGED <<managerVars, m_snapshot, thread, token, told, scanVars, why, dirVars>>

RequestStop(c) ==
    /\ pc[c] = "request"
    /\ token' = [token EXCEPT ![at[c]] = TRUE]
    /\ pc' = [pc EXCEPT ![c] = "join"]
    /\ UNCHANGED <<managerVars, m_running, m_snapshot, thread, told, threw, scanVars, at, todo, why,
                   dirVars>>

\* Mutant: the thread is left to end by itself.
JoinDetached(c) ==
    /\ pc[c] = "join"
    /\ Done(c, at[c])
    /\ pc' = [pc EXCEPT ![c] = "stop"]
    /\ UNCHANGED <<managerVars, monitorVars, scanVars, at, why, dirVars>>

\* The join waits for the poll in progress and its callbacks.
Join(c) ==
    /\ pc[c] = "join"
    /\ thread[at[c]] = "exited"
    /\ thread' = [thread EXCEPT ![at[c]] = "none"]
    /\ Done(c, at[c])
    /\ pc' = [pc EXCEPT ![c] = "stop"]
    /\ UNCHANGED <<managerVars, m_running, m_snapshot, token, told, threw, scanVars, at, why,
                   dirVars>>

\* Remove destroys the monitor; Stop and Shutdown mark the service.
EndStop(c) ==
    /\ pc[c] = "stop"
    /\ todo[c] = {}
    /\ IF why[c] = "remove"
          THEN alive' = [alive EXCEPT ![at[c]] = FALSE] /\ UNCHANGED m_state
          ELSE m_state' = "Stopped" /\ UNCHANGED alive
    /\ pc' = [pc EXCEPT ![c] = "idle"]
    /\ UNCHANGED <<m_mutex, m_monitors, added, monitorVars, scanVars, at, todo, why, dirVars>>

\* What a client does once it has called.
InCall(c) ==
    \/ pc[c] = "scan" /\ ScanFile(c)
    \/ StartFails(c) \/ StartThrows(c) \/ StartScanned(c) \/ AssignWorker(c)
    \/ EndInitialize(c)
    \/ StopIdle(c) \/ StopRunning(c) \/ RequestStop(c) \/ Join(c) \/ EndStop(c)

CallManager(c, n) == Add(c, n) \/ BeginStart(c, n) \/ BeginRemove(c, n)

CallService(c) ==
    \/ BeginInitialize(c) \/ StartService(c)
    \/ \E reason \in {"stop", "shutdown"} : BeginStopAll(c, reason)

-----------------------------------------------------------------------------
Next ==
    \/ \E f \in Files : Change(f)
    \/ \E m \in Monitors : Worker(m)
    \/ \E c \in Clients : InCall(c) \/ CallService(c)
    \/ \E c \in Clients, n \in Names : CallManager(c, n)

Spec == Init /\ [][Next]_vars

\* The polling threads and a client inside a call are scheduled, sleeps end and
\* callbacks return.
FairSpec ==
    /\ Spec
    /\ \A m \in Monitors : WF_vars(Worker(m))
    /\ \A c \in Clients : WF_vars(InCall(c))

-----------------------------------------------------------------------------
(* Properties *)

TypeOK ==
    /\ m_state \in {"Created", "Initializing", "Running", "Stopping", "Stopped", "Failed"}
    /\ m_mutex \in Clients \cup {"free"}
    /\ m_monitors \in [Names -> 0..MaxMonitors]
    /\ added \in 0..MaxMonitors
    /\ alive \in [Monitors -> BOOLEAN]
    /\ m_running \in [Monitors -> BOOLEAN]
    /\ m_snapshot \in [Monitors -> Listings]
    /\ thread \in [Monitors -> ThreadPCs]
    /\ token \in [Monitors -> BOOLEAN]
    /\ unread \in [Scanners -> SUBSET Files]
    /\ current \in [Scanners -> Listings]
    /\ pc \in [Clients -> ClientPCs]
    /\ at \in [Clients -> 0..MaxMonitors]
    /\ todo \in [Clients -> SUBSET Monitors]
    /\ why \in [Clients -> Purposes]
    /\ told \in [Monitors -> SUBSET Files]
    /\ threw \in [Monitors -> BOOLEAN]
    /\ dir \in Listings

\* Every callback makes sense to who follows them from the listing that Start took:
\* Created is for a file that did not exist, Modified and Removed for one that did,
\* whatever the directory did while it was read.
EventsMakeSense ==
    [][\A m \in Monitors, f \in Files :
          Report(m, f) => (EventType(m, f) = "Created" <=> f \notin told[m])]_vars

\* A client is between the exchange of the monitor's flag and its thread's start, or
\* between that exchange and the join.
Busy(m) == \E c \in Clients : at[c] = m /\ pc[c] \in {"scan", "assign", "request", "join"}

\* IsRunning says whether the directory is watched: no thread polls or calls back for
\* a monitor that was stopped, none that runs has lost its thread, and one that claims
\* to run without ever having had a thread is one whose Start threw, until its Stop.
RunningMeansWatched ==
    \A m \in Monitors : ~Busy(m) =>
        (m_running[m] <=> thread[m] \in WatchingPCs \/ threw[m])

\* When Stop or Shutdown marks the service stopped no monitor calls back any more.
StoppedServiceWatchesNothing ==
    [][m_state # "Stopped" /\ m_state' = "Stopped" =>
          \A m \in Monitors : thread'[m] \notin WatchingPCs]_vars

\* StopAll works with pointers that it copied under the lock: each is still a monitor.
NoDanglingMonitor ==
    \A c \in Clients : \A m \in todo[c] : alive[m]

\* Once the directory comes to rest (its changes are bounded here, and so are the
\* snapshots that fail), each monitor that runs has told of every file, unless its
\* Start threw.
InStep ==
    \A m \in Monitors :
        <>[](m_running[m] /\ ~threw[m] /\ ~Busy(m) =>
                m_snapshot[m] = dir /\ told[m] = Present(dir))
=============================================================================
