------------------------- MODULE RuntimeLifecycle --------------------------
(***************************************************************************)
(* The life of the DLL in its host: LoadLibrary and DllMain, the bootstrap *)
(* thread that starts the runtime, polls the stop flag and stops it, the   *)
(* order in which Runtime_Manager::Start and Stop bring up and take down   *)
(* the logger, the executors, the native manager and the bridge, and the   *)
(* moment at which the image is unmapped.                                  *)
(* Sources: dllmain.cpp, DLL_Bootstrap.cpp, Runtime_Manager.cpp.           *)
(*                                                                         *)
(* The bridge is the one of ScriptThreadsBridge: the bootstrap thread is   *)
(* its controller.  The logger and the executors appear as far as their    *)
(* order matters; LoggerService and QueueExecutor model their insides.     *)
(***************************************************************************)
EXTENDS ScriptThreadsBridge

CONSTANTS
    MaxLoads,       \* bound: LoadLibrary calls of the host
    HostLeavesLast  \* TRUE: while the bootstrap thread lives, the host's FreeLibrary
                    \* calls leave it the last reference, which that thread gives up

ASSUME MaxLoadsAssumption == MaxLoads \in Nat \ {0}
ASSUME HostLeavesLastAssumption == HostLeavesLast \in BOOLEAN

VARIABLES
    image,              \* "unloaded", "mapped" or "unmapped"
    loads,              \* the loader's reference count of the DLL
    g_stopRequested,
    g_running,
    boot,               \* where the bootstrap thread is
    m_running,          \* Runtime_Manager::m_running
    m_accepting,        \* the logger accepts records and its worker is there
    exec,               \* each executor: "none", "up", "stopping" or "joined"
    task,               \* the task Start submitted to it
    failures            \* history: the failures that the code noticed and passed over,
                        \* a "write" of the bridge and an exception in "stop"

hostVars == <<image, loads, g_stopRequested, g_running>>
partVars == <<m_running, m_accepting, exec, task>>
lifeVars == <<hostVars, partVars, boot, failures>>
rvars == <<vars, lifeVars>>

Executors == {"workers", "io"}

\* The steps of Runtime_Manager::Start, in order.
StartSteps == {"begin", "sinks", "logger", "workers", "io", "submitWorkers",
               "submitIO", "refresh", "natives", "install", "installing", "completed"}

\* The steps of Runtime_Manager::Stop, in order.
StopSteps == {"stop", "uninstall", "uninstalling", "reset", "stopIO", "joinIO",
              "stopWorkers", "joinWorkers", "lastRecord", "flush", "stopLogger",
              "stopped"}

RInit ==
    /\ Init
    /\ image = "unloaded"
    /\ loads = 0
    /\ g_stopRequested = FALSE
    /\ g_running = FALSE
    /\ boot = "none"
    /\ m_running = FALSE
    /\ m_accepting = FALSE
    /\ exec = [e \in Executors |-> "none"]
    /\ task = [e \in Executors |-> "none"]
    /\ failures = {}

-----------------------------------------------------------------------------
(* The host and the loader *)

\* LoadLibrary maps the DLL; DllMain's attach creates the bootstrap thread.
HostLoad ==
    /\ image = "unloaded"
    /\ image' = "mapped"
    /\ loads' = 1
    /\ g_stopRequested' = FALSE
    /\ boot' = "begin"
    /\ UNCHANGED <<vars, g_running, partVars, failures>>

\* CreateThread fails, DllMain returns FALSE and the loader unmaps the image.
HostLoadFails ==
    /\ image = "unloaded"
    /\ image' = "unmapped"
    /\ UNCHANGED <<vars, loads, g_stopRequested, g_running, partVars, boot, failures>>

\* A second LoadLibrary only counts: DllMain is not called again.
HostLoadAgain ==
    /\ image = "mapped"
    /\ loads < MaxLoads
    /\ loads' = loads + 1
    /\ UNCHANGED <<vars, image, g_stopRequested, g_running, partVars, boot, failures>>

\* The exported Devilz_Den_RequestUnload.
RequestUnload ==
    /\ image = "mapped"
    /\ g_stopRequested' = TRUE
    /\ UNCHANGED <<vars, image, loads, g_running, partVars, boot, failures>>

\* One reference less; the last one unmaps the image.
ReleaseImage ==
    /\ loads' = loads - 1
    /\ image' = IF loads = 1 THEN "unmapped" ELSE image

\* FreeLibrary by the host; the last one calls DllMain's detach first.
HostFree ==
    /\ image = "mapped"
    /\ HostLeavesLast => loads > 1 \/ boot = "gone"
    /\ ReleaseImage
    /\ g_stopRequested' = (g_stopRequested \/ loads = 1)
    /\ UNCHANGED <<vars, g_running, partVars, boot, failures>>

Host == HostLoad \/ HostLoadFails \/ HostLoadAgain \/ RequestUnload \/ HostFree

-----------------------------------------------------------------------------
(* Runtime_Manager::Start, on the bootstrap thread *)

\* The bootstrap thread moves on and nothing else changes.
Step(from, to) ==
    /\ boot = from
    /\ boot' = to
    /\ UNCHANGED <<vars, hostVars, partVars, failures>>

\* The exchange of m_running: this object is started once.
StartBegin ==
    /\ boot = "begin"
    /\ m_running' = TRUE
    /\ boot' = "sinks"
    /\ UNCHANGED <<vars, hostVars, failures, m_accepting, exec, task>>

AddSinks == Step("sinks", "logger")

StartLogger ==
    /\ boot = "logger"
    /\ m_accepting' = TRUE
    /\ boot' = "workers"
    /\ UNCHANGED <<vars, hostVars, failures, m_running, exec, task>>

\* ThreadManager::Start creates the two executors in turn.
StartExecutor(e, from, to) ==
    /\ boot = from
    /\ exec' = [exec EXCEPT ![e] = "up"]
    /\ boot' = to
    /\ UNCHANGED <<vars, hostVars, failures, m_running, m_accepting, task>>

\* Submit of the task that logs.
SubmitTask(e, from, to) ==
    /\ boot = from
    /\ task' = [task EXCEPT ![e] = "queued"]
    /\ boot' = to
    /\ UNCHANGED <<vars, hostVars, failures, m_running, m_accepting, exec>>

StartThreads ==
    \/ StartExecutor("workers", "workers", "io")
    \/ StartExecutor("io", "io", "submitWorkers")
    \/ SubmitTask("workers", "submitWorkers", "submitIO")
    \/ SubmitTask("io", "submitIO", "refresh")

\* m_gta.Refresh returns a status, or an error.
Refresh == \E to \in {"natives", "completed"} : Step("refresh", to)

\* InitializeNativeManager: the manager becomes ready, or a target is missing.
InitializeNativeManager ==
    \/ /\ boot = "natives"
       /\ InitializeNatives
       /\ boot' = "install"
       /\ UNCHANGED <<hostVars, partVars, failures>>
    \/ Step("natives", "install")

\* InitializeGameThreadBridge: Install is called, or its inputs are missing.
InitializeGameThreadBridge ==
    \/ /\ boot = "install"
       /\ InstallPublish
       /\ boot' = "installing"
       /\ UNCHANGED <<hostVars, partVars, failures>>
    \/ /\ boot = "install"
       /\ nativesReady
       /\ InstallRefused
       /\ boot' = "completed"
       /\ UNCHANGED <<hostVars, partVars, failures>>
    \/ Step("install", "completed")

\* WriteExecutableBytes returns false: Install gives up, or the jump stays in place
\* after Uninstall.
WriteFails ==
    \/ ctl = "write" /\ ctl' = "unpublish"
    \/ ctl = "restore" /\ target' = "hooked"

\* The bootstrap thread is inside Install or Uninstall.
InBridge ==
    /\ boot \in {"installing", "uninstalling"}
    /\ Controller
    /\ failures' = IF WriteFails THEN failures \cup {"write"} ELSE failures
    /\ UNCHANGED <<hostVars, partVars, boot>>

InstallReturns ==
    /\ ctl \in {"installed", "down"}
    /\ Step("installing", "completed")

\* Mutant: the stop flag is cleared when Start returns, not when it is created.
StartReturnsClearsRequest ==
    /\ boot = "completed"
    /\ g_running' = TRUE
    /\ g_stopRequested' = FALSE
    /\ boot' = "running"
    /\ UNCHANGED <<vars, image, loads, partVars, failures>>

\* Start returns true and BootstrapThread sets g_running.
StartReturns ==
    /\ boot = "completed"
    /\ g_running' = TRUE
    /\ boot' = "running"
    /\ UNCHANGED <<vars, image, loads, g_stopRequested, partVars, failures>>

\* Mutant: the exception handler of Start returns without a Stop.
StartThrowsWithoutStop ==
    \E from \in StartSteps \ {"begin", "installing"} : Step(from, "stopped")

\* A step of Start throws: a sink, a thread or a string cannot be made.  Install
\* is noexcept.
StartThrows ==
    \E from \in StartSteps \ {"begin", "installing"} : Step(from, "stop")

-----------------------------------------------------------------------------
(* The poll of g_stopRequested, and Runtime_Manager::Stop *)

PollStop == g_stopRequested /\ Step("running", "stop")

\* Mutant: Stop resets the native manager before it uninstalls the bridge.
StopBeginResetsNatives ==
    /\ boot = "stop"
    /\ m_running' = FALSE
    /\ boot' = "uninstall"
    /\ nativesReady' = FALSE
    /\ UNCHANGED <<bridgeVars, smokeVars, target, ctl, result, m_activeCalls, pc,
                   hostVars, failures, m_accepting, exec, task>>

\* The exchange of m_running.
StopBegin ==
    /\ boot = "stop"
    /\ m_running' = FALSE
    /\ boot' = "uninstall"
    /\ UNCHANGED <<vars, hostVars, failures, m_accepting, exec, task>>

\* Uninstall: the exchange of m_installed finds a bridge, or there is none.
CallUninstall ==
    \/ /\ boot = "uninstall"
       /\ UninstallBegin
       /\ boot' = "uninstalling"
       /\ UNCHANGED <<hostVars, partVars, failures>>
    \/ ~m_installed /\ Step("uninstall", "reset")

UninstallReturns == ctl = "down" /\ Step("uninstalling", "reset")

\* m_natives.Reset().
ResetNativeManager ==
    /\ boot = "reset"
    /\ ResetNatives
    /\ boot' = "stopIO"
    /\ UNCHANGED <<hostVars, partVars, failures>>

\* QueueExecutor::Stop asks the workers to stop, if the executor was created.
StopExecutor(e, from, to) ==
    /\ boot = from
    /\ exec' = [exec EXCEPT ![e] = IF @ = "up" THEN "stopping" ELSE @]
    /\ boot' = to
    /\ UNCHANGED <<vars, hostVars, failures, m_running, m_accepting, task>>

\* Mutant: the join does not wait for a running task.
JoinExecutorNoWait(e, from, to) ==
    /\ boot = from
    /\ exec' = [exec EXCEPT ![e] = IF @ = "stopping" THEN "joined" ELSE @]
    /\ task' = [task EXCEPT ![e] = IF @ = "queued" THEN "dropped" ELSE @]
    /\ boot' = to
    /\ UNCHANGED <<vars, hostVars, failures, m_running, m_accepting>>

\* The join of its workers; a task that no worker took is destroyed.
JoinExecutor(e, from, to) ==
    /\ boot = from
    /\ task[e] # "logging"
    /\ exec' = [exec EXCEPT ![e] = IF @ = "stopping" THEN "joined" ELSE @]
    /\ task' = [task EXCEPT ![e] = IF @ = "queued" THEN "dropped" ELSE @]
    /\ boot' = to
    /\ UNCHANGED <<vars, hostVars, failures, m_running, m_accepting>>

\* ThreadManager::Stop: first the IO executor, then the workers.
StopThreads ==
    \/ StopExecutor("io", "stopIO", "joinIO")
    \/ JoinExecutor("io", "joinIO", "stopWorkers")
    \/ StopExecutor("workers", "stopWorkers", "joinWorkers")
    \/ JoinExecutor("workers", "joinWorkers", "lastRecord")

\* "stopped cleanly" is queued, and the sinks are flushed.
LastRecord == Step("lastRecord", "flush") \/ Step("flush", "stopLogger")

\* Log or Flush throws, for want of memory or because a sink does: the handler of Stop
\* swallows the exception and m_logger.Stop is not called.  (Uninstall and Reset are
\* noexcept, and the executors' Stop only locks, notifies and joins.)
StopThrows ==
    /\ boot \in {"lastRecord", "flush"}
    /\ failures' = failures \cup {"stop"}
    /\ boot' = "stopped"
    /\ UNCHANGED <<vars, hostVars, partVars>>

\* LoggerService::Stop joins the logger's worker; a throw of the flush that follows
\* the join leaves Stop as a return does.
StopLogger ==
    /\ boot = "stopLogger"
    /\ m_accepting' = FALSE
    /\ boot' = "stopped"
    /\ UNCHANGED <<vars, hostVars, failures, m_running, exec, task>>

\* g_running = false, then FreeLibraryAndExitThread.
ExitThread ==
    /\ boot = "stopped"
    /\ g_running' = FALSE
    /\ ReleaseImage
    /\ boot' = "gone"
    /\ UNCHANGED <<vars, g_stopRequested, partVars, failures>>

Bootstrap ==
    \/ StartBegin \/ AddSinks \/ StartLogger \/ StartThreads \/ Refresh
    \/ InitializeNativeManager \/ InitializeGameThreadBridge \/ InBridge
    \/ InstallReturns \/ StartReturns \/ StartThrows
    \/ PollStop \/ StopBegin \/ CallUninstall \/ UninstallReturns
    \/ ResetNativeManager \/ StopThreads \/ LastRecord \/ StopThrows \/ StopLogger
    \/ ExitThread

-----------------------------------------------------------------------------
(* The executors' workers and the game's threads *)

\* A worker takes the task; it may still do so after Stop asked it to end.
TakeTask(e) ==
    /\ exec[e] \in {"up", "stopping"}
    /\ task[e] = "queued"
    /\ task' = [task EXCEPT ![e] = "logging"]
    /\ UNCHANGED <<vars, hostVars, failures, boot, m_running, m_accepting, exec>>

FinishTask(e) ==
    /\ task[e] = "logging"
    /\ task' = [task EXCEPT ![e] = "done"]
    /\ UNCHANGED <<vars, hostVars, failures, boot, m_running, m_accepting, exec>>

Worker(e) == TakeTask(e) \/ FinishTask(e)

GameStep(g) == GameThread(g) /\ UNCHANGED lifeVars

\* Nothing more happens in a process that never loaded the DLL, or after it left.
RNext ==
    \/ Host
    \/ Bootstrap
    \/ \E e \in Executors : Worker(e)
    \/ \E g \in GameThreads : GameStep(g)

RuntimeSpec == RInit /\ [][RNext]_rvars

\* Each thread of the runtime is scheduled, and the game finishes the calls it makes.
RuntimeFairSpec ==
    /\ RuntimeSpec
    /\ WF_rvars(Bootstrap)
    /\ \A e \in Executors : WF_rvars(Worker(e))
    /\ \A g \in GameThreads : WF_rvars(InCall(g) /\ UNCHANGED lifeVars)

-----------------------------------------------------------------------------
(* Properties *)

LifeTypeOK ==
    /\ TypeOK
    /\ image \in {"unloaded", "mapped", "unmapped"}
    /\ loads \in 0..MaxLoads
    /\ g_stopRequested \in BOOLEAN
    /\ g_running \in BOOLEAN
    /\ boot \in {"none", "running", "gone"} \cup StartSteps \cup StopSteps
    /\ m_running \in BOOLEAN
    /\ m_accepting \in BOOLEAN
    /\ exec \in [Executors -> {"none", "up", "stopping", "joined"}]
    /\ task \in [Executors -> {"none", "queued", "logging", "done", "dropped"}]
    /\ failures \subseteq {"write", "stop"}

\* Shutdown is dependency-aware: whoever logs, an executor's task or a game thread
\* that has made the native call, finds the logger accepting.
LoggerOutlivesItsUsers ==
    /\ \A e \in Executors : task[e] = "logging" => m_accepting
    /\ At({"publish"}) # {} => m_accepting

\* When the bootstrap thread gives the image up, by the normal way or after an
\* exception anywhere in Start, nothing that it started is left: no executor or queued
\* task, no pointer, flag or trampoline of the bridge, no jump in the game's function
\* unless a write was refused, no logger unless Stop itself threw.  (The logger's worker
\* is then left in an image that is unmapped under it.)
NothingLeftBehind ==
    boot = "gone" =>
        /\ ~m_running /\ ~g_running
        /\ \A e \in Executors :
               exec[e] \in {"none", "joined"} /\ task[e] \notin {"queued", "logging"}
        /\ ~m_installed /\ ~s_active /\ ~m_original /\ ~m_refs /\ ~nativesReady
        /\ m_trampoline # "mapped"
        /\ target = "hooked" => "write" \in failures
        /\ m_accepting => "stop" \in failures

\* After RequestUnload the bootstrap thread comes to its end, whatever Start and the
\* game's threads were doing at the time (Runtime_Smoke_Test.cpp waits for it), unless
\* the write that takes the jump out of the game's function was refused: then the
\* drain loop lasts for as long as the game goes on calling.
UnloadCompletes ==
    g_stopRequested ~> boot = "gone" \/ (ctl = "drain" /\ target = "hooked")
=============================================================================
