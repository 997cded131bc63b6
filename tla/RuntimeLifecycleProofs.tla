---------------------- MODULE RuntimeLifecycleProofs -----------------------
(***************************************************************************)
(* Proofs about RuntimeLifecycle.  The order of Start and Stop and the     *)
(* bridge's own invariants are proved together, because Stop's reset of    *)
(* the native manager is a step that the bridge allows only by that order. *)
(* Every theorem of ScriptThreadsBridgeProofs then holds of the runtime.   *)
(***************************************************************************)
EXTENDS RuntimeLifecycle, ScriptThreadsBridgeProofs

-----------------------------------------------------------------------------
(* The order of Start and Stop *)

\* Where the logger has been started and not yet stopped, by the order of Start.
LoggerUpSteps == {"workers", "io", "submitWorkers", "submitIO", "refresh", "natives",
                  "install", "installing", "completed", "running"}

\* From the Stop of each part to the end.
AfterUninstall == {"reset", "stopIO", "joinIO", "stopWorkers", "joinWorkers",
                   "lastRecord", "flush", "stopLogger", "stopped", "gone"}
AfterReset     == AfterUninstall \ {"reset"}
AfterWorkers   == {"lastRecord", "flush", "stopLogger", "stopped", "gone"}
AfterIO        == AfterWorkers \cup {"stopWorkers", "joinWorkers"}

LifePlaces ==
    /\ image \in {"unloaded", "mapped", "unmapped"}
    /\ boot \in {"none", "running", "gone"} \cup StartSteps \cup StopSteps
    /\ exec \in [Executors -> {"none", "up", "stopping", "joined"}]
    /\ task \in [Executors -> {"none", "queued", "logging", "done", "dropped"}]

\* Before the image is mapped nothing has begun; it stays while the bootstrap thread
\* lives, if the host leaves it the last reference.
ImageInv ==
    /\ image = "unloaded" => boot = "none"
    /\ HostLeavesLast /\ image = "unmapped" => boot \in {"none", "gone"}
    /\ boot = "none" => \A e \in Executors : exec[e] = "none"

\* An executor with workers logs to a logger that accepts; a task is in an executor.
ExecInv ==
    /\ \A e \in Executors : exec[e] \in {"up", "stopping"} => m_accepting
    /\ \A e \in Executors : task[e] \in {"queued", "logging"} => exec[e] \in {"up", "stopping"}
    /\ boot \in LoggerUpSteps => m_accepting
    /\ boot = "io" => exec["workers"] = "up"
    /\ boot \in {"submitWorkers", "submitIO"} => \A e \in Executors : exec[e] = "up"
    /\ boot = "joinIO" => exec["io"] # "up"
    /\ boot = "joinWorkers" => exec["workers"] # "up"
    /\ boot \in AfterIO => exec["io"] \in {"none", "joined"}
    /\ boot \in AfterWorkers => exec["workers"] \in {"none", "joined"}

\* The bridge is up only between Install and Uninstall of the bootstrap thread.
BridgeInv ==
    /\ ctl \in {"write", "flag"} => boot = "installing"
    /\ ctl \in {"restore", "drain"} => boot = "uninstalling"
    /\ ctl \in TeardownCtls => boot \in {"installing", "uninstalling"}
    /\ ctl = "installed" =>
           boot \in {"installing", "completed", "running", "stop", "uninstall"}
    /\ ctl \notin {"idle", "down"} => m_accepting

\* What Stop has switched off stays off.
OffInv ==
    /\ boot \in AfterReset => ~nativesReady
    /\ boot \in AfterUninstall \cup {"uninstall", "uninstalling"} => ~m_running
    /\ boot \in {"stopped", "gone"} /\ m_accepting => "stop" \in failures
    /\ boot = "gone" => ~g_running

\* The jump is in the game's function while the bridge is up, or after a failed write.
JumpInv ==
    target = "hooked" => ctl \in {"flag", "installed", "restore"} \/ "write" \in failures

LifeInv == LifePlaces /\ ImageInv /\ ExecInv /\ BridgeInv /\ OffInv /\ JumpInv

LEMMA LifeInit == RInit => LifeInv
  BY DEF RInit, Init, LifeInv, LifePlaces, ImageInv, ExecInv, BridgeInv, OffInv, JumpInv,
     StartSteps, StopSteps, LoggerUpSteps, AfterUninstall, AfterReset, AfterIO,
     AfterWorkers, TeardownCtls, Executors

\* Only the bootstrap thread takes a step of the bridge's controller.
LEMMA GameStepKeeps ==
    ASSUME NEW g \in GameThreads, GameStep(g)
    PROVE  UNCHANGED <<lifeVars, ctl, target, nativesReady>>
  BY ThreadKeeps DEF GameStep, ctlVars

LEMMA LifeStep ==
    ASSUME TypeOK, CtlInv, LifeInv, [RNext]_rvars
    PROVE  LifeInv'
<1> USE DEF LifeInv, LifePlaces, ImageInv, ExecInv, BridgeInv, OffInv, JumpInv, StartSteps,
        StopSteps, LoggerUpSteps, AfterUninstall, AfterReset, AfterIO, AfterWorkers,
        TeardownCtls, Executors
<1>1. CASE Host
  <2>1. UNCHANGED <<ctl, target, nativesReady, partVars, g_running, failures>>
    BY <1>1 DEF Host, HostLoad, HostLoadFails, HostLoadAgain, RequestUnload, HostFree,
       vars, ctlVars
  <2> USE DEF partVars
  <2>2. CASE HostLoad
    BY <2>1, <2>2 DEF HostLoad
  <2>3. CASE HostLoadFails
    BY <2>1, <2>3 DEF HostLoadFails
  <2>4. CASE HostLoadAgain \/ RequestUnload
    BY <2>1, <2>4 DEF HostLoadAgain, RequestUnload
  <2>5. CASE HostFree
    <3>1. UNCHANGED boot
      BY <2>5 DEF HostFree
    <3>2. \/ image' = image
          \/ image' = "unmapped" /\ (HostLeavesLast => boot = "gone")
      BY <2>5 DEF HostFree, ReleaseImage
    <3> QED
      BY <2>1, <3>1, <3>2
  <2> QED
    BY <1>1, <2>2, <2>3, <2>4, <2>5 DEF Host
<1>2. CASE Bootstrap
  <2> USE DEF hostVars, partVars, vars, ctlVars
  <2>1. CASE StartBegin \/ AddSinks \/ StartLogger \/ Refresh
    BY <2>1 DEF StartBegin, AddSinks, StartLogger, Refresh, Step
  <2>2. CASE StartThreads
    <3>1. CASE StartExecutor("workers", "workers", "io")
      BY <3>1 DEF StartExecutor
    <3>2. CASE StartExecutor("io", "io", "submitWorkers")
      BY <3>2 DEF StartExecutor
    <3>3. CASE SubmitTask("workers", "submitWorkers", "submitIO")
      BY <3>3 DEF SubmitTask
    <3>4. CASE SubmitTask("io", "submitIO", "refresh")
      BY <3>4 DEF SubmitTask
    <3> QED
      BY <2>2, <3>1, <3>2, <3>3, <3>4 DEF StartThreads
  <2>3. CASE InitializeNativeManager
    BY <2>3 DEF InitializeNativeManager, InitializeNatives, Step
  <2>4. CASE InitializeGameThreadBridge
    BY <2>4 DEF InitializeGameThreadBridge, InstallPublish, InstallRefused, Step
  <2>5. CASE InBridge
    <3>1. UNCHANGED <<hostVars, partVars, boot>> /\ boot \in {"installing", "uninstalling"}
      BY <2>5 DEF InBridge
    <3>2. /\ UNCHANGED nativesReady
          /\ ctl \notin {"idle", "down"}
          /\ \/ ctl = "write" /\ ctl' \in {"flag", "unpublish"}
             \/ ctl = "flag" /\ ctl' = "installed"
             \/ ctl = "restore" /\ ctl' = "drain"
             \/ ctl \in {"drain"} \cup TeardownCtls /\ ctl' \in TeardownCtls \cup {"down"}
      BY <2>5 DEF InBridge, Controller, InstallWrite, InstallFlag, UninstallRestore,
         UninstallDrain, Unpublish, ClearOriginal, ForgetRefs, FreeTrampoline
    <3>3. LifePlaces' /\ ImageInv' /\ ExecInv'
      BY <3>1
    <3>4. OffInv'
      BY <3>1, <3>2
    <3>5. BridgeInv'
      BY <3>1, <3>2
    <3>6. JumpInv'
      <4>1. failures' = IF WriteFails THEN failures \cup {"write"} ELSE failures
        BY <2>5 DEF InBridge
      <4>2. CASE WriteFails
        BY <4>1, <4>2
      <4>3. CASE ~WriteFails /\ ctl \in {"write", "flag", "restore"}
        BY <2>5, <3>2, <4>1, <4>3 DEF WriteFails, InBridge, Controller, InstallWrite,
           InstallFlag, UninstallRestore, UninstallDrain, Unpublish, ClearOriginal,
           ForgetRefs, FreeTrampoline, WriteExecutableBytes
      <4>4. CASE ~WriteFails /\ ctl \notin {"write", "flag", "restore"}
        <5>1. UNCHANGED target
          BY <2>5, <4>4 DEF InBridge, Controller, InstallWrite, InstallFlag,
             UninstallRestore, UninstallDrain, Unpublish, ClearOriginal, ForgetRefs,
             FreeTrampoline
        <5> QED
          BY <3>2, <4>1, <4>4, <5>1
      <4> QED
        BY <4>2, <4>3, <4>4
    <3> QED
      BY <3>3, <3>4, <3>5, <3>6
  <2>6. CASE InstallReturns \/ StartReturns \/ StartThrows \/ PollStop
    BY <2>6 DEF InstallReturns, StartReturns, StartThrows, PollStop, Step
  <2>7. CASE StopBegin
    BY <2>7 DEF StopBegin
  <2>8. CASE CallUninstall
    BY <2>8 DEF CallUninstall, UninstallBegin, Step, CtlInv
  <2>9. CASE UninstallReturns \/ ResetNativeManager
    BY <2>9 DEF UninstallReturns, ResetNativeManager, ResetNatives, Step
  <2>10. CASE StopThreads
    BY <2>10 DEF StopThreads, StopExecutor, JoinExecutor
  <2>11. CASE StopLogger
    <3>1. ctl \in {"idle", "down"}
      BY <2>11 DEF StopLogger, TypeOK, PlacesOK, Ctls
    <3>2. \A e \in Executors : exec[e] \in {"none", "joined"}
      BY <2>11 DEF StopLogger
    <3>3. LifePlaces' /\ ImageInv'
      BY <2>11 DEF StopLogger
    <3>6. OffInv'
      BY <2>11 DEF StopLogger
    <3>4. ExecInv'
      BY <2>11, <3>2 DEF StopLogger
    <3>5. BridgeInv' /\ JumpInv'
      BY <2>11, <3>1 DEF StopLogger
    <3> QED
      BY <3>3, <3>4, <3>5, <3>6
  <2>12. CASE LastRecord \/ StopThrows
    BY <2>12 DEF LastRecord, StopThrows, Step
  <2>13. CASE ExitThread
    BY <2>13 DEF ExitThread, ReleaseImage
  <2> QED
    BY <1>2, <2>1, <2>2, <2>3, <2>4, <2>5, <2>6, <2>7, <2>8, <2>9, <2>10, <2>11, <2>12,
       <2>13 DEF Bootstrap
<1>3. ASSUME NEW e \in Executors, Worker(e)
      PROVE  LifeInv'
  BY <1>3 DEF Worker, TakeTask, FinishTask, hostVars, vars, ctlVars
<1>4. ASSUME NEW g \in GameThreads, GameStep(g)
      PROVE  LifeInv'
  <2>1. UNCHANGED <<lifeVars, ctl, target, nativesReady>>
    BY <1>4, GameStepKeeps
  <2> QED
    BY <2>1 DEF lifeVars, hostVars, partVars
<1>5. CASE UNCHANGED rvars
  BY <1>5 DEF rvars, lifeVars, hostVars, partVars, vars, ctlVars
<1> QED
  BY <1>1, <1>2, <1>3, <1>4, <1>5 DEF RNext

-----------------------------------------------------------------------------
(* The bridge in the runtime *)

\* A step of the runtime is a step of the bridge, or leaves the bridge alone: Stop's
\* call of Reset is one because of where the bridge is by then.
LEMMA RuntimeStepIsBridgeStep == TypeOK /\ LifeInv /\ [RNext]_rvars => [Next]_vars
<1> SUFFICES ASSUME TypeOK, LifeInv, [RNext]_rvars
             PROVE  [Next]_vars
  OBVIOUS
<1>1. CASE Host
  BY <1>1 DEF Host, HostLoad, HostLoadFails, HostLoadAgain, RequestUnload, HostFree
<1>2. CASE Bootstrap
  <2>1. ASSUME NEW from, NEW to, Step(from, to)
        PROVE  UNCHANGED vars
    BY <2>1 DEF Step
  <2>2. CASE StartBegin \/ AddSinks \/ StartLogger \/ StartThreads \/ Refresh
    BY <2>1, <2>2 DEF StartBegin, AddSinks, StartLogger, StartThreads, StartExecutor,
       SubmitTask, Refresh
  <2>3. CASE InitializeNativeManager \/ InitializeGameThreadBridge \/ InBridge
    BY <2>1, <2>3 DEF InitializeNativeManager, InitializeGameThreadBridge, InBridge, Next
  <2>4. CASE InstallReturns \/ StartReturns \/ StartThrows \/ PollStop
    BY <2>1, <2>4 DEF InstallReturns, StartReturns, StartThrows, PollStop
  <2>5. CASE StopBegin \/ CallUninstall \/ UninstallReturns
    BY <2>1, <2>5 DEF StopBegin, CallUninstall, UninstallReturns, Next
  <2>6. CASE ResetNativeManager
    <3>1. ctl \in {"idle", "down"}
      BY <2>6 DEF ResetNativeManager, TypeOK, PlacesOK, Ctls, TeardownCtls, LifeInv, BridgeInv
    <3> QED
      BY <2>6, <3>1 DEF ResetNativeManager, StopResetsNatives, Next
  <2>7. CASE StopThreads \/ LastRecord \/ StopThrows \/ StopLogger \/ ExitThread
    BY <2>1, <2>7 DEF StopThreads, StopExecutor, JoinExecutor, LastRecord, StopThrows,
       StopLogger, ExitThread
  <2> QED
    BY <1>2, <2>2, <2>3, <2>4, <2>5, <2>6, <2>7 DEF Bootstrap
<1>3. ASSUME NEW e \in Executors, Worker(e)
      PROVE  UNCHANGED vars
  BY <1>3 DEF Worker, TakeTask, FinishTask
<1>4. ASSUME NEW g \in GameThreads, GameStep(g)
      PROVE  Next
  BY <1>4 DEF GameStep, Next
<1>5. CASE UNCHANGED rvars
  BY <1>5 DEF rvars
<1> QED
  BY <1>1, <1>2, <1>3, <1>4, <1>5 DEF RNext


RuntimeInv == TypeOK /\ CtlInv /\ Counting /\ GateInv /\ LifeInv

\* The bridge's invariants and the order of Start and Stop need each other.
LEMMA RuntimeCorrect == RuntimeSpec => []RuntimeInv
<1>1. RInit => RuntimeInv
  BY LifeInit, TypeInit, CtlInit, CountingInit, GateInit DEF RInit, RuntimeInv
<1>2. RuntimeInv /\ [RNext]_rvars => RuntimeInv'
  BY RuntimeStepIsBridgeStep, LifeStep, TypeStep, CtlStep, CountingStep, GateStep
     DEF RuntimeInv
<1> QED
  BY <1>1, <1>2, PTL DEF RuntimeSpec

\* The runtime drives the bridge only in ways that ScriptThreadsBridge allows.
LEMMA RuntimeImplementsBridge == RuntimeSpec => Spec
<1>1. RInit => Init
  BY DEF RInit
<1>2. RuntimeInv /\ [RNext]_rvars => [Next]_vars
  BY RuntimeStepIsBridgeStep DEF RuntimeInv
<1> QED
  BY <1>1, <1>2, RuntimeCorrect, PTL DEF RuntimeSpec, Spec

\* A game thread in the native call is protected from the whole of Stop, whose call of
\* Reset is guarded by nothing but its place after Uninstall.
THEOREM SmokeProtectedInRuntime == RuntimeSpec => []SmokeProtected
  BY RuntimeImplementsBridge, SmokeProtectedCorrect, PTL

\* And Stop waits for no thread that it has miscounted.
THEOREM CountingInRuntime == RuntimeSpec => []Counting
  BY RuntimeImplementsBridge, CountingCorrect, PTL

\* Whoever logs finds the logger accepting: Stop takes the bridge and the executors
\* down before it.
THEOREM LoggerOutlivesItsUsersCorrect == RuntimeSpec => []LoggerOutlivesItsUsers
<1>1. LifeInv /\ CtlInv /\ GateInv => LoggerOutlivesItsUsers
  <2> SUFFICES ASSUME LifeInv, CtlInv, GateInv
               PROVE  LoggerOutlivesItsUsers
    OBVIOUS
  <2>1. \A e \in Executors : task[e] = "logging" => m_accepting
    BY DEF LifeInv, ExecInv
  <2>2. At({"publish"}) # {} => m_accepting
    <3>1. At({"publish"}) \subseteq At(PastGatePCs)
      BY DEF At, PastGatePCs
    <3> QED
      BY <3>1 DEF GateInv, LifeInv, BridgeInv
  <2> QED
    BY <2>1, <2>2 DEF LoggerOutlivesItsUsers
<1> QED
  BY <1>1, RuntimeCorrect, PTL DEF RuntimeInv

\* Start and Stop leave nothing behind, also when Start threw half way, but for what a
\* refused write or an exception in Stop leaves.
THEOREM NothingLeftBehindCorrect == RuntimeSpec => []NothingLeftBehind
<1>1. RuntimeInv => NothingLeftBehind
  <2> SUFFICES ASSUME LifeInv, TypeOK, CtlInv, boot = "gone"
               PROVE  /\ ~m_running /\ ~g_running
                      /\ \A e \in Executors : /\ exec[e] \in {"none", "joined"}
                                               /\ task[e] \notin {"queued", "logging"}
                      /\ ~m_installed /\ ~s_active /\ ~m_original /\ ~m_refs /\ ~nativesReady
                      /\ m_trampoline # "mapped"
                      /\ target = "hooked" => "write" \in failures
                      /\ m_accepting => "stop" \in failures
    BY DEF NothingLeftBehind, RuntimeInv
  <2> USE DEF LifeInv
  <2>1. ~m_running /\ ~g_running /\ ~nativesReady /\ (m_accepting => "stop" \in failures)
    BY DEF OffInv, AfterUninstall, AfterReset
  <2>2. \A e \in Executors : exec[e] \in {"none", "joined"}
    BY DEF ExecInv, AfterIO, AfterWorkers, Executors
  <2>3. \A e \in Executors : task[e] \notin {"queued", "logging"}
    BY <2>2 DEF ExecInv
  <2>4. ctl \in {"idle", "down"}
    BY DEF BridgeInv, TypeOK, PlacesOK, Ctls, TeardownCtls
  <2>5. /\ ~m_installed /\ ~s_active /\ ~m_original /\ ~m_refs
        /\ m_trampoline # "mapped"
    BY <2>4 DEF CtlInv, LiveCtls, TeardownCtls
  <2>6. target = "hooked" => "write" \in failures
    BY <2>4 DEF JumpInv
  <2> QED
    BY <2>1, <2>2, <2>3, <2>5, <2>6
<1> QED
  BY <1>1, RuntimeCorrect, PTL

-----------------------------------------------------------------------------
(* Types *)

LifeFlags ==
    /\ failures \subseteq {"write", "stop"}
    /\ g_stopRequested \in BOOLEAN
    /\ g_running \in BOOLEAN
    /\ m_running \in BOOLEAN
    /\ m_accepting \in BOOLEAN

\* An image that is mapped is counted.
LoadsInv ==
    /\ loads \in 0..MaxLoads
    /\ image = "mapped" => loads >= 1

LEMMA FlagsAndLoadsInit == RInit => LifeFlags /\ LoadsInv
<1>1. RInit => LifeFlags
  BY DEF RInit, LifeFlags
<1>2. RInit => LoadsInv
  BY MaxLoadsAssumption DEF RInit, LoadsInv
<1> QED
  BY <1>1, <1>2

LEMMA LifeFlagsStep == LifeFlags /\ [RNext]_rvars => LifeFlags'
<1> SUFFICES ASSUME LifeFlags, [RNext]_rvars
             PROVE  LifeFlags'
  OBVIOUS
<1> USE DEF LifeFlags, hostVars, partVars, lifeVars
<1>1. CASE Host
  BY <1>1 DEF Host, HostLoad, HostLoadFails, HostLoadAgain, RequestUnload, HostFree
<1>2. CASE Bootstrap
  <2>1. ASSUME NEW from, NEW to, Step(from, to)
        PROVE  LifeFlags'
    BY <2>1 DEF Step
  <2>2. CASE StartBegin \/ AddSinks \/ StartLogger \/ StartThreads \/ Refresh
    BY <2>1, <2>2 DEF StartBegin, AddSinks, StartLogger, StartThreads, StartExecutor,
       SubmitTask, Refresh
  <2>3. CASE InitializeNativeManager \/ InitializeGameThreadBridge \/ InBridge
    BY <2>1, <2>3 DEF InitializeNativeManager, InitializeGameThreadBridge, InBridge
  <2>4. CASE InstallReturns \/ StartReturns \/ StartThrows \/ PollStop
    BY <2>1, <2>4 DEF InstallReturns, StartReturns, StartThrows, PollStop
  <2>5. CASE StopBegin \/ CallUninstall \/ UninstallReturns \/ ResetNativeManager
    BY <2>1, <2>5 DEF StopBegin, CallUninstall, UninstallReturns, ResetNativeManager
  <2>6. CASE StopThreads \/ LastRecord \/ StopThrows \/ StopLogger \/ ExitThread
    BY <2>1, <2>6 DEF StopThreads, StopExecutor, JoinExecutor, LastRecord, StopThrows,
       StopLogger, ExitThread
  <2> QED
    BY <1>2, <2>2, <2>3, <2>4, <2>5, <2>6 DEF Bootstrap
<1>3. ASSUME NEW e \in Executors, Worker(e)
      PROVE  LifeFlags'
  BY <1>3 DEF Worker, TakeTask, FinishTask
<1>4. ASSUME NEW g \in GameThreads, GameStep(g)
      PROVE  LifeFlags'
  BY <1>4 DEF GameStep
<1>5. CASE UNCHANGED rvars
  BY <1>5 DEF rvars
<1> QED
  BY <1>1, <1>2, <1>3, <1>4, <1>5 DEF RNext

LEMMA LoadsStep == HostLeavesLast /\ LifeInv /\ LoadsInv /\ [RNext]_rvars => LoadsInv'
<1> SUFFICES ASSUME HostLeavesLast, LifeInv, LoadsInv, [RNext]_rvars
             PROVE  LoadsInv'
  OBVIOUS
<1> USE MaxLoadsAssumption DEF LoadsInv, LifeInv, LifePlaces, ImageInv
<1>1. CASE Host
  BY <1>1 DEF Host, HostLoad, HostLoadFails, HostLoadAgain, RequestUnload, HostFree,
     ReleaseImage
<1>2. CASE Bootstrap
  <2>1. CASE ExitThread
    <3>1. image = "mapped"
      BY <2>1 DEF ExitThread
    <3> QED
      BY <2>1, <3>1 DEF ExitThread, ReleaseImage
  <2>2. CASE ~ExitThread
    <3>1. UNCHANGED <<image, loads>>
      <4>1. ASSUME NEW from, NEW to, Step(from, to)
            PROVE  UNCHANGED <<image, loads>>
        BY <4>1 DEF Step, hostVars
      <4>2. CASE StartBegin \/ AddSinks \/ StartLogger \/ StartThreads \/ Refresh
        BY <4>1, <4>2 DEF StartBegin, AddSinks, StartLogger, StartThreads, StartExecutor,
           SubmitTask, Refresh, hostVars
      <4>3. CASE InitializeNativeManager \/ InitializeGameThreadBridge \/ InBridge
        BY <4>1, <4>3 DEF InitializeNativeManager, InitializeGameThreadBridge, InBridge,
           hostVars, lifeVars
      <4>4. CASE InstallReturns \/ StartReturns \/ StartThrows \/ PollStop
        BY <4>1, <4>4 DEF InstallReturns, StartReturns, StartThrows, PollStop
      <4>5. CASE StopBegin \/ CallUninstall \/ UninstallReturns \/ ResetNativeManager
        BY <4>1, <4>5 DEF StopBegin, CallUninstall, UninstallReturns, ResetNativeManager,
           hostVars
      <4>6. CASE StopThreads \/ LastRecord \/ StopThrows \/ StopLogger
        BY <4>1, <4>6 DEF StopThreads, StopExecutor, JoinExecutor, LastRecord, StopThrows,
           StopLogger, hostVars
      <4> QED
        BY <1>2, <2>2, <4>2, <4>3, <4>4, <4>5, <4>6 DEF Bootstrap
    <3> QED
      BY <3>1
  <2> QED
    BY <2>1, <2>2
<1>3. CASE \/ \E e \in Executors : Worker(e)
           \/ \E g \in GameThreads : GameStep(g)
  BY <1>3 DEF Worker, TakeTask, FinishTask, GameStep, hostVars, lifeVars
<1>4. CASE UNCHANGED rvars
  BY <1>4 DEF rvars, lifeVars, hostVars
<1> QED
  BY <1>1, <1>2, <1>3, <1>4 DEF RNext

\* Every field keeps its type; the loader's count of the DLL never falls below zero.
THEOREM LifeTypeCorrect ==
    ASSUME HostLeavesLast
    PROVE  RuntimeSpec => []LifeTypeOK
<1>1. TypeOK /\ LifeInv /\ LifeFlags /\ LoadsInv => LifeTypeOK
  BY DEF LifeTypeOK, LifeInv, LifePlaces, LifeFlags, LoadsInv
<1>2. RuntimeSpec => []LifeFlags
  BY FlagsAndLoadsInit, LifeFlagsStep, PTL DEF RuntimeSpec
<1>3. RuntimeSpec => []LoadsInv
  <2>1. RuntimeInv /\ LoadsInv /\ [RNext]_rvars => LoadsInv'
    BY LoadsStep DEF RuntimeInv
  <2> QED
    BY <2>1, FlagsAndLoadsInit, RuntimeCorrect, PTL DEF RuntimeSpec
<1> QED
  BY <1>1, <1>2, <1>3, RuntimeCorrect, PTL DEF RuntimeInv

=============================================================================
