------------------------ MODULE ScriptThreadsBridge ------------------------
(***************************************************************************)
(* The bridge that patches the game's RunScriptThreads function, counts    *)
(* the game threads inside its thunk, makes one native call from a game    *)
(* thread (the "smoke"), and is taken down while game threads may still be *)
(* in the thunk.  Source: GTA_Run_Script_Threads_Bridge.cpp.               *)
(*                                                                         *)
(* One controller (the thread that runs Runtime_Manager::Start and Stop)   *)
(* installs and uninstalls; any number of game threads call the patched    *)
(* function.  Every access to a field that two of them share is a step of  *)
(* its own.  Runtime_Manager::Start holds the only call of Install and is  *)
(* run once per object, so a bridge is installed at most once.             *)
(*                                                                         *)
(* The 15 byte patch is written in one step: the code neither suspends the *)
(* game's threads nor aligns the write, so a thread inside those bytes is  *)
(* outside this model.                                                     *)
(***************************************************************************)
EXTENDS Integers, FiniteSets

CONSTANTS
    GameThreads,    \* the game's threads that call RunScriptThreads
    MaxCount,       \* largest value of the uint32 m_activeCalls: 2^32 - 1 in the code
    WriteOutcomes   \* the outcomes of WriteExecutableBytes that the run admits

ASSUME GameThreadsAssumption ==
    IsFiniteSet(GameThreads) /\ Cardinality(GameThreads) <= MaxCount

ASSUME MaxCountAssumption == MaxCount \in Nat

\* WriteExecutableBytes fails before it writes ("refused"), or after it wrote,
\* when the page's protection cannot be restored ("unrestored").
ASSUME WriteOutcomesAssumption ==
    WriteOutcomes \subseteq {"ok", "refused", "unrestored"}

VARIABLES
    target,             \* the first bytes of RunScriptThreads: "original" or "hooked"
    s_active,           \* s_active # nullptr
    m_original,         \* m_original # nullptr
    m_refs,             \* m_natives, m_logger and the addresses are set
    m_trampoline,       \* the trampoline page: "none", "mapped" or "freed"
    m_installed,
    m_activeCalls,
    m_smokeAttempting,
    m_smokeCompleted,
    nativesReady,       \* GTA_Native_Manager::Ready()
    ctl,                \* where the controller is
    result,             \* what Install returned: "none" before it returned
    pc,                 \* where each game thread is
    smokes              \* how many native calls each game thread has completed

bridgeVars == <<s_active, m_original, m_refs, m_trampoline, m_installed>>
smokeVars  == <<m_smokeAttempting, m_smokeCompleted, smokes>>
ctlVars    == <<target, nativesReady, ctl, result>> 
vars == <<bridgeVars, smokeVars, ctlVars, m_activeCalls, pc>>

-----------------------------------------------------------------------------
(* Where a game thread can be *)

\* Between fetch_add and fetch_sub in HookThunk.
CountedPCs == {"counted", "trampoline", "original", "gate", "gate2", "claim",
               "claimed", "invoking", "publish", "release", "leaving"}

\* Past the load of m_installed in OnRunScriptThreads, until TryNativeSmoke returns.
PastGatePCs == {"gate2", "claim", "claimed", "invoking", "publish", "release"}

\* Between the compare_exchange of TryNativeSmoke and its store(false).
HolderPCs == {"claimed", "invoking", "publish", "release"}

\* Where TryNativeSmoke dereferences m_natives and m_logger.
UsingRefsPCs == {"claimed", "invoking", "publish"}

\* Executing, or going to return into, code of the DLL.
ThunkPCs == {"entered", "loaded", "checked", "returning"} \cup CountedPCs

PCs == {"game", "body"} \cup ThunkPCs

At(S) == {g \in GameThreads : pc[g] \in S}

-----------------------------------------------------------------------------
(* Where the controller can be *)

\* The steps of the teardown that Uninstall and a failed Install share.
TeardownCtls == {"unpublish", "clear", "forget", "free"}

Ctls == {"idle", "write", "flag", "installed", "restore", "drain", "down"}
            \cup TeardownCtls

Init ==
    /\ target = "original"
    /\ s_active = FALSE
    /\ m_original = FALSE
    /\ m_refs = FALSE
    /\ m_trampoline = "none"
    /\ m_installed = FALSE
    /\ m_activeCalls = 0
    /\ m_smokeAttempting = FALSE
    /\ m_smokeCompleted = FALSE
    /\ nativesReady = FALSE
    /\ ctl = "idle"
    /\ result = "none"
    /\ pc = [g \in GameThreads |-> "game"]
    /\ smokes = [g \in GameThreads |-> 0]

\* The bytes at RunScriptThreads after a write of new that ended with outcome.
WriteExecutableBytes(outcome, new) ==
    target' = IF outcome = "refused" THEN target ELSE new

\* GTA_Native_Manager::Initialize succeeds; it runs before Install and, when it
\* fails, Install is not called or refuses.
InitializeNatives ==
    /\ ctl = "idle"
    /\ nativesReady' = TRUE
    /\ UNCHANGED <<bridgeVars, smokeVars, target, ctl, result, m_activeCalls, pc>>

\* Install returns false before it changes anything.
InstallRefused ==
    /\ ctl = "idle"
    /\ ctl' = "down"
    /\ result' = "false"
    /\ UNCHANGED <<bridgeVars, smokeVars, target, nativesReady, m_activeCalls, pc>>

\* Install fills in the fields, resets the flags and sets s_active.
InstallPublish ==
    /\ ctl = "idle"
    /\ nativesReady
    /\ ~s_active
    /\ m_trampoline' = "mapped"
    /\ m_original' = TRUE
    /\ m_refs' = TRUE
    /\ m_smokeCompleted' = FALSE
    /\ m_smokeAttempting' = FALSE
    /\ m_activeCalls' = 0
    /\ s_active' = TRUE
    /\ ctl' = "write"
    /\ UNCHANGED <<target, nativesReady, result, m_installed, pc, smokes>>

\* Install writes the jump; when the write fails it tears down without a drain.
InstallWrite ==
    /\ ctl = "write"
    /\ \E outcome \in WriteOutcomes :
          /\ WriteExecutableBytes(outcome, "hooked")
          /\ ctl' = IF outcome = "ok" THEN "flag" ELSE "unpublish"
    /\ UNCHANGED <<bridgeVars, smokeVars, nativesReady, result, m_activeCalls, pc>>

InstallFlag ==
    /\ ctl = "flag"
    /\ m_installed' = TRUE
    /\ result' = "true"
    /\ ctl' = "installed"
    /\ UNCHANGED <<s_active, m_original, m_refs, m_trampoline, smokeVars, target,
                   nativesReady, m_activeCalls, pc>>

\* Mutant: s_active is cleared before the patch is removed.
UninstallBeginUnpublishes ==
    /\ ctl = "installed"
    /\ m_installed' = FALSE
    /\ s_active' = FALSE
    /\ ctl' = "restore"
    /\ UNCHANGED <<m_original, m_refs, m_trampoline, smokeVars, target,
                   nativesReady, result, m_activeCalls, pc>>

\* Uninstall: m_installed.exchange(false).
UninstallBegin ==
    /\ ctl = "installed"
    /\ m_installed' = FALSE
    /\ ctl' = "restore"
    /\ UNCHANGED <<s_active, m_original, m_refs, m_trampoline, smokeVars, target,
                   nativesReady, result, m_activeCalls, pc>>

\* Uninstall writes the original bytes back and ignores whether that worked.
UninstallRestore ==
    /\ ctl = "restore"
    /\ \E outcome \in WriteOutcomes : WriteExecutableBytes(outcome, "original")
    /\ ctl' = "drain"
    /\ UNCHANGED <<bridgeVars, smokeVars, nativesReady, result, m_activeCalls, pc>>

\* Mutant: no drain loop.
UninstallWithoutDrain ==
    /\ ctl = "drain"
    /\ ctl' = "unpublish"
    /\ UNCHANGED <<bridgeVars, smokeVars, target, nativesReady, result, m_activeCalls, pc>>

\* Uninstall leaves its Sleep(0) loop when it reads m_activeCalls = 0.
UninstallDrain ==
    /\ ctl = "drain"
    /\ m_activeCalls = 0
    /\ ctl' = "unpublish"
    /\ UNCHANGED <<bridgeVars, smokeVars, target, nativesReady, result, m_activeCalls, pc>>

\* s_active = nullptr.
Unpublish ==
    /\ ctl = "unpublish"
    /\ s_active' = FALSE
    /\ ctl' = "clear"
    /\ UNCHANGED <<m_original, m_refs, m_trampoline, m_installed, smokeVars, target,
                   nativesReady, result, m_activeCalls, pc>>

\* m_original = nullptr.
ClearOriginal ==
    /\ ctl = "clear"
    /\ m_original' = FALSE
    /\ ctl' = "forget"
    /\ UNCHANGED <<s_active, m_refs, m_trampoline, m_installed, smokeVars, target,
                   nativesReady, result, m_activeCalls, pc>>

\* m_natives, m_logger and the addresses are cleared.
ForgetRefs ==
    /\ ctl = "forget"
    /\ m_refs' = FALSE
    /\ ctl' = "free"
    /\ UNCHANGED <<s_active, m_original, m_trampoline, m_installed, smokeVars, target,
                   nativesReady, result, m_activeCalls, pc>>

\* VirtualFree of the trampoline; Install, when it is the caller, returns false.
FreeTrampoline ==
    /\ ctl = "free"
    /\ m_trampoline' = "freed"
    /\ result' = IF result = "true" THEN "true" ELSE "false"
    /\ ctl' = "down"
    /\ UNCHANGED <<s_active, m_original, m_refs, m_installed, smokeVars, target,
                   nativesReady, m_activeCalls, pc>>

\* GTA_Native_Manager::Reset.
ResetNatives ==
    /\ nativesReady' = FALSE
    /\ UNCHANGED <<bridgeVars, smokeVars, target, ctl, result, m_activeCalls, pc>>

\* Runtime_Manager::Stop calls Reset once Uninstall has returned, or found nothing to
\* uninstall.  RuntimeLifecycle has the steps of Stop and does not use this order.
StopResetsNatives == ctl \in {"idle", "down"} /\ ResetNatives

\* The steps that a started Install or Uninstall goes through.
Controller ==
    \/ InstallWrite \/ InstallFlag
    \/ UninstallRestore \/ UninstallDrain
    \/ Unpublish \/ ClearOriginal \/ ForgetRefs \/ FreeTrampoline

-----------------------------------------------------------------------------
(* A game thread's call of RunScriptThreads *)

\* The thread moves; it changes nothing but its own place.
Goto(g, from, to) ==
    /\ pc[g] = from
    /\ pc' = [pc EXCEPT ![g] = to]
    /\ UNCHANGED <<bridgeVars, smokeVars, ctlVars, m_activeCalls>>

\* The game calls RunScriptThreads and meets the bytes that are there.
Call(g) ==
    Goto(g, "game", IF target = "hooked" THEN "entered" ELSE "body")

\* The unpatched function returns.
BodyReturns(g) == Goto(g, "body", "game")

\* HookThunk loads s_active; a null pointer ends the call with false.
LoadActive(g) ==
    Goto(g, "entered", IF s_active THEN "loaded" ELSE "returning")

\* HookThunk loads bridge->m_original; a null pointer ends the call with false.
CheckOriginal(g) ==
    Goto(g, "loaded", IF m_original THEN "checked" ELSE "returning")

\* m_activeCalls.fetch_add(1), in 32 bits.
Enter(g) ==
    /\ pc[g] = "checked"
    /\ m_activeCalls' = IF m_activeCalls = MaxCount THEN 0 ELSE m_activeCalls + 1
    /\ pc' = [pc EXCEPT ![g] = "counted"]
    /\ UNCHANGED <<bridgeVars, smokeVars, ctlVars>>

\* OnRunScriptThreads loads m_original again, and calls it unless it is null.
CallOriginal(g) ==
    Goto(g, "counted", IF m_original THEN "trampoline" ELSE "gate")

\* The trampoline's copy of the prologue jumps into the game's function.
LeaveTrampoline(g) == Goto(g, "trampoline", "original")

\* The game's function returns to OnRunScriptThreads.
OriginalReturns(g) == Goto(g, "original", "gate")

\* Mutant: the thunk returns early, without fetch_sub, when not installed.
LoadInstalledNoLeave(g) ==
    Goto(g, "gate", IF m_installed THEN "gate2" ELSE "returning")

\* Mutant: m_smokeCompleted is not looked at.
LoadCompletedIgnored(g) == Goto(g, "gate2", "claim")

\* m_installed.load() && !m_smokeCompleted.load().
LoadInstalled(g) ==
    Goto(g, "gate", IF m_installed THEN "gate2" ELSE "leaving")

LoadCompleted(g) ==
    Goto(g, "gate2", IF m_smokeCompleted THEN "leaving" ELSE "claim")

\* TryNativeSmoke: m_smokeAttempting.compare_exchange_strong(false, true).
ClaimSmoke(g) ==
    /\ pc[g] = "claim"
    /\ m_smokeAttempting' = TRUE
    /\ pc' = [pc EXCEPT ![g] = IF m_smokeAttempting THEN "leaving" ELSE "claimed"]
    /\ UNCHANGED <<bridgeVars, ctlVars, m_activeCalls, m_smokeCompleted, smokes>>

\* Mutant: an early return that does not store false.
AbandonSmokeKeepsClaim(g) == Goto(g, "claimed", "leaving")

\* An early return of TryNativeSmoke: no native manager, no validated script
\* thread or no readable TLS block.
AbandonSmoke(g) == Goto(g, "claimed", "release")

\* The checks pass and the thread calls the native, its TLS naming the script
\* thread for the length of that call.
BeginInvoke(g) ==
    /\ m_refs /\ nativesReady
    /\ Goto(g, "claimed", "invoking")

\* Invoke returns a value, or nothing.
EndInvoke(g) == \E to \in {"publish", "release"} : Goto(g, "invoking", to)

\* m_smokeCompleted.store(true), and the log line.
PublishSmoke(g) ==
    /\ pc[g] = "publish"
    /\ m_smokeCompleted' = TRUE
    /\ smokes' = [smokes EXCEPT ![g] = @ + 1]
    /\ pc' = [pc EXCEPT ![g] = "release"]
    /\ UNCHANGED <<bridgeVars, ctlVars, m_activeCalls, m_smokeAttempting>>

\* m_smokeAttempting.store(false).
ReleaseSmoke(g) ==
    /\ pc[g] = "release"
    /\ m_smokeAttempting' = FALSE
    /\ pc' = [pc EXCEPT ![g] = "leaving"]
    /\ UNCHANGED <<bridgeVars, ctlVars, m_activeCalls, m_smokeCompleted, smokes>>

\* m_activeCalls.fetch_sub(1), in 32 bits.
Leave(g) ==
    /\ pc[g] = "leaving"
    /\ m_activeCalls' = IF m_activeCalls = 0 THEN MaxCount ELSE m_activeCalls - 1
    /\ pc' = [pc EXCEPT ![g] = "returning"]
    /\ UNCHANGED <<bridgeVars, smokeVars, ctlVars>>

\* HookThunk returns to the game.
ThunkReturns(g) == Goto(g, "returning", "game")

\* What a game thread does once it has called.
InCall(g) ==
    \/ BodyReturns(g) \/ LoadActive(g) \/ CheckOriginal(g) \/ Enter(g)
    \/ CallOriginal(g) \/ LeaveTrampoline(g) \/ OriginalReturns(g)
    \/ LoadInstalled(g) \/ LoadCompleted(g) \/ ClaimSmoke(g) \/ AbandonSmoke(g)
    \/ BeginInvoke(g) \/ EndInvoke(g) \/ PublishSmoke(g) \/ ReleaseSmoke(g)
    \/ Leave(g) \/ ThunkReturns(g)

GameThread(g) == Call(g) \/ InCall(g)

-----------------------------------------------------------------------------
Next ==
    \/ InitializeNatives \/ InstallRefused \/ InstallPublish
    \/ UninstallBegin \/ StopResetsNatives
    \/ Controller
    \/ \E g \in GameThreads : GameThread(g)

Spec == Init /\ [][Next]_vars

\* The controller's thread is scheduled, and the game finishes every call that
\* it makes; nothing says that it calls again or that the bridge is uninstalled.
Fairness ==
    /\ WF_vars(Controller)
    /\ \A g \in GameThreads : WF_vars(InCall(g))

FairSpec == Spec /\ Fairness

-----------------------------------------------------------------------------
(* Properties *)

FlagsOK ==
    /\ s_active \in BOOLEAN
    /\ m_original \in BOOLEAN
    /\ m_refs \in BOOLEAN
    /\ m_installed \in BOOLEAN
    /\ m_smokeAttempting \in BOOLEAN
    /\ m_smokeCompleted \in BOOLEAN
    /\ nativesReady \in BOOLEAN

PlacesOK ==
    /\ target \in {"original", "hooked"}
    /\ m_trampoline \in {"none", "mapped", "freed"}
    /\ m_activeCalls \in 0..MaxCount
    /\ ctl \in Ctls
    /\ result \in {"none", "true", "false"}
    /\ pc \in [GameThreads -> PCs]
    /\ smokes \in [GameThreads -> Nat]

\* Every field keeps its type; m_activeCalls stays in its 32 bits.
TypeOK == FlagsOK /\ PlacesOK

\* m_activeCalls is the number of threads between fetch_add and fetch_sub: it
\* never wraps below zero and never misses a thread, whatever the teardown does.
Counting == m_activeCalls = Cardinality(At(CountedPCs))

\* A thread inside TryNativeSmoke finds the native manager ready and the bridge's
\* pointers set: the drain loop of Uninstall keeps both until the thread is out.
SmokeProtected ==
    \A g \in At(UsingRefsPCs) :
        m_refs /\ nativesReady /\ ctl \in {"installed", "restore", "drain"}

\* Two threads never make the native call at once (m_smokeAttempting).
SmokeExclusive ==
    \A g, h \in At(HolderPCs) : g = h

\* m_smokeAttempting never stays set without a thread that will clear it: every
\* early return of TryNativeSmoke stores false.
ClaimHasHolder == m_smokeAttempting => At(HolderPCs) # {}

\* No thread completes the native call twice.
AtMostOncePerThread == \A g \in GameThreads : smokes[g] <= 1

\* The log line of Install calls the smoke "one-shot": one completed native call.
OneShot ==
    /\ AtMostOncePerThread
    /\ \A g, h \in GameThreads : smokes[g] > 0 /\ smokes[h] > 0 => g = h

\* The call of g ends without running the game's function.
Dropped(g) ==
    \/ pc[g] \in {"entered", "loaded"} /\ pc'[g] = "returning"
    \/ pc[g] = "counted" /\ pc'[g] = "gate"

\* While the bridge is up and until its drain has ended, no call of the game is
\* swallowed by the thunk: s_active and m_original are set before the patch is
\* written and cleared after the drain.
NoCallDropped ==
    [][(\E g \in GameThreads : Dropped(g)) => ctl \in TeardownCtls \cup {"down"}]_vars

\* An Install that returned false left RunScriptThreads as it found it
\* ("RunScriptThreads bridge installation failed closed").
FailedInstallLeavesTarget == result = "false" => target = "original"

\* No thread executes the trampoline's page after VirtualFree.
NoFreedTrampoline == At({"trampoline"}) # {} => m_trampoline = "mapped"

\* Uninstall returns when its write has put the original bytes back: the threads in
\* the thunk leave it and no other comes, so the drain loop ends.  (When the write
\* was refused the loop spins for as long as the game keeps calling.)
UninstallCompletes == ctl = "drain" /\ target = "original" ~> ctl = "down"

-----------------------------------------------------------------------------
(* The native manager and the pointers to it are behind an InvocationGate: *)
(* the flag m_installed is the gate, and the drain loop empties it.        *)

Gate == INSTANCE InvocationGate WITH
    Users    <- GameThreads,
    open     <- m_installed,
    resource <- m_refs /\ nativesReady,
    inside   <- At(PastGatePCs)

\* Every behaviour of the bridge is one of the gate.
ImplementsGate == Gate!Spec
=============================================================================
