--------------------- MODULE ScriptThreadsBridgeProofs ---------------------
(***************************************************************************)
(* Proofs about ScriptThreadsBridge, for every set of game threads, every  *)
(* width of m_activeCalls that can count them, and every set of outcomes   *)
(* of the patch writes.                                                    *)
(***************************************************************************)
EXTENDS ScriptThreadsBridge, FiniteSetTheorems, TLAPS

\* The controller's states from the publication of s_active to the end of the drain.
LiveCtls == {"write", "flag", "installed", "restore", "drain"}

\* What the place of the controller says of the fields it writes.
CtlInv ==
    /\ m_installed <=> ctl = "installed"
    /\ s_active <=> ctl \in LiveCtls \cup {"unpublish"}
    /\ m_original <=> ctl \in LiveCtls \cup {"unpublish", "clear"}
    /\ m_refs <=> ctl \in LiveCtls \cup {"unpublish", "clear", "forget"}
    /\ m_trampoline = "mapped" <=> ctl \in LiveCtls \cup TeardownCtls
    /\ ctl \in LiveCtls \cup TeardownCtls => nativesReady
    /\ ctl \in {"idle", "write"} => target = "original"
    /\ ctl = "idle" => /\ At(ThunkPCs) = {}
                       /\ \A g \in GameThreads : smokes[g] = 0

\* Outside of installed, restore and drain nobody is past the load of m_installed.
GateInv ==
    ctl \notin {"installed", "restore", "drain"} => At(PastGatePCs) = {}

\* m_smokeAttempting is set exactly while one thread holds the claim.
ClaimInv == SmokeExclusive /\ (m_smokeAttempting <=> At(HolderPCs) # {})

\* A thread that has completed the call finds m_smokeCompleted set from then on.
OnceInv ==
    \A g \in GameThreads :
        /\ smokes[g] <= 1
        /\ smokes[g] = 1 => m_smokeCompleted
        /\ pc[g] \in {"claim", "claimed", "invoking", "publish"} => smokes[g] = 0

-----------------------------------------------------------------------------
(* Moving one thread *)

\* A thread that moves inside S, or outside of S, leaves the threads at S as they are.
LEMMA MoveKeeps ==
    ASSUME pc \in [GameThreads -> PCs],
           NEW g \in GameThreads, NEW to, NEW S,
           pc' = [pc EXCEPT ![g] = to],
           pc[g] \in S <=> to \in S
    PROVE  At(S)' = At(S)
  BY DEF At

\* A thread that comes into S is added to the threads at S.
LEMMA MoveAdds ==
    ASSUME pc \in [GameThreads -> PCs],
           NEW g \in GameThreads, NEW to, NEW S,
           pc' = [pc EXCEPT ![g] = to],
           pc[g] \notin S, to \in S
    PROVE  At(S)' = At(S) \cup {g} /\ g \notin At(S)
  BY DEF At

\* A thread that goes out of S is removed from the threads at S.
LEMMA MoveRemoves ==
    ASSUME pc \in [GameThreads -> PCs],
           NEW g \in GameThreads, NEW to, NEW S,
           pc' = [pc EXCEPT ![g] = to],
           pc[g] \in S, to \notin S
    PROVE  At(S)' = At(S) \ {g} /\ g \in At(S)
  BY DEF At

\* The threads at S are finitely many, and no more than m_activeCalls can count.
LEMMA AtFinite ==
    ASSUME NEW S
    PROVE  /\ IsFiniteSet(At(S))
           /\ Cardinality(At(S)) \in Nat
           /\ Cardinality(At(S)) <= Cardinality(GameThreads)
           /\ Cardinality(At(S)) <= MaxCount
<1>1. At(S) \subseteq GameThreads
  BY DEF At
<1>2. IsFiniteSet(At(S)) /\ Cardinality(At(S)) <= Cardinality(GameThreads)
  BY <1>1, FS_Subset, GameThreadsAssumption
<1>3. Cardinality(At(S)) \in Nat /\ Cardinality(GameThreads) \in Nat
  BY <1>2, FS_CardinalityType, GameThreadsAssumption
<1> QED
  BY <1>2, <1>3, GameThreadsAssumption, MaxCountAssumption

-----------------------------------------------------------------------------
(* Types *)

LEMMA TypeInit == Init => TypeOK
<1> SUFFICES ASSUME Init PROVE TypeOK
  OBVIOUS
<1>1. FlagsOK
  BY DEF Init, FlagsOK
<1>2. PlacesOK
  BY MaxCountAssumption DEF Init, PlacesOK, Ctls, PCs
<1> QED
  BY <1>1, <1>2 DEF TypeOK

LEMMA FlagsStep == FlagsOK /\ [Next]_vars => FlagsOK'
<1> SUFFICES ASSUME FlagsOK, [Next]_vars
             PROVE  FlagsOK'
  OBVIOUS
<1> USE DEF FlagsOK, bridgeVars, smokeVars, ctlVars
<1>1. CASE InitializeNatives \/ InstallRefused \/ InstallPublish
           \/ UninstallBegin \/ StopResetsNatives
  BY <1>1 DEF InitializeNatives, InstallRefused, InstallPublish, UninstallBegin,
     StopResetsNatives, ResetNatives
<1>2. CASE Controller
  BY <1>2 DEF Controller, InstallWrite, InstallFlag, UninstallRestore, UninstallDrain,
     Unpublish, ClearOriginal, ForgetRefs, FreeTrampoline
<1>3. ASSUME NEW g \in GameThreads, GameThread(g)
      PROVE  FlagsOK'
  BY <1>3 DEF GameThread, InCall, Goto, Call, BodyReturns, LoadActive, CheckOriginal,
     Enter, CallOriginal, LeaveTrampoline, OriginalReturns, LoadInstalled, LoadCompleted,
     ClaimSmoke, AbandonSmoke, BeginInvoke, EndInvoke, PublishSmoke, ReleaseSmoke, Leave,
     ThunkReturns
<1>4. CASE UNCHANGED vars
  BY <1>4 DEF vars
<1> QED
  BY <1>1, <1>2, <1>3, <1>4 DEF Next

LEMMA PlacesStep == PlacesOK /\ [Next]_vars => PlacesOK'
<1> SUFFICES ASSUME PlacesOK, [Next]_vars
             PROVE  PlacesOK'
  OBVIOUS
<1> USE MaxCountAssumption DEF PlacesOK, bridgeVars, smokeVars, ctlVars
<1>1. CASE InitializeNatives \/ InstallRefused \/ InstallPublish
           \/ UninstallBegin \/ StopResetsNatives
  BY <1>1 DEF InitializeNatives, InstallRefused, InstallPublish, UninstallBegin,
     StopResetsNatives, ResetNatives, Ctls
<1>2. CASE Controller
  BY <1>2, WriteOutcomesAssumption DEF Controller, InstallWrite, InstallFlag,
     UninstallRestore, UninstallDrain, Unpublish, ClearOriginal, ForgetRefs,
     FreeTrampoline, WriteExecutableBytes, Ctls, TeardownCtls
<1>3. ASSUME NEW g \in GameThreads, GameThread(g)
      PROVE  PlacesOK'
  <2> USE DEF PCs, ThunkPCs, CountedPCs
  <2>1. ASSUME NEW from, NEW to \in PCs, Goto(g, from, to)
        PROVE  PlacesOK'
    BY <2>1 DEF Goto
  <2>2. CASE Enter(g)
    BY <2>2 DEF Enter
  <2>3. CASE ClaimSmoke(g) \/ ReleaseSmoke(g)
    BY <2>3 DEF ClaimSmoke, ReleaseSmoke
  <2>4. CASE PublishSmoke(g)
    BY <2>4 DEF PublishSmoke
  <2>5. CASE Leave(g)
    BY <2>5 DEF Leave
  <2>6. CASE Call(g) \/ BodyReturns(g) \/ LoadActive(g) \/ CheckOriginal(g)
    BY <2>6, <2>1 DEF Call, BodyReturns, LoadActive, CheckOriginal
  <2>7. CASE CallOriginal(g) \/ LeaveTrampoline(g) \/ OriginalReturns(g)
             \/ LoadInstalled(g) \/ LoadCompleted(g)
    BY <2>7, <2>1 DEF CallOriginal, LeaveTrampoline, OriginalReturns, LoadInstalled,
       LoadCompleted
  <2>8. CASE AbandonSmoke(g) \/ BeginInvoke(g) \/ EndInvoke(g) \/ ThunkReturns(g)
    BY <2>8, <2>1 DEF AbandonSmoke, BeginInvoke, EndInvoke, ThunkReturns
  <2> QED
    BY <1>3, <2>2, <2>3, <2>4, <2>5, <2>6, <2>7, <2>8 DEF GameThread, InCall
<1>4. CASE UNCHANGED vars
  BY <1>4 DEF vars
<1> QED
  BY <1>1, <1>2, <1>3, <1>4 DEF Next

LEMMA TypeStep == TypeOK /\ [Next]_vars => TypeOK'
  BY FlagsStep, PlacesStep DEF TypeOK

\* Every field keeps its type; the counter stays in its 32 bits.
THEOREM TypeCorrect == Spec => []TypeOK
  BY TypeInit, TypeStep, PTL DEF Spec
-----------------------------------------------------------------------------
(* The controller's fields *)

\* A game thread changes none of the controller's fields.
LEMMA ThreadKeeps ==
    ASSUME NEW g \in GameThreads, GameThread(g)
    PROVE  UNCHANGED <<bridgeVars, ctlVars>>
  BY DEF GameThread, InCall, Goto, Call, BodyReturns, LoadActive, CheckOriginal, Enter,
     CallOriginal, LeaveTrampoline, OriginalReturns, LoadInstalled, LoadCompleted,
     ClaimSmoke, AbandonSmoke, BeginInvoke, EndInvoke, PublishSmoke, ReleaseSmoke, Leave,
     ThunkReturns

\* The controller moves no game thread and completes no smoke.
ControllerStep == InitializeNatives \/ InstallRefused \/ InstallPublish \/ UninstallBegin
                  \/ StopResetsNatives \/ Controller

LEMMA ControllerKeeps ==
    ASSUME ControllerStep
    PROVE  UNCHANGED <<pc, smokes>>
  BY DEF ControllerStep, InitializeNatives, InstallRefused, InstallPublish, UninstallBegin,
     StopResetsNatives, ResetNatives, Controller, InstallWrite, InstallFlag,
     UninstallRestore, UninstallDrain,
     Unpublish, ClearOriginal, ForgetRefs, FreeTrampoline, smokeVars

LEMMA NextCases ==
    ASSUME [Next]_vars
    PROVE  \/ ControllerStep
           \/ \E g \in GameThreads : GameThread(g)
           \/ UNCHANGED vars
  BY DEF Next, ControllerStep

\* What a game thread does while the function has its own bytes and nobody is in
\* the thunk: it calls the game's function and returns.
LEMMA UnhookedStep ==
    ASSUME TypeOK, target = "original", At(ThunkPCs) = {},
           NEW g \in GameThreads, GameThread(g)
    PROVE  At(ThunkPCs)' = {} /\ UNCHANGED smokes
<1>1. pc[g] \in {"game", "body"}
  BY DEF TypeOK, PlacesOK, PCs, At
<1>2. Call(g) \/ BodyReturns(g)
  BY <1>1 DEF GameThread, InCall, Goto, LoadActive, CheckOriginal, Enter,
     CallOriginal, LeaveTrampoline, OriginalReturns, LoadInstalled, LoadCompleted,
     ClaimSmoke, AbandonSmoke, BeginInvoke, EndInvoke, PublishSmoke, ReleaseSmoke, Leave,
     ThunkReturns
<1>3. UNCHANGED smokes /\ \E to \in {"game", "body"} : pc' = [pc EXCEPT ![g] = to]
  BY <1>2 DEF Call, BodyReturns, Goto, smokeVars
<1> QED
  BY <1>3 DEF At, TypeOK, PlacesOK, ThunkPCs, CountedPCs

LEMMA CtlInit == Init => CtlInv
<1> SUFFICES ASSUME Init PROVE CtlInv
  OBVIOUS
<1>1. At(ThunkPCs) = {} /\ \A g \in GameThreads : smokes[g] = 0
  BY DEF Init, At, ThunkPCs, CountedPCs
<1> QED
  BY <1>1 DEF Init, CtlInv, LiveCtls, TeardownCtls

LEMMA CtlStep == TypeOK /\ CtlInv /\ [Next]_vars => CtlInv'
<1> SUFFICES ASSUME TypeOK, CtlInv, [Next]_vars
             PROVE  CtlInv'
  OBVIOUS
<1> USE DEF CtlInv, LiveCtls, TeardownCtls
<1>1. CASE ControllerStep
  <2>1. At(ThunkPCs)' = At(ThunkPCs) /\ UNCHANGED smokes
    BY <1>1, ControllerKeeps DEF At
  <2>2. CASE InitializeNatives \/ InstallRefused \/ StopResetsNatives
    BY <2>1, <2>2 DEF InitializeNatives, InstallRefused, StopResetsNatives, ResetNatives,
       bridgeVars
  <2>3. CASE InstallPublish
    BY <2>1, <2>3 DEF InstallPublish
  <2>4. CASE UninstallBegin
    BY <2>1, <2>4 DEF UninstallBegin
  <2>5. CASE InstallWrite \/ InstallFlag
    BY <2>1, <2>5 DEF InstallWrite, InstallFlag, bridgeVars
  <2>6. CASE UninstallRestore \/ UninstallDrain
    BY <2>1, <2>6 DEF UninstallRestore, UninstallDrain, bridgeVars
  <2>7. CASE Unpublish \/ ClearOriginal \/ ForgetRefs \/ FreeTrampoline
    BY <2>1, <2>7 DEF Unpublish, ClearOriginal, ForgetRefs, FreeTrampoline
  <2> QED
    BY <1>1, <2>2, <2>3, <2>4, <2>5, <2>6, <2>7 DEF ControllerStep, Controller
<1>2. ASSUME NEW g \in GameThreads, GameThread(g)
      PROVE  CtlInv'
  <2>1. UNCHANGED <<bridgeVars, ctlVars>>
    BY <1>2, ThreadKeeps
  <2>2. ctl = "idle" => At(ThunkPCs)' = {} /\ UNCHANGED smokes
    BY <1>2, UnhookedStep
  <2> QED
    BY <2>1, <2>2 DEF bridgeVars, ctlVars
<1>3. CASE UNCHANGED vars
  BY <1>3 DEF vars, bridgeVars, smokeVars, ctlVars, At
<1> QED
  BY <1>1, <1>2, <1>3, NextCases

LEMMA CtlCorrect == Spec => [](TypeOK /\ CtlInv)
<1>1. Init => TypeOK /\ CtlInv
  BY TypeInit, CtlInit
<1>2. (TypeOK /\ CtlInv) /\ [Next]_vars => (TypeOK /\ CtlInv)'
  BY TypeStep, CtlStep
<1> QED
  BY <1>1, <1>2, PTL DEF Spec

-----------------------------------------------------------------------------
(* The counter *)

LEMMA CountingInit == Init => Counting
<1> SUFFICES ASSUME Init PROVE Counting
  OBVIOUS
<1>1. At(CountedPCs) = {}
  BY DEF Init, At, CountedPCs
<1> QED
  BY <1>1, FS_EmptySet DEF Init, Counting

LEMMA CountingStep == TypeOK /\ CtlInv /\ Counting /\ [Next]_vars => Counting'
<1> SUFFICES ASSUME TypeOK, CtlInv, Counting, [Next]_vars
             PROVE  Counting'
  OBVIOUS
<1> USE DEF Counting
<1> DEFINE Inside == At(CountedPCs)
<1>1. CASE ControllerStep
  <2>1. Inside' = Inside
    BY <1>1, ControllerKeeps DEF At
  <2>2. CASE InstallPublish
    <3>1. Inside = {}
      BY <2>2 DEF InstallPublish, CtlInv, At, ThunkPCs
    <3> QED
      BY <2>1, <2>2, <3>1, FS_EmptySet DEF InstallPublish
  <2>3. CASE ~InstallPublish
    <3>1. m_activeCalls' = m_activeCalls
      BY <1>1, <2>3 DEF ControllerStep, InitializeNatives, InstallRefused, UninstallBegin,
         StopResetsNatives, ResetNatives, Controller, InstallWrite, InstallFlag,
         UninstallRestore,
         UninstallDrain, Unpublish, ClearOriginal, ForgetRefs, FreeTrampoline
    <3> QED
      BY <2>1, <3>1
  <2> QED
    BY <2>2, <2>3
<1>2. ASSUME NEW g \in GameThreads, GameThread(g)
      PROVE  Counting'
  <2>1. pc \in [GameThreads -> PCs]
    BY DEF TypeOK, PlacesOK
  <2>2. CASE Enter(g)
    <3>1. Inside' = Inside \cup {g} /\ g \notin Inside
      BY <2>1, <2>2, MoveAdds DEF Enter, CountedPCs
    <3>2. Cardinality(Inside') = Cardinality(Inside) + 1
      BY <3>1, AtFinite, FS_AddElement
    <3>3. Cardinality(Inside') <= MaxCount
      <4>1. Inside' \subseteq GameThreads
        BY DEF At
      <4>2. Cardinality(Inside') <= Cardinality(GameThreads)
        BY <4>1, FS_Subset, GameThreadsAssumption
      <4> QED
        BY <3>2, <4>2, AtFinite, GameThreadsAssumption, FS_CardinalityType, MaxCountAssumption
    <3>4. m_activeCalls # MaxCount
      BY <3>2, <3>3, AtFinite, MaxCountAssumption
    <3> QED
      BY <2>2, <3>2, <3>4 DEF Enter
  <2>3. CASE Leave(g)
    <3>1. Inside' = Inside \ {g} /\ g \in Inside
      BY <2>1, <2>3, MoveRemoves DEF Leave, CountedPCs
    <3>2. Cardinality(Inside') = Cardinality(Inside) - 1
      BY <3>1, AtFinite, FS_RemoveElement
    <3>3. m_activeCalls # 0
      BY <3>1, AtFinite, FS_EmptySet
    <3> QED
      BY <2>3, <3>2, <3>3 DEF Leave
  <2>4. CASE ~Enter(g) /\ ~Leave(g)
    <3>1. m_activeCalls' = m_activeCalls
      BY <1>2, <2>4 DEF GameThread, InCall, Goto, Call, BodyReturns, LoadActive,
         CheckOriginal, CallOriginal, LeaveTrampoline, OriginalReturns, LoadInstalled,
         LoadCompleted, ClaimSmoke, AbandonSmoke, BeginInvoke, EndInvoke, PublishSmoke,
         ReleaseSmoke, ThunkReturns
    <3>2. \E to : /\ pc' = [pc EXCEPT ![g] = to]
                  /\ pc[g] \in CountedPCs <=> to \in CountedPCs
      BY <1>2, <2>4 DEF GameThread, InCall, Goto, Call, BodyReturns, LoadActive,
         CheckOriginal, CallOriginal, LeaveTrampoline, OriginalReturns, LoadInstalled,
         LoadCompleted, ClaimSmoke, AbandonSmoke, BeginInvoke, EndInvoke, PublishSmoke,
         ReleaseSmoke, ThunkReturns, CountedPCs
    <3>3. Inside' = Inside
      BY <2>1, <3>2, MoveKeeps
    <3> QED
      BY <3>1, <3>3
  <2> QED
    BY <2>2, <2>3, <2>4
<1>3. CASE UNCHANGED vars
  BY <1>3 DEF vars, At
<1> QED
  BY <1>1, <1>2, <1>3, NextCases

\* The counter is the number of threads inside the thunk's counted region.
THEOREM CountingCorrect == Spec => []Counting
<1>1. TypeOK /\ CtlInv /\ Counting /\ [Next]_vars => Counting'
  BY CountingStep
<1> QED
  BY <1>1, CtlCorrect, CountingInit, PTL DEF Spec
-----------------------------------------------------------------------------
(* The gate: the native manager is there for every thread that uses it *)

\* A thread gets past the load of m_installed only while it is set.
LEMMA GateMove ==
    ASSUME NEW g \in GameThreads, GameThread(g)
    PROVE  \E to : /\ pc' = [pc EXCEPT ![g] = to]
                   /\ to \in PastGatePCs => pc[g] \in PastGatePCs \/ m_installed
  BY DEF GameThread, InCall, Goto, Call, BodyReturns, LoadActive, CheckOriginal, Enter,
     CallOriginal, LeaveTrampoline, OriginalReturns, LoadInstalled, LoadCompleted,
     ClaimSmoke, AbandonSmoke, BeginInvoke, EndInvoke, PublishSmoke, ReleaseSmoke, Leave,
     ThunkReturns, PastGatePCs

LEMMA GateInit == Init => GateInv
  BY DEF Init, GateInv, At, PastGatePCs

LEMMA GateStep ==
    TypeOK /\ CtlInv /\ Counting /\ GateInv /\ [Next]_vars => GateInv'
<1> SUFFICES ASSUME TypeOK, CtlInv, Counting, GateInv, [Next]_vars
             PROVE  GateInv'
  OBVIOUS
<1> USE DEF GateInv
<1>1. CASE ControllerStep
  <2>1. At(PastGatePCs)' = At(PastGatePCs)
    BY <1>1, ControllerKeeps DEF At
  <2>2. CASE UninstallDrain
    <3>1. At(CountedPCs) = {}
      BY <2>2, AtFinite, FS_EmptySet DEF UninstallDrain, Counting
    <3>2. At(PastGatePCs) = {}
      BY <3>1 DEF At, PastGatePCs, CountedPCs
    <3> QED
      BY <2>1, <3>2
  <2>3. CASE ~UninstallDrain
    BY <1>1, <2>1, <2>3 DEF ControllerStep, InitializeNatives, InstallRefused,
       InstallPublish, UninstallBegin, StopResetsNatives, ResetNatives, Controller,
       InstallWrite, InstallFlag,
       UninstallRestore, Unpublish, ClearOriginal, ForgetRefs, FreeTrampoline
  <2> QED
    BY <2>2, <2>3
<1>2. ASSUME NEW g \in GameThreads, GameThread(g)
      PROVE  GateInv'
  <2>1. UNCHANGED ctl
    BY <1>2, ThreadKeeps DEF ctlVars
  <2>2. CASE ctl \notin {"installed", "restore", "drain"}
    <3>1. ~m_installed
      BY <2>2 DEF CtlInv
    <3>2. \E to : /\ pc' = [pc EXCEPT ![g] = to]
                  /\ to \in PastGatePCs => pc[g] \in PastGatePCs
      BY <1>2, <3>1, GateMove
    <3> QED
      BY <2>2, <3>2 DEF At, TypeOK, PlacesOK
  <2>3. CASE ctl \in {"installed", "restore", "drain"}
    BY <2>1, <2>3
  <2> QED
    BY <2>2, <2>3
<1>3. CASE UNCHANGED vars
  BY <1>3 DEF vars, ctlVars, At
<1> QED
  BY <1>1, <1>2, <1>3, NextCases

LEMMA GateCorrect == Spec => [](TypeOK /\ CtlInv /\ Counting /\ GateInv)
<1>1. TypeOK /\ CtlInv /\ Counting /\ GateInv /\ [Next]_vars => GateInv'
  BY GateStep
<1> QED
  BY <1>1, GateInit, CtlCorrect, CountingCorrect, PTL DEF Spec

\* A thread in TryNativeSmoke always finds the native manager and the bridge's
\* pointers: no order of Uninstall's steps and of the threads' takes them away.
THEOREM SmokeProtectedCorrect == Spec => []SmokeProtected
<1>1. CtlInv /\ GateInv => SmokeProtected
  <2> SUFFICES ASSUME CtlInv, GateInv, NEW g \in At(UsingRefsPCs)
               PROVE  m_refs /\ nativesReady /\ ctl \in {"installed", "restore", "drain"}
    BY DEF SmokeProtected
  <2>1. g \in At(PastGatePCs)
    BY DEF At, UsingRefsPCs, PastGatePCs
  <2>2. ctl \in {"installed", "restore", "drain"}
    BY <2>1 DEF GateInv
  <2> QED
    BY <2>2 DEF CtlInv, LiveCtls
<1> QED
  BY <1>1, GateCorrect, PTL

-----------------------------------------------------------------------------
(* The claim *)

LEMMA ClaimInit == Init => ClaimInv
<1> SUFFICES ASSUME Init PROVE ClaimInv
  OBVIOUS
<1>1. At(HolderPCs) = {}
  BY DEF Init, At, HolderPCs
<1> QED
  BY <1>1 DEF Init, ClaimInv, SmokeExclusive

LEMMA ClaimStep == TypeOK /\ CtlInv /\ ClaimInv /\ [Next]_vars => ClaimInv'
<1> SUFFICES ASSUME TypeOK, CtlInv, ClaimInv, [Next]_vars
             PROVE  ClaimInv'
  OBVIOUS
<1> USE DEF ClaimInv, SmokeExclusive
<1>1. CASE ControllerStep
  <2>1. At(HolderPCs)' = At(HolderPCs)
    BY <1>1, ControllerKeeps DEF At
  <2>2. CASE InstallPublish
    <3>1. At(HolderPCs) = {}
      BY <2>2 DEF InstallPublish, CtlInv, At, ThunkPCs, CountedPCs, HolderPCs
    <3> QED
      BY <2>1, <2>2, <3>1 DEF InstallPublish
  <2>3. CASE ~InstallPublish
    <3>1. UNCHANGED m_smokeAttempting
      BY <1>1, <2>3 DEF ControllerStep, InitializeNatives, InstallRefused, UninstallBegin,
         StopResetsNatives, ResetNatives, Controller, InstallWrite, InstallFlag,
         UninstallRestore,
         UninstallDrain, Unpublish, ClearOriginal, ForgetRefs, FreeTrampoline, smokeVars
    <3> QED
      BY <2>1, <3>1
  <2> QED
    BY <2>2, <2>3
<1>2. ASSUME NEW g \in GameThreads, GameThread(g)
      PROVE  ClaimInv'
  <2>1. pc \in [GameThreads -> PCs]
    BY DEF TypeOK, PlacesOK
  <2>2. CASE ClaimSmoke(g) /\ ~m_smokeAttempting
    <3>1. At(HolderPCs)' = At(HolderPCs) \cup {g}
      BY <2>1, <2>2, MoveAdds DEF ClaimSmoke, HolderPCs
    <3> QED
      BY <2>2, <3>1 DEF ClaimSmoke
  <2>3. CASE ReleaseSmoke(g)
    <3>1. At(HolderPCs)' = At(HolderPCs) \ {g} /\ g \in At(HolderPCs)
      BY <2>1, <2>3, MoveRemoves DEF ReleaseSmoke, HolderPCs
    <3> QED
      BY <2>3, <3>1 DEF ReleaseSmoke
  <2>4. CASE ~ReleaseSmoke(g) /\ ~(ClaimSmoke(g) /\ ~m_smokeAttempting)
    <3>1. m_smokeAttempting' <=> m_smokeAttempting
      BY <1>2, <2>4 DEF GameThread, InCall, Goto, Call, BodyReturns, LoadActive,
         CheckOriginal, Enter, CallOriginal, LeaveTrampoline, OriginalReturns,
         LoadInstalled, LoadCompleted, ClaimSmoke, AbandonSmoke, BeginInvoke, EndInvoke,
         PublishSmoke, Leave, ThunkReturns, smokeVars
    <3>2. \E to : /\ pc' = [pc EXCEPT ![g] = to]
                  /\ pc[g] \in HolderPCs <=> to \in HolderPCs
      BY <1>2, <2>4 DEF GameThread, InCall, Goto, Call, BodyReturns, LoadActive,
         CheckOriginal, Enter, CallOriginal, LeaveTrampoline, OriginalReturns,
         LoadInstalled, LoadCompleted, ClaimSmoke, AbandonSmoke, BeginInvoke, EndInvoke,
         PublishSmoke, Leave, ThunkReturns, HolderPCs
    <3>3. At(HolderPCs)' = At(HolderPCs)
      BY <2>1, <3>2, MoveKeeps
    <3> QED
      BY <3>1, <3>3
  <2> QED
    BY <2>2, <2>3, <2>4
<1>3. CASE UNCHANGED vars
  BY <1>3 DEF vars, smokeVars, At
<1> QED
  BY <1>1, <1>2, <1>3, NextCases

LEMMA ClaimCorrect == Spec => []ClaimInv
<1>1. TypeOK /\ CtlInv /\ ClaimInv /\ [Next]_vars => ClaimInv'
  BY ClaimStep
<1> QED
  BY <1>1, ClaimInit, CtlCorrect, PTL DEF Spec

\* At most one thread makes the native call at a time.
THEOREM SmokeExclusiveCorrect == Spec => []SmokeExclusive
<1>1. ClaimInv => SmokeExclusive
  BY DEF ClaimInv
<1> QED
  BY <1>1, ClaimCorrect, PTL

\* The claim never outlives the thread that took it.
THEOREM ClaimHasHolderCorrect == Spec => []ClaimHasHolder
<1>1. ClaimInv => ClaimHasHolder
  BY DEF ClaimInv, ClaimHasHolder
<1> QED
  BY <1>1, ClaimCorrect, PTL
-----------------------------------------------------------------------------
(* One smoke per thread *)

LEMMA OnceInit == Init => OnceInv
  BY DEF Init, OnceInv

LEMMA OnceStep == TypeOK /\ CtlInv /\ OnceInv /\ [Next]_vars => OnceInv'
<1> SUFFICES ASSUME TypeOK, CtlInv, OnceInv, [Next]_vars
             PROVE  OnceInv'
  OBVIOUS
<1> USE DEF OnceInv
<1>1. CASE ControllerStep
  <2>1. UNCHANGED <<pc, smokes>>
    BY <1>1, ControllerKeeps
  <2>2. CASE InstallPublish
    BY <2>1, <2>2 DEF InstallPublish, CtlInv
  <2>3. CASE ~InstallPublish
    <3>1. UNCHANGED m_smokeCompleted
      BY <1>1, <2>3 DEF ControllerStep, InitializeNatives, InstallRefused, UninstallBegin,
         StopResetsNatives, ResetNatives, Controller, InstallWrite, InstallFlag,
         UninstallRestore,
         UninstallDrain, Unpublish, ClearOriginal, ForgetRefs, FreeTrampoline, smokeVars
    <3> QED
      BY <2>1, <3>1
  <2> QED
    BY <2>2, <2>3
<1>2. ASSUME NEW g \in GameThreads, GameThread(g)
      PROVE  OnceInv'
  <2>1. pc \in [GameThreads -> PCs] /\ smokes \in [GameThreads -> Nat]
    BY DEF TypeOK, PlacesOK
  <2>2. CASE PublishSmoke(g)
    BY <2>1, <2>2 DEF PublishSmoke
  <2>3. CASE LoadCompleted(g)
    <3>1. smokes[g] = 0 \/ m_smokeCompleted
      BY <2>1
    <3>2. UNCHANGED <<smokes, m_smokeCompleted>>
      BY <2>3 DEF LoadCompleted, Goto, smokeVars
    <3>3. pc' = [pc EXCEPT ![g] = IF m_smokeCompleted THEN "leaving" ELSE "claim"]
      BY <2>3 DEF LoadCompleted, Goto
    <3> QED
      BY <2>1, <3>1, <3>2, <3>3
  <2>4. CASE ~PublishSmoke(g) /\ ~LoadCompleted(g)
    <3>1. UNCHANGED <<smokes, m_smokeCompleted>>
      BY <1>2, <2>4 DEF GameThread, InCall, Goto, Call, BodyReturns, LoadActive,
         CheckOriginal, Enter, CallOriginal, LeaveTrampoline, OriginalReturns,
         LoadInstalled, ClaimSmoke, AbandonSmoke, BeginInvoke, EndInvoke, ReleaseSmoke,
         Leave, ThunkReturns, smokeVars
    <3>2. \E to : /\ pc' = [pc EXCEPT ![g] = to]
                  /\ to \in {"claim", "claimed", "invoking", "publish"} =>
                         pc[g] \in {"claim", "claimed", "invoking", "publish"}
      BY <1>2, <2>4 DEF GameThread, InCall, Goto, Call, BodyReturns, LoadActive,
         CheckOriginal, Enter, CallOriginal, LeaveTrampoline, OriginalReturns,
         LoadInstalled, ClaimSmoke, AbandonSmoke, BeginInvoke, EndInvoke, ReleaseSmoke,
         Leave, ThunkReturns
    <3> QED
      BY <2>1, <3>1, <3>2
  <2> QED
    BY <2>2, <2>3, <2>4
<1>3. CASE UNCHANGED vars
  BY <1>3 DEF vars, smokeVars
<1> QED
  BY <1>1, <1>2, <1>3, NextCases

\* No thread completes the native call twice, whoever else completes it.
THEOREM AtMostOncePerThreadCorrect == Spec => []AtMostOncePerThread
<1>1. TypeOK /\ CtlInv /\ OnceInv /\ [Next]_vars => OnceInv'
  BY OnceStep
<1>2. OnceInv => AtMostOncePerThread
  BY DEF OnceInv, AtMostOncePerThread
<1> QED
  BY <1>1, <1>2, OnceInit, CtlCorrect, PTL DEF Spec

\* With one game thread the smoke is one-shot, as the log line of Install has it.
THEOREM OneShotForOneThread ==
    ASSUME \A g, h \in GameThreads : g = h
    PROVE  Spec => []OneShot
<1>1. AtMostOncePerThread => OneShot
  BY DEF OneShot
<1> QED
  BY <1>1, AtMostOncePerThreadCorrect, PTL

-----------------------------------------------------------------------------
(* Calls of the game *)

\* A thread that drops a call is at one of three loads, and saw a null pointer.
LEMMA DropStep ==
    ASSUME TypeOK, NEW g \in GameThreads, Dropped(g), [Next]_vars
    PROVE  pc[g] \in ThunkPCs /\ (~s_active \/ ~m_original)
<1>1. pc[g] \in {"entered", "loaded", "counted"} /\ pc'[g] # pc[g]
  BY DEF Dropped
<1>2. ~ControllerStep /\ ~UNCHANGED vars
  BY <1>1, ControllerKeeps DEF vars
<1>3. PICK h \in GameThreads : GameThread(h)
  BY <1>2, NextCases
<1>4. \E to : pc' = [pc EXCEPT ![h] = to]
  BY <1>3, GateMove
<1>5. h = g
  BY <1>1, <1>4 DEF TypeOK, PlacesOK
<1>6. LoadActive(g) \/ CheckOriginal(g) \/ CallOriginal(g)
  BY <1>1, <1>3, <1>5 DEF GameThread, InCall, Goto, Call, BodyReturns, Enter,
     LeaveTrampoline, OriginalReturns, LoadInstalled, LoadCompleted, ClaimSmoke,
     AbandonSmoke, BeginInvoke, EndInvoke, PublishSmoke, ReleaseSmoke, Leave, ThunkReturns
<1>7. ~s_active \/ ~m_original
  <2>1. CASE LoadActive(g)
    BY <2>1 DEF LoadActive, Goto, Dropped, TypeOK, PlacesOK
  <2>2. CASE CheckOriginal(g)
    BY <2>2 DEF CheckOriginal, Goto, Dropped, TypeOK, PlacesOK
  <2>3. CASE CallOriginal(g)
    BY <2>3 DEF CallOriginal, Goto, Dropped, TypeOK, PlacesOK
  <2> QED
    BY <1>6, <2>1, <2>2, <2>3
<1> QED
  BY <1>1, <1>7 DEF ThunkPCs, CountedPCs

\* The thunk swallows no call of the game until the teardown has passed its drain.
THEOREM NoCallDroppedCorrect == Spec => NoCallDropped
<1>1. TypeOK /\ CtlInv /\ [Next]_vars =>
          [(\E g \in GameThreads : Dropped(g)) => ctl \in TeardownCtls \cup {"down"}]_vars
  <2> SUFFICES ASSUME TypeOK, CtlInv, [Next]_vars, NEW g \in GameThreads, Dropped(g)
               PROVE  ctl \in TeardownCtls \cup {"down"}
    OBVIOUS
  <2>1. pc[g] \in ThunkPCs /\ (~s_active \/ ~m_original)
    BY DropStep
  <2>2. ctl # "idle"
    BY <2>1 DEF CtlInv, At
  <2>3. ctl \notin LiveCtls
    BY <2>1 DEF CtlInv
  <2>4. ctl \in Ctls
    BY DEF TypeOK, PlacesOK
  <2> QED
    BY <2>2, <2>3, <2>4 DEF Ctls, LiveCtls
<1> QED
  BY <1>1, CtlCorrect, PTL DEF Spec, NoCallDropped

-----------------------------------------------------------------------------
(* The bridge implements the gate *)

LEMMA GateInitImplements == Init => Gate!Init
<1> SUFFICES ASSUME Init PROVE Gate!Init
  OBVIOUS
<1>1. At(PastGatePCs) = {}
  BY DEF Init, At, PastGatePCs
<1> QED
  BY <1>1 DEF Init, Gate!Init

LEMMA GateStepImplements ==
    TypeOK /\ CtlInv /\ GateInv /\ [Next]_vars => [Gate!Next]_(Gate!vars)
<1> SUFFICES ASSUME TypeOK, CtlInv, GateInv, [Next]_vars
             PROVE  [Gate!Next]_(Gate!vars)
  OBVIOUS
<1> USE DEF Gate!vars
<1> DEFINE Inside == At(PastGatePCs)
<1>1. CASE ControllerStep
  <2>1. Inside' = Inside
    BY <1>1, ControllerKeeps DEF At
  <2>2. CASE InstallPublish
    BY <2>1, <2>2 DEF InstallPublish, CtlInv, LiveCtls, TeardownCtls, Gate!Next, Gate!Provide
  <2>3. CASE InstallFlag
    BY <2>1, <2>3 DEF InstallFlag, CtlInv, LiveCtls, Gate!Next, Gate!Open
  <2>4. CASE UninstallBegin
    BY <2>1, <2>4 DEF UninstallBegin, CtlInv, Gate!Next, Gate!Close
  <2>5. CASE ForgetRefs
    <3>1. Inside = {} /\ ~m_installed /\ m_refs /\ nativesReady
      BY <2>5 DEF ForgetRefs, GateInv, CtlInv, LiveCtls, TeardownCtls
    <3> QED
      BY <2>1, <2>5, <3>1 DEF ForgetRefs, Gate!Next, Gate!Withdraw
  <2>6. CASE InitializeNatives \/ StopResetsNatives
    <3>1. ~m_refs /\ ~m_refs'
      BY <2>6 DEF InitializeNatives, StopResetsNatives, ResetNatives, CtlInv, LiveCtls,
         TeardownCtls, bridgeVars
    <3> QED
      BY <2>1, <2>6, <3>1 DEF InitializeNatives, StopResetsNatives, ResetNatives, bridgeVars
  <2>7. CASE InstallRefused \/ InstallWrite \/ UninstallRestore \/ UninstallDrain
             \/ Unpublish \/ ClearOriginal \/ FreeTrampoline
    <3>1. UNCHANGED <<m_installed, m_refs, nativesReady>>
      BY <2>7 DEF InstallRefused, InstallWrite, UninstallRestore, UninstallDrain,
         Unpublish, ClearOriginal, FreeTrampoline, bridgeVars
    <3> QED
      BY <2>1, <3>1
  <2> QED
    BY <1>1, <2>2, <2>3, <2>4, <2>5, <2>6, <2>7 DEF ControllerStep, Controller
<1>2. ASSUME NEW g \in GameThreads, GameThread(g)
      PROVE  [Gate!Next]_(Gate!vars)
  <2>1. pc \in [GameThreads -> PCs]
    BY DEF TypeOK, PlacesOK
  <2>2. UNCHANGED <<m_installed, m_refs, nativesReady>>
    BY <1>2, ThreadKeeps DEF bridgeVars, ctlVars
  <2>3. PICK to : /\ pc' = [pc EXCEPT ![g] = to]
                  /\ to \in PastGatePCs => pc[g] \in PastGatePCs \/ m_installed
    BY <1>2, GateMove
  <2>4. CASE pc[g] \in PastGatePCs <=> to \in PastGatePCs
    <3>1. Inside' = Inside
      BY <2>1, <2>3, <2>4, MoveKeeps
    <3> QED
      BY <2>2, <3>1
  <2>5. CASE pc[g] \notin PastGatePCs /\ to \in PastGatePCs
    <3>1. Inside' = Inside \cup {g}
      BY <2>1, <2>3, <2>5, MoveAdds
    <3> QED
      BY <2>2, <2>3, <2>5, <3>1 DEF Gate!Next, Gate!Enter
  <2>6. CASE pc[g] \in PastGatePCs /\ to \notin PastGatePCs
    <3>1. Inside' = Inside \ {g} /\ g \in Inside
      BY <2>1, <2>3, <2>6, MoveRemoves
    <3> QED
      BY <2>2, <3>1 DEF Gate!Next, Gate!Leave
  <2> QED
    BY <2>4, <2>5, <2>6
<1>3. CASE UNCHANGED vars
  BY <1>3 DEF vars, bridgeVars, ctlVars, At
<1> QED
  BY <1>1, <1>2, <1>3, NextCases

\* Every behaviour of the bridge is a behaviour of the gate.
THEOREM BridgeImplementsGate == Spec => ImplementsGate
<1>1. TypeOK /\ CtlInv /\ GateInv /\ [Next]_vars => [Gate!Next]_(Gate!vars)
  BY GateStepImplements
<1> QED
  BY <1>1, GateInitImplements, GateCorrect, PTL DEF Spec, ImplementsGate, Gate!Spec
=============================================================================
