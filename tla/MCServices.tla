----------------------------- MODULE MCServices -----------------------------
(***************************************************************************)
(* The components without threads of their own, for TLC.  They share no    *)
(* state: acting is the one whose clients are at work, and a behaviour of  *)
(* this module is one of that component while the others stay as they      *)
(* were at first.                                                          *)
(***************************************************************************)
EXTENDS GTARuntime, TargetResolution, MemoryAccounting, FileOperations, PatternScan, TLC

CONSTANTS a1, a2, t1, t2, c1, c2

VARIABLE acting

Services == {"scripts", "natives", "targets", "memory", "files", "scan"}

Init ==
    /\ acting \in Services
    /\ RuntimeInit /\ TargetInit /\ MemoryInit /\ FileInit /\ ScanInit
    /\ acting = "scan" \/ image = [at \in Offsets |-> 0]

Next ==
    /\ UNCHANGED acting
    /\ \/ /\ acting = "scripts" /\ ScriptNext
          /\ UNCHANGED <<nativeVars, targetVars, memoryVars, fileVars, scanVars>>
       \/ /\ acting = "natives" /\ NativeNext
          /\ UNCHANGED <<targetVars, memoryVars, fileVars, scanVars>>
       \/ /\ acting = "targets" /\ TargetNext
          /\ UNCHANGED <<runtimeVars, memoryVars, fileVars, scanVars>>
       \/ /\ acting = "memory" /\ MemoryNext
          /\ UNCHANGED <<runtimeVars, targetVars, fileVars, scanVars>>
       \/ /\ acting = "files" /\ FileNext
          /\ UNCHANGED <<runtimeVars, targetVars, memoryVars, scanVars>>
       \/ /\ acting = "scan" /\ ScanNext
          /\ UNCHANGED <<runtimeVars, targetVars, memoryVars, fileVars>>

vars == <<acting, runtimeVars, targetVars, memoryVars, fileVars, scanVars>>

Spec == Init /\ [][Next]_vars

-----------------------------------------------------------------------------
(* Instances.                                                              *)

HashOfPrograms == [p \in Programs |-> 1]
IdOfThreads    == [t \in Threads |-> 1]

\* All lists of at most two blocks with one base address, or without.
SomeBlocks ==
    [firstIndex : 0..IndexRange - 1, slotCount : 0..IndexRange - 1, base : {100}]
        \union {[firstIndex |-> 0, slotCount |-> 1, base |-> 0]}
UpToTwoBlocks == {<< >>} \union {<<a>> : a \in SomeBlocks}
                         \union {<<a, b>> : a, b \in SomeBlocks}

Line(build, canonical, runtime) == [build |-> build, canonical |-> canonical, runtime |-> runtime]

\* Two builds that give two natives the same two hashes the other way round; a line that
\* gives two natives of a build one hash; a line with the null hash;
\* no lines.
CrossmapFiles ==
    {<<Line(1, 1, 1), Line(2, 1, 2), Line(1, 2, 2), Line(2, 2, 1)>>,
     <<Line(1, 1, 1), Line(1, 2, 1), Line(2, 0, 1)>>,
     << >>}

\* Of the targets without a validator, one.
FollowedTargets == SelectSeq(Targets, LAMBDA target :
    target.id \in {"NativeTable", "ScriptThreads", "RunScriptThreads", "InitNativeTables"})

RegisteredTargets ==
    [id \in {FollowedTargets[i].id : i \in DOMAIN FollowedTargets} |->
        \E i \in DOMAIN FollowedTargets :
            FollowedTargets[i].id = id /\ FollowedTargets[i].required]

\* One within the image, one that the image cuts, one of its last byte, one outside.
SomeSections ==
    {[address |-> 0, virtual |-> 4, raw |-> 0], [address |-> 1, virtual |-> 2, raw |-> 4],
     [address |-> 3, virtual |-> 1, raw |-> 0], [address |-> 4, virtual |-> 4, raw |-> 4]}

TwoAddresses == {a1, a2}
TwoTags      == {t1, t2}
TwoClients   == {c1, c2}
Symmetry == Permutations(TwoAddresses) \union Permutations(TwoTags) \union Permutations(TwoClients)
=============================================================================
