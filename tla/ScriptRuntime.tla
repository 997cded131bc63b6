--------------------------- MODULE ScriptRuntime ----------------------------
(***************************************************************************)
(* Script_Runtime_Manager with what it owns: the programs, the script      *)
(* threads and the blocks of script globals that a client registers for    *)
(* one build of the game.                                                  *)
(*                                                                         *)
(* A fingerprint is a positive number, 0 is none.  Indices of globals are  *)
(* unsigned and wrap at IndexRange, as uint32_t does at 2^32.              *)
(***************************************************************************)
EXTENDS Integers, Sequences

CONSTANTS
    Builds,      \* fingerprints
    Programs,    \* pointers to valid programs
    HashOf,      \* their hashes
    Threads,     \* pointers to valid script threads
    IdOf,        \* their ids
    IndexRange,  \* one more than the greatest index
    BlockLists   \* what clients configure

SlotSize == 8

ASSUME BuildsAssumption == Builds \subseteq Nat \ {0}
ASSUME IndexRangeAssumption == IndexRange \in Nat \ {0}

Blocks == [firstIndex : 0..IndexRange - 1, slotCount : 0..IndexRange - 1, base : Nat]

ASSUME BlockListsAssumption == BlockLists \subseteq Seq(Blocks)

VARIABLES
    scriptState,         \* m_state
    scriptBuild,         \* the fingerprint in m_build
    m_programs,
    m_threads,
    m_blocks,            \* sorted by index
    m_buildFingerprint   \* of the globals

globalVars == <<m_blocks, m_buildFingerprint>>
scriptVars == <<scriptState, scriptBuild, m_programs, m_threads, globalVars>>

ScriptTypeOK ==
    /\ scriptState \in {"Created", "Ready", "Failed", "Stopped"}
    /\ scriptBuild \in Builds \union {0}
    /\ m_programs \subseteq Programs
    /\ m_threads \subseteq Threads
    /\ m_blocks \in Seq(Blocks)
    /\ m_buildFingerprint \in Builds \union {0}

ScriptInit ==
    /\ scriptState = "Created"
    /\ scriptBuild = 0
    /\ m_programs = {}
    /\ m_threads = {}
    /\ m_blocks = << >>
    /\ m_buildFingerprint = 0

-----------------------------------------------------------------------------
(* Script globals.                                                         *)

\* The sum of two uint32_t.
Plus(a, b) == (a + b) % IndexRange

Invalid(block) == block.slotCount = 0 \/ block.base = 0

\* Mutant: nothing keeps the sum of two uint32_t from wrapping.
NeverOverflows(block) == FALSE

Overflows(block) == block.firstIndex > IndexRange - 1 - block.slotCount

Orders(S) == {p \in [S -> S] : \A n, k \in S : p[n] = p[k] => n = k}

\* What std::sort may make of the blocks: those with one first index in any order.
Sortings(blocks) ==
    {sorted \in {[n \in DOMAIN blocks |-> blocks[p[n]]] : p \in Orders(DOMAIN blocks)} :
        \A n, k \in DOMAIN blocks : n < k => sorted[n].firstIndex <= sorted[k].firstIndex}

Overlap(sorted) ==
    \E n \in 2..Len(sorted) :
        Plus(sorted[n - 1].firstIndex, sorted[n - 1].slotCount) > sorted[n].firstIndex

Configure(blocks, fingerprint) ==
    /\ \/ /\ fingerprint # 0
          /\ \A n \in DOMAIN blocks : ~Invalid(blocks[n]) /\ ~Overflows(blocks[n])
          /\ m_blocks' \in {sorted \in Sortings(blocks) : ~Overlap(sorted)}
          /\ m_buildFingerprint' = fingerprint
       \/ /\ \/ fingerprint = 0
             \/ \E n \in DOMAIN blocks : Invalid(blocks[n]) \/ Overflows(blocks[n])
             \/ \E sorted \in Sortings(blocks) : Overlap(sorted)
          /\ UNCHANGED globalVars
    /\ UNCHANGED <<scriptState, scriptBuild, m_programs, m_threads>>

Contains(block, index) ==
    index >= block.firstIndex /\ index - block.firstIndex < block.slotCount

\* The address of a global, 0 for a failure.
Resolve(index) ==
    LET hits == {n \in DOMAIN m_blocks : Contains(m_blocks[n], index)}
        it   == m_blocks[CHOOSE n \in hits : \A k \in hits : n <= k]
    IN  IF m_buildFingerprint = 0 \/ hits = {} THEN 0
        ELSE it.base + SlotSize * (index - it.firstIndex)

\* Script_Global::At, resolved: below index 0 the result has no manager, and the cast
\* to uint32_t takes the rest.
ResolveAt(index, offset) ==
    IF offset < 0 /\ -offset > index THEN 0 ELSE Resolve(Plus(index, offset))

-----------------------------------------------------------------------------
(* Programs, threads, and the manager.                                     *)

RegisterProgram(p) ==
    /\ m_programs' = {q \in m_programs : HashOf[q] # HashOf[p]} \union {p}
    /\ UNCHANGED <<scriptState, scriptBuild, m_threads, globalVars>>

UnregisterProgram(p) ==
    /\ m_programs' = {q \in m_programs : HashOf[q] # HashOf[p]}
    /\ UNCHANGED <<scriptState, scriptBuild, m_threads, globalVars>>

RegisterThread(t) ==
    /\ m_threads' = {u \in m_threads : IdOf[u] # IdOf[t]} \union {t}
    /\ UNCHANGED <<scriptState, scriptBuild, m_programs, globalVars>>

UnregisterThread(t) ==
    /\ m_threads' = {u \in m_threads : IdOf[u] # IdOf[t]}
    /\ UNCHANGED <<scriptState, scriptBuild, m_programs, globalVars>>

ClearScripts ==
    /\ m_programs' = {}
    /\ m_threads' = {}
    /\ m_blocks' = << >>
    /\ m_buildFingerprint' = 0

InitializeScripts(build) ==
    IF build = 0
    THEN scriptState' = "Failed" /\ UNCHANGED <<scriptBuild, m_programs, m_threads, globalVars>>
    ELSE scriptState' = "Ready" /\ scriptBuild' = build /\ ClearScripts

ShutdownScripts ==
    /\ ClearScripts
    /\ scriptBuild' = 0
    /\ scriptState' = "Stopped"

Client ==
    \/ \E p \in Programs : RegisterProgram(p) \/ UnregisterProgram(p)
    \/ \E t \in Threads : RegisterThread(t) \/ UnregisterThread(t)
    \/ \E blocks \in BlockLists, build \in Builds \union {0} : Configure(blocks, build)

ScriptNext ==
    \/ \E build \in Builds \union {0} : InitializeScripts(build)
    \/ ShutdownScripts
    \/ Client

ScriptSpec == ScriptInit /\ [][ScriptNext]_scriptVars

-----------------------------------------------------------------------------
\* What Resolve and At do with an index is unambiguous: it lies in one block, its
\* address in that block's memory, and two globals of a block are as far apart as their
\* indices.  Configure must have refused all blocks that wrap or share an index.
OneBlockPerIndex ==
    \A i \in 0..IndexRange - 1, n \in DOMAIN m_blocks :
        LET block == m_blocks[n] IN
        Contains(block, i) =>
            /\ \A k \in DOMAIN m_blocks \ {n} : ~Contains(m_blocks[k], i)
            /\ Resolve(i) \in block.base..(block.base + SlotSize * block.slotCount - 1)
            /\ \A j \in 0..IndexRange - 1 :
                    Contains(block, j) => ResolveAt(i, j - i) = Resolve(i) + SlotSize * (j - i)

=============================================================================
