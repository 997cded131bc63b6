----------------------------- MODULE GTARuntime -----------------------------
(***************************************************************************)
(* GTA_Runtime: natives and scripts of one build of the game.              *)
(*                                                                         *)
(* A native has a canonical hash, which is the same for all builds, and a  *)
(* runtime hash.  The crossmap file has lines that relate them; lines that *)
(* do not parse are left out, and a file that cannot be read has none.     *)
(* Hashes and handlers are positive numbers, 0 is the null hash and the    *)
(* null handler.                                                           *)
(*                                                                         *)
(* The runtime's own calls do not overlap invocations (Quiet): m_ready,    *)
(* the handlers by index and the statistics have no lock.  Registration in *)
(* the table, which has one, goes on at any time.                          *)
(***************************************************************************)
EXTENDS ScriptRuntime

CONSTANTS
    Canonicals, Runtimes,  \* hashes
    Handlers,
    MaxIndices,            \* bound on the handlers by index
    Crossmaps,             \* what the crossmap file may hold
    Callers                \* threads that invoke natives

ASSUME HashesAssumption == Canonicals \subseteq Nat \ {0} /\ Runtimes \subseteq Nat \ {0}
ASSUME HandlersAssumption == Handlers \subseteq Nat \ {0} /\ MaxIndices \in Nat

Hash(hashes) == hashes \union {0}
Lines == [build : Hash(Builds), canonical : Hash(Canonicals), runtime : Hash(Runtimes)]

ASSUME CrossmapsAssumption == Crossmaps \subseteq Seq(Lines)

VARIABLES
    m_state,           \* of the GTA_Runtime
    m_build,           \* its fingerprint
    m_ready,           \* of the Native_Manager
    nativeBuild,       \* its m_build
    m_byCanonical, m_byRuntime,   \* the crossmap's two maps, by build and hash
    m_cache,           \* runtime hash to handler; what is stored is validated
    m_table,           \* runtime hash to registration
    m_indexed,         \* the handlers by index
    pc, native, handler,  \* of each caller: its place, the canonical hash, the handler found
    registered         \* history: validated registrations since the table was cleared

mapVars     == <<m_byCanonical, m_byRuntime>>
managerVars == <<m_ready, nativeBuild, mapVars>>
callVars    == <<pc, native, handler>>
tableVars   == <<m_table, m_indexed, registered>>
nativeVars  == <<m_state, m_build, managerVars, m_cache, tableVars, callVars>>
runtimeVars == <<nativeVars, scriptVars>>

Registrations == [handler : Handlers \union {0}, validated : BOOLEAN]
NoHandler == [handler |-> 0, validated |-> FALSE]
EmptyMaps(from) == [b \in Builds |-> [h \in from |-> 0]]

RuntimeTypeOK ==
    /\ m_state \in {"Created", "Ready", "Degraded", "Failed", "Stopped"}
    /\ m_build \in Builds \union {0}
    /\ m_ready \in BOOLEAN
    /\ nativeBuild \in Builds \union {0}
    /\ m_byCanonical \in [Builds -> [Canonicals -> Hash(Runtimes)]]
    /\ m_byRuntime \in [Builds -> [Runtimes -> Hash(Canonicals)]]
    /\ m_cache \in [Runtimes -> Handlers \union {0}]
    /\ m_table \in [Runtimes -> Registrations]
    /\ m_indexed \in Seq(Registrations)
    /\ pc \in [Callers -> {"idle", "table", "store", "resolved"}]
    /\ native \in [Callers -> Canonicals \union {0}]
    /\ handler \in [Callers -> Handlers \union {0}]
    /\ registered \subseteq Runtimes \X Handlers

RuntimeInit ==
    /\ m_state = "Created" /\ m_build = 0
    /\ m_ready = FALSE /\ nativeBuild = 0
    /\ m_byCanonical = EmptyMaps(Canonicals) /\ m_byRuntime = EmptyMaps(Runtimes)
    /\ m_cache = [r \in Runtimes |-> 0]
    /\ m_table = [r \in Runtimes |-> NoHandler]
    /\ m_indexed = << >>
    /\ pc = [c \in Callers |-> "idle"]
    /\ native = [c \in Callers |-> 0]
    /\ handler = [c \in Callers |-> 0]
    /\ registered = {}
    /\ ScriptInit

Quiet == \A c \in Callers : pc[c] = "idle"

-----------------------------------------------------------------------------
(* The crossmap and the Native_Manager's lifecycle.                        *)

Collision(a, b) ==
    /\ a.build = b.build
    /\ \/ a.canonical = b.canonical /\ a.runtime # b.runtime
       \/ a.runtime = b.runtime /\ a.canonical # b.canonical

\* Add refuses the n-th line after the ones before it.
Refused(lines, n) ==
    \/ lines[n].canonical = 0 \/ lines[n].runtime = 0
    \/ \E k \in 1..n - 1 : Collision(lines[k], lines[n])

OfBuild(lines, build) == {n \in DOMAIN lines : lines[n].build = build}

\* The lines of a build that AddBatch adds: it stops at the first one that is refused.
Added(lines, build) ==
    {lines[n] : n \in {m \in OfBuild(lines, build) :
        \A k \in OfBuild(lines, build) : k <= m => ~Refused(lines, k)}}

ToRuntimeIn(entries, b, c) ==
    LET hits == {e \in entries : e.build = b /\ e.canonical = c}
    IN  IF hits = {} THEN 0 ELSE (CHOOSE e \in hits : TRUE).runtime

ToCanonicalIn(entries, b, r) ==
    LET hits == {e \in entries : e.build = b /\ e.runtime = r}
    IN  IF hits = {} THEN 0 ELSE (CHOOSE e \in hits : TRUE).canonical

\* LoadText into an empty crossmap, and whether it succeeds and leaves an entry.
LoadText(lines, build) ==
    LET entries == Added(lines, build) IN
    /\ m_byCanonical' = [b \in Builds |-> [c \in Canonicals |-> ToRuntimeIn(entries, b, c)]]
    /\ m_byRuntime' = [b \in Builds |-> [r \in Runtimes |-> ToCanonicalIn(entries, b, r)]]

Loads(lines, build) ==
    /\ OfBuild(lines, build) # {}
    /\ \A n \in OfBuild(lines, build) : ~Refused(lines, n)

\* Mutant: the handlers of the build before stay in the cache.
KeepCache == m_cache' = m_cache

ClearCache == m_cache' = [r \in Runtimes |-> 0]

ClearMaps ==
    /\ m_byCanonical' = EmptyMaps(Canonicals)
    /\ m_byRuntime' = EmptyMaps(Runtimes)

InitializeNatives(build, lines) ==
    /\ nativeBuild' = build
    /\ ClearCache
    /\ LoadText(lines, build)
    /\ m_ready' = Loads(lines, build)

ShutdownNatives ==
    /\ m_ready' = FALSE
    /\ ClearCache
    /\ ClearMaps
    /\ UNCHANGED nativeBuild

-----------------------------------------------------------------------------
(* GTA_Runtime.                                                            *)

Initialize(build, pointersValid, lines) ==
    /\ Quiet
    /\ m_build' = build
    /\ IF build = 0 \/ ~pointersValid
       THEN /\ m_state' = "Failed"
            /\ UNCHANGED <<managerVars, m_cache, scriptVars>>
       ELSE /\ InitializeScripts(build)
            /\ InitializeNatives(build, lines)
            /\ m_state' = IF Loads(lines, build) THEN "Ready" ELSE "Degraded"
    /\ UNCHANGED <<tableVars, callVars>>

Shutdown ==
    /\ Quiet
    /\ m_state' = "Stopped"
    /\ m_build' = 0
    /\ m_indexed' = << >>
    /\ m_table' = [r \in Runtimes |-> NoHandler]
    /\ registered' = {}
    /\ ShutdownNatives
    /\ ShutdownScripts
    /\ UNCHANGED callVars

\* Native_Table::Register; the same handler may be registered again, validated or not.
Register(r, h, validated) ==
    /\ m_table[r].handler \in {0, h}
    /\ m_table' = [m_table EXCEPT ![r] = [handler |-> h, validated |-> validated]]
    /\ registered' = IF validated THEN registered \union {<<r, h>>} ELSE registered
    /\ UNCHANGED <<m_state, m_build, managerVars, m_cache, m_indexed, callVars, scriptVars>>

\* Native_Handler_Table::Reset and Set.
ResetIndexed(count) ==
    /\ Quiet
    /\ m_indexed' = [i \in 1..count |-> NoHandler]
    /\ UNCHANGED <<m_state, m_build, managerVars, m_cache, m_table, registered, callVars, scriptVars>>

SetIndexed(i, h, validated) ==
    /\ Quiet /\ i \in DOMAIN m_indexed
    /\ m_indexed' = [m_indexed EXCEPT ![i] = [handler |-> h, validated |-> validated]]
    /\ UNCHANGED <<m_state, m_build, managerVars, m_cache, m_table, registered, callVars, scriptVars>>

-----------------------------------------------------------------------------
(* Native_Invoker.                                                         *)

Translate(c) == IF nativeBuild = 0 THEN 0 ELSE m_byCanonical[nativeBuild][c]

Goto(caller, place) == pc' = [pc EXCEPT ![caller] = place]
Found(caller, h) == handler' = [handler EXCEPT ![caller] = h]

\* Invoke by hash, up to the cache.  A failure returns at once.
Invoke(caller, c) ==
    LET r == Translate(c) IN
    /\ pc[caller] = "idle" /\ m_ready /\ r # 0
    /\ native' = [native EXCEPT ![caller] = c]
    /\ IF m_cache[r] # 0
       THEN Goto(caller, "resolved") /\ Found(caller, m_cache[r])
       ELSE Goto(caller, "table") /\ UNCHANGED handler
    /\ UNCHANGED <<m_state, m_build, managerVars, m_cache, tableVars, scriptVars>>

FindInTable(caller) ==
    LET entry == m_table[Translate(native[caller])] IN
    /\ pc[caller] = "table"
    /\ IF entry.validated /\ entry.handler # 0
       THEN Goto(caller, "store") /\ Found(caller, entry.handler)
       ELSE Goto(caller, "idle") /\ UNCHANGED handler
    /\ UNCHANGED <<m_state, m_build, managerVars, m_cache, tableVars, native, scriptVars>>

CacheResolved(caller) ==
    /\ pc[caller] = "store"
    /\ m_cache' = [m_cache EXCEPT ![Translate(native[caller])] = handler[caller]]
    /\ Goto(caller, "resolved")
    /\ UNCHANGED <<m_state, m_build, managerVars, tableVars, native, handler, scriptVars>>

\* Invoke by index, up to InvokeResolved, and all of it.
InvokeIndexed(caller, i) ==
    /\ pc[caller] = "idle" /\ m_ready /\ i \in DOMAIN m_indexed
    /\ m_indexed[i].validated /\ m_indexed[i].handler # 0
    /\ native' = [native EXCEPT ![caller] = 0]
    /\ Found(caller, m_indexed[i].handler)
    /\ Goto(caller, "resolved")
    /\ UNCHANGED <<m_state, m_build, managerVars, m_cache, tableVars, scriptVars>>

InvokeResolved(caller) ==
    /\ pc[caller] = "resolved"
    /\ Goto(caller, "idle")
    /\ UNCHANGED <<m_state, m_build, managerVars, m_cache, tableVars, native, handler, scriptVars>>

NativeNext ==
    \/ \E b \in Builds \union {0}, lines \in Crossmaps, valid \in BOOLEAN :
            Initialize(b, valid, lines)
    \/ Shutdown
    \/ \E r \in Runtimes, h \in Handlers, v \in BOOLEAN : Register(r, h, v)
    \/ \E n \in 0..MaxIndices : ResetIndexed(n)
    \/ \E i \in 1..MaxIndices, h \in Handlers, v \in BOOLEAN : SetIndexed(i, h, v)
    \/ \E caller \in Callers :
        \/ \E c \in Canonicals : Invoke(caller, c)
        \/ FindInTable(caller)
        \/ CacheResolved(caller)
        \/ \E i \in 1..MaxIndices : InvokeIndexed(caller, i)
        \/ InvokeResolved(caller)

RuntimeNext ==
    \/ NativeNext
    \/ Client /\ UNCHANGED nativeVars

RuntimeSpec == RuntimeInit /\ [][RuntimeNext]_runtimeVars

-----------------------------------------------------------------------------
\* A handler that an invocation is about to call was registered, as validated, for the
\* runtime hash that the crossmap gives the native in this build, and no other native
\* has that hash.  The cache, which is asked before the table, must not bring back a
\* handler of another build or of another native.
HandlerIsItsOwn ==
    \A caller \in Callers :
        LET c == native[caller]  r == Translate(c) IN
        pc[caller] = "resolved" /\ c # 0 =>
            /\ r # 0 /\ m_byRuntime[nativeBuild][r] = c
            /\ <<r, handler[caller]>> \in registered
            /\ m_state = "Ready" => nativeBuild = m_build
=============================================================================
