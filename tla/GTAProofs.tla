------------------------------ MODULE GTAProofs ------------------------------
(***************************************************************************)
(* Proofs about what is particular to the game.  GTARuntime: for any       *)
(* number of builds, hashes, handlers and callers, any crossmap file, and  *)
(* any blocks of script globals.  TargetResolution: for any choice of      *)
(* targets, of natives and of the number of slots in a sample.             *)
(***************************************************************************)
EXTENDS GTARuntime, TargetResolution, FiniteSetTheorems, TLAPS

-----------------------------------------------------------------------------
(* GTARuntime *)

\* The crossmap's two maps say the same.
MapsInv ==
    \A b \in Builds, c \in Canonicals :
        m_byCanonical[b][c] # 0 => m_byRuntime[b][m_byCanonical[b][c]] = c

\* Cache and table hold what was registered, for the hash under which it was.
RegisteredInv ==
    /\ \A r \in Runtimes : m_cache[r] # 0 => <<r, m_cache[r]>> \in registered
    /\ \A r \in Runtimes : m_table[r].validated /\ m_table[r].handler # 0 =>
            <<r, m_table[r].handler>> \in registered

\* An invocation on its way has a native that the crossmap has, and a handler of it.
CallInv ==
    \A caller \in Callers :
        /\ pc[caller] \in {"table", "store"} => native[caller] # 0
        /\ pc[caller] # "idle" /\ native[caller] # 0 => Translate(native[caller]) # 0
        /\ pc[caller] \in {"store", "resolved"} /\ native[caller] # 0 =>
                <<Translate(native[caller]), handler[caller]>> \in registered

BuildInv == m_state = "Ready" => nativeBuild = m_build

RuntimeInv == RuntimeTypeOK /\ MapsInv /\ RegisteredInv /\ CallInv /\ BuildInv

-----------------------------------------------------------------------------
(* The crossmap *)

\* What AddBatch adds are lines of the build, and none of them collide.
LEMMA AddedLines ==
    ASSUME NEW lines \in Crossmaps, NEW build
    PROVE  /\ \A e \in Added(lines, build) :
                e \in Lines /\ e.build = build /\ e.canonical # 0 /\ e.runtime # 0
           /\ \A e, f \in Added(lines, build) :
                /\ e.canonical = f.canonical => e.runtime = f.runtime
                /\ e.runtime = f.runtime => e.canonical = f.canonical
<1>1. lines \in Seq(Lines)
  BY CrossmapsAssumption
<1>2. ASSUME NEW e \in Added(lines, build)
      PROVE  \E n \in DOMAIN lines :
                e = lines[n] /\ lines[n].build = build /\ ~Refused(lines, n)
  BY <1>1 DEF Added, OfBuild
<1>3. \A e \in Added(lines, build) :
        e \in Lines /\ e.build = build /\ e.canonical # 0 /\ e.runtime # 0
  BY <1>1, <1>2 DEF Refused
<1>4. ASSUME NEW n \in DOMAIN lines, NEW k \in DOMAIN lines, k <= n,
             lines[n].build = build, lines[k].build = build, ~Refused(lines, n)
      PROVE  /\ lines[n].canonical = lines[k].canonical => lines[n].runtime = lines[k].runtime
             /\ lines[n].runtime = lines[k].runtime => lines[n].canonical = lines[k].canonical
  <2>1. CASE k = n
    BY <2>1
  <2>2. CASE k < n
    <3>1. k \in 1..n - 1
      BY <1>1, <2>2
    <3>2. ~Collision(lines[k], lines[n])
      BY <1>4, <3>1 DEF Refused
    <3> QED
      BY <1>4, <3>2 DEF Collision
  <2> QED
    BY <1>1, <1>4, <2>1, <2>2
<1>5. ASSUME NEW e \in Added(lines, build), NEW f \in Added(lines, build)
      PROVE  /\ e.canonical = f.canonical => e.runtime = f.runtime
             /\ e.runtime = f.runtime => e.canonical = f.canonical
  <2>1. PICK n \in DOMAIN lines :
            e = lines[n] /\ lines[n].build = build /\ ~Refused(lines, n)
    BY <1>2
  <2>2. PICK k \in DOMAIN lines :
            f = lines[k] /\ lines[k].build = build /\ ~Refused(lines, k)
    BY <1>2
  <2>3. k <= n \/ n <= k
    BY <1>1
  <2> QED
    BY <1>4, <2>1, <2>2, <2>3
<1> QED
  BY <1>3, <1>5

\* The two look-ups find the same entry.
LEMMA LookUps ==
    ASSUME NEW lines \in Crossmaps, NEW build, NEW b \in Builds, NEW c \in Canonicals
    PROVE  LET r == ToRuntimeIn(Added(lines, build), b, c) IN
           /\ r \in Hash(Runtimes)
           /\ r # 0 => ToCanonicalIn(Added(lines, build), b, r) = c
<1> DEFINE entries == Added(lines, build)
           hits == {e \in entries : e.build = b /\ e.canonical = c}
<1>1. CASE hits = {}
  BY <1>1 DEF ToRuntimeIn, Hash
<1>2. CASE hits # {}
  <2>1. PICK e \in hits : e = CHOOSE x \in hits : TRUE
    BY <1>2
  <2>2. ToRuntimeIn(entries, b, c) = e.runtime
    BY <1>2, <2>1 DEF ToRuntimeIn
  <2>3. e \in entries /\ e.build = b /\ e.canonical = c /\ e \in Lines
    BY <2>1, AddedLines
  <2> DEFINE others == {f \in entries : f.build = b /\ f.runtime = e.runtime}
  <2>4. others # {}
    BY <2>3
  <2>5. PICK f \in others : f = CHOOSE x \in others : TRUE
    BY <2>4
  <2>6. ToCanonicalIn(entries, b, e.runtime) = f.canonical
    BY <2>4, <2>5 DEF ToCanonicalIn
  <2>7. f.canonical = c
    BY <2>3, <2>5, AddedLines
  <2>8. e.runtime \in Hash(Runtimes)
    BY <2>3 DEF Lines
  <2> QED
    BY <2>2, <2>6, <2>7, <2>8
<1> QED
  BY <1>1, <1>2

LEMMA CanonicalType ==
    ASSUME NEW lines \in Crossmaps, NEW build, NEW b \in Builds, NEW r \in Runtimes
    PROVE  ToCanonicalIn(Added(lines, build), b, r) \in Hash(Canonicals)
<1> DEFINE entries == Added(lines, build)
           hits == {e \in entries : e.build = b /\ e.runtime = r}
<1>1. CASE hits = {}
  BY <1>1 DEF ToCanonicalIn, Hash
<1>2. CASE hits # {}
  <2>1. PICK e \in hits : e = CHOOSE x \in hits : TRUE
    BY <1>2
  <2>2. e.canonical \in Hash(Canonicals)
    BY <2>1, AddedLines DEF Lines
  <2> QED
    BY <1>2, <2>1, <2>2 DEF ToCanonicalIn
<1> QED
  BY <1>1, <1>2

MapsOK ==
    /\ m_byCanonical \in [Builds -> [Canonicals -> Hash(Runtimes)]]
    /\ m_byRuntime \in [Builds -> [Runtimes -> Hash(Canonicals)]]
    /\ MapsInv

\* A file makes the two maps agree, whatever it holds.
LEMMA LoadTextMaps ==
    ASSUME NEW lines \in Crossmaps, NEW build, LoadText(lines, build)
    PROVE  MapsOK'
<1> DEFINE entries == Added(lines, build)
<1>1. m_byCanonical' = [b \in Builds |-> [c \in Canonicals |-> ToRuntimeIn(entries, b, c)]]
  BY DEF LoadText
<1>2. m_byRuntime' = [b \in Builds |-> [r \in Runtimes |-> ToCanonicalIn(entries, b, r)]]
  BY DEF LoadText
<1> HIDE DEF entries
<1>3. \A b \in Builds, c \in Canonicals : ToRuntimeIn(entries, b, c) \in Hash(Runtimes)
  BY LookUps DEF entries
<1>4. \A b \in Builds, r \in Runtimes : ToCanonicalIn(entries, b, r) \in Hash(Canonicals)
  BY CanonicalType DEF entries
<1>5. m_byCanonical' \in [Builds -> [Canonicals -> Hash(Runtimes)]]
  BY <1>1, <1>3
<1>6. m_byRuntime' \in [Builds -> [Runtimes -> Hash(Canonicals)]]
  BY <1>2, <1>4
<1>7. ASSUME NEW b \in Builds, NEW c \in Canonicals, m_byCanonical'[b][c] # 0
      PROVE  m_byRuntime'[b][m_byCanonical'[b][c]] = c
  <2>1. m_byCanonical'[b][c] = ToRuntimeIn(entries, b, c)
    BY <1>1
  <2>2. ToRuntimeIn(entries, b, c) \in Runtimes
    BY <1>3, <1>7, <2>1 DEF Hash
  <2>3. ToCanonicalIn(entries, b, ToRuntimeIn(entries, b, c)) = c
    BY <1>7, <2>1, LookUps DEF entries
  <2> QED
    BY <1>2, <2>1, <2>2, <2>3
<1> QED
  BY <1>5, <1>6, <1>7 DEF MapsOK, MapsInv

LEMMA ClearMapsMaps ==
    ASSUME ClearMaps
    PROVE  MapsOK'
  BY DEF ClearMaps, EmptyMaps, MapsOK, MapsInv, Hash

-----------------------------------------------------------------------------
(* The steps *)

LEMMA RuntimeInvInit == RuntimeInit => RuntimeInv
<1> SUFFICES ASSUME RuntimeInit PROVE RuntimeInv
  OBVIOUS
<1>1. RuntimeTypeOK
  <2>1. m_ready \in BOOLEAN
    BY DEF RuntimeInit
  <2>2. m_byCanonical \in [Builds -> [Canonicals -> Hash(Runtimes)]]
        /\ m_byRuntime \in [Builds -> [Runtimes -> Hash(Canonicals)]]
    BY DEF RuntimeInit, EmptyMaps, Hash
  <2>3. m_table \in [Runtimes -> Registrations]
    BY DEF RuntimeInit, NoHandler, Registrations
  <2> QED
    BY <2>1, <2>2, <2>3 DEF RuntimeInit, RuntimeTypeOK
<1>2. MapsInv
  BY DEF RuntimeInit, MapsInv, EmptyMaps
<1>3. RegisteredInv
  BY DEF RuntimeInit, RegisteredInv, NoHandler
<1>4. CallInv /\ BuildInv
  BY DEF RuntimeInit, CallInv, BuildInv
<1> QED
  BY <1>1, <1>2, <1>3, <1>4 DEF RuntimeInv

\* With no invocation on its way there is nothing to say about one.
LEMMA QuietCalls ==
    ASSUME Quiet, UNCHANGED callVars
    PROVE  CallInv'
  BY DEF Quiet, callVars, CallInv

LEMMA InitializeKeeps ==
    ASSUME RuntimeInv, NEW build \in Builds \union {0}, NEW valid \in BOOLEAN, NEW lines \in Crossmaps,
           Initialize(build, valid, lines)
    PROVE  RuntimeInv'
<1> USE DEF RuntimeInv
<1>1. UNCHANGED <<m_table, m_indexed, registered, pc, native, handler>> /\ Quiet /\ m_build' = build
  BY DEF Initialize, tableVars, callVars
<1>2. CallInv'
  BY <1>1, QuietCalls DEF callVars
<1>3. CASE build = 0 \/ ~valid
  <2>1. /\ m_state' = "Failed"
        /\ UNCHANGED <<m_ready, nativeBuild, m_byCanonical, m_byRuntime, m_cache>>
    BY <1>3 DEF Initialize, managerVars, mapVars
  <2>2. RuntimeTypeOK'
    BY <1>1, <2>1 DEF RuntimeTypeOK
  <2>3. MapsInv' /\ RegisteredInv' /\ BuildInv'
    BY <1>1, <2>1 DEF MapsInv, RegisteredInv, BuildInv
  <2> QED
    BY <1>2, <2>2, <2>3
<1>4. CASE ~(build = 0 \/ ~valid)
  <2>1. /\ InitializeNatives(build, lines)
        /\ m_state' = IF Loads(lines, build) THEN "Ready" ELSE "Degraded"
    BY <1>4 DEF Initialize
  <2>2. /\ nativeBuild' = build
        /\ m_cache' = [r \in Runtimes |-> 0]
        /\ LoadText(lines, build)
    BY <2>1 DEF InitializeNatives, ClearCache
  <2>3. MapsOK'
    BY <2>2, LoadTextMaps
  <2>4. m_ready' \in BOOLEAN
    BY <2>1 DEF InitializeNatives, Loads
  <2>5. m_state' \in {"Ready", "Degraded"}
    BY <2>1
  <2>6. RuntimeTypeOK'
    BY <1>1, <2>2, <2>3, <2>4, <2>5 DEF RuntimeTypeOK, MapsOK
  <2>7. RegisteredInv' /\ BuildInv'
    BY <1>1, <2>2 DEF RegisteredInv, BuildInv
  <2> QED
    BY <1>2, <2>3, <2>6, <2>7 DEF MapsOK
<1> QED
  BY <1>3, <1>4

LEMMA ShutdownKeeps == ASSUME RuntimeInv, Shutdown PROVE RuntimeInv'
<1> USE DEF RuntimeInv
<1>1. /\ m_state' = "Stopped" /\ m_build' = 0 /\ m_indexed' = << >>
      /\ m_table' = [r \in Runtimes |-> NoHandler]
      /\ m_cache' = [r \in Runtimes |-> 0]
      /\ registered' = {} /\ ClearMaps
      /\ UNCHANGED <<nativeBuild, pc, native, handler>> /\ Quiet
  BY DEF Shutdown, ShutdownNatives, ClearCache, callVars
<1>2. MapsOK'
  BY <1>1, ClearMapsMaps
<1>3. m_ready' \in BOOLEAN
  BY DEF Shutdown, ShutdownNatives
<1>4. NoHandler \in Registrations
  BY DEF NoHandler, Registrations
<1>5. RuntimeTypeOK'
  BY <1>1, <1>2, <1>3, <1>4 DEF RuntimeTypeOK, MapsOK
<1>6. RegisteredInv' /\ BuildInv'
  BY <1>1 DEF RegisteredInv, BuildInv, NoHandler
<1>7. CallInv'
  BY <1>1, QuietCalls DEF callVars
<1> QED
  BY <1>2, <1>5, <1>6, <1>7 DEF MapsOK

LEMMA RegisterKeeps ==
    ASSUME RuntimeInv, NEW r \in Runtimes, NEW h \in Handlers, NEW v \in BOOLEAN, Register(r, h, v)
    PROVE  RuntimeInv'
<1> USE DEF RuntimeInv
<1>1. /\ m_table' = [m_table EXCEPT ![r] = [handler |-> h, validated |-> v]]
      /\ registered' = IF v THEN registered \union {<<r, h>>} ELSE registered
      /\ UNCHANGED <<m_state, m_build, m_ready, nativeBuild, m_byCanonical, m_byRuntime,
                     m_cache, m_indexed, pc, native, handler>>
  BY DEF Register, managerVars, mapVars, callVars
<1>2. [handler |-> h, validated |-> v] \in Registrations
  BY DEF Registrations
<1>3. RuntimeTypeOK'
  BY <1>1, <1>2 DEF RuntimeTypeOK
<1>4. registered \subseteq registered'
  BY <1>1
<1>5. RegisteredInv'
  <2>1. \A q \in Runtimes : m_cache'[q] # 0 => <<q, m_cache'[q]>> \in registered'
    BY <1>1, <1>4 DEF RegisteredInv
  <2>2. ASSUME NEW q \in Runtimes, m_table'[q].validated, m_table'[q].handler # 0
        PROVE  <<q, m_table'[q].handler>> \in registered'
    <3>1. CASE q = r
      <4>1. m_table'[q] = [handler |-> h, validated |-> v]
        BY <1>1, <3>1 DEF RuntimeTypeOK
      <4>2. v
        BY <2>2, <4>1
      <4> QED
        BY <1>1, <3>1, <4>1, <4>2
    <3>2. CASE q # r
      <4>1. m_table'[q] = m_table[q]
        BY <1>1, <3>2 DEF RuntimeTypeOK
      <4> QED
        BY <1>4, <2>2, <4>1 DEF RegisteredInv
    <3> QED
      BY <3>1, <3>2
  <2> QED
    BY <2>1, <2>2 DEF RegisteredInv
<1>6. MapsInv' /\ BuildInv'
  BY <1>1 DEF MapsInv, BuildInv
<1>7. CallInv'
  BY <1>1, <1>4 DEF CallInv, Translate
<1> QED
  BY <1>3, <1>5, <1>6, <1>7

LEMMA IndexedKeeps ==
    ASSUME RuntimeInv,
           \/ \E n \in 0..MaxIndices : ResetIndexed(n)
           \/ \E i \in 1..MaxIndices, h \in Handlers, v \in BOOLEAN : SetIndexed(i, h, v)
    PROVE  RuntimeInv'
<1> USE DEF RuntimeInv
<1>1. UNCHANGED <<m_state, m_build, m_ready, nativeBuild, m_byCanonical, m_byRuntime,
                  m_cache, m_table, registered, pc, native, handler>>
  BY DEF ResetIndexed, SetIndexed, managerVars, mapVars, callVars
<1>2. m_indexed' \in Seq(Registrations)
  <2>1. ASSUME NEW n \in 0..MaxIndices, ResetIndexed(n)
        PROVE  m_indexed' \in Seq(Registrations)
    <3>1. NoHandler \in Registrations
      BY DEF NoHandler, Registrations
    <3> QED
      BY <2>1, <3>1, HandlersAssumption DEF ResetIndexed
  <2>2. ASSUME NEW i, NEW h \in Handlers, NEW v \in BOOLEAN, SetIndexed(i, h, v)
        PROVE  m_indexed' \in Seq(Registrations)
    <3>1. [handler |-> h, validated |-> v] \in Registrations
      BY DEF Registrations
    <3> QED
      BY <2>2, <3>1 DEF SetIndexed, RuntimeTypeOK
  <2> QED
    BY <2>1, <2>2
<1>3. RuntimeTypeOK'
  BY <1>1, <1>2 DEF RuntimeTypeOK
<1>4. MapsInv' /\ RegisteredInv' /\ BuildInv'
  BY <1>1 DEF MapsInv, RegisteredInv, BuildInv
<1>5. CallInv'
  BY <1>1 DEF CallInv, Translate
<1> QED
  BY <1>3, <1>4, <1>5

\* What an invocation changes: its own place, and its cache entry.
LEMMA CallKeeps ==
    ASSUME RuntimeInv, NEW caller \in Callers,
           \/ \E c \in Canonicals : Invoke(caller, c)
           \/ FindInTable(caller)
           \/ CacheResolved(caller)
           \/ \E i \in 1..MaxIndices : InvokeIndexed(caller, i)
           \/ InvokeResolved(caller)
    PROVE  RuntimeInv'
<1> USE DEF RuntimeInv
<1> DEFINE To(place, c, h) ==
        /\ pc' = [pc EXCEPT ![caller] = place]
        /\ native' = [native EXCEPT ![caller] = c]
        /\ handler' = [handler EXCEPT ![caller] = h]
<1>1. UNCHANGED <<m_state, m_build, m_ready, nativeBuild, m_byCanonical, m_byRuntime,
                  m_table, m_indexed, registered>>
  BY DEF Invoke, FindInTable, CacheResolved, InvokeIndexed, InvokeResolved, managerVars,
     mapVars, tableVars
<1>2. MapsInv' /\ BuildInv'
  BY <1>1 DEF MapsInv, BuildInv
<1>3. \A c : Translate(c)' = Translate(c)
  BY <1>1 DEF Translate
<1>4. \A c \in Canonicals : Translate(c) \in Hash(Runtimes)
  BY DEF RuntimeTypeOK, Translate, Hash
\* Where the call goes, and with what: the rest follows from these.
<1>5. ASSUME NEW place \in {"idle", "table", "store", "resolved"}, NEW c \in Canonicals \union {0},
             NEW h \in Handlers \union {0}, To(place, c, h),
             place \in {"table", "store"} => c # 0,
             place # "idle" /\ c # 0 => Translate(c) # 0,
             place \in {"store", "resolved"} /\ c # 0 => <<Translate(c), h>> \in registered
      PROVE  /\ pc' \in [Callers -> {"idle", "table", "store", "resolved"}]
             /\ native' \in [Callers -> Canonicals \union {0}]
             /\ handler' \in [Callers -> Handlers \union {0}]
             /\ CallInv'
  <2>1. /\ pc' \in [Callers -> {"idle", "table", "store", "resolved"}]
        /\ native' \in [Callers -> Canonicals \union {0}]
        /\ handler' \in [Callers -> Handlers \union {0}]
    BY <1>5 DEF RuntimeTypeOK
  <2>2. pc'[caller] = place /\ native'[caller] = c /\ handler'[caller] = h
    BY <1>5 DEF RuntimeTypeOK
  <2>3. \A other \in Callers \ {caller} :
            pc'[other] = pc[other] /\ native'[other] = native[other] /\ handler'[other] = handler[other]
    BY <1>5 DEF RuntimeTypeOK
  <2>4. CallInv'
    BY <1>1, <1>3, <1>5, <2>2, <2>3 DEF CallInv
  <2> QED
    BY <2>1, <2>4
<1>6. ASSUME UNCHANGED m_cache, NEW place \in {"idle", "table", "store", "resolved"},
             NEW c \in Canonicals \union {0}, NEW h \in Handlers \union {0}, To(place, c, h),
             place \in {"table", "store"} => c # 0,
             place # "idle" /\ c # 0 => Translate(c) # 0,
             place \in {"store", "resolved"} /\ c # 0 => <<Translate(c), h>> \in registered
      PROVE  RuntimeInv'
  <2>1. RuntimeTypeOK' /\ CallInv'
    BY <1>1, <1>5, <1>6 DEF RuntimeTypeOK
  <2>2. RegisteredInv'
    BY <1>1, <1>6 DEF RegisteredInv
  <2> QED
    BY <1>2, <2>1, <2>2
<1>7. native[caller] \in Canonicals \union {0} /\ handler[caller] \in Handlers \union {0}
  BY DEF RuntimeTypeOK
<1>8. ASSUME NEW c \in Canonicals, Invoke(caller, c)
      PROVE  RuntimeInv'
  <2>1. Translate(c) \in Runtimes /\ Translate(c) # 0 /\ UNCHANGED m_cache
    BY <1>4, <1>8 DEF Invoke, Hash
  <2>2. CASE m_cache[Translate(c)] # 0
    <3>1. To("resolved", c, m_cache[Translate(c)])
      BY <1>8, <2>2 DEF Invoke, Goto, Found
    <3>2. m_cache[Translate(c)] \in Handlers
          /\ <<Translate(c), m_cache[Translate(c)]>> \in registered
      BY <2>1, <2>2 DEF RuntimeTypeOK, RegisteredInv
    <3> HIDE DEF To
    <3> QED
      BY <1>6, <2>1, <3>1, <3>2
  <2>3. CASE m_cache[Translate(c)] = 0
    <3>1. To("table", c, handler[caller])
      BY <1>8, <2>3 DEF Invoke, Goto, RuntimeTypeOK
    <3>2. c # 0
      BY HashesAssumption
    <3> HIDE DEF To
    <3> QED
      BY <1>6, <1>7, <2>1, <3>1, <3>2
  <2> QED
    BY <2>2, <2>3
<1>9. CASE FindInTable(caller)
  <2> DEFINE hit == m_table[Translate(native[caller])]
  <2>1. pc[caller] = "table" /\ UNCHANGED <<m_cache, native>>
    BY <1>9 DEF FindInTable
  <2>2. native[caller] # 0 /\ Translate(native[caller]) # 0
    BY <2>1 DEF CallInv
  <2>3. Translate(native[caller]) \in Runtimes
    BY <1>4, <1>7, <2>2 DEF Hash
  <2>4. CASE hit.validated /\ hit.handler # 0
    <3>1. To("store", native[caller], hit.handler)
      BY <1>9, <2>1, <2>4 DEF FindInTable, Goto, Found, RuntimeTypeOK
    <3>2. hit.handler \in Handlers /\ <<Translate(native[caller]), hit.handler>> \in registered
      BY <2>3, <2>4 DEF RuntimeTypeOK, Registrations, RegisteredInv
    <3> HIDE DEF To, hit
    <3> QED
      BY <1>6, <1>7, <2>1, <2>2, <3>1, <3>2
  <2>5. CASE ~(hit.validated /\ hit.handler # 0)
    <3>1. To("idle", native[caller], handler[caller])
      BY <1>9, <2>1, <2>5 DEF FindInTable, Goto, RuntimeTypeOK
    <3> HIDE DEF To, hit
    <3> QED
      BY <1>6, <1>7, <2>1, <3>1
  <2> QED
    BY <2>4, <2>5
<1>10. CASE CacheResolved(caller)
  <2>1. /\ pc[caller] = "store" /\ UNCHANGED <<native, handler>>
        /\ m_cache' = [m_cache EXCEPT ![Translate(native[caller])] = handler[caller]]
    BY <1>10 DEF CacheResolved
  <2>2. To("resolved", native[caller], handler[caller])
    BY <1>10 DEF CacheResolved, Goto, RuntimeTypeOK
  <2>3. /\ native[caller] # 0 /\ Translate(native[caller]) # 0
        /\ <<Translate(native[caller]), handler[caller]>> \in registered
    BY <2>1 DEF CallInv
  <2> HIDE DEF To
  <2>4. RuntimeTypeOK' /\ CallInv'
    <3>1. m_cache' \in [Runtimes -> Handlers \union {0}]
      BY <1>7, <2>1 DEF RuntimeTypeOK
    <3> QED
      BY <1>1, <1>5, <1>7, <2>2, <2>3, <3>1 DEF RuntimeTypeOK
  <2>5. RegisteredInv'
    <3>1. ASSUME NEW r \in Runtimes, m_cache'[r] # 0
          PROVE  <<r, m_cache'[r]>> \in registered
      <4>1. CASE r = Translate(native[caller])
        <5>1. m_cache'[r] = handler[caller]
          BY <2>1, <4>1 DEF RuntimeTypeOK
        <5> QED
          BY <2>3, <4>1, <5>1
      <4>2. CASE r # Translate(native[caller])
        BY <2>1, <3>1, <4>2 DEF RuntimeTypeOK, RegisteredInv
      <4> QED
        BY <4>1, <4>2
    <3> QED
      BY <1>1, <3>1 DEF RegisteredInv
  <2> QED
    BY <1>2, <2>4, <2>5
<1>11. ASSUME NEW i \in 1..MaxIndices, InvokeIndexed(caller, i)
       PROVE  RuntimeInv'
  <2>1. m_indexed[i] \in Registrations
    BY <1>11 DEF InvokeIndexed, RuntimeTypeOK
  <2>2. m_indexed[i].handler \in Handlers \union {0}
    BY <2>1 DEF Registrations
  <2>3. To("resolved", 0, m_indexed[i].handler) /\ UNCHANGED m_cache
    BY <1>11 DEF InvokeIndexed, Goto, Found
  <2> HIDE DEF To
  <2> QED
    BY <1>6, <2>2, <2>3
<1>12. CASE InvokeResolved(caller)
  <2>1. To("idle", native[caller], handler[caller]) /\ UNCHANGED m_cache
    BY <1>12 DEF InvokeResolved, Goto, RuntimeTypeOK
  <2> HIDE DEF To
  <2> QED
    BY <1>6, <1>7, <2>1
<1> QED
  BY <1>8, <1>9, <1>10, <1>11, <1>12

LEMMA RuntimeInvStep == RuntimeInv /\ [RuntimeNext]_runtimeVars => RuntimeInv'
<1> SUFFICES ASSUME RuntimeInv, [RuntimeNext]_runtimeVars
             PROVE  RuntimeInv'
  OBVIOUS
<1>1. CASE NativeNext
  BY <1>1, InitializeKeeps, ShutdownKeeps, RegisterKeeps, IndexedKeeps, CallKeeps DEF NativeNext
<1>2. CASE UNCHANGED nativeVars
  BY <1>2 DEF nativeVars, managerVars, mapVars, tableVars, callVars, RuntimeInv, RuntimeTypeOK,
     MapsInv, RegisteredInv, CallInv, BuildInv, Translate
<1> QED
  BY <1>1, <1>2 DEF RuntimeNext, runtimeVars

\* Every field of the runtime, its crossmap, table and cache keeps its type.
THEOREM RuntimeTypeCorrect == RuntimeSpec => []RuntimeTypeOK
<1>1. RuntimeInv => RuntimeTypeOK
  BY DEF RuntimeInv
<1> QED
  BY <1>1, RuntimeInvInit, RuntimeInvStep, PTL DEF RuntimeSpec

\* The handler that is called is one that was registered as validated for that native of
\* that build: neither the cache nor the crossmap brings in another one.
THEOREM HandlerIsItsOwnCorrect == RuntimeSpec => []HandlerIsItsOwn
<1>1. RuntimeInv => HandlerIsItsOwn
  <2> SUFFICES ASSUME RuntimeInv, NEW caller \in Callers, pc[caller] = "resolved", native[caller] # 0
               PROVE  LET c == native[caller]  r == Translate(c) IN
                      /\ r # 0 /\ m_byRuntime[nativeBuild][r] = c
                      /\ <<r, handler[caller]>> \in registered
                      /\ m_state = "Ready" => nativeBuild = m_build
    BY DEF HandlerIsItsOwn
  <2> USE DEF RuntimeInv
  <2>1. native[caller] \in Canonicals
    BY DEF RuntimeTypeOK
  <2>2. Translate(native[caller]) # 0 /\ <<Translate(native[caller]), handler[caller]>> \in registered
    BY DEF CallInv
  <2>3. nativeBuild \in Builds /\ Translate(native[caller]) = m_byCanonical[nativeBuild][native[caller]]
    BY <2>2 DEF Translate, RuntimeTypeOK
  <2>4. m_byRuntime[nativeBuild][Translate(native[caller])] = native[caller]
    BY <2>1, <2>2, <2>3 DEF MapsInv
  <2> QED
    BY <2>2, <2>4 DEF BuildInv
<1> QED
  BY <1>1, RuntimeInvInit, RuntimeInvStep, PTL DEF RuntimeSpec

-----------------------------------------------------------------------------
(* Script globals *)

\* The blocks are valid, end within the range, and each ends before the next one begins.
Disjoint(blocks) ==
    /\ blocks \in Seq(Blocks)
    /\ \A n \in DOMAIN blocks : ~Invalid(blocks[n]) /\ ~Overflows(blocks[n])
    /\ \A n, k \in DOMAIN blocks :
            n < k => blocks[n].firstIndex + blocks[n].slotCount <= blocks[k].firstIndex

ScriptsInv ==
    /\ ScriptTypeOK
    /\ Disjoint(m_blocks)
    /\ m_blocks # << >> => m_buildFingerprint # 0

\* A sum that is within the range is what two uint32_t give.
LEMMA SmallSum ==
    ASSUME NEW a \in Int, NEW b \in Int, a + b >= 0, a + b < IndexRange
    PROVE  Plus(a, b) = a + b
<1>1. \A m, r \in Int : m >= 0 /\ m < r => m % r = m
  OBVIOUS
<1> QED
  BY <1>1, IndexRangeAssumption DEF Plus

\* What Configure accepts is disjoint: neighbours do not overlap, and in a sorted list
\* what does not reach the next block reaches no later one.
LEMMA AcceptedDisjoint ==
    ASSUME NEW blocks \in Seq(Blocks),
           \A n \in DOMAIN blocks : ~Invalid(blocks[n]) /\ ~Overflows(blocks[n]),
           NEW sorted \in Sortings(blocks), ~Overlap(sorted)
    PROVE  Disjoint(sorted)
<1>1. PICK p \in Orders(DOMAIN blocks) : sorted = [n \in DOMAIN blocks |-> blocks[p[n]]]
  BY DEF Sortings
<1>2. p \in [DOMAIN blocks -> DOMAIN blocks]
  BY <1>1 DEF Orders
<1>3. sorted \in Seq(Blocks) /\ DOMAIN sorted = 1..Len(sorted) /\ DOMAIN sorted = DOMAIN blocks
  BY <1>1, <1>2
<1>4. \A n \in DOMAIN sorted : ~Invalid(sorted[n]) /\ ~Overflows(sorted[n])
  BY <1>1, <1>2
<1>5. \A n, k \in DOMAIN sorted : n < k => sorted[n].firstIndex <= sorted[k].firstIndex
  BY <1>3 DEF Sortings
<1>6. ASSUME NEW n \in DOMAIN sorted, NEW k \in DOMAIN sorted, n < k
      PROVE  sorted[n].firstIndex + sorted[n].slotCount <= sorted[k].firstIndex
  <2> DEFINE a == sorted[n].firstIndex
             b == sorted[n].slotCount
             c == sorted[n + 1].firstIndex
  <2>1. n + 1 \in 2..Len(sorted) /\ n + 1 \in DOMAIN sorted /\ (n + 1) - 1 = n
    BY <1>3, <1>6
  <2>2. a \in 0..IndexRange - 1 /\ b \in 0..IndexRange - 1 /\ c \in Int /\ sorted[k].firstIndex \in Int
    <3>1. sorted[n] \in Blocks /\ sorted[n + 1] \in Blocks /\ sorted[k] \in Blocks
      BY <1>3, <1>6, <2>1
    <3>2. \A block \in Blocks :
            block.firstIndex \in 0..IndexRange - 1 /\ block.slotCount \in 0..IndexRange - 1
      BY DEF Blocks
    <3> QED
      BY <3>1, <3>2, IndexRangeAssumption
  <2>3. a + b < IndexRange
    BY <1>4, <1>6, <2>2, IndexRangeAssumption DEF Overflows
  <2>4. Plus(a, b) = a + b
    BY <2>2, <2>3, SmallSum, IndexRangeAssumption
  <2>5. ~(Plus(a, b) > c)
    BY <2>1 DEF Overlap
  <2>6. c <= sorted[k].firstIndex
    <3>1. CASE k = n + 1
      BY <2>2, <3>1
    <3>2. CASE n + 1 < k
      BY <1>5, <1>6, <2>1, <3>2
    <3> QED
      BY <1>3, <1>6, <3>1, <3>2
  <2> HIDE DEF a, b, c
  <2>7. a + b <= sorted[k].firstIndex
    BY <2>2, <2>4, <2>5, <2>6
  <2> QED
    BY <2>7 DEF a, b
<1> QED
  BY <1>3, <1>4, <1>6 DEF Disjoint

LEMMA NoBlocks ==
    ASSUME m_blocks = << >>
    PROVE  Disjoint(m_blocks)
  BY DEF Disjoint

LEMMA ScriptsInit == RuntimeInit => ScriptsInv
  BY NoBlocks DEF RuntimeInit, ScriptInit, ScriptsInv, ScriptTypeOK, Disjoint

LEMMA ScriptsStay == ScriptsInv /\ UNCHANGED scriptVars => ScriptsInv'
  BY DEF scriptVars, globalVars, ScriptsInv, ScriptTypeOK

LEMMA ClientKeeps == ASSUME ScriptsInv, Client PROVE ScriptsInv'
<1>1. CASE UNCHANGED globalVars /\ UNCHANGED <<scriptState, scriptBuild>>
                /\ m_programs' \subseteq Programs /\ m_threads' \subseteq Threads
  BY <1>1 DEF globalVars, ScriptsInv, ScriptTypeOK
<1>2. ASSUME NEW q \in Programs, RegisterProgram(q) \/ UnregisterProgram(q) PROVE ScriptsInv'
  BY <1>1, <1>2 DEF RegisterProgram, UnregisterProgram, ScriptsInv, ScriptTypeOK
<1>3. ASSUME NEW t \in Threads, RegisterThread(t) \/ UnregisterThread(t) PROVE ScriptsInv'
  BY <1>1, <1>3 DEF RegisterThread, UnregisterThread, ScriptsInv, ScriptTypeOK
<1>4. ASSUME NEW blocks \in BlockLists, NEW build \in Builds \union {0}, Configure(blocks, build)
      PROVE  ScriptsInv'
  <2>1. UNCHANGED <<scriptState, scriptBuild, m_programs, m_threads>>
    BY <1>4 DEF Configure
  <2>2. CASE UNCHANGED globalVars
    BY <1>1, <2>1, <2>2 DEF ScriptsInv, ScriptTypeOK
  <2>3. CASE ~UNCHANGED globalVars
    <3>1. /\ build # 0
          /\ \A n \in DOMAIN blocks : ~Invalid(blocks[n]) /\ ~Overflows(blocks[n])
          /\ m_blocks' \in Sortings(blocks) /\ ~Overlap(m_blocks')
          /\ m_buildFingerprint' = build
      BY <1>4, <2>3 DEF Configure
    <3>2. blocks \in Seq(Blocks)
      BY BlockListsAssumption
    <3>3. Disjoint(m_blocks')
      BY <3>1, <3>2, AcceptedDisjoint
    <3> QED
      BY <2>1, <3>1, <3>3 DEF ScriptsInv, ScriptTypeOK, Disjoint
  <2> QED
    BY <2>2, <2>3
<1> QED
  BY <1>2, <1>3, <1>4 DEF Client

LEMMA ScriptsStep == ScriptsInv /\ [RuntimeNext]_runtimeVars => ScriptsInv'
<1> SUFFICES ASSUME ScriptsInv, [RuntimeNext]_runtimeVars
             PROVE  ScriptsInv'
  OBVIOUS
<1>1. CASE UNCHANGED scriptVars
  BY <1>1, ScriptsStay
<1>2. CASE Client
  BY <1>2, ClientKeeps
<1>3. ASSUME ClearScripts, scriptState' \in {"Ready", "Stopped"}, scriptBuild' \in Builds \union {0}
      PROVE  ScriptsInv'
  BY <1>3 DEF ClearScripts, ScriptsInv, ScriptTypeOK, Disjoint
<1>4. ASSUME NEW build \in Builds \union {0}, NEW valid \in BOOLEAN, NEW lines \in Crossmaps,
             Initialize(build, valid, lines)
      PROVE  ScriptsInv'
  BY <1>1, <1>3, <1>4 DEF Initialize, InitializeScripts
<1>5. CASE Shutdown
  BY <1>3, <1>5 DEF Shutdown, ShutdownScripts
<1>6. CASE NativeNext
  BY <1>1, <1>4, <1>5, <1>6 DEF NativeNext, Register, ResetIndexed, SetIndexed, Invoke, FindInTable,
     CacheResolved, InvokeIndexed, InvokeResolved
<1> QED
  BY <1>1, <1>2, <1>6 DEF RuntimeNext, runtimeVars

\* In disjoint blocks an index has one address.
LEMMA OneBlock ==
    ASSUME ScriptsInv, NEW i \in 0..IndexRange - 1, NEW n \in DOMAIN m_blocks,
           Contains(m_blocks[n], i)
    PROVE  /\ \A k \in DOMAIN m_blocks \ {n} : ~Contains(m_blocks[k], i)
           /\ Resolve(i) = m_blocks[n].base + SlotSize * (i - m_blocks[n].firstIndex)
           /\ m_blocks[n].base \in Int /\ m_blocks[n].firstIndex \in Int
           /\ m_blocks[n].slotCount \in Int
<1>1. \A k \in DOMAIN m_blocks :
        /\ m_blocks[k] \in Blocks
        /\ m_blocks[k].firstIndex \in Int /\ m_blocks[k].slotCount \in Int
        /\ m_blocks[k].base \in Int
  <2>1. \A block \in Blocks :
            block.firstIndex \in Int /\ block.slotCount \in Int /\ block.base \in Int
    BY IndexRangeAssumption DEF Blocks
  <2>2. \A k \in DOMAIN m_blocks : m_blocks[k] \in Blocks
    BY DEF ScriptsInv, Disjoint
  <2> QED
    BY <2>1, <2>2
<1>2. m_blocks \in Seq(Blocks) /\ DOMAIN m_blocks \subseteq Int /\ i \in Int
  BY IndexRangeAssumption DEF ScriptsInv, Disjoint
<1>3. ASSUME NEW k \in DOMAIN m_blocks, k # n PROVE ~Contains(m_blocks[k], i)
  <2>1. CASE k < n
    <3>1. m_blocks[k].firstIndex + m_blocks[k].slotCount <= m_blocks[n].firstIndex
      BY <2>1 DEF ScriptsInv, Disjoint
    <3> QED
      BY <1>1, <1>2, <3>1 DEF Contains
  <2>2. CASE n < k
    <3>1. m_blocks[n].firstIndex + m_blocks[n].slotCount <= m_blocks[k].firstIndex
      BY <2>2 DEF ScriptsInv, Disjoint
    <3> QED
      BY <1>1, <1>2, <3>1 DEF Contains
  <2> QED
    BY <1>2, <1>3, <2>1, <2>2
<1> DEFINE hits == {k \in DOMAIN m_blocks : Contains(m_blocks[k], i)}
<1>4. hits = {n}
  BY <1>3
<1>5. (CHOOSE k \in hits : \A j \in hits : k <= j) = n
  BY <1>2, <1>4
<1>6. m_buildFingerprint # 0
  BY <1>2 DEF ScriptsInv
<1> QED
  BY <1>1, <1>3, <1>4, <1>5, <1>6 DEF Resolve

\* What ends before the range's end cannot wrap: an index has one block and one address,
\* and offsets within a block are distances between addresses, for any blocks.
THEOREM OneBlockPerIndexCorrect == RuntimeSpec => []OneBlockPerIndex
<1>1. ScriptsInv => OneBlockPerIndex
  <2> SUFFICES ASSUME ScriptsInv, NEW i \in 0..IndexRange - 1, NEW n \in DOMAIN m_blocks,
                      Contains(m_blocks[n], i)
               PROVE  LET block == m_blocks[n] IN
                      /\ \A k \in DOMAIN m_blocks \ {n} : ~Contains(m_blocks[k], i)
                      /\ Resolve(i) \in block.base..(block.base + SlotSize * block.slotCount - 1)
                      /\ \A j \in 0..IndexRange - 1 :
                            Contains(block, j) => ResolveAt(i, j - i) = Resolve(i) + SlotSize * (j - i)
    BY DEF OneBlockPerIndex
  <2>1. i \in Int /\ 0 <= i /\ m_blocks[n].base \in Int
        /\ m_blocks[n].firstIndex \in Int /\ m_blocks[n].slotCount \in Int
    BY OneBlock, IndexRangeAssumption
  <2>2. Resolve(i) \in m_blocks[n].base..(m_blocks[n].base + SlotSize * m_blocks[n].slotCount - 1)
    BY <2>1, OneBlock DEF Contains, SlotSize
  <2>3. ASSUME NEW j \in 0..IndexRange - 1, Contains(m_blocks[n], j)
        PROVE  ResolveAt(i, j - i) = Resolve(i) + SlotSize * (j - i)
    <3>1. j \in Int /\ 0 <= j /\ j < IndexRange
      BY IndexRangeAssumption
    <3>2. ~(j - i < 0 /\ -(j - i) > i)
      BY <2>1, <3>1
    <3>3. i + (j - i) = j /\ j - i \in Int
      BY <2>1, <3>1
    <3>4. Plus(i, j - i) = j
      BY <2>1, <3>1, <3>3, SmallSum
    <3>5. ResolveAt(i, j - i) = Resolve(j)
      BY <3>2, <3>4 DEF ResolveAt
    <3>6. /\ Resolve(i) = m_blocks[n].base + SlotSize * (i - m_blocks[n].firstIndex)
          /\ Resolve(j) = m_blocks[n].base + SlotSize * (j - m_blocks[n].firstIndex)
      BY <2>3, OneBlock
    <3> QED
      BY <2>1, <3>1, <3>5, <3>6 DEF SlotSize
  <2> QED
    BY <2>2, <2>3, OneBlock
<1> QED
  BY <1>1, ScriptsInit, ScriptsStep, PTL DEF RuntimeSpec

-----------------------------------------------------------------------------
(* TargetResolution *)

States == {"Unknown", "Missing", "Located", "StructurallyValidated", "Validated", "Failed"}

OutcomeTypes ==
    [state : States, address : {"none", "expected", "other"},
     dispatch : {"none", "expected", "other"}, genuine : BOOLEAN]

\* What a validated target promises.
Sound(target, outcome) ==
    outcome.state = "Validated" =>
        /\ target.id = "RunScriptThreads" => outcome.address = "expected"
        /\ target.id = "ScriptThreads" => outcome.dispatch = "expected" /\ outcome.genuine

SoundReport(report) ==
    /\ report \in Seq(OutcomeTypes)
    /\ Len(report) <= Len(Definitions)
    /\ \A i \in 1..Len(report) : Sound(Definitions[i], report[i])

StatusInv ==
    /\ m_status = [state |-> m_status.state, build |-> m_status.build,
                   report |-> m_status.report, profile |-> m_status.profile]
    /\ phase = "targets" =>
            /\ m_status.build = SupportedFingerprint
            /\ m_status.profile = NoProfile
            /\ m_status.state # "Supported"
            /\ SoundReport(m_status.report)
    /\ phase # "targets" /\ m_status.report # NoReport =>
            /\ m_status.build = SupportedFingerprint
            /\ SoundReport(m_status.report)
            /\ Len(m_status.report) = Len(Definitions)

NativesInv ==
    m_natives # NoNatives =>
        /\ phase \in {"bridge", "running"}
        /\ m_natives = [fingerprint |-> m_status.build, handlers |-> Requested]

BridgeInv == m_bridge # NotInstalled => phase = "running" /\ HookedIsVerified

TargetInv == StatusInv /\ NativesInv /\ BridgeInv

-----------------------------------------------------------------------------
(* The validators *)

LEMMA DefinitionsFinite ==
    /\ Len(Definitions) \in Nat
    /\ DOMAIN Definitions = 1..Len(Definitions)
    /\ IsFiniteSet(DOMAIN Definitions)
<1>1. Definitions \in Seq({Targets[i] : i \in DOMAIN Targets})
  BY DefinitionsAssumption
<1>2. Len(Definitions) \in Nat /\ DOMAIN Definitions = 1..Len(Definitions)
  BY <1>1
<1> QED
  BY <1>2, FS_Interval

\* All objects of a sample that passes are script threads.
LEMMA ScriptThreadsSound ==
    ASSUME NEW outcome \in ScriptThreadsOutcomes
    PROVE  /\ outcome \in OutcomeTypes
           /\ outcome.state = "Validated" => outcome.dispatch = "expected" /\ outcome.genuine
<1>1. PICK p \in Probes : outcome =
        [state    |-> IF SemanticScriptThreads(p) THEN "Validated"
                      ELSE IF StructuralScriptThreads(p) THEN "StructurallyValidated"
                      ELSE "Located",
         address  |-> "expected",
         dispatch |-> IF Decoded(p.sample) = p.sample["zero"] THEN "none"
                      ELSE IF Dominant(p.sample) = "dispatch" THEN "expected" ELSE "other",
         genuine  |-> Genuine(p)]
  BY DEF ScriptThreadsOutcomes
<1>2. p.sample \in [SlotKinds -> 0..SlotCount]
  BY SlotCountAssumption DEF Probes, Samples, NoSample
<1>3. SemanticScriptThreads(p) =>
        Genuine(p) /\ Dominant(p.sample) = "dispatch" /\ Decoded(p.sample) # p.sample["zero"]
  <2> SUFFICES ASSUME SemanticScriptThreads(p)
               PROVE  /\ Genuine(p) /\ Dominant(p.sample) = "dispatch"
                      /\ Decoded(p.sample) # p.sample["zero"]
    OBVIOUS
  <2>1. /\ p.sample["zero"] \in Nat /\ p.sample["dispatch"] \in Nat
        /\ p.sample["code"] \in Nat /\ p.sample["data"] \in Nat
    BY <1>2, SlotCountAssumption DEF SlotKinds
  <2>2. /\ p.sample["dispatch"] = Decoded(p.sample) /\ Decoded(p.sample) >= 4
        /\ Dominant(p.sample) = "dispatch" /\ p.entries = "all"
    BY DEF SemanticScriptThreads
  <2>3. p.sample["zero"] = 0 /\ p.sample["code"] = 0 /\ p.sample["data"] = 0
    BY <2>1, <2>2 DEF Decoded
  <2> QED
    BY <2>2, <2>3 DEF Genuine
<1>4. Genuine(p) \in BOOLEAN
  BY DEF Genuine
<1> QED
  BY <1>1, <1>3, <1>4 DEF States, OutcomeTypes

\* A validated code site of RunScriptThreads is the expected one.
LEMMA CodeSound ==
    ASSUME NEW id, id # "ScriptThreads", NEW address \in {"expected", "other"},
           NEW outcome \in CodeOutcomes(id, address)
    PROVE  /\ outcome \in OutcomeTypes
           /\ outcome.state = "Validated" /\ id = "RunScriptThreads" => outcome.address = "expected"
<1>1. PICK region \in Regions : \E bytes \in Sampled(id, address) : outcome =
        [state    |-> IF Semantic(id, address, region, bytes) THEN "Validated" ELSE "Located",
         address  |-> address, dispatch |-> "none", genuine |-> FALSE]
  BY DEF CodeOutcomes
<1>2. PICK bytes \in Sampled(id, address) : outcome =
        [state    |-> IF Semantic(id, address, region, bytes) THEN "Validated" ELSE "Located",
         address  |-> address, dispatch |-> "none", genuine |-> FALSE]
  BY <1>1
<1>3. Semantic(id, address, region, bytes) /\ id = "RunScriptThreads" => address = "expected"
  BY DEF Semantic, SemanticRunScriptThreads
<1> QED
  BY <1>2, <1>3 DEF States, OutcomeTypes

LEMMA OutcomesSound ==
    ASSUME NEW target, NEW outcome \in Outcomes(target)
    PROVE  /\ outcome \in OutcomeTypes
           /\ Sound(target, outcome)
<1>1. CASE \E state \in {"Unknown", "Missing", "Failed"} : outcome = Unresolved(state)
  BY <1>1 DEF Unresolved, States, OutcomeTypes, Sound
<1>2. CASE target.id = "ScriptThreads" /\ outcome \in ScriptThreadsOutcomes
  BY <1>2, ScriptThreadsSound DEF Sound
<1>3. ASSUME target.id # "ScriptThreads", NEW address \in {"expected", "other"},
             outcome \in CodeOutcomes(target.id, address)
      PROVE  /\ outcome \in OutcomeTypes
             /\ Sound(target, outcome)
  BY <1>3, CodeSound DEF Sound
<1>4. \/ \E state \in {"Unknown", "Missing", "Failed"} : outcome = Unresolved(state)
      \/ target.id = "ScriptThreads" /\ outcome \in ScriptThreadsOutcomes
      \/ /\ target.id # "ScriptThreads"
         /\ \E address \in {"expected", "other"} : outcome \in CodeOutcomes(target.id, address)
  BY DEF Outcomes
<1> QED
  BY <1>1, <1>2, <1>3, <1>4

-----------------------------------------------------------------------------
(* The invariant *)

\* A validated target stands in a complete report of the supported build.
LEMMA ValidatedSound ==
    ASSUME StatusInv, phase # "targets", NEW id, NEW field, Validated(id, field) # "none"
    PROVE  /\ m_status.build = SupportedFingerprint
           /\ SoundReport(m_status.report)
           /\ \E i \in 1..Len(m_status.report) :
                /\ i \in DOMAIN Definitions
                /\ Definitions[i].id = id
                /\ m_status.report[i].state = "Validated"
                /\ Validated(id, field) = m_status.report[i][field]
<1> DEFINE hits == {i \in DOMAIN Definitions : Definitions[i].id = id}
<1>1. m_status.report # NoReport /\ hits # {}
  BY DEF Validated
<1>2. /\ m_status.build = SupportedFingerprint
      /\ SoundReport(m_status.report)
      /\ Len(m_status.report) = Len(Definitions)
  BY <1>1 DEF StatusInv
<1> DEFINE i == CHOOSE j \in hits : TRUE
<1>3. i \in hits
  BY <1>1
<1>4. m_status.report[i].state = "Validated" /\ Validated(id, field) = m_status.report[i][field]
  BY <1>1 DEF Validated
<1> QED
  BY <1>2, <1>3, <1>4, DefinitionsFinite

LEMMA TargetInvInit == TargetInit => TargetInv
<1> SUFFICES ASSUME TargetInit PROVE TargetInv
  OBVIOUS
<1>1. m_status = [state |-> "NotRunning", build |-> NoFingerprint,
                  report |-> NoReport, profile |-> NoProfile] /\ phase = "stopped"
  BY DEF TargetInit
<1>2. StatusInv
  BY <1>1 DEF StatusInv
<1> QED
  BY <1>2 DEF TargetInit, TargetInv, NativesInv, BridgeInv

\* A Refresh that goes no further leaves no report.
LEMMA EndsStep ==
    ASSUME TargetInv, NEW state, NEW build, Ends(state, build), phase \in {"stopped", "targets"},
           UNCHANGED <<m_natives, entry, m_bridge>>
    PROVE  TargetInv'
<1>1. m_natives = NoNatives /\ m_bridge = NotInstalled
  BY DEF TargetInv, NativesInv, BridgeInv
<1>2. StatusInv'
  BY DEF Ends, StatusInv
<1> QED
  BY <1>1, <1>2 DEF TargetInv, NativesInv, BridgeInv

LEMMA RefreshBeginStep == TargetInv /\ RefreshBegin => TargetInv'
<1> SUFFICES ASSUME TargetInv, RefreshBegin PROVE TargetInv'
  OBVIOUS
<1>1. ASSUME NEW state, NEW build, Ends(state, build) PROVE TargetInv'
  BY <1>1, EndsStep DEF RefreshBegin
<1>2. ASSUME NEW build, build = SupportedFingerprint,
             m_status' = [state |-> "BuildIdentified", build |-> build,
                          report |-> << >>, profile |-> NoProfile],
             phase' = "targets"
      PROVE  TargetInv'
  <2>1. m_natives' = NoNatives /\ m_bridge' = NotInstalled
    BY DEF RefreshBegin, TargetInv, NativesInv, BridgeInv
  <2>2. SoundReport(<< >>)
    BY DefinitionsFinite DEF SoundReport
  <2>3. StatusInv'
    BY <1>2, <2>2 DEF StatusInv, SoundReport
  <2> QED
    BY <2>1, <2>3 DEF TargetInv, NativesInv, BridgeInv
<1> QED
  BY <1>1, <1>2 DEF RefreshBegin

LEMMA ResolveTargetStep == TargetInv /\ ResolveTarget => TargetInv'
<1> SUFFICES ASSUME TargetInv, ResolveTarget PROVE TargetInv'
  OBVIOUS
<1> DEFINE n == Len(m_status.report) + 1
<1>1. CASE Ends("Failed", m_status.build)
  BY <1>1, EndsStep DEF ResolveTarget
<1>2. ASSUME NEW outcome \in Outcomes(Definitions[n]),
             m_status' = [m_status EXCEPT !.report = Append(@, outcome)],
             UNCHANGED phase
      PROVE  TargetInv'
  <2>1. /\ m_status = [state |-> m_status.state, build |-> m_status.build,
                       report |-> m_status.report, profile |-> m_status.profile]
        /\ m_status.build = SupportedFingerprint /\ m_status.profile = NoProfile
        /\ m_status.state # "Supported"
        /\ SoundReport(m_status.report)
        /\ phase = "targets" /\ n <= Len(Definitions)
    BY DEF TargetInv, StatusInv, ResolveTarget
  <2>2. m_status' = [state |-> m_status.state, build |-> m_status.build,
                     report |-> Append(m_status.report, outcome),
                     profile |-> m_status.profile]
    BY <1>2, <2>1
  <2>3. SoundReport(Append(m_status.report, outcome))
    BY <2>1, OutcomesSound, DefinitionsFinite DEF SoundReport
  <2>4. StatusInv'
    <3>1. /\ m_status' = [state |-> m_status'.state, build |-> m_status'.build,
                          report |-> m_status'.report, profile |-> m_status'.profile]
          /\ m_status'.build = SupportedFingerprint /\ m_status'.profile = NoProfile
          /\ m_status'.state # "Supported"
          /\ m_status'.report = Append(m_status.report, outcome)
      BY <2>1, <2>2
    <3>2. SoundReport(m_status.report)'
      BY <2>3, <3>1 DEF SoundReport
    <3> QED
      BY <1>2, <2>1, <3>1, <3>2 DEF StatusInv
  <2>5. m_natives' = NoNatives /\ m_bridge' = NotInstalled
    BY <2>1 DEF ResolveTarget, TargetInv, NativesInv, BridgeInv
  <2> QED
    BY <2>4, <2>5 DEF TargetInv, NativesInv, BridgeInv
<1> QED
  BY <1>1, <1>2 DEF ResolveTarget

LEMMA RefreshEndStep == TargetInv /\ RefreshEnd => TargetInv'
<1> SUFFICES ASSUME TargetInv, RefreshEnd PROVE TargetInv'
  OBVIOUS
<1> DEFINE applied == ApplyTargetStatuses(m_status.report)
<1>1. /\ m_status = [state |-> m_status.state, build |-> m_status.build,
                     report |-> m_status.report, profile |-> m_status.profile]
      /\ m_status.build = SupportedFingerprint
      /\ SoundReport(m_status.report)
      /\ phase = "targets" /\ Len(m_status.report) = Len(Definitions)
  BY DEF TargetInv, StatusInv, RefreshEnd
<1>2. m_status' = [state |-> IF applied.verification = "Supported" THEN "Supported"
                             ELSE "RuntimeUnverified",
                   build |-> m_status.build, report |-> m_status.report,
                   profile |-> applied] /\ phase' = "natives"
  BY <1>1 DEF RefreshEnd
<1> HIDE DEF applied
<1>3. StatusInv'
  BY <1>1, <1>2 DEF StatusInv, SoundReport
<1>4. m_natives' = NoNatives /\ m_bridge' = NotInstalled
  BY <1>1 DEF RefreshEnd, TargetInv, NativesInv, BridgeInv
<1> QED
  BY <1>3, <1>4 DEF TargetInv, NativesInv, BridgeInv

\* Outside a Refresh the status stays.
LEMMA StatusStays ==
    ASSUME StatusInv, phase # "targets", phase' # "targets", UNCHANGED m_status
    PROVE  StatusInv'
BY DEF StatusInv, SoundReport

LEMMA NativeManagerStep == TargetInv /\ InitializeNativeManager => TargetInv'
<1> SUFFICES ASSUME TargetInv, InitializeNativeManager PROVE TargetInv'
  OBVIOUS
<1>1. StatusInv'
  BY StatusStays DEF TargetInv, InitializeNativeManager
<1>2. NativesInv'
  BY DEF TargetInv, NativesInv, InitializeNativeManager
<1>3. BridgeInv'
  BY DEF TargetInv, BridgeInv, InitializeNativeManager
<1> QED
  BY <1>1, <1>2, <1>3 DEF TargetInv

LEMMA BridgeStep == TargetInv /\ InitializeGameThreadBridge => TargetInv'
<1> SUFFICES ASSUME TargetInv, InitializeGameThreadBridge PROVE TargetInv'
  OBVIOUS
<1>1. StatusInv'
  BY StatusStays DEF TargetInv, InitializeGameThreadBridge
<1>2. NativesInv'
  BY DEF TargetInv, NativesInv, InitializeGameThreadBridge
<1>3. CASE m_bridge' = NotInstalled
  BY <1>1, <1>2, <1>3 DEF TargetInv, BridgeInv
<1>4. CASE m_bridge' # NotInstalled
  <2>1. m_bridge = NotInstalled /\ phase = "bridge" /\ phase' = "running" /\ UNCHANGED m_status
    BY DEF TargetInv, BridgeInv, InitializeGameThreadBridge
  <2>2. /\ m_natives # NoNatives /\ UNCHANGED m_natives
        /\ Validated("RunScriptThreads", "address") # "none"
        /\ Validated("ScriptThreads", "dispatch") # "none"
        /\ entry = "verified"
        /\ m_bridge' = [original |-> entry,
                        address  |-> Validated("RunScriptThreads", "address"),
                        dispatch |-> Validated("ScriptThreads", "dispatch")]
    BY <1>4, <2>1 DEF InitializeGameThreadBridge, Install
  <2>3. m_natives = [fingerprint |-> m_status.build, handlers |-> Requested]
    BY <2>2 DEF TargetInv, NativesInv
  <2>4. Validated("RunScriptThreads", "address") = "expected"
    <3>1. PICK i \in 1..Len(m_status.report) :
            /\ i \in DOMAIN Definitions
            /\ Definitions[i].id = "RunScriptThreads"
            /\ m_status.report[i].state = "Validated"
            /\ Validated("RunScriptThreads", "address") = m_status.report[i]["address"]
      BY <2>1, <2>2, ValidatedSound DEF TargetInv
    <3>2. SoundReport(m_status.report)
      BY <2>1, <2>2, ValidatedSound DEF TargetInv
    <3> QED
      BY <3>1, <3>2 DEF SoundReport, Sound
  <2>5. /\ m_status.build = SupportedFingerprint
        /\ SoundReport(m_status.report)
    BY <2>1, <2>2, ValidatedSound DEF TargetInv
  <2>6. PICK i \in 1..Len(m_status.report) :
            /\ i \in DOMAIN Definitions
            /\ Definitions[i].id = "ScriptThreads"
            /\ m_status.report[i].state = "Validated"
            /\ Validated("ScriptThreads", "dispatch") = m_status.report[i]["dispatch"]
    BY <2>1, <2>2, ValidatedSound DEF TargetInv
  <2>7. Validated("ScriptThreads", "dispatch") = "expected" /\ m_status.report[i].genuine
    BY <2>5, <2>6 DEF SoundReport, Sound
  <2>8. \A j \in DOMAIN Definitions :
            Definitions[j].id = "ScriptThreads" => m_status.report[j].genuine
    BY <2>6, <2>7, DefinitionsAssumption
  <2>9. HookedIsVerified'
    BY <2>1, <2>2, <2>3, <2>4, <2>5, <2>7, <2>8 DEF HookedIsVerified
  <2> QED
    BY <1>1, <1>2, <2>1, <2>9 DEF TargetInv, BridgeInv
<1> QED
  BY <1>3, <1>4

LEMMA StopStep == TargetInv /\ StopRuntime => TargetInv'
<1> SUFFICES ASSUME TargetInv, StopRuntime PROVE TargetInv'
  OBVIOUS
<1>1. StatusInv'
  BY StatusStays DEF TargetInv, StopRuntime
<1> QED
  BY <1>1 DEF TargetInv, NativesInv, BridgeInv, StopRuntime

\* Another module's patch, and a step that changes nothing.
LEMMA QuietStep ==
    ASSUME TargetInv, UNCHANGED <<phase, m_status, m_natives, m_bridge>>
    PROVE  TargetInv'
BY DEF TargetInv, StatusInv, SoundReport, NativesInv, BridgeInv, HookedIsVerified

LEMMA TargetInvStep == TargetInv /\ [TargetNext]_targetVars => TargetInv'
BY RefreshBeginStep, ResolveTargetStep, RefreshEndStep, NativeManagerStep, BridgeStep,
   StopStep, QuietStep
   DEF TargetNext, OthersPatch, targetVars

\* GTA_Run_Script_Threads_Bridge is installed only on what Refresh and the native manager
\* verified: whatever the targets, the natives and the samples of the game's threads are.
THEOREM HookedIsVerifiedCorrect == TargetSpec => []HookedIsVerified
<1>1. TargetInv => HookedIsVerified
  BY DEF TargetInv, BridgeInv, HookedIsVerified
<1> QED
  BY TargetInvInit, TargetInvStep, <1>1, PTL DEF TargetSpec

-----------------------------------------------------------------------------
(* The profile *)

\* The registered target of a definition has the state that was found for it last.
Merged(targets, states) ==
    /\ DOMAIN targets = DOMAIN Registered
    /\ \A i \in DOMAIN Definitions :
          Definitions[i].id \in DOMAIN Registered =>
              /\ targets[Definitions[i].id].state = states[i]
              /\ targets[Definitions[i].id].required = Definitions[i].required

ProfileInv ==
    /\ Merged(m_profile.targets, found)
    /\ m_profile.verification = RecalculateVerification(m_profile.targets)
    /\ m_status.profile # NoProfile =>
          /\ phase # "targets"
          /\ m_status.profile = m_profile
          /\ \A i \in DOMAIN Definitions : found[i] = m_status.report[i].state
    /\ m_status.state = "Supported" =>
          m_status.profile # NoProfile /\ m_status.profile.verification = "Supported"

\* Two entries of one id are one entry.
LEMMA OneDefinition ==
    ASSUME NEW i \in DOMAIN Definitions, NEW j \in DOMAIN Definitions,
           Definitions[i].id = Definitions[j].id
    PROVE  i = j
BY DefinitionsAssumption

\* A registered target is required when its definition is.
LEMMA SameRequired ==
    ASSUME NEW i \in DOMAIN Definitions, Definitions[i].id \in DOMAIN Registered
    PROVE  Registered[Definitions[i].id] = Definitions[i].required
BY RegisteredAssumption, OneDefinition

\* A complete report leaves nothing of what the profile held.
LEMMA ApplyMerges ==
    ASSUME ProfileInv, NEW report, DOMAIN report = DOMAIN Definitions
    PROVE  Merged(ApplyTargetStatuses(report).targets,
                  [i \in DOMAIN Definitions |-> report[i].state])
<1> DEFINE targets == ApplyTargetStatuses(report).targets
           states  == [i \in DOMAIN Definitions |-> report[i].state]
<1>1. DOMAIN m_profile.targets = DOMAIN Registered
  BY DEF ProfileInv, Merged
<1>2. DOMAIN targets = DOMAIN Registered
  BY <1>1 DEF ApplyTargetStatuses, Profile
<1>3. ASSUME NEW i \in DOMAIN Definitions, Definitions[i].id \in DOMAIN Registered
      PROVE  targets[Definitions[i].id] =
                [state |-> report[i].state, required |-> Definitions[i].required]
  <2>1. Incoming(report, Definitions[i].id) = {i}
    BY OneDefinition DEF Incoming
  <2>2. (CHOOSE k \in {i} : TRUE) = i
    OBVIOUS
  <2> QED
    BY <1>1, <1>3, <2>1, <2>2 DEF ApplyTargetStatuses, Profile
<1>4. \A i \in DOMAIN Definitions : states[i] = report[i].state
  OBVIOUS
<1> HIDE DEF targets, states
<1>5. Merged(targets, states)
  <2> SUFFICES ASSUME NEW i \in DOMAIN Definitions, Definitions[i].id \in DOMAIN Registered
               PROVE  /\ targets[Definitions[i].id].state = states[i]
                      /\ targets[Definitions[i].id].required = Definitions[i].required
    BY <1>2 DEF Merged
  <2>1. targets[Definitions[i].id] =
            [state |-> report[i].state, required |-> Definitions[i].required]
    BY <1>3
  <2> QED
    BY <1>4, <2>1
<1> QED
  BY <1>5 DEF targets, states

\* "Supported" is counted over all required targets.
LEMMA SupportedIsAll ==
    ASSUME NEW targets, DOMAIN targets = DOMAIN Registered,
           RecalculateVerification(targets) = "Supported"
    PROVE  \A id \in DOMAIN Registered : targets[id].required => targets[id].state = "Validated"
<1>1. RequiredTargets(targets) \subseteq DOMAIN Registered
  BY DEF RequiredTargets
<1>2. IsFiniteSet(RequiredTargets(targets))
  BY <1>1, RegisteredAssumption, FS_Subset
<1>3. ValidatedRequired(targets) \subseteq RequiredTargets(targets)
  BY DEF ValidatedRequired
<1>4. Cardinality(ValidatedRequired(targets)) = Cardinality(RequiredTargets(targets))
  BY DEF RecalculateVerification
<1>5. ValidatedRequired(targets) = RequiredTargets(targets)
  BY <1>2, <1>3, <1>4, FS_Subset
<1> QED
  BY <1>5 DEF ValidatedRequired, RequiredTargets

LEMMA ProfileInit == TargetInit => ProfileInv
<1> SUFFICES ASSUME TargetInit PROVE ProfileInv
  OBVIOUS
<1>1. /\ m_profile.targets = [id \in DOMAIN Registered |->
                                [state |-> "Unknown", required |-> Registered[id]]]
      /\ m_profile.verification = RecalculateVerification(m_profile.targets)
      /\ found = [i \in DOMAIN Definitions |-> "Unknown"]
      /\ m_status.profile = NoProfile /\ m_status.state = "NotRunning"
  BY DEF TargetInit, Profile
<1>2. Merged(m_profile.targets, found)
  BY <1>1, SameRequired DEF Merged
<1> QED
  BY <1>1, <1>2 DEF ProfileInv

LEMMA ProfileStep ==
    ASSUME TargetInv, ProfileInv, [TargetNext]_targetVars
    PROVE  ProfileInv'
\* A status without a profile, and the registry as it was.
<1>1. ASSUME UNCHANGED <<m_profile, found>>, m_status'.profile = NoProfile,
             m_status'.state # "Supported"
      PROVE  ProfileInv'
  BY <1>1 DEF ProfileInv
<1>2. ASSUME UNCHANGED <<m_profile, found>>,
             NEW state, NEW build, Ends(state, build), state # "Supported"
      PROVE  ProfileInv'
  BY <1>1, <1>2 DEF Ends
<1>3. CASE RefreshBegin
  BY <1>1, <1>2, <1>3 DEF RefreshBegin
<1>4. CASE ResolveTarget
  <2>1. /\ phase = "targets" /\ m_status.profile = NoProfile /\ m_status.state # "Supported"
        /\ m_status = [state |-> m_status.state, build |-> m_status.build,
                       report |-> m_status.report, profile |-> m_status.profile]
    BY <1>4 DEF ResolveTarget, TargetInv, StatusInv
  <2>2. m_status'.profile = NoProfile /\ m_status'.state # "Supported"
    BY <1>4, <2>1 DEF ResolveTarget, Ends
  <2> QED
    BY <1>1, <1>4, <2>2 DEF ResolveTarget
<1>5. CASE RefreshEnd
  <2> DEFINE applied == ApplyTargetStatuses(m_status.report)
             states  == [i \in DOMAIN Definitions |-> m_status.report[i].state]
  <2>1. /\ m_status = [state |-> m_status.state, build |-> m_status.build,
                       report |-> m_status.report, profile |-> m_status.profile]
        /\ DOMAIN m_status.report = DOMAIN Definitions
    BY <1>5, DefinitionsFinite DEF RefreshEnd, TargetInv, StatusInv, SoundReport
  <2>2. /\ m_status'.state = IF applied.verification = "Supported" THEN "Supported"
                             ELSE "RuntimeUnverified"
        /\ m_status'.report = m_status.report
        /\ m_status'.profile = applied
        /\ m_profile' = applied /\ found' = states /\ phase' = "natives"
    BY <1>5, <2>1 DEF RefreshEnd
  <2>3. Merged(applied.targets, states)
    BY <2>1, ApplyMerges
  <2>4. applied.verification = RecalculateVerification(applied.targets)
    BY DEF ApplyTargetStatuses, Profile
  <2>5. applied # NoProfile
    <3>1. \/ applied.verification \in {"Known", "Supported", "PartiallyVerified"}
          \/ applied.verification = "RuntimeUnverified"
      BY <2>4 DEF RecalculateVerification
    <3> HIDE DEF applied
    <3> QED
      BY <3>1 DEF NoProfile
  <2>6. \A i \in DOMAIN Definitions : states[i] = m_status.report[i].state
    OBVIOUS
  <2> HIDE DEF applied, states
  <2> QED
    BY <2>2, <2>3, <2>4, <2>5, <2>6 DEF ProfileInv, Merged
<1>6. CASE UNCHANGED <<m_status, m_profile, found>> /\ (phase # "targets" => phase' # "targets")
  BY <1>6 DEF ProfileInv
<1> QED
  BY <1>3, <1>4, <1>5, <1>6
     DEF TargetNext, InitializeNativeManager, InitializeGameThreadBridge, StopRuntime,
         OthersPatch, targetVars

\* What GTA_Build_Registry keeps from one Refresh of GTA_Module_Manager to the next never
\* shows in the next one's status, and a Refresh that fails halfway leaves no part of its
\* report in it, for any two registries that know the same targets.
THEOREM ProfileOfOneRefreshCorrect == TargetSpec => []ProfileOfOneRefresh
<1>1. TargetInv /\ ProfileInv /\ [TargetNext]_targetVars => TargetInv' /\ ProfileInv'
  BY TargetInvStep, ProfileStep
<1>2. ProfileInv => ProfileOfOneRefresh
  <2> SUFFICES ASSUME ProfileInv PROVE ProfileOfOneRefresh
    OBVIOUS
  <2>1. ASSUME m_status.state = "Supported", NEW i \in DOMAIN Definitions,
               Definitions[i].id \in DOMAIN Registered, Definitions[i].required
        PROVE  m_status.report[i].state = "Validated"
    <3>1. /\ RecalculateVerification(m_profile.targets) = "Supported"
          /\ found[i] = m_status.report[i].state
          /\ Merged(m_profile.targets, found)
      BY <2>1 DEF ProfileInv
    <3>2. m_profile.targets[Definitions[i].id].state = "Validated"
      BY <2>1, <3>1, SupportedIsAll DEF Merged
    <3> QED
      BY <2>1, <3>1, <3>2 DEF Merged
  <2> QED
    BY <2>1 DEF ProfileInv, Merged, ProfileOfOneRefresh
<1> QED
  BY TargetInvInit, ProfileInit, <1>1, <1>2, PTL DEF TargetSpec
=============================================================================
