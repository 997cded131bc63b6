----------------------- MODULE PatternResolutionProofs ----------------------
(***************************************************************************)
(* Proofs about PatternResolution: its types, and that an address from the *)
(* cache is the one that a search would find.                              *)
(***************************************************************************)
EXTENDS PatternResolution, TLAPS

-----------------------------------------------------------------------------
(* What a line, an entry and a job know *)

Fits(version, k) == code[version][k] \in 0..(Size - 1)

LineTrue(l) == Fits(l.version, l.key) => l.offset = code[l.version][l.key]

EntryTrue(k) ==
    m_entries[k] # None /\ Fits(m_entries[k].version, k) =>
        /\ m_entries[k].offset = code[m_entries[k].version][k]
        /\ \E p \in PlacesOf[ModuleOf[k]] :
              m_entries[k].address = p.base + code[m_entries[k].version][k]

\* Unless a line was cut, lines and entries are true.
TrueInv ==
    ~torn => /\ \A l \in file : LineTrue(l)
             /\ \A c \in Callers : \A l \in lines[c] : LineTrue(l)
             /\ \A k \in Keys : EntryTrue(k)

\* A caller's module is one that was loaded, and its patterns are that module's.
PlaceInv ==
    \A c \in Callers : \E p \in PlacesOf[module[c].name] :
        module[c].base = p.base /\ module[c].version = p.version

RequestInv ==
    \A c \in Callers, k \in Keys :
        k \in requests[c] \/ job[<<c, k>>] # "none" => ModuleOf[k] = module[c].name

IInv == TypeOK /\ TrueInv /\ PlaceInv /\ RequestInv /\ HitIsTrue

-----------------------------------------------------------------------------
(* Operators *)

LEMMA InfoFacts ==
    ASSUME info \in Loadings, NEW m \in Modules
    PROVE  /\ Info(m) \in Infos
           /\ Info(m).name = m
           /\ \E p \in PlacesOf[m] : Info(m).base = p.base /\ Info(m).version = p.version
BY PlacesAssumption DEF Loadings, Info, Infos

LEMMA EntryFacts ==
    ASSUME NEW m \in Infos, NEW address \in Int
    PROVE  /\ Entry(m, address) \in Entries
           /\ Entry(m, address).version = m.version
           /\ Entry(m, address).address = address
           /\ address >= m.base => Entry(m, address).offset = address - m.base
<1>1. m.base \in Nat /\ m.version \in Versions
  BY DEF Infos
<1> QED BY <1>1 DEF Entry, Entries

\* An entry is not the one of an empty place.
LEMMA EntryIsSome == \A e \in Entries : e # None
BY VersionsAssumption DEF Entries, None

LEMMA CutFacts == ASSUME NEW l \in Lines PROVE Cut(l) \subseteq Lines
<1>1. l.offset \in Nat /\ l.offset \div 10 \in Nat
  BY DEF Lines
<1> QED BY <1>1 DEF Cut, Lines

LEMMA TextTypes ==
    ASSUME file \in SUBSET Lines, lines \in [Callers -> SUBSET Lines], NEW text \in Texts
    PROVE  text \in SUBSET Lines
<1>1. PICK c \in Callers : text \in Text(c)
  BY DEF Texts
<1>2. CASE pc[c] # "write"
  BY <1>1, <1>2 DEF Text
<1>3. CASE pc[c] = "write"
  <2>1. \A l \in lines[c] : Cut(l) \subseteq Lines
    BY CutFacts
  <2>2. lines[c] \subseteq Lines
    OBVIOUS
  <2> QED BY <1>1, <1>3, <2>1, <2>2 DEF Text
<1> QED BY <1>2, <1>3

\* A text without a cut line holds lines of the file and of the callers.
LEMMA WholeText ==
    ASSUME NEW text, ~Torn(text), ~torn, TrueInv
    PROVE  \A l \in text : LineTrue(l)
BY DEF Torn, TrueInv

LEMMA ResolvedType ==
    ASSUME TypeOK, NEW c \in Callers, NEW k \in Keys
    PROVE  /\ Resolved(module[c], k) \in Int
           /\ module[c] \in Infos /\ module[c].base \in Nat
           /\ module[c].version \in Versions /\ code[module[c].version][k] \in Int
<1>1. module[c] \in Infos
  BY DEF TypeOK
<1>2. module[c].base \in Nat /\ module[c].version \in Versions
  BY <1>1 DEF Infos
<1>3. code[module[c].version][k] \in Int
  BY <1>2 DEF TypeOK
<1> QED BY <1>1, <1>2, <1>3 DEF Resolved, Target

-----------------------------------------------------------------------------
(* Types *)

LEMMA InitTypes == ASSUME Init PROVE TypeOK
<1>1. code \in [Versions -> [Keys -> Int]]
  BY CodesAssumption DEF Init
<1>2. module \in [Callers -> Infos]
  BY InfoFacts, NamesAssumption DEF Init
<1>3. hit \in [Jobs -> BOOLEAN]
  BY DEF Init
<1>4. info \in Loadings
  BY DEF Init
<1>5. m_entries \in [Keys -> Entries \cup {None}]
  BY DEF Init
<1>6. /\ pc \in [Callers -> CallPCs] /\ job \in [Jobs -> JobPCs]
      /\ requests \in [Callers -> SUBSET Keys] /\ lines \in [Callers -> SUBSET Lines]
      /\ answer \in [Jobs -> Int]
  BY DEF Init, CallPCs, JobPCs
<1>7. file \in SUBSET Lines /\ executor \in {"accepting", "stopping", "destroyed"} /\ torn \in BOOLEAN
  BY DEF Init
<1> QED BY <1>1, <1>2, <1>3, <1>4, <1>5, <1>6, <1>7 DEF TypeOK

LEMMA JobTypes ==
    ASSUME TypeOK, NEW c \in Callers, NEW k \in Keys, Job(c, k)
    PROVE  TypeOK'
<1> USE DEF TypeOK, Goto, callVars, worldVars
<1> <<c, k>> \in Jobs
  BY DEF Jobs
<1>1. CASE StartJob(c, k)
  BY <1>1 DEF StartJob, JobPCs
<1>2. CASE FindHits(c, k)
  <2>1. m_entries[k].version # 0
    BY <1>2, ResolvedType, VersionsAssumption DEF FindHits, Known
  <2>2. m_entries[k] \in Entries
    BY <2>1 DEF None
  <2>3. m_entries[k].address \in Int
    BY <2>2 DEF Entries
  <2> QED BY <1>2, <2>3 DEF FindHits, JobPCs
<1>3. CASE FindMisses(c, k)
  BY <1>3 DEF FindMisses, JobPCs
<1>4. CASE Invalidate(c, k)
  BY <1>4 DEF Invalidate, JobPCs
<1>5. CASE Scan(c, k)
  BY <1>5 DEF Scan, JobPCs
<1>6. CASE Store(c, k)
  <2>1. /\ Entry(module[c], Resolved(module[c], k)) \in Entries
        /\ Resolved(module[c], k) \in Int
    BY ResolvedType, EntryFacts
  <2> QED BY <1>6, <2>1 DEF Store, JobPCs
<1> QED BY <1>1, <1>2, <1>3, <1>4, <1>5, <1>6 DEF Job, Work

LEMMA CallType ==
    ASSUME TypeOK, NEW c \in Callers, NEW m \in Modules, NEW ks \in SUBSET Keys,
           NEW step \in CallPCs, Call(c, m, ks, step)
    PROVE  TypeOK'
<1>1. Info(m) \in Infos
  BY InfoFacts DEF TypeOK
<1>2. hit' \in [Jobs -> BOOLEAN]
  BY DEF TypeOK, Call
<1>3. /\ module' \in [Callers -> Infos] /\ requests' \in [Callers -> SUBSET Keys]
      /\ pc' \in [Callers -> CallPCs]
  BY <1>1 DEF TypeOK, Call
<1>4. job' \in [Jobs -> JobPCs] /\ answer' \in [Jobs -> Int]
  BY DEF TypeOK, Call, JobPCs
<1> QED BY <1>2, <1>3, <1>4 DEF TypeOK, Call, worldVars

LEMMA CallsTypes ==
    ASSUME TypeOK,
           (\E c \in Callers : Calls(c)) \/ Initialize \/ StopService
    PROVE  TypeOK'
<1> USE CallType, NamesAssumption DEF CallPCs, Requests
<1>1. CASE \E c \in Callers : Calls(c)
  BY <1>1 DEF Calls, ResolveMain, ResolveModule
<1>2. CASE Initialize
  BY <1>2 DEF Initialize
<1>3. CASE StopService
  BY <1>3 DEF StopService
<1> QED BY <1>1, <1>2, <1>3

LEMMA InCallTypes ==
    ASSUME TypeOK, NEW c \in Callers, InCall(c)
    PROVE  TypeOK'
<1> USE DEF TypeOK, callVars, jobVars, worldVars
<1>1. CASE Load(c)
  <2>1. PICK text \in Texts :
          /\ torn' = (torn \/ Torn(text))
          /\ \E last \in [Keys -> text \cup {None}] :
                /\ \A k \in Keys : IF Loads(c, k, text) = {} THEN last[k] = None
                                    ELSE last[k] \in Loads(c, k, text)
                /\ m_entries' = [k \in Keys |->
                      IF Loads(c, k, text) = {} THEN m_entries[k]
                      ELSE Entry(module[c], module[c].base + last[k].offset)]
    BY <1>1 DEF Load
  <2>2. PICK last \in [Keys -> text \cup {None}] :
          /\ \A k \in Keys : IF Loads(c, k, text) = {} THEN last[k] = None
                              ELSE last[k] \in Loads(c, k, text)
          /\ m_entries' = [k \in Keys |->
                IF Loads(c, k, text) = {} THEN m_entries[k]
                ELSE Entry(module[c], module[c].base + last[k].offset)]
    BY <2>1
  <2>3. text \in SUBSET Lines
    BY TextTypes
  <2>4. ASSUME NEW k \in Keys, Loads(c, k, text) # {}
        PROVE  Entry(module[c], module[c].base + last[k].offset) \in Entries
    <3>1. last[k] \in Lines
      BY <2>2, <2>3, <2>4 DEF Loads
    <3>2. module[c].base + last[k].offset \in Int
      BY <3>1, ResolvedType, <2>4 DEF Lines
    <3> QED BY <3>2, EntryFacts, ResolvedType
  <2>5. m_entries' \in [Keys -> Entries \cup {None}]
    BY <2>2, <2>4
  <2>6. torn' \in BOOLEAN
    BY <2>1 DEF Torn
  <2> QED BY <1>1, <2>5, <2>6 DEF Load, CallPCs
<1>2. CASE \E k \in Keys : Submit(c, k)
  BY <1>2 DEF Submit, Goto, Jobs, JobPCs
<1>3. CASE Submitted(c) \/ SubmitThrows(c)
  BY <1>3 DEF Submitted, SubmitThrows, Return, CallPCs
<1>4. CASE WaitFails(c)
  BY <1>4 DEF WaitFails, Return, CallPCs
<1>5. CASE WaitDone(c)
  BY <1>5 DEF WaitDone, CallPCs
<1>6. CASE Snapshot(c)
  <2>1. \A k \in Keys : m_entries[k] # None => Line(k) \in Lines
    BY DEF Line, Lines, Entries
  <2> QED BY <1>6, <2>1 DEF Snapshot, CallPCs
<1>7. CASE Open(c)
  BY <1>7 DEF Open, CallPCs
<1>8. CASE OpenFails(c)
  BY <1>8 DEF OpenFails, Return, CallPCs
<1>9. CASE Write(c)
  BY <1>9 DEF Write, Return, CallPCs
<1> QED BY <1>1, <1>2, <1>3, <1>4, <1>5, <1>6, <1>7, <1>8, <1>9 DEF InCall

LEMMA WorldTypes ==
    ASSUME TypeOK, StopExecutor \/ DestroyExecutor \/ NextProcess \/ \E m \in Modules : Reload(m)
    PROVE  TypeOK'
<1> USE DEF TypeOK, callVars, jobVars, worldVars
<1>1. CASE StopExecutor \/ DestroyExecutor
  BY <1>1 DEF StopExecutor, DestroyExecutor, JobPCs
<1>2. CASE NextProcess
  <2>1. (Info(Main) \in Infos)'
    BY <1>2, NamesAssumption, PlacesAssumption DEF NextProcess, Info, Infos, Loadings
  <2>2. file' \in SUBSET Lines
    BY <1>2, TextTypes DEF NextProcess
  <2>3. torn' \in BOOLEAN
    BY <1>2 DEF NextProcess, Torn
  <2> QED BY <1>2, <2>1, <2>2, <2>3 DEF NextProcess, CallPCs, JobPCs
<1>3. CASE \E m \in Modules : Reload(m)
  <2>1. info' \in Loadings
    <3>0. PICK m \in Modules : Reload(m)
      BY <1>3
    <3>1. PICK p \in PlacesOf[m] : info' = [info EXCEPT ![m] = p]
      BY <3>0 DEF Reload
    <3>2. p \in UNION {PlacesOf[n] : n \in Modules}
      OBVIOUS
    <3>3. info \in [Modules -> UNION {PlacesOf[n] : n \in Modules}]
      BY DEF Loadings
    <3>4. \A n \in Modules : info'[n] \in PlacesOf[n]
      BY <3>1, <3>3 DEF Loadings
    <3> QED BY <3>1, <3>2, <3>3, <3>4 DEF Loadings
  <2> QED BY <1>3, <2>1 DEF Reload
<1> QED BY <1>1, <1>2, <1>3

LEMMA NextTypes == ASSUME TypeOK, [Next]_vars PROVE TypeOK'
<1>1. CASE Next
  BY <1>1, JobTypes, CallsTypes, InCallTypes, WorldTypes DEF Next
<1>2. CASE UNCHANGED vars
  BY <1>2 DEF TypeOK, vars, callVars, jobVars, worldVars
<1> QED BY <1>1, <1>2

-----------------------------------------------------------------------------
(* Which modules the callers work with *)

\* What the actions do to modules, requests and jobs: nothing, one job of a caller that
\* had one or asked for it, a call that ends, begins, or the next process.
KeepsCalls ==
    /\ module' = module
    /\ \A c \in Callers : requests'[c] \subseteq requests[c]
    /\ \A c \in Callers, k \in Keys :
          job'[<<c, k>>] # "none" => job[<<c, k>>] # "none" \/ k \in requests[c]

BeginsCall ==
    \E c \in Callers, m \in Modules, ks \in SUBSET Keys, step \in CallPCs :
        /\ Call(c, m, ks, step)
        /\ \A k \in ks : ModuleOf[k] = m

LEMMA CallsBegin ==
    ASSUME (\E c \in Callers : Calls(c)) \/ Initialize \/ StopService
    PROVE  BeginsCall
<1> USE NamesAssumption DEF BeginsCall, CallPCs, Requests
<1>1. CASE \E c \in Callers : Calls(c)
  BY <1>1 DEF Calls, ResolveMain, ResolveModule
<1>2. CASE Initialize
  BY <1>2 DEF Initialize
<1>3. CASE StopService
  BY <1>3 DEF StopService
<1> QED BY <1>1, <1>2, <1>3

LEMMA CallCases ==
    ASSUME TypeOK, [Next]_vars
    PROVE  KeepsCalls \/ BeginsCall \/ NextProcess
<1> USE DEF TypeOK, KeepsCalls, callVars, jobVars, worldVars, Jobs
<1>1. ASSUME NEW c \in Callers, NEW k \in Keys, Job(c, k)
      PROVE  KeepsCalls
  BY <1>1 DEF Job, Work, Goto, StartJob, FindHits, FindMisses, Invalidate, Scan, Store
<1>2. ASSUME NEW c \in Callers, InCall(c)
      PROVE  KeepsCalls
  BY <1>2 DEF InCall, Goto, Load, Submit, SubmitThrows, Submitted, WaitFails, WaitDone, Snapshot,
              Open, OpenFails, Write, Return
<1>3. CASE StopExecutor \/ DestroyExecutor
  BY <1>3 DEF StopExecutor, DestroyExecutor
<1>4. CASE \E m \in Modules : Reload(m)
  BY <1>4 DEF Reload
<1>5. CASE UNCHANGED vars
  BY <1>5 DEF vars
<1> QED BY <1>1, <1>2, <1>3, <1>4, <1>5, CallsBegin DEF Next

LEMMA CallStep ==
    ASSUME TypeOK, PlaceInv, RequestInv, [Next]_vars
    PROVE  PlaceInv' /\ RequestInv'
<1>1. CASE KeepsCalls
  BY <1>1 DEF KeepsCalls, PlaceInv, RequestInv
<1>2. CASE BeginsCall
  <2>1. PICK c \in Callers, m \in Modules, ks \in SUBSET Keys, step \in CallPCs :
          /\ Call(c, m, ks, step)
          /\ \A k \in ks : ModuleOf[k] = m
    BY <1>2 DEF BeginsCall
  <2>2. /\ module' = [module EXCEPT ![c] = Info(m)]
        /\ requests' = [requests EXCEPT ![c] = ks]
        /\ \A k \in Keys : job'[<<c, k>>] = "none"
        /\ \A d \in Callers \ {c}, k \in Keys : job'[<<d, k>>] = job[<<d, k>>]
    BY <2>1 DEF Call, Jobs
  <2>3. /\ Info(m).name = m
        /\ \E p \in PlacesOf[m] : Info(m).base = p.base /\ Info(m).version = p.version
    BY InfoFacts DEF TypeOK
  <2>4. /\ module'[c] = Info(m) /\ requests'[c] = ks
        /\ \A d \in Callers \ {c} : module'[d] = module[d] /\ requests'[d] = requests[d]
    BY <2>2 DEF TypeOK
  <2>5. PlaceInv'
    BY <2>3, <2>4 DEF PlaceInv
  <2>6. RequestInv'
    BY <2>1, <2>2, <2>3, <2>4 DEF RequestInv
  <2> QED BY <2>5, <2>6
<1>3. CASE NextProcess
  <2>1. /\ module' = [c \in Callers |-> Info(Main)']
        /\ requests' = [c \in Callers |-> {}]
        /\ \A c \in Callers, k \in Keys : job'[<<c, k>>] = "none"
        /\ info' \in Loadings
    BY <1>3 DEF NextProcess, Jobs
  <2>2. /\ Info(Main)'.name = Main
        /\ \E p \in PlacesOf[Main] :
              Info(Main)'.base = p.base /\ Info(Main)'.version = p.version
    BY <2>1, NamesAssumption DEF Loadings, Info
  <2> QED BY <2>1, <2>2 DEF PlaceInv, RequestInv
<1> QED BY <1>1, <1>2, <1>3, CallCases

-----------------------------------------------------------------------------
(* Lines and entries *)

\* Whoever stores a true offset from the base of a module that was loaded.
LEMMA StoredIsTrue ==
    ASSUME TypeOK, PlaceInv, NEW c \in Callers, NEW k \in Keys,
           ModuleOf[k] = module[c].name, NEW address \in Int,
           Fits(module[c].version, k) =>
               address = module[c].base + code[module[c].version][k],
           m_entries'[k] = Entry(module[c], address), code' = code
    PROVE  EntryTrue(k)'
<1>1. PICK p \in PlacesOf[module[c].name] :
        module[c].base = p.base /\ module[c].version = p.version
  BY DEF PlaceInv
<1>2. /\ module[c] \in Infos /\ module[c].base \in Nat
      /\ code[module[c].version][k] \in Int
  BY ResolvedType
<1>3. CASE Fits(module[c].version, k)
  <2>1. /\ address = module[c].base + code[module[c].version][k]
        /\ code[module[c].version][k] >= 0
    BY <1>3, SizeAssumption, <1>2 DEF Fits
  <2>2. address >= module[c].base /\ address - module[c].base = code[module[c].version][k]
    BY <2>1, <1>2
  <2>3. /\ m_entries'[k].offset = code[module[c].version][k]
        /\ m_entries'[k].address = p.base + code[module[c].version][k]
        /\ m_entries'[k].version = module[c].version
    BY <1>1, <1>2, <2>1, <2>2, EntryFacts
  <2> QED BY <1>1, <2>3 DEF EntryTrue
<1>4. CASE ~Fits(module[c].version, k)
  <2>1. m_entries'[k].version = module[c].version
    BY <1>2, EntryFacts
  <2> QED BY <1>4, <2>1 DEF EntryTrue, Fits
<1> QED BY <1>3, <1>4

\* An entry that stays, or that goes, is true.
LEMMA KeptIsTrue ==
    ASSUME NEW k \in Keys, code' = code,
           m_entries'[k] = None \/ (m_entries'[k] = m_entries[k] /\ EntryTrue(k))
    PROVE  EntryTrue(k)'
BY DEF EntryTrue, Fits

\* The images do not change, and what was torn remains so.
LEMMA HistoryStep ==
    ASSUME [Next]_vars
    PROVE  code' = code /\ (torn => torn')
<1> USE DEF callVars, jobVars, worldVars
<1> DEFINE Keeps == code' = code /\ torn' = torn
<1> DEFINE Reads == code' = code /\ \E text \in Texts : torn' = (torn \/ Torn(text))
<1>1. ASSUME NEW c \in Callers, NEW k \in Keys, Job(c, k)
      PROVE  Keeps
  BY <1>1 DEF Job, Work, StartJob, FindHits, FindMisses, Invalidate, Scan, Store
<1>2. ASSUME NEW c \in Callers, InCall(c)
      PROVE  Keeps \/ Reads
  BY <1>2 DEF InCall, Load, Submit, SubmitThrows, Submitted, WaitFails, WaitDone, Snapshot, Open,
              OpenFails, Write
<1>3. ASSUME (\E c \in Callers : Calls(c)) \/ Initialize \/ StopService
      PROVE  Keeps
  BY <1>3 DEF Calls, ResolveMain, ResolveModule, Initialize, StopService, Call
<1>4. ASSUME StopExecutor \/ DestroyExecutor \/ (\E m \in Modules : Reload(m)) \/ UNCHANGED vars
      PROVE  Keeps
  BY <1>4 DEF StopExecutor, DestroyExecutor, Reload, vars
<1>5. ASSUME NextProcess
      PROVE  Reads
  BY <1>5 DEF NextProcess
<1>6. Keeps \/ Reads
  <2> HIDE DEF Keeps, Reads
  <2> QED BY <1>1, <1>2, <1>3, <1>4, <1>5 DEF Next
<1>7. CASE Keeps
  BY <1>7, Zenon
<1>8. CASE Reads
  BY <1>8, Zenon
<1> QED BY <1>6, <1>7, <1>8

\* What a search finds is stored, what a line says is loaded.
LEMMA EntriesStep ==
    ASSUME TypeOK, TrueInv, PlaceInv, RequestInv, [Next]_vars, ~torn', NEW n \in Keys
    PROVE  EntryTrue(n)'
<1> USE DEF callVars, jobVars, worldVars
<1>1. ~torn /\ code' = code
  BY HistoryStep
<1>2. EntryTrue(n)
  BY <1>1 DEF TrueInv
<1>3. CASE m_entries' = m_entries
  BY <1>1, <1>2, <1>3, KeptIsTrue
<1>4. ASSUME NEW c \in Callers, NEW k \in Keys, Job(c, k)
      PROVE  EntryTrue(n)'
  <2>1. CASE StartJob(c, k)
    <3>1. m_entries'[n] = None \/ m_entries'[n] = m_entries[n]
      BY <2>1 DEF StartJob
    <3> QED BY <1>1, <1>2, <3>1, KeptIsTrue
  <2>2. CASE Invalidate(c, k)
    <3>1. m_entries'[n] = None \/ m_entries'[n] = m_entries[n]
      BY <2>2 DEF Invalidate, TypeOK
    <3> QED BY <1>1, <1>2, <3>1, KeptIsTrue
  <2>3. CASE Store(c, k)
    <3>1. CASE n = k
      <4>1. m_entries'[k] = Entry(module[c], Resolved(module[c], k))
        BY <2>3 DEF Store, TypeOK
      <4>2. ModuleOf[k] = module[c].name
        BY <2>3 DEF Store, Goto, RequestInv
      <4>3. /\ Resolved(module[c], k) \in Int
            /\ Resolved(module[c], k) = module[c].base + code[module[c].version][k]
        BY ResolvedType DEF Resolved, Target
      <4> QED BY <1>1, <3>1, <4>1, <4>2, <4>3, StoredIsTrue
    <3>2. CASE n # k
      <4>1. m_entries'[n] = m_entries[n]
        BY <2>3, <3>2 DEF Store, TypeOK
      <4> QED BY <1>1, <1>2, <4>1, KeptIsTrue
    <3> QED BY <3>1, <3>2
  <2> QED BY <1>3, <1>4, <2>1, <2>2, <2>3 DEF Job, Work, FindHits, FindMisses, Scan
<1>5. ASSUME NEW c \in Callers, Load(c)
      PROVE  EntryTrue(n)'
  <2>1. PICK text \in Texts :
          /\ torn' = (torn \/ Torn(text))
          /\ \E last \in [Keys -> text \cup {None}] :
                /\ \A k \in Keys : IF Loads(c, k, text) = {} THEN last[k] = None
                                    ELSE last[k] \in Loads(c, k, text)
                /\ m_entries' = [k \in Keys |->
                      IF Loads(c, k, text) = {} THEN m_entries[k]
                      ELSE Entry(module[c], module[c].base + last[k].offset)]
    BY <1>5 DEF Load
  <2>2. PICK last \in [Keys -> text \cup {None}] :
          /\ \A k \in Keys : IF Loads(c, k, text) = {} THEN last[k] = None
                              ELSE last[k] \in Loads(c, k, text)
          /\ m_entries' = [k \in Keys |->
                IF Loads(c, k, text) = {} THEN m_entries[k]
                ELSE Entry(module[c], module[c].base + last[k].offset)]
    BY <2>1
  <2>3. CASE Loads(c, n, text) = {}
    <3>1. m_entries'[n] = m_entries[n]
      BY <2>2, <2>3
    <3> QED BY <1>1, <1>2, <3>1, KeptIsTrue
  <2>4. CASE Loads(c, n, text) # {}
    <3>1. last[n] \in Loads(c, n, text)
      BY <2>2, <2>4
    <3>2. /\ last[n] \in text /\ last[n].key = n /\ last[n].version = module[c].version
          /\ ModuleOf[n] = module[c].name
      BY <3>1 DEF Loads
    <3>3. LineTrue(last[n])
      BY <1>1, <2>1, <3>2, WholeText
    <3>4. last[n].offset \in Nat
      BY <3>2, TextTypes DEF Lines, TypeOK
    <3>5. /\ module[c].base + last[n].offset \in Int
          /\ Fits(module[c].version, n) =>
               module[c].base + last[n].offset
                 = module[c].base + code[module[c].version][n]
      BY <3>2, <3>3, <3>4, ResolvedType DEF LineTrue
    <3>6. m_entries'[n] = Entry(module[c], module[c].base + last[n].offset)
      BY <2>2, <2>4
    <3> QED BY <1>1, <3>2, <3>5, <3>6, StoredIsTrue
  <2> QED BY <2>3, <2>4
<1>6. CASE NextProcess
  <2>1. m_entries'[n] = None
    BY <1>6 DEF NextProcess
  <2> QED BY <1>1, <2>1, KeptIsTrue
<1>7. ASSUME NEW c \in Callers, InCall(c), ~Load(c)
      PROVE  m_entries' = m_entries
  BY <1>7 DEF InCall, Submit, SubmitThrows, Submitted, WaitFails, WaitDone, Snapshot, Open,
              OpenFails, Write
<1>8. ASSUME (\E c \in Callers : Calls(c)) \/ Initialize \/ StopService
      PROVE  m_entries' = m_entries
  BY <1>8 DEF Calls, ResolveMain, ResolveModule, Initialize, StopService, Call
<1>9. ASSUME StopExecutor \/ DestroyExecutor \/ (\E m \in Modules : Reload(m)) \/ UNCHANGED vars
      PROVE  m_entries' = m_entries
  BY <1>9 DEF StopExecutor, DestroyExecutor, Reload, vars
<1> QED BY <1>3, <1>4, <1>5, <1>6, <1>7, <1>8, <1>9 DEF Next

\* The file and the snapshots hold lines that were there, or what the entries say.
LEMMA LinesStep ==
    ASSUME TypeOK, TrueInv, [Next]_vars, ~torn'
    PROVE  /\ \A l \in file' : LineTrue(l)'
           /\ \A c \in Callers : \A l \in lines'[c] : LineTrue(l)'
<1> USE DEF callVars, jobVars, worldVars
<1> DEFINE Old == file \cup UNION {lines[c] : c \in Callers}
<1> DEFINE From(S) == /\ file' \subseteq S
                      /\ \A c \in Callers : lines'[c] \subseteq S
<1>1. ~torn /\ code' = code
  BY HistoryStep
<1>2. \A l \in Old : LineTrue(l)
  BY <1>1 DEF TrueInv
<1>3. \A k \in Keys : m_entries[k] # None => LineTrue(Line(k))
  BY <1>1 DEF TrueInv, EntryTrue, LineTrue, Line, Fits
<1>4. ASSUME NEW c \in Callers, InCall(c)
      PROVE  From(Old \cup {Line(k) : k \in {n \in Keys : m_entries[n] # None}})
  <2>1. CASE Snapshot(c)
    BY <2>1 DEF Snapshot, TypeOK
  <2>2. CASE Open(c)
    BY <2>2 DEF Open
  <2>3. CASE OpenFails(c)
    BY <2>3 DEF OpenFails, Return, TypeOK
  <2>4. CASE Write(c)
    <3>1. PICK kept \in SUBSET file : file' = lines[c] \cup kept
      BY <2>4 DEF Write
    <3>2. file' \subseteq Old
      BY <3>1
    <3>3. \A d \in Callers : lines'[d] \subseteq Old
      BY <2>4 DEF Write, Return, TypeOK
    <3> QED BY <3>2, <3>3
  <2>5. CASE WaitFails(c) \/ SubmitThrows(c)
    BY <2>5 DEF WaitFails, SubmitThrows, Return, TypeOK
  <2>6. CASE Load(c) \/ (\E k \in Keys : Submit(c, k)) \/ Submitted(c) \/ WaitDone(c)
    BY <2>6 DEF Load, Submit, Submitted, WaitDone
  <2> QED BY <1>4, <2>1, <2>2, <2>3, <2>4, <2>5, <2>6 DEF InCall
<1>5. ASSUME NextProcess
      PROVE  From(Old)
  <2>1. ~Torn(file')
    BY <1>5 DEF NextProcess
  <2>2. file' \subseteq Old
    BY <2>1 DEF Torn
  <2>3. \A c \in Callers : lines'[c] = {}
    BY <1>5 DEF NextProcess
  <2> QED BY <2>2, <2>3
<1>6. ASSUME NEW c \in Callers, NEW k \in Keys, Job(c, k)
      PROVE  From(Old)
  BY <1>6 DEF Job, Work, StartJob, FindHits, FindMisses, Invalidate, Scan, Store
<1>7. ASSUME (\E c \in Callers : Calls(c)) \/ Initialize \/ StopService
      PROVE  From(Old)
  BY <1>7 DEF Calls, ResolveMain, ResolveModule, Initialize, StopService, Call
<1>8. ASSUME StopExecutor \/ DestroyExecutor \/ (\E m \in Modules : Reload(m)) \/ UNCHANGED vars
      PROVE  From(Old)
  BY <1>8 DEF StopExecutor, DestroyExecutor, Reload, vars
<1>9. From(Old \cup {Line(k) : k \in {n \in Keys : m_entries[n] # None}})
  BY <1>4, <1>5, <1>6, <1>7, <1>8 DEF Next
<1>10. \A l : LineTrue(l)' <=> LineTrue(l)
  BY <1>1 DEF LineTrue, Fits
<1> HIDE DEF Old
<1> QED BY <1>2, <1>3, <1>9, <1>10

-----------------------------------------------------------------------------
(* Hits *)

\* In its module's range, an address of the module's version comes from the place where
\* the module is: the places do not overlap.
LEMMA UsableIsTrue ==
    ASSUME PlacesApart, TypeOK, PlaceInv, NEW c \in Callers, NEW k \in Keys, EntryTrue(k),
           ModuleOf[k] = module[c].name, Known(c, k), Usable(c, k), Inside(c, k)
    PROVE  m_entries[k].address = Resolved(module[c], k)
<1>1. /\ module[c] \in Infos /\ module[c].base \in Nat
      /\ module[c].version \in Versions /\ code[module[c].version][k] \in Int
  BY ResolvedType
<1>2. m_entries[k] # None /\ Fits(m_entries[k].version, k)
  BY <1>1, VersionsAssumption DEF Known, None, Inside, Fits, Target
<1>3. PICK p \in PlacesOf[module[c].name] :
        m_entries[k].address = p.base + code[module[c].version][k]
  BY <1>2 DEF EntryTrue, Known
<1>4. PICK q \in PlacesOf[module[c].name] : module[c].base = q.base
  BY DEF PlaceInv
<1>5. /\ p.base \in Nat /\ q.base \in Nat
      /\ p.base = q.base \/ p.base + Size <= q.base \/ q.base + Size <= p.base
  BY <1>1, <1>3, <1>4, PlacesAssumption DEF Infos, PlacesApart
<1>6. /\ m_entries[k].address >= q.base /\ m_entries[k].address < q.base + Size
      /\ code[module[c].version][k] >= 0 /\ code[module[c].version][k] < Size
  BY <1>1, <1>4, SizeAssumption DEF Usable, InRange, Inside, Target
<1>7. p.base = q.base
  BY <1>1, <1>3, <1>5, <1>6, SizeAssumption
<1> QED BY <1>3, <1>4, <1>7 DEF Resolved, Target

\* What the actions do to an answer.
LEMMA HitStep ==
    ASSUME PlacesApart, TypeOK, TrueInv, PlaceInv, RequestInv, HitIsTrue, [Next]_vars
    PROVE  HitIsTrue'
<1> USE DEF callVars, jobVars, worldVars
<1> SUFFICES ASSUME NEW d \in Callers, NEW n \in Keys,
                    job'[<<d, n>>] = "found", hit'[<<d, n>>], Inside(d, n)', ~torn'
             PROVE  answer'[<<d, n>>] = Resolved(module[d], n)'
  BY DEF HitIsTrue
<1> DEFINE Same == /\ module'[d] = module[d] /\ job[<<d, n>>] = job'[<<d, n>>]
                   /\ answer'[<<d, n>>] = answer[<<d, n>>]
                   /\ hit'[<<d, n>>] = hit[<<d, n>>]
<1>1. ~torn /\ code' = code
  BY HistoryStep
<1>2. ASSUME Same
      PROVE  answer'[<<d, n>>] = Resolved(module[d], n)'
  <2>1. hit[<<d, n>>] /\ Inside(d, n)
    BY <1>1, <1>2 DEF Inside, Target
  <2>2. answer[<<d, n>>] = Resolved(module[d], n)
    BY <1>1, <1>2, <2>1 DEF HitIsTrue
  <2> QED BY <1>1, <1>2, <2>2 DEF Resolved, Target
<1>3. ASSUME NEW c \in Callers, NEW k \in Keys, Job(c, k)
      PROVE  answer'[<<d, n>>] = Resolved(module[d], n)'
  <2>1. module' = module
    BY <1>3 DEF Job, Work, StartJob, FindHits, FindMisses, Invalidate, Scan, Store
  <2>2. CASE <<d, n>> # <<c, k>>
    BY <1>2, <1>3, <2>1, <2>2 DEF Job, Work, Goto, StartJob, FindHits, FindMisses, Invalidate,
                                  Scan, Store, TypeOK, Jobs
  <2>3. CASE d = c /\ n = k /\ FindHits(c, k)
    <3>1. ModuleOf[k] = module[c].name
      BY <2>3 DEF FindHits, Goto, RequestInv
    <3>2. Inside(c, k)
      BY <1>1, <2>1, <2>3 DEF Inside, Target
    <3>3. EntryTrue(k)
      BY <1>1 DEF TrueInv
    <3>4. m_entries[k].address = Resolved(module[c], k)
      BY <2>3, <3>1, <3>2, <3>3, UsableIsTrue DEF FindHits
    <3>5. answer'[<<c, k>>] = m_entries[k].address
      BY <2>3 DEF FindHits, TypeOK, Jobs
    <3> QED BY <1>1, <2>1, <2>3, <3>4, <3>5 DEF Resolved, Target
  <2>4. CASE d = c /\ n = k /\ Store(c, k)
    BY <2>4 DEF Store, TypeOK, Jobs
  <2>5. CASE d = c /\ n = k /\ ~FindHits(c, k) /\ ~Store(c, k)
    BY <1>3, <2>5 DEF Job, Work, Goto, StartJob, FindMisses, Invalidate, Scan, TypeOK, Jobs
  <2> QED BY <1>3, <2>2, <2>3, <2>4, <2>5
<1>4. ASSUME NEW c \in Callers, InCall(c)
      PROVE  Same
  <2>1. CASE \E k \in Keys : Submit(c, k)
    BY <2>1 DEF Submit, Goto, TypeOK, Jobs
  <2> QED BY <1>4, <2>1 DEF InCall, Load, SubmitThrows, Submitted, WaitFails, WaitDone, Snapshot,
                            Open, OpenFails, Write, Return
<1>5. CASE BeginsCall
  <2>1. PICK c \in Callers, m \in Modules, ks \in SUBSET Keys, step \in CallPCs :
          Call(c, m, ks, step)
    BY <1>5 DEF BeginsCall
  <2>2. d # c
    BY <2>1 DEF Call, Jobs
  <2>3. Same
    BY <2>1, <2>2 DEF Call, TypeOK, Jobs
  <2> QED BY <1>2, <2>3
<1>6. CASE NextProcess
  BY <1>6 DEF NextProcess, Jobs
<1>7. ASSUME StopExecutor \/ DestroyExecutor \/ (\E m \in Modules : Reload(m)) \/ UNCHANGED vars
      PROVE  Same
  <2>1. module' = module /\ answer' = answer /\ hit' = hit
    BY <1>7 DEF StopExecutor, DestroyExecutor, Reload, vars
  <2>2. job[<<d, n>>] = job'[<<d, n>>]
    <3>1. CASE StopExecutor \/ DestroyExecutor
      BY <3>1 DEF StopExecutor, DestroyExecutor, Jobs
    <3>2. CASE (\E m \in Modules : Reload(m)) \/ UNCHANGED vars
      BY <3>2 DEF Reload, vars
    <3> QED BY <1>7, <3>1, <3>2
  <2> QED BY <2>1, <2>2
<1> HIDE DEF Same
<1> QED BY <1>2, <1>3, <1>4, <1>5, <1>6, <1>7, CallsBegin DEF Next

-----------------------------------------------------------------------------
(* The theorems *)

LEMMA InitInv == ASSUME Init PROVE IInv
<1>1. PlaceInv
  BY InfoFacts, NamesAssumption DEF Init, PlaceInv
<1>2. TrueInv
  BY DEF Init, TrueInv, EntryTrue
<1>3. RequestInv /\ HitIsTrue
  BY DEF Init, RequestInv, HitIsTrue, Jobs
<1> QED BY <1>1, <1>2, <1>3, InitTypes DEF IInv

LEMMA NextInv == ASSUME PlacesApart, IInv, [Next]_vars PROVE IInv'
<1> USE DEF IInv
<1>1. TypeOK'
  BY NextTypes
<1>2. PlaceInv' /\ RequestInv'
  BY CallStep
<1>3. TrueInv'
  BY EntriesStep, LinesStep DEF TrueInv
<1>4. HitIsTrue'
  BY HitStep
<1> QED BY <1>1, <1>2, <1>3, <1>4

\* Every field, entry and line keeps its type.
THEOREM TypeCorrect == Spec => []TypeOK
<1>1. Init => TypeOK
  BY InitTypes
<1>2. TypeOK /\ [Next]_vars => TypeOK'
  BY NextTypes
<1> QED BY <1>1, <1>2, PTL DEF Spec

\* What the proofs know of every state of Pattern_Manager, its cache and the file.
THEOREM Correct == ASSUME PlacesApart PROVE Spec => []IInv
<1>1. Init => IInv
  BY InitInv
<1>2. IInv /\ [Next]_vars => IInv'
  BY NextInv
<1> QED BY <1>1, <1>2, PTL DEF Spec

\* ResolveOne answers from the cache what its search would answer, for any number of
\* callers, patterns, modules, versions, places, reloads and processes.
THEOREM HitIsTrueCorrect == ASSUME PlacesApart PROVE Spec => []HitIsTrue
<1>1. IInv => HitIsTrue
  BY DEF IInv
<1> QED BY <1>1, Correct, PTL
=============================================================================
