------------------------ MODULE PatternResolution --------------------------
(***************************************************************************)
(* Pattern_Manager, its Pattern_Cache and the cache's file: calls that     *)
(* resolve patterns in a module, each by one job per pattern in the worker *)
(* executor, while other calls do the same, modules are loaded elsewhere,  *)
(* the executor stops and the process ends.                                *)
(*                                                                         *)
(* Addresses are integers.  A key is a module's name and a pattern's name, *)
(* as StableKey has it; a version stands for a module's fingerprint.       *)
(***************************************************************************)
EXTENDS Integers, FiniteSets

CONSTANTS
    Modules, Main,  \* module names, and the name of the main module
    Keys,           \* the patterns
    ModuleOf,       \* the module in which a pattern is searched
    Versions,       \* fingerprints
    PlacesOf,       \* the bases at which a module may be loaded, in which versions
    Size,           \* the size of an image
    Codes,          \* where, from the base, a version has a pattern's address
    Validated,      \* patterns with a validator, which may refuse any address
    Callers, Owner, \* threads that call the Pattern_Manager; the one that runs the service
    MaxLoadings     \* bound on modules loaded again and on further processes, together

Absent == -1000     \* no match, or an address that cannot be computed

ASSUME NamesAssumption == Main \in Modules /\ ModuleOf \in [Keys -> Modules] /\ Owner \in Callers
ASSUME SizeAssumption == Size \in Nat
ASSUME VersionsAssumption == 0 \notin Versions     \* the version of no entry
ASSUME CodesAssumption == Codes \subseteq [Versions -> [Keys -> Int]]

ASSUME PlacesAssumption ==
    \A m \in Modules : PlacesOf[m] \subseteq [base : Nat, version : Versions]

\* Two places for a module's image do not overlap.  The code depends on it: an address
\* in the range of the module now may be left from a place that overlaps with it.
PlacesApart ==
    \A m \in Modules : \A p, q \in PlacesOf[m] :
        p.base = q.base \/ p.base + Size <= q.base \/ q.base + Size <= p.base

VARIABLES
    code,        \* what the versions hold, in Codes
    info,        \* each module as it is loaded
    file,        \* the lines of the cache's file; empty also without a header
    m_entries,   \* the Pattern_Cache: key to entry
    executor,    \* of the workers: accepting, stopping or destroyed
    pc,          \* where each caller is
    module,      \* the Module_Info that a caller works with
    requests,    \* the patterns that it asked for
    lines,       \* its snapshot of the cache
    job,         \* where the job for a caller's pattern is
    answer,      \* the address that it found
    hit,         \* cacheHit of that answer
    torn,        \* history: the file was read, or left by a process, in the middle of a line
    loadings     \* modules loaded again and further processes

callVars  == <<pc, module, requests, lines>>
jobVars   == <<job, answer, hit>>
worldVars == <<code, info, torn, loadings>>
vars == <<m_entries, callVars, jobVars, worldVars, file, executor>>

Loadings == {f \in [Modules -> UNION {PlacesOf[m] : m \in Modules}] :
                \A m \in Modules : f[m] \in PlacesOf[m]}
Entries == [version : Versions, address : Int, offset : Nat]
None == [version |-> 0, address |-> 0, offset |-> 0]
Lines == [key : Keys, version : Versions, offset : Nat]
Jobs == Callers \X Keys
CallPCs == {"idle", "load", "submit", "wait", "snapshot", "open", "write"}
JobPCs == {"none", "queued", "find", "invalidate", "scan", "store", "found",
           "failed", "broken"}

Infos == [name : Modules, base : Nat, version : Versions]
Info(m) == [name |-> m, base |-> info[m].base, version |-> info[m].version]

Init ==
    /\ code \in Codes
    /\ info \in Loadings
    /\ file = {}
    /\ m_entries = [k \in Keys |-> None]
    /\ executor = "accepting"
    /\ pc = [c \in Callers |-> "idle"]
    /\ module = [c \in Callers |-> Info(Main)]
    /\ requests = [c \in Callers |-> {}]
    /\ lines = [c \in Callers |-> {}]
    /\ job = [j \in Jobs |-> "none"]
    /\ answer = [j \in Jobs |-> 0]
    /\ hit = [j \in Jobs |-> FALSE]
    /\ torn = FALSE
    /\ loadings = 0

-----------------------------------------------------------------------------
(* Addresses *)

InRange(address, m) == address >= m.base /\ address < m.base + Size

\* What a search of the module's sections yields, transformed.
Target(m, k) == code[m.version][k]
Matches(m, k) == Target(m, k) # Absent
Resolved(m, k) == m.base + Target(m, k)

\* Store keeps the address and its distance from the base, 0 for one below it.
Entry(m, address) ==
    [version |-> m.version, address |-> address,
     offset  |-> IF address >= m.base THEN address - m.base ELSE 0]

-----------------------------------------------------------------------------
(* One job: Pattern_Batch_Scanner::ResolveOne *)

Goto(c, k, from, to) == job[<<c, k>>] = from /\ job' = [job EXCEPT ![<<c, k>>] = to]

\* A worker takes the job and drops the module's entries for other versions.
StartJob(c, k) ==
    /\ executor # "destroyed"
    /\ Goto(c, k, "queued", "find")
    /\ m_entries' = [n \in Keys |->
          IF ModuleOf[n] = module[c].name /\ m_entries[n].version # module[c].version
             THEN None ELSE m_entries[n]]
    /\ UNCHANGED <<callVars, answer, hit, worldVars, file, executor>>

\* The cache has an address for this version.
Known(c, k) == m_entries[k].version = module[c].version

\* Mutant: an address from the cache is not compared with the module's range.
UsableAnywhere(c, k) == m_entries[k].address # 0

\* The address is good for the module as the caller has it.
Usable(c, k) == InRange(m_entries[k].address, module[c])

FindHits(c, k) ==
    /\ Known(c, k) /\ Usable(c, k)
    /\ Goto(c, k, "find", "found")
    /\ answer' = [answer EXCEPT ![<<c, k>>] = m_entries[k].address]
    /\ hit' = [hit EXCEPT ![<<c, k>>] = TRUE]
    /\ UNCHANGED <<m_entries, callVars, worldVars, file, executor>>

\* No entry, or one that is of no use, or one that the validator refuses.
FindMisses(c, k) ==
    /\ ~Known(c, k) \/ ~Usable(c, k) \/ k \in Validated
    /\ Goto(c, k, "find", IF Known(c, k) THEN "invalidate" ELSE "scan")
    /\ UNCHANGED <<m_entries, callVars, answer, hit, worldVars, file, executor>>

\* Mutant: the entry that is of no use is not erased, and the lookup is tried again.
InvalidateRetries(c, k) ==
    /\ Goto(c, k, "invalidate", "find")
    /\ UNCHANGED <<m_entries, callVars, answer, hit, worldVars, file, executor>>

Invalidate(c, k) ==
    /\ Goto(c, k, "invalidate", "scan")
    /\ m_entries' = [m_entries EXCEPT ![k] = None]
    /\ UNCHANGED <<callVars, answer, hit, worldVars, file, executor>>

\* The search, the transform of what it found and the validator.
Scan(c, k) ==
    /\ \/ Matches(module[c], k) /\ Goto(c, k, "scan", "store")
       \/ (~Matches(module[c], k) \/ k \in Validated) /\ Goto(c, k, "scan", "failed")
    /\ UNCHANGED <<m_entries, callVars, answer, hit, worldVars, file, executor>>

Store(c, k) ==
    /\ Goto(c, k, "store", "found")
    /\ m_entries' = [m_entries EXCEPT ![k] = Entry(module[c], Resolved(module[c], k))]
    /\ answer' = [answer EXCEPT ![<<c, k>>] = Resolved(module[c], k)]
    /\ hit' = [hit EXCEPT ![<<c, k>>] = FALSE]
    /\ UNCHANGED <<callVars, worldVars, file, executor>>

Work(c, k) ==
    \/ FindHits(c, k) \/ FindMisses(c, k)
    \/ Invalidate(c, k) \/ Scan(c, k) \/ Store(c, k)

Job(c, k) == StartJob(c, k) \/ Work(c, k)

\* ThreadManager::Stop; workers take jobs until they see their tokens.
StopExecutor ==
    /\ executor = "accepting"
    /\ executor' = "stopping"
    /\ UNCHANGED <<m_entries, callVars, jobVars, worldVars, file>>

Joined == \A j \in Jobs : job[j] \notin {"find", "invalidate", "scan", "store"}

\* The workers have gone; jobs that were not taken go with the executor, and their
\* promises with them.
DestroyExecutor ==
    /\ executor = "stopping"
    /\ Joined
    /\ executor' = "destroyed"
    /\ job' = [j \in Jobs |-> IF job[j] = "queued" THEN "broken" ELSE job[j]]
    /\ UNCHANGED <<m_entries, callVars, answer, hit, worldVars, file>>

-----------------------------------------------------------------------------
(* A call of the Pattern_Manager *)

Ended == {"none", "found", "failed", "broken"}

Return(c) ==
    /\ pc' = [pc EXCEPT ![c] = "idle"]
    /\ requests' = [requests EXCEPT ![c] = {}]
    /\ lines' = [lines EXCEPT ![c] = {}]
    /\ UNCHANGED module

\* A call that works with module m, for the patterns ks, and begins at a step.
Call(c, m, ks, step) ==
    /\ pc[c] = "idle"
    /\ \A k \in Keys : job[<<c, k>>] \in Ended
    /\ pc' = [pc EXCEPT ![c] = step]
    /\ module' = [module EXCEPT ![c] = Info(m)]
    /\ requests' = [requests EXCEPT ![c] = ks]
    /\ job' = [j \in Jobs |-> IF j[1] = c THEN "none" ELSE job[j]]
    /\ answer' = [j \in Jobs |-> IF j[1] = c THEN 0 ELSE answer[j]]
    /\ hit' = [j \in Jobs |-> IF j[1] = c THEN FALSE ELSE hit[j]]
    /\ UNCHANGED <<m_entries, lines, worldVars, file, executor>>

Initialize == Call(Owner, Main, {}, "load")

ResolveMain(c, ks) == Call(c, Main, ks, "submit")

ResolveModule(c, m, ks) == Call(c, m, ks, "load")

\* Stop and Shutdown save the cache.
StopService == Call(Owner, Main, {}, "snapshot")

\* A line of two digits without the last one still reads as a line.
Cut(line) ==
    IF line.offset < 10 THEN {} ELSE {[line EXCEPT !.offset = line.offset \div 10]}

\* What there is to read now: while a caller writes, some of its lines, the last cut.
Text(c) ==
    IF pc[c] # "write" THEN {file}
    ELSE (SUBSET lines[c]) \cup
            {whole \cup Cut(last) : whole \in SUBSET lines[c], last \in lines[c]}

Texts == UNION {Text(c) : c \in Callers}
Torn(text) == ~ (text \subseteq (file \cup UNION {lines[c] : c \in Callers}))

\* Mutant: a line's fingerprint is not compared with the module's.
LoadsAnyVersion(c, k, text) ==
    {l \in text : l.key = k /\ ModuleOf[k] = module[c].name /\ l.offset < Size}

\* The lines that LoadForModule takes for a pattern.
Loads(c, k, text) == {l \in text :
    /\ l.key = k /\ ModuleOf[k] = module[c].name
    /\ l.version = module[c].version /\ l.offset < Size}

\* LoadForModule: of the lines for one pattern the last one, which may be any, wins.
Load(c) ==
    /\ pc[c] = "load"
    /\ \E text \in Texts :
          /\ torn' = (torn \/ Torn(text))
          /\ \E last \in [Keys -> text \cup {None}] :
                /\ \A k \in Keys : IF Loads(c, k, text) = {} THEN last[k] = None
                                    ELSE last[k] \in Loads(c, k, text)
                /\ m_entries' = [k \in Keys |->
                      IF Loads(c, k, text) = {} THEN m_entries[k]
                      ELSE Entry(module[c], module[c].base + last[k].offset)]
    /\ pc' = [pc EXCEPT ![c] = IF requests[c] = {} THEN "idle" ELSE "submit"]
    /\ UNCHANGED <<module, requests, lines, jobVars, code, info, loadings, file,
                   executor>>

\* One more job is submitted.
Submit(c, k) ==
    /\ pc[c] = "submit"
    /\ k \in requests[c]
    /\ executor = "accepting"
    /\ Goto(c, k, "none", "queued")
    /\ UNCHANGED <<m_entries, callVars, answer, hit, worldVars, file, executor>>

\* An executor that stops throws, and so does the call; jobs that it has submitted go on.
SubmitThrows(c) ==
    /\ pc[c] = "submit"
    /\ \E k \in requests[c] : job[<<c, k>>] = "none"
    /\ executor # "accepting"
    /\ Return(c)
    /\ UNCHANGED <<m_entries, jobVars, worldVars, file, executor>>

Submitted(c) ==
    /\ pc[c] = "submit"
    /\ \A k \in requests[c] : job[<<c, k>>] # "none"
    /\ pc' = [pc EXCEPT ![c] = "wait"]
    /\ UNCHANGED <<m_entries, module, requests, lines, jobVars, worldVars, file,
                   executor>>

\* The first pattern that failed ends the call, a broken promise by an exception; the
\* jobs of the others go on.  The order in which the call waits for them can be any.
WaitFails(c) ==
    /\ pc[c] = "wait"
    /\ \E k \in requests[c] : job[<<c, k>>] \in {"failed", "broken"}
    /\ Return(c)
    /\ UNCHANGED <<m_entries, jobVars, worldVars, file, executor>>

WaitDone(c) ==
    /\ pc[c] = "wait"
    /\ \A k \in requests[c] : job[<<c, k>>] = "found"
    /\ pc' = [pc EXCEPT ![c] = "snapshot"]
    /\ UNCHANGED <<m_entries, module, requests, lines, jobVars, worldVars, file,
                   executor>>

-----------------------------------------------------------------------------
(* Pattern_Cache_Persistence::Save *)

Line(k) == [key |-> k, version |-> m_entries[k].version, offset |-> m_entries[k].offset]

Snapshot(c) ==
    /\ pc[c] = "snapshot"
    /\ lines' = [lines EXCEPT ![c] = {Line(k) : k \in {n \in Keys : m_entries[n] # None}}]
    /\ pc' = [pc EXCEPT ![c] = "open"]
    /\ UNCHANGED <<m_entries, module, requests, jobVars, worldVars, file, executor>>

\* The file is opened and truncated.
Open(c) ==
    /\ pc[c] = "open"
    /\ file' = {}
    /\ pc' = [pc EXCEPT ![c] = "write"]
    /\ UNCHANGED <<m_entries, module, requests, lines, jobVars, worldVars, executor>>

\* The directory or the file cannot be opened.
OpenFails(c) ==
    /\ pc[c] = "open"
    /\ Return(c)
    /\ UNCHANGED <<m_entries, jobVars, worldVars, file, executor>>

\* The text goes over what another call has written since, whose end may stay.
Write(c) ==
    /\ pc[c] = "write"
    /\ \E kept \in SUBSET file : file' = lines[c] \cup kept
    /\ Return(c)
    /\ UNCHANGED <<m_entries, jobVars, worldVars, executor>>

-----------------------------------------------------------------------------
(* The world *)

\* A module in which nobody searches is unloaded and loaded again, perhaps in another
\* version and elsewhere.
Reload(m) ==
    /\ m # Main
    /\ loadings < MaxLoadings
    /\ loadings' = loadings + 1
    /\ \A c \in Callers : module[c].name = m =>
          pc[c] \notin {"load", "submit"} /\ \A k \in Keys : job[<<c, k>>] \in Ended
    /\ \E p \in PlacesOf[m] \ {info[m]} : info' = [info EXCEPT ![m] = p]
    /\ UNCHANGED <<m_entries, callVars, jobVars, code, torn, file,
                   executor>>

\* The process ends, at any moment, and another one begins with the same file.
NextProcess ==
    /\ loadings < MaxLoadings
    /\ loadings' = loadings + 1
    /\ info' \in Loadings
    /\ m_entries' = [k \in Keys |-> None]
    /\ executor' = "accepting"
    /\ pc' = [c \in Callers |-> "idle"]
    /\ module' = [c \in Callers |-> Info(Main)']
    /\ requests' = [c \in Callers |-> {}]
    /\ lines' = [c \in Callers |-> {}]
    /\ job' = [j \in Jobs |-> "none"]
    /\ answer' = [j \in Jobs |-> 0]
    /\ hit' = [j \in Jobs |-> FALSE]
    /\ file' \in Texts
    /\ torn' = (torn \/ Torn(file'))
    /\ UNCHANGED code

InCall(c) ==
    \/ Load(c) \/ (\E k \in Keys : Submit(c, k)) \/ SubmitThrows(c) \/ Submitted(c)
    \/ WaitFails(c) \/ WaitDone(c)
    \/ Snapshot(c) \/ Open(c) \/ OpenFails(c) \/ Write(c)

\* The patterns of one module, at least one.
Requests(m) == SUBSET {k \in Keys : ModuleOf[k] = m} \ {{}}

Calls(c) ==
    \/ \E ks \in Requests(Main) : ResolveMain(c, ks)
    \/ \E m \in Modules : \E ks \in Requests(m) : ResolveModule(c, m, ks)

Next ==
    \/ \E c \in Callers : Calls(c) \/ InCall(c) \/ \E k \in Keys : Job(c, k)
    \/ Initialize \/ StopService
    \/ StopExecutor \/ DestroyExecutor \/ NextProcess
    \/ \E m \in Modules : Reload(m)

Spec == Init /\ [][Next]_vars

\* Callers and workers are scheduled, a Stop of the executor ends; callers are not
\* workers of the same executor.
FairSpec ==
    /\ Spec
    /\ \A c \in Callers : WF_vars(InCall(c))
    /\ \A c \in Callers, k \in Keys :
          /\ WF_vars(executor = "accepting" /\ StartJob(c, k))
          /\ WF_vars(Work(c, k))
    /\ WF_vars(DestroyExecutor)

-----------------------------------------------------------------------------
(* Properties *)

TypeOK ==
    /\ code \in [Versions -> [Keys -> Int]]
    /\ info \in Loadings
    /\ file \in SUBSET Lines
    /\ m_entries \in [Keys -> Entries \cup {None}]
    /\ executor \in {"accepting", "stopping", "destroyed"}
    /\ pc \in [Callers -> CallPCs]
    /\ module \in [Callers -> Infos]
    /\ requests \in [Callers -> SUBSET Keys]
    /\ lines \in [Callers -> SUBSET Lines]
    /\ job \in [Jobs -> JobPCs]
    /\ answer \in [Jobs -> Int]
    /\ hit \in [Jobs -> BOOLEAN]
    /\ torn \in BOOLEAN

\* The pattern's address is in the image that the caller searches.
Inside(c, k) == Target(module[c], k) \in 0..(Size - 1)

\* An address that comes from the cache is the one that a search would find, whatever
\* module was loaded at the time of the entry, in this process or another.  (Not so when
\* a cut line was read, for a pattern whose address lies below the image, with an offset
\* saved as 0, and without PlacesApart.)
HitIsTrue ==
    \A c \in Callers, k \in Keys :
        job[<<c, k>>] = "found" /\ hit[<<c, k>>] /\ Inside(c, k) /\ ~torn =>
            answer[<<c, k>>] = Resolved(module[c], k)

\* A call that waits for its jobs returns, when the executor stops as well.
ResolveEnds == \A c \in Callers : pc[c] = "wait" ~> pc[c] # "wait"
=============================================================================
