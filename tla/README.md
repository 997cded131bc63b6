# Devilz_Den: formal models and proofs

Devilz_Den is a Windows DLL, in C++20, that runs inside a game's process: a
runtime of backend services (logging, executors, files, pattern resolution) and
an integration that finds the game's code, hooks its script update and calls one
of its native functions. This directory models the parts of it whose state is
shared between threads or lives across calls, checks the models with TLC and
proves the main results with TLAPS for any number of threads, records, tasks,
files, builds and natives.

Every definition of a model is translated from the code; `PROJECT.json` maps it
to its lines. Paths below are relative to the repository (`src/src/...` in
`PROJECT.json`).

## 1. The system

| component | state | operations | who calls it |
|---|---|---|---|
| `DLL_Bootstrap`, `dllmain` | `g_stopRequested`, `g_running`, the image and its reference count | Attach (creates the bootstrap thread), detach, RequestUnload | the host (LoadLibrary, FreeLibrary), the loader |
| `Runtime_Manager` | `m_running`, the native manager, the bridge's reference | Start, Stop | the bootstrap thread |
| `GTA_Run_Script_Threads_Bridge` | `s_active`, `m_original`, the trampoline, `m_activeCalls`, `m_installed`, two smoke flags, two pointers | Install, Uninstall, HookThunk | the bootstrap thread; the game's threads, through the patched function |
| `LoggerService`, `Logger_Manager` | queue, mutex, condition variable, worker, sinks | Start, Stop, Log, Flush, Fatal | every thread |
| `QueueExecutor`, `ThreadManager` | queue, mutex, condition variable, workers | Submit, Stop | the runtime, pattern resolution |
| `File_System_Monitor`, its manager, `Folder_System_Module` | running flag, thread, last listing; monitors by name | Add, Start, Remove, StopAll; the service's four | a service owner; callbacks run in the monitors' threads |
| `Pattern_Cache`, `Pattern_Batch_Scanner`, `Pattern_Cache_Persistence`, `Pattern_Manager` | entries by module and name, the file | Resolve, Save, Load, ResolveParallel | services; jobs in the executors |
| `Native_Crossmap`, `Native_Table`, `Native_Cache`, `Native_Invoker`, `Native_Manager`, owned by `GTA_Runtime` | two maps of hashes per build, handlers by hash and by index | Initialize, Shutdown, Register, Translate, Invoke | clients of the runtime, one thread or several |
| `GTA_Native_Manager`, its registry and call frame | handlers of the running build | Initialize, Reset, Find | `Runtime_Manager::Start`; the bridge's smoke |
| target resolution (`GTA_Target_*`, `GTA_Build_Target_*`, `GTA_Address_Resolver`) | the targets of one build | Resolve, probe, validate | `GTA_Module_Manager::Refresh` |
| build detection, `GTA_Module_Manager`, `GTA_Build_Registry` | process, module, build, profile, the last report | Refresh, Snapshot | `Runtime_Manager::Start` |
| script globals, `Script_VM`, `scrProgramTable`, `Script_Runtime_Manager` | blocks of globals, threads, programs | Configure, Resolve, At, Register, Unregister | clients, through `GTA_Runtime` |
| `Memory_Manager` | a record per address, statistics per tag, atomic counters | RegisterAllocation, RegisterDeallocation, Initialize, SetTrackingEnabled | any thread |
| `File_System_Manager`, `Directory_Manager`, `Folder_System_Manager` | the files; folder names | Move, Copy, Write, Append, Create, Ensure, RegisterFolder | everything above |
| `Pattern`, `Pattern_Scanner`, `Module_Manager`, `Process_Memory_Reader`, `Process_Pattern_Scanner` | none between calls | Compile, Inspect, Read, Scan | pattern and target resolution |
| processes, errors, sinks, hook types | none to speak of | Win32 calls, value types | everything above |

How they interact. `DllMain` creates the bootstrap thread and returns. That thread
starts the runtime (logger, executors, refresh, native manager, bridge), polls
`g_stopRequested`, stops the runtime in the reverse order and gives the image up
with `FreeLibraryAndExitThread`. Meanwhile the game's threads run through the
bridge's thunk at any time, executors run tasks that log, and whoever logs
shares the logger's mutex with its worker. All this is shared memory under a few
atomics and mutexes; nothing is persisted except the pattern cache.

What is hard about it: a thread that is between two loads while another one tears
down what it is about to use (bridge, monitors); wakeups and drains against Stop
(logger, executors); an order of shutdown that has to fit what any failure during
startup left behind (runtime); and a world that changes while it is being read
(directory). `PROJECT.json` lists each such place as a hazard with its line.

What makes each component correct, in one sentence:

- bridge: no thread is inside the smoke when the native manager goes, no call of
  the game is swallowed before the teardown, and the smoke's claim is never lost;
- lifecycle: whatever fails and whenever the stop request comes, everything that was
  started is stopped before the image goes, users before what they use, unless Stop
  itself throws;
- logger: accepted records come out once, in order, also those that race with Stop;
- executor: an accepted task runs once or is dropped with the executor, and Stop
  leaves nothing that runs;
- monitors: the events make sense to whoever follows them, the running flag tells
  the truth unless Start threw, Stop leaves nothing that calls back;
- pattern cache: an address it answers is one that was resolved in the module as
  it is now;
- natives: a handler that is invoked is the one registered for that hash in this build;
- script globals: an index lies in one block, and offsets do not leave it unnoticed;
- target resolution: the hook is put only on what was verified from end to end, and
  the profile, which outlives a Refresh, never mixes what two of them found;
- memory books: records, counters and tags agree whenever the lock is free;
- files: what is moved or copied stays where it was until the call reports success;
- pattern scan: exactly the matches, in order, that the range holds.

## 2. Modules

| module | models | abstract specification | proofs |
|---|---|---|---|
| `ScriptThreadsBridge` | the bridge: one controller thread, `GameThreads` in the thunk | `InvocationGate` | `ScriptThreadsBridgeProofs` |
| `RuntimeLifecycle` (extends `ScriptThreadsBridge`) | host, loader, bootstrap thread, Start and Stop, two executors with one task each | | `RuntimeLifecycleProofs` |
| `LoggerService` | worker, one control thread, `Producers` | `LogChannel` | `LoggerServiceProofs` |
| `QueueExecutor` | `Workers`, `Submitters`, the owner | `TaskPool` | `QueueExecutorProofs` |
| `FileSystemMonitor` | monitors, their manager and the service, the directory | | `FileSystemMonitorProofs` |
| `PatternResolution` | `Callers` of the pattern manager, a job per caller and pattern, the cache, its file, reloads and restarts | | `PatternResolutionProofs` |
| `ScriptRuntime` | script globals, programs and threads, and their manager | | in `GTAProofs` |
| `GTARuntime` (extends `ScriptRuntime`) | `GTA_Runtime`: crossmap, native manager, tables, cache, `Callers` of the invoker | | `GTAProofs` |
| `TargetResolution` | Refresh, resolver, validators, native bootstrap and bridge as one pipeline of `Runtime_Manager::Start` | | `GTAProofs` |
| `MemoryAccounting` | `Memory_Manager` with `Clients` | | `ServicesProofs` |
| `FileOperations` | file operations, call by call, and folders | | `ServicesProofs` |
| `PatternScan` | one scan: compile, bound, read, search | | `ServicesProofs` |
| `MCServices` | the six above, side by side | | |

The other `MC*` modules only name the sets that TLC uses. `MCServices` puts six
modules that share no state into one specification: `acting`, chosen at first and
never changed, says whose clients are at work. Its behaviours are those of one
component while the rest keeps its first state, so that its states are the sum and
not the product of the six, and a property of one module is checked on all
behaviours of that module.

**How the state corresponds.** Fields keep their names (`m_activeCalls`,
`s_active`, `m_accepting`, ...). A program counter (`pc`, `ctl`, `boot`,
`worker`, `control`, `owner`, `thread`) says between which two shared accesses a
thread is; an action is what a thread does from one shared access, or one
release of a mutex, to the next. Variables without a counterpart are history
(`smokes`, `accepted`, `taken`, `told`) or belong to the world outside (`target`,
`image`, `loads`, `sink`, `dir`).

- *Bridge.* `Install*` and `Uninstall*` are the statements of the two functions
  that other threads can tell apart, `Call` ... `ThunkReturns` those of
  `HookThunk`, `OnRunScriptThreads` and `TryNativeSmoke`. `WriteExecutableBytes`
  has its three outcomes: written, refused, written with the page protection not
  restored (it returns false then). The jump is written in one step. Install's
  preconditions and the search for a script thread are choices between their
  outcomes. `m_activeCalls` has a width, `MaxCount`.
- *Lifecycle.* `boot` walks through `StartSteps` and `StopSteps`, which are the
  statements of `Runtime_Manager::Start` and `Stop` in order; `StartThrows` may
  happen at each step in the `try` block, and `StopThrows` at the two of Stop that log
  and flush, after which `Stop` of the logger is skipped, as the handler has it. The
  bridge's controller actions are taken only by the bootstrap thread (`InBridge`), and
  `ResetNatives` has no guard but its place in Stop: a wrong order would reset the
  manager under a thread that uses it. (`StopResetsNatives` is the same call in
  `ScriptThreadsBridge`, which has no Stop around it.) `failures` is history: that a write
  of the bridge was refused, that Stop threw.
- *Logger.* The mutex is a variable because `Dispatch` and `Flush` hold it over
  sink I/O. A waiting worker leaves `"waiting"` by a notification, by its stop
  token or spuriously, and tests its predicate again. A record is its sequence
  number, its producer and whether `Fatal` made it.
- *Executor.* Critical sections without waiting inside are one step. Each worker
  has its own stop token, as each `jthread` has; `token` is set one after the other.
- *Monitors.* A listing is read file by file while the directory changes. A worker
  sends its events one by one. `Start`, inside the manager's lock, reads a listing
  and assigns the thread; both may throw (`StartThrows`), which leaves `m_running` set and
  no thread. `threw` is history of that, until the monitor's next Stop.
  `Stop` exchanges the flag, requests the stop and joins.
  A file whose time cannot be read although it exists is not modelled, neither
  are directories below the root; all monitors share one directory.

- *Patterns.* `info` says where each module is loaded, and in which version (its
  fingerprint); `code` says where, from the base, each version has the address of a
  pattern after the transform. A caller copies the `Module_Info` and each job uses that
  copy (`module`). A job's steps are those of `ResolveOne` between two uses of the
  cache's mutex; a validator may refuse any address. A save takes its snapshot, opens
  the file, which truncates it, and writes; until then another caller's load, and the
  next process, see some of the lines, the last of which may be cut. `StopExecutor` and
  `DestroyExecutor` are `ThreadManager::Stop` with the queue's destruction. A module
  is unloaded only while nobody searches in it. `ThreadManager::Start` after a Stop in
  the same process is not modelled, and Stop is one thread's.

- *Scripts.* Blocks are records, indices wrap at `IndexRange` as `uint32_t` does at
  2^32 (`Plus`). `Configure` refuses, sorts (in any order that `std::sort`
  may leave) and replaces as the code does; a failed one changes nothing. Programs and threads are pointers with the key under which the
  maps hold them.
- *Natives.* A crossmap file is a list of lines; `LoadText` takes those of the build
  up to the first that `Add` refuses, as `AddBatch` does. `Invoke`, `FindInTable`,
  `CacheResolved` and `InvokeResolved` are the invoker between two locks; each
  translates the hash anew, as the code does. The runtime's own calls do not overlap
  invocations (`Quiet`): `m_ready`, `m_build` and the handlers by index have no lock,
  so that an overlap is a data race, which the code leaves to its clients. `registered`
  is history.
- *Targets.* `RefreshBegin`, a `ResolveTarget` per definition and `RefreshEnd` are
  `GTA_Module_Manager::Refresh`; `InitializeNativeManager`,
  `InitializeGameThreadBridge` and `StopRuntime` are the runtime's next steps. What
  the process's memory says is a choice of all its outcomes: a region of any kind, a
  sample with any number of slots of each kind, bytes that were read or not. The
  validators are the operators `Semantic*` and `Structural*`, applied to each of
  them. `entry` is what the function begins with; other modules may patch it at any
  time. An address is the build's own or another. `m_profile` is the registry's profile:
  it has a state for each target it knows, by id, and `ApplyTargetStatuses` replaces those
  that the report tells of and keeps the others. `found` is history: the states in the
  last report that was applied.
- *Memory.* What precedes the mutex (the test of tracking, the id) is one step, what
  is under it another. The atomics, the tags and the records are separate variables.
- *Files.* Each call of the file system is a step with its failures; a copy or a
  write may end torn. One client, one volume; source and destination may be one path.
- *Scan.* `Compile` computes the anchor by a fold over the tokens, `ReadRegion` copies
  one region of the other process after the other, `Scan` tests one candidate.

The definitions marked "Mutant" in the modules are what-if variants of the action
next to them. No specification uses them; they stand for plausible mistakes, and
for each checked property one of them, put in place of its original, makes TLC
find a violation. `PROJECT.json` pairs them.

## 3. Runs

| run | instance | distinct states |
|---|---|---|
| `ScriptThreadsBridge` | 2 game threads, all write outcomes | 9,764 |
| `RuntimeLifecycle` | 1 game thread, all write outcomes, 2 loads, a throw anywhere in Start and in Stop's logging | 54,202 |
| `LoggerService` | 2 producers, 2 records, 2 starts | 54,009 |
| `QueueExecutor` | 2 workers, 2 submitters, 2 tasks | 21,967 |
| `FileSystemMonitor` | 1 owner, 1 monitor, 2 files, 2 changes, 1 failed listing or start that throws | 229,395 |
| `PatternResolution` | 2 callers, 1 pattern of a library with 2 places, 1 reload or restart | 117,426 |
| `PatternResolutionRestart` | 1 caller, 2 patterns in 2 modules, 2 versions, 2 reloads or restarts | 536,070 |
| `Services` | see below | 474,060 |

and four runs in which the code does not do what a text of the repository says:

| run | what it shows |
|---|---|
| `ScriptThreadsBridgeFailedInstall` | an Install that "failed closed" may leave its jump in the game's code |
| `ScriptThreadsBridgeTrampoline` | a thread between the thunk's loads and its increment runs in the freed trampoline |
| `LoggerServiceFatal` | `Fatal` can return while its record, which `Log` accepted, is still in the queue |
| `FileSystemMonitorDangling` | with two threads, StopAll uses a pointer to a monitor that Remove has destroyed |

**What the passing runs show.**

- `ScriptThreadsBridge`: `Counting` (the drain's counter is exact),
  `SmokeProtected` (nobody in the smoke loses what it uses), `ClaimHasHolder`,
  `AtMostOncePerThread`, `NoCallDropped` (the order of publishing, patching,
  restoring and unpublishing), `ImplementsGate`, and `UninstallCompletes`.
- `RuntimeLifecycle`: `LoggerOutlivesItsUsers`, `NothingLeftBehind` (an
  exception at any step of Start included; a throw of Stop's own logging leaves the
  logger, a refused write the jump, and nothing else is left), `SmokeProtected` against
  the steps of Stop, and `UnloadCompletes`.
- `LoggerService`: `InOrder`, `ProducerOrder`, `StoppedMeansFlushed`,
  `NoLostWakeup`, `ImplementsChannel`, and `StopReturns` and
  `ImplementsFairChannel` under fairness.
- `QueueExecutor`: `TakenInOrder`, `RunsInOneWorker`, `NoLostWakeup`,
  `StoppedMeansQuiet`, `ImplementsPool`, and `StopReturns` and
  `QueuedTaskEnds` under fairness.
- `FileSystemMonitor`: `RunningMeansWatched` (a Start that threw is the one
  exception), `EventsMakeSense`, `StoppedServiceWatchesNothing`, `InStep` under fairness.
- `PatternResolution`, `PatternResolutionRestart`: `HitIsTrue` (an address from the
  cache is the one a search would find in the module as the caller has it), against
  jobs and saves of another caller in the one and against two versions, a validator
  and two restarts in the other; `ResolveEnds` under fairness, also when the executor
  stops.

- `Services`: `OneBlockPerIndex` (no two accepted blocks share an index, and no sum
  wraps into another block), `HandlerIsItsOwn` (through crossmap, table and cache),
  `HookedIsVerified` (the pipeline up to the hook), `ProfileOfOneRefresh` (reports
  merged into a profile that Refreshes before have filled, and that a failing one keeps),
  `CountersAgree` (three books of one thing), `MoveKeepsContent` (between any two
  paths, except an overwriting move of a file to its own path), `ScanFindsMatches`
  (the search against its definition).

The instance of `Services`: two builds, a program, a thread, all lists of up to two
blocks over indices of two bits (700 states); two canonical and two runtime hashes,
two handlers, one index, one caller and three crossmap files (122,824): one in which
two builds give two natives the same two hashes the other way round, one with a
collision and a null hash, an empty one; four of the eight targets (the
three that have a semantic validator and one without a pattern), six slots, two natives (95,250); two clients, two addresses, two sizes, two tags (136,516);
two files, two contents, one folder (6,810); patterns of up to three tokens over
every image of four bits with four sections (111,960).

**Bounds, and why they are enough.** Two threads of each kind make every race of
one against another: one in the smoke while another is between the loads; one
producer between queueing and notifying while another queues; two workers at one
queue. Two records or tasks are the fewest that can be reordered. Two starts of
the logger show that a Stop leaves a state that Start can use. Two file changes
are a creation and a removal, or two changes of one file around one listing. One
reload leaves the one kind of stale entry, two let an entry go through the file
and become stale again; an offset of two digits is one that can lose a digit. One
game thread is enough in `RuntimeLifecycle` because its questions are about the
bootstrap thread's order, and the races between game threads are those of
`ScriptThreadsBridge`. Two builds with crossed hashes are what a cache entry of the
wrong build needs, two clients of the memory books one between its test and its
lock while the other registers, replaces or resets. Six slots leave room for four
good objects and two of other kinds; three tokens have a run, a wildcard and another
run. The theorems below have no such bounds.

**Deadlock** is checked except in `LoggerService*` and `QueueExecutor`, where the
bound on records and tasks, the last stop and the destructor end every behaviour.

**Fairness** is weak fairness of each thread's own steps while it is inside a call
or a worker loop: threads are scheduled, the game's function and the tasks return,
sleeps end. Nothing says that the game calls, that somebody logs, submits or
stops, that the directory changes, or that a wakeup comes spuriously. Mutexes
need no strong fairness in these instances because a holder leaves by itself and
the number of contending calls is bounded. `UninstallCompletes` and
`UnloadCompletes` promise an end only if the write that restores the game's
function took place: Uninstall ignores the result of that write, and with the jump
in place the drain loop lasts for as long as new calls keep coming.

## 4. Proofs

The proofs hold for every number of game threads (up to the range of
`m_activeCalls`), producers, records, workers, tasks, monitors, names, files,
builds, hashes, handlers and callers, and for any lists of targets of the two registries
that know the same ones (`RegisteredAssumption`).
The types of every module with proofs are proved as well.

- **Bridge.** `CtlInv` ties each field to the controller's place, and `GateInv`
  says that nobody is past the load of `m_installed` outside installed, restore
  and drain. Neither follows from the properties: the drain's test
  `m_activeCalls = 0` helps only because `Counting` says whom it counts and
  because `m_installed` was cleared before, so that a thread that comes later
  turns back at the gate. `ClaimInv` and `OnceInv` give the smoke's properties.
  With these each step of the bridge is a step of `InvocationGate` or a stutter.
  `OneShotForOneThread` assumes a single game thread; with two the one-shot
  promise of the log line is not kept (section 5).
- **Lifecycle.** `LifeInv` is the order of Start and Stop as an invariant: which parts
  are up at which step, and that what is up too long is so because of a failure that
  `failures` names (`OffInv`, `JumpInv`). Neither it nor `NothingLeftBehindCorrect` and
  `LoggerOutlivesItsUsersCorrect` assume anything about the host. The lemma
  `RuntimeImplementsBridge` says that each step of the runtime is one of the bridge or
  leaves its state: what has to be shown is that `Reset`, which the runtime's model does
  not guard, only happens where Uninstall is over (`BridgeInv`), so that
  `SmokeProtectedInRuntime` follows from the bridge's theorem. Only the types
  (`LifeTypeCorrect`: the reference count does not fall below zero) assume
  `HostLeavesLast`, that the host does not free the last reference of the image while the
  bootstrap thread lives. The run assumes it too: with the assumption dropped the image
  may go at any time, and the code promises nothing then.
- **Logger.** `StopInv` relates the worker's exit to the flag and the queue: the
  worker leaves only with an empty queue after the flag was cleared, which makes
  the last flush complete. `OrderInv` says that the sequence numbers of one
  producer are queued in order although others overtake it.
- **Executor.** `CallsInv` and `QueueInv` make ids and queued tasks unique,
  `RunInv` ties every running task to one worker, `TokenInv` says that a
  requested token has woken its worker.
- **Monitors.** For any number of clients, under `Apart`: no two calls start or stop the same
  monitor at a time. The code does not enforce it (Stop works on `m_worker` without the manager's lock), and
  without it two threads use one `jthread` object; a single client keeps the rule
  (`OneOwnerKeepsRules`). `CallInv` is what a call in
  progress knows of its monitor, `TokenInv` says that a watching thread is asked to
  stop only by a call that waits for it, and `RegInv` that whatever runs is in the map or on the
  list of the Remove that stops it. `ThrewInv` says what a Start that threw leaves: the
  flag, no thread and no call in progress. `ToldInv` computes, from
  the listing and the events still to send, what the listener knows:
  `EventsMakeSense` is a consequence. `StopInv`, that a
  StopAll still has on its list whatever runs, needs `StopAlone` too: nobody starts or
  removes a monitor meanwhile. Only the types are proved without these.
- **Patterns.** `TrueInv`: a line holds its pattern's offset in its version, and an
  entry that and an address which fits some place of its module. `HitIsTrue` needs
  more than that: the entry may be from another place, and it is the range test
  of `ResolveOne` and the assumption `PlacesApart` that exclude it. `PlaceInv` and
  `RequestInv` say that callers and jobs use modules that were loaded and their own
  patterns. The theorem excludes, as the property does, what the code does not
  guard against: a cut line was read, or the address lies outside the image.

- **Natives.** `HandlerIsItsOwn` speaks of the place before the call; what makes it
  inductive says the same of every entry: the two maps of the crossmap agree (this is what `Collision` and the stop at the first
  refused line are for), every cached handler is registered for its hash, and a
  caller with a handler still translates to the hash it was found under, because
  nothing that changes the maps happens while it is on its way. Programs, threads and
  globals, which `RuntimeSpec` may change at any time, do not touch any of it.
- **Script globals.** `Disjoint` is what `Configure` establishes: the blocks are valid, do
  not wrap, and each ends before all later ones begin. `AcceptedDisjoint` shows it of
  every list that the sort may produce, from the test of neighbours alone; the test of
  the range's end is what makes the wrapping sum of that test the true one.
- **Targets.** Two facts carry `HookedIsVerified`: a report's entry with the state
  Validated comes from an outcome whose validator accepted it (`SoundStates` and what
  follows from the outcomes' definitions, by the kind of target), and the bridge's
  fields are read from that report and from the natives of the same Start. For the
  sample that means: a validated sample has at least four decoded slots, all the
  dominant one. `Install` compares the bytes again, which is why patches that come
  and go between probe and Install do no harm. `ProfileOfOneRefresh` rests on
  `ApplyMerges`: a complete report, with one status per target, leaves nothing of what
  the profile held, and on the fact that a Refresh applies its report when all targets
  have been resolved or not at all. `SupportedIsAll` is the count of the required targets
  turned into a statement about each of them.
- **Memory books.** The sum of the sizes is stated as the cardinality of a set, one
  element per byte, so that lemmas about finite sets replace an induction. `CountersAgree`
  needs `RecordInv` beside it: a record stands under its own address and has one of the tags, and so
  has what a client between its test and the lock is about to register. The argument is in `Without` and `Replaced`: taking the old record out of its
  tag and putting the new one in its own changes each sum by exactly the two sizes, also
  if both have one tag or if there is no old record, and the clamp of the subtraction
  is never used because a tag's bytes include those of each of its records.
- **Pattern scan.** `RunInv` says what the compiler's loop has seen: the run at hand
  ends at the token at hand and is free of wildcards. It gives `AnchorInv`, that the anchor's bytes are bytes of the
  pattern, and with it that a search by the anchor passes over no place. `CopyInv`
  says that what was copied is the image up to the copy's place. `FoundInv` counts: what was found
  are the places before the current offset, and fewer than the limit; the limit thus
  cuts off the last ones only.
- **Files.** `MoveKeepsContent` is an action property; `OperationInv` says that between two
  calls the file an operation came from is what it was when the operation began, unless the
  operation is an overwriting move of a file to its own path (`SelfMove`), whose remove
  takes it away.

The remaining assumptions are the named `ASSUME`s of the modules: bounds are
natural numbers; file times, hashes, handlers and sizes are positive (`RegisterAllocation`
returns on size 0, a null hash is refused); an executor has a worker; no more game
threads than `m_activeCalls` can count; target ids differ from each other; an image has two regions
of at least a byte; lists, sections and lines have their types; names of threads
are not numbers of monitors.

`ServicesProofs` and `GTAProofs` hold the proofs of several modules, which share no
state; what they call `MemoryInv`, `ScanInv`, `FileInv`, `RuntimeInv`, `ScriptsInv` and
`TargetInv` are the inductive invariants of one specification each.

Only model-checked: everything under fairness (`UninstallCompletes`,
`UnloadCompletes`, `StopReturns`, `QueuedTaskEnds`, `ImplementsFairChannel`,
`InStep`, `ResolveEnds`), because the prover has neither ENABLED nor fairness.

## 5. Known disagreements that have no run

- `GTA_Run_Script_Threads_Bridge.cpp:178` calls the smoke one-shot. With two game
  threads it can be made twice: `m_smokeCompleted` is read before the claim.
- `Uninstall` (`:189`) ignores the result of the write that restores the function.
- A game thread leaves `m_activeCalls` (`:218`) before it has left the thunk's code,
  which the image's unload takes away.
- `Runtime_Manager.cpp:145`: when `Log` or `Flush` throws inside Stop, the handler
  swallows the exception, `m_logger.Stop()` is skipped, and the bootstrap thread gives the
  image up with the logger's worker still in it (`NothingLeftBehind` allows this case only).
- `File_System_Monitor.cpp:33`: when the listing or the thread's constructor throws in
  Start, `m_running` stays set without a thread: `IsRunning` says true, and a second Start
  returns success and starts nothing, until a Stop.
- `dllmain.cpp:24`: a host that frees the last reference unmaps the image under the
  bootstrap thread.
- `LoggerService.cpp:117` holds the mutex over the sinks' writes, so `Log` may wait
  for I/O (README rule 6).
- `Pattern_Manager.cpp:28` logs "validated pattern cache entries". A line is validated by
  fingerprint and range only: one that lost its last digits passes (without `~torn`,
  TLC finds `HitIsTrue` violated), and one of a pattern that was edited under the same
  name does too. An entry that a reload left is caught by the range test unless the
  two places overlap (without `PlacesApart`, TLC finds it violated as well).
- `Pattern_Manager.cpp:125` and `:98` throw when the executor stops (`future_error`, the
  exception of `Submit`); `ResolveParallel` otherwise reports by `Result`.
- `Directory_Manager.cpp:35`: Ensure asks `is_directory` with an error code, which for a
  missing directory reports an error; Ensure returns it and never gets to Create, and
  `RegisterFolder` with `create` fails after it has registered the name.
- `File_System_Manager.cpp:147`: an overwriting Move removes the destination before the
  rename that may fail, and one of a file to its own path removes the only copy (without
  the exception `SelfMove`, TLC finds `MoveKeepsContent` violated); without
  `overwrite`, rename replaces the destination all the same.
  `WriteText` does not see a failure that comes with the close.
- `Memory_Manager.hpp:150`: MakeUnique registers what nothing deregisters, and Stop then
  warns of "active allocation(s)" that are gone. Ids repeat when Initialize runs
  between a client's increment and its lock; Snapshot reads the counters before it locks.
- `GTA_Runtime.cpp:34`: a re-Initialize that fails keeps the natives of the build before
  ready, and their handlers in the table; invocations succeed with the state Failed.
- `GTA_Build_Target_Registry.cpp`: GameState and FrameCount are required and have no
  pattern, so that the state Supported cannot be reached for the one registered build.
- `GTA_Target_Resolver.cpp:65`: two matches that decode to one address count as two.
- `GTA_Target_Semantic_Validator.hpp:156`: the test of InitNativeTables asks for executable
  memory; its message also claims that it belongs to the image.
- `Script_Global_Manager.cpp:76`: a positive offset wraps at 2^32.
- `Script_VM.cpp:52`, `scrProgramTable`: raw pointers to game objects, which nobody
  withdraws when the game frees them.
- `ThreadManager.cpp:65` drops the exceptions of tasks (README rule 5).

## 6. Not modelled

- Formatting and output (sinks), errors and results, hook types, the console front
  end: value types, pure I/O, or code that nothing uses. The enumeration of processes
  and modules: wrappers of Win32 calls that keep nothing.
- `Native_Crossmap::SaveText` and `InvalidateBuild`, `Native_Cache::Invalidate`,
  `Native_Table::RegisterBatch`, the pointer manager and its validator: no caller.
- `GTA_Native_Call_Context`: a frame of fixed size whose arguments one caller writes and
  one handler reads; that the handler respects it is the game's matter.
- The text of the target evidence, the address arithmetic that decodes a match (its
  result is a choice), and `DetectRunning`, which looks at another process.
- Reads and queries of files and directories; the service states of `Memory_Manager`,
  and `MakeUnique`.
- Clients of `GTA_Runtime` that initialize or shut it down while others invoke: a data
  race on members without a lock.
- A throw of the `jthread` constructors in `LoggerService::Start` and `QueueExecutor`
  within the models of these two (for `Runtime_Manager::Start` it is a step that throws); a
  throw of the `Log` in Start's own handlers, or of a monitor's worker outside the
  scan's result: both end the process.
- The executable bytes themselves, torn instruction fetches, and page protection
  beyond the outcome of a write.
- `Logger_Manager`'s own flag and `LoggerService::Start` racing with Stop, and two
  threads that start and stop one monitor: data races on `jthread` objects that
  one control thread avoids.

## 7. What is left

1. A monitor's callback that calls its manager (a thread that would join itself).
2. The decoding of a match to an address, as arithmetic with 32-bit displacements.
