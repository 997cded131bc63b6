-------------------------- MODULE TargetResolution --------------------------
(***************************************************************************)
(* How Runtime_Manager::Start finds the game's functions before it hooks   *)
(* one: GTA_Module_Manager::Refresh with the target resolver and its       *)
(* validators, then the native manager, then the bridge.                   *)
(*                                                                         *)
(* The game runs meanwhile: each target is scanned for and probed in a     *)
(* step of its own.  An address is "expected" when it is the one that the  *)
(* supported build has, "other", or "none".  A read of readable memory may *)
(* still fail.                                                             *)
(***************************************************************************)
EXTENDS Integers, Sequences, FiniteSets

CONSTANTS
    Definitions,  \* the targets of the GTA_Build_Target_Registry that are followed
    Registered,   \* the targets of the GTA_Build_Registry's profile: required or not
    Requested,    \* the natives that the bootstrap asks for
    SlotCount     \* object slots in a sample: 8 in the code

ASSUME SlotCountAssumption == SlotCount \in Nat

VARIABLES
    phase,       \* where Runtime_Manager is
    m_status,    \* of the GTA_Module_Manager
    m_profile,   \* the profile in the GTA_Build_Registry
    found,       \* history: the states in the last report that was applied to it
    m_natives,   \* the GTA_Native_Manager: the fingerprint and the handlers
    entry,       \* the first bytes of the game's RunScriptThreads
    m_bridge     \* what the bridge is installed with

targetVars == <<phase, m_status, m_profile, found, m_natives, entry, m_bridge>>

Target(id, required, kind, pattern) ==
    [id |-> id, required |-> required, kind |-> kind, pattern |-> pattern]

Targets == <<
    Target("GameState",        TRUE,  "Unknown",        FALSE),
    Target("FrameCount",       TRUE,  "Unknown",        FALSE),
    Target("ScriptGlobals",    TRUE,  "DirectData",     TRUE),
    Target("ProgramTable",     TRUE,  "CodeSite",       TRUE),
    Target("ScriptThreads",    TRUE,  "PointerStorage", TRUE),
    Target("RunScriptThreads", FALSE, "CodeSite",       TRUE),
    Target("InitNativeTables", TRUE,  "CodeSite",       TRUE),
    Target("NativeTable",      FALSE, "Unknown",        FALSE)>>

ASSUME DefinitionsAssumption ==
    /\ Definitions \in Seq({Targets[i] : i \in DOMAIN Targets})
    /\ \A i, j \in DOMAIN Definitions : Definitions[i].id = Definitions[j].id => i = j

\* The two registries know the same targets.
ASSUME RegisteredAssumption ==
    /\ IsFiniteSet(DOMAIN Registered)
    /\ \A id \in DOMAIN Registered :
          \E i \in DOMAIN Definitions :
              Definitions[i].id = id /\ Definitions[i].required = Registered[id]

\* A fingerprint is the pair of a time stamp and an image size.
SupportedFingerprint == <<1, 1>>
NoFingerprint == <<0, 0>>
NoReport  == <<"none">>
NoNatives == [fingerprint |-> NoFingerprint, handlers |-> {}]
NotInstalled == [original |-> "none", address |-> "none", dispatch |-> "none"]

Unresolved(state) ==
    [state |-> state, address |-> "none", dispatch |-> "none", genuine |-> FALSE]

-----------------------------------------------------------------------------
(* GTA_Build_Registry: the profile of the build.                           *)

RequiredTargets(targets) == {id \in DOMAIN targets : targets[id].required}
LocatedRequired(targets) ==
    {id \in RequiredTargets(targets) :
        targets[id].state \in {"Located", "StructurallyValidated", "Validated"}}
ValidatedRequired(targets) ==
    {id \in RequiredTargets(targets) : targets[id].state = "Validated"}

RecalculateVerification(targets) ==
    LET required  == Cardinality(RequiredTargets(targets))
        validated == Cardinality(ValidatedRequired(targets))
    IN  IF required = 0 THEN "Known"
        ELSE IF validated = required THEN "Supported"
        ELSE IF LocatedRequired(targets) # {} \/ validated # 0 THEN "PartiallyVerified"
        ELSE "RuntimeUnverified"

Profile(targets) == [targets |-> targets, verification |-> RecalculateVerification(targets)]

NoProfile == [targets |-> << >>, verification |-> "none"]

\* Where a report tells of a target.
Incoming(report, id) == {i \in DOMAIN report : Definitions[i].id = id}

\* Mutant: what was not found this time stays as it was found before.
ApplyFoundStatuses(report) ==
    Profile([id \in DOMAIN m_profile.targets |->
        LET incoming == {i \in Incoming(report, id) : report[i].state # "Missing"} IN
        IF incoming = {} THEN m_profile.targets[id]
        ELSE LET i == CHOOSE i \in incoming : TRUE
             IN  [state |-> report[i].state, required |-> Definitions[i].required]])

\* The report's statuses replace those of the profile that have their id; the others stay.
ApplyTargetStatuses(report) ==
    Profile([id \in DOMAIN m_profile.targets |->
        IF Incoming(report, id) = {} THEN m_profile.targets[id]
        ELSE LET i == CHOOSE i \in Incoming(report, id) : TRUE
             IN  [state |-> report[i].state, required |-> Definitions[i].required]])

-----------------------------------------------------------------------------
(* Memory: what VirtualQuery says of the region of an address.             *)

Regions == {"free", "guarded", "data", "image", "code", "generated"}
Readable(region)   == region \in Regions \ {"free", "guarded"}
Executable(region) == region \in {"code", "generated"}
InImage(region)    == region \in {"image", "code"}

(* The sample of the ScriptThreads collection: how many of its objects     *)
(* cannot be read, have no first qword, point to the dispatch table of the *)
(* supported build, to code of the image, or to data.                      *)
SlotKinds == {"unreadable", "unread", "zero", "dispatch", "code", "data"}
Decoded(sample) == sample["zero"] + sample["dispatch"] + sample["code"] + sample["data"]

Samples ==
    {sample \in [SlotKinds -> 0..SlotCount] :
        sample["unreadable"] + sample["unread"] + Decoded(sample) = SlotCount}
NoSample == [k \in SlotKinds |-> 0]

\* The first qword that most objects have.
Dominant(sample) ==
    CHOOSE k \in {"dispatch", "code", "data"} :
        \A j \in {"dispatch", "code", "data"} : sample[k] >= sample[j]

\* A collection is sampled when its pointer is set and its memory readable.  The table
\* that most objects point to lies in table, and "all" or "some" of its entries are
\* pointers to code of the image, or it cannot be read.
Probes ==
    LET Probe(pointers, collections, samples) ==
            [storage : Regions, pointer : pointers, collection : collections,
             sample : samples, table : {"image", "code"}, entries : {"unread", "some", "all"}]
    IN  Probe({"undecoded", "null", "set"}, Regions, {NoSample})
            \union Probe({"set"}, {r \in Regions : Readable(r)}, Samples)

\* Mutant: some object may have another first qword.
MostScriptThreads(probe) ==
    /\ Decoded(probe.sample) >= 4
    /\ probe.entries # "unread"
    /\ Dominant(probe.sample) = "dispatch"
    /\ probe.entries = "all"

SemanticScriptThreads(probe) ==
    /\ Decoded(probe.sample) >= 4
    /\ probe.sample[Dominant(probe.sample)] = Decoded(probe.sample)
    /\ probe.entries # "unread"
    /\ Dominant(probe.sample) = "dispatch"
    /\ probe.entries = "all"

StructuralScriptThreads(probe) ==
    LET headers == probe.sample["code"]
                    + IF probe.table = "code" THEN probe.sample["dispatch"] ELSE 0
    IN  /\ Readable(probe.storage) /\ InImage(probe.storage)
        /\ probe.pointer = "set"
        /\ Readable(probe.collection) /\ ~Executable(probe.collection)
        /\ SlotCount - probe.sample["unreadable"] >= 4
        /\ Decoded(probe.sample) >= 4
        /\ headers * 4 >= Decoded(probe.sample) * 3

\* What the sample should show: at least four script threads of the supported build and
\* nothing else, with a table of functions.
Genuine(probe) ==
    /\ probe.sample["dispatch"] >= 4
    /\ \A k \in {"zero", "code", "data"} : probe.sample[k] = 0
    /\ probe.entries = "all"

ScriptThreadsOutcomes ==
    {[state    |-> IF SemanticScriptThreads(p) THEN "Validated"
                   ELSE IF StructuralScriptThreads(p) THEN "StructurallyValidated"
                   ELSE "Located",
      address  |-> "expected",
      dispatch |-> IF Decoded(p.sample) = p.sample["zero"] THEN "none"
                   ELSE IF Dominant(p.sample) = "dispatch" THEN "expected" ELSE "other",
      genuine  |-> Genuine(p)] : p \in Probes}

-----------------------------------------------------------------------------
(* GTA_Target_Resolver.                                                    *)

\* RunScriptThreads, with the bytes of the sample.
SemanticRunScriptThreads(address, region, bytes) ==
    /\ address = "expected"
    /\ region = "code"
    /\ bytes = "verified"

SemanticInitNativeTables(address, region, bytes) ==
    /\ address = "expected"
    /\ Readable(region) /\ Executable(region)
    /\ bytes # "unread"

\* The bytes that the probe samples at an address.
Sampled(id, address) ==
    {"unread"} \union
        IF id = "RunScriptThreads" /\ address = "expected" THEN {entry} ELSE {"some"}

Semantic(id, address, region, bytes) ==
    \/ id = "RunScriptThreads" /\ SemanticRunScriptThreads(address, region, bytes)
    \/ id = "InitNativeTables" /\ SemanticInitNativeTables(address, region, bytes)

CodeOutcomes(id, address) ==
    {[state    |-> IF Semantic(id, address, region, bytes) THEN "Validated" ELSE "Located",
      address  |-> address,
      dispatch |-> "none",
      genuine  |-> FALSE] : region \in Regions, bytes \in Sampled(id, address)}

\* The hook covers the pattern of RunScriptThreads.
MayMatch(id, address) ==
    ~(id = "RunScriptThreads" /\ address = "expected" /\ entry = "hooked")

\* No pattern; no match; the module is not found, no address is decoded, or several
\* are; one address.
Outcomes(target) ==
    IF ~target.pattern THEN {Unresolved("Unknown")}
    ELSE {Unresolved("Missing"), Unresolved("Failed")} \union
         IF target.id = "ScriptThreads" THEN ScriptThreadsOutcomes
         ELSE UNION {CodeOutcomes(target.id, address) :
                address \in {a \in {"expected", "other"} : MayMatch(target.id, a)}}

-----------------------------------------------------------------------------
(* GTA_Module_Manager::Refresh.                                            *)

TargetInit ==
    /\ phase = "stopped"
    /\ m_status = [state |-> "NotRunning", build |-> NoFingerprint,
                   report |-> NoReport, profile |-> NoProfile]
    /\ m_profile = Profile([id \in DOMAIN Registered |->
                                [state |-> "Unknown", required |-> Registered[id]]])
    /\ found = [i \in DOMAIN Definitions |-> "Unknown"]
    /\ m_natives = NoNatives
    /\ entry = "verified"
    /\ m_bridge = NotInstalled

\* What the headers of the host's image are.
Images == [valid : BOOLEAN, optional : {"PE32", "PE32+", "other"}, stamp : 1..2, size : 0..1]

DetectLoadedImage(image) ==
    IF image.valid /\ image.optional # "other" /\ image.size # 0
    THEN <<image.stamp, image.size>> ELSE NoFingerprint

\* The status of a Refresh that goes no further.
Ends(state, build) ==
    /\ m_status' = [state |-> state, build |-> build,
                    report |-> NoReport, profile |-> NoProfile]
    /\ phase' = "natives"

\* Refresh up to the first target.  The process cannot be inspected; it is not the
\* game; its build cannot be detected, is not known, or is.
RefreshBegin ==
    /\ phase = "stopped"
    /\ \/ Ends("Failed", NoFingerprint)
       \/ Ends("NotRunning", NoFingerprint)
       \/ \E image \in Images :
            LET build == DetectLoadedImage(image) IN
            IF build = NoFingerprint THEN Ends("Failed", NoFingerprint)
            ELSE IF build # SupportedFingerprint THEN Ends("Unsupported", build)
            ELSE /\ m_status' = [state |-> "BuildIdentified", build |-> build,
                                 report |-> << >>, profile |-> NoProfile]
                 /\ phase' = "targets"
    /\ UNCHANGED <<m_profile, found, m_natives, entry, m_bridge>>

\* The next target; an image that cannot be scanned ends the Refresh.
ResolveTarget ==
    LET n == Len(m_status.report) + 1 IN
    /\ phase = "targets" /\ n <= Len(Definitions)
    /\ \/ \E outcome \in Outcomes(Definitions[n]) :
            /\ m_status' = [m_status EXCEPT !.report = Append(@, outcome)]
            /\ UNCHANGED phase
       \/ Definitions[n].pattern /\ Ends("Failed", m_status.build)
    /\ UNCHANGED <<m_profile, found, m_natives, entry, m_bridge>>

RefreshEnd ==
    LET applied == ApplyTargetStatuses(m_status.report) IN
    /\ phase = "targets" /\ Len(m_status.report) = Len(Definitions)
    /\ m_profile' = applied
    /\ found' = [i \in DOMAIN Definitions |-> m_status.report[i].state]
    /\ m_status' = [m_status EXCEPT
            !.profile = applied,
            !.state = IF applied.verification = "Supported" THEN "Supported"
                      ELSE "RuntimeUnverified"]
    /\ phase' = "natives"
    /\ UNCHANGED <<m_natives, entry, m_bridge>>

-----------------------------------------------------------------------------
(* Runtime_Manager: natives, bridge, Stop.                                 *)

\* The address of a validated target of the report.
Validated(id, field) ==
    LET hits == {i \in DOMAIN Definitions : Definitions[i].id = id} IN
    IF m_status.report = NoReport \/ hits = {} THEN "none"
    ELSE LET target == m_status.report[CHOOSE i \in hits : TRUE]
         IN  IF target.state = "Validated" THEN target[field] ELSE "none"

\* The bootstrap writes a handler over each hash; some may not be code of the image.
\* Or the module or InitNativeTables is not where it was, and the manager is reset.
InitializeNativeManager ==
    /\ phase = "natives"
    /\ phase' = "bridge"
    /\ \/ /\ Validated("InitNativeTables", "address") # "none"
          /\ \E inImage \in SUBSET Requested :
                m_natives' = IF inImage = Requested
                             THEN [fingerprint |-> m_status.build, handlers |-> inImage]
                             ELSE NoNatives
       \/ UNCHANGED m_natives
    /\ UNCHANGED <<m_status, m_profile, found, entry, m_bridge>>

\* Install compares the bytes with the verified ones and writes the jump; the write may
\* fail, before it wrote or after.
Install ==
    /\ entry = "verified"
    /\ \/ /\ entry' = "hooked"
          /\ m_bridge' = [original |-> entry,
                          address  |-> Validated("RunScriptThreads", "address"),
                          dispatch |-> Validated("ScriptThreads", "dispatch")]
       \/ entry' = "hooked" /\ UNCHANGED m_bridge

InitializeGameThreadBridge ==
    /\ phase = "bridge"
    /\ phase' = "running"
    /\ \/ /\ m_natives # NoNatives
          /\ Validated("RunScriptThreads", "address") # "none"
          /\ Validated("ScriptThreads", "address") # "none"
          /\ Validated("ScriptThreads", "dispatch") # "none"
          /\ Install
       \/ UNCHANGED <<entry, m_bridge>>
    /\ UNCHANGED <<m_status, m_profile, found, m_natives>>

\* The original bytes come back, unless the write is refused.
StopRuntime ==
    /\ phase = "running"
    /\ phase' = "stopped"
    /\ m_natives' = NoNatives
    /\ m_bridge' = NotInstalled
    /\ \/ m_bridge # NotInstalled /\ entry' = m_bridge.original
       \/ UNCHANGED entry
    /\ UNCHANGED <<m_status, m_profile, found>>

\* Another module of the process patches the function, or takes its patch away.
OthersPatch ==
    /\ entry # "hooked"
    /\ entry' = IF entry = "verified" THEN "patched" ELSE "verified"
    /\ UNCHANGED <<phase, m_status, m_profile, found, m_natives, m_bridge>>

TargetNext ==
    \/ RefreshBegin \/ ResolveTarget \/ RefreshEnd
    \/ InitializeNativeManager \/ InitializeGameThreadBridge \/ StopRuntime
    \/ OthersPatch

TargetSpec == TargetInit /\ [][TargetNext]_targetVars

-----------------------------------------------------------------------------
\* The bridge is only ever installed on what was verified from end to end: on the build
\* whose identities the validators know, over the function's own bytes at its own
\* address, with native handlers of that build, and after a sample in which each object
\* was a script thread.  What lies between the probe and the jump are other targets, the
\* natives' bootstrap and other modules' patches, and a Stop that could not restore.
HookedIsVerified ==
    m_bridge # NotInstalled =>
        /\ m_status.build = SupportedFingerprint
        /\ m_bridge = [original |-> "verified", address |-> "expected", dispatch |-> "expected"]
        /\ m_natives = [fingerprint |-> m_status.build, handlers |-> Requested]
        /\ \A i \in DOMAIN Definitions :
                Definitions[i].id = "ScriptThreads" => m_status.report[i].genuine

\* The profile in the registry outlives the Refresh that filled it, and the next one merges
\* its report into it, if it gets that far.  What the registry holds between two calls is
\* nevertheless what one Refresh found, for each target, and a status that shows a
\* profile shows what its own Refresh found: none is "Supported" for a target that was
\* validated by an earlier Refresh only, or by one that failed halfway.
ProfileOfOneRefresh ==
    /\ phase # "targets" =>
          \A i \in DOMAIN Definitions :
              Definitions[i].id \in DOMAIN Registered =>
                  m_profile.targets[Definitions[i].id].state = found[i]
    /\ m_status.profile # NoProfile =>
          /\ m_status.profile = m_profile
          /\ \A i \in DOMAIN Definitions : found[i] = m_status.report[i].state
    /\ m_status.state = "Supported" =>
          \A i \in DOMAIN Definitions :
              Definitions[i].id \in DOMAIN Registered /\ Definitions[i].required =>
                  m_status.report[i].state = "Validated"

=============================================================================
