------------------------- MODULE HardwareOrchestrator -------------------------
(***************************************************************************)
(* One HardwareOrchestrator behind a DynamicHardwareBuilder: its phases,   *)
(* discover() over the enabled backends, the channel definitions and their *)
(* file, and buildRT().  It drives HardwareCatalog.                        *)
(*                                                                         *)
(* The application calls the builder in any order.  discover() is split at *)
(* each catalog call and at each step on a file, because the process may   *)
(* die in between and because a scanner may throw out of it; the builder   *)
(* survives the exception with whatever the call had done by then.         *)
(* Backends are visited in the order of an unordered_map, that is, in any. *)
(* A channel definition is known by its uuid; both paths are set.          *)
(***************************************************************************)
EXTENDS Integers, Sequences

CONSTANTS
  Uuids, BlankUuid, Backends, EtherCAT, Infos, Hash, Devices, EcChannels,
  StoredFiles, NoFile, TornFile,
                 \* as in HardwareCatalog
  Registered,    \* backends BackendRegistry has a creator for
  Scans,         \* what the scan() of each backend may return
  Throwing,      \* backends whose scan() may throw
  UserEntries,   \* entries the application may add through catalog()
  MapUuids,      \* uuids the application maps
  NoContext,     \* buildRT() has not succeeded yet
  Faults,        \* of "crashInSave", "writeLost": those a run includes
  MaxDefs        \* bound on the channel definitions

ASSUME ScansAssumption ==
  \A b \in Backends : Scans[b] \subseteq Seq({d \in Devices : d.backend = b})
ASSUME ChoicesAssumption ==
  /\ Registered \subseteq Backends
  /\ Throwing \subseteq Backends
  /\ UserEntries \subseteq Devices
  /\ MapUuids \subseteq Uuids
  /\ Faults \subseteq {"crashInSave", "writeLost"}
  /\ MaxDefs \in Nat

VARIABLES
  entries, uuidIndex, discoveryMode, participated, alive, writeLocked,
  file, saving, returned, reported, reloaded,
                 \* catalog_, as in HardwareCatalog
  phase,         \* phaseManager_
  enabled,       \* state_.enabledBackends
  adapters,      \* pendingAdapters_
  channelDefs,   \* channelDefs_
  mappingFile,   \* the contents of the mapping file
  context,       \* what buildRT() returned
  pc,            \* where discover() is
  todo,          \* the backends its loop has still to visit
  remaining,     \* the descriptors of the current one still to be added
  outcome,       \* history: how the last discover() of this process ended
  durable,       \* history: the last catalog written to the file in full
  cut            \* history: a save() has been cut off, or lost, since then

Catalog == INSTANCE HardwareCatalog

ASSUME CatalogAssumption ==
  /\ Hash \in [Backends -> [Infos -> Uuids]]
  /\ Devices \subseteq Catalog!Entry
  /\ EtherCAT \in Backends /\ EcChannels \subseteq Infos
  /\ StoredFiles \subseteq Seq(Catalog!Entry) \cup {NoFile, TornFile}
  /\ BlankUuid \notin Uuids

catalogVars == <<entries, uuidIndex, discoveryMode, participated, alive, writeLocked,
                 file, saving, returned, reported, reloaded>>
setup == <<enabled, channelDefs, mappingFile>>
loop == <<todo, remaining>>
vars == <<catalogVars, setup, loop, phase, adapters, context, pc, outcome, durable, cut>>

Init ==
  /\ Catalog!Init
  /\ phase = "DISCOVERY"
  /\ enabled = {}
  /\ adapters = {}
  /\ channelDefs = << >>
  /\ mappingFile = NoFile
  /\ context = NoContext
  /\ pc = "idle"
  /\ todo = {}
  /\ remaining = << >>
  /\ outcome = "none"
  /\ durable = IF file \in Catalog!Unparsed THEN << >> ELSE file
  /\ cut = FALSE

-------------------------------------------------------------------------------
(* PhaseManager: one phase at a time and never back, or to the end. *)
HardwarePhase == <<"DISCOVERY", "MAPPING", "BUILD_RT", "RUNNING", "SHUTDOWN">>
Rank(p) == CHOOSE i \in DOMAIN HardwarePhase : HardwarePhase[i] = p

IsValidTransition(from, to) ==
  /\ Rank(to) > Rank(from)
  /\ Rank(to) = Rank(from) + 1 \/ to = "SHUTDOWN"

(* advance(), whose exception its callers catch: the phase stays as it is. *)
Advance(from, to) == IF IsValidTransition(from, to) THEN to ELSE from

-------------------------------------------------------------------------------
(* The builder's setters. *)

(* enableBackend(name, config) *)
EnableBackend(b) ==
  /\ pc = "idle"
  /\ enabled' = enabled \cup {b}
  /\ UNCHANGED <<catalogVars, channelDefs, mappingFile, loop, phase, adapters, context,
                 pc, outcome, durable, cut>>

(* mapChannel(keyOrUuid, type, friendlyName) *)
MapChannel(u) ==
  /\ pc = "idle"
  /\ Len(channelDefs) < MaxDefs
  /\ channelDefs' = Append(channelDefs, u)
  /\ UNCHANGED <<catalogVars, enabled, mappingFile, loop, phase, adapters, context,
                 pc, outcome, durable, cut>>

(* loadMappings(): appends what the file holds; one that does not parse holds nothing. *)
LoadMappings ==
  /\ pc = "idle"
  /\ mappingFile \notin Catalog!Unparsed
  /\ Len(channelDefs) + Len(mappingFile) <= MaxDefs
  /\ channelDefs' = channelDefs \o mappingFile
  /\ UNCHANGED <<catalogVars, enabled, mappingFile, loop, phase, adapters, context,
                 pc, outcome, durable, cut>>

(* catalog().addEntry(entry), the "user inspection / augmentation". *)
AugmentCatalog(device) ==
  /\ pc = "idle"
  /\ context = NoContext
  /\ Catalog!AddEntry(device)
  /\ UNCHANGED <<setup, loop, phase, adapters, context, pc, outcome, durable, cut>>

-------------------------------------------------------------------------------
(* Mistakes a change to this code could make; the properties below catch them. *)

(* discover() without the load(): the catalog starts from what is in memory. *)
DiscoverLoadForgotten ==
  /\ pc = "idle"
  /\ phase = "DISCOVERY"
  /\ pc' = "begin"
  /\ UNCHANGED <<catalogVars, setup, loop, phase, adapters, context, outcome, durable, cut>>

(* discover() without beginDiscovery(). *)
DiscoverBeginForgotten ==
  /\ pc = "begin"
  /\ todo' = enabled
  /\ pc' = "scan"
  /\ UNCHANGED <<catalogVars, setup, remaining, phase, adapters, context, outcome, durable, cut>>

(* The catalog is saved before the purge. *)
DiscoverPurgeSkipped ==
  /\ pc = "scan"
  /\ todo = {}
  /\ remaining = << >>
  /\ pc' = "save"
  /\ UNCHANGED <<catalogVars, setup, loop, phase, adapters, context, outcome, durable, cut>>

(* The adapter is stored only when the scan found something. *)
ScanEmptyAdapterDropped(b) ==
  /\ pc = "scan"
  /\ remaining = << >>
  /\ b \in todo \cap Registered
  /\ << >> \in Scans[b]
  /\ todo' = todo \ {b}
  /\ UNCHANGED <<catalogVars, setup, remaining, phase, adapters, context, pc, outcome, durable, cut>>

(* The loop does not move on from a backend without a creator. *)
SkipUnregisteredRetried(b) ==
  /\ pc = "scan"
  /\ remaining = << >>
  /\ b \in todo \ Registered
  /\ UNCHANGED vars

-------------------------------------------------------------------------------
(* discover() *)

(* Only in the DISCOVERY phase (a later one returns false); load() comes first. *)
DiscoverLoad ==
  /\ pc = "idle"
  /\ phase = "DISCOVERY"
  /\ Catalog!Load
  /\ pc' = "begin"
  /\ UNCHANGED <<setup, loop, phase, adapters, context, outcome, durable, cut>>

DiscoverBegin ==
  /\ pc = "begin"
  /\ Catalog!BeginDiscovery
  /\ todo' = enabled
  /\ pc' = "scan"
  /\ UNCHANGED <<setup, remaining, phase, adapters, context, outcome, durable, cut>>

(* A backend without a creator is passed over. *)
SkipUnregistered(b) ==
  /\ pc = "scan"
  /\ remaining = << >>
  /\ b \in todo \ Registered
  /\ todo' = todo \ {b}
  /\ UNCHANGED <<catalogVars, setup, remaining, phase, adapters, context,
                 pc, outcome, durable, cut>>

(* The scanner throws, and the exception leaves discover(). *)
ScanThrows(b) ==
  /\ pc = "scan"
  /\ remaining = << >>
  /\ b \in todo \cap Registered \cap Throwing
  /\ pc' = "idle"
  /\ outcome' = "threw"
  /\ UNCHANGED <<catalogVars, setup, loop, phase, adapters, context, durable, cut>>

(* Nothing found: the backend does not count as a participant. *)
ScanEmpty(b) ==
  /\ pc = "scan"
  /\ remaining = << >>
  /\ b \in todo \cap Registered
  /\ << >> \in Scans[b]
  /\ todo' = todo \ {b}
  /\ adapters' = adapters \cup {b}
  /\ UNCHANGED <<catalogVars, setup, remaining, phase, context, pc, outcome, durable, cut>>

(* Descriptors found: the backend takes part. *)
ScanFound(b) ==
  /\ pc = "scan"
  /\ remaining = << >>
  /\ b \in todo \cap Registered
  /\ remaining' \in Scans[b] \ {<< >>}
  /\ Catalog!MarkBackendParticipated(b)
  /\ todo' = todo \ {b}
  /\ UNCHANGED <<setup, phase, adapters, context, pc, outcome, durable, cut>>

(* Each descriptor becomes an entry; the adapter is stored after the last. *)
Absorb ==
  /\ pc = "scan"
  /\ remaining # << >>
  /\ Catalog!AddEntry(Head(remaining))
  /\ remaining' = Tail(remaining)
  /\ adapters' = IF Len(remaining) = 1
                   THEN adapters \cup {Head(remaining).backend} ELSE adapters
  /\ UNCHANGED <<setup, todo, phase, context, pc, outcome, durable, cut>>

DiscoverPurge ==
  /\ pc = "scan"
  /\ todo = {}
  /\ remaining = << >>
  /\ Catalog!PurgeStaleEntries
  /\ pc' = "save"
  /\ UNCHANGED <<setup, loop, phase, adapters, context, outcome, durable, cut>>

(* save() opens, that is truncates, the catalog file, or cannot. *)
DiscoverSave ==
  /\ pc = "save"
  /\ \/ Catalog!SaveOpen /\ pc' = "write"
     \/ UNCHANGED catalogVars /\ pc' = "map"
  /\ UNCHANGED <<setup, loop, phase, adapters, context, outcome, durable, cut>>

DiscoverWrite ==
  /\ pc = "write"
  /\ \/ Catalog!SaveWrite /\ durable' = entries /\ cut' = FALSE
     \/ "writeLost" \in Faults /\ Catalog!SaveLost /\ UNCHANGED durable /\ cut' = TRUE
  /\ pc' = "map"
  /\ UNCHANGED <<setup, loop, phase, adapters, context, outcome>>

(* saveMappings() does the same with the mapping file. *)
MappingOpen ==
  /\ pc = "map"
  /\ \/ mappingFile' = TornFile /\ pc' = "mapwrite"
     \/ UNCHANGED mappingFile /\ pc' = "finish"
  /\ UNCHANGED <<catalogVars, enabled, channelDefs, loop, phase, adapters, context,
                 outcome, durable, cut>>

MappingWrite ==
  /\ pc = "mapwrite"
  /\ \/ mappingFile' = channelDefs
     \/ "writeLost" \in Faults /\ UNCHANGED mappingFile
  /\ pc' = "finish"
  /\ UNCHANGED <<catalogVars, enabled, channelDefs, loop, phase, adapters, context,
                 outcome, durable, cut>>

(* The phase advances whatever was found; the result says whether the        *)
(* catalog has anything in it.                                               *)
DiscoverFinish ==
  /\ pc = "finish"
  /\ phase' = Advance(phase, "MAPPING")
  /\ outcome' = IF participated # {} \/ entries # << >> THEN "found" ELSE "nothing"
  /\ pc' = "idle"
  /\ UNCHANGED <<catalogVars, setup, loop, adapters, context, durable, cut>>

-------------------------------------------------------------------------------
(* The definitions buildRT() offers to every adapter: those the catalog knows. *)
Offered == {u \in {channelDefs[i] : i \in DOMAIN channelDefs} : uuidIndex[u] # 0}

(* buildRT(), from DISCOVERY too, since it advances to MAPPING itself.  Each *)
(* pending adapter builds or fails; the catalog moves into the context.      *)
BuildRT ==
  /\ pc = "idle"
  /\ Rank(phase) <= Rank("MAPPING")
  /\ phase' = Advance(Advance(phase, "MAPPING"), "BUILD_RT")
  /\ \E built \in SUBSET adapters :
       context' = [backends |-> built, offered |-> Offered]
  /\ UNCHANGED <<catalogVars, setup, loop, adapters, pc, outcome, durable, cut>>

(* The process ends or is killed, and the next one makes a new builder. *)
Restart ==
  /\ saving => "crashInSave" \in Faults
  /\ pc = "mapwrite" => "crashInSave" \in Faults
  /\ Catalog!NewProcess
  /\ phase' = "DISCOVERY"
  /\ enabled' = {}
  /\ adapters' = {}
  /\ channelDefs' = << >>
  /\ context' = NoContext
  /\ pc' = "idle"
  /\ todo' = {}
  /\ remaining' = << >>
  /\ outcome' = "none"
  /\ cut' = (cut \/ saving)
  /\ UNCHANGED <<mappingFile, durable>>

-------------------------------------------------------------------------------
DiscoverStep ==
  \/ DiscoverBegin
  \/ \E b \in Backends :
       SkipUnregistered(b) \/ ScanThrows(b) \/ ScanEmpty(b) \/ ScanFound(b)
  \/ Absorb
  \/ DiscoverPurge \/ DiscoverSave \/ DiscoverWrite
  \/ MappingOpen \/ MappingWrite \/ DiscoverFinish

Next ==
  \/ \E b \in Backends : EnableBackend(b)
  \/ \E u \in MapUuids : MapChannel(u)
  \/ LoadMappings
  \/ \E device \in UserEntries : AugmentCatalog(device)
  \/ DiscoverLoad \/ DiscoverStep
  \/ BuildRT
  \/ Restart

Spec == Init /\ [][Next]_vars

(* A discover() that was called runs on; nothing obliges the application to  *)
(* call it.                                                                  *)
FairSpec == Spec /\ WF_vars(DiscoverStep)

-------------------------------------------------------------------------------
TypeOK ==
  /\ phase \in {"DISCOVERY", "MAPPING", "BUILD_RT"}
  /\ enabled \subseteq Backends
  /\ adapters \subseteq Registered
  /\ channelDefs \in Seq(Uuids)
  /\ mappingFile \in Seq(Uuids) \cup Catalog!Unparsed
  /\ context \in [backends : SUBSET Backends, offered : SUBSET Uuids] \cup {NoContext}
  /\ pc \in {"idle", "begin", "scan", "save", "write", "map", "mapwrite", "finish"}
  /\ todo \subseteq Backends
  /\ remaining \in Seq(Devices)
  /\ outcome \in {"none", "threw", "found", "nothing"}
  /\ durable \in Seq(Catalog!Entry)
  /\ cut \in BOOLEAN

(* A discover() that gets through the loop has a pending adapter for every   *)
(* backend that was enabled and is registered, also after one that threw.    *)
EveryAdapterPending ==
  pc \notin {"idle", "begin", "scan"} => adapters = enabled \cap Registered

(* A catalog written out in full lists every channel the scans of this       *)
(* discover() reported, and nothing else of a backend that took part.        *)
WrittenMatchesScans ==
  [][durable' # durable =>
       /\ \A u \in reported : \E i \in DOMAIN durable' : durable'[i].uuid = u
       /\ \A i \in DOMAIN durable' :
            durable'[i].backend \in participated => durable'[i].uuid \in reported]_vars

(* HardwareCatalog.cpp:303, "per-backend scoping prevents cross-territory    *)
(* destruction": no catalog written out in full lacks an entry that the one  *)
(* before listed for a backend that took no part in the cycle in between,    *)
(* across restarts, throwing scanners and failed opens, if no save() was cut *)
(* off between the two.  One that was costs every such entry.                *)
TerritoryDurableUncut ==
  [][~cut =>
       \A i \in DOMAIN durable :
         durable[i].backend \notin participated =>
           Catalog!Lists(durable', durable[i].uuid, durable[i].backend)]_vars

(* A definition may be older than the device: it was restored from the       *)
(* mapping file, or made before the purge took the entry away.  After a      *)
(* discover() that was gone through to the end, one that is offered to the   *)
(* adapters has an entry in the context's catalog, and where its backend     *)
(* took part, one that was found, or that the application added itself.  (A  *)
(* build after a discover() that threw has no such promise.)                 *)
GoneNotOffered ==
  context # NoContext /\ outcome \in {"found", "nothing"} =>
    \A u \in context.offered : \E i \in DOMAIN entries :
      /\ entries[i].uuid = u
      /\ entries[i].backend \in participated =>
           u \in reported \/ \E d \in UserEntries : Catalog!Identified(d).uuid = u

(* discover() returns, or throws, whatever the backends report.              *)
DiscoverReturns == pc # "idle" ~> pc = "idle"
===============================================================================
