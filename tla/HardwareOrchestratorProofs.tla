---------------------- MODULE HardwareOrchestratorProofs ----------------------
(***************************************************************************)
(* The orchestrator only ever does to its catalog what the catalog's own   *)
(* specification allows: every step of it is one catalog call, with an     *)
(* argument that call is specified for, or leaves the catalog alone.  So   *)
(* what HardwareCatalogProofs proves of the catalog holds in it, and its   *)
(* own invariants are proved on top of that.                               *)
(*                                                                         *)
(* The theorems of HardwareCatalogProofs come in under the name Proved.    *)
(* Its definitions and those of Catalog are the same, instantiated twice;  *)
(* SameSteps says so.                                                      *)
(***************************************************************************)
EXTENDS HardwareOrchestrator, SequenceTheorems, FiniteSetTheorems, TLAPS

Proved == INSTANCE HardwareCatalogProofs

RemainingInv == remaining \in Seq(Devices)

LEMMA ScannedDevices ==
  ASSUME NEW b \in Backends, NEW s \in Scans[b]
  PROVE  s \in Seq(Devices)
<1>1. s \in Seq({d \in Devices : d.backend = b})
  BY ScansAssumption
<1> QED
  BY <1>1

LEMMA StepRemaining ==
  ASSUME RemainingInv, [Next]_vars
  PROVE  RemainingInv'
<1>1. CASE UNCHANGED remaining
  BY <1>1 DEF RemainingInv
<1>2. ASSUME NEW b \in Backends, ScanFound(b)
      PROVE  RemainingInv'
  BY <1>2, ScannedDevices DEF ScanFound, RemainingInv
<1>3. CASE Absorb
  BY <1>3 DEF Absorb, RemainingInv
<1>4. CASE Restart
  BY <1>4 DEF Restart, RemainingInv
<1>5. CASE UNCHANGED vars
  BY <1>5, <1>1 DEF vars, loop
<1>6. CASE \/ \E b \in Backends : EnableBackend(b)
           \/ \E u \in MapUuids : MapChannel(u)
           \/ LoadMappings
           \/ \E device \in UserEntries : AugmentCatalog(device)
           \/ DiscoverLoad \/ BuildRT
  BY <1>6, <1>1 DEF EnableBackend, MapChannel, LoadMappings, AugmentCatalog, DiscoverLoad,
                    BuildRT, loop
<1>7. CASE \/ DiscoverBegin \/ DiscoverPurge \/ DiscoverSave \/ DiscoverWrite
           \/ MappingOpen \/ MappingWrite \/ DiscoverFinish
           \/ \E b \in Backends : SkipUnregistered(b) \/ ScanThrows(b) \/ ScanEmpty(b)
  BY <1>7, <1>1 DEF DiscoverBegin, DiscoverPurge, DiscoverSave, DiscoverWrite, MappingOpen,
                    MappingWrite, DiscoverFinish, SkipUnregistered, ScanThrows, ScanEmpty, loop
<1> QED
  BY <1>2, <1>3, <1>4, <1>5, <1>6, <1>7 DEF Next, DiscoverStep

LEMMA SameCatalog ==
  ASSUME UNCHANGED catalogVars
  PROVE  [Catalog!Next]_(Catalog!vars)
BY DEF catalogVars, Catalog!vars, Catalog!contents, Catalog!cycle, Catalog!disk

LEMMA StepCatalog ==
  ASSUME RemainingInv, [Next]_vars
  PROVE  [Catalog!Next]_(Catalog!vars)
<1>1. CASE UNCHANGED catalogVars
  BY <1>1, SameCatalog
<1>2. CASE \/ \E b \in Backends : EnableBackend(b)
           \/ \E u \in MapUuids : MapChannel(u)
           \/ LoadMappings \/ BuildRT
           \/ MappingOpen \/ MappingWrite \/ DiscoverFinish
           \/ \E b \in Backends : SkipUnregistered(b) \/ ScanThrows(b) \/ ScanEmpty(b)
  BY <1>2, <1>1 DEF EnableBackend, MapChannel, LoadMappings, BuildRT, MappingOpen,
                    MappingWrite, DiscoverFinish, SkipUnregistered, ScanThrows, ScanEmpty
<1>3. CASE \E device \in UserEntries : AugmentCatalog(device)
  BY <1>3, ChoicesAssumption DEF AugmentCatalog, Catalog!Next
<1>4. CASE DiscoverLoad \/ DiscoverBegin \/ DiscoverPurge \/ Restart
  BY <1>4 DEF DiscoverLoad, DiscoverBegin, DiscoverPurge, Restart, Catalog!Next
<1>5. CASE DiscoverSave \/ DiscoverWrite
  BY <1>5, <1>1 DEF DiscoverSave, DiscoverWrite, Catalog!Next
<1>6. ASSUME NEW b \in Backends, ScanFound(b)
      PROVE  Catalog!Next
  BY <1>6 DEF ScanFound, Catalog!Next
<1>7. CASE Absorb
  <2>1. Head(remaining) \in Devices
    BY <1>7 DEF Absorb, RemainingInv
  <2> QED
    BY <1>7, <2>1 DEF Absorb, Catalog!Next
<1>8. CASE UNCHANGED vars
  BY <1>8, <1>1 DEF vars
<1> QED
  BY <1>2, <1>3, <1>4, <1>5, <1>6, <1>7, <1>8 DEF Next, DiscoverStep

-------------------------------------------------------------------------------
(* The catalog's theorems. *)

LEMMA CatalogAssumptions ==
  /\ Proved!HashAssumption /\ Proved!DevicesAssumption /\ Proved!EcAssumption
  /\ Proved!StoredFilesAssumption /\ Proved!BlankUuidAssumption
BY CatalogAssumption
   DEF Proved!HashAssumption, Proved!DevicesAssumption, Proved!EcAssumption,
       Proved!StoredFilesAssumption, Proved!BlankUuidAssumption,
       Proved!Entry, Proved!Ids, Catalog!Entry, Catalog!Ids

LEMMA SameDefinitions ==
  /\ Catalog!Init <=> Proved!Init
  /\ Catalog!Load <=> Proved!Load
  /\ \A device \in Devices : Catalog!AddEntry(device) <=> Proved!AddEntry(device)
  /\ Catalog!PurgeStaleEntries <=> Proved!PurgeStaleEntries
BY DEF Catalog!Init, Proved!Init, Catalog!Load, Proved!Load,
       Catalog!AddEntry, Proved!AddEntry, Catalog!MarkAlive, Proved!MarkAlive,
       Catalog!Put, Proved!Put, Catalog!Identified, Proved!Identified,
       Catalog!PurgeStaleEntries, Proved!PurgeStaleEntries, Catalog!Purge, Proved!Purge,
       Catalog!Compact, Proved!Compact, Catalog!Kept, Proved!Kept,
       Catalog!IndexOf, Proved!IndexOf, Catalog!LastWith, Proved!LastWith,
       Catalog!Unparsed, Proved!Unparsed, Catalog!NoCall, Proved!NoCall,
       Catalog!Ids, Proved!Ids, Catalog!contents, Proved!contents,
       Catalog!cycle, Proved!cycle, Catalog!disk, Proved!disk

LEMMA SameSteps == Catalog!Next <=> Proved!Next
<1>1. Catalog!EndDiscovery <=> Proved!EndDiscovery
  BY DEF Catalog!EndDiscovery, Proved!EndDiscovery, Catalog!Purge, Proved!Purge,
         Catalog!Compact, Proved!Compact, Catalog!Kept, Proved!Kept,
         Catalog!IndexOf, Proved!IndexOf, Catalog!LastWith, Proved!LastWith,
         Catalog!NoCall, Proved!NoCall, Catalog!Ids, Proved!Ids,
         Catalog!contents, Proved!contents, Catalog!disk, Proved!disk
<1>2. \A info \in EcChannels :
        /\ Catalog!RegisterEcChannel(info) <=> Proved!RegisterEcChannel(info)
        /\ Catalog!RegisterEcLocked(info) <=> Proved!RegisterEcLocked(info)
  BY DEF Catalog!RegisterEcChannel, Proved!RegisterEcChannel,
         Catalog!RegisterEcLocked, Proved!RegisterEcLocked,
         Catalog!MarkAlive, Proved!MarkAlive, Catalog!Put, Proved!Put,
         Catalog!EcEntry, Proved!EcEntry, Catalog!ReturnEntry, Proved!ReturnEntry, Catalog!contents, Proved!contents,
         Catalog!cycle, Proved!cycle, Catalog!disk, Proved!disk
<1>3. /\ Catalog!SaveOpen <=> Proved!SaveOpen
      /\ Catalog!SaveWrite <=> Proved!SaveWrite
      /\ Catalog!SaveLost <=> Proved!SaveLost
      /\ Catalog!BeginDiscovery <=> Proved!BeginDiscovery
      /\ Catalog!NewProcess <=> Proved!NewProcess
  BY DEF Catalog!SaveOpen, Proved!SaveOpen, Catalog!SaveWrite, Proved!SaveWrite,
         Catalog!SaveLost, Proved!SaveLost, Catalog!BeginDiscovery, Proved!BeginDiscovery,
         Catalog!NewProcess, Proved!NewProcess, Catalog!NoCall, Proved!NoCall,
         Catalog!Ids, Proved!Ids, Catalog!contents, Proved!contents,
         Catalog!cycle, Proved!cycle, Catalog!disk, Proved!disk
<1>4. \A b \in Backends :
        Catalog!MarkBackendParticipated(b) <=> Proved!MarkBackendParticipated(b)
  BY DEF Catalog!MarkBackendParticipated, Proved!MarkBackendParticipated,
         Catalog!NoCall, Proved!NoCall, Catalog!contents, Proved!contents,
         Catalog!disk, Proved!disk
<1> QED
  BY <1>1, <1>2, <1>3, <1>4, SameDefinitions DEF Catalog!Next, Proved!Next

LEMMA StepProved ==
  ASSUME RemainingInv, [Next]_vars
  PROVE  [Proved!Next]_(Proved!vars)
<1>1. [Catalog!Next]_(Catalog!vars)
  BY StepCatalog
<1>2. Catalog!vars = Proved!vars /\ Catalog!vars' = Proved!vars'
  BY DEF Catalog!vars, Proved!vars, Catalog!contents, Proved!contents,
         Catalog!cycle, Proved!cycle, Catalog!disk, Proved!disk
<1> QED
  BY <1>1, <1>2, SameSteps

LEMMA StepCatalogInv ==
  ASSUME Proved!CatalogInv, RemainingInv, [Next]_vars
  PROVE  Proved!CatalogInv'
<1>1. [Proved!Next]_(Proved!vars)
  BY StepProved
<1> QED
  BY <1>1, CatalogAssumptions, Proved!StepInv

-------------------------------------------------------------------------------
(* The invariant. *)

Usable == enabled \cap Registered

(* Backend b has its adapter, or the loop will still come to it. *)
Awaited(b) == b \in todo \/ \E i \in DOMAIN remaining : remaining[i].backend = b

LoopInv ==
  /\ adapters \subseteq Usable
  /\ todo \subseteq enabled
  /\ \A i, j \in DOMAIN remaining : remaining[i].backend = remaining[j].backend
  /\ \A i \in DOMAIN remaining : remaining[i].backend \in Usable
  /\ pc # "scan" => remaining = << >>
  /\ pc = "scan" => \A b \in Usable : b \in adapters \/ Awaited(b)
  /\ pc \notin {"idle", "begin", "scan"} => Usable \subseteq adapters

PhaseInv ==
  /\ pc # "idle" => phase = "DISCOVERY"
  /\ context # NoContext => phase = "BUILD_RT"

(* A retry after a scanner threw reloads the catalog, and begins anew.        *)
OwnCycle == pc \in {"scan", "save"} => ~reloaded

OrchInv ==
  /\ Proved!CatalogInv
  /\ TypeOK
  /\ LoopInv
  /\ PhaseInv
  /\ OwnCycle

LEMMA Ranks ==
  /\ Rank("DISCOVERY") = 1
  /\ Rank("MAPPING") = 2
  /\ Rank("BUILD_RT") = 3
<1>1. DOMAIN HardwarePhase = 1..5
  BY DEF HardwarePhase
<1>2. /\ HardwarePhase[1] = "DISCOVERY" /\ HardwarePhase[2] = "MAPPING"
      /\ HardwarePhase[3] = "BUILD_RT" /\ HardwarePhase[4] = "RUNNING"
      /\ HardwarePhase[5] = "SHUTDOWN"
  BY DEF HardwarePhase
<1>3. \A i \in DOMAIN HardwarePhase : i \in {1, 2, 3, 4, 5}
  BY <1>1
<1>4. Rank("DISCOVERY") = 1
  <2>1. \A i \in DOMAIN HardwarePhase : HardwarePhase[i] = "DISCOVERY" <=> i = 1
    BY <1>1, <1>2, <1>3
  <2> QED
    BY <1>1, <2>1 DEF Rank
<1>5. Rank("MAPPING") = 2
  <2>1. \A i \in DOMAIN HardwarePhase : HardwarePhase[i] = "MAPPING" <=> i = 2
    BY <1>1, <1>2, <1>3
  <2> QED
    BY <1>1, <2>1 DEF Rank
<1>6. Rank("BUILD_RT") = 3
  <2>1. \A i \in DOMAIN HardwarePhase : HardwarePhase[i] = "BUILD_RT" <=> i = 3
    BY <1>1, <1>2, <1>3
  <2> QED
    BY <1>1, <2>1 DEF Rank
<1> QED
  BY <1>4, <1>5, <1>6

LEMMA Advances ==
  /\ Advance("DISCOVERY", "MAPPING") = "MAPPING"
  /\ \A p \in {"DISCOVERY", "MAPPING"} : Advance(Advance(p, "MAPPING"), "BUILD_RT") = "BUILD_RT"
<1>1. /\ IsValidTransition("DISCOVERY", "MAPPING")
      /\ IsValidTransition("MAPPING", "BUILD_RT")
      /\ ~IsValidTransition("MAPPING", "MAPPING")
  BY Ranks DEF IsValidTransition
<1> QED
  BY <1>1 DEF Advance

LEMMA BuildPhase ==
  ASSUME TypeOK, BuildRT
  PROVE  phase \in {"DISCOVERY", "MAPPING"} /\ phase' = "BUILD_RT"
<1>1. phase \in {"DISCOVERY", "MAPPING"}
  BY Ranks DEF TypeOK, BuildRT
<1> QED
  BY <1>1, Advances DEF BuildRT

LEMMA StepTypeOK ==
  ASSUME TypeOK, LoopInv, PhaseInv, Proved!TypeOK, [Next]_vars
  PROVE  TypeOK'
<1>1. ASSUME NEW b \in Backends, EnableBackend(b)
      PROVE  TypeOK'
  BY <1>1 DEF TypeOK, EnableBackend, loop
<1>2. ASSUME NEW u \in MapUuids, MapChannel(u)
      PROVE  TypeOK'
  <2>1. channelDefs' \in Seq(Uuids)
    BY <1>2, ChoicesAssumption DEF TypeOK, MapChannel
  <2> QED
    BY <1>2, <2>1 DEF TypeOK, MapChannel, loop
<1>3. CASE LoadMappings
  <2>1. channelDefs' \in Seq(Uuids)
    BY <1>3 DEF TypeOK, LoadMappings
  <2> QED
    BY <1>3, <2>1 DEF TypeOK, LoadMappings, loop
<1>4. CASE \E device \in UserEntries : AugmentCatalog(device)
  BY <1>4 DEF TypeOK, AugmentCatalog, setup, loop
<1>5. CASE DiscoverLoad
  BY <1>5 DEF TypeOK, DiscoverLoad, setup, loop
<1>6. CASE DiscoverBegin
  BY <1>6 DEF TypeOK, DiscoverBegin, setup
<1>7. ASSUME NEW b \in Backends, SkipUnregistered(b) \/ ScanThrows(b)
      PROVE  TypeOK'
  BY <1>7 DEF TypeOK, SkipUnregistered, ScanThrows, setup, loop
<1>8. ASSUME NEW b \in Backends, ScanEmpty(b)
      PROVE  TypeOK'
  BY <1>8 DEF TypeOK, ScanEmpty, setup
<1>9. ASSUME NEW b \in Backends, ScanFound(b)
      PROVE  TypeOK'
  <2>1. remaining' \in Seq(Devices)
    BY <1>9, ScannedDevices DEF ScanFound
  <2> QED
    BY <1>9, <2>1 DEF TypeOK, ScanFound, setup
<1>10. CASE Absorb
  <2>1. remaining' \in Seq(Devices)
    BY <1>10 DEF TypeOK, Absorb
  <2>2. 1 \in DOMAIN remaining /\ Head(remaining) = remaining[1]
    BY <1>10 DEF TypeOK, Absorb
  <2>3. adapters' \subseteq Registered
    BY <1>10, <2>2 DEF TypeOK, Absorb, LoopInv, Usable
  <2> QED
    BY <1>10, <2>1, <2>3 DEF TypeOK, Absorb, setup
<1>11. CASE DiscoverPurge
  BY <1>11 DEF TypeOK, DiscoverPurge, setup, loop
<1>12. CASE DiscoverSave
  BY <1>12 DEF TypeOK, DiscoverSave, setup, loop
<1>13. CASE DiscoverWrite
  <2>1. durable' \in Seq(Catalog!Entry)
    BY <1>13 DEF TypeOK, DiscoverWrite, Proved!TypeOK, Proved!Entry, Proved!Ids,
                 Catalog!Entry, Catalog!Ids
  <2>2. cut' \in BOOLEAN
    BY <1>13 DEF DiscoverWrite
  <2> QED
    BY <1>13, <2>1, <2>2 DEF TypeOK, DiscoverWrite, setup, loop
<1>14. CASE MappingOpen
  BY <1>14 DEF TypeOK, MappingOpen, loop, Catalog!Unparsed
<1>15. CASE MappingWrite
  BY <1>15 DEF TypeOK, MappingWrite, loop
<1>16. CASE DiscoverFinish
  <2>1. phase' = "MAPPING"
    BY <1>16, Advances DEF DiscoverFinish, PhaseInv
  <2> QED
    BY <1>16, <2>1 DEF TypeOK, DiscoverFinish, setup, loop
<1>17. CASE BuildRT
  <2>1. Offered \subseteq Uuids
    BY DEF TypeOK, Offered
  <2>2. \A built \in SUBSET adapters : built \subseteq Backends
    BY ChoicesAssumption DEF TypeOK
  <2>3. context' \in [backends : SUBSET Backends, offered : SUBSET Uuids]
    BY <1>17, <2>1, <2>2 DEF BuildRT
  <2> QED
    BY <1>17, <2>3, BuildPhase DEF TypeOK, BuildRT, setup, loop
<1>18. CASE Restart
  <2>1. cut' \in BOOLEAN
    BY <1>18 DEF Restart, TypeOK, Proved!TypeOK
  <2> QED
    BY <1>18, <2>1 DEF TypeOK, Restart
<1>19. CASE UNCHANGED vars
  BY <1>19 DEF TypeOK, vars, setup, loop
<1> QED
  BY <1>1, <1>2, <1>3, <1>4, <1>5, <1>6, <1>7, <1>8, <1>9, <1>10, <1>11, <1>12, <1>13,
     <1>14, <1>15, <1>16, <1>17, <1>18, <1>19 DEF Next, DiscoverStep

LEMMA StepLoop ==
  ASSUME TypeOK, LoopInv, [Next]_vars
  PROVE  LoopInv'
<1>1. ASSUME NEW b \in Backends, EnableBackend(b)
      PROVE  LoopInv'
  BY <1>1 DEF LoopInv, Usable, EnableBackend, loop
<1>2. CASE \/ \E u \in MapUuids : MapChannel(u)
           \/ LoadMappings
           \/ \E device \in UserEntries : AugmentCatalog(device)
           \/ BuildRT
  BY <1>2 DEF LoopInv, Usable, Awaited, MapChannel, LoadMappings, AugmentCatalog, BuildRT,
              setup, loop
<1>3. CASE DiscoverLoad
  BY <1>3 DEF LoopInv, Usable, DiscoverLoad, setup, loop
<1>4. CASE DiscoverBegin
  BY <1>4 DEF LoopInv, Usable, Awaited, DiscoverBegin, setup
<1>5. ASSUME NEW b \in Backends, SkipUnregistered(b)
      PROVE  LoopInv'
  BY <1>5 DEF LoopInv, Usable, Awaited, SkipUnregistered, setup
<1>6. ASSUME NEW b \in Backends, ScanThrows(b)
      PROVE  LoopInv'
  BY <1>6 DEF LoopInv, Usable, ScanThrows, setup, loop
<1>7. ASSUME NEW b \in Backends, ScanEmpty(b)
      PROVE  LoopInv'
  BY <1>7 DEF LoopInv, Usable, Awaited, ScanEmpty, setup
<1>8. ASSUME NEW b \in Backends, ScanFound(b)
      PROVE  LoopInv'
  <2>1. remaining' \in Seq({d \in Devices : d.backend = b})
    BY <1>8, ScansAssumption DEF ScanFound
  <2>2. \A i \in DOMAIN remaining' : remaining'[i].backend = b
    BY <2>1
  <2>3. 1 \in DOMAIN remaining'
    <3>1. remaining' # << >>
      BY <1>8 DEF ScanFound
    <3> QED
      BY <2>1, <3>1
  <2>4. DOMAIN remaining = {}
    BY <1>8 DEF ScanFound
  <2> QED
    BY <1>8, <2>2, <2>3, <2>4 DEF LoopInv, Usable, Awaited, ScanFound, setup
<1>9. CASE Absorb
  <2> DEFINE n == Len(remaining)
  <2>1. n \in Nat \ {0} /\ DOMAIN remaining = 1..n /\ Head(remaining) = remaining[1]
    BY <1>9 DEF TypeOK, Absorb
  <2>2. DOMAIN remaining' = 1..(n - 1) /\ \A i \in 1..(n - 1) : remaining'[i] = remaining[i + 1]
    BY <1>9, <2>1 DEF TypeOK, Absorb
  <2>3. \A i \in DOMAIN remaining' : i + 1 \in DOMAIN remaining /\ remaining'[i] = remaining[i + 1]
    BY <2>1, <2>2
  <2>4. \A i \in DOMAIN remaining : remaining[i].backend = remaining[1].backend
    BY <2>1 DEF LoopInv
  <2>5. remaining[1].backend \in Usable
    BY <2>1 DEF LoopInv
  <2>6. adapters \subseteq adapters' /\ adapters' \subseteq Usable
    BY <1>9, <2>1, <2>5 DEF Absorb, LoopInv
  <2>7. remaining[1].backend \in adapters' \/ \E i \in DOMAIN remaining' : remaining'[i].backend = remaining[1].backend
    <3>1. CASE n = 1
      BY <1>9, <2>1, <3>1 DEF Absorb
    <3>2. CASE n # 1
      <4>1. 1 \in DOMAIN remaining' /\ 2 \in DOMAIN remaining
        BY <2>1, <2>2, <3>2
      <4>2. remaining'[1] = remaining[2]
        BY <2>2, <4>1
      <4> QED
        BY <4>1, <4>2, <2>4
    <3> QED
      BY <3>1, <3>2
  <2>8. pc = "scan" /\ pc' = pc /\ enabled' = enabled /\ todo' = todo /\ Usable' = Usable
    BY <1>9 DEF Absorb, setup, Usable
  <2>9. \A i, j \in DOMAIN remaining' : remaining'[i].backend = remaining'[j].backend
    BY <2>3, <2>4
  <2>10. \A i \in DOMAIN remaining' : remaining'[i].backend \in Usable
    BY <2>3, <2>4, <2>5
  <2>11. \A b \in Usable : b \in adapters' \/ Awaited(b)'
    <3> HIDE DEF n
    <3> SUFFICES ASSUME NEW b \in Usable, b \notin adapters', b \notin todo
                 PROVE  \E i \in DOMAIN remaining' : remaining'[i].backend = b
      BY <2>8 DEF Awaited
    <3>1. PICK i \in DOMAIN remaining : remaining[i].backend = b
      BY <2>6, <2>8 DEF LoopInv, Awaited
    <3>2. b = remaining[1].backend
      BY <3>1, <2>4
    <3> QED
      BY <3>2, <2>7
  <2> HIDE DEF n
  <2>12. todo \subseteq enabled
    BY DEF LoopInv
  <2> QED
    BY <2>6, <2>8, <2>9, <2>10, <2>11, <2>12 DEF LoopInv
<1>10. CASE DiscoverPurge
  <2>1. \A b \in Usable : b \in adapters
    BY <1>10 DEF DiscoverPurge, LoopInv, Awaited
  <2> QED
    BY <1>10, <2>1 DEF LoopInv, Usable, DiscoverPurge, setup, loop
<1>11. CASE DiscoverSave \/ DiscoverWrite \/ MappingOpen \/ MappingWrite \/ DiscoverFinish
  BY <1>11 DEF LoopInv, Usable, DiscoverSave, DiscoverWrite, MappingOpen, MappingWrite,
               DiscoverFinish, setup, loop
<1>12. CASE Restart
  BY <1>12 DEF LoopInv, Usable, Restart
<1>13. CASE UNCHANGED vars
  BY <1>13 DEF LoopInv, Usable, Awaited, vars, setup, loop
<1> QED
  BY <1>1, <1>2, <1>3, <1>4, <1>5, <1>6, <1>7, <1>8, <1>9, <1>10, <1>11, <1>12, <1>13
     DEF Next, DiscoverStep

LEMMA StepPhase ==
  ASSUME TypeOK, PhaseInv, [Next]_vars
  PROVE  PhaseInv'
<1>1. CASE DiscoverFinish
  <2>1. phase' = "MAPPING" /\ pc' = "idle"
    BY <1>1, Advances DEF DiscoverFinish, PhaseInv
  <2> QED
    BY <1>1, <2>1 DEF PhaseInv, DiscoverFinish
<1>2. CASE BuildRT
  BY <1>2, BuildPhase DEF PhaseInv, BuildRT
<1>3. CASE \/ \E b \in Backends : EnableBackend(b)
           \/ \E u \in MapUuids : MapChannel(u)
           \/ LoadMappings
           \/ \E device \in UserEntries : AugmentCatalog(device)
           \/ DiscoverLoad \/ Restart \/ UNCHANGED vars
  BY <1>3 DEF PhaseInv, EnableBackend, MapChannel, LoadMappings, AugmentCatalog, DiscoverLoad,
              Restart, vars
<1>4. CASE \/ DiscoverBegin \/ Absorb \/ DiscoverPurge \/ DiscoverSave \/ DiscoverWrite
           \/ MappingOpen \/ MappingWrite
           \/ \E b \in Backends :
                SkipUnregistered(b) \/ ScanThrows(b) \/ ScanEmpty(b) \/ ScanFound(b)
  BY <1>4 DEF PhaseInv, DiscoverBegin, Absorb, DiscoverPurge, DiscoverSave, DiscoverWrite,
              MappingOpen, MappingWrite, SkipUnregistered, ScanThrows, ScanEmpty, ScanFound
<1> QED
  BY <1>1, <1>2, <1>3, <1>4 DEF Next, DiscoverStep

LEMMA StepPurge ==
  ASSUME OwnCycle, [Next]_vars
  PROVE  OwnCycle'
<1>1. CASE DiscoverBegin
  BY <1>1 DEF OwnCycle, DiscoverBegin, Catalog!BeginDiscovery
<1>2. CASE DiscoverPurge
  BY <1>2 DEF OwnCycle, DiscoverPurge, Catalog!PurgeStaleEntries
<1>3. CASE Absorb \/ \E b \in Backends : ScanFound(b)
  BY <1>3 DEF OwnCycle, Absorb, ScanFound, Catalog!AddEntry,
              Catalog!MarkBackendParticipated
<1>4. CASE \E b \in Backends : SkipUnregistered(b) \/ ScanEmpty(b) \/ ScanThrows(b)
  BY <1>4 DEF OwnCycle, SkipUnregistered, ScanEmpty, ScanThrows, catalogVars
<1>5. CASE \/ \E b \in Backends : EnableBackend(b)
           \/ \E u \in MapUuids : MapChannel(u)
           \/ LoadMappings
           \/ \E device \in UserEntries : AugmentCatalog(device)
           \/ BuildRT \/ DiscoverLoad \/ Restart
  BY <1>5 DEF OwnCycle, EnableBackend, MapChannel, LoadMappings, AugmentCatalog, BuildRT,
              DiscoverLoad, Restart
<1>6. CASE DiscoverSave \/ DiscoverWrite \/ MappingOpen \/ MappingWrite \/ DiscoverFinish
  BY <1>6 DEF OwnCycle, DiscoverSave, DiscoverWrite, MappingOpen, MappingWrite,
              DiscoverFinish
<1>7. CASE UNCHANGED vars
  BY <1>7 DEF OwnCycle, vars, catalogVars
<1> QED
  BY <1>1, <1>2, <1>3, <1>4, <1>5, <1>6, <1>7 DEF Next, DiscoverStep

LEMMA InitOrch ==
  ASSUME \A f \in StoredFiles : Proved!WellFormed(f), Init
  PROVE  OrchInv
<1>1. Proved!CatalogInv
  BY CatalogAssumptions, SameDefinitions, Proved!InitInv DEF Init
<1>2. durable \in Seq(Catalog!Entry)
  <2>1. file \in Seq(Catalog!Entry) \cup Catalog!Unparsed
    BY CatalogAssumption DEF Init, Catalog!Init, Catalog!Unparsed
  <2> QED
    BY <2>1 DEF Init
<1>3. TypeOK
  <2>1. channelDefs \in Seq(Uuids) /\ remaining \in Seq(Devices)
    BY DEF Init
  <2>2. /\ phase = "DISCOVERY" /\ enabled = {} /\ adapters = {} /\ mappingFile = NoFile
        /\ context = NoContext /\ pc = "idle" /\ todo = {} /\ outcome = "none" /\ cut = FALSE
    BY DEF Init
  <2> QED
    BY <1>2, <2>1, <2>2 DEF TypeOK, Catalog!Unparsed
<1> QED
  BY <1>1, <1>3 DEF Init, OrchInv, LoopInv, Usable, PhaseInv, OwnCycle

LEMMA StepOrch ==
  ASSUME OrchInv, [Next]_vars
  PROVE  OrchInv'
<1>1. RemainingInv /\ Proved!TypeOK
  BY DEF OrchInv, TypeOK, RemainingInv, Proved!CatalogInv
<1>2. Proved!CatalogInv'
  BY <1>1, StepCatalogInv DEF OrchInv
<1>3. TypeOK' /\ LoopInv' /\ PhaseInv'
  BY <1>1, StepTypeOK, StepLoop, StepPhase DEF OrchInv
<1>4. OwnCycle'
  BY StepPurge DEF OrchInv
<1> QED
  BY <1>2, <1>3, <1>4 DEF OrchInv

(* The invariant behind the theorems below, for any backends, scans, faults  *)
(* and well-formed catalog file.                                             *)
THEOREM OrchestratorInvariant ==
  ASSUME \A f \in StoredFiles : Proved!WellFormed(f)
  PROVE  Spec => []OrchInv
<1>1. Init => OrchInv
  BY InitOrch
<1>2. OrchInv /\ [Next]_vars => OrchInv'
  BY StepOrch
<1> QED
  BY <1>1, <1>2, PTL DEF Spec

(* The state stays well typed, the catalog's own state included.             *)
THEOREM OrchestratorTyped ==
  ASSUME \A f \in StoredFiles : Proved!WellFormed(f)
  PROVE  Spec => [](TypeOK /\ Proved!CatalogInv)
<1>1. OrchInv => TypeOK /\ Proved!CatalogInv
  BY DEF OrchInv
<1> QED
  BY <1>1, OrchestratorInvariant, PTL

(* The loop leaves an adapter behind for every backend that was enabled and  *)
(* has a creator, in whatever order it visits them and after any number of   *)
(* calls that a scanner threw out of.                                        *)
THEOREM NoAdapterMissed ==
  ASSUME \A f \in StoredFiles : Proved!WellFormed(f)
  PROVE  Spec => []EveryAdapterPending
<1>1. OrchInv => EveryAdapterPending
  BY DEF OrchInv, LoopInv, Usable, EveryAdapterPending
<1> QED
  BY <1>1, OrchestratorInvariant, PTL

(* In the orchestrator the catalog is the table that ChannelTable specifies: *)
(* what discover(), augmentCatalog() and buildRT() do to entries and index,  *)
(* scanners that throw, failed writes and restarts included, are calls of a  *)
(* table of channels by uuid.                                                *)
THEOREM OrchestratorKeepsTable ==
  ASSUME \A f \in StoredFiles : Proved!WellFormed(f)
  PROVE  Spec => Proved!TableSpec
<1>1. Init => OrchInv /\ Proved!SavingTorn /\ Proved!Table!Init
  <2>1. Init => Proved!Init
    BY SameDefinitions DEF Init
  <2>2. Init => Proved!SavingTorn
    BY <2>1 DEF Proved!Init, Proved!SavingTorn
  <2> QED
    BY <2>1, <2>2, InitOrch, CatalogAssumptions, Proved!InitTable
<1>2. ASSUME OrchInv, Proved!SavingTorn, [Next]_vars
      PROVE  Proved!SavingTorn' /\ [Proved!Table!Next]_(Proved!Table!vars)
  <2>1. RemainingInv /\ Proved!CatalogInv
    BY <1>2 DEF OrchInv, TypeOK, RemainingInv
  <2>2. [Proved!Next]_(Proved!vars)
    BY <1>2, <2>1, StepProved
  <2> QED
    BY <1>2, <2>1, <2>2, CatalogAssumptions, Proved!StepTorn, Proved!StepTable
<1> QED
  BY <1>1, <1>2, StepOrch, PTL DEF Spec, Proved!TableSpec, Proved!Table!Spec

-------------------------------------------------------------------------------
(* What is written to the catalog file. *)

(* The catalog is what the scans of this cycle reported. *)
MatchesScans ==
  /\ \A u \in reported : \E i \in DOMAIN entries : entries[i].uuid = u
  /\ \A i \in DOMAIN entries :
       entries[i].backend \in participated => entries[i].uuid \in reported

WriteInv ==
  /\ pc = "scan" => discoveryMode
  /\ pc \in {"save", "write"} => MatchesScans

LEMMA StepWrite ==
  ASSUME OrchInv, WriteInv, [Next]_vars
  PROVE  WriteInv'
<1>1. CASE DiscoverBegin
  BY <1>1 DEF WriteInv, DiscoverBegin, Catalog!BeginDiscovery
<1>2. CASE DiscoverPurge
  <2>1. discoveryMode /\ ~reloaded /\ Proved!PurgeStaleEntries
    BY <1>2, SameDefinitions DEF DiscoverPurge, WriteInv, OrchInv, OwnCycle
  <2>2. /\ \A u \in reported : \E i \in DOMAIN entries' : entries'[i].uuid = u
        /\ \A i \in DOMAIN entries' :
             entries'[i].backend \in participated => entries'[i].uuid \in reported
    BY <2>1, CatalogAssumptions, Proved!PurgeKeepsReported DEF OrchInv
  <2>3. UNCHANGED <<reported, participated>> /\ pc' = "save"
    BY <1>2 DEF DiscoverPurge, Catalog!PurgeStaleEntries
  <2> QED
    BY <2>2, <2>3 DEF WriteInv, MatchesScans
<1>3. CASE Absorb \/ \E b \in Backends : ScanFound(b)
  BY <1>3 DEF WriteInv, Absorb, ScanFound, Catalog!AddEntry, Catalog!MarkBackendParticipated
<1>4. CASE \E b \in Backends : SkipUnregistered(b) \/ ScanEmpty(b) \/ ScanThrows(b)
  BY <1>4 DEF WriteInv, SkipUnregistered, ScanEmpty, ScanThrows, catalogVars
<1>5. CASE DiscoverSave
  <2>1. UNCHANGED <<entries, reported, participated>>
    BY <1>5 DEF DiscoverSave, Catalog!SaveOpen, Catalog!contents, Catalog!cycle, catalogVars
  <2> QED
    BY <1>5, <2>1 DEF WriteInv, MatchesScans, DiscoverSave
<1>6. CASE DiscoverWrite \/ MappingOpen \/ MappingWrite \/ DiscoverFinish \/ DiscoverLoad
           \/ Restart
  BY <1>6 DEF WriteInv, DiscoverWrite, MappingOpen, MappingWrite, DiscoverFinish, DiscoverLoad,
              Restart
<1>7. CASE \/ \E b \in Backends : EnableBackend(b)
           \/ \E u \in MapUuids : MapChannel(u)
           \/ LoadMappings
           \/ \E device \in UserEntries : AugmentCatalog(device)
           \/ BuildRT
  BY <1>7 DEF WriteInv, EnableBackend, MapChannel, LoadMappings, AugmentCatalog, BuildRT
<1>8. CASE UNCHANGED vars
  BY <1>8 DEF WriteInv, MatchesScans, vars, catalogVars
<1> QED
  BY <1>1, <1>2, <1>3, <1>4, <1>5, <1>6, <1>7, <1>8 DEF Next, DiscoverStep

LEMMA OnlyWriteChanges ==
  ASSUME [Next]_vars, durable' # durable
  PROVE  DiscoverWrite /\ Catalog!SaveWrite /\ durable' = entries
<1>1. CASE DiscoverWrite
  BY <1>1 DEF DiscoverWrite
<1>2. CASE \/ \E b \in Backends : EnableBackend(b)
           \/ \E u \in MapUuids : MapChannel(u)
           \/ LoadMappings
           \/ \E device \in UserEntries : AugmentCatalog(device)
           \/ BuildRT \/ DiscoverLoad \/ Restart \/ UNCHANGED vars
  BY <1>2 DEF EnableBackend, MapChannel, LoadMappings, AugmentCatalog, BuildRT, DiscoverLoad,
              Restart, vars
<1>3. CASE \/ DiscoverBegin \/ Absorb \/ DiscoverPurge \/ DiscoverSave
           \/ MappingOpen \/ MappingWrite \/ DiscoverFinish
           \/ \E b \in Backends :
                SkipUnregistered(b) \/ ScanThrows(b) \/ ScanEmpty(b) \/ ScanFound(b)
  BY <1>3 DEF DiscoverBegin, Absorb, DiscoverPurge, DiscoverSave, MappingOpen, MappingWrite,
              DiscoverFinish, SkipUnregistered, ScanThrows, ScanEmpty, ScanFound
<1> QED
  BY <1>1, <1>2, <1>3 DEF Next, DiscoverStep

(* A catalog written out in full is exactly what the scans reported of the   *)
(* backends that took part, next to the entries of the others.               *)
THEOREM WrittenIsScanned ==
  ASSUME \A f \in StoredFiles : Proved!WellFormed(f)
  PROVE  Spec => WrittenMatchesScans
<1> DEFINE Written ==
      durable' # durable =>
        /\ \A u \in reported : \E i \in DOMAIN durable' : durable'[i].uuid = u
        /\ \A i \in DOMAIN durable' :
             durable'[i].backend \in participated => durable'[i].uuid \in reported
<1>1. Init => WriteInv
  BY DEF Init, WriteInv
<1>2. OrchInv /\ WriteInv /\ [Next]_vars => WriteInv'
  BY StepWrite
<1>3. WriteInv /\ [Next]_vars => [Written]_vars
  <2>1. SUFFICES ASSUME WriteInv, [Next]_vars, durable' # durable
                 PROVE  Written
    OBVIOUS
  <2>2. pc = "write" /\ durable' = entries
    BY <2>1, OnlyWriteChanges DEF DiscoverWrite
  <2> QED
    BY <2>1, <2>2 DEF WriteInv, MatchesScans
<1> QED
  BY <1>1, <1>2, <1>3, OrchestratorInvariant, PTL DEF Spec, WrittenMatchesScans

-------------------------------------------------------------------------------
(* What is offered to the adapters. *)

Added == {Catalog!Identified(d).uuid : d \in UserEntries}

(* What the catalog has of a backend that took part was found, or added.     *)
PresentIn(es) ==
  \A i \in DOMAIN es : es[i].backend \in participated => es[i].uuid \in reported \cup Added

Purged == pc \in {"save", "write", "map", "mapwrite", "finish"}
Complete == outcome \in {"found", "nothing"}

PresentInv ==
  /\ Purged \/ (pc = "idle" /\ Complete) => PresentIn(entries)
  /\ context # NoContext =>
       \A u \in context.offered : \E i \in DOMAIN entries : entries[i].uuid = u

ScanSteps ==
  \/ Absorb
  \/ \E b \in Backends : SkipUnregistered(b) \/ ScanThrows(b) \/ ScanEmpty(b) \/ ScanFound(b)

LEMMA StepPresent ==
  ASSUME OrchInv, WriteInv, PresentInv, [Next]_vars
  PROVE  PresentInv'
<1>1. CASE UNCHANGED <<entries, participated, reported, context>> /\ pc' = pc /\ outcome' = outcome
  BY <1>1 DEF PresentInv, PresentIn, Purged, Complete
<1>2. CASE DiscoverPurge
  <2>1. discoveryMode /\ ~reloaded /\ Proved!PurgeStaleEntries
    BY <1>2, SameDefinitions DEF DiscoverPurge, WriteInv, OrchInv, OwnCycle
  <2>2. \A i \in DOMAIN entries' :
          entries'[i].backend \in participated => entries'[i].uuid \in reported
    BY <2>1, CatalogAssumptions, Proved!PurgeKeepsReported DEF OrchInv
  <2>3. UNCHANGED <<reported, participated, context>> /\ context = NoContext
    BY <1>2 DEF DiscoverPurge, Catalog!PurgeStaleEntries, OrchInv, PhaseInv
  <2> QED
    BY <2>2, <2>3 DEF PresentInv, PresentIn
<1>3. CASE DiscoverSave \/ DiscoverWrite \/ MappingOpen \/ MappingWrite \/ DiscoverFinish
  <2>1. /\ UNCHANGED <<entries, participated, reported, context>> /\ Purged
    BY <1>3 DEF DiscoverSave, DiscoverWrite, MappingOpen, MappingWrite, DiscoverFinish, Purged,
                Catalog!SaveOpen, Catalog!SaveWrite, Catalog!SaveLost, Catalog!contents,
                Catalog!cycle, catalogVars
  <2> QED
    BY <2>1 DEF PresentInv, PresentIn
<1>4. CASE DiscoverLoad \/ DiscoverBegin \/ ScanSteps
  <2>1. context' = context /\ context = NoContext
    BY <1>4 DEF DiscoverLoad, DiscoverBegin, ScanSteps, Absorb, SkipUnregistered, ScanThrows,
                ScanEmpty, ScanFound, OrchInv, PhaseInv
  <2>2. ~(Purged \/ (pc = "idle" /\ Complete))'
    BY <1>4 DEF DiscoverLoad, DiscoverBegin, ScanSteps, Absorb, SkipUnregistered, ScanThrows,
                ScanEmpty, ScanFound, Purged, Complete
  <2> QED
    BY <2>1, <2>2 DEF PresentInv
<1>5. ASSUME NEW device \in UserEntries, AugmentCatalog(device)
      PROVE  PresentInv'
  <2> DEFINE e == Catalog!Identified(device)
  <2>1. /\ UNCHANGED <<pc, outcome, context, participated>> /\ context = NoContext
        /\ reported \subseteq reported'
    BY <1>5 DEF AugmentCatalog, Catalog!AddEntry, Catalog!MarkAlive
  <2>2. entries \in Seq(Catalog!Entry) /\ e.uuid \in Added
    BY DEF OrchInv, Proved!CatalogInv, Proved!TypeOK, Proved!Entry, Catalog!Entry, Proved!Ids,
           Catalog!Ids, Added
  <2>3. \/ \E k \in DOMAIN entries : entries' = [entries EXCEPT ![k] = e]
        \/ entries' = Append(entries, e)
    <3>1. CASE uuidIndex[e.uuid] # 0
      <4>1. e.uuid \in Catalog!Ids
        <5>1. device \in Devices
          BY ChoicesAssumption
        <5> QED
          BY <5>1, CatalogAssumption DEF Catalog!Identified, Catalog!Entry, Catalog!Ids
      <4>2. uuidIndex[e.uuid] \in DOMAIN entries
        BY <3>1, <4>1 DEF OrchInv, Proved!CatalogInv, Proved!IndexCoherent, Proved!Ids, Catalog!Ids
      <4> QED
        BY <1>5, <3>1, <4>2 DEF AugmentCatalog, Catalog!AddEntry, Catalog!Put
    <3>2. CASE uuidIndex[e.uuid] = 0
      BY <1>5, <3>2 DEF AugmentCatalog, Catalog!AddEntry, Catalog!Put
    <3> QED
      BY <3>1, <3>2
  <2> HIDE DEF e
  <2>4. ASSUME NEW i \in DOMAIN entries'
        PROVE  entries'[i] = e \/ (i \in DOMAIN entries /\ entries'[i] = entries[i])
    BY <2>2, <2>3
  <2>5. PresentIn(entries) => PresentIn(entries)'
    BY <2>1, <2>2, <2>4 DEF PresentIn
  <2> QED
    BY <2>1, <2>5 DEF PresentInv, Purged, Complete
<1>6. CASE BuildRT
  <2>1. UNCHANGED <<entries, participated, reported, pc, outcome>>
    BY <1>6 DEF BuildRT, catalogVars
  <2>2. \A u \in context'.offered : u \in Uuids /\ uuidIndex[u] # 0
    BY <1>6 DEF BuildRT, Offered, OrchInv, TypeOK
  <2>3. \A u \in Uuids : uuidIndex[u] # 0 => \E i \in DOMAIN entries : entries[i].uuid = u
    BY DEF OrchInv, Proved!CatalogInv, Proved!IndexCoherent, Proved!Ids
  <2> QED
    BY <2>1, <2>2, <2>3 DEF PresentInv, PresentIn, Purged, Complete
<1>7. CASE Restart
  BY <1>7 DEF Restart, PresentInv, Purged, Complete
<1>8. CASE \/ \E b \in Backends : EnableBackend(b)
           \/ \E u \in MapUuids : MapChannel(u)
           \/ LoadMappings \/ UNCHANGED vars
  BY <1>1, <1>8 DEF EnableBackend, MapChannel, LoadMappings, vars, catalogVars
<1> QED
  BY <1>2, <1>3, <1>4, <1>5, <1>6, <1>7, <1>8 DEF Next, DiscoverStep, ScanSteps

(* After a discover() gone through to the end, no adapter is offered a       *)
(* channel of a backend that took part and did not report it, whenever the   *)
(* channel was mapped: the purge is in time for every definition.            *)
THEOREM GoneNeverOffered ==
  ASSUME \A f \in StoredFiles : Proved!WellFormed(f)
  PROVE  Spec => []GoneNotOffered
<1>1. Init => WriteInv /\ PresentInv
  BY DEF Init, WriteInv, PresentInv, Purged, Complete
<1>2. OrchInv /\ WriteInv /\ PresentInv /\ [Next]_vars => WriteInv' /\ PresentInv'
  BY StepWrite, StepPresent
<1>3. OrchInv /\ PresentInv => GoneNotOffered
  <2> SUFFICES ASSUME OrchInv, PresentInv, context # NoContext, Complete, NEW u \in context.offered
               PROVE  \E i \in DOMAIN entries :
                        /\ entries[i].uuid = u
                        /\ entries[i].backend \in participated =>
                             u \in reported \/ \E d \in UserEntries : Catalog!Identified(d).uuid = u
    BY DEF GoneNotOffered, Complete
  <2>1. PICK i \in DOMAIN entries : entries[i].uuid = u
    BY DEF PresentInv
  <2>2. pc = "idle"
    BY DEF OrchInv, PhaseInv
  <2> QED
    BY <2>1, <2>2 DEF PresentInv, PresentIn, Added
<1> QED
  BY <1>1, <1>2, <1>3, OrchestratorInvariant, PTL DEF Spec

-------------------------------------------------------------------------------
(* What a rewrite of the catalog file keeps of the one before. *)

Survives(es) ==
  \A i \in DOMAIN durable :
    durable[i].backend \notin participated => Catalog!Lists(es, durable[i].uuid, durable[i].backend)

(* As long as no save() has been cut off: the file is the last catalog       *)
(* written in full, and from the load on the one in memory still lists what  *)
(* that had of the backends that have not taken part.                        *)
FileDurable == file = durable \/ (durable = << >> /\ file \in Catalog!Unparsed)

DurableInv ==
  /\ saving <=> pc = "write"
  /\ pc = "begin" => \A i \in DOMAIN durable :
       ~cut => Catalog!Lists(entries, durable[i].uuid, durable[i].backend)
  /\ ~cut /\ pc # "write" => FileDurable
  /\ ~cut /\ pc \in {"scan", "save", "write"} => Survives(entries)

LEMMA KeptOn ==
  ASSUME Survives(entries), Proved!AllListed, UNCHANGED durable, participated \subseteq participated'
  PROVE  Survives(entries)'
<1>1. SUFFICES ASSUME NEW i \in DOMAIN durable, durable[i].backend \notin participated
               PROVE  Catalog!Lists(entries', durable[i].uuid, durable[i].backend)
  BY DEF Survives
<1>2. Catalog!Lists(entries, durable[i].uuid, durable[i].backend)
  BY <1>1 DEF Survives
<1>3. PICK j \in DOMAIN entries :
        entries[j].uuid = durable[i].uuid /\ entries[j].backend = durable[i].backend
  BY <1>2 DEF Catalog!Lists
<1>4. Proved!Lists(entries', entries[j].uuid, entries[j].backend)
  BY <1>1, <1>3 DEF Proved!AllListed
<1> QED
  BY <1>3, <1>4 DEF Proved!Lists, Catalog!Lists

LEMMA StepDurable ==
  ASSUME \A es \in Seq(Catalog!Entry) : es \notin Catalog!Unparsed,
         NEW owner, Proved!Disjoint(owner), Proved!OwnInv(owner),
         OrchInv, DurableInv, [Next]_vars
  PROVE  DurableInv'
<1>1. CASE DiscoverLoad
  <2>1. Catalog!Load /\ UNCHANGED <<file, saving, durable, cut>> /\ pc' = "begin"
    BY <1>1 DEF DiscoverLoad, Catalog!Load, Catalog!disk
  <2>2. ~saving
    BY <2>1 DEF Catalog!Load
  <2>3. ASSUME NEW i \in DOMAIN durable, ~cut
        PROVE  Catalog!Lists(entries', durable[i].uuid, durable[i].backend)
    <3>1. FileDurable
      BY <1>1, <2>3 DEF DiscoverLoad, DurableInv
    <3>2. file = durable
      BY <2>3, <3>1 DEF FileDurable
    <3>3. file \notin Catalog!Unparsed
      BY <3>2 DEF OrchInv, TypeOK
    <3>4. entries' = durable
      BY <2>1, <3>2, <3>3 DEF Catalog!Load
    <3> QED
      BY <3>4 DEF Catalog!Lists
  <2>4. ~cut => FileDurable
    BY <1>1 DEF DiscoverLoad, DurableInv
  <2> QED
    BY <2>1, <2>2, <2>3, <2>4 DEF DurableInv, FileDurable
<1>2. CASE DiscoverBegin
  <2>1. /\ UNCHANGED <<entries, file, saving, durable, cut>> /\ pc = "begin" /\ pc' = "scan"
        /\ participated' = {}
    BY <1>2 DEF DiscoverBegin, Catalog!BeginDiscovery, Catalog!contents, Catalog!disk
  <2>2. ~saving /\ (~cut => FileDurable)
    BY <2>1 DEF DurableInv
  <2>3. ~cut => Survives(entries)'
    BY <2>1 DEF DurableInv, Survives
  <2> QED
    BY <2>1, <2>2, <2>3 DEF DurableInv, FileDurable
<1>3. CASE Absorb
  <2>1. Head(remaining) \in Devices
    BY <1>3 DEF Absorb, OrchInv, TypeOK
  <2>2. Proved!AddEntry(Head(remaining))
    BY <1>3, <2>1, SameDefinitions DEF Absorb
  <2>3. Proved!AllListed
    BY <2>1, <2>2, CatalogAssumptions, Proved!AddOwned DEF OrchInv
  <2>4. UNCHANGED <<file, saving, participated, durable, cut, pc>> /\ pc = "scan"
    BY <1>3 DEF Absorb, Catalog!AddEntry, Catalog!disk
  <2>5. ~cut => Survives(entries)'
    BY <2>3, <2>4, KeptOn DEF DurableInv
  <2> QED
    BY <2>4, <2>5 DEF DurableInv, FileDurable
<1>4. CASE DiscoverPurge
  <2>1. Proved!PurgeStaleEntries
    BY <1>4, SameDefinitions DEF DiscoverPurge
  <2>2. Proved!AllListed
    BY <2>1, CatalogAssumptions, Proved!PurgeOwned DEF OrchInv
  <2>3. UNCHANGED <<file, saving, participated, durable, cut>> /\ pc = "scan" /\ pc' = "save"
    BY <1>4 DEF DiscoverPurge, Catalog!PurgeStaleEntries, Catalog!disk
  <2>4. ~cut => Survives(entries)'
    BY <2>2, <2>3, KeptOn DEF DurableInv
  <2> QED
    BY <2>3, <2>4 DEF DurableInv, FileDurable
<1>5. ASSUME NEW b \in Backends, ScanFound(b)
      PROVE  DurableInv'
  <2>1. /\ UNCHANGED <<entries, file, saving, durable, cut, pc>> /\ pc = "scan"
        /\ participated' = participated \cup {b}
    BY <1>5 DEF ScanFound, Catalog!MarkBackendParticipated, Catalog!contents, Catalog!disk
  <2>2. ~cut => Survives(entries)'
    BY <2>1 DEF DurableInv, Survives
  <2> QED
    BY <2>1, <2>2 DEF DurableInv, FileDurable
<1>6. CASE \E b \in Backends : SkipUnregistered(b) \/ ScanEmpty(b) \/ ScanThrows(b)
  <2>1. /\ UNCHANGED <<entries, participated, file, saving, durable, cut>> /\ pc = "scan"
        /\ pc' \in {"scan", "idle"}
    BY <1>6 DEF SkipUnregistered, ScanEmpty, ScanThrows, catalogVars
  <2> QED
    BY <2>1 DEF DurableInv, FileDurable, Survives
<1>7. CASE DiscoverSave
  <2>1. UNCHANGED <<entries, participated, durable, cut>> /\ pc = "save"
    BY <1>7 DEF DiscoverSave, Catalog!SaveOpen, Catalog!contents, Catalog!cycle, catalogVars
  <2>2. (pc' = "write" /\ saving') \/ (pc' = "map" /\ UNCHANGED <<file, saving>>)
    BY <1>7 DEF DiscoverSave, Catalog!SaveOpen, catalogVars
  <2>3. ~cut => FileDurable /\ Survives(entries)
    BY <2>1 DEF DurableInv
  <2> QED
    BY <2>1, <2>2, <2>3 DEF DurableInv, FileDurable, Survives
<1>8. CASE DiscoverWrite
  <2>1. ~saving' /\ pc' = "map"
    BY <1>8 DEF DiscoverWrite, Catalog!SaveWrite, Catalog!SaveLost
  <2>2. ~cut' => file' = durable'
    BY <1>8 DEF DiscoverWrite, Catalog!SaveWrite
  <2> QED
    BY <2>1, <2>2 DEF DurableInv, FileDurable
<1>9. CASE MappingOpen \/ MappingWrite \/ DiscoverFinish
  <2>1. /\ UNCHANGED <<file, saving, durable, cut>>
        /\ pc \notin {"begin", "scan", "save", "write"}
        /\ pc' \notin {"begin", "scan", "save", "write"}
    BY <1>9 DEF MappingOpen, MappingWrite, DiscoverFinish, catalogVars
  <2> QED
    BY <2>1 DEF DurableInv, FileDurable
<1>10. CASE Restart
  <2>1. /\ UNCHANGED <<file, durable>> /\ ~saving' /\ pc' = "idle"
        /\ ~cut' => ~cut /\ ~saving
    BY <1>10 DEF Restart, Catalog!NewProcess
  <2>2. CASE pc # "write"
    BY <2>1, <2>2 DEF DurableInv, FileDurable
  <2>3. CASE pc = "write"
    BY <2>1, <2>3 DEF DurableInv
  <2> QED
    BY <2>1, <2>2, <2>3 DEF DurableInv
<1>11. CASE \/ \E b \in Backends : EnableBackend(b)
            \/ \E u \in MapUuids : MapChannel(u)
            \/ LoadMappings
            \/ \E device \in UserEntries : AugmentCatalog(device)
            \/ BuildRT
  <2>1. UNCHANGED <<file, saving, durable, cut, pc>> /\ pc = "idle"
    BY <1>11 DEF EnableBackend, MapChannel, LoadMappings, AugmentCatalog, BuildRT, catalogVars,
                 Catalog!AddEntry, Catalog!disk
  <2> QED
    BY <2>1 DEF DurableInv, FileDurable
<1>12. CASE UNCHANGED vars
  BY <1>12 DEF DurableInv, FileDurable, Survives, vars, catalogVars
<1> QED
  BY <1>1, <1>2, <1>3, <1>4, <1>5, <1>6, <1>7, <1>8, <1>9, <1>10, <1>11, <1>12
     DEF Next, DiscoverStep

(* When no two backends use the same uuid, no catalog written out in full    *)
(* lacks an entry of a backend that took no part in the cycle, as long as no *)
(* save() was cut off since the one before.  That a file cut off is not one  *)
(* that parses is assumed.                                                   *)
THEOREM TerritoryDurable ==
  ASSUME \A f \in StoredFiles : Proved!WellFormed(f),
         \A es \in Seq(Catalog!Entry) : es \notin Catalog!Unparsed,
         NEW owner, Proved!Disjoint(owner)
  PROVE  Spec => TerritoryDurableUncut
<1> DEFINE Kept ==
      ~cut =>
        \A i \in DOMAIN durable :
          durable[i].backend \notin participated =>
            Catalog!Lists(durable', durable[i].uuid, durable[i].backend)
<1>1. Init => DurableInv /\ Proved!OwnInv(owner)
  <2>1. Init => DurableInv
    BY DEF Init, DurableInv, FileDurable, Catalog!Init
  <2>2. Init => Proved!OwnInv(owner)
    BY DEF Init, Catalog!Init, Proved!OwnInv, Proved!Owned, Proved!Disjoint
  <2> QED
    BY <2>1, <2>2
<1>2. OrchInv /\ Proved!OwnInv(owner) /\ [Next]_vars => Proved!OwnInv(owner)'
  <2>1. SUFFICES ASSUME OrchInv, Proved!OwnInv(owner), [Next]_vars
                 PROVE  Proved!OwnInv(owner)'
    OBVIOUS
  <2>2. RemainingInv
    BY <2>1 DEF OrchInv, TypeOK, RemainingInv
  <2>3. [Proved!Next]_(Proved!vars)
    BY <2>1, <2>2, StepProved
  <2> QED
    BY <2>1, <2>3, CatalogAssumptions, Proved!StepOwned DEF OrchInv
<1>3. OrchInv /\ Proved!OwnInv(owner) /\ DurableInv /\ [Next]_vars => DurableInv'
  BY StepDurable
<1>4. DurableInv /\ [Next]_vars => [Kept]_vars
  <2>1. SUFFICES ASSUME DurableInv, [Next]_vars PROVE Kept
    OBVIOUS
  <2>2. CASE durable' = durable
    BY <2>2 DEF Catalog!Lists
  <2>3. CASE durable' # durable
    <3>1. pc = "write" /\ durable' = entries
      BY <2>1, <2>3, OnlyWriteChanges DEF DiscoverWrite
    <3> QED
      BY <2>1, <3>1 DEF DurableInv, Survives
  <2> QED
    BY <2>2, <2>3
<1> QED
  BY <1>1, <1>2, <1>3, <1>4, OrchestratorInvariant, PTL DEF Spec, TerritoryDurableUncut

-------------------------------------------------------------------------------
(* Why discover() returns, which TLC checks under fairness: what is ahead of *)
(* it, and within its loop the backends and descriptors that are left.       *)
Ahead(place) ==
  CASE place = "begin" -> 7
    [] place = "scan" -> 6
    [] place = "save" -> 5
    [] place = "write" -> 4
    [] place = "map" -> 3
    [] place = "mapwrite" -> 2
    [] place = "finish" -> 1
    [] OTHER -> 0

Nearer ==
  \/ Ahead(pc') < Ahead(pc)
  \/ pc' = pc /\ Cardinality(todo') < Cardinality(todo)
  \/ pc' = pc /\ todo' = todo /\ Len(remaining') < Len(remaining)

(* Backends are enabled one at a time, and each discover() begins with them. *)
FewBackends == IsFiniteSet(enabled) /\ IsFiniteSet(todo)

Within == pc = "idle" \/ Ahead(pc) # 0

LEMMA StepWithin ==
  ASSUME Within, [Next]_vars
  PROVE  Within'
BY DEF Within, Ahead, Next, DiscoverStep, vars, EnableBackend, MapChannel, LoadMappings,
  AugmentCatalog, DiscoverLoad, BuildRT, Restart, DiscoverBegin, SkipUnregistered, ScanThrows,
  ScanEmpty, ScanFound, Absorb, DiscoverPurge, DiscoverSave, DiscoverWrite, MappingOpen,
  MappingWrite, DiscoverFinish

LEMMA StepFew ==
  ASSUME FewBackends, [Next]_vars
  PROVE  FewBackends'
<1>1. CASE UNCHANGED <<enabled, todo>>
  BY <1>1 DEF FewBackends
<1>2. ASSUME NEW b \in Backends, EnableBackend(b)
      PROVE  FewBackends'
  BY <1>2, FS_AddElement DEF EnableBackend, FewBackends, loop
<1>3. CASE DiscoverBegin \/ Restart
  BY <1>3, FS_EmptySet DEF DiscoverBegin, Restart, FewBackends, setup
<1>4. ASSUME NEW b \in Backends, SkipUnregistered(b) \/ ScanEmpty(b) \/ ScanFound(b)
      PROVE  FewBackends'
  <2>1. enabled' = enabled /\ todo' = todo \ {b}
    BY <1>4 DEF SkipUnregistered, ScanEmpty, ScanFound, setup
  <2> QED
    BY <2>1, FS_RemoveElement DEF FewBackends
<1>5. CASE \/ UNCHANGED vars
           \/ \E u \in MapUuids : MapChannel(u)
           \/ LoadMappings
           \/ \E device \in UserEntries : AugmentCatalog(device)
           \/ DiscoverLoad \/ BuildRT \/ Absorb \/ DiscoverPurge \/ DiscoverSave
           \/ DiscoverWrite \/ MappingOpen \/ MappingWrite \/ DiscoverFinish
           \/ \E b \in Backends : ScanThrows(b)
  BY <1>1, <1>5 DEF vars, setup, loop, MapChannel, LoadMappings, AugmentCatalog, DiscoverLoad,
    BuildRT, Absorb, DiscoverPurge, DiscoverSave, DiscoverWrite, MappingOpen, MappingWrite,
    DiscoverFinish, ScanThrows
<1> QED
  BY <1>2, <1>3, <1>4, <1>5 DEF Next, DiscoverStep

LEMMA DiscoverNearer ==
  ASSUME RemainingInv, FewBackends, DiscoverStep
  PROVE  Nearer
<1>1. ASSUME NEW b \in Backends, SkipUnregistered(b) \/ ScanEmpty(b) \/ ScanFound(b)
      PROVE  Nearer
  <2>1. pc' = pc /\ b \in todo /\ todo' = todo \ {b}
    BY <1>1 DEF SkipUnregistered, ScanEmpty, ScanFound
  <2>2. Cardinality(todo) \in Nat /\ Cardinality(todo') = Cardinality(todo) - 1
    BY <2>1, FS_RemoveElement, FS_CardinalityType DEF FewBackends
  <2> QED
    BY <2>1, <2>2 DEF Nearer
<1>2. CASE Absorb
  <2>1. pc' = pc /\ todo' = todo /\ remaining # << >> /\ remaining' = Tail(remaining)
    BY <1>2 DEF Absorb
  <2>2. Len(remaining) \in Nat /\ Len(remaining') = Len(remaining) - 1
    BY <2>1 DEF RemainingInv
  <2> QED
    BY <2>1, <2>2 DEF Nearer
<1>3. CASE \/ DiscoverBegin \/ DiscoverPurge \/ DiscoverSave \/ DiscoverWrite
           \/ MappingOpen \/ MappingWrite \/ DiscoverFinish
           \/ \E b \in Backends : ScanThrows(b)
  <2>1. Ahead(pc') < Ahead(pc)
    BY <1>3 DEF DiscoverBegin, DiscoverPurge, DiscoverSave, DiscoverWrite, MappingOpen,
      MappingWrite, DiscoverFinish, ScanThrows, Ahead
  <2> QED
    BY <2>1 DEF Nearer
<1> QED
  BY <1>1, <1>2, <1>3 DEF DiscoverStep

(* No other call comes in between; the process may end.                      *)
LEMMA NothingBetween ==
  ASSUME RemainingInv, FewBackends, Within, [Next]_vars, pc # "idle"
  PROVE  Nearer \/ UNCHANGED <<pc, todo, remaining>>
<1>1. CASE DiscoverStep
  BY <1>1, DiscoverNearer
<1>2. CASE Restart
  BY <1>2 DEF Restart, Within, Ahead, Nearer
<1>3. CASE UNCHANGED vars
  BY <1>3 DEF vars, loop
<1>4. CASE \/ \E b \in Backends : EnableBackend(b)
           \/ \E u \in MapUuids : MapChannel(u)
           \/ LoadMappings
           \/ \E device \in UserEntries : AugmentCatalog(device)
           \/ DiscoverLoad \/ BuildRT
  BY <1>4 DEF EnableBackend, MapChannel, LoadMappings, AugmentCatalog, DiscoverLoad, BuildRT
<1> QED
  BY <1>1, <1>2, <1>3, <1>4 DEF Next

(* The variant of discover(): each step of it lowers the rest of the call,   *)
(* the backends its loop has still to visit or the descriptors of the one    *)
(* it is at, and nothing raises them, also when a scan brings in many or a   *)
(* scanner throws; so a call is over after finitely many steps.              *)
THEOREM DiscoverComesNearer ==
  Spec => [][/\ DiscoverStep => Nearer
             /\ pc # "idle" => Nearer \/ UNCHANGED <<pc, todo, remaining>>]_vars
<1>1. Init => RemainingInv /\ FewBackends /\ Within
  BY FS_EmptySet DEF Init, RemainingInv, FewBackends, Within
<1>2. RemainingInv /\ FewBackends /\ Within /\ [Next]_vars =>
        (RemainingInv /\ FewBackends /\ Within)'
  BY StepRemaining, StepFew, StepWithin
<1>3. RemainingInv /\ FewBackends /\ Within /\ [Next]_vars =>
        /\ DiscoverStep => Nearer
        /\ pc # "idle" => Nearer \/ UNCHANGED <<pc, todo, remaining>>
  BY DiscoverNearer, NothingBetween
<1> QED
  BY <1>1, <1>2, <1>3, PTL DEF Spec
===============================================================================
