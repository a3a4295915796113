---------------------------- MODULE HardwareCatalog ----------------------------
(***************************************************************************)
(* dhdo/HardwareCatalog: the JSON-persisted table of every channel the     *)
(* backends have reported, its uuid index, the discovery cycle that purges *)
(* stale entries, and the write lock.                                      *)
(*                                                                         *)
(* Catalog calls are synchronous and made by one thread; the process may   *)
(* die between any two steps.  save() is two of them, because opening the  *)
(* std::ofstream truncates the file before the JSON is written.            *)
(*                                                                         *)
(* Positions count from 1; uuidIndex[u] = 0 says that u is not indexed.    *)
(***************************************************************************)
EXTENDS Integers, Sequences

CONSTANTS
  Uuids,         \* identities of channels
  BlankUuid,     \* the empty string (or the nil uuid): no identity given
  Backends,      \* the values of BackendType in use
  EtherCAT,      \* the one registerEcChannel registers for
  Infos,         \* everything else in an entry: backend data, name, type
  Hash,          \* makeUuidFromBackend, as a function of backend and info
  Devices,       \* the entries callers pass to addEntry
  EcChannels,    \* the infos of the channels passed to registerEcChannel
  StoredFiles,   \* what the catalog file may be when the program is installed
  NoFile,        \* ... no file
  TornFile       \* ... a file that does not parse: cut off, or empty

Ids == Uuids \cup {BlankUuid}
Entry == [uuid : Ids, backend : Backends, info : Infos]

ASSUME HashAssumption == Hash \in [Backends -> [Infos -> Uuids]]
ASSUME DevicesAssumption == Devices \subseteq Entry
ASSUME EcAssumption == EtherCAT \in Backends /\ EcChannels \subseteq Infos
ASSUME StoredFilesAssumption == StoredFiles \subseteq Seq(Entry) \cup {NoFile, TornFile}
ASSUME BlankUuidAssumption == BlankUuid \notin Uuids

VARIABLES
  entries,        \* entries_
  uuidIndex,      \* uuidIndex_
  discoveryMode,  \* discoveryMode_
  participated,   \* participatedBackends_
  alive,          \* aliveUuids_
  writeLocked,    \* writeLocked_
  file,           \* the contents of the catalog file
  saving,         \* save() has truncated the file and not yet written it
  returned,       \* what the last call returned, when it was registerEcChannel
  reported,       \* history: the uuids reported since beginDiscovery
  reloaded        \* history: load() was called since beginDiscovery, which the
                  \* usage in the class comment does not foresee

contents == <<entries, uuidIndex>>
cycle == <<discoveryMode, participated, alive, reported, reloaded>>
disk == <<file, saving>>
vars == <<contents, cycle, writeLocked, disk, returned>>

Unparsed == {NoFile, TornFile}

(* Where rebuildIndices leaves uuid u: at its last entry. *)
LastWith(es, u) ==
  CHOOSE i \in DOMAIN es :
    es[i].uuid = u /\ \A j \in DOMAIN es : es[j].uuid = u => j <= i

(* Mistake: rebuildIndices() that stops before the last entry. *)
IndexOfButLast(es) ==
  [u \in Ids |->
     IF \E i \in DOMAIN es : es[i].uuid = u /\ i < Len(es) THEN LastWith(es, u) ELSE 0]

(* rebuildIndices() *)
IndexOf(es) ==
  [u \in Ids |-> IF \E i \in DOMAIN es : es[i].uuid = u THEN LastWith(es, u) ELSE 0]

(* The uuid a registerEcChannel was asked for and that of the entry it returned. *)
NoCall == [asked |-> BlankUuid, got |-> BlankUuid]

(* A default-constructed catalog. *)
Init ==
  /\ entries = << >>
  /\ uuidIndex = [u \in Ids |-> 0]
  /\ discoveryMode = FALSE
  /\ participated = {}
  /\ alive = {}
  /\ writeLocked = FALSE
  /\ file \in StoredFiles
  /\ saving = FALSE
  /\ returned = NoCall
  /\ reported = {}
  /\ reloaded = FALSE

-------------------------------------------------------------------------------
(* Mistakes a change to this code could make; the properties below catch them. *)

(* markAlive() only while the uuid is not yet in the catalog. *)
MarkAliveNew(u) ==
  /\ alive' = IF discoveryMode /\ uuidIndex[u] = 0 THEN alive \cup {u} ELSE alive
  /\ reported' = IF discoveryMode THEN reported \cup {u} ELSE reported

(* The purge keeps by the uuid alone, whoever the entry belongs to. *)
KeptAliveOnly == {i \in DOMAIN entries : entries[i].uuid \in alive}

(* registerEcChannel() returns the last entry, found or added. *)
ReturnLast(asked) ==
  returned' = [asked |-> asked, got |-> entries'[Len(entries')].uuid]

-------------------------------------------------------------------------------
(* load(path): a file that is absent or does not parse leaves the catalog alone. *)
Load ==
  /\ ~saving
  /\ IF file \in Unparsed
       THEN UNCHANGED contents
       ELSE entries' = file /\ uuidIndex' = IndexOf(file)
  /\ returned' = NoCall
  /\ reloaded' = TRUE
  /\ UNCHANGED <<discoveryMode, participated, alive, reported, writeLocked, disk>>

(* save(path): opening the stream truncates the file ... *)
SaveOpen ==
  /\ ~saving
  /\ saving' = TRUE
  /\ file' = TornFile
  /\ returned' = NoCall
  /\ UNCHANGED <<contents, cycle, writeLocked>>

(* ... then the JSON goes in ... *)
SaveWrite ==
  /\ saving
  /\ saving' = FALSE
  /\ file' = entries
  /\ UNCHANGED <<contents, cycle, writeLocked, returned>>

(* ... unless the write fails, which save() does not notice. *)
SaveLost ==
  /\ saving
  /\ saving' = FALSE
  /\ UNCHANGED <<contents, cycle, writeLocked, file, returned>>

-------------------------------------------------------------------------------
(* beginDiscovery() *)
BeginDiscovery ==
  /\ ~saving
  /\ writeLocked' = FALSE
  /\ participated' = {}
  /\ alive' = {}
  /\ discoveryMode' = TRUE
  /\ reported' = {}
  /\ reloaded' = FALSE
  /\ returned' = NoCall
  /\ UNCHANGED <<contents, disk>>

(* markBackendParticipated(type) *)
MarkBackendParticipated(b) ==
  /\ ~saving
  /\ participated' = participated \cup {b}
  /\ returned' = NoCall
  /\ UNCHANGED <<contents, discoveryMode, alive, reported, reloaded, writeLocked, disk>>

(* markAlive(uuid) *)
MarkAlive(u) ==
  /\ alive' = IF discoveryMode THEN alive \cup {u} ELSE alive
  /\ reported' = IF discoveryMode THEN reported \cup {u} ELSE reported

(* The entry with its uuid derived when none was given. *)
Identified(e) ==
  IF e.uuid = BlankUuid THEN [e EXCEPT !.uuid = Hash[e.backend][e.info]] ELSE e

(* An entry takes the place of the one with its uuid, or goes to the end. *)
Put(e) ==
  IF uuidIndex[e.uuid] # 0
    THEN /\ entries' = [entries EXCEPT ![uuidIndex[e.uuid]] = e]
         /\ UNCHANGED uuidIndex
    ELSE /\ entries' = Append(entries, e)
         /\ uuidIndex' = [uuidIndex EXCEPT ![e.uuid] = Len(entries) + 1]

(* addEntry(entry) *)
AddEntry(device) ==
  /\ ~saving
  /\ ~writeLocked
  /\ MarkAlive(Identified(device).uuid)
  /\ Put(Identified(device))
  /\ returned' = NoCall
  /\ UNCHANGED <<discoveryMode, participated, reloaded, writeLocked, disk>>

(* The entry the uuid is indexed at. *)
ReturnEntry(asked) ==
  returned' = [asked |-> asked, got |-> entries'[uuidIndex'[asked]].uuid]

EcEntry(info) == [uuid |-> Hash[EtherCAT][info], backend |-> EtherCAT, info |-> info]

(* registerEcChannel(...): an existing entry is returned as it is. *)
RegisterEcChannel(info) ==
  LET uuid == Hash[EtherCAT][info] IN
  /\ ~saving
  /\ ~writeLocked
  /\ MarkAlive(uuid)
  /\ IF uuidIndex[uuid] # 0
       THEN UNCHANGED contents
       ELSE Put(EcEntry(info))
  /\ ReturnEntry(uuid)
  /\ UNCHANGED <<discoveryMode, participated, reloaded, writeLocked, disk>>

(* registerEcChannel(...) on a locked catalog: the first entry, or the dummy. *)
RegisterEcLocked(info) ==
  /\ ~saving
  /\ writeLocked
  /\ returned' = [asked |-> Hash[EtherCAT][info],
                  got |-> IF entries = << >> THEN BlankUuid ELSE entries[1].uuid]
  /\ UNCHANGED <<contents, cycle, writeLocked, disk>>

-------------------------------------------------------------------------------
(* The entries a purge keeps. *)
Kept ==
  {i \in DOMAIN entries :
     entries[i].backend \in participated => entries[i].uuid \in alive}

(* The read and write cursors of the purge: what is kept moves up, in order. *)
Compact ==
  \E n \in 0..Len(entries) : \E from \in [1..n -> Kept] :
    /\ \A i, j \in 1..n : i < j => from[i] < from[j]
    /\ \A k \in Kept : \E i \in 1..n : from[i] = k
    /\ entries' = [i \in 1..n |-> entries[from[i]]]
    /\ uuidIndex' = IndexOf(entries')

(* The body of purgeStaleEntries(), which endDiscovery() calls too. *)
Purge ==
  \/ /\ discoveryMode
     /\ Compact
     /\ discoveryMode' = FALSE
  \/ /\ ~discoveryMode
     /\ UNCHANGED <<contents, discoveryMode>>

(* purgeStaleEntries() *)
PurgeStaleEntries ==
  /\ ~saving
  /\ Purge
  /\ returned' = NoCall
  /\ UNCHANGED <<participated, alive, reported, reloaded, writeLocked, disk>>

(* endDiscovery() *)
EndDiscovery ==
  /\ ~saving
  /\ Purge
  /\ writeLocked' = TRUE
  /\ returned' = NoCall
  /\ UNCHANGED <<participated, alive, reported, reloaded, disk>>

(* The process ends, or is killed, and a new one makes a new catalog. *)
NewProcess ==
  /\ entries' = << >>
  /\ uuidIndex' = [u \in Ids |-> 0]
  /\ discoveryMode' = FALSE
  /\ participated' = {}
  /\ alive' = {}
  /\ writeLocked' = FALSE
  /\ saving' = FALSE
  /\ returned' = NoCall
  /\ reported' = {}
  /\ reloaded' = FALSE
  /\ UNCHANGED file

-------------------------------------------------------------------------------
Next ==
  \/ Load \/ SaveOpen \/ SaveWrite \/ SaveLost
  \/ BeginDiscovery
  \/ \E b \in Backends : MarkBackendParticipated(b)
  \/ \E device \in Devices : AddEntry(device)
  \/ \E info \in EcChannels : RegisterEcChannel(info) \/ RegisterEcLocked(info)
  \/ PurgeStaleEntries \/ EndDiscovery
  \/ NewProcess

Spec == Init /\ [][Next]_vars

-------------------------------------------------------------------------------
(* What the calls that look a uuid up see: the entry it is indexed at. *)
Lookup(es, index) == [u \in {v \in Ids : index[v] # 0} |-> es[index[u]]]

(* What a file holds for a later load. *)
Stored(f) == IF f \in Unparsed THEN Lookup(<< >>, IndexOf(<< >>)) ELSE Lookup(f, IndexOf(f))

(* The catalog as a table: what is indexed is listed, and nothing else.      *)
Table == INSTANCE ChannelTable WITH
  Reportable <- {Identified(device) : device \in Devices},
  Registrable <- {EcEntry(info) : info \in EcChannels},
  Installed <- {Lookup(f, IndexOf(f)) : f \in StoredFiles \ Unparsed},
  table <- Lookup(entries, uuidIndex),
  open <- discoveryMode,
  taking <- participated,
  reported <- alive,
  locked <- writeLocked,
  readable <- file \notin Unparsed,
  kept <- Stored(file)

(* Entries, index, cycle and file are a table of channels by uuid, through   *)
(* every sequence of calls: what a caller finds under a uuid is what was     *)
(* reported, registered or loaded last and not purged since.                 *)
TableSpec == Table!Spec

UniqueUuids(es) == \A i, j \in DOMAIN es : es[i].uuid = es[j].uuid => i = j

TypeOK ==
  /\ entries \in Seq(Entry)
  /\ uuidIndex \in [Ids -> Nat]
  /\ discoveryMode \in BOOLEAN
  /\ participated \subseteq Backends
  /\ alive \subseteq Ids
  /\ writeLocked \in BOOLEAN
  /\ file \in Seq(Entry) \cup Unparsed
  /\ saving \in BOOLEAN
  /\ returned \in [asked : Ids, got : Ids]
  /\ reported \subseteq Ids
  /\ reloaded \in BOOLEAN

(* The index and the entries agree both ways, after every insertion, purge   *)
(* and load; so no two entries have the same uuid.                           *)
IndexCoherent ==
  /\ \A i \in DOMAIN entries : uuidIndex[entries[i].uuid] = i
  /\ \A u \in Ids : uuidIndex[u] # 0 =>
       uuidIndex[u] \in DOMAIN entries /\ entries[uuidIndex[u]].uuid = u

(* Every channel reported in the current cycle is in the catalog, unless the *)
(* catalog was reloaded meanwhile.                                           *)
ReportedListed ==
  discoveryMode /\ ~reloaded => \A u \in reported : uuidIndex[u] # 0

(* aliveUuids_ is what was reported in the current cycle.                    *)
AliveReported == discoveryMode => alive = reported

(* The lock is only ever on between cycles.                                  *)
LockOutsideCycle == writeLocked => ~discoveryMode

(* A purge ends a cycle with every channel reported in it still listed, and  *)
(* with nothing else left of a backend that took part, again unless the      *)
(* catalog was reloaded in mid-cycle.                                        *)
PurgeMatchesReports ==
  [][discoveryMode /\ ~reloaded /\ (PurgeStaleEntries \/ EndDiscovery) =>
       /\ \A u \in reported : \E i \in DOMAIN entries' : entries'[i].uuid = u
       /\ \A i \in DOMAIN entries' :
            entries'[i].backend \in participated => entries'[i].uuid \in reported]_vars

Lists(es, u, b) == \E i \in DOMAIN es : es[i].uuid = u /\ es[i].backend = b

(* HardwareCatalog.h:389, "each backend can only invalidate its own          *)
(* territory": no catalog call loses an entry of a backend that did not take *)
(* part in the cycle; only a load or a new process replaces them.            *)
TerritoryKept ==
  [][\/ Load \/ NewProcess
     \/ \A i \in DOMAIN entries :
          entries[i].backend \notin participated =>
            Lists(entries', entries[i].uuid, entries[i].backend)]_vars

(* registerEcChannel on an unlocked catalog returns the entry of the channel *)
(* it was asked for, found or new; on a locked one it may return another.    *)
EcReturnsOwn == ~writeLocked => returned.got = returned.asked

(* No entry is without an identity (as those of a file of the old format are,*)
(* which is why StoredFiles has none).                                       *)
EntriesIdentified ==
  \A i \in DOMAIN entries : entries[i].uuid # BlankUuid

(* What the file holds identifies its entries.                               *)
FileCoherent ==
  file \notin Unparsed =>
    UniqueUuids(file) /\ \A i \in DOMAIN file : file[i].uuid # BlankUuid

(* The inductive invariant behind the safety properties above.               *)
CatalogInv ==
  /\ TypeOK
  /\ IndexCoherent
  /\ ReportedListed
  /\ LockOutsideCycle
  /\ FileCoherent
  /\ AliveReported
  /\ EcReturnsOwn
  /\ EntriesIdentified
===============================================================================
