------------------------- MODULE HardwareCatalogProofs -------------------------
(***************************************************************************)
(* Proofs about HardwareCatalog, for every set of uuids, backends, devices *)
(* and EtherCAT channels.                                                  *)
(*                                                                         *)
(* CatalogInv is inductive.  Its core is IndexCoherent, which every change *)
(* to the entries restores in its own way: Put by one insertion, load and  *)
(* purge by rebuilding, which is only right because the entries they       *)
(* rebuild from have distinct uuids (FileCoherent for load, IndexCoherent  *)
(* itself for purge).                                                      *)
(***************************************************************************)
EXTENDS HardwareCatalog, TLAPS

(* The installed catalog, if there is one, was written by this program. *)
WellFormed(f) ==
  f \notin Unparsed =>
    UniqueUuids(f) /\ \A i \in DOMAIN f : f[i].uuid # BlankUuid

(* The index of distinct uuids is coherent. *)
Indexed(es, index) ==
  /\ \A i \in DOMAIN es : index[es[i].uuid] = i
  /\ \A u \in Ids : index[u] # 0 => index[u] \in DOMAIN es /\ es[index[u]].uuid = u

(* Rebuilding the index of entries with distinct uuids finds each at its place. *)
LEMMA RebuildIndexed ==
  ASSUME NEW es \in Seq(Entry), UniqueUuids(es)
  PROVE  IndexOf(es) \in [Ids -> Nat] /\ Indexed(es, IndexOf(es))
<1>1. ASSUME NEW i \in DOMAIN es
      PROVE  es[i].uuid \in Ids /\ LastWith(es, es[i].uuid) = i
  <2>1. es[i] \in Entry /\ i \in Nat
    OBVIOUS
  <2>2. es[i].uuid \in Ids
    BY <2>1 DEF Entry
  <2>3. \A j \in DOMAIN es : es[j].uuid = es[i].uuid => j = i
    BY DEF UniqueUuids
  <2>4. LastWith(es, es[i].uuid) = i
    BY <2>1, <2>3 DEF LastWith
  <2> QED
    BY <2>2, <2>4
<1>2. ASSUME NEW u \in Ids, NEW i \in DOMAIN es, es[i].uuid = u
      PROVE  IndexOf(es)[u] = i
  BY <1>1, <1>2 DEF IndexOf
<1>3. ASSUME NEW u \in Ids, ~ \E i \in DOMAIN es : es[i].uuid = u
      PROVE  IndexOf(es)[u] = 0
  BY <1>3 DEF IndexOf
<1>4. DOMAIN es \subseteq Nat \ {0}
  OBVIOUS
<1>5. IndexOf(es) \in [Ids -> Nat]
  <2>1. IndexOf(es) = [u \in Ids |-> IndexOf(es)[u]]
    BY DEF IndexOf
  <2>2. \A u \in Ids : IndexOf(es)[u] \in Nat
    BY <1>2, <1>3, <1>4
  <2> QED
    BY <2>1, <2>2
<1>6. Indexed(es, IndexOf(es))
  BY <1>1, <1>2, <1>3 DEF Indexed
<1> QED
  BY <1>5, <1>6

LEMMA IndexedUnique ==
  ASSUME NEW es, NEW index, Indexed(es, index)
  PROVE  UniqueUuids(es)
BY DEF Indexed, UniqueUuids

(* There is one index that agrees with the entries. *)
LEMMA SameIndex ==
  ASSUME NEW es \in Seq(Entry),
         NEW f \in [Ids -> Nat], Indexed(es, f), NEW g \in [Ids -> Nat], Indexed(es, g)
  PROVE  f = g
<1>1. \A i \in DOMAIN es : i # 0
  OBVIOUS
<1>2. \A u \in Ids : f[u] = g[u]
  BY <1>1 DEF Indexed
<1> QED
  BY <1>2

(* Putting an entry with an identity keeps the index coherent and lists it. *)
LEMMA PutIndexed ==
  ASSUME TypeOK, IndexCoherent, EntriesIdentified,
         NEW e \in Entry, e.uuid # BlankUuid, Put(e)
  PROVE  /\ entries' \in Seq(Entry)
         /\ uuidIndex' \in [Ids -> Nat]
         /\ IndexCoherent'
         /\ EntriesIdentified'
         /\ uuidIndex'[e.uuid] # 0
         /\ \A u \in Ids : uuidIndex[u] # 0 => uuidIndex'[u] # 0
<1> DEFINE at == uuidIndex[e.uuid]
<1>1. /\ e.uuid \in Ids
      /\ entries \in Seq(Entry)
      /\ uuidIndex \in [Ids -> Nat]
      /\ \A i \in DOMAIN entries : entries[i].uuid \in Ids
  <2>1. e.uuid \in Ids
    BY DEF Entry
  <2>2. entries \in Seq(Entry) /\ uuidIndex \in [Ids -> Nat]
    BY DEF TypeOK
  <2>3. \A i \in DOMAIN entries : entries[i] \in Entry
    BY <2>2
  <2> QED
    BY <2>1, <2>2, <2>3 DEF Entry
<1>2. CASE at # 0
  <2>1. at \in DOMAIN entries /\ entries[at].uuid = e.uuid
    BY <1>1, <1>2 DEF IndexCoherent
  <2>2. entries' = [entries EXCEPT ![at] = e] /\ uuidIndex' = uuidIndex
    BY <1>2 DEF Put
  <2>3. entries' \in Seq(Entry) /\ DOMAIN entries' = DOMAIN entries
    BY <1>1, <2>1, <2>2
  <2>4. \A i \in DOMAIN entries : entries'[i].uuid = entries[i].uuid
    BY <1>1, <2>1, <2>2
  <2>5. IndexCoherent' /\ EntriesIdentified'
    BY <1>1, <2>2, <2>3, <2>4 DEF IndexCoherent, EntriesIdentified
  <2> QED
    BY <1>1, <1>2, <2>2, <2>3, <2>5
<1>3. CASE at = 0
  <2>1. /\ entries' = Append(entries, e)
        /\ uuidIndex' = [uuidIndex EXCEPT ![e.uuid] = Len(entries) + 1]
    BY <1>3 DEF Put
  <2>2. /\ entries' \in Seq(Entry)
        /\ DOMAIN entries' = DOMAIN entries \cup {Len(entries) + 1}
        /\ Len(entries) + 1 \notin DOMAIN entries
        /\ entries'[Len(entries) + 1] = e
        /\ \A i \in DOMAIN entries : entries'[i] = entries[i]
    BY <1>1, <2>1
  <2>3. \A i \in DOMAIN entries : entries[i].uuid # e.uuid
    <3>1. \A i \in DOMAIN entries : i # 0
      BY <1>1
    <3> QED
      BY <1>3, <3>1 DEF IndexCoherent
  <2>4. uuidIndex' \in [Ids -> Nat]
    BY <1>1, <2>1
  <2>5. IndexCoherent'
    <3>1. \A i \in DOMAIN entries' : uuidIndex'[entries'[i].uuid] = i
      BY <1>1, <2>1, <2>2, <2>3 DEF IndexCoherent
    <3>2. ASSUME NEW u \in Ids, uuidIndex'[u] # 0
          PROVE  uuidIndex'[u] \in DOMAIN entries' /\ entries'[uuidIndex'[u]].uuid = u
      BY <1>1, <2>1, <2>2, <3>2 DEF IndexCoherent
    <3> QED
      BY <3>1, <3>2 DEF IndexCoherent
  <2>6. EntriesIdentified'
    BY <2>2 DEF EntriesIdentified
  <2>7. uuidIndex'[e.uuid] # 0 /\ \A u \in Ids : uuidIndex[u] # 0 => uuidIndex'[u] # 0
    BY <1>1, <2>1
  <2> QED
    BY <2>2, <2>4, <2>5, <2>6, <2>7
<1> QED
  BY <1>2, <1>3

-------------------------------------------------------------------------------
(* An empty catalog is coherent. *)
LEMMA EmptyIndexed ==
  Indexed(<< >>, [u \in Ids |-> 0]) /\ [u \in Ids |-> 0] \in [Ids -> Nat]
BY DEF Indexed

LEMMA InitInv ==
  ASSUME \A f \in StoredFiles : WellFormed(f), Init
  PROVE  CatalogInv
<1>1. TypeOK
  <2>1. entries \in Seq(Entry)
    BY DEF Init
  <2>2. uuidIndex \in [Ids -> Nat]
    BY EmptyIndexed DEF Init
  <2>3. file \in Seq(Entry) \cup Unparsed
    BY StoredFilesAssumption DEF Init, Unparsed
  <2>4. returned \in [asked : Ids, got : Ids]
    BY DEF Init, NoCall, Ids
  <2> QED
    BY <2>1, <2>2, <2>3, <2>4 DEF Init, TypeOK
<1>2. IndexCoherent
  BY EmptyIndexed DEF Init, IndexCoherent, Indexed
<1>3. FileCoherent
  BY DEF Init, FileCoherent, WellFormed
<1>4. ReportedListed /\ AliveReported /\ LockOutsideCycle /\ EcReturnsOwn /\ EntriesIdentified
  BY DEF Init, ReportedListed, AliveReported, LockOutsideCycle, EcReturnsOwn,
         EntriesIdentified, NoCall
<1> QED
  BY <1>1, <1>2, <1>3, <1>4 DEF CatalogInv

LEMMA LoadInv ==
  ASSUME CatalogInv, Load
  PROVE  CatalogInv'
<1>1. /\ TypeOK /\ IndexCoherent /\ FileCoherent /\ EntriesIdentified
      /\ LockOutsideCycle /\ AliveReported
      /\ returned' = NoCall /\ reloaded' = TRUE
      /\ UNCHANGED <<discoveryMode, participated, alive, reported, writeLocked, file, saving>>
  BY DEF CatalogInv, Load, cycle, disk
<1>2. /\ entries' \in Seq(Entry) /\ uuidIndex' \in [Ids -> Nat]
      /\ IndexCoherent' /\ EntriesIdentified'
  <2>1. CASE file \in Unparsed
    <3>1. UNCHANGED <<entries, uuidIndex>>
      BY <2>1 DEF Load, contents
    <3> QED
      BY <1>1, <3>1 DEF TypeOK, IndexCoherent, EntriesIdentified
  <2>2. CASE file \notin Unparsed
    <3>1. file \in Seq(Entry) /\ UniqueUuids(file) /\ entries' = file /\ uuidIndex' = IndexOf(file)
      BY <1>1, <2>2 DEF TypeOK, FileCoherent, Load
    <3>2. IndexOf(file) \in [Ids -> Nat] /\ Indexed(file, IndexOf(file))
      BY <3>1, RebuildIndexed
    <3>3. EntriesIdentified'
      BY <1>1, <2>2, <3>1 DEF FileCoherent, EntriesIdentified
    <3> QED
      BY <3>1, <3>2, <3>3 DEF IndexCoherent, Indexed
  <2> QED
    BY <2>1, <2>2
<1>3. TypeOK'
  BY <1>1, <1>2 DEF TypeOK, NoCall, Ids
<1>4. FileCoherent' /\ ReportedListed' /\ AliveReported' /\ LockOutsideCycle' /\ EcReturnsOwn'
  BY <1>1 DEF FileCoherent, ReportedListed, AliveReported, LockOutsideCycle, EcReturnsOwn, NoCall
<1> QED
  BY <1>2, <1>3, <1>4 DEF CatalogInv

LEMMA SaveInv ==
  ASSUME CatalogInv, SaveOpen \/ SaveWrite \/ SaveLost
  PROVE  CatalogInv'
<1>1. /\ UNCHANGED <<entries, uuidIndex, discoveryMode, participated, alive, reported, reloaded,
                    writeLocked>>
      /\ saving' \in BOOLEAN
      /\ returned' \in {returned, NoCall}
      /\ file' \in {file, entries, TornFile}
  BY DEF SaveOpen, SaveWrite, SaveLost, contents, cycle, CatalogInv, TypeOK
<1>2. TypeOK'
  BY <1>1 DEF CatalogInv, TypeOK, NoCall, Ids, Unparsed
<1>3. FileCoherent'
  <2>1. TornFile \in Unparsed
    BY DEF Unparsed
  <2>2. UniqueUuids(entries) /\ \A i \in DOMAIN entries : entries[i].uuid # BlankUuid
    BY IndexedUnique DEF CatalogInv, IndexCoherent, Indexed, EntriesIdentified
  <2> QED
    BY <1>1, <2>1, <2>2 DEF CatalogInv, FileCoherent
<1>4. IndexCoherent' /\ ReportedListed' /\ AliveReported' /\ LockOutsideCycle' /\ EntriesIdentified'
  BY <1>1 DEF CatalogInv, IndexCoherent, ReportedListed, AliveReported, LockOutsideCycle,
              EntriesIdentified
<1>5. EcReturnsOwn'
  BY <1>1 DEF CatalogInv, EcReturnsOwn, NoCall
<1> QED
  BY <1>2, <1>3, <1>4, <1>5 DEF CatalogInv

(* Calls that touch neither entries, index nor file. *)
LEMMA MarkInv ==
  ASSUME CatalogInv, NEW b \in Backends, BeginDiscovery \/ MarkBackendParticipated(b)
  PROVE  CatalogInv'
<1>1. /\ UNCHANGED <<entries, uuidIndex, file, saving>>
      /\ returned' = NoCall
      /\ \/ alive' = {} /\ reported' = {} /\ writeLocked' = FALSE
            /\ participated' = {} /\ discoveryMode' = TRUE /\ reloaded' = FALSE
         \/ UNCHANGED <<alive, reported, reloaded, writeLocked, discoveryMode>>
            /\ participated' = participated \cup {b}
  BY DEF BeginDiscovery, MarkBackendParticipated, contents, disk
<1>2. TypeOK'
  BY <1>1 DEF CatalogInv, TypeOK, NoCall, Ids
<1>3. IndexCoherent' /\ EntriesIdentified' /\ FileCoherent' /\ EcReturnsOwn'
  BY <1>1 DEF CatalogInv, IndexCoherent, EntriesIdentified, FileCoherent, EcReturnsOwn, NoCall
<1>4. ReportedListed' /\ AliveReported' /\ LockOutsideCycle'
  BY <1>1 DEF CatalogInv, ReportedListed, AliveReported, LockOutsideCycle
<1> QED
  BY <1>2, <1>3, <1>4 DEF CatalogInv

-------------------------------------------------------------------------------
(* What MarkAlive leaves of the cycle's invariants once u is listed. *)
LEMMA MarkAliveInv ==
  ASSUME CatalogInv, NEW u \in Ids, MarkAlive(u),
         UNCHANGED <<discoveryMode, reloaded, writeLocked>>,
         uuidIndex'[u] # 0, \A v \in Ids : uuidIndex[v] # 0 => uuidIndex'[v] # 0
  PROVE  /\ ReportedListed' /\ AliveReported' /\ LockOutsideCycle'
         /\ alive' \subseteq Ids /\ reported' \subseteq Ids
BY DEF CatalogInv, TypeOK, MarkAlive, ReportedListed, AliveReported, LockOutsideCycle

LEMMA HashedEntry ==
  ASSUME NEW b \in Backends, NEW info \in Infos
  PROVE  /\ Hash[b][info] \in Ids /\ Hash[b][info] # BlankUuid
         /\ [uuid |-> Hash[b][info], backend |-> b, info |-> info] \in Entry
BY HashAssumption, BlankUuidAssumption DEF Ids, Entry

LEMMA AddEntryInv ==
  ASSUME CatalogInv, NEW device \in Devices, AddEntry(device)
  PROVE  CatalogInv'
<1> DEFINE e == Identified(device)
<1>1. e \in Entry /\ e.uuid \in Ids /\ e.uuid # BlankUuid
  <2>1. device \in Entry
    BY DevicesAssumption
  <2>2. Hash[device.backend][device.info] \in Ids \ {BlankUuid}
    BY <2>1, HashedEntry DEF Entry
  <2> QED
    BY <2>1, <2>2 DEF Identified, Entry
<1>2. /\ MarkAlive(e.uuid) /\ Put(e)
      /\ returned' = NoCall
      /\ UNCHANGED <<discoveryMode, participated, reloaded, writeLocked, file, saving>>
  BY DEF AddEntry, disk
<1> HIDE DEF e
<1>3. /\ entries' \in Seq(Entry) /\ uuidIndex' \in [Ids -> Nat]
      /\ IndexCoherent' /\ EntriesIdentified'
      /\ uuidIndex'[e.uuid] # 0
      /\ \A u \in Ids : uuidIndex[u] # 0 => uuidIndex'[u] # 0
  BY <1>1, <1>2, PutIndexed DEF CatalogInv
<1>4. /\ ReportedListed' /\ AliveReported' /\ LockOutsideCycle'
      /\ alive' \subseteq Ids /\ reported' \subseteq Ids
  BY <1>1, <1>2, <1>3, MarkAliveInv
<1>5. TypeOK'
  BY <1>2, <1>3, <1>4 DEF CatalogInv, TypeOK, NoCall, Ids
<1>6. FileCoherent' /\ EcReturnsOwn'
  BY <1>2 DEF CatalogInv, FileCoherent, EcReturnsOwn, NoCall
<1> QED
  BY <1>3, <1>4, <1>5, <1>6 DEF CatalogInv

LEMMA RegisterInv ==
  ASSUME CatalogInv, NEW info \in EcChannels, RegisterEcChannel(info)
  PROVE  CatalogInv'
<1> DEFINE uuid == Hash[EtherCAT][info]
           e == [uuid |-> uuid, backend |-> EtherCAT, info |-> info]
<1>1. e \in Entry /\ uuid \in Ids /\ uuid # BlankUuid /\ e.uuid = uuid
  BY EcAssumption, HashedEntry
<1>2. /\ MarkAlive(uuid)
      /\ IF uuidIndex[uuid] # 0 THEN UNCHANGED <<entries, uuidIndex>> ELSE Put(e)
      /\ returned' = [asked |-> uuid, got |-> entries'[uuidIndex'[uuid]].uuid]
      /\ UNCHANGED <<discoveryMode, participated, reloaded, writeLocked, file, saving>>
  BY DEF RegisterEcChannel, EcEntry, ReturnEntry, contents, disk
<1> HIDE DEF uuid, e
<1>3. /\ entries' \in Seq(Entry) /\ uuidIndex' \in [Ids -> Nat]
      /\ IndexCoherent' /\ EntriesIdentified'
      /\ uuidIndex'[uuid] # 0
      /\ \A u \in Ids : uuidIndex[u] # 0 => uuidIndex'[u] # 0
  <2>1. CASE uuidIndex[uuid] # 0
    BY <1>2, <2>1 DEF CatalogInv, TypeOK, IndexCoherent, EntriesIdentified
  <2>2. CASE uuidIndex[uuid] = 0
    BY <1>1, <1>2, <2>2, PutIndexed DEF CatalogInv
  <2> QED
    BY <2>1, <2>2
<1>4. /\ ReportedListed' /\ AliveReported' /\ LockOutsideCycle'
      /\ alive' \subseteq Ids /\ reported' \subseteq Ids
  BY <1>1, <1>2, <1>3, MarkAliveInv
<1>5. returned'.got = returned'.asked /\ returned' \in [asked : Ids, got : Ids]
  BY <1>1, <1>2, <1>3 DEF IndexCoherent
<1>6. TypeOK'
  BY <1>2, <1>3, <1>4, <1>5 DEF CatalogInv, TypeOK
<1>7. FileCoherent' /\ EcReturnsOwn'
  BY <1>2, <1>5 DEF CatalogInv, FileCoherent, EcReturnsOwn
<1> QED
  BY <1>3, <1>4, <1>6, <1>7 DEF CatalogInv

LEMMA RegisterLockedInv ==
  ASSUME CatalogInv, NEW info \in EcChannels, RegisterEcLocked(info)
  PROVE  CatalogInv'
<1>1. /\ UNCHANGED <<entries, uuidIndex, discoveryMode, participated, alive, reported, reloaded,
                     writeLocked, file, saving>>
      /\ writeLocked
  BY DEF RegisterEcLocked, contents, cycle, disk
<1>2. returned' \in [asked : Ids, got : Ids]
  <2>1. Hash[EtherCAT][info] \in Ids
    BY EcAssumption, HashedEntry
  <2>2. entries # << >> => entries[1] \in Entry
    BY DEF CatalogInv, TypeOK
  <2>3. (IF entries = << >> THEN BlankUuid ELSE entries[1].uuid) \in Ids
    BY <2>2 DEF Entry, Ids
  <2> QED
    BY <2>1, <2>3 DEF RegisterEcLocked
<1>3. TypeOK'
  BY <1>1, <1>2 DEF CatalogInv, TypeOK
<1>4. IndexCoherent' /\ EntriesIdentified' /\ FileCoherent' /\ EcReturnsOwn'
  BY <1>1 DEF CatalogInv, IndexCoherent, EntriesIdentified, FileCoherent, EcReturnsOwn
<1>5. ReportedListed' /\ AliveReported' /\ LockOutsideCycle'
  BY <1>1 DEF CatalogInv, ReportedListed, AliveReported, LockOutsideCycle
<1> QED
  BY <1>3, <1>4, <1>5 DEF CatalogInv

-------------------------------------------------------------------------------
(* What a compaction keeps, and that it leaves distinct uuids. *)
LEMMA CompactKeeps ==
  ASSUME TypeOK, IndexCoherent, EntriesIdentified, Compact
  PROVE  /\ entries' \in Seq(Entry) /\ uuidIndex' \in [Ids -> Nat]
         /\ IndexCoherent' /\ EntriesIdentified'
         /\ \A i \in DOMAIN entries' : \E k \in Kept : entries'[i] = entries[k]
         /\ \A k \in Kept : \E i \in DOMAIN entries' : entries'[i] = entries[k]
<1>0. PICK n \in 0..Len(entries) : \E from \in [1..n -> Kept] :
        /\ \A i, j \in 1..n : i < j => from[i] < from[j]
        /\ \A k \in Kept : \E i \in 1..n : from[i] = k
        /\ entries' = [i \in 1..n |-> entries[from[i]]]
        /\ uuidIndex' = IndexOf(entries')
  BY DEF Compact
<1>1. PICK from \in [1..n -> Kept] :
        /\ \A i, j \in 1..n : i < j => from[i] < from[j]
        /\ \A k \in Kept : \E i \in 1..n : from[i] = k
        /\ entries' = [i \in 1..n |-> entries[from[i]]]
        /\ uuidIndex' = IndexOf(entries')
  BY <1>0
<1>2. entries \in Seq(Entry) /\ n \in Nat /\ Kept \subseteq DOMAIN entries
  BY DEF TypeOK, Kept
<1>3. \A k \in Kept : entries[k] \in Entry
  BY <1>2
<1>4. entries' \in Seq(Entry) /\ DOMAIN entries' = 1..n
  BY <1>1, <1>2, <1>3
<1>5. UniqueUuids(entries')
  <2>1. SUFFICES ASSUME NEW i \in 1..n, NEW j \in 1..n, entries'[i].uuid = entries'[j].uuid
                 PROVE  i = j
    BY <1>4 DEF UniqueUuids
  <2>2. from[i] \in DOMAIN entries /\ from[j] \in DOMAIN entries
    BY <1>1, <1>2
  <2>3. entries[from[i]].uuid = entries[from[j]].uuid
    BY <1>1, <2>1
  <2>4. from[i] = from[j]
    BY <2>2, <2>3 DEF IndexCoherent
  <2>5. from[i] \in Nat /\ from[j] \in Nat
    BY <1>2, <2>2
  <2> QED
    BY <1>1, <2>4, <2>5
<1>6. uuidIndex' \in [Ids -> Nat] /\ IndexCoherent'
  BY <1>1, <1>4, <1>5, RebuildIndexed DEF IndexCoherent, Indexed
<1>7. EntriesIdentified'
  BY <1>1, <1>2, <1>4 DEF EntriesIdentified
<1>8. /\ \A i \in DOMAIN entries' : \E k \in Kept : entries'[i] = entries[k]
      /\ \A k \in Kept : \E i \in DOMAIN entries' : entries'[i] = entries[k]
  BY <1>1, <1>4
<1> QED
  BY <1>4, <1>6, <1>7, <1>8

LEMMA PurgeInv ==
  ASSUME CatalogInv, PurgeStaleEntries \/ EndDiscovery
  PROVE  CatalogInv'
<1>1. /\ Purge
      /\ returned' = NoCall /\ writeLocked' \in {writeLocked, TRUE}
      /\ UNCHANGED <<participated, alive, reported, reloaded, file, saving>>
  BY DEF PurgeStaleEntries, EndDiscovery, disk
<1>2. discoveryMode' = FALSE
  BY <1>1 DEF Purge, CatalogInv, TypeOK
<1>3. /\ entries' \in Seq(Entry) /\ uuidIndex' \in [Ids -> Nat]
      /\ IndexCoherent' /\ EntriesIdentified'
  <2>1. CASE Compact
    BY <2>1, CompactKeeps DEF CatalogInv
  <2>2. CASE UNCHANGED contents
    BY <2>2 DEF contents, CatalogInv, TypeOK, IndexCoherent, EntriesIdentified
  <2> QED
    BY <1>1, <2>1, <2>2 DEF Purge, contents
<1>4. TypeOK'
  BY <1>1, <1>2, <1>3 DEF CatalogInv, TypeOK, NoCall, Ids
<1>5. FileCoherent' /\ EcReturnsOwn'
  BY <1>1 DEF CatalogInv, FileCoherent, EcReturnsOwn, NoCall
<1>6. ReportedListed' /\ AliveReported' /\ LockOutsideCycle'
  BY <1>2 DEF ReportedListed, AliveReported, LockOutsideCycle
<1> QED
  BY <1>3, <1>4, <1>5, <1>6 DEF CatalogInv

LEMMA NewProcessInv ==
  ASSUME CatalogInv, NewProcess
  PROVE  CatalogInv'
<1>1. IndexCoherent' /\ uuidIndex' \in [Ids -> Nat]
  BY EmptyIndexed DEF NewProcess, IndexCoherent, Indexed
<1>2. entries' \in Seq(Entry) /\ returned' \in [asked : Ids, got : Ids]
  BY DEF NewProcess, NoCall, Ids
<1>3. TypeOK'
  BY <1>1, <1>2 DEF NewProcess, CatalogInv, TypeOK
<1>4. FileCoherent'
  BY DEF NewProcess, CatalogInv, FileCoherent
<1>5. ReportedListed' /\ AliveReported' /\ LockOutsideCycle' /\ EcReturnsOwn' /\ EntriesIdentified'
  BY DEF NewProcess, ReportedListed, AliveReported, LockOutsideCycle, EcReturnsOwn,
         EntriesIdentified, NoCall
<1> QED
  BY <1>1, <1>3, <1>4, <1>5 DEF CatalogInv

LEMMA StepInv ==
  ASSUME CatalogInv, [Next]_vars
  PROVE  CatalogInv'
<1>1. CASE Load
  BY <1>1, LoadInv
<1>2. CASE SaveOpen \/ SaveWrite \/ SaveLost
  BY <1>2, SaveInv
<1>3. CASE BeginDiscovery
  BY <1>3, MarkInv, EcAssumption
<1>4. CASE \E b \in Backends : MarkBackendParticipated(b)
  BY <1>4, MarkInv
<1>5. CASE \E device \in Devices : AddEntry(device)
  BY <1>5, AddEntryInv
<1>6. CASE \E info \in EcChannels : RegisterEcChannel(info) \/ RegisterEcLocked(info)
  BY <1>6, RegisterInv, RegisterLockedInv
<1>7. CASE PurgeStaleEntries \/ EndDiscovery
  BY <1>7, PurgeInv
<1>8. CASE NewProcess
  BY <1>8, NewProcessInv
<1>9. CASE UNCHANGED vars
  <2>1. UNCHANGED <<entries, uuidIndex, discoveryMode, participated, alive, reported, reloaded,
                    writeLocked, file, saving, returned>>
    BY <1>9 DEF vars, contents, cycle, disk
  <2> QED
    BY <2>1 DEF CatalogInv, TypeOK, IndexCoherent, ReportedListed, LockOutsideCycle,
                FileCoherent, AliveReported, EcReturnsOwn, EntriesIdentified
<1> QED
  BY <1>1, <1>2, <1>3, <1>4, <1>5, <1>6, <1>7, <1>8, <1>9 DEF Next

(* Whatever calls the process makes, and whenever it dies, the catalog is    *)
(* well-formed, if the catalog file it was installed with was.               *)
THEOREM CatalogInvariant ==
  ASSUME \A f \in StoredFiles : WellFormed(f)
  PROVE  Spec => []CatalogInv
<1>1. Init => CatalogInv
  BY InitInv
<1>2. CatalogInv /\ [Next]_vars => CatalogInv'
  BY StepInv
<1> QED
  BY <1>1, <1>2, PTL DEF Spec

(* The index and the entries agree both ways.                                *)
THEOREM IndexAlwaysCoherent ==
  ASSUME \A f \in StoredFiles : WellFormed(f)
  PROVE  Spec => []IndexCoherent
<1>1. CatalogInv => IndexCoherent
  BY DEF CatalogInv
<1> QED
  BY <1>1, CatalogInvariant, PTL

(* registerEcChannel on an unlocked catalog returns the channel's own entry. *)
THEOREM RegisteredReturned ==
  ASSUME \A f \in StoredFiles : WellFormed(f)
  PROVE  Spec => []EcReturnsOwn
<1>1. CatalogInv => EcReturnsOwn
  BY DEF CatalogInv
<1> QED
  BY <1>1, CatalogInvariant, PTL

LEMMA PurgeKeepsReported ==
  ASSUME CatalogInv, discoveryMode, ~reloaded, PurgeStaleEntries \/ EndDiscovery
  PROVE  /\ \A u \in reported : \E i \in DOMAIN entries' : entries'[i].uuid = u
         /\ \A i \in DOMAIN entries' :
              entries'[i].backend \in participated => entries'[i].uuid \in reported
<1>1. Compact
  BY DEF PurgeStaleEntries, EndDiscovery, Purge
<1>2. /\ \A i \in DOMAIN entries' : \E k \in Kept : entries'[i] = entries[k]
      /\ \A k \in Kept : \E i \in DOMAIN entries' : entries'[i] = entries[k]
  BY <1>1, CompactKeeps DEF CatalogInv
<1>3. alive = reported /\ reported \subseteq Ids
  BY DEF CatalogInv, AliveReported, TypeOK
<1>4. \A u \in reported : uuidIndex[u] \in Kept /\ entries[uuidIndex[u]].uuid = u
  BY <1>3 DEF CatalogInv, ReportedListed, IndexCoherent, Kept
<1>5. \A k \in Kept : entries[k].backend \in participated => entries[k].uuid \in reported
  BY <1>3 DEF Kept
<1> QED
  BY <1>2, <1>4, <1>5

(* A purge loses nothing reported in its cycle and leaves nothing else of a  *)
(* backend that took part.                                                   *)
THEOREM PurgeExact ==
  ASSUME \A f \in StoredFiles : WellFormed(f)
  PROVE  Spec => PurgeMatchesReports
<1> DEFINE Exact ==
      discoveryMode /\ ~reloaded /\ (PurgeStaleEntries \/ EndDiscovery) =>
        /\ \A u \in reported : \E i \in DOMAIN entries' : entries'[i].uuid = u
        /\ \A i \in DOMAIN entries' :
             entries'[i].backend \in participated => entries'[i].uuid \in reported
<1>1. CatalogInv => [Exact]_vars
  BY PurgeKeepsReported
<1> QED
  BY <1>1, CatalogInvariant, PTL DEF PurgeMatchesReports

-------------------------------------------------------------------------------
(* Every entry of es belongs to the backend that owns its uuid. *)
Owned(es, owner) == \A i \in DOMAIN es : owner[es[i].uuid] = es[i].backend

(* No two backends use the same uuid: not the devices reported, not the      *)
(* EtherCAT channels, not the catalog file there was.                        *)
Disjoint(owner) ==
  /\ \A device \in Devices : owner[Identified(device).uuid] = device.backend
  /\ \A info \in EcChannels : owner[Hash[EtherCAT][info]] = EtherCAT
  /\ \A f \in StoredFiles : f \notin Unparsed => Owned(f, owner)

OwnInv(owner) ==
  /\ Owned(entries, owner)
  /\ file \notin Unparsed => Owned(file, owner)

(* What a catalog call does to the listing of other backends' entries. *)
AllListed ==
  \A i \in DOMAIN entries :
    entries[i].backend \notin participated =>
      Lists(entries', entries[i].uuid, entries[i].backend)

LEMMA SameListed ==
  ASSUME UNCHANGED entries
  PROVE  AllListed
BY DEF AllListed, Lists

LEMMA PutOwned ==
  ASSUME TypeOK, IndexCoherent, NEW owner, Owned(entries, owner),
         NEW e \in Entry, owner[e.uuid] = e.backend, Put(e)
  PROVE  Owned(entries', owner) /\ AllListed
<1> DEFINE at == uuidIndex[e.uuid]
<1>1. entries \in Seq(Entry) /\ e.uuid \in Ids
  BY DEF TypeOK, Entry
<1>2. CASE at # 0
  <2>1. at \in DOMAIN entries /\ entries[at].uuid = e.uuid
    BY <1>1, <1>2 DEF IndexCoherent
  <2>2. entries' = [entries EXCEPT ![at] = e]
    BY <1>2 DEF Put
  <2>3. /\ DOMAIN entries' = DOMAIN entries
        /\ entries'[at] = e
        /\ \A i \in DOMAIN entries : i # at => entries'[i] = entries[i]
    BY <1>1, <2>1, <2>2
  <2>4. entries[at].backend = e.backend
    BY <2>1 DEF Owned
  <2> QED
    BY <2>1, <2>3, <2>4 DEF Owned, AllListed, Lists
<1>3. CASE at = 0
  <2>1. entries' = Append(entries, e)
    BY <1>3 DEF Put
  <2>2. /\ DOMAIN entries' = DOMAIN entries \cup {Len(entries) + 1}
        /\ entries'[Len(entries) + 1] = e
        /\ \A i \in DOMAIN entries : entries'[i] = entries[i]
    BY <1>1, <2>1
  <2> QED
    BY <2>2 DEF Owned, AllListed, Lists
<1> QED
  BY <1>2, <1>3

LEMMA AddOwned ==
  ASSUME NEW owner, Disjoint(owner), CatalogInv, OwnInv(owner),
         NEW device \in Devices, AddEntry(device)
  PROVE  OwnInv(owner)' /\ AllListed
<1>1. device \in Entry
  BY DevicesAssumption
<1>2. Hash[device.backend][device.info] \in Ids
  BY <1>1, HashedEntry DEF Entry
<1>3. Identified(device) \in Entry /\ Identified(device).backend = device.backend
  BY <1>1, <1>2 DEF Identified, Entry
<1>4. owner[Identified(device).uuid] = Identified(device).backend
  BY <1>3 DEF Disjoint
<1>5. Put(Identified(device)) /\ UNCHANGED file
  BY DEF AddEntry, disk
<1> QED
  BY <1>3, <1>4, <1>5, PutOwned DEF CatalogInv, OwnInv

LEMMA PurgeOwned ==
  ASSUME NEW owner, CatalogInv, OwnInv(owner), PurgeStaleEntries \/ EndDiscovery
  PROVE  OwnInv(owner)' /\ AllListed
<1>1. (Compact \/ UNCHANGED entries) /\ UNCHANGED file
  BY DEF PurgeStaleEntries, EndDiscovery, Purge, contents, disk
<1>2. CASE Compact
  <2>1. /\ \A i \in DOMAIN entries' : \E k \in Kept : entries'[i] = entries[k]
        /\ \A k \in Kept : \E i \in DOMAIN entries' : entries'[i] = entries[k]
    BY <1>2, CompactKeeps DEF CatalogInv
  <2>2. \A i \in DOMAIN entries : entries[i].backend \notin participated => i \in Kept
    BY DEF Kept
  <2>3. Kept \subseteq DOMAIN entries
    BY DEF Kept
  <2>4. AllListed
    BY <2>1, <2>2 DEF AllListed, Lists
  <2>5. Owned(entries', owner)
    BY <2>1, <2>3 DEF OwnInv, Owned
  <2> QED
    BY <1>1, <2>4, <2>5 DEF OwnInv
<1>3. CASE UNCHANGED entries
  BY <1>1, <1>3, SameListed DEF OwnInv
<1> QED
  BY <1>1, <1>2, <1>3

LEMMA StepOwned ==
  ASSUME NEW owner, Disjoint(owner), CatalogInv, OwnInv(owner), [Next]_vars
  PROVE  OwnInv(owner)' /\ (Load \/ NewProcess \/ AllListed)
<1>1. CASE Load
  BY <1>1 DEF Load, contents, disk, OwnInv
<1>2. CASE SaveOpen \/ SaveWrite \/ SaveLost
  <2>1. UNCHANGED entries /\ file' \in {file, entries, TornFile} /\ TornFile \in Unparsed
    BY <1>2 DEF SaveOpen, SaveWrite, SaveLost, contents, Unparsed
  <2> QED
    BY <2>1, SameListed DEF OwnInv
<1>3. CASE BeginDiscovery \/ \E b \in Backends : MarkBackendParticipated(b)
  <2>1. UNCHANGED <<entries, file>>
    BY <1>3 DEF BeginDiscovery, MarkBackendParticipated, contents, disk
  <2> QED
    BY <2>1, SameListed DEF OwnInv
<1>4. CASE \E device \in Devices : AddEntry(device)
  BY <1>4, AddOwned
<1>5. ASSUME NEW info \in EcChannels, RegisterEcChannel(info)
      PROVE  OwnInv(owner)' /\ AllListed
  <2> DEFINE e == [uuid |-> Hash[EtherCAT][info], backend |-> EtherCAT, info |-> info]
  <2>1. e \in Entry /\ owner[e.uuid] = e.backend
    BY EcAssumption, HashedEntry DEF Disjoint
  <2>2. (UNCHANGED entries \/ Put(e)) /\ UNCHANGED file
    BY <1>5 DEF RegisterEcChannel, EcEntry, contents, disk
  <2> HIDE DEF e
  <2> QED
    BY <2>1, <2>2, PutOwned, SameListed DEF CatalogInv, OwnInv
<1>6. CASE \E info \in EcChannels : RegisterEcLocked(info)
  <2>1. UNCHANGED <<entries, file>>
    BY <1>6 DEF RegisterEcLocked, contents, disk
  <2> QED
    BY <2>1, SameListed DEF OwnInv
<1>7. CASE PurgeStaleEntries \/ EndDiscovery
  BY <1>7, PurgeOwned
<1>8. CASE NewProcess
  BY <1>8 DEF NewProcess, OwnInv, Owned
<1>9. CASE UNCHANGED vars
  <2>1. UNCHANGED <<entries, file>>
    BY <1>9 DEF vars, contents, disk
  <2> QED
    BY <2>1, SameListed DEF OwnInv
<1> QED
  BY <1>1, <1>2, <1>3, <1>4, <1>5, <1>6, <1>7, <1>8, <1>9 DEF Next

(* When no uuid is shared between backends, a catalog call never loses an    *)
(* entry of a backend that did not take part in the cycle.                   *)
THEOREM TerritoryIsolated ==
  ASSUME \A f \in StoredFiles : WellFormed(f),
         NEW owner, Disjoint(owner)
  PROVE  Spec => TerritoryKept
<1>1. Init => OwnInv(owner)
  BY DEF Init, OwnInv, Owned, Disjoint
<1>2. CatalogInv /\ OwnInv(owner) /\ [Next]_vars =>
        OwnInv(owner)' /\ (Load \/ NewProcess \/ AllListed)
  BY StepOwned
<1>3. CatalogInv /\ OwnInv(owner) /\ [Next]_vars =>
        [Load \/ NewProcess \/ AllListed]_vars
  BY <1>2
<1> QED
  BY <1>1, <1>2, <1>3, CatalogInvariant, PTL DEF Spec, TerritoryKept, AllListed
-------------------------------------------------------------------------------
(* The catalog implements the table of channels: what is indexed is what is  *)
(* listed.                                                                   *)
ListedBy(index) == {u \in Ids : index[u] # 0}

LEMMA LookupOf ==
  ASSUME NEW es, NEW index
  PROVE  /\ DOMAIN Lookup(es, index) = ListedBy(index)
         /\ \A u \in ListedBy(index) : Lookup(es, index)[u] = es[index[u]]
BY DEF Lookup, ListedBy

(* Two lookups that list the same uuids with the same entries are one. *)
LEMMA LookupIs ==
  ASSUME NEW es, NEW index, NEW T, T = [u \in DOMAIN T |-> T[u]],
         DOMAIN T = ListedBy(index),
         \A u \in ListedBy(index) : T[u] = es[index[u]]
  PROVE  Lookup(es, index) = T
BY DEF Lookup, ListedBy

LEMMA EmptyLookup ==
  /\ Lookup(<< >>, [u \in Ids |-> 0]) = Table!Empty
  /\ Lookup(<< >>, IndexOf(<< >>)) = Table!Empty
BY DEF Lookup, IndexOf, Table!Empty

(* An insertion lists the entry in the place of what its uuid had. *)
LEMMA PutLookup ==
  ASSUME TypeOK, IndexCoherent, NEW e \in Entry, Put(e)
  PROVE  Lookup(entries', uuidIndex') = Table!With(e)
<1> DEFINE T == Lookup(entries, uuidIndex)
           at == uuidIndex[e.uuid]
<1>1. /\ e.uuid \in Ids /\ entries \in Seq(Entry) /\ uuidIndex \in [Ids -> Nat]
  BY DEF Entry, TypeOK
<1>2. /\ DOMAIN T = ListedBy(uuidIndex)
      /\ \A u \in ListedBy(uuidIndex) : T[u] = entries[uuidIndex[u]]
  BY LookupOf
<1>3. Table!With(e) = [u \in DOMAIN T \cup {e.uuid} |-> IF u = e.uuid THEN e ELSE T[u]]
  BY DEF Table!With
<1> HIDE DEF T
<1>4. /\ DOMAIN Table!With(e) = ListedBy(uuidIndex) \cup {e.uuid}
      /\ Table!With(e)[e.uuid] = e
      /\ \A u \in ListedBy(uuidIndex) : u # e.uuid => Table!With(e)[u] = entries[uuidIndex[u]]
      /\ Table!With(e) = [u \in DOMAIN Table!With(e) |-> Table!With(e)[u]]
  BY <1>2, <1>3
<1>5. /\ ListedBy(uuidIndex') = ListedBy(uuidIndex) \cup {e.uuid}
      /\ entries'[uuidIndex'[e.uuid]] = e
      /\ \A u \in ListedBy(uuidIndex) : u # e.uuid =>
           entries'[uuidIndex'[u]] = entries[uuidIndex[u]]
  <2>1. CASE at # 0
    <3>1. entries' = [entries EXCEPT ![at] = e] /\ uuidIndex' = uuidIndex /\ at \in DOMAIN entries
      BY <1>1, <2>1 DEF Put, IndexCoherent
    <3>2. \A u \in ListedBy(uuidIndex) : u # e.uuid => uuidIndex[u] # at
      BY <1>1, <2>1 DEF IndexCoherent, ListedBy
    <3>3. \A u \in ListedBy(uuidIndex) : uuidIndex[u] \in DOMAIN entries
      BY DEF IndexCoherent, ListedBy
    <3> QED
      BY <1>1, <2>1, <3>1, <3>2, <3>3 DEF ListedBy
  <2>2. CASE at = 0
    <3>1. /\ entries' = Append(entries, e)
          /\ uuidIndex' = [uuidIndex EXCEPT ![e.uuid] = Len(entries) + 1]
      BY <2>2 DEF Put
    <3>2. /\ entries'[Len(entries) + 1] = e /\ Len(entries) + 1 # 0
          /\ \A i \in DOMAIN entries : entries'[i] = entries[i]
      BY <1>1, <3>1
    <3>3. \A u \in ListedBy(uuidIndex) : uuidIndex[u] \in DOMAIN entries
      BY DEF IndexCoherent, ListedBy
    <3> QED
      BY <1>1, <2>2, <3>1, <3>2, <3>3 DEF ListedBy
  <2> QED
    BY <2>1, <2>2
<1> QED
  BY <1>4, <1>5, LookupIs

(* A purge leaves what is current. *)
LEMMA CompactLookup ==
  ASSUME TypeOK, IndexCoherent, EntriesIdentified, Compact
  PROVE  Lookup(entries', uuidIndex') = Table!Current
<1> DEFINE T == Lookup(entries, uuidIndex)
<1>1. /\ entries' \in Seq(Entry) /\ uuidIndex' \in [Ids -> Nat] /\ IndexCoherent'
      /\ \A i \in DOMAIN entries' : \E k \in Kept : entries'[i] = entries[k]
      /\ \A k \in Kept : \E i \in DOMAIN entries' : entries'[i] = entries[k]
  BY CompactKeeps
<1>2. /\ DOMAIN T = ListedBy(uuidIndex)
      /\ \A u \in ListedBy(uuidIndex) : T[u] = entries[uuidIndex[u]]
  BY LookupOf
<1>3. Table!Current =
        [u \in {v \in DOMAIN T : T[v].backend \in participated => v \in alive} |-> T[u]]
  BY DEF Table!Current
<1> HIDE DEF T
<1>4. entries \in Seq(Entry) /\ \A i \in DOMAIN entries : entries[i].uuid \in Ids /\ i # 0
  <2>1. entries \in Seq(Entry)
    BY DEF TypeOK
  <2>2. \A i \in DOMAIN entries : entries[i] \in Entry /\ i # 0
    BY <2>1
  <2> QED
    BY <2>1, <2>2 DEF Entry
<1>5. \A i \in DOMAIN entries' : entries'[i].uuid \in Ids /\ i # 0
  <2>1. \A i \in DOMAIN entries' : entries'[i] \in Entry /\ i # 0
    BY <1>1
  <2> QED
    BY <2>1 DEF Entry
<1>6. ASSUME NEW u \in ListedBy(uuidIndex)
      PROVE  /\ uuidIndex[u] \in DOMAIN entries /\ T[u] = entries[uuidIndex[u]] /\ T[u].uuid = u
             /\ (T[u].backend \in participated => u \in alive) <=> uuidIndex[u] \in Kept
  BY <1>2 DEF ListedBy, IndexCoherent, Kept
<1>7. ASSUME NEW u \in ListedBy(uuidIndex')
      PROVE  u \in ListedBy(uuidIndex) /\ uuidIndex[u] \in Kept /\ entries'[uuidIndex'[u]] = T[u]
  <2>1. uuidIndex'[u] \in DOMAIN entries' /\ entries'[uuidIndex'[u]].uuid = u /\ u \in Ids
    BY <1>1 DEF ListedBy, IndexCoherent
  <2>2. PICK k \in Kept : entries'[uuidIndex'[u]] = entries[k]
    BY <1>1, <2>1
  <2>3. k \in DOMAIN entries /\ entries[k].uuid = u
    BY <2>1, <2>2 DEF Kept
  <2>4. uuidIndex[u] = k /\ k # 0
    BY <1>4, <2>3 DEF IndexCoherent
  <2> QED
    BY <1>2, <2>1, <2>2, <2>4 DEF ListedBy
<1>8. ASSUME NEW u \in ListedBy(uuidIndex), uuidIndex[u] \in Kept
      PROVE  u \in ListedBy(uuidIndex')
  <2>1. entries[uuidIndex[u]].uuid = u /\ u \in Ids
    BY DEF ListedBy, IndexCoherent
  <2>2. PICK i \in DOMAIN entries' : entries'[i] = entries[uuidIndex[u]]
    BY <1>1, <1>8
  <2>3. uuidIndex'[u] = i /\ i # 0
    BY <1>1, <1>5, <2>1, <2>2 DEF IndexCoherent
  <2> QED
    BY <2>1, <2>3 DEF ListedBy
<1>9. /\ DOMAIN Table!Current = {u \in ListedBy(uuidIndex) : uuidIndex[u] \in Kept}
      /\ \A u \in DOMAIN Table!Current : Table!Current[u] = T[u]
      /\ Table!Current = [u \in DOMAIN Table!Current |-> Table!Current[u]]
  BY <1>2, <1>3, <1>6
<1>10. DOMAIN Table!Current = ListedBy(uuidIndex')
  BY <1>7, <1>8, <1>9
<1> QED
  BY <1>7, <1>9, <1>10, LookupIs
LEMMA InitTable ==
  ASSUME Init
  PROVE  Table!Init
<1>1. Lookup(entries, uuidIndex) = Table!Empty
  BY EmptyLookup DEF Init
<1>2. IF file \notin Unparsed
        THEN Stored(file) \in {Lookup(f, IndexOf(f)) : f \in StoredFiles \ Unparsed}
        ELSE Stored(file) = Table!Empty
  BY EmptyLookup DEF Init, Stored
<1> QED
  BY <1>1, <1>2 DEF Init, Table!Init

(* While a save is at work, the file cannot be read. *)
SavingTorn == saving => file \in Unparsed

LEMMA StepTorn ==
  ASSUME SavingTorn, [Next]_vars
  PROVE  SavingTorn'
<1>1. CASE SaveOpen \/ SaveWrite \/ SaveLost \/ NewProcess
  BY <1>1 DEF SavingTorn, SaveOpen, SaveWrite, SaveLost, NewProcess, Unparsed
<1>2. CASE UNCHANGED disk
  BY <1>2 DEF SavingTorn, disk
<1>3. CASE UNCHANGED vars
  BY <1>2, <1>3 DEF vars
<1> QED
  BY <1>1, <1>2, <1>3
     DEF Next, Load, BeginDiscovery, MarkBackendParticipated, AddEntry, RegisterEcChannel,
         RegisterEcLocked, PurgeStaleEntries, EndDiscovery, disk

(* What the table sees of the file is in the file. *)
LEMMA SameFile ==
  ASSUME UNCHANGED <<file, saving>>
  PROVE  UNCHANGED Table!disk
BY DEF Table!disk, Stored

(* Every call is one of the table's, or one that its state does not show. *)
LEMMA StepTable ==
  ASSUME CatalogInv, SavingTorn, [Next]_vars
  PROVE  [Table!Next]_(Table!vars)
<1> DEFINE T == Lookup(entries, uuidIndex)
<1>1. CASE Load
  <2>1. T' = IF file \notin Unparsed THEN Stored(file) ELSE T
    BY <1>1 DEF Load, contents, Stored
  <2>2. Table!Load
    BY <1>1, <2>1, SameFile DEF Load, disk, Table!Load, Table!mode
  <2> QED
    BY <2>2 DEF Table!Next
<1>2. CASE SaveOpen
  <2>1. T' = T /\ file' \in Unparsed /\ Stored(file)' = Table!Empty
    BY <1>2, EmptyLookup DEF SaveOpen, contents, Unparsed, Stored
  <2>2. Table!SaveBegin
    BY <1>2, <2>1 DEF SaveOpen, cycle, Table!SaveBegin, Table!mode
  <2> QED
    BY <2>2 DEF Table!Next
<1>3. CASE SaveWrite \/ SaveLost
  <2>1. /\ T' = T /\ saving /\ saving' = FALSE
        /\ UNCHANGED <<discoveryMode, participated, alive, writeLocked>>
    BY <1>3 DEF SaveWrite, SaveLost, contents, cycle
  <2>2. ASSUME file' \notin Unparsed, SaveWrite
        PROVE  Stored(file)' = T
    <3>1. file' = entries /\ entries \in Seq(Entry) /\ uuidIndex \in [Ids -> Nat]
      BY <2>2 DEF SaveWrite, CatalogInv, TypeOK
    <3>2. Indexed(entries, uuidIndex) /\ Indexed(entries, IndexOf(entries))
      BY <3>1, IndexedUnique, RebuildIndexed DEF CatalogInv, IndexCoherent, Indexed
    <3>3. uuidIndex = IndexOf(entries)
      BY <3>1, <3>2, RebuildIndexed, IndexedUnique, SameIndex
    <3> QED
      BY <2>2, <3>1, <3>3 DEF Stored
  <2>3. file' \in Unparsed => Stored(file)' = Stored(file) /\ file \in Unparsed
    BY <2>1 DEF SavingTorn, Stored
  <2>4. SaveLost => file' = file
    BY DEF SaveLost
  <2>5. Table!SaveEnd
    BY <1>3, <2>1, <2>2, <2>3, <2>4 DEF SavingTorn, Table!SaveEnd, Table!mode
  <2> QED
    BY <2>5 DEF Table!Next
<1>4. CASE BeginDiscovery
  <2>1. Table!Begin
    BY <1>4, SameFile DEF BeginDiscovery, contents, disk, Table!Begin
  <2> QED
    BY <2>1 DEF Table!Next
<1>5. ASSUME NEW b \in Backends, MarkBackendParticipated(b)
      PROVE  Table!Next
  <2>1. Table!TakePart(b)
    BY <1>5, SameFile DEF MarkBackendParticipated, contents, disk, Table!TakePart
  <2> QED
    BY <2>1 DEF Table!Next
<1>6. ASSUME NEW device \in Devices, AddEntry(device)
      PROVE  Table!Next
  <2> DEFINE e == Identified(device)
  <2>1. e \in Entry
    <3>1. device \in Entry
      BY DevicesAssumption
    <3>2. Hash[device.backend][device.info] \in Ids
      BY <3>1, HashedEntry DEF Entry
    <3> QED
      BY <3>1, <3>2 DEF Identified, Entry
  <2>2. T' = Table!With(e)
    BY <1>6, <2>1, PutLookup DEF AddEntry, CatalogInv
  <2>3. Table!Seen(e)
    BY <1>6, SameFile DEF AddEntry, MarkAlive, disk, Table!Seen
  <2>4. Table!Report(e)
    BY <2>2, <2>3 DEF Table!Report
  <2>5. e \in {Identified(d) : d \in Devices}
    OBVIOUS
  <2> QED
    BY <2>4, <2>5 DEF Table!Next
<1>7. ASSUME NEW info \in EcChannels, RegisterEcChannel(info)
      PROVE  Table!Next
  <2> DEFINE e == EcEntry(info)
  <2>1. e \in Entry /\ e.uuid = Hash[EtherCAT][info] /\ e.uuid \in Ids
    BY EcAssumption, HashedEntry DEF EcEntry
  <2>2. T' = IF e.uuid \in DOMAIN T THEN T ELSE Table!With(e)
    <3>1. e.uuid \in DOMAIN T <=> uuidIndex[e.uuid] # 0
      BY <2>1 DEF Lookup
    <3> QED
      BY <1>7, <2>1, <3>1, PutLookup DEF RegisterEcChannel, contents, CatalogInv
  <2>3. Table!Seen(e)
    BY <1>7, <2>1, SameFile DEF RegisterEcChannel, MarkAlive, disk, Table!Seen
  <2>4. Table!Register(e)
    BY <2>2, <2>3 DEF Table!Register
  <2>5. e \in {EcEntry(i) : i \in EcChannels}
    OBVIOUS
  <2> QED
    BY <2>4, <2>5 DEF Table!Next
<1>8. CASE PurgeStaleEntries \/ EndDiscovery
  <2>1. /\ Purge /\ ~saving /\ writeLocked' \in {writeLocked, TRUE}
        /\ UNCHANGED <<participated, alive, file, saving>>
    BY <1>8 DEF PurgeStaleEntries, EndDiscovery, disk
  <2>2. T' = IF discoveryMode THEN Table!Current ELSE T
    BY <2>1, CompactLookup DEF Purge, contents, CatalogInv
  <2>3. discoveryMode' = FALSE
    BY <2>1 DEF Purge, CatalogInv, TypeOK
  <2>4. Table!Close
    BY <2>1, <2>2, <2>3, SameFile DEF Table!Close
  <2> QED
    BY <2>4 DEF Table!Next
<1>9. CASE NewProcess
  <2>1. T' = Table!Empty
    BY <1>9, EmptyLookup DEF NewProcess
  <2>2. Table!Restart
    BY <1>9, <2>1 DEF NewProcess, Stored, Table!Restart
  <2> QED
    BY <2>2 DEF Table!Next
<1>10. CASE \/ \E info \in EcChannels : RegisterEcLocked(info)
            \/ UNCHANGED vars
  <2>1. UNCHANGED <<entries, uuidIndex, discoveryMode, participated, alive, writeLocked, file, saving>>
    BY <1>10 DEF RegisterEcLocked, vars, contents, cycle, disk
  <2> QED
    BY <2>1, SameFile DEF Table!vars, Table!mode
<1> QED
  BY <1>1, <1>2, <1>3, <1>4, <1>5, <1>6, <1>7, <1>8, <1>9, <1>10 DEF Next

(* Entries, index, cycle and file implement the table, for all channels and  *)
(* every sequence of calls, crashes and failed writes.                       *)
THEOREM TableImplemented ==
  ASSUME \A f \in StoredFiles : WellFormed(f)
  PROVE  Spec => TableSpec
<1>1. Init => CatalogInv /\ SavingTorn /\ Table!Init
  BY InitInv, InitTable DEF Init, SavingTorn
<1>2. CatalogInv /\ SavingTorn /\ [Next]_vars => CatalogInv' /\ SavingTorn' /\ [Table!Next]_(Table!vars)
  BY StepInv, StepTorn, StepTable
<1> QED
  BY <1>1, <1>2, PTL DEF Spec, TableSpec, Table!Spec
===============================================================================
