------------------------- MODULE SimulatedDefinitions -------------------------
(***************************************************************************)
(* The definitions file of simulated channels between those who write it   *)
(* (SimulatedDefinitionBuilder::save(), the discover tool's --gen-simdefs, *)
(* an editor) and the application that reads it twice: in discover(), by   *)
(* SimulatedDiscovery::scan(), for the catalog, and in buildRT(), by       *)
(* SimulatedRTBackend::loadDefinitions(), for entries and image.           *)
(*                                                                         *)
(* A file is truncated first and written then, at any time.  Both readers  *)
(* resolve the names of types by a table of their own, have defaults of    *)
(* their own for what a file does not say, and throw at values whose type  *)
(* they do not expect.  The application has no other backend enabled; its  *)
(* catalog file is the catalog or, where it is lost, nothing.  The values  *)
(* of names and simulation parameters are left out.                        *)
(*                                                                         *)
(* The specification has names of its own, DefInit and so on, so that it   *)
(* can stand beside that of SimulatedWaves, the other half of the backend. *)
(***************************************************************************)
EXTENDS EntryTypes, Sequences

CONSTANTS
  Uuids,        \* the uuids that channels are given
  Generated,    \* the one that the catalog gives those that have none
  Missing,      \* a channel without a "uuid"
  Blank,        \* the empty uuid, and the nil one
  Unknown,      \* "SIM|unknown", or the name of a channel of the older format
  TypeNames,    \* the channelType names that files may have
  MappedTypes,  \* the types that channels are mapped with
  MaxChannels,  \* bound on the channels of a file
  MaxMapped,    \* bound on the channels that are mapped
  NoFile,       \* there is no file
  TornFile,     \* a file that does not parse, or at which both readers throw
  Renamed       \* the uuid "Simulated|n" of an entry for a mapped channel

ASSUME BoundsAssumption == MaxChannels \in Nat /\ MaxMapped \in Nat
ASSUME MappedTypesAssumption == MappedTypes \subseteq EntryType
ASSUME UuidsAssumption ==
  Generated \in Uuids /\ {Missing, Blank, Unknown, Renamed} \cap Uuids = {}

VARIABLES
  file,     \* the definitions file
  builder,  \* how far the builder of the application is
  catalog,  \* what its catalog has for each uuid: a direction, or nothing
  adapter,  \* there is a pending adapter
  mapped,   \* the channels that are mapped
  layout,   \* what the entries of the adapter were made from
  entries,  \* its entries
  image,    \* the size of its image in bytes
  stale     \* history: the file was written to since the scan, for the entries: since theirs

app == <<builder, catalog, adapter, mapped>>
built == <<layout, entries, image>>
defVars == <<file, app, built, stale>>

(* "channels" are an array, or the values of an object; a file of the older  *)
(* format has an array of "entries".  A value may have a type that one       *)
(* reader alone minds: a "name", or a cycle time or simulation parameter.    *)
Channel == [uuid : Uuids \cup {Missing, Blank}, type : TypeNames]
Forms == {"array", "object", "entries"}
Files ==
  {f \in [form : Forms, mistyped : {"nothing", "name", "parameter"},
           channels : UNION {[1..n -> Channel] : n \in 0..MaxChannels}] :
     f.mistyped = "name" => f.form # "entries" /\ f.channels # << >>}
Parsed == file \notin {NoFile, TornFile}

DefInit ==
  /\ file = NoFile
  /\ builder = "new"
  /\ catalog = [u \in Uuids |-> "absent"]
  /\ adapter = FALSE
  /\ mapped = << >>
  /\ layout = "none" /\ entries = << >> /\ image = 0
  /\ stale = FALSE

-------------------------------------------------------------------------------
(* save(): opening truncates the file; whoever dies here leaves it torn. *)
SaveOpen ==
  /\ file' = TornFile
  /\ stale' = (stale \/ builder \in {"new", "mapping"})
  /\ UNCHANGED <<app, built>>

SaveWrite(f) ==
  /\ file = TornFile
  /\ file' = f
  /\ UNCHANGED <<app, built, stale>>

-------------------------------------------------------------------------------
(* resolveChannelType(): names it does not know give the type 0, a Boolean   *)
(* without direction, and no output.                                         *)
NoType == [dir |-> {}, signed |-> FALSE, base |-> "Bool", size |-> 1]
Resolved == {BoolInput, BoolOutput, IntInput(8), IntInput(16), IntInput(32),
             IntOutput(16), FloatInput, FloatOutput}
ResolvedOutputs == {BoolOutput, IntOutput(16), FloatOutput}

(* Mistake: an output was forgotten in this copy of the table. *)
ScannedForgetting(name) == IF name \in {BoolOutput, FloatOutput} THEN "out" ELSE "in"

(* The copy of the table in SimulatedDiscovery: the catalog's isOutput... *)
Scanned(name) == IF name \in ResolvedOutputs THEN "out" ELSE "in"

(* ... and the copy in SimulatedRTBackend: the entry's type. *)
Loaded(name) == IF name \in Resolved THEN name ELSE NoType

(* scan() finds "channels" only, and those whatever holds them; without a    *)
(* uuid all of them get the one that addEntry() makes for simulated ones; of *)
(* two with one uuid the catalog keeps the later.                            *)
Found == IF Parsed /\ file.form # "entries" THEN file.channels ELSE << >>

Identified(uuid) == IF uuid \in {Missing, Blank} THEN Generated ELSE uuid

Listing(chs, u) ==
  LET with == {i \in DOMAIN chs : Identified(chs[i].uuid) = u}
  IN IF with = {} THEN "absent"
     ELSE Scanned(chs[CHOOSE i \in with : \A j \in with : j <= i].type)

Unscannable == file = TornFile \/ (Parsed /\ file.mistyped = "name")

(* discover(): a scan that finds something purges what it does not find. *)
Discover ==
  /\ builder = "new"
  /\ ~Unscannable
  /\ catalog' = IF Found = << >> THEN catalog ELSE [u \in Uuids |-> Listing(Found, u)]
  /\ adapter' = TRUE
  /\ builder' = "mapping"
  /\ stale' = FALSE
  /\ UNCHANGED <<file, mapped, built>>

(* Mistake: the adapter is stored before the scan. *)
ScanThrowsStored ==
  /\ builder = "new"
  /\ Unscannable
  /\ adapter' = TRUE
  /\ stale' = FALSE
  /\ UNCHANGED <<file, builder, catalog, mapped, built>>

(* json throws out of scan() and discover(), before the adapter is stored;   *)
(* the application may call again.                                           *)
ScanThrows ==
  /\ builder = "new"
  /\ Unscannable
  /\ stale' = FALSE
  /\ UNCHANGED <<file, app, built>>

(* mapChannel(u, t) *)
MapChannel(u, t) ==
  /\ builder \in {"new", "mapping"}
  /\ Len(mapped) < MaxMapped
  /\ mapped' = Append(mapped, [uuid |-> u, type |-> t])
  /\ UNCHANGED <<file, builder, catalog, adapter, built, stale>>

-------------------------------------------------------------------------------
(* buildRT() passes the mapped channels that the catalog lists, and no others. *)
Offered ==
  LET offered[n \in 0..Len(mapped)] ==
        IF n = 0 THEN << >>
        ELSE IF catalog[mapped[n].uuid] = "absent" THEN offered[n - 1]
        ELSE Append(offered[n - 1], mapped[n])
  IN offered[Len(mapped)]

(* build(channels): one byte for each of them, whatever its width. *)
MappedEntries ==
  [i \in DOMAIN Offered |-> [uuid |-> Renamed, type |-> Offered[i].type, offset |-> i - 1]]

(* Mistake: an output has the size of a Boolean. *)
EntryByteSizeNarrow(t) == IF t \in {IntInput(16), IntInput(32), FloatInput} THEN t.size \div 8 ELSE 1

(* entryByteSize(), with one byte for the types it does not list *)
EntryByteSize(t) ==
  IF t \in {IntInput(16), IntOutput(16), IntInput(32), FloatInput, FloatOutput}
  THEN t.size \div 8
  ELSE 1

(* The bytes of the first n channels. *)
BytesOf(chs) ==
  LET bytes[n \in 0..Len(chs)] ==
        IF n = 0 THEN 0 ELSE bytes[n - 1] + EntryByteSize(Loaded(chs[n].type))
  IN bytes

(* loadDefinitions() takes an array only, of "channels" or "entries". *)
ToBuild == IF file.form = "object" THEN << >> ELSE file.channels
Unloadable == file = TornFile \/ (Parsed /\ file.mistyped = "parameter")

Defaulted(uuid) == IF uuid = Missing THEN Unknown ELSE uuid

(* buildRT() of the adapter: the channels lie one after the other. *)
FileEntries(chs) ==
  [i \in DOMAIN chs |->
     [uuid |-> Defaulted(chs[i].uuid), type |-> Loaded(chs[i].type),
      offset |-> BytesOf(chs)[i - 1]]]

Buildable == builder \in {"new", "mapping"}

(* The context gets no simulated backend: no adapter, or no file to open. *)
BuildNothing ==
  /\ Buildable
  /\ ~adapter \/ (Offered = << >> /\ file = NoFile)
  /\ builder' = "built"
  /\ UNCHANGED <<file, catalog, adapter, mapped, built, stale>>

BuildMapped ==
  /\ Buildable
  /\ adapter /\ Offered # << >>
  /\ builder' = "built"
  /\ layout' = "mapped"
  /\ entries' = MappedEntries
  /\ image' = Len(Offered)
  /\ UNCHANGED <<file, catalog, adapter, mapped, stale>>

(* Nothing that the catalog lists is mapped: the definitions are read again. *)
BuildFromFile ==
  /\ Buildable
  /\ adapter /\ Offered = << >> /\ Parsed /\ ~Unloadable
  /\ builder' = "built"
  /\ layout' = file.form
  /\ entries' = FileEntries(ToBuild)
  /\ image' = BytesOf(ToBuild)[Len(ToBuild)]
  /\ UNCHANGED <<file, catalog, adapter, mapped, stale>>

(* json throws in loadDefinitions(), which is noexcept: the process ends.    *)
BuildTerminates ==
  /\ Buildable
  /\ adapter /\ Offered = << >> /\ Unloadable
  /\ builder' = "dead"
  /\ UNCHANGED <<file, catalog, adapter, mapped, built, stale>>

(* A new process, on the catalog file if it is there. *)
Restart ==
  /\ builder' = "new"
  /\ catalog' \in {catalog, [u \in Uuids |-> "absent"]}
  /\ adapter' = FALSE
  /\ mapped' = << >>
  /\ layout' = "none" /\ entries' = << >> /\ image' = 0
  /\ stale' = FALSE
  /\ UNCHANGED file

DefNext ==
  \/ SaveOpen \/ \E f \in Files : SaveWrite(f)
  \/ Discover \/ ScanThrows
  \/ \E u \in Uuids, t \in MappedTypes : MapChannel(u, t)
  \/ BuildNothing \/ BuildMapped \/ BuildFromFile \/ BuildTerminates
  \/ Restart

DefSpec == DefInit /\ [][DefNext]_defVars

-------------------------------------------------------------------------------
Entry == [uuid : Uuids \cup {Blank, Unknown, Renamed}, type : EntryType, offset : Nat]

(* Every variable has its type. *)
DefTypeOK ==
  /\ file \in Files \cup {NoFile, TornFile}
  /\ builder \in {"new", "mapping", "built", "dead"}
  /\ catalog \in [Uuids -> {"absent", "in", "out"}]
  /\ adapter \in BOOLEAN
  /\ mapped \in Seq([uuid : Uuids, type : MappedTypes])
  /\ layout \in {"none", "mapped"} \cup Forms
  /\ entries \in Seq(Entry)
  /\ image \in Nat
  /\ stale \in BOOLEAN

(* The bytes that read() and write() of an entry touch. *)
Touched(e) == e.offset..(e.offset + Bytes(e.type) - 1)

(* What read() and write() of the entries touch is in the image, and belongs *)
(* to one entry alone: of every file, and of a mapping of narrow channels.   *)
EntriesApart ==
  (layout = "mapped" => \A i \in DOMAIN entries : Bytes(entries[i].type) <= 1) =>
    \A i \in DOMAIN entries :
      /\ Touched(entries[i]) \subseteq 0..(image - 1)
      /\ \A j \in DOMAIN entries : i # j => Touched(entries[i]) \cap Touched(entries[j]) = {}

(* The two readings agree: if no one wrote to the file between them, there   *)
(* are entries for what the catalog lists and nothing else, and each that is *)
(* listed for itself has the direction the catalog gives it.  All entries    *)
(* without a uuid of their own are listed under the generated one, by which  *)
(* none of them is found.  Files whose channels are no array are read by one *)
(* of the readers alone.                                                     *)
Under(e) == IF e.uuid \in Uuids THEN e.uuid ELSE Generated
Alone(i) == \A j \in DOMAIN entries : Under(entries[j]) = Under(entries[i]) => i = j

CatalogServed ==
  (layout = "array" /\ ~stale /\ entries # << >>) =>
    /\ {u \in Uuids : catalog[u] # "absent"} = {Under(entries[i]) : i \in DOMAIN entries}
    /\ \A i \in DOMAIN entries :
         Alone(i) => (catalog[Under(entries[i])] = "out" <=> IsOutput(entries[i].type))

(* The process only ends in loadDefinitions() if someone wrote to the file   *)
(* after the scan or if it has, where scan() does not look, a value of a     *)
(* type that is not expected: a file that is torn when it is scanned is      *)
(* reported, and the application lives.                                      *)
DeathExplained ==
  [][builder # "dead" /\ builder' = "dead" =>
       stale \/ (Parsed /\ file.mistyped = "parameter")]_defVars

(* What holds between the calls: before discover() there is no adapter, and  *)
(* before buildRT() nothing is built; and for as long as no one writes to    *)
(* the file that was scanned, it parses and the catalog has its listing.     *)
CallsKept ==
  /\ adapter => builder # "new"
  /\ builder \in {"new", "mapping"} => layout = "none"
  /\ builder = "mapping" /\ ~stale =>
       /\ file # TornFile
       /\ Found # << >> => catalog = [u \in Uuids |-> Listing(Found, u)]

(* The invariant of the two readings. *)
DefinitionsInv == DefTypeOK /\ CallsKept
===============================================================================
