----------------------------- MODULE GpioChannels -----------------------------
(***************************************************************************)
(* GPIO channels over the lives of several programs on one board: the      *)
(* lines the kernel gives to one consumer at a time, GPIODiscovery's scan, *)
(* the GPIO part of the catalog file, the definitions of an application    *)
(* and the mapping file they are kept in by name, and the lines that       *)
(* GPIORTBackend requests.                                                 *)
(*                                                                         *)
(* Programs run builders one after the other, all on one catalog file; the *)
(* Mappers among them, on one mapping file (the discover tool maps none).  *)
(* Other consumers (kernel drivers, other programs) take and return lines  *)
(* at any time.  A line is known by its uuid, a hash of its offset.        *)
(* discover() is split where the scan is done, and buildRT() at each line   *)
(* that it requests; a torn file is a matter of HardwareOrchestrator.      *)
(***************************************************************************)
EXTENDS EntryTypes, Sequences, FiniteSets

CONSTANTS
  Lines,           \* the board's lines a scan may report
  Apps,            \* the programs with a builder
  Mappers,         \* those of them that map channels, with a mapping path
  Types,           \* the types they map channels as
  Kernel,          \* any other consumer of a line
  NoOne,           \* the consumer of a free line
  MaxDefs,         \* bound on the definitions of a builder
  MaxAsked         \* bound on the pairs of a line and a type ever mapped

ASSUME AppsAssumption == Mappers \subseteq Apps /\ NoOne \notin Apps /\ Kernel \notin Apps
ASSUME ConsumersAssumption == Kernel # NoOne
ASSUME TypesAssumption == Types \subseteq EntryType
ASSUME BoundsAssumption == MaxDefs \in Nat /\ MaxAsked \in Nat

VARIABLES
  consumer,     \* who has each line, as the kernel knows it
  direction,    \* the direction each line was requested with
  catalogFile,  \* the lines the catalog file lists
  mappingFile,  \* the definitions in the mapping file, with the names of their types
  stage,        \* how far the builder of each application is
  catalog,      \* the lines its catalog lists
  defs,         \* its channelDefs_
  request,      \* the definition whose line buildRT() requests next
  restored,     \* history: it has loaded the mapping file
  contested,    \* history: the mapped lines that others had during its buildRT()
  asked         \* history: every line with a type it was ever mapped as

kernel == <<consumer, direction>>
files == <<catalogFile, mappingFile>>
builder == <<stage, catalog, defs, request, restored>>
vars == <<kernel, files, builder, contested, asked>>

Definition == [line : Lines, type : EntryType]
Names == {NameOf(t) : t \in EntryType}

Init ==
  /\ consumer \in [Lines -> {Kernel, NoOne}]
  /\ direction = [l \in Lines |-> "none"]
  /\ catalogFile = {}
  /\ mappingFile = << >>
  /\ stage = [p \in Apps |-> "new"]
  /\ catalog = [p \in Apps |-> {}]
  /\ defs = [p \in Apps |-> << >>]
  /\ request = [p \in Apps |-> 0]
  /\ restored = [p \in Apps |-> FALSE]
  /\ contested = [p \in Apps |-> {}]
  /\ asked = {}

-------------------------------------------------------------------------------
(* The definitions of l that buildRT() offers: those of a line in the catalog. *)
Offered(p, l) == {i \in DOMAIN defs[p] : defs[p][i].line = l /\ l \in catalog[p]}

(* l, given to q, is one that other programs may be about to request. *)
Lost(l, q) ==
  [p \in Apps |->
    IF p # q /\ stage[p] = "building" /\ Offered(p, l) # {}
    THEN contested[p] \cup {l} ELSE contested[p]]

(* The kernel's other consumers. *)
KernelTakes(l) ==
  /\ consumer[l] = NoOne
  /\ consumer' = [consumer EXCEPT ![l] = Kernel]
  /\ contested' = Lost(l, Kernel)
  /\ UNCHANGED <<direction, files, builder, asked>>

KernelReturns(l) ==
  /\ consumer[l] = Kernel
  /\ consumer' = [consumer EXCEPT ![l] = NoOne]
  /\ UNCHANGED <<direction, files, builder, contested, asked>>

-------------------------------------------------------------------------------
(* Definitions are made between other calls, up to buildRT(). *)
Open(p) == stage[p] \in {"new", "ready"} /\ Len(defs[p]) < MaxDefs

(* mapChannel(uuid of l, t) *)
MapChannel(p, l, t) ==
  /\ Open(p)
  /\ p \in Mappers
  /\ Cardinality(asked \cup {<<l, t>>}) <= MaxAsked
  /\ defs' = [defs EXCEPT ![p] = Append(@, [line |-> l, type |-> t])]
  /\ asked' = asked \cup {<<l, t>>}
  /\ UNCHANGED <<kernel, files, stage, catalog, request, restored, contested>>

(* The definitions with their types by name, as saveMappings() writes them... *)
Written(ds) == [i \in DOMAIN ds |-> [line |-> ds[i].line, name |-> NameOf(ds[i].type)]]

(* Mistake: the definitions of lines that are not in the catalog are dropped. *)
SavedWhereListed(p) ==
  Written(SelectSeq(defs[p], LAMBDA d : d.line \in catalog[p]))

(* ... all of them, stale ones too, ... *)
Saved(p) == Written(defs[p])

(* Mistake: one definition object for the whole loop, with its first type. *)
LoadedSharing(ms) ==
  [i \in DOMAIN ms |-> [line |-> ms[i].line, type |-> TypeNamed(ms[1].name)]]

(* ... and as loadMappings() reads them. *)
Loaded(ms) == [i \in DOMAIN ms |-> [line |-> ms[i].line, type |-> TypeNamed(ms[i].name)]]

LoadMappings(p) ==
  /\ Open(p)
  /\ p \in Mappers
  /\ Len(defs[p]) + Len(mappingFile) <= MaxDefs
  /\ defs' = [defs EXCEPT ![p] = @ \o Loaded(mappingFile)]
  /\ restored' = [restored EXCEPT ![p] = TRUE]
  /\ UNCHANGED <<kernel, files, stage, catalog, request, contested, asked>>

-------------------------------------------------------------------------------
(* scan(): the lines no one has, or none at all where the chip cannot be     *)
(* opened.                                                                   *)
Unused == {l \in Lines : consumer[l] = NoOne}

(* discover() to the end of the purge: the catalog is loaded; if the scan    *)
(* found any line, every line it did not find is purged.                     *)
DiscoverScan(p) ==
  /\ stage[p] = "new"
  /\ \E found \in {Unused, {}} :
       catalog' = [catalog EXCEPT ![p] = IF found = {} THEN catalogFile ELSE found]
  /\ stage' = [stage EXCEPT ![p] = "scanned"]
  /\ UNCHANGED <<kernel, files, defs, request, restored, contested, asked>>

(* The rest of it: both files are written, where they can be opened. *)
DiscoverSave(p) ==
  /\ stage[p] = "scanned"
  /\ catalogFile' \in {catalogFile, catalog[p]}
  /\ mappingFile' \in IF p \in Mappers THEN {mappingFile, Saved(p)} ELSE {mappingFile}
  /\ stage' = [stage EXCEPT ![p] = "ready"]
  /\ UNCHANGED <<kernel, catalog, defs, request, restored, contested, asked>>

-------------------------------------------------------------------------------
(* An output unless it is an input. *)
RequestedAs(t) == IF IsInput(t) THEN "in" ELSE "out"

(* buildRT() up to the requests: there are lines for them, the chip is open. *)
BuildBegin(p) ==
  /\ stage[p] = "ready"
  /\ \E l \in Lines : Offered(p, l) # {}
  /\ stage' = [stage EXCEPT ![p] = "building"]
  /\ request' = [request EXCEPT ![p] = 1]
  /\ contested' = [contested EXCEPT ![p] =
       {l \in Lines : consumer[l] # NoOne /\ Offered(p, l) # {}}]
  /\ UNCHANGED <<kernel, files, catalog, defs, restored, asked>>

(* Mistake: the definitions are gone through from the last one on. *)
RequestedFromLast(p) == defs[p][Len(defs[p]) + 1 - request[p]]

(* The definitions are gone through in their order, ... *)
Requested(p) == defs[p][request[p]]

Requesting(p) == stage[p] = "building" /\ request[p] \in DOMAIN defs[p]

Grantable(p) == Requested(p).line \in catalog[p] /\ consumer[Requested(p).line] = NoOne

(* ... each of a line in the catalog with a request of its own, which is     *)
(* granted if no one has the line at that moment, ...                        *)
LineGranted(p) ==
  /\ Requesting(p)
  /\ Grantable(p)
  /\ LET d == Requested(p)
     IN  /\ consumer' = [consumer EXCEPT ![d.line] = p]
         /\ direction' = [direction EXCEPT ![d.line] = RequestedAs(d.type)]
         /\ contested' = Lost(d.line, p)
  /\ request' = [request EXCEPT ![p] = @ + 1]
  /\ UNCHANGED <<files, stage, catalog, defs, restored, asked>>

(* ... and gone without otherwise.                                           *)
LineRefused(p) ==
  /\ Requesting(p)
  /\ ~Grantable(p)
  /\ request' = [request EXCEPT ![p] = @ + 1]
  /\ UNCHANGED <<kernel, files, stage, catalog, defs, restored, contested, asked>>

(* The end of buildRT(): the catalog moves into the context object.  Without *)
(* a discover() there is no adapter, and where the chip cannot be opened no  *)
(* line is requested.                                                        *)
BuildEnd(p) ==
  /\ stage[p] \in {"new", "ready", "building"}
  /\ stage[p] = "building" => request[p] \notin DOMAIN defs[p]
  /\ stage' = [stage EXCEPT ![p] = "built"]
  /\ catalog' = [catalog EXCEPT ![p] = {}]
  /\ request' = [request EXCEPT ![p] = 0]
  /\ UNCHANGED <<kernel, files, defs, restored, contested, asked>>

(* Everything is destroyed, or the process dies, and a new builder takes its *)
(* place: closing the chip returns its lines.                                *)
Exit(p) ==
  /\ consumer' = [l \in Lines |-> IF consumer[l] = p THEN NoOne ELSE consumer[l]]
  /\ direction' = [l \in Lines |-> IF consumer[l] = p THEN "none" ELSE direction[l]]
  /\ stage' = [stage EXCEPT ![p] = "new"]
  /\ catalog' = [catalog EXCEPT ![p] = {}]
  /\ defs' = [defs EXCEPT ![p] = << >>]
  /\ request' = [request EXCEPT ![p] = 0]
  /\ restored' = [restored EXCEPT ![p] = FALSE]
  /\ contested' = [contested EXCEPT ![p] = {}]
  /\ UNCHANGED <<files, asked>>

Next ==
  \/ \E l \in Lines : KernelTakes(l) \/ KernelReturns(l)
  \/ \E p \in Apps :
       \/ \E l \in Lines, t \in Types : MapChannel(p, l, t)
       \/ LoadMappings(p)
       \/ DiscoverScan(p) \/ DiscoverSave(p)
       \/ BuildBegin(p) \/ LineGranted(p) \/ LineRefused(p) \/ BuildEnd(p)
       \/ Exit(p)

Spec == Init /\ [][Next]_vars

-------------------------------------------------------------------------------
TypeOK ==
  /\ consumer \in [Lines -> Apps \cup {Kernel, NoOne}]
  /\ direction \in [Lines -> {"none", "in", "out"}]
  /\ catalogFile \subseteq Lines
  /\ mappingFile \in Seq([line : Lines, name : Names])
  /\ stage \in [Apps -> {"new", "scanned", "ready", "building", "built"}]
  /\ catalog \in [Apps -> SUBSET Lines]
  /\ defs \in [Apps -> Seq(Definition)]
  /\ request \in [Apps -> Nat]
  /\ restored \in [Apps -> BOOLEAN]
  /\ contested \in [Apps -> SUBSET Lines]
  /\ asked \subseteq Lines \X Types

(* A line is only held by an application that has built or is at it, with a  *)
(* direction just as long.                                                   *)
HeldByBuilt ==
  \A l \in Lines :
    /\ consumer[l] \in Apps => stage[consumer[l]] \in {"building", "built"}
    /\ consumer[l] \in Apps <=> direction[l] # "none"

(* What l was mapped as, and what a stay in the mapping file makes of it. *)
Descends(l, t) == \E o \in Types : <<l, o>> \in asked /\ t \in {o, Reload(o)}

DefinitionTypes == Types \cup {Reload(o) : o \in Types}

FileDescends ==
  \A i \in DOMAIN mappingFile :
    \E t \in DefinitionTypes : mappingFile[i].name = NameOf(t) /\ Descends(mappingFile[i].line, t)

(* After any number of restarts a definition has the type its line was once  *)
(* mapped as, or what one reload makes of that, never a third.               *)
TypesSettle ==
  \A p \in Apps : \A i \in DOMAIN defs[p] : Descends(defs[p][i].line, defs[p][i].type)

(* The inductive invariant of the lines and the definitions. *)
GpioInv == TypeOK /\ HeldByBuilt /\ FileDescends /\ TypesSettle

(* No line is ever driven, by whatever application after whatever restarts,  *)
(* unless some application mapped it as something other than an input.       *)
NeverDriven ==
  \A l \in Lines : direction[l] = "out" => \E t \in Types : <<l, t>> \in asked /\ ~IsInput(t)

(* However often a line is mapped, and whoever else wants it, one that no    *)
(* one else had at any time of a program's buildRT() is requested in the     *)
(* direction of its first definition, the one that lookupByUuid() resolves   *)
(* its uuid to, and it is held from then on.                                 *)
FirstMappingDecides ==
  \A p \in Apps : \A l \in Lines \ contested[p] :
    /\ consumer[l] = p =>
         \E i \in DOMAIN defs[p] :
           /\ defs[p][i].line = l /\ RequestedAs(defs[p][i].type) = direction[l]
           /\ \A j \in 1..(i - 1) : defs[p][j].line # l
    /\ stage[p] = "building" /\ (\E i \in Offered(p, l) : i < request[p]) => consumer[l] = p

(* "Remap required", but nothing is lost: a line that was taken, and so      *)
(* purged from the catalog, keeps its definition in the mapping file of an   *)
(* application that loads it.                                                *)
MappedLines(ms) == {ms[i].line : i \in DOMAIN ms}

MappingSurvivesPurge ==
  [][\A p \in Apps : DiscoverSave(p) /\ restored[p] =>
       MappedLines(mappingFile) \subseteq MappedLines(mappingFile')]_vars
===============================================================================
