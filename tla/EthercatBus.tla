------------------------------ MODULE EthercatBus ------------------------------
(***************************************************************************)
(* The EtherCAT backend between the catalog and the running context:       *)
(* EthercatDiscovery::scan() and EthercatRTBackend::build(), each of which *)
(* requests the one master of the kernel, walks the slaves on the bus by   *)
(* position and reads their PDO entries; then registration, activation,    *)
(* the wait for the slaves, the channel filter, and the destructor.        *)
(*                                                                         *)
(* A builder (DynamicHardwareBuilder and what buildRT() made of it) owns a *)
(* scanner and an adapter.  An application may have several, one after     *)
(* another or at once; any call of the master library may fail, and slaves *)
(* come, go and change places at any time.  The calls that read one slave  *)
(* are one step.                                                           *)
(***************************************************************************)
EXTENDS Integers, Sequences

CONSTANTS
  Builders,    \* the builders of the process
  Free,        \* the master is reserved by nobody
  Slaves,      \* the slaves there are
  ProductOf,   \* vendor id and product code of each
  Pdos,        \* the PDO entries in the EEPROM of each product
  Bits,        \* bit_length of each PDO entry
  OutputPdos,  \* those that the master sends
  Buses,       \* the orders of slaves that may respond
  CycleTimes,  \* what configure() may store; 0 stands for no "cycleNs" key
  BlankUuid    \* the empty string

Products == {ProductOf[s] : s \in Slaves}
AllPdos == UNION {Pdos[p] : p \in Products}

ASSUME BuildersAssumption == Free \notin Builders
ASSUME SlavesAssumption ==
  /\ ProductOf \in [Slaves -> Products]
  /\ Bits \in [AllPdos -> Nat \ {0}]
  /\ OutputPdos \subseteq AllPdos
  /\ Buses \subseteq Seq(Slaves)
ASSUME CycleTimesAssumption == CycleTimes \subseteq Nat

(* What buildEntryKey() makes the uuid from; the direction and the type it   *)
(* adds follow from the product and the PDO entry.                           *)
Keys == [product : Products, pos : Nat \ {0}, pdo : AllPdos]

ASSUME BlankAssumption == BlankUuid \notin Keys

VARIABLES
  bus,       \* the slaves that respond, in the order of their positions
  inOp,      \* those of them that have reached OP
  reserved,  \* the builder whose request for the master was granted
  catalog,   \* the EtherCAT channels of the catalog file
  pc,        \* where each builder is
  holds,     \* the object of each builder whose master_ is not null
  cycleNs,   \* cycleNs_ of each adapter
  pos,       \* the next position of the walk in progress
  total,     \* slaves_responding when it began
  read,      \* results of scan(), or regs_ of the adapter
  filter,    \* channelUuidFilter_ of each adapter
  entries,   \* dhdos_[0].entries: the uuid of each PDO entry that was wrapped
  complete,  \* lastDomainState_.wc_state = EC_WC_COMPLETE
  waited     \* i in waitForCommunication()

hardware == <<bus, inOp>>
walk == <<pos, total, read>>
result == <<filter, entries, complete, waited>>
vars == <<hardware, reserved, catalog, pc, holds, cycleNs, walk, result>>

NoEntries == [k \in {} |-> BlankUuid]

Init ==
  /\ bus \in Buses
  /\ inOp = {}
  /\ reserved = Free
  /\ catalog = {}
  /\ pc = [b \in Builders |-> "new"]
  /\ holds = [b \in Builders |-> "nobody"]
  /\ cycleNs = [b \in Builders |-> 0]
  /\ pos = [b \in Builders |-> 0]
  /\ total = [b \in Builders |-> 0]
  /\ read = [b \in Builders |-> {}]
  /\ filter = [b \in Builders |-> {}]
  /\ entries = [b \in Builders |-> NoEntries]
  /\ complete = [b \in Builders |-> FALSE]
  /\ waited = [b \in Builders |-> 0]

Go(b, where) == pc' = [pc EXCEPT ![b] = where]

(* ecrt_request_master(0): granted to one at a time; it may fail at any time.*)
Request(b, who) ==
  /\ reserved = Free
  /\ reserved' = b
  /\ holds' = [holds EXCEPT ![b] = who]

(* Mistake: master_ is set to nullptr and the master is not released. *)
ReleaseForgotten(b) ==
  /\ holds' = [holds EXCEPT ![b] = "nobody"]
  /\ UNCHANGED <<reserved, inOp>>

(* ecrt_release_master(): the slaves leave OP. *)
Release(b) ==
  /\ reserved' = Free
  /\ holds' = [holds EXCEPT ![b] = "nobody"]
  /\ inOp' = {}

-------------------------------------------------------------------------------
(* inferChannelType() of the key and of the descriptor. *)
InferChannelType(p) ==
  IF p \in OutputPdos
    THEN IF Bits[p] = 1 THEN "DigitalOutput" ELSE "Raw"
    ELSE IF Bits[p] = 1 THEN "DigitalInput"
    ELSE IF Bits[p] = 32 THEN "Encoder"
    ELSE IF Bits[p] = 16 THEN "AnalogInput" ELSE "Raw"

(* Whether buildEntries() has an entry type for it. *)
Wrapped(p) ==
  \/ Bits[p] = 1
  \/ Bits[p] \in {16, 32} /\ p \notin OutputPdos

(* The walk reads slaves_responding once; without slaves the call ends. *)
WalkFrom(b) ==
  /\ bus # << >>
  /\ total' = [total EXCEPT ![b] = Len(bus)]
  /\ pos' = [pos EXCEPT ![b] = 1]
  /\ read' = [read EXCEPT ![b] = {}]

(* Its variables are gone when it has ended. *)
WalkDone(b) ==
  /\ pos' = [pos EXCEPT ![b] = 0]
  /\ total' = [total EXCEPT ![b] = 0]

(* One position: what could be read of the slave that is there now, if any. *)
Readable(p) ==
  IF p \in DOMAIN bus
    THEN [product : {ProductOf[bus[p]]}, pos : {p}, pdo : Pdos[ProductOf[bus[p]]]]
    ELSE {}

WalkSlave(b) ==
  /\ pc[b] \in {"scanning", "walking"}
  /\ pos[b] <= total[b]
  /\ \E got \in SUBSET Readable(pos[b]) : read' = [read EXCEPT ![b] = @ \cup got]
  /\ pos' = [pos EXCEPT ![b] = @ + 1]
  /\ UNCHANGED <<hardware, reserved, catalog, pc, holds, cycleNs, total, result>>

-------------------------------------------------------------------------------
(* runDiscoveryScan(): a new scanner and a new adapter, which replaces one   *)
(* that is still pending.  Without the master the scan returns nothing.      *)
Scannable == {"new", "pending"}

ScanRefused(b, ns) ==
  /\ pc[b] \in Scannable
  /\ cycleNs' = [cycleNs EXCEPT ![b] = ns]
  /\ Go(b, "pending")
  /\ UNCHANGED <<hardware, reserved, catalog, holds, walk, result>>

ScanAcquire(b, ns) ==
  /\ pc[b] \in Scannable
  /\ Request(b, "scanner")
  /\ cycleNs' = [cycleNs EXCEPT ![b] = ns]
  /\ Go(b, "opened")
  /\ UNCHANGED <<hardware, catalog, walk, result>>

(* There is no domain, or no slave: reset(), and an empty result. *)
ScanNothing(b) ==
  /\ pc[b] = "opened"
  /\ Release(b)
  /\ Go(b, "pending")
  /\ UNCHANGED <<bus, catalog, cycleNs, walk, result>>

ScanBegin(b) ==
  /\ pc[b] = "opened"
  /\ WalkFrom(b)
  /\ Go(b, "scanning")
  /\ UNCHANGED <<hardware, reserved, catalog, holds, cycleNs, result>>

(* reset(); the orchestrator adds what was found and purges what was not,    *)
(* unless nothing was found.                                                 *)
ScanEnd(b) ==
  /\ pc[b] = "scanning"
  /\ pos[b] > total[b]
  /\ Release(b)
  /\ catalog' = IF read[b] = {} THEN catalog ELSE read[b]
  /\ WalkDone(b)
  /\ read' = [read EXCEPT ![b] = {}]
  /\ Go(b, "pending")
  /\ UNCHANGED <<bus, cycleNs, result>>

-------------------------------------------------------------------------------
(* build(channels): the application has mapped some of the catalog. *)
BuildRefused(b) ==
  /\ pc[b] = "pending"
  /\ Go(b, "failed")
  /\ UNCHANGED <<hardware, reserved, catalog, holds, cycleNs, walk, result>>

BuildAcquire(b) ==
  /\ pc[b] = "pending"
  /\ \E mapped \in SUBSET catalog : filter' = [filter EXCEPT ![b] = mapped]
  /\ Request(b, "adapter")
  /\ Go(b, "acquired")
  /\ UNCHANGED <<hardware, catalog, cycleNs, walk, entries, complete, waited>>

(* discoverAndRegister() *)
WalkBegin(b) ==
  /\ pc[b] = "acquired"
  /\ WalkFrom(b)
  /\ Go(b, "walking")
  /\ UNCHANGED <<hardware, reserved, catalog, holds, cycleNs, result>>

Register(b) ==
  /\ pc[b] = "walking"
  /\ pos[b] > total[b]
  /\ read[b] # {}
  /\ WalkDone(b)
  /\ Go(b, "registered")
  /\ UNCHANGED <<hardware, reserved, catalog, holds, cycleNs, read, result>>

Activate(b) ==
  /\ pc[b] = "registered"
  /\ Go(b, "activated")
  /\ UNCHANGED <<hardware, reserved, catalog, holds, cycleNs, walk, result>>

(* No domain or no slave; nothing was read or it could not be registered;    *)
(* the activation failed; there is no domain data.  What such an adapter has *)
(* read and was given is of no use any more.                                 *)
BuildFails(b) ==
  /\ \/ pc[b] \in {"acquired", "registered", "activated"}
     \/ pc[b] = "walking" /\ pos[b] > total[b]
  /\ Release(b)
  /\ WalkDone(b)
  /\ read' = [read EXCEPT ![b] = {}]
  /\ filter' = [filter EXCEPT ![b] = {}]
  /\ Go(b, "failed")
  /\ UNCHANGED <<bus, catalog, cycleNs, entries, complete, waited>>

(* buildEntries(); applyConfig() finds no Config, which only direct users of *)
(* the class can set.                                                        *)
BuildEntries(b) ==
  /\ pc[b] = "activated"
  /\ entries' = [entries EXCEPT ![b] = [k \in {r \in read[b] : Wrapped(r.pdo)} |-> k]]
  /\ complete' = [complete EXCEPT ![b] = FALSE]
  /\ waited' = [waited EXCEPT ![b] = 0]
  /\ Go(b, "waiting")
  /\ UNCHANGED <<hardware, reserved, catalog, holds, cycleNs, walk, filter>>

-------------------------------------------------------------------------------
(* The domain's working counter: every slave with a registered entry is      *)
(* where it was, and in OP.                                                  *)
Communicating(b) ==
  \A k \in read[b] :
    /\ k.pos \in DOMAIN bus
    /\ ProductOf[bus[k.pos]] = k.product
    /\ bus[k.pos] \in inOp

IntervalUs(b) == cycleNs[b] \div 1000
MaxCycles(b) == 5000000 \div IntervalUs(b)

(* Mistake: the filter drops what is mapped. *)
FilteredInverted(b) ==
  IF filter[b] = {} THEN entries[b]
  ELSE [k \in {e \in DOMAIN entries[b] : entries[b][e] \notin filter[b]} |-> k]

(* The filter of build(): the kept entries are moved into a new vector,      *)
(* which replaces the old one if something was dropped.                      *)
Filtered(b) ==
  LET old == entries[b]
      kept == {k \in DOMAIN old : old[k] \in filter[b]}
  IN IF filter[b] = {} THEN old
     ELSE IF kept = DOMAIN old THEN [k \in kept |-> BlankUuid]
     ELSE [k \in kept |-> k]

BuildReturns(b) ==
  /\ entries' = [entries EXCEPT ![b] = Filtered(b)]
  /\ waited' = [waited EXCEPT ![b] = 0]
  /\ Go(b, "up")

(* Mistake: a cycle that is not counted. *)
WaitCycleUncounted(b) ==
  /\ pc[b] = "waiting"
  /\ IntervalUs(b) > 0
  /\ waited[b] < MaxCycles(b)
  /\ complete' = [complete EXCEPT ![b] = Communicating(b)]
  /\ IF complete'[b]
       THEN BuildReturns(b)
       ELSE UNCHANGED <<waited, pc, entries>>
  /\ UNCHANGED <<hardware, reserved, catalog, holds, cycleNs, walk, filter>>

(* One round of waitForCommunication(): the hooks, and the domain state. *)
WaitCycle(b) ==
  /\ pc[b] = "waiting"
  /\ IntervalUs(b) > 0
  /\ waited[b] < MaxCycles(b)
  /\ complete' = [complete EXCEPT ![b] = Communicating(b)]
  /\ IF complete'[b]
       THEN BuildReturns(b)
       ELSE waited' = [waited EXCEPT ![b] = @ + 1] /\ UNCHANGED <<pc, entries>>
  /\ UNCHANGED <<hardware, reserved, catalog, holds, cycleNs, walk, filter>>

(* The time is up, and build() goes on with a warning. *)
WaitOver(b) ==
  /\ pc[b] = "waiting"
  /\ IntervalUs(b) > 0
  /\ waited[b] >= MaxCycles(b)
  /\ BuildReturns(b)
  /\ UNCHANGED <<hardware, reserved, catalog, holds, cycleNs, walk, filter, complete>>

(* The division by an interval of zero gives zero on some machines... *)
WaitSkipped(b) ==
  /\ pc[b] = "waiting"
  /\ IntervalUs(b) = 0
  /\ BuildReturns(b)
  /\ UNCHANGED <<hardware, reserved, catalog, holds, cycleNs, walk, filter, complete>>

(* ... and ends the process on others; the kernel takes the master back.     *)
WaitTraps(b) ==
  /\ pc[b] = "waiting"
  /\ IntervalUs(b) = 0
  /\ inOp' = {}
  /\ reserved' = Free
  /\ pc' = [c \in Builders |-> "new"]
  /\ holds' = [c \in Builders |-> "nobody"]
  /\ read' = [c \in Builders |-> {}]
  /\ filter' = [c \in Builders |-> {}]
  /\ entries' = [c \in Builders |-> NoEntries]
  /\ complete' = [c \in Builders |-> FALSE]
  /\ pos' = [c \in Builders |-> 0]
  /\ total' = [c \in Builders |-> 0]
  /\ waited' = [c \in Builders |-> 0]
  /\ UNCHANGED <<bus, catalog, cycleNs>>

(* onBeforeReadInputs() of the running context. *)
Cycle(b) ==
  /\ pc[b] = "up"
  /\ complete' = [complete EXCEPT ![b] = Communicating(b)]
  /\ UNCHANGED <<hardware, reserved, catalog, pc, holds, cycleNs, walk, filter, entries, waited>>

(* The builder or its context goes, and the adapter with it. *)
Destroy(b) ==
  /\ pc[b] \in {"pending", "failed", "up"}
  /\ IF holds[b] = "adapter" THEN Release(b) ELSE UNCHANGED <<reserved, holds, inOp>>
  /\ read' = [read EXCEPT ![b] = {}]
  /\ filter' = [filter EXCEPT ![b] = {}]
  /\ entries' = [entries EXCEPT ![b] = NoEntries]
  /\ complete' = [complete EXCEPT ![b] = FALSE]
  /\ Go(b, "new")
  /\ UNCHANGED <<bus, catalog, cycleNs, pos, total, waited>>

-------------------------------------------------------------------------------
(* Slaves are switched on or off, unplugged or put elsewhere. *)
BusChange ==
  /\ bus' \in Buses \ {bus}
  /\ inOp' = {s \in inOp : \E p \in DOMAIN bus' : bus'[p] = s}
  /\ UNCHANGED <<reserved, catalog, pc, holds, cycleNs, walk, result>>

(* A slave of the active configuration reaches OP. *)
SlaveUp(s) ==
  /\ s \notin inOp
  /\ \E p \in DOMAIN bus : bus[p] = s
  /\ \E b \in Builders : pc[b] \in {"waiting", "up"}
  /\ inOp' = inOp \cup {s}
  /\ UNCHANGED <<bus, reserved, catalog, pc, holds, cycleNs, walk, result>>

(* What a call in progress goes on to do. *)
Proceed(b) ==
  \/ ScanNothing(b) \/ ScanBegin(b) \/ WalkSlave(b) \/ ScanEnd(b)
  \/ WalkBegin(b) \/ Register(b) \/ Activate(b) \/ BuildFails(b) \/ BuildEntries(b)
  \/ WaitCycle(b) \/ WaitOver(b) \/ WaitSkipped(b) \/ WaitTraps(b)

Next ==
  \/ \E b \in Builders :
       \/ \E ns \in CycleTimes : ScanRefused(b, ns) \/ ScanAcquire(b, ns)
       \/ BuildRefused(b) \/ BuildAcquire(b)
       \/ Proceed(b) \/ Cycle(b) \/ Destroy(b)
  \/ BusChange
  \/ \E s \in Slaves : SlaveUp(s)

Spec == Init /\ [][Next]_vars

(* A call that has begun runs on; the bus owes nothing. *)
FairSpec == Spec /\ \A b \in Builders : WF_vars(Proceed(b))

-------------------------------------------------------------------------------
Scanning == {"opened", "scanning"}
Connecting == {"acquired", "walking", "registered", "activated"}
Places == {"new", "pending", "failed", "waiting", "up"} \cup Scanning \cup Connecting

TypeOK ==
  /\ bus \in Buses
  /\ inOp \subseteq Slaves
  /\ reserved \in Builders \cup {Free}
  /\ catalog \subseteq Keys
  /\ pc \in [Builders -> Places]
  /\ holds \in [Builders -> {"nobody", "scanner", "adapter"}]
  /\ cycleNs \in [Builders -> Nat]
  /\ pos \in [Builders -> Nat]
  /\ total \in [Builders -> Nat]
  /\ read \in [Builders -> SUBSET Keys]
  /\ filter \in [Builders -> SUBSET Keys]
  /\ DOMAIN entries = Builders
  /\ \A b \in Builders :
       /\ DOMAIN entries[b] \subseteq Keys
       /\ entries[b] \in [DOMAIN entries[b] -> Keys \cup {BlankUuid}]
  /\ complete \in [Builders -> BOOLEAN]
  /\ waited \in [Builders -> Nat]

(* The object that holds the master, by where its builder is. *)
Holder(b) ==
  IF pc[b] \in Scanning THEN "scanner"
  ELSE IF pc[b] \in Connecting \cup {"waiting", "up"} THEN "adapter"
  ELSE "nobody"

(* The master is reserved exactly as long as a scan is in progress or an     *)
(* adapter is coming up or in use: a scan, a build() that fails wherever it  *)
(* may, and a destructor leave it to the next who asks.                      *)
MasterAccounted ==
  \A b \in Builders :
    /\ holds[b] = Holder(b)
    /\ holds[b] # "nobody" <=> reserved = b

(* Before the filter the adapter has an entry for each registered PDO entry  *)
(* that has a type, under its uuid.                                          *)
EntriesWhileWaiting ==
  \A b \in Builders : pc[b] = "waiting" =>
    entries[b] = [k \in {r \in read[b] : Wrapped(r.pdo)} |-> k]

(* What build() has read again and the catalog lists with a type of its own, *)
(* and what is left of it when something was mapped.                         *)
Typed(b) == {k \in read[b] : InferChannelType(k.pdo) # "Raw"}
Wanted(b) == IF filter[b] = {} THEN Typed(b) ELSE Typed(b) \cap filter[b]

(* A channel that was mapped has an entry when its position still answers    *)
(* with its product, whatever the bus has become since; a channel that was   *)
(* not mapped has none; and every entry has its own uuid unless a filter was *)
(* given and dropped nothing, in which case none of them has one.            *)
ChannelsBuilt ==
  \A b \in Builders : pc[b] = "up" =>
    /\ DOMAIN entries[b] = Wanted(b)
    /\ \A k \in Wanted(b) :
         entries[b][k] = IF filter[b] # {} /\ Wanted(b) = Typed(b) THEN BlankUuid ELSE k

(* The inductive invariant behind MasterAccounted and ChannelsBuilt.         *)
BusInv == TypeOK /\ MasterAccounted /\ EntriesWhileWaiting /\ ChannelsBuilt

(* Every scan() and every build() ends, whatever happens on the bus.         *)
CallsEnd ==
  \A b \in Builders :
    pc[b] \in Scanning \cup Connecting \cup {"waiting"} ~>
      pc[b] \in {"new", "pending", "failed", "up"}
===============================================================================
