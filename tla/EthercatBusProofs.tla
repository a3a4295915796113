--------------------------- MODULE EthercatBusProofs ---------------------------
(***************************************************************************)
(* Proofs about EthercatBus: BusInv is inductive, and with it the master   *)
(* is accounted for and what build() returns with has the channels it      *)
(* should have, for any builders, slaves, buses and cycle times.           *)
(***************************************************************************)
EXTENDS EthercatBus, TLAPS

(* The catalog's channel types and the entry types of buildEntries() are two *)
(* ladders over width and direction, and they agree.                         *)
LEMMA LaddersAgree ==
  \A p : (InferChannelType(p) # "Raw") <=> Wrapped(p)
  BY DEF InferChannelType, Wrapped

(* What a walk reads at a position are keys.                                 *)
LEMMA ReadableKeys ==
  ASSUME bus \in Buses, NEW p \in Nat \ {0}
  PROVE  Readable(p) \subseteq Keys
<1>1. CASE p \in DOMAIN bus
  <2>1. bus[p] \in Slaves
    BY <1>1, SlavesAssumption
  <2>2. ProductOf[bus[p]] \in Products /\ Pdos[ProductOf[bus[p]]] \subseteq AllPdos
    BY <2>1 DEF Products, AllPdos
  <2>. QED BY <1>1, <2>2 DEF Readable, Keys
<1>2. CASE p \notin DOMAIN bus
  BY <1>2 DEF Readable
<1>. QED BY <1>1, <1>2

(* The walks begin at the first position, and no other is negative.          *)
PosFromOne ==
  \A b \in Builders : pc[b] \in {"scanning", "walking"} => pos[b] # 0

(* What an entry is called once the filter has run.                          *)
NameOf(b, k) == IF filter[b] # {} /\ Wanted(b) = Typed(b) THEN BlankUuid ELSE k

(* The filter, applied to what EntriesWhileWaiting says there is.            *)
LEMMA FilterKeeps ==
  ASSUME TypeOK, EntriesWhileWaiting, NEW b \in Builders, pc[b] = "waiting"
  PROVE  /\ DOMAIN Filtered(b) = Wanted(b)
         /\ \A k \in Wanted(b) : Filtered(b)[k] = NameOf(b, k)
         /\ Filtered(b) \in [Wanted(b) -> Keys \cup {BlankUuid}]
         /\ Wanted(b) \subseteq Keys
<1>1. Typed(b) = {k \in read[b] : Wrapped(k.pdo)} /\ Typed(b) \subseteq Keys
  BY LaddersAgree DEF TypeOK, Typed
<1>2. entries[b] = [k \in Typed(b) |-> k]
  BY <1>1 DEF EntriesWhileWaiting
<1>3. {k \in DOMAIN entries[b] : entries[b][k] \in filter[b]} = Typed(b) \cap filter[b]
  BY <1>2
<1>4. CASE filter[b] = {}
  <2>1. Filtered(b) = [k \in Typed(b) |-> k] /\ Wanted(b) = Typed(b)
    BY <1>2, <1>4 DEF Filtered, Wanted
  <2>2. \A k \in Typed(b) : Filtered(b)[k] = k
    BY <2>1
  <2>. QED BY <1>1, <1>4, <2>1, <2>2 DEF NameOf
<1>5. CASE filter[b] # {} /\ Wanted(b) = Typed(b)
  <2>1. Filtered(b) = [k \in Wanted(b) |-> BlankUuid]
    BY <1>2, <1>3, <1>5 DEF Filtered, Wanted
  <2>2. \A k \in Wanted(b) : Filtered(b)[k] = BlankUuid
    BY <2>1
  <2>. QED BY <1>1, <1>5, <2>1, <2>2 DEF NameOf
<1>6. CASE filter[b] # {} /\ Wanted(b) # Typed(b)
  <2>1. Filtered(b) = [k \in Wanted(b) |-> k]
    BY <1>2, <1>3, <1>6 DEF Filtered, Wanted
  <2>2. Wanted(b) \subseteq Keys
    BY <1>1 DEF Wanted
  <2>3. \A k \in Wanted(b) : Filtered(b)[k] = k
    BY <2>1
  <2>. QED BY <1>6, <2>1, <2>2, <2>3 DEF NameOf
<1>. QED BY <1>4, <1>5, <1>6

-------------------------------------------------------------------------------
(* What another step leaves of a context that is up.                         *)
LEMMA BuiltStays ==
  ASSUME ChannelsBuilt,
         \A c \in Builders : pc'[c] = "up" =>
           /\ pc[c] = "up" /\ entries'[c] = entries[c]
           /\ read'[c] = read[c] /\ filter'[c] = filter[c]
  PROVE  ChannelsBuilt'
<1>. SUFFICES ASSUME NEW c \in Builders, pc'[c] = "up"
              PROVE  (/\ DOMAIN entries[c] = Wanted(c)
                      /\ \A k \in Wanted(c) : entries[c][k] =
                           IF filter[c] # {} /\ Wanted(c) = Typed(c) THEN BlankUuid ELSE k)'
  BY DEF ChannelsBuilt
<1>1. Typed(c)' = Typed(c)
  BY DEF Typed, InferChannelType
<1>2. Wanted(c)' = Wanted(c)
  BY <1>1 DEF Wanted
<1>. QED BY <1>1, <1>2 DEF ChannelsBuilt

(* What the walks need of their positions.                                   *)
WalkInv == BusInv /\ PosFromOne

LEMMA InitInv == Init => WalkInv
<1>. SUFFICES ASSUME Init PROVE WalkInv
  OBVIOUS
<1>1. TypeOK
  BY DEF Init, TypeOK, NoEntries, Places
<1>2. MasterAccounted
  BY BuildersAssumption DEF Init, MasterAccounted, Holder, Scanning, Connecting
<1>. QED BY <1>1, <1>2 DEF Init, WalkInv, BusInv, EntriesWhileWaiting, ChannelsBuilt, Wanted, Typed, PosFromOne
LEMMA ScanRefusedStep ==
  ASSUME WalkInv, NEW b \in Builders, NEW ns \in CycleTimes, ScanRefused(b, ns)
  PROVE  WalkInv'
<1>. USE DEF ScanRefused, Go, hardware, walk, result
<1>1. TypeOK'
  BY CycleTimesAssumption DEF WalkInv, BusInv, TypeOK, Places, Scanning, Connecting
<1>2. MasterAccounted'
  <2>1. \A c \in Builders : Holder(c)' = Holder(c)
    BY DEF WalkInv, BusInv, TypeOK, Holder, Scanning, Connecting, Scannable
  <2>. QED BY <2>1 DEF WalkInv, BusInv, MasterAccounted
<1>3. EntriesWhileWaiting' /\ PosFromOne'
  BY DEF WalkInv, BusInv, TypeOK, EntriesWhileWaiting, PosFromOne
<1>4. ChannelsBuilt'
  BY BuiltStays DEF WalkInv, BusInv, TypeOK
<1>. QED BY <1>1, <1>2, <1>3, <1>4 DEF WalkInv, BusInv

LEMMA ScanAcquireStep ==
  ASSUME WalkInv, NEW b \in Builders, NEW ns \in CycleTimes, ScanAcquire(b, ns)
  PROVE  WalkInv'
<1>. USE DEF ScanAcquire, Go, Request, hardware, walk, result
<1>1. TypeOK'
  BY CycleTimesAssumption DEF WalkInv, BusInv, TypeOK, Places, Scanning, Connecting
<1>2. MasterAccounted'
  BY BuildersAssumption DEF WalkInv, BusInv, TypeOK, MasterAccounted, Holder, Scanning, Connecting
<1>3. EntriesWhileWaiting' /\ PosFromOne'
  BY DEF WalkInv, BusInv, TypeOK, EntriesWhileWaiting, PosFromOne
<1>4. ChannelsBuilt'
  BY BuiltStays DEF WalkInv, BusInv, TypeOK
<1>. QED BY <1>1, <1>2, <1>3, <1>4 DEF WalkInv, BusInv

LEMMA ScanNothingStep ==
  ASSUME WalkInv, NEW b \in Builders, ScanNothing(b)
  PROVE  WalkInv'
<1>. USE DEF ScanNothing, Go, Release, hardware, walk, result
<1>1. TypeOK'
  BY CycleTimesAssumption DEF WalkInv, BusInv, TypeOK, Places, Scanning, Connecting
<1>2. MasterAccounted'
  BY BuildersAssumption DEF WalkInv, BusInv, TypeOK, MasterAccounted, Holder, Scanning, Connecting
<1>3. EntriesWhileWaiting' /\ PosFromOne'
  BY DEF WalkInv, BusInv, TypeOK, EntriesWhileWaiting, PosFromOne
<1>4. ChannelsBuilt'
  BY BuiltStays DEF WalkInv, BusInv, TypeOK
<1>. QED BY <1>1, <1>2, <1>3, <1>4 DEF WalkInv, BusInv

LEMMA ScanBeginStep ==
  ASSUME WalkInv, NEW b \in Builders, ScanBegin(b)
  PROVE  WalkInv'
<1>. USE DEF ScanBegin, Go, WalkFrom, hardware, walk, result
<1>1. TypeOK'
  BY CycleTimesAssumption DEF WalkInv, BusInv, TypeOK, Places, Scanning, Connecting
<1>2. MasterAccounted'
  BY BuildersAssumption DEF WalkInv, BusInv, TypeOK, MasterAccounted, Holder, Scanning, Connecting
<1>3. EntriesWhileWaiting' /\ PosFromOne'
  <2>1. PosFromOne'
    <3>. SUFFICES ASSUME NEW c \in Builders, pc'[c] \in {"scanning", "walking"}
                  PROVE  pos'[c] # 0
      BY DEF PosFromOne
    <3>1. CASE c = b
      BY <3>1 DEF WalkInv, BusInv, TypeOK
    <3>2. CASE c # b
      BY <3>2 DEF WalkInv, BusInv, TypeOK, PosFromOne
    <3>. QED BY <3>1, <3>2
  <2>2. \A c \in Builders : pc'[c] = "waiting" => c # b /\ pc[c] = "waiting"
    BY DEF WalkInv, BusInv, TypeOK
  <2>. QED BY <2>1, <2>2 DEF WalkInv, BusInv, TypeOK, EntriesWhileWaiting
<1>4. ChannelsBuilt'
  BY BuiltStays DEF WalkInv, BusInv, TypeOK
<1>. QED BY <1>1, <1>2, <1>3, <1>4 DEF WalkInv, BusInv

LEMMA WalkSlaveStep ==
  ASSUME WalkInv, NEW b \in Builders, WalkSlave(b)
  PROVE  WalkInv'
<1>. USE DEF WalkSlave, hardware, walk, result
<1>1. TypeOK'
  <2>1. Readable(pos[b]) \subseteq Keys
    <3>1. pos[b] \in Nat \ {0}
      BY DEF WalkInv, BusInv, TypeOK, PosFromOne
    <3>. QED BY <3>1, ReadableKeys DEF WalkInv, BusInv, TypeOK
  <2>2. read' \in [Builders -> SUBSET Keys] /\ pos' \in [Builders -> Nat]
    BY <2>1 DEF WalkInv, BusInv, TypeOK
  <2>. QED BY <2>2 DEF WalkInv, BusInv, TypeOK
<1>2. MasterAccounted'
  BY BuildersAssumption DEF WalkInv, BusInv, TypeOK, MasterAccounted, Holder, Scanning, Connecting
<1>3. EntriesWhileWaiting' /\ PosFromOne'
  <2>1. pos[b] \in Nat /\ pos' = [pos EXCEPT ![b] = @ + 1]
    BY DEF WalkInv, BusInv, TypeOK
  <2>2. PosFromOne'
    BY <2>1 DEF WalkInv, BusInv, TypeOK, PosFromOne
  <2>3. \A c \in Builders : pc[c] = "waiting" => read'[c] = read[c]
    BY DEF WalkInv, BusInv, TypeOK
  <2>. QED BY <2>2, <2>3 DEF WalkInv, BusInv, TypeOK, EntriesWhileWaiting
<1>4. ChannelsBuilt'
  BY BuiltStays DEF WalkInv, BusInv, TypeOK
<1>. QED BY <1>1, <1>2, <1>3, <1>4 DEF WalkInv, BusInv

LEMMA ScanEndStep ==
  ASSUME WalkInv, NEW b \in Builders, ScanEnd(b)
  PROVE  WalkInv'
<1>. USE DEF ScanEnd, Go, Release, WalkDone, hardware, walk, result
<1>1. TypeOK'
  BY CycleTimesAssumption DEF WalkInv, BusInv, TypeOK, Places, Scanning, Connecting
<1>2. MasterAccounted'
  BY BuildersAssumption DEF WalkInv, BusInv, TypeOK, MasterAccounted, Holder, Scanning, Connecting
<1>3. EntriesWhileWaiting' /\ PosFromOne'
  BY DEF WalkInv, BusInv, TypeOK, EntriesWhileWaiting, PosFromOne
<1>4. ChannelsBuilt'
  BY BuiltStays DEF WalkInv, BusInv, TypeOK
<1>. QED BY <1>1, <1>2, <1>3, <1>4 DEF WalkInv, BusInv

LEMMA BuildRefusedStep ==
  ASSUME WalkInv, NEW b \in Builders, BuildRefused(b)
  PROVE  WalkInv'
<1>. USE DEF BuildRefused, Go, hardware, walk, result
<1>1. TypeOK'
  BY CycleTimesAssumption DEF WalkInv, BusInv, TypeOK, Places, Scanning, Connecting
<1>2. MasterAccounted'
  BY BuildersAssumption DEF WalkInv, BusInv, TypeOK, MasterAccounted, Holder, Scanning, Connecting
<1>3. EntriesWhileWaiting' /\ PosFromOne'
  BY DEF WalkInv, BusInv, TypeOK, EntriesWhileWaiting, PosFromOne
<1>4. ChannelsBuilt'
  BY BuiltStays DEF WalkInv, BusInv, TypeOK
<1>. QED BY <1>1, <1>2, <1>3, <1>4 DEF WalkInv, BusInv

LEMMA BuildAcquireStep ==
  ASSUME WalkInv, NEW b \in Builders, BuildAcquire(b)
  PROVE  WalkInv'
<1>. USE DEF BuildAcquire, Go, Request, hardware, walk, result
<1>1. TypeOK'
  BY CycleTimesAssumption DEF WalkInv, BusInv, TypeOK, Places, Scanning, Connecting
<1>2. MasterAccounted'
  BY BuildersAssumption DEF WalkInv, BusInv, TypeOK, MasterAccounted, Holder, Scanning, Connecting
<1>3. EntriesWhileWaiting' /\ PosFromOne'
  BY DEF WalkInv, BusInv, TypeOK, EntriesWhileWaiting, PosFromOne
<1>4. ChannelsBuilt'
  BY BuiltStays DEF WalkInv, BusInv, TypeOK
<1>. QED BY <1>1, <1>2, <1>3, <1>4 DEF WalkInv, BusInv

LEMMA WalkBeginStep ==
  ASSUME WalkInv, NEW b \in Builders, WalkBegin(b)
  PROVE  WalkInv'
<1>. USE DEF WalkBegin, Go, WalkFrom, hardware, walk, result
<1>1. TypeOK'
  BY CycleTimesAssumption DEF WalkInv, BusInv, TypeOK, Places, Scanning, Connecting
<1>2. MasterAccounted'
  BY BuildersAssumption DEF WalkInv, BusInv, TypeOK, MasterAccounted, Holder, Scanning, Connecting
<1>3. EntriesWhileWaiting' /\ PosFromOne'
  <2>1. PosFromOne'
    <3>. SUFFICES ASSUME NEW c \in Builders, pc'[c] \in {"scanning", "walking"}
                  PROVE  pos'[c] # 0
      BY DEF PosFromOne
    <3>1. CASE c = b
      BY <3>1 DEF WalkInv, BusInv, TypeOK
    <3>2. CASE c # b
      BY <3>2 DEF WalkInv, BusInv, TypeOK, PosFromOne
    <3>. QED BY <3>1, <3>2
  <2>2. \A c \in Builders : pc'[c] = "waiting" => c # b /\ pc[c] = "waiting"
    BY DEF WalkInv, BusInv, TypeOK
  <2>. QED BY <2>1, <2>2 DEF WalkInv, BusInv, TypeOK, EntriesWhileWaiting
<1>4. ChannelsBuilt'
  BY BuiltStays DEF WalkInv, BusInv, TypeOK
<1>. QED BY <1>1, <1>2, <1>3, <1>4 DEF WalkInv, BusInv

LEMMA RegisterStep ==
  ASSUME WalkInv, NEW b \in Builders, Register(b)
  PROVE  WalkInv'
<1>. USE DEF Register, Go, WalkDone, hardware, walk, result
<1>1. TypeOK'
  BY CycleTimesAssumption DEF WalkInv, BusInv, TypeOK, Places, Scanning, Connecting
<1>2. MasterAccounted'
  BY BuildersAssumption DEF WalkInv, BusInv, TypeOK, MasterAccounted, Holder, Scanning, Connecting
<1>3. EntriesWhileWaiting' /\ PosFromOne'
  BY DEF WalkInv, BusInv, TypeOK, EntriesWhileWaiting, PosFromOne
<1>4. ChannelsBuilt'
  BY BuiltStays DEF WalkInv, BusInv, TypeOK
<1>. QED BY <1>1, <1>2, <1>3, <1>4 DEF WalkInv, BusInv

LEMMA ActivateStep ==
  ASSUME WalkInv, NEW b \in Builders, Activate(b)
  PROVE  WalkInv'
<1>. USE DEF Activate, Go, hardware, walk, result
<1>1. TypeOK'
  BY CycleTimesAssumption DEF WalkInv, BusInv, TypeOK, Places, Scanning, Connecting
<1>2. MasterAccounted'
  BY BuildersAssumption DEF WalkInv, BusInv, TypeOK, MasterAccounted, Holder, Scanning, Connecting
<1>3. EntriesWhileWaiting' /\ PosFromOne'
  BY DEF WalkInv, BusInv, TypeOK, EntriesWhileWaiting, PosFromOne
<1>4. ChannelsBuilt'
  BY BuiltStays DEF WalkInv, BusInv, TypeOK
<1>. QED BY <1>1, <1>2, <1>3, <1>4 DEF WalkInv, BusInv

LEMMA BuildFailsStep ==
  ASSUME WalkInv, NEW b \in Builders, BuildFails(b)
  PROVE  WalkInv'
<1>. USE DEF BuildFails, Go, Release, WalkDone, hardware, walk, result
<1>1. TypeOK'
  BY CycleTimesAssumption DEF WalkInv, BusInv, TypeOK, Places, Scanning, Connecting
<1>2. MasterAccounted'
  BY BuildersAssumption DEF WalkInv, BusInv, TypeOK, MasterAccounted, Holder, Scanning, Connecting
<1>3. EntriesWhileWaiting' /\ PosFromOne'
  BY DEF WalkInv, BusInv, TypeOK, EntriesWhileWaiting, PosFromOne
<1>4. ChannelsBuilt'
  BY BuiltStays DEF WalkInv, BusInv, TypeOK
<1>. QED BY <1>1, <1>2, <1>3, <1>4 DEF WalkInv, BusInv

LEMMA BuildEntriesStep ==
  ASSUME WalkInv, NEW b \in Builders, BuildEntries(b)
  PROVE  WalkInv'
<1>. USE DEF BuildEntries, Go, hardware, walk, result
<1>1. TypeOK'
  BY CycleTimesAssumption DEF WalkInv, BusInv, TypeOK, Places, Scanning, Connecting
<1>2. MasterAccounted'
  BY BuildersAssumption DEF WalkInv, BusInv, TypeOK, MasterAccounted, Holder, Scanning, Connecting
<1>3. EntriesWhileWaiting' /\ PosFromOne'
  BY DEF WalkInv, BusInv, TypeOK, EntriesWhileWaiting, PosFromOne
<1>4. ChannelsBuilt'
  BY BuiltStays DEF WalkInv, BusInv, TypeOK
<1>. QED BY <1>1, <1>2, <1>3, <1>4 DEF WalkInv, BusInv

(* build() returns: to a context that is up, with the filtered entries.      *)
LEMMA ReturnStep ==
  ASSUME WalkInv, NEW b \in Builders, pc[b] = "waiting", BuildReturns(b),
         complete' \in [Builders -> BOOLEAN],
         UNCHANGED <<hardware, reserved, catalog, holds, cycleNs, walk, filter>>
  PROVE  WalkInv'
<1>. USE DEF BuildReturns, Go, hardware, walk
<1>1. /\ DOMAIN Filtered(b) = Wanted(b)
      /\ \A k \in Wanted(b) : Filtered(b)[k] = NameOf(b, k)
      /\ Filtered(b) \in [Wanted(b) -> Keys \cup {BlankUuid}]
      /\ Wanted(b) \subseteq Keys
  BY FilterKeeps DEF WalkInv, BusInv
<1>2. \A c \in Builders : entries'[c] = IF c = b THEN Filtered(b) ELSE entries[c]
  BY DEF WalkInv, BusInv, TypeOK
<1>3. \A c \in Builders : pc'[c] = IF c = b THEN "up" ELSE pc[c]
  BY DEF WalkInv, BusInv, TypeOK
<1>4. TypeOK'
  <2>1. pc' \in [Builders -> Places] /\ waited' \in [Builders -> Nat] /\ DOMAIN entries' = Builders
    BY DEF WalkInv, BusInv, TypeOK, Places
  <2>2. \A c \in Builders :
          /\ DOMAIN entries'[c] \subseteq Keys
          /\ entries'[c] \in [DOMAIN entries'[c] -> Keys \cup {BlankUuid}]
    BY <1>1, <1>2 DEF WalkInv, BusInv, TypeOK
  <2>. QED BY <2>1, <2>2 DEF WalkInv, BusInv, TypeOK
<1>5. MasterAccounted'
  <2>1. \A c \in Builders : Holder(c)' = Holder(c)
    BY <1>3 DEF Holder, Scanning, Connecting
  <2>. QED BY <2>1 DEF WalkInv, BusInv, MasterAccounted
<1>6. EntriesWhileWaiting' /\ PosFromOne'
  BY <1>2, <1>3 DEF WalkInv, BusInv, EntriesWhileWaiting, PosFromOne
<1>7. ChannelsBuilt'
  <2>1. \A c \in Builders : Wanted(c)' = Wanted(c) /\ Typed(c)' = Typed(c)
    BY DEF Wanted, Typed, InferChannelType
  <2>. SUFFICES ASSUME NEW c \in Builders, pc'[c] = "up"
                PROVE  /\ DOMAIN entries'[c] = Wanted(c)
                       /\ \A k \in Wanted(c) : entries'[c][k] = NameOf(c, k)
    BY <2>1 DEF ChannelsBuilt, NameOf
  <2>2. CASE c = b
    BY <1>1, <1>2, <2>2
  <2>3. CASE c # b
    BY <1>2, <1>3, <2>3 DEF WalkInv, BusInv, ChannelsBuilt, NameOf
  <2>. QED BY <2>2, <2>3
<1>. QED BY <1>4, <1>5, <1>6, <1>7 DEF WalkInv, BusInv

LEMMA WaitCycleStep ==
  ASSUME WalkInv, NEW b \in Builders, WaitCycle(b)
  PROVE  WalkInv'
<1>. USE DEF WaitCycle, hardware, walk
<1>1. complete' \in [Builders -> BOOLEAN]
  BY DEF WalkInv, BusInv, TypeOK, Communicating
<1>2. CASE complete'[b]
  BY <1>1, <1>2, ReturnStep
<1>3. CASE ~complete'[b]
  <2>1. waited' \in [Builders -> Nat] /\ UNCHANGED <<pc, entries>>
    BY <1>3 DEF WalkInv, BusInv, TypeOK
  <2>2. TypeOK'
    BY <1>1, <2>1 DEF WalkInv, BusInv, TypeOK
  <2>. QED BY <2>1, <2>2 DEF WalkInv, BusInv, MasterAccounted, Holder, EntriesWhileWaiting,
         PosFromOne, ChannelsBuilt, Wanted, Typed
<1>. QED BY <1>2, <1>3

LEMMA WaitOverStep ==
  ASSUME WalkInv, NEW b \in Builders, WaitOver(b)
  PROVE  WalkInv'
<1>1. complete' \in [Builders -> BOOLEAN]
  BY DEF WaitOver, WalkInv, BusInv, TypeOK
<1>. QED BY <1>1, ReturnStep DEF WaitOver

LEMMA WaitSkippedStep ==
  ASSUME WalkInv, NEW b \in Builders, WaitSkipped(b)
  PROVE  WalkInv'
<1>1. complete' \in [Builders -> BOOLEAN]
  BY DEF WaitSkipped, WalkInv, BusInv, TypeOK
<1>. QED BY <1>1, ReturnStep DEF WaitSkipped

LEMMA WaitTrapsStep ==
  ASSUME WalkInv, NEW b \in Builders, WaitTraps(b)
  PROVE  WalkInv'
<1>. USE DEF WaitTraps, hardware, walk, result
<1>1. TypeOK'
  <2>1. \A c \in Builders : entries'[c] = NoEntries
    OBVIOUS
  <2>2. DOMAIN NoEntries = {} /\ NoEntries \in [{} -> Keys \cup {BlankUuid}]
    BY DEF NoEntries
  <2>. QED BY <2>1, <2>2 DEF WalkInv, BusInv, TypeOK, Places
<1>2. MasterAccounted'
  BY BuildersAssumption DEF WalkInv, BusInv, TypeOK, MasterAccounted, Holder, Scanning, Connecting
<1>3. EntriesWhileWaiting' /\ PosFromOne'
  BY DEF WalkInv, BusInv, TypeOK, EntriesWhileWaiting, PosFromOne
<1>4. ChannelsBuilt'
  BY BuiltStays DEF WalkInv, BusInv, TypeOK
<1>. QED BY <1>1, <1>2, <1>3, <1>4 DEF WalkInv, BusInv

LEMMA CycleStep ==
  ASSUME WalkInv, NEW b \in Builders, Cycle(b)
  PROVE  WalkInv'
<1>. USE DEF Cycle, hardware, walk, result
<1>1. TypeOK'
  <2>1. complete' \in [Builders -> BOOLEAN]
    BY DEF WalkInv, BusInv, TypeOK, Communicating
  <2>. QED BY <2>1 DEF WalkInv, BusInv, TypeOK
<1>2. MasterAccounted'
  BY BuildersAssumption DEF WalkInv, BusInv, TypeOK, MasterAccounted, Holder, Scanning, Connecting
<1>3. EntriesWhileWaiting' /\ PosFromOne'
  BY DEF WalkInv, BusInv, TypeOK, EntriesWhileWaiting, PosFromOne
<1>4. ChannelsBuilt'
  BY BuiltStays DEF WalkInv, BusInv, TypeOK
<1>. QED BY <1>1, <1>2, <1>3, <1>4 DEF WalkInv, BusInv

LEMMA DestroyStep ==
  ASSUME WalkInv, NEW b \in Builders, Destroy(b)
  PROVE  WalkInv'
<1>. USE DEF Destroy, Go, Release, hardware, walk, result
<1>1. TypeOK'
  <2>1. \A c \in Builders : entries'[c] = IF c = b THEN NoEntries ELSE entries[c]
    BY DEF WalkInv, BusInv, TypeOK
  <2>2. DOMAIN NoEntries = {} /\ NoEntries \in [{} -> Keys \cup {BlankUuid}]
    BY DEF NoEntries
  <2>3. \A c \in Builders :
          /\ DOMAIN entries'[c] \subseteq Keys
          /\ entries'[c] \in [DOMAIN entries'[c] -> Keys \cup {BlankUuid}]
    BY <2>1, <2>2 DEF WalkInv, BusInv, TypeOK
  <2>4. holds' \in [Builders -> {"nobody", "scanner", "adapter"}] /\ inOp' \subseteq Slaves
        /\ reserved' \in Builders \cup {Free}
    BY DEF WalkInv, BusInv, TypeOK
  <2>. QED BY <2>3, <2>4 DEF WalkInv, BusInv, TypeOK, Places
<1>2. MasterAccounted'
  BY BuildersAssumption DEF WalkInv, BusInv, TypeOK, MasterAccounted, Holder, Scanning, Connecting
<1>3. EntriesWhileWaiting' /\ PosFromOne'
  BY DEF WalkInv, BusInv, TypeOK, EntriesWhileWaiting, PosFromOne
<1>4. ChannelsBuilt'
  BY BuiltStays DEF WalkInv, BusInv, TypeOK
<1>. QED BY <1>1, <1>2, <1>3, <1>4 DEF WalkInv, BusInv

LEMMA BusChangeStep ==
  ASSUME WalkInv, BusChange
  PROVE  WalkInv'
<1>. USE DEF BusChange, hardware, walk, result
<1>1. TypeOK'
  BY CycleTimesAssumption DEF WalkInv, BusInv, TypeOK, Places, Scanning, Connecting
<1>2. MasterAccounted'
  BY BuildersAssumption DEF WalkInv, BusInv, TypeOK, MasterAccounted, Holder, Scanning, Connecting
<1>3. EntriesWhileWaiting' /\ PosFromOne'
  BY DEF WalkInv, BusInv, TypeOK, EntriesWhileWaiting, PosFromOne
<1>4. ChannelsBuilt'
  BY BuiltStays DEF WalkInv, BusInv, TypeOK
<1>. QED BY <1>1, <1>2, <1>3, <1>4 DEF WalkInv, BusInv

LEMMA SlaveUpStep ==
  ASSUME WalkInv, NEW s \in Slaves, SlaveUp(s)
  PROVE  WalkInv'
<1>. USE DEF SlaveUp, hardware, walk, result
<1>1. TypeOK'
  BY CycleTimesAssumption DEF WalkInv, BusInv, TypeOK, Places, Scanning, Connecting
<1>2. MasterAccounted'
  BY BuildersAssumption DEF WalkInv, BusInv, TypeOK, MasterAccounted, Holder, Scanning, Connecting
<1>3. EntriesWhileWaiting' /\ PosFromOne'
  BY DEF WalkInv, BusInv, TypeOK, EntriesWhileWaiting, PosFromOne
<1>4. ChannelsBuilt'
  BY BuiltStays DEF WalkInv, BusInv, TypeOK
<1>. QED BY <1>1, <1>2, <1>3, <1>4 DEF WalkInv, BusInv

-------------------------------------------------------------------------------
LEMMA NextStep == WalkInv /\ [Next]_vars => WalkInv'
<1>. SUFFICES ASSUME WalkInv, [Next]_vars PROVE WalkInv'
  OBVIOUS
<1>1. CASE UNCHANGED vars
  <2>1. ChannelsBuilt'
    BY <1>1, BuiltStays DEF vars, result, walk, WalkInv, BusInv
  <2>. QED BY <1>1, <2>1 DEF vars, hardware, walk, result, WalkInv, BusInv, TypeOK,
         MasterAccounted, Holder, EntriesWhileWaiting, PosFromOne
<1>2. CASE Next
  <2>1. ASSUME NEW b \in Builders, NEW ns \in CycleTimes, ScanRefused(b, ns) \/ ScanAcquire(b, ns)
        PROVE  WalkInv'
    BY <2>1, ScanRefusedStep, ScanAcquireStep
  <2>2. ASSUME NEW b \in Builders,
               BuildRefused(b) \/ BuildAcquire(b) \/ Cycle(b) \/ Destroy(b)
        PROVE  WalkInv'
    BY <2>2, BuildRefusedStep, BuildAcquireStep, CycleStep, DestroyStep
  <2>3. ASSUME NEW b \in Builders, Proceed(b)
        PROVE  WalkInv'
    BY <2>3, ScanNothingStep, ScanBeginStep, WalkSlaveStep, ScanEndStep, WalkBeginStep,
      RegisterStep, ActivateStep, BuildFailsStep, BuildEntriesStep, WaitCycleStep, WaitOverStep,
      WaitSkippedStep, WaitTrapsStep DEF Proceed
  <2>4. ASSUME NEW s \in Slaves, SlaveUp(s)
        PROVE  WalkInv'
    BY <2>4, SlaveUpStep
  <2>. QED BY <1>2, <2>1, <2>2, <2>3, <2>4, BusChangeStep DEF Next
<1>. QED BY <1>1, <1>2

LEMMA WalkInvariant == Spec => []WalkInv
  BY InitInv, NextStep, PTL DEF Spec

(* The inductive invariant of the runs holds for every bus and every set of  *)
(* builders.                                                                 *)
THEOREM BusInvariant == Spec => []BusInv
<1>1. WalkInv => BusInv
  BY DEF WalkInv
<1>. QED BY <1>1, WalkInvariant, PTL

(* No scan, no failing build() and no destructor leaves the master reserved, *)
(* and none releases it under another.                                       *)
THEOREM MasterIsAccounted == Spec => []MasterAccounted
<1>1. WalkInv => MasterAccounted
  BY DEF WalkInv, BusInv
<1>. QED BY <1>1, WalkInvariant, PTL

(* What build() returns with has the channels it should have.                *)
THEOREM ChannelsAreBuilt == Spec => []ChannelsBuilt
<1>1. WalkInv => ChannelsBuilt
  BY DEF WalkInv, BusInv
<1>. QED BY <1>1, WalkInvariant, PTL

-------------------------------------------------------------------------------
(* Why a scan() and a build() end, which TLC checks under fairness: what is  *)
(* ahead of a call, and within one of its loops the rounds that are left.    *)
Ahead(place) ==
  CASE place = "acquired" -> 5
    [] place = "walking" -> 4
    [] place = "registered" -> 3
    [] place \in {"activated", "opened"} -> 2
    [] place \in {"waiting", "scanning"} -> 1
    [] OTHER -> 0

Rounds(b) ==
  IF pc[b] \in {"scanning", "walking"} THEN total[b] + 1 - pos[b]
  ELSE IF pc[b] = "waiting" THEN MaxCycles(b) - waited[b]
  ELSE 0

Nearer(b) ==
  \/ Ahead(pc'[b]) < Ahead(pc[b])
  \/ /\ pc'[b] = pc[b]
     /\ Rounds(b)' \in Nat
     /\ Rounds(b)' < Rounds(b)

LEMMA MaxCyclesNatural ==
  ASSUME TypeOK, NEW b \in Builders, IntervalUs(b) > 0
  PROVE  MaxCycles(b) \in Nat
<1>1. IntervalUs(b) \in Nat \ {0}
  BY DEF TypeOK, IntervalUs
<1>. QED BY <1>1 DEF MaxCycles

(* Each step of a call in progress brings it nearer to its end.              *)
LEMMA ProceedNearer ==
  ASSUME TypeOK, NEW b \in Builders, Proceed(b)
  PROVE  Nearer(b)
<1>. USE DEF Go, walk, hardware, result
<1>1. CASE \/ ScanNothing(b) \/ ScanBegin(b) \/ ScanEnd(b) \/ WalkBegin(b) \/ Register(b)
           \/ Activate(b) \/ BuildFails(b) \/ BuildEntries(b) \/ WaitOver(b) \/ WaitSkipped(b)
  <2>1. Ahead(pc'[b]) < Ahead(pc[b])
    BY <1>1 DEF TypeOK, ScanNothing, ScanBegin, ScanEnd, WalkBegin, Register, Activate,
      BuildFails, BuildEntries, WaitOver, WaitSkipped, BuildReturns, Ahead
  <2>. QED BY <2>1 DEF Nearer
<1>2. CASE WalkSlave(b)
  <2>1. pc' = pc /\ total' = total /\ pos'[b] = pos[b] + 1 /\ pos[b] <= total[b]
    BY <1>2 DEF TypeOK, WalkSlave
  <2>2. pos[b] \in Nat /\ total[b] \in Nat /\ pc[b] \in {"scanning", "walking"}
    BY <1>2 DEF TypeOK, WalkSlave
  <2>. QED BY <2>1, <2>2 DEF Nearer, Rounds
<1>3. CASE WaitCycle(b)
  <2>1. CASE complete'[b]
    <3>1. Ahead(pc'[b]) < Ahead(pc[b])
      BY <1>3, <2>1 DEF TypeOK, WaitCycle, BuildReturns, Ahead
    <3>. QED BY <3>1 DEF Nearer
  <2>2. CASE ~complete'[b]
    <3>1. /\ pc' = pc /\ pc[b] = "waiting" /\ waited'[b] = waited[b] + 1
          /\ waited[b] \in Nat /\ waited[b] < MaxCycles(b) /\ MaxCycles(b) \in Nat
      BY <1>3, <2>2, MaxCyclesNatural DEF TypeOK, WaitCycle
    <3>2. MaxCycles(b)' = MaxCycles(b)
      BY <1>3 DEF WaitCycle, MaxCycles, IntervalUs
    <3>3. Rounds(b) = MaxCycles(b) - waited[b] /\ Rounds(b)' = MaxCycles(b) - (waited[b] + 1)
      BY <3>1, <3>2 DEF Rounds
    <3>. QED BY <3>1, <3>3 DEF Nearer
  <2>. QED BY <2>1, <2>2
<1>4. CASE WaitTraps(b)
  <2>1. Ahead(pc'[b]) < Ahead(pc[b])
    BY <1>4 DEF TypeOK, WaitTraps, Ahead
  <2>. QED BY <2>1 DEF Nearer
<1>. QED BY <1>1, <1>2, <1>3, <1>4 DEF Proceed

(* Nothing else sets it back: not the other builders, nor the bus.           *)
LEMMA NeverSetBack ==
  ASSUME TypeOK, [Next]_vars, NEW b \in Builders, Ahead(pc[b]) # 0
  PROVE  Nearer(b) \/ (pc'[b] = pc[b] /\ Rounds(b)' = Rounds(b))
<1>. DEFINE Same == /\ pc'[b] = pc[b] /\ pos'[b] = pos[b] /\ total'[b] = total[b]
                    /\ waited'[b] = waited[b] /\ cycleNs'[b] = cycleNs[b]
<1>1. Same => Rounds(b)' = Rounds(b)
  BY DEF Rounds, MaxCycles, IntervalUs
<1>2. pc[b] \notin {"new", "pending", "failed", "up"}
  BY DEF Ahead
<1>3. CASE UNCHANGED vars \/ BusChange \/ \E s \in Slaves : SlaveUp(s)
  BY <1>1, <1>3 DEF vars, walk, result, BusChange, SlaveUp
<1>4. ASSUME NEW c \in Builders, NEW ns \in CycleTimes, ScanRefused(c, ns) \/ ScanAcquire(c, ns)
      PROVE  Same
  BY <1>2, <1>4 DEF TypeOK, ScanRefused, ScanAcquire, Scannable, Go, walk, result
<1>5. ASSUME NEW c \in Builders, BuildRefused(c) \/ BuildAcquire(c) \/ Cycle(c) \/ Destroy(c)
      PROVE  Same
  BY <1>2, <1>5 DEF TypeOK, BuildRefused, BuildAcquire, Cycle, Destroy, Go, walk, result
<1>6. ASSUME NEW c \in Builders, Proceed(c)
      PROVE  Same \/ Nearer(b)
  <2>1. CASE c = b
    BY <1>6, <2>1, ProceedNearer
  <2>2. CASE c # b /\ WaitTraps(c)
    <3>1. Ahead(pc'[b]) = 0 /\ Ahead(pc[b]) \in Nat
      BY <2>2 DEF WaitTraps, Ahead
    <3>. QED BY <3>1 DEF Nearer
  <2>3. CASE c # b /\ ~WaitTraps(c)
    BY <1>6, <2>3 DEF TypeOK, Proceed, ScanNothing, ScanBegin, WalkSlave, ScanEnd, WalkBegin,
      Register, Activate, BuildFails, BuildEntries, WaitCycle, WaitOver, WaitSkipped,
      BuildReturns, WalkFrom, WalkDone, Go, walk, result
  <2>. QED BY <2>1, <2>2, <2>3
<1>. QED BY <1>1, <1>3, <1>4, <1>5, <1>6 DEF Next

(* The variant of scan() and build(): each step of a call lowers it, no step *)
(* of the other builders or of the bus raises it, however often the slaves   *)
(* come and go, so that a call takes at most as many steps as its walk has   *)
(* positions and its wait has cycles, and a few more.                        *)
THEOREM CallsComeNearer ==
  Spec => [][\A b \in Builders :
               /\ Proceed(b) => Nearer(b)
               /\ Ahead(pc[b]) # 0 =>
                    Nearer(b) \/ (pc'[b] = pc[b] /\ Rounds(b)' = Rounds(b))]_vars
<1>1. WalkInv /\ [Next]_vars =>
        \A b \in Builders :
          /\ Proceed(b) => Nearer(b)
          /\ Ahead(pc[b]) # 0 =>
               Nearer(b) \/ (pc'[b] = pc[b] /\ Rounds(b)' = Rounds(b))
  BY ProceedNearer, NeverSetBack DEF WalkInv, BusInv
<1>. QED BY <1>1, WalkInvariant, PTL DEF Spec
===============================================================================
