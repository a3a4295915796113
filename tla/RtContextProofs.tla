--------------------------- MODULE RtContextProofs ---------------------------
(***************************************************************************)
(* RtInv is inductive, and from it: after readAll() an input found by its  *)
(* uuid has the level at its terminal, and after writeAll() the terminal   *)
(* of an output has what was last asked for, whatever was mapped.          *)
(***************************************************************************)
EXTENDS RtContext, WellFoundedInduction, TLAPS

(* A set of positions has a first one. *)
LEMMA LeastNatural ==
  ASSUME NEW S, S \subseteq Nat, S # {}
  PROVE  \E n \in S : \A k \in S : n <= k
<1> DEFINE R == OpToRel(<, Nat)
<1>1. IsWellFoundedOn(R, Nat)
  BY Zenon, NatLessThanWellFounded
<1>2. \A k, n \in Nat : k < n => <<k, n>> \in R
  BY Zenon DEF OpToRel
<1> HIDE DEF R
<1>3. PICK n \in S : \A k \in S : ~(<<k, n>> \in R)
  BY Zenon, <1>1, WFMin
<1>4. \A k \in S : ~(k < n)
  BY Zenon, <1>2, <1>3
<1>5. \A k \in S : n <= k
  BY <1>4
<1> QED
  BY Zenon, <1>5

(* The positions of a backend are cells of its image. *)
LEMMA SlotsAreCells ==
  ASSUME mapping \in Mappings, NEW b \in Backends
  PROVE  Slots(b) \subseteq Cells(b) /\ Slots(b) \subseteq Nat
<1>1. mapping \in Seq(Channels)
  BY ListsAssumption
<1>2. DOMAIN mapping \subseteq Nat /\ DOMAIN Definitions \subseteq Nat /\ DOMAIN Registrations \subseteq Nat
  BY <1>1, ListsAssumption
<1>3. /\ b = "GPIO" => Slots(b) \subseteq DOMAIN mapping /\ Cells(b) = Slots(b)
      /\ b = "Simulated" => Slots(b) \in {DOMAIN Definitions, DOMAIN mapping} /\ Cells(b) = Slots(b)
      /\ b = "EtherCAT" => Slots(b) \subseteq DOMAIN Registrations /\ Cells(b) = DOMAIN Registrations
  BY DEF Slots, Cells
<1> QED
  BY <1>2, <1>3 DEF Backends

(* What a uuid says about the entry that has it. *)
LEMMA UuidKind ==
  ASSUME mapping \in Mappings, NEW b \in Backends, NEW i \in Slots(b), UuidAt(b, i) \in Names
  PROVE  /\ b = "GPIO" => UuidAt(b, i) \in Gpio /\ i \in DOMAIN mapping
                          /\ UuidAt(b, i) = mapping[i] /\ ChannelAt(b, i) = mapping[i]
         /\ b = "EtherCAT" => UuidAt(b, i) \in Ethercat /\ i \in DOMAIN Registrations
                              /\ UuidAt(b, i) = Registrations[i]
                              /\ ChannelAt(b, i) = Registrations[i]
         /\ b = "Simulated" => UuidAt(b, i) \notin Gpio \cup Ethercat
<1>1. mapping \in Seq(Channels)
  BY ListsAssumption
<1>2. CASE b = "GPIO"
  BY <1>2 DEF Slots, UuidAt, ChannelAt
<1>3. CASE b = "EtherCAT"
  <2>1. i \in DOMAIN Registrations /\ ChannelAt(b, i) = Registrations[i]
    BY <1>3 DEF Slots, ChannelAt
  <2>2. Registrations[i] \in Ethercat
    BY <2>1, ListsAssumption
  <2>3. UuidAt(b, i) = BlankUuid \/ UuidAt(b, i) = Registrations[i]
    BY <1>3 DEF UuidAt
  <2> QED
    BY <1>3, <2>1, <2>2, <2>3, UuidAssumption
<1>4. CASE b = "Simulated"
  <2>1. CASE mapping = << >>
    <3>1. i \in DOMAIN Definitions /\ UuidAt(b, i) = Definitions[i]
      BY <1>4, <2>1 DEF Slots, UuidAt
    <3>2. Definitions[i] \in Simulated
      BY <3>1, ListsAssumption
    <3> QED
      BY <1>4, <3>1, <3>2, ChannelsAssumption
  <2>2. CASE mapping # << >>
    <3>1. i \in DOMAIN mapping /\ UuidAt(b, i) = SimUuid[i]
      BY <1>4, <2>2 DEF Slots, UuidAt
    <3>2. SimUuid[i] \in Names \ Channels
      BY <3>1, UuidAssumption
    <3> QED
      BY <1>4, <3>1, <3>2 DEF Channels
  <2> QED
    BY <2>1, <2>2
<1> QED
  BY <1>2, <1>3, <1>4 DEF Backends

LEMMA EntryFacts ==
  ASSUME NEW h
  PROVE  h \in Entries <=>
           \E b \in config.backends : \E i \in Slots(b) : h = [backend |-> b, slot |-> i]
<1>1. h \in Entries <=> \E b \in config.backends : h \in [backend : {b}, slot : Slots(b)]
  BY DEF Entries
<1> QED
  BY <1>1

(* No two backends have an entry with the same uuid. *)
LEMMA OneBackend ==
  ASSUME mapping \in Mappings, config.backends \subseteq Backends, NEW u \in Names,
         NEW g \in EntriesOf(u), NEW h \in EntriesOf(u)
  PROVE  g.backend = h.backend
<1>1. /\ g.backend \in Backends /\ g.slot \in Slots(g.backend) /\ UuidAt(g.backend, g.slot) = u
      /\ h.backend \in Backends /\ h.slot \in Slots(h.backend) /\ UuidAt(h.backend, h.slot) = u
  BY EntryFacts DEF EntriesOf
<1>2. /\ g.backend = "GPIO" \/ g.backend = "Simulated" \/ g.backend = "EtherCAT"
      /\ h.backend = "GPIO" \/ h.backend = "Simulated" \/ h.backend = "EtherCAT"
  BY <1>1 DEF Backends
<1>3. /\ g.backend = "GPIO" => u \in Gpio
      /\ g.backend = "EtherCAT" => u \in Ethercat
      /\ g.backend = "Simulated" => u \notin Gpio \cup Ethercat
  BY <1>1, UuidKind
<1>4. /\ h.backend = "GPIO" => u \in Gpio
      /\ h.backend = "EtherCAT" => u \in Ethercat
      /\ h.backend = "Simulated" => u \notin Gpio \cup Ethercat
  BY <1>1, UuidKind
<1> QED
  BY <1>2, <1>3, <1>4, ChannelsAssumption

(* emplace() finds the first entry of a uuid. *)
LEMMA FirstFound ==
  ASSUME mapping \in Mappings, config.backends \subseteq Backends, NEW u \in Names,
         EntriesOf(u) # {}
  PROVE  LET h == FirstOf(EntriesOf(u)) IN
         /\ h \in Entries
         /\ UuidAt(h.backend, h.slot) = u
         /\ \A i \in Slots(h.backend) : UuidAt(h.backend, i) = u => h.slot <= i
<1>1. PICK g \in EntriesOf(u) : TRUE
  OBVIOUS
<1> DEFINE S == {k \in Slots(g.backend) : UuidAt(g.backend, k) = u}
<1>2. g \in Entries /\ UuidAt(g.backend, g.slot) = u
  BY <1>1 DEF EntriesOf
<1>3. g.backend \in config.backends /\ g.backend \in Backends /\ g.slot \in S
  BY <1>2, EntryFacts
<1>4. S \subseteq Nat /\ S # {}
  BY <1>3, SlotsAreCells
<1>5. PICK n \in S : \A k \in S : n <= k
  BY Zenon, <1>4, LeastNatural
<1> DEFINE first == [backend |-> g.backend, slot |-> n]
<1>6. first \in EntriesOf(u)
  BY <1>3, <1>5, EntryFacts DEF EntriesOf
<1>7. \A h \in EntriesOf(u) : h.backend = first.backend => first.slot <= h.slot
  BY <1>5, EntryFacts DEF EntriesOf
<1>8. FirstOf(EntriesOf(u)) \in EntriesOf(u)
      /\ \A h \in EntriesOf(u) : h.backend = FirstOf(EntriesOf(u)).backend
                                   => FirstOf(EntriesOf(u)).slot <= h.slot
  BY Zenon, <1>6, <1>7 DEF FirstOf
<1> DEFINE h == FirstOf(EntriesOf(u))
<1>9. h \in Entries /\ UuidAt(h.backend, h.slot) = u
  BY <1>8 DEF EntriesOf
<1>10. ASSUME NEW i \in Slots(h.backend), UuidAt(h.backend, i) = u
       PROVE  h.slot <= i
  <2>1. [backend |-> h.backend, slot |-> i] \in EntriesOf(u)
    BY <1>9, <1>10, EntryFacts DEF EntriesOf
  <2> QED
    BY <1>8, <2>1
<1> QED
  BY <1>9, <1>10

(* What depends on the configuration only stays as it is. *)
LEMMA SameConfig ==
  ASSUME config' = config
  PROVE  /\ mapping' = mapping /\ Entries' = Entries /\ Blank' = Blank
         /\ \A b : Slots(b)' = Slots(b) /\ Cells(b)' = Cells(b)
         /\ \A b, i : UuidAt(b, i)' = UuidAt(b, i) /\ ChannelAt(b, i)' = ChannelAt(b, i)
         /\ Held(mapping, Gpio)' = Held(mapping, Gpio)
<1>1. mapping' = mapping
  BY DEF mapping
<1>2. \A b : Slots(b)' = Slots(b)
  BY <1>1 DEF Slots, Mapped
<1>3. \A b : Cells(b)' = Cells(b)
  BY <1>2 DEF Cells
<1>4. \A b, i : UuidAt(b, i)' = UuidAt(b, i)
  BY <1>1, <1>2 DEF UuidAt
<1>5. \A b, i : ChannelAt(b, i)' = ChannelAt(b, i)
  BY <1>1 DEF ChannelAt
<1>6. Entries' = Entries
  BY <1>2 DEF Entries
<1>7. Blank' = Blank
  BY <1>3 DEF Blank
<1>8. Held(mapping, Gpio)' = Held(mapping, Gpio)
  BY <1>1 DEF Held
<1> QED
  BY Zenon, <1>1, <1>2, <1>3, <1>4, <1>5, <1>6, <1>7, <1>8

LEMMA BlankValued == Valued(Blank)
  BY DEF Valued, Blank

LEMMA InitRtInv == Init => RtInv
<1> SUFFICES ASSUME Init PROVE RtInv
  OBVIOUS
<1>1. PICK m \in Mappings, built \in Builds, lines \in SUBSET Gpio, stub \in BOOLEAN :
        config = [mapping |-> m, backends |-> built, stub |-> stub,
                  held |-> IF stub \/ "GPIO" \notin built THEN {} ELSE Held(m, lines)]
  BY DEF Init
<1>2. mapping = m /\ config.backends = built /\ config.stub = stub
      /\ config.held = IF stub \/ "GPIO" \notin built THEN {} ELSE Held(m, lines)
  BY <1>1 DEF mapping
<1>3. Held(m, lines) \subseteq Held(m, Gpio)
  BY DEF Held
<1>4. config.held \subseteq Held(mapping, Gpio) /\ HeldByGpio
  BY <1>2, <1>3 DEF HeldByGpio
<1>5. /\ state = "ACTIVE" /\ frozen = FALSE /\ uuidMap = [u \in Names |-> NoEntry]
      /\ moved = {} /\ based = {"EtherCAT"}
      /\ image = Blank /\ boolVal = Blank /\ latched = Blank
      /\ high = [i \in Slots("Simulated") |-> FALSE]
      /\ wave \in [Slots("Simulated") -> BOOLEAN]
      /\ level \in [Terminals -> BOOLEAN] /\ link \in BOOLEAN
      /\ desired = [u \in Names |-> FALSE]
  BY DEF Init
<1>6. Resolved = {}
  BY <1>5 DEF Resolved
<1>7. /\ uuidMap \in [Names -> Entries \cup {NoEntry}]
      /\ high \in [Slots("Simulated") -> BOOLEAN] /\ desired \in [Names -> BOOLEAN]
  BY Zenon, <1>5
<1>8. TypeOK
  BY <1>2, <1>4, <1>5, <1>7, BlankValued DEF TypeOK, Backends
<1> QED
  BY <1>4, <1>5, <1>6, <1>8 DEF RtInv, BlankUntilFrozen, ResolvedFirst

(* freeze() *)
LEMMA FreezeRtInv == RtInv /\ Freeze => RtInv'
<1> SUFFICES ASSUME RtInv, Freeze PROVE RtInv'
  OBVIOUS
<1>1. /\ config' = config /\ state' = "FROZEN" /\ frozen' = TRUE /\ based' = Backends
      /\ UNCHANGED <<image, boolVal, latched, high, wave, level, link, desired>>
      /\ state = "ACTIVE"
  BY DEF Freeze, values, outside
<1>2. mapping \in Mappings /\ config.backends \in Builds /\ config.backends \subseteq Backends
  BY ListsAssumption DEF RtInv, TypeOK
<1>3. latched = Blank /\ desired = [u \in Names |-> FALSE]
  BY Zenon, <1>1 DEF RtInv, BlankUntilFrozen
<1>4. \A u \in Names :
        uuidMap'[u] = IF EntriesOf(u) = {} THEN NoEntry ELSE FirstOf(EntriesOf(u))
  BY DEF Freeze
<1>5. ASSUME NEW u \in Resolved'
      PROVE  LET h == uuidMap'[u] IN
             /\ u \in Names
             /\ h \in Entries
             /\ UuidAt(h.backend, h.slot) = u
             /\ \A i \in Slots(h.backend) : UuidAt(h.backend, i) = u => h.slot <= i
             /\ latched[h.backend][h.slot] = desired[u]
  <2>1. u \in Names /\ uuidMap'[u] # NoEntry
    BY DEF Resolved
  <2>2. EntriesOf(u) # {} /\ uuidMap'[u] = FirstOf(EntriesOf(u))
    BY <1>4, <2>1
  <2> DEFINE h == uuidMap'[u]
  <2>3. /\ h \in Entries /\ UuidAt(h.backend, h.slot) = u
        /\ \A i \in Slots(h.backend) : UuidAt(h.backend, i) = u => h.slot <= i
    BY <1>2, <2>1, <2>2, FirstFound
  <2> HIDE DEF h
  <2>4. h.backend \in Backends /\ h.slot \in Slots(h.backend)
    BY <1>2, <2>3, EntryFacts
  <2>5. h.slot \in Cells(h.backend)
    BY <1>2, <2>4, SlotsAreCells
  <2>6. Blank[h.backend][h.slot] = FALSE
    BY <2>4, <2>5 DEF Blank
  <2>7. latched[h.backend][h.slot] = desired[u]
    BY <1>3, <2>1, <2>6
  <2> QED
    BY <2>1, <2>3, <2>7 DEF h
<1>6. uuidMap' \in [Names -> Entries \cup {NoEntry}]
  <2>1. uuidMap' = [u \in Names |-> IF EntriesOf(u) = {} THEN NoEntry ELSE FirstOf(EntriesOf(u))]
    BY DEF Freeze
  <2>2. \A u \in Names : EntriesOf(u) # {} => FirstOf(EntriesOf(u)) \in Entries
    BY <1>2, FirstFound
  <2> QED
    BY <2>1, <2>2
<1>7. moved' \subseteq config.backends
  BY DEF Freeze
<1>8. TypeOK'
  BY <1>1, <1>6, <1>7, SameConfig DEF RtInv, TypeOK, Valued
<1>9. HeldByGpio' /\ BlankUntilFrozen'
  BY <1>1 DEF RtInv, HeldByGpio, BlankUntilFrozen
<1>10. ResolvedFirst'
  BY <1>1, <1>5, SameConfig DEF ResolvedFirst
<1> QED
  BY <1>8, <1>9, <1>10 DEF RtInv

(* Where an entry found by its uuid is. *)
LEMMA ResolvedEntry ==
  ASSUME RtInv, NEW u \in Resolved
  PROVE  /\ u \in Names
         /\ uuidMap[u] \in EntriesOf(u)
         /\ uuidMap[u].backend \in config.backends \cap Backends
         /\ uuidMap[u].slot \in Slots(uuidMap[u].backend)
         /\ uuidMap[u].slot \in Cells(uuidMap[u].backend)
         /\ UuidAt(uuidMap[u].backend, uuidMap[u].slot) = u
         /\ mapping \in Mappings
<1>1. u \in Names /\ uuidMap[u] \in Entries
  BY DEF Resolved, RtInv, TypeOK
<1>2. mapping \in Mappings /\ config.backends \subseteq Backends
  BY ListsAssumption DEF RtInv, TypeOK
<1>3. UuidAt(uuidMap[u].backend, uuidMap[u].slot) = u
  BY DEF RtInv, ResolvedFirst
<1>4. uuidMap[u].backend \in config.backends /\ uuidMap[u].slot \in Slots(uuidMap[u].backend)
  BY <1>1, EntryFacts
<1> QED
  BY <1>1, <1>2, <1>3, <1>4, SlotsAreCells DEF EntriesOf

(* What an action that leaves the lookups alone has to show. *)
LEMMA SameLookups ==
  ASSUME RtInv, config' = config, UNCHANGED <<frozen, uuidMap, moved, based, latched, desired>>,
         state' \in {"ACTIVE", "FROZEN", "SHUTDOWN"}, state' = "ACTIVE" => state = "ACTIVE",
         Valued(image)', Valued(boolVal)',
         high' \in [Slots("Simulated") -> BOOLEAN], wave' \in [Slots("Simulated") -> BOOLEAN],
         level' \in [Terminals -> BOOLEAN], link' \in BOOLEAN
  PROVE  RtInv'
<1>1. TypeOK'
  BY SameConfig DEF RtInv, TypeOK, Valued
<1>2. HeldByGpio'
  BY DEF RtInv, HeldByGpio
<1>3. BlankUntilFrozen'
  BY SameConfig DEF RtInv, BlankUntilFrozen, Resolved
<1>4. ResolvedFirst'
  BY SameConfig DEF RtInv, ResolvedFirst, Resolved
<1> QED
  BY <1>1, <1>2, <1>3, <1>4 DEF RtInv

(* setBool() through a pointer changes no other uuid's entry. *)
LEMMA SetBoolRtInv ==
  ASSUME RtInv, NEW u \in Names, NEW v \in BOOLEAN, SetBool(u, v)
  PROVE  RtInv'
<1> DEFINE h == uuidMap[u]
<1>1. /\ config' = config
      /\ UNCHANGED <<state, frozen, uuidMap, moved, based, image, boolVal, high, wave, level, link>>
      /\ latched' = [latched EXCEPT ![h.backend][h.slot] = v]
      /\ desired' = [desired EXCEPT ![u] = v]
      /\ u \in Resolved
  BY DEF SetBool, lifecycle, outside, Resolved
<1>2. /\ h.backend \in Backends /\ h.slot \in Cells(h.backend) /\ h \in EntriesOf(u)
      /\ h.slot \in Slots(h.backend) /\ UuidAt(h.backend, h.slot) = u
  BY <1>1, ResolvedEntry
<1> HIDE DEF h
<1>3. Valued(latched) /\ desired \in [Names -> BOOLEAN]
  BY DEF RtInv, TypeOK
<1>4. desired' \in [Names -> BOOLEAN] /\ desired'[u] = v
      /\ \A w \in Names : w # u => desired'[w] = desired[w]
  BY <1>1, <1>3
<1>5. /\ DOMAIN latched' = Backends
      /\ \A b \in Backends : latched'[b] \in [Cells(b) -> BOOLEAN]
      /\ latched'[h.backend][h.slot] = v
      /\ \A b \in Backends : \A i \in Cells(b) :
           ~(b = h.backend /\ i = h.slot) => latched'[b][i] = latched[b][i]
  BY <1>1, <1>2, <1>3 DEF Valued
<1>6. Valued(latched)'
  BY <1>1, <1>5, SameConfig DEF Valued
<1>7. TypeOK'
  BY <1>1, <1>4, <1>6, SameConfig DEF RtInv, TypeOK, Valued
<1>8. HeldByGpio' /\ BlankUntilFrozen'
  BY <1>1 DEF RtInv, HeldByGpio, BlankUntilFrozen, Resolved
<1>9. ASSUME NEW w \in Resolved
      PROVE  latched'[uuidMap[w].backend][uuidMap[w].slot] = desired'[w]
  <2>1. /\ w \in Names /\ uuidMap[w].backend \in Backends /\ uuidMap[w].slot \in Cells(uuidMap[w].backend)
        /\ UuidAt(uuidMap[w].backend, uuidMap[w].slot) = w
    BY ResolvedEntry
  <2>2. CASE w = u
    BY <1>4, <1>5, <2>2 DEF h
  <2>3. CASE w # u
    <3>1. ~(uuidMap[w].backend = h.backend /\ uuidMap[w].slot = h.slot)
      BY <1>2, <2>1, <2>3
    <3>2. latched[uuidMap[w].backend][uuidMap[w].slot] = desired[w]
      BY DEF RtInv, ResolvedFirst
    <3> QED
      BY <1>4, <1>5, <2>1, <2>3, <3>1, <3>2
  <2> QED
    BY <2>2, <2>3
<1>10. ResolvedFirst'
  BY <1>1, <1>9, SameConfig DEF RtInv, ResolvedFirst, Resolved
<1> QED
  BY <1>7, <1>8, <1>10 DEF RtInv

(* The images after the hooks, entry by entry. *)
LEMMA SampledValues ==
  ASSUME RtInv, NEW tone \in BOOLEAN
  PROVE  Valued(Sampled(tone))
<1>1. /\ Valued(image) /\ level \in [Terminals -> BOOLEAN] /\ wave \in [Slots("Simulated") -> BOOLEAN]
      /\ mapping \in Mappings
  BY DEF RtInv, TypeOK
<1>2. /\ image["GPIO"] \in [Slots("GPIO") -> BOOLEAN]
      /\ image["EtherCAT"] \in [DOMAIN Registrations -> BOOLEAN]
      /\ image["Simulated"] \in [Slots("Simulated") -> BOOLEAN]
  BY <1>1 DEF Valued, Cells, Backends
<1>3. GpioSampled(tone) \in [Slots("GPIO") -> BOOLEAN]
  <2>1. \A i \in Slots("GPIO") : mapping[i] \in Terminals
    BY DEF Slots, Terminals
  <2>2. \A i \in Slots("GPIO") : level[mapping[i]] \in BOOLEAN
    BY Zenon, <1>1, <2>1
  <2> QED
    BY <1>2, <2>2 DEF GpioSampled
<1>4. EthercatReceived \in [DOMAIN Registrations -> BOOLEAN]
  <2>1. \A r \in DOMAIN Registrations : Registrations[r] \in Terminals
    BY ListsAssumption DEF Terminals
  <2> QED
    BY <1>1, <1>2, <2>1 DEF EthercatReceived
<1>5. SimGenerated \in [Slots("Simulated") -> BOOLEAN]
  <2>1. ASSUME NEW k \in Slots("Simulated"),
               \E i \in Slots("Simulated") : SimTarget(i) = k /\ Turns(i)
        PROVE  wave[(k + 1) \div 2] \in BOOLEAN
    <3>1. PICK i \in Slots("Simulated") : SimTarget(i) = k
      BY <2>1
    <3>2. i \in Nat /\ k = 2 * i - 1
      BY <1>1, <3>1, SlotsAreCells DEF Backends, SimTarget
    <3>3. (k + 1) \div 2 = i
      BY <3>2
    <3> QED
      BY <1>1, <3>1, <3>3
  <2> QED
    BY <1>2, <2>1 DEF SimGenerated
<1>6. \A b \in Backends : Sampled(tone)[b] \in [Cells(b) -> BOOLEAN]
  <2> TAKE b \in Backends
  <2>1. CASE b \notin config.backends
    BY <1>1, <2>1 DEF Valued, Sampled
  <2>2. CASE b \in config.backends
    <3>1. /\ b = "GPIO" => Sampled(tone)[b] = GpioSampled(tone) /\ Cells(b) = Slots("GPIO")
          /\ b = "EtherCAT" => Sampled(tone)[b] = EthercatReceived /\ Cells(b) = DOMAIN Registrations
          /\ b = "Simulated" => Sampled(tone)[b] = SimGenerated /\ Cells(b) = Slots("Simulated")
      BY <2>2 DEF Sampled, Cells
    <3> QED
      BY <1>3, <1>4, <1>5, <3>1 DEF Backends
  <2> QED
    BY <2>1, <2>2
<1>7. DOMAIN Sampled(tone) = Backends
  BY DEF Sampled
<1> QED
  BY <1>6, <1>7 DEF Valued

(* readAll() *)
LEMMA ReadAllRtInv == RtInv /\ ReadAll => RtInv'
<1> SUFFICES ASSUME RtInv, ReadAll PROVE RtInv'
  OBVIOUS
<1>1. /\ config' = config
      /\ UNCHANGED <<state, frozen, uuidMap, moved, based, latched, desired, level, link>>
  BY DEF ReadAll, lifecycle
<1>2. PICK tone \in BOOLEAN : image' = Sampled(tone)
  BY DEF ReadAll
<1>3. Valued(image')
  BY Zenon, <1>2, SampledValues
<1>4. /\ Valued(boolVal) /\ high \in [Slots("Simulated") -> BOOLEAN]
      /\ wave \in [Slots("Simulated") -> BOOLEAN] /\ mapping \in Mappings
      /\ state \in {"ACTIVE", "FROZEN", "SHUTDOWN"}
      /\ level \in [Terminals -> BOOLEAN] /\ link \in BOOLEAN
  BY DEF RtInv, TypeOK
<1>5. \A b \in Backends : \A i \in Cells(b) : image'[b][i] \in BOOLEAN /\ boolVal[b][i] \in BOOLEAN
  BY Zenon, <1>3, <1>4 DEF Valued
<1>6. Valued(boolVal')
  BY <1>5 DEF ReadAll, Valued
<1>7. high' \in [Slots("Simulated") -> BOOLEAN]
  BY <1>4 DEF ReadAll
<1>8. Valued(image)' /\ Valued(boolVal)'
  BY <1>1, <1>3, <1>6, SameConfig DEF Valued
<1>9. wave' \in [Slots("Simulated") -> BOOLEAN]
  BY <1>4 DEF ReadAll, WavesAfter
<1> QED
  BY <1>1, <1>4, <1>7, <1>8, <1>9, SameLookups

(* The levels after the outputs have gone out. *)
LEMMA FlushedLevels ==
  ASSUME RtInv, NEW img, Valued(img)
  PROVE  Flushed(img) \in [Terminals -> BOOLEAN]
<1>1. level \in [Terminals -> BOOLEAN] /\ mapping \in Mappings
      /\ config.held \subseteq Held(mapping, Gpio)
  BY DEF RtInv, TypeOK
<1>2. \A i \in config.held : i \in Slots("GPIO")
  BY <1>1 DEF Held, Slots
<1>3. /\ \A i \in Slots("GPIO") : img["GPIO"][i] \in BOOLEAN
      /\ \A r \in DOMAIN Registrations : img["EtherCAT"][r] \in BOOLEAN
  BY DEF Valued, Cells, Backends
<1>4. ASSUME NEW c \in Terminals, \E i \in config.held : mapping[i] = c
      PROVE  img["GPIO"][CHOOSE i \in config.held : mapping[i] = c] \in BOOLEAN
  BY <1>2, <1>3, <1>4
<1>5. ASSUME NEW c \in Terminals, \E r \in DOMAIN Registrations : Registrations[r] = c
      PROVE  img["EtherCAT"][CHOOSE r \in DOMAIN Registrations : Registrations[r] = c] \in BOOLEAN
  BY <1>3, <1>5
<1> QED
  BY <1>1, <1>4, <1>5 DEF Flushed

(* writeAll() *)
LEMMA WrittenValues == ASSUME RtInv PROVE Valued(Written)
<1>1. Valued(image) /\ Valued(latched)
  BY DEF RtInv, TypeOK
<1>2. \A b \in Backends : \A i \in Cells(b) : image[b][i] \in BOOLEAN /\ latched[b][i] \in BOOLEAN
  BY Zenon, <1>1 DEF Valued
<1> QED
  BY <1>2 DEF Written, Valued

LEMMA WriteAllRtInv == RtInv /\ WriteAll => RtInv'
<1> SUFFICES ASSUME RtInv, WriteAll PROVE RtInv'
  OBVIOUS
<1>1. /\ config' = config /\ image' = Written /\ level' = Flushed(Written)
      /\ UNCHANGED <<state, frozen, uuidMap, moved, based, latched, desired, boolVal, high, wave, link>>
  BY DEF WriteAll, lifecycle
<1>2. level' \in [Terminals -> BOOLEAN]
  BY <1>1, WrittenValues, FlushedLevels
<1>3. /\ Valued(boolVal) /\ high \in [Slots("Simulated") -> BOOLEAN]
      /\ wave \in [Slots("Simulated") -> BOOLEAN] /\ link \in BOOLEAN
      /\ state \in {"ACTIVE", "FROZEN", "SHUTDOWN"}
  BY DEF RtInv, TypeOK
<1>4. Valued(image)' /\ Valued(boolVal)'
  <2>1. Valued(image') /\ Valued(boolVal')
    BY <1>1, <1>3, WrittenValues
  <2> QED
    BY <1>1, <2>1, SameConfig DEF Valued
<1> QED
  BY <1>1, <1>2, <1>3, <1>4, SameLookups

(* The actions that leave every image alone, and stuttering. *)
LEMMA OutsideRtInv ==
  RtInv /\ (Shutdown \/ (\E c \in Terminals : LevelChange(c)) \/ LinkChange
            \/ UNCHANGED vars) => RtInv'
<1> SUFFICES ASSUME RtInv,
                    Shutdown \/ (\E c \in Terminals : LevelChange(c)) \/ LinkChange
                      \/ UNCHANGED vars
             PROVE  RtInv'
  OBVIOUS
<1>1. /\ config' = config
      /\ UNCHANGED <<frozen, uuidMap, moved, based, latched, desired, image, boolVal, high>>
  BY DEF Shutdown, LevelChange, LinkChange, vars, values, lifecycle, outside
<1>2. /\ Valued(image) /\ Valued(boolVal) /\ high \in [Slots("Simulated") -> BOOLEAN]
      /\ wave \in [Slots("Simulated") -> BOOLEAN] /\ link \in BOOLEAN
      /\ level \in [Terminals -> BOOLEAN] /\ state \in {"ACTIVE", "FROZEN", "SHUTDOWN"}
  BY DEF RtInv, TypeOK
<1>3. Valued(image)' /\ Valued(boolVal)'
  BY <1>1, <1>2, SameConfig DEF Valued
<1>4. state' \in {"ACTIVE", "FROZEN", "SHUTDOWN"} /\ (state' = "ACTIVE" => state = "ACTIVE")
  BY <1>2 DEF Shutdown, LevelChange, LinkChange, vars, lifecycle
<1>5. level' \in [Terminals -> BOOLEAN]
  BY <1>2 DEF Shutdown, LevelChange, LinkChange, vars, outside
<1>6. link' \in BOOLEAN
  BY <1>2 DEF Shutdown, LevelChange, LinkChange, vars, outside
<1>7. wave' \in [Slots("Simulated") -> BOOLEAN]
  BY <1>2 DEF Shutdown, LevelChange, LinkChange, vars, outside
<1> QED
  BY <1>1, <1>2, <1>3, <1>4, <1>5, <1>6, <1>7, SameLookups

(* RtInv holds in every state. *)
THEOREM RtInvariant == Spec => []RtInv
<1>1. RtInv /\ [Next]_vars => RtInv'
  <2> SUFFICES ASSUME RtInv, [Next]_vars PROVE RtInv'
    OBVIOUS
  <2>1. CASE Freeze
    BY <2>1, FreezeRtInv
  <2>2. CASE \E u \in Names, v \in BOOLEAN : SetBool(u, v)
    BY <2>2, SetBoolRtInv
  <2>3. CASE ReadAll
    BY <2>3, ReadAllRtInv
  <2>4. CASE WriteAll
    BY <2>4, WriteAllRtInv
  <2>5. CASE Shutdown \/ (\E c \in Terminals : LevelChange(c)) \/ LinkChange
               \/ UNCHANGED vars
    BY <2>5, OutsideRtInv
  <2> QED
    BY Zenon, <2>1, <2>2, <2>3, <2>4, <2>5 DEF Next
<1> QED
  BY <1>1, InitRtInv, PTL DEF Spec

(* The uuid of an attached channel resolves to the entry that has its line,  *)
(* or its place in the domain, and to no other mapping of the channel.       *)
LEMMA AttachedEntry ==
  ASSUME RtInv, NEW u \in Resolved, Attached(u)
  PROVE  \/ /\ uuidMap[u].backend = "GPIO" /\ uuidMap[u].slot \in config.held
            /\ mapping[uuidMap[u].slot] = u /\ u \in Gpio /\ ~config.stub
         \/ /\ uuidMap[u].backend = "EtherCAT" /\ uuidMap[u].slot \in DOMAIN Registrations
            /\ Registrations[uuidMap[u].slot] = u /\ u \in Ethercat /\ link
<1> DEFINE h == uuidMap[u]
<1>1. /\ h.backend \in Backends /\ h.slot \in Slots(h.backend) /\ UuidAt(h.backend, h.slot) = u
      /\ mapping \in Mappings /\ u \in Names
  BY ResolvedEntry
<1>2. \A i \in Slots(h.backend) : UuidAt(h.backend, i) = u => h.slot <= i
  BY DEF RtInv, ResolvedFirst
<1>3. config.held \subseteq Held(mapping, Gpio) /\ HeldByGpio
  BY DEF RtInv, TypeOK
<1>4. u \in Gpio \/ (u \in Ethercat /\ link)
  BY <1>3 DEF Attached, Held
<1> HIDE DEF h
<1>5. h.backend = "GPIO" \/ h.backend = "EtherCAT"
  <2>1. h.backend # "Simulated"
    BY <1>1, <1>4, UuidKind
  <2> QED
    BY <1>1, <2>1 DEF Backends
<1>6. CASE h.backend = "GPIO"
  <2>1. u \in Gpio /\ mapping[h.slot] = u /\ h.slot \in DOMAIN mapping /\ h.slot \in Nat
    BY <1>1, <1>6, UuidKind, SlotsAreCells
  <2>2. u \notin Ethercat
    BY <2>1, ChannelsAssumption
  <2>3. PICK i \in config.held : mapping[i] = u
    BY <2>2 DEF Attached
  <2>4. i \in DOMAIN mapping /\ mapping[i] \in Gpio /\ \A j \in 1..(i - 1) : mapping[j] # mapping[i]
    BY <1>3 DEF Held
  <2>5. i \in Slots("GPIO") /\ UuidAt("GPIO", i) = u
    BY <2>3, <2>4 DEF Slots, UuidAt
  <2>6. h.slot <= i
    BY <1>2, <1>6, <2>5
  <2>7. mapping \in Seq(Channels)
    BY <1>1, ListsAssumption
  <2>8. h.slot \in 1..Len(mapping) /\ i \in 1..Len(mapping) /\ Len(mapping) \in Nat
    BY <2>1, <2>4, <2>7
  <2>9. h.slot = i
    BY <2>1, <2>3, <2>4, <2>6, <2>8
  <2>10. ~config.stub
    BY <1>3, <2>3 DEF HeldByGpio
  <2> QED
    BY <1>6, <2>1, <2>3, <2>9, <2>10 DEF h
<1>7. CASE h.backend = "EtherCAT"
  <2>1. u \in Ethercat /\ Registrations[h.slot] = u /\ h.slot \in DOMAIN Registrations
    BY <1>1, <1>7, UuidKind
  <2>2. u \notin Gpio
    BY <2>1, ChannelsAssumption
  <2> QED
    BY <1>4, <1>7, <2>1, <2>2 DEF h
<1> QED
  BY <1>5, <1>6, <1>7

(* InputsTrue: whatever the mapping, the line or the terminal of a channel   *)
(* is what its pointer shows after readAll().                                *)
THEOREM InputsReadTrue == Spec => InputsTrue
<1>1. RtInv => [ReadAll => \A u \in Resolved \ Outputs :
                  Attached(u) => boolVal'[uuidMap[u].backend][uuidMap[u].slot] = level[u]]_vars
  <2> SUFFICES ASSUME RtInv, ReadAll, NEW u \in Resolved, u \notin Outputs, Attached(u)
               PROVE  boolVal'[uuidMap[u].backend][uuidMap[u].slot] = level[u]
    BY Zenon
  <2> DEFINE b == uuidMap[u].backend
             i == uuidMap[u].slot
  <2>1. /\ b \in config.backends \cap Backends /\ i \in Slots(b) /\ i \in Cells(b)
        /\ UuidAt(b, i) = u /\ u \in Names /\ mapping \in Mappings
    BY ResolvedEntry
  <2>2. based = Backends
    BY DEF RtInv, BlankUntilFrozen, ReadAll
  <2>3. PICK tone \in BOOLEAN : image' = Sampled(tone)
    BY DEF ReadAll
  <2>4. \/ b = "GPIO" /\ i \in config.held /\ mapping[i] = u /\ ~config.stub
        \/ b = "EtherCAT" /\ i \in DOMAIN Registrations /\ Registrations[i] = u /\ link
    BY AttachedEntry
  <2> HIDE DEF b, i
  <2>5. ChannelAt(b, i) = u
    BY <2>4 DEF ChannelAt
  <2>6. boolVal'[b][i] = image'[b][i]
    BY <2>1, <2>2, <2>5 DEF ReadAll, Input
  <2>7. image'[b][i] = level[u]
    <3>1. CASE b = "GPIO" /\ i \in config.held /\ mapping[i] = u /\ ~config.stub
      <4>1. Sampled(tone)["GPIO"] = GpioSampled(tone)
        BY <2>1, <3>1 DEF Sampled
      <4>2. GpioSampled(tone)[i] = level[u]
        BY <2>1, <3>1 DEF GpioSampled, Input
      <4> QED
        BY <2>3, <3>1, <4>1, <4>2
    <3>2. CASE b = "EtherCAT" /\ i \in DOMAIN Registrations /\ Registrations[i] = u /\ link
      <4>1. Sampled(tone)["EtherCAT"] = EthercatReceived
        BY <2>1, <3>2 DEF Sampled
      <4>2. EthercatReceived[i] = level[u]
        BY <3>2 DEF EthercatReceived, Input
      <4> QED
        BY <2>3, <3>2, <4>1, <4>2
    <3> QED
      BY <2>4, <3>1, <3>2
  <2> QED
    BY <2>6, <2>7 DEF b, i
<1> QED
  BY <1>1, RtInvariant, PTL DEF InputsTrue

(* OutputsTrue: whatever the mapping, the line or the terminal of an output  *)
(* has what was last asked for through its pointer, after writeAll().        *)
THEOREM OutputsWrittenTrue == Spec => OutputsTrue
<1>1. RtInv => [WriteAll => \A u \in Resolved \cap Outputs :
                  Attached(u) => level'[u] = desired[u]]_vars
  <2> SUFFICES ASSUME RtInv, WriteAll, NEW u \in Resolved, u \in Outputs, Attached(u)
               PROVE  level'[u] = desired[u]
    BY Zenon
  <2> DEFINE b == uuidMap[u].backend
             i == uuidMap[u].slot
  <2>1. /\ b \in config.backends \cap Backends /\ i \in Slots(b) /\ i \in Cells(b)
        /\ UuidAt(b, i) = u /\ u \in Names /\ mapping \in Mappings
    BY ResolvedEntry
  <2>2. based = Backends
    BY DEF RtInv, BlankUntilFrozen, WriteAll
  <2>3. /\ config.held \subseteq Held(mapping, Gpio)
        /\ latched[b][i] = desired[u]
    BY DEF RtInv, TypeOK, ResolvedFirst
  <2>4. \/ b = "GPIO" /\ i \in config.held /\ mapping[i] = u /\ u \in Gpio
        \/ b = "EtherCAT" /\ i \in DOMAIN Registrations /\ Registrations[i] = u /\ u \in Ethercat /\ link
    BY AttachedEntry
  <2> HIDE DEF b, i
  <2>5. ChannelAt(b, i) = u
    BY <2>4 DEF ChannelAt
  <2>6. Written[b][i] = desired[u]
    BY <2>1, <2>2, <2>3, <2>5 DEF Written, Input
  <2>7. level' = Flushed(Written) /\ u \in Terminals
    BY <2>4 DEF WriteAll, Terminals
  <2>8. Flushed(Written)[u] = Written[b][i]
    <3>1. CASE b = "GPIO" /\ i \in config.held /\ mapping[i] = u /\ u \in Gpio
      <4>1. ASSUME NEW j \in config.held, mapping[j] = u PROVE j = i
        <5>1. mapping \in Seq(Channels)
          BY <2>1, ListsAssumption
        <5>2. /\ i \in 1..Len(mapping) /\ j \in 1..Len(mapping) /\ Len(mapping) \in Nat
              /\ \A k \in 1..(i - 1) : mapping[k] # mapping[i]
              /\ \A k \in 1..(j - 1) : mapping[k] # mapping[j]
          BY <2>3, <3>1, <4>1, <5>1 DEF Held
        <5> QED
          BY <3>1, <4>1, <5>2
      <4>2. (CHOOSE j \in config.held : mapping[j] = u) = i
        BY <3>1, <4>1
      <4> QED
        BY <2>7, <3>1, <4>2 DEF Flushed, Input
    <3>2. CASE b = "EtherCAT" /\ i \in DOMAIN Registrations /\ Registrations[i] = u
                 /\ u \in Ethercat /\ link
      <4>1. (CHOOSE r \in DOMAIN Registrations : Registrations[r] = u) = i
        BY <3>2, DomainAssumption
      <4>2. u \notin Gpio
        BY <3>2, ChannelsAssumption
      <4> QED
        BY <2>1, <2>7, <3>2, <4>1, <4>2 DEF Flushed, Input
    <3> QED
      BY <2>4, <3>1, <3>2
  <2> QED
    BY <2>6, <2>7, <2>8
<1> QED
  BY <1>1, RtInvariant, PTL DEF OutputsTrue
===============================================================================
