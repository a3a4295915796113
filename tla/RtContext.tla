------------------------------ MODULE RtContext ------------------------------
(***************************************************************************)
(* What buildRT() hands to the application: a DynamicHardwareContextObject *)
(* over a HardwareRegistry of runtime adapters (GPIO, simulated, EtherCAT),*)
(* their DHDOs of entries and image, freeze(), the lookup by uuid, and the *)
(* cycle of readAll(), setBool() and writeAll() on Boolean channels.       *)
(*                                                                         *)
(* An entry is known by its backend and its position: in the list of       *)
(* mapped channels (GPIO, simulated), in the definitions file (simulated   *)
(* without a mapping) or in the EtherCAT domain.  Each entry has its cell  *)
(* of the backend's image; a cell holds what its bit of the image does.    *)
(* The entry objects live in a vector that grew by push_back, or was       *)
(* reserved; freeze() shrinks it, which moves them unless it is exactly    *)
(* full.  A pointer to an entry that has moved is never used here: what    *)
(* that would do is undefined.                                             *)
(***************************************************************************)
EXTENDS Integers, Sequences, FiniteSets

CONSTANTS
  Gpio, Simulated, Ethercat,  \* the catalog's channels by backend: their uuids
  Outputs,        \* those of them that are outputs
  Names,          \* the uuids the application looks up
  SimUuid,        \* the uuid "Simulated|n" given to the n-th mapped channel
  BlankUuid,      \* the empty string
  Definitions,    \* the channels in the simulation's definitions file
  Registrations,  \* the channels in the order of the EtherCAT domain
  Mappings,       \* what the application may have mapped
  Builds,         \* which backends may have been enabled and have built
  NoEntry         \* nullptr

Channels == Gpio \cup Simulated \cup Ethercat
Terminals == Gpio \cup Ethercat
Backends == {"GPIO", "Simulated", "EtherCAT"}

ASSUME ChannelsAssumption ==
  /\ Gpio \cap Simulated = {} /\ Gpio \cap Ethercat = {} /\ Simulated \cap Ethercat = {}
  /\ Outputs \subseteq Channels
ASSUME ListsAssumption ==
  /\ Definitions \in Seq(Simulated)
  /\ Registrations \in Seq(Ethercat)
  /\ Mappings \subseteq Seq(Channels)
  /\ Builds \subseteq SUBSET Backends
ASSUME DomainAssumption ==
  \A r, s \in DOMAIN Registrations : Registrations[r] = Registrations[s] => r = s
ASSUME UuidAssumption ==
  /\ Channels \subseteq Names /\ BlankUuid \notin Names
  /\ \A m \in Mappings : DOMAIN m \subseteq DOMAIN SimUuid
  /\ \A i \in DOMAIN SimUuid : SimUuid[i] \in Names \ Channels
  /\ \A i, j \in DOMAIN SimUuid : SimUuid[i] = SimUuid[j] => i = j

VARIABLES
  config,     \* what buildRT() had: the mapping, the backends that built, the
              \* mapped positions whose GPIO line could be requested, stub mode
  state,      \* state_ of the context
  frozen,     \* frozen_ of the registry
  uuidMap,    \* uuidMap_ of the registry
  moved,      \* backends whose entries freeze() has moved
  based,      \* backends whose entries point into their image
  image,      \* image of the DHDO of each backend
  boolVal,    \* boolVal_ of each entry
  latched,    \* latched_ of the pulse machine of each entry
  high,       \* SimState::isHigh of each simulated entry
  wave,       \* what the square wave of each simulated entry should be
  level,      \* the level at each line and each EtherCAT terminal
  link,       \* whether EtherCAT frames arrive
  desired     \* history: the last setBool() through the pointer of each uuid

values == <<image, boolVal, latched, high>>
outside == <<wave, level, link>>
lifecycle == <<state, frozen, uuidMap, moved, based>>
vars == <<config, lifecycle, values, outside, desired>>

mapping == config.mapping
Mapped == {mapping[i] : i \in DOMAIN mapping}
Input(c) == c \notin Outputs

-------------------------------------------------------------------------------
(* What build(channels) of each adapter makes of the mapping.  The simulated *)
(* one takes every channel of it, whatever its backend.                      *)
Slots(b) ==
  [GPIO |-> {i \in DOMAIN mapping : mapping[i] \in Gpio},
   Simulated |-> IF mapping = << >> THEN DOMAIN Definitions ELSE DOMAIN mapping,
   EtherCAT |-> {r \in DOMAIN Registrations : mapping = << >> \/ Registrations[r] \in Mapped}][b]

ChannelAt(b, i) ==
  [GPIO |-> mapping,
   Simulated |-> IF mapping = << >> THEN Definitions ELSE mapping,
   EtherCAT |-> Registrations][b][i]

(* The EtherCAT filter moves the entries it keeps into a new vector, and     *)
(* leaves the old one in place, without its uuids, if that keeps them all.   *)
UuidAt(b, i) ==
  [GPIO |-> mapping,
   Simulated |-> IF mapping = << >> THEN Definitions ELSE SimUuid,
   EtherCAT |-> IF mapping # << >> /\ Slots("EtherCAT") = DOMAIN Registrations
                  THEN [r \in DOMAIN Registrations |-> BlankUuid] ELSE Registrations][b][i]

(* The image of an EtherCAT DHDO is the domain, with every registration in it.*)
Cells(b) == IF b = "EtherCAT" THEN DOMAIN Registrations ELSE Slots(b)

(* A reserved vector is exactly full, one grown by push_back if its size is  *)
(* a power of two.                                                           *)
PowerOfTwo(n) == \E k \in 0..n : n = 2^k

ExactlyFull(b) ==
  \/ mapping = << >>
  \/ b = "EtherCAT" /\ Slots(b) = DOMAIN Registrations
  \/ PowerOfTwo(Cardinality(Slots(b)))

(* A line is requested once: a second request for it fails, as it does for a *)
(* line that is in use elsewhere (lines is the set of those that are not).   *)
Held(m, lines) ==
  {i \in DOMAIN m : m[i] \in Gpio \cap lines /\ \A j \in 1..(i - 1) : m[j] # m[i]}

Blank == [b \in Backends |-> [i \in Cells(b) |-> FALSE]]

Init ==
  /\ \E m \in Mappings, built \in Builds, lines \in SUBSET Gpio, stub \in BOOLEAN :
       config = [mapping |-> m, backends |-> built, stub |-> stub,
                 held |-> IF stub \/ "GPIO" \notin built THEN {} ELSE Held(m, lines)]
  /\ state = "ACTIVE"
  /\ frozen = FALSE
  /\ uuidMap = [u \in Names |-> NoEntry]
  /\ moved = {}
  /\ based = {"EtherCAT"}
  /\ image = Blank
  /\ boolVal = Blank
  /\ latched = Blank
  /\ high = [i \in Slots("Simulated") |-> FALSE]
  /\ wave \in {w \in [Slots("Simulated") -> BOOLEAN] :
               mapping # << >> => \A i \in Slots("Simulated") : w[i]}
  /\ level \in {l \in [Terminals -> BOOLEAN] : \A c \in Outputs \cap Terminals : ~l[c]}
  /\ link \in BOOLEAN
  /\ desired = [u \in Names |-> FALSE]

-------------------------------------------------------------------------------
(* buildUuidMap(): of two entries with one uuid, emplace() keeps the first.  *)
Entries == UNION {[backend : {b}, slot : Slots(b)] : b \in config.backends}

EntriesOf(u) == {h \in Entries : UuidAt(h.backend, h.slot) = u}

(* Mistake: buildUuidMap() with an assignment, so that the last entry wins. *)
LastOf(hs) == CHOOSE h \in hs : \A g \in hs : g.backend = h.backend => g.slot <= h.slot

FirstOf(hs) == CHOOSE h \in hs : \A g \in hs : g.backend = h.backend => h.slot <= g.slot

(* Mistake: a freeze() that does not re-base the entries. *)
FreezeUnbased ==
  /\ state = "ACTIVE"
  /\ state' = "FROZEN"
  /\ frozen' = TRUE
  /\ uuidMap' = [u \in Names |-> IF EntriesOf(u) = {} THEN NoEntry ELSE FirstOf(EntriesOf(u))]
  /\ moved' = {b \in config.backends : ~ExactlyFull(b)}
  /\ UNCHANGED <<config, based, values, outside, desired>>

(* freeze(): the map is built first, with pointers to the entries as they    *)
(* are; then each DHDO is shrunk, and entries point into its image.          *)
Freeze ==
  /\ state = "ACTIVE"
  /\ state' = "FROZEN"
  /\ frozen' = TRUE
  /\ uuidMap' = [u \in Names |-> IF EntriesOf(u) = {} THEN NoEntry ELSE FirstOf(EntriesOf(u))]
  /\ moved' = {b \in config.backends : ~ExactlyFull(b)}
  /\ based' = Backends
  /\ UNCHANGED <<config, values, outside, desired>>

(* shutdown() sets the state and nothing else. *)
Shutdown ==
  /\ state # "SHUTDOWN"
  /\ state' = "SHUTDOWN"
  /\ UNCHANGED <<config, frozen, uuidMap, moved, based, values, outside, desired>>

(* lookupByUuid(u)->setBool(v), through a pointer that is still good. *)
SetBool(u, v) ==
  LET h == uuidMap[u] IN
  /\ h # NoEntry
  /\ h.backend \notin moved
  /\ ChannelAt(h.backend, h.slot) \in Outputs
  /\ latched' = [latched EXCEPT ![h.backend][h.slot] = v]
  /\ desired' = [desired EXCEPT ![u] = v]
  /\ UNCHANGED <<config, lifecycle, image, boolVal, high, outside>>

-------------------------------------------------------------------------------
(* onBeforeReadInputs() of each backend: its image after it.  tone is the    *)
(* level the GPIO stub gives to all its inputs.                              *)
GpioSampled(tone) ==
  [i \in Slots("GPIO") |->
     IF Input(mapping[i]) /\ (config.stub \/ i \in config.held)
       THEN IF config.stub THEN tone ELSE level[mapping[i]]
       ELSE image["GPIO"][i]]

EthercatReceived ==
  [r \in DOMAIN Registrations |->
     IF Input(Registrations[r]) /\ link THEN level[Registrations[r]]
       ELSE image["EtherCAT"][r]]

(* The simulated hook adds its byteOffset to the entry's pointer, which has  *)
(* been advanced by the same offset: the i-th entry's wave goes to cell      *)
(* 2i - 1, in the image or past its end.  It is written when it turns.       *)
Turns(i) == Input(ChannelAt("Simulated", i)) /\ wave[i] # high[i]

SimTarget(i) == 2 * i - 1

SimGenerated ==
  [k \in Slots("Simulated") |->
     IF \E i \in Slots("Simulated") : SimTarget(i) = k /\ Turns(i)
       THEN wave[(k + 1) \div 2] ELSE image["Simulated"][k]]

(* Then it counts on: the waves of mapped channels all have one period, those*)
(* of the definitions file each its own, or none.                            *)
WavesAfter ==
  IF "Simulated" \notin config.backends THEN {wave}
  ELSE {[i \in Slots("Simulated") |-> wave[i] # (i \in turning)] :
          turning \in IF mapping = << >> THEN SUBSET Slots("Simulated")
                                         ELSE {{}, Slots("Simulated")}}

Sampled(tone) ==
  [b \in Backends |->
     IF b \in config.backends
       THEN [GPIO |-> GpioSampled(tone), Simulated |-> SimGenerated, EtherCAT |-> EthercatReceived][b]
       ELSE image[b]]

(* readAll(): the hook of a backend, then read() of each of its inputs.      *)
(* Documented for use after freeze(), as writeAll() is.                      *)
ReadAll ==
  /\ frozen
  /\ \E tone \in BOOLEAN : image' = Sampled(tone)
  /\ boolVal' = [b \in Backends |-> [i \in Cells(b) |->
       IF b \in config.backends \cap based /\ i \in Slots(b) /\ Input(ChannelAt(b, i))
         THEN image'[b][i] ELSE boolVal[b][i]]]
  /\ high' = IF "Simulated" \in config.backends
               THEN [i \in Slots("Simulated") |-> IF Turns(i) THEN wave[i] ELSE high[i]]
               ELSE high
  /\ wave' \in WavesAfter
  /\ UNCHANGED <<config, lifecycle, latched, level, link, desired>>

(* write() of each output... *)
Written ==
  [b \in Backends |-> [i \in Cells(b) |->
     IF b \in config.backends \cap based /\ i \in Slots(b) /\ ~Input(ChannelAt(b, i))
       THEN latched[b][i] ELSE image[b][i]]]

(* ... and onAfterWriteOutputs(): the terminals after it.  The EtherCAT      *)
(* domain goes out with every output registered in it.                       *)
Flushed(img) ==
  [c \in Terminals |->
     IF Input(c) THEN level[c]
     ELSE IF c \in Gpio /\ \E i \in config.held : mapping[i] = c
       THEN img["GPIO"][CHOOSE i \in config.held : mapping[i] = c]
     ELSE IF "EtherCAT" \in config.backends /\ link /\ \E r \in DOMAIN Registrations : Registrations[r] = c
       THEN img["EtherCAT"][CHOOSE r \in DOMAIN Registrations : Registrations[r] = c]
     ELSE level[c]]

(* Mistake: the outputs are flushed before they are written to the image. *)
WriteAllFlushedFirst ==
  /\ frozen
  /\ image' = Written
  /\ level' = Flushed(image)
  /\ UNCHANGED <<config, lifecycle, boolVal, latched, high, wave, link, desired>>

(* writeAll() *)
WriteAll ==
  /\ frozen
  /\ image' = Written
  /\ level' = Flushed(image')
  /\ UNCHANGED <<config, lifecycle, boolVal, latched, high, wave, link, desired>>

-------------------------------------------------------------------------------
(* The level at an input changes. *)
LevelChange(c) ==
  /\ Input(c)
  /\ level' = [level EXCEPT ![c] = ~@]
  /\ UNCHANGED <<config, lifecycle, values, wave, link, desired>>

(* EtherCAT frames get lost, or arrive again. *)
LinkChange ==
  /\ "EtherCAT" \in config.backends
  /\ link' = ~link
  /\ UNCHANGED <<config, lifecycle, values, wave, level, desired>>

Next ==
  \/ Freeze \/ Shutdown
  \/ \E u \in Names, v \in BOOLEAN : SetBool(u, v)
  \/ ReadAll \/ WriteAll
  \/ \E c \in Terminals : LevelChange(c)
  \/ LinkChange

Spec == Init /\ [][Next]_vars

-------------------------------------------------------------------------------
(* The channel has a terminal that this process reads or drives. *)
Attached(u) ==
  \/ \E i \in config.held : mapping[i] = u
  \/ u \in Ethercat /\ "EtherCAT" \in config.backends /\ link

Resolved == {u \in Names : uuidMap[u] # NoEntry}

Valued(f) == DOMAIN f = Backends /\ \A b \in Backends : f[b] \in [Cells(b) -> BOOLEAN]

TypeOK ==
  /\ state \in {"ACTIVE", "FROZEN", "SHUTDOWN"}
  /\ frozen \in BOOLEAN
  /\ mapping \in Mappings /\ config.backends \in Builds
  /\ config.held \subseteq Held(mapping, Gpio) /\ config.stub \in BOOLEAN
  /\ uuidMap \in [Names -> Entries \cup {NoEntry}]
  /\ moved \subseteq config.backends
  /\ based \subseteq Backends
  /\ Valued(image) /\ Valued(boolVal) /\ Valued(latched)
  /\ high \in [Slots("Simulated") -> BOOLEAN]
  /\ wave \in [Slots("Simulated") -> BOOLEAN]
  /\ level \in [Terminals -> BOOLEAN]
  /\ link \in BOOLEAN
  /\ desired \in [Names -> BOOLEAN]

(* A line is only held when it was the GPIO backend that requested it.       *)
HeldByGpio == config.held # {} => "GPIO" \in config.backends /\ ~config.stub

(* What is frozen has its entries based; before, nothing resolves and no     *)
(* output has been set.                                                      *)
BlankUntilFrozen ==
  /\ state = "ACTIVE" => ~frozen
  /\ frozen => based = Backends
  /\ ~frozen => Resolved = {} /\ latched = Blank /\ desired = [u \in Names |-> FALSE]

(* A uuid resolves to the first entry that has it, and an output's entry     *)
(* keeps what was last asked for through that uuid.                          *)
ResolvedFirst ==
  \A u \in Resolved :
    LET h == uuidMap[u] IN
    /\ UuidAt(h.backend, h.slot) = u
    /\ \A i \in Slots(h.backend) : UuidAt(h.backend, i) = u => h.slot <= i
    /\ latched[h.backend][h.slot] = desired[u]

(* The inductive invariant behind InputsTrue and OutputsTrue.                *)
RtInv == TypeOK /\ HeldByGpio /\ BlankUntilFrozen /\ ResolvedFirst

(* After readAll() the entry a channel's uuid resolves to has the level at   *)
(* the channel's terminal, also if the channel was mapped twice.             *)
InputsTrue ==
  [][ReadAll => \A u \in Resolved \ Outputs :
       Attached(u) => boolVal'[uuidMap[u].backend][uuidMap[u].slot] = level[u]]_vars

(* After writeAll() the terminal of a channel has what was last asked for    *)
(* through the pointer its uuid resolves to.                                 *)
OutputsTrue ==
  [][WriteAll => \A u \in Resolved \cap Outputs :
       Attached(u) => level'[u] = desired[u]]_vars

(* GettingStarted.md:161, "Resolve once after freeze() - these pointers      *)
(* remain valid until shutdown": none points to an entry that has moved.     *)
HandlesLive == \A u \in Resolved : uuidMap[u].backend \notin moved

(* GettingStarted.md:201, "Read an input value (populated by readAll())": a  *)
(* simulated input shows its wave after readAll().                           *)
WavesShown ==
  [][ReadAll => \A i \in Slots("Simulated") :
       "Simulated" \in config.backends /\ Input(ChannelAt("Simulated", i)) =>
         boolVal'["Simulated"][i] = wave[i]]_vars

(* EthercatRTBackend.h, build(): "If non-empty -> filter to only those       *)
(* UUIDs".  A mapped channel of the domain is found under its uuid.          *)
MappedResolves ==
  frozen /\ "EtherCAT" \in config.backends =>
    \A r \in DOMAIN Registrations :
      Registrations[r] \in Mapped => uuidMap[Registrations[r]] # NoEntry
===============================================================================
