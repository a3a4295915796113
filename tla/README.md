# A verification project for libdynamichardware

TLA+ modules that model the parts of libdynamichardware where order, failure
and concurrency decide whether it is right, TLC configurations that check them
on small instances, and TLAPS proofs of the results that matter most. Paths are
relative to the repository's root (`src/dynamichardware/...`,
`include/dynamichardware/...`).

To check: `tlc -config <run>.cfg <MC module>.tla` for a run of the table below,
`tlapm <module>Proofs.tla` for the proofs. `PROJECT.json` maps every definition
of the models to the lines it stands for.

## The system

The library finds hardware channels (GPIO lines, EtherCAT PDO entries, simulated
channels, I2C and SPI stubs), keeps them in a catalog that survives restarts, and
gives a real-time loop a flat set of entries to read and write.

| Component | State it keeps | Operations | What it touches |
|---|---|---|---|
| `HardwareCatalog` | entries, uuid index, discovery cycle (mode, participants, alive uuids), write lock; a JSON file | `load`, `save`, `beginDiscovery`, `markBackendParticipated`, `markAlive`, `addEntry`, `registerEcChannel`, `purgeStaleEntries`, `endDiscovery` | the file; called by the orchestrator, and through `catalog()` by the application |
| `DynamicHardwareBuilder`, `HardwareOrchestrator`, `PhaseManager` | phase, enabled backends, pending adapters, channel definitions | setters, `loadMappings`, `saveMappings`, `discover`, `buildRT` | the catalog, the scanners, the adapters, two files |
| `BackendRegistry` | names and factories | `registerBackend`, `getCreator` | filled before `main()` |
| GPIO scanner and adapter | requested lines, stub states | `scan`, `build(channels)` | the kernel's lines, which have one consumer at a time |
| Simulated scanner and adapter, `SimulatedDefinitionBuilder` | waves; a definitions file | `save`, `scan`, `build(channels)`, `loadDefinitions` | the file, which anyone may edit |
| Other scanners (EtherCAT, I2C, SPI) | none | `scan` | hardware |
| Runtime adapters | DHDOs (entries and image), lines, domain, simulation state | `build(channels)`, the two cycle hooks, `setCyclePeriod` | hardware; called by the registry |
| `HardwareRegistry`, context object | adapters, uuid map, frozen flag, state | `freeze`, `lookupByUuid`, `readAll`, `writeAll`, `shutdown` | the adapters' entries, to which the application holds pointers |
| `DHDOEntry`, `SignalProcess` | cached values, debounce and pulse machines, one cached timestamp | `read`, `write`, `getBool`, `setBool`, `signalProcessTickNow` | the image; the application |
| `VectorBuffer` | ring storage, two atomic indices | `tryPush`, `tryPop`, `drain` | the RT thread and one consumer thread |
| `DHDOFactory` | none | names of types, and back | the mapping file |
| `discover` tool | none that lasts | a command line over the builder, `--gen-simdefs` | the same files, as another program |

The builder's calls run on one thread before the loop starts. The only
concurrency the library is written for is the ring (one producer, one consumer)
and, by its documentation, `setCyclePeriod()` in mid-flight. Builders of one
process share the one EtherCAT master of the kernel. What interleaves with
everything else is the outside: the process may die between any two steps, files
may be cut off, scanners may throw, lines may be taken, slaves come and go, frames
may be lost, levels change when they like, and a cycle takes as long as it takes.

What is hard, and what makes each part correct:

- **VectorBuffer**: two threads, unsynchronised slots, one slot kept free, a mask.
  Nothing repeated, reordered or raced on; everything delivered, but for what a wrapped
  drain passes over.
- **HardwareCatalog**: an index of positions through insertions, compactions and
  reloads; a purge decided by two sets that several calls fill; a file truncated
  before it is written. Index and entries agree; a purge removes what was not
  reported, of the backends that took part, and nothing else.
- **HardwareOrchestrator**: a loop of calls out of which any scanner may throw, and
  an application that tries again. What is written is what was found; what is gone is
  not offered to the adapters; what other backends had stays.
- **RtContext** (registry, DHDOs, adapters): pointers into vectors, images that are
  owned by different parties, duplicates in a mapping, hooks and sweeps in an
  order. A terminal and the entry its uuid resolves to have the same value, in both
  directions.
- **EthercatBus**: a bring-up of many steps that may each fail, on a bus that may
  have changed since the scan, with a resource that is granted to one at a time. It
  is given back wherever a step fails; what is built is what was read and mapped; every
  call ends.
- **SimulatedWaves**: a setter that writes the fields which the hook of the cycle is
  reading. The fields belong to the period that is reported, and no interleaving
  leaves a wave stuck or out of step for good.
- **GpioChannels** (scanner, adapter, mapping file, type names): several programs on
  one catalog, lines that others take and return, definitions that go through a file by
  the names of their types. No pin is driven that was only meant to be read; a mapping
  outlives the absence of its line.
- **SimulatedDefinitions**: one file, read at two times by two copies of one table, with
  defaults of their own, while it may be written. Catalog and entries agree where the
  defaults do; the process outlives what `scan()` would have refused; entries do not share
  bytes.
- **SignalProcess**: one timestamp for all machines of a cycle. A value changes when
  and only when it has settled; a pulse has its length, is seen, and ends.

`PROJECT.json` lists each hazard at its line with the properties that would catch
it going wrong.

## The modules

| Module | Models | Composition |
|---|---|---|
| `SpscQueue` | the atomic bounded queue: what the ring promises | abstract |
| `VectorBuffer` | the ring, one step per access the other thread can observe | implements `SpscQueue` by `QueueSpec` |
| `ChannelTable` | what the catalog promises: a table of channels by uuid, without positions, purges that spare who took no part, a file with that table | abstract |
| `HardwareCatalog` | the catalog, one action per call, `save` in two, process death | implements `ChannelTable` by `TableSpec`; used by the next |
| `HardwareOrchestrator` | builder, phases, `discover()` split at each catalog call and file step, `buildRT()`, restarts | has the variables of a catalog (`Catalog == INSTANCE HardwareCatalog`), and its actions are built from those of it |
| `RtContext` | `build(channels)` of three adapters, `freeze`, lookups, `readAll`, `setBool`, `writeAll` | starts where `BuildRT` ends |
| `EthercatBus` | `scan()` and `build()` of the EtherCAT backend with each failing step, the wait, the cycles, the destructor; several builders, one master | from discovery to the entries that `RtContext` starts with |
| `SimulatedWaves` | the wave hook of the simulated backend and `setCyclePeriod()` in another thread | the levels that `RtContext` leaves open |
| `EntryTypes` | the type mask, its names and the way back, the bytes an entry touches | used by the next two |
| `GpioChannels` | scan, catalog and mapping file, requests and returns of lines, over the lives of several programs | the GPIO side of `HardwareOrchestrator`, with a real `scan()`, and what `RtContext` starts from |
| `SimulatedDefinitions` | the definitions file from `save()` to `scan()` and to the entries | the simulated side of both |
| `SignalProcess` | both machines and the loop that drives them | refines the `setBool`/`write` and `read` of one entry |

`MC...` modules give the constants small values; `...Proofs` hold the theorems.

### Correspondence

- *VectorBuffer.* `PushFull`, `PushBegin`, `PushStore`, `PushPublish` are the four
  points of `tryPush`; `TakeEmpty`, `PopBegin`, `DrainBegin`, `TakeRead`,
  `TakePublish` those of `tryPop` and `drain`. A thread's own index needs no step; the
  release store and acquire load of the other's order the slot accesses, which is why
  interleaving the steps is enough. `pushed` and `taken` are histories. `drain()` makes
  one contiguous span: an element past the end of the storage reads as `OutOfStorage`.
  The abstract queue allows that of a suffix of a batch (`Unreadable`), and of nothing
  else: an item is taken exactly once and in its turn, and a single one always is
  what was pushed. `AllDelivered` says that the turn of every item comes, and that it is
  handed over then unless a wrapped drain passes over it (`PassedOver`: never in the first
  lap, never the last two slots).
- *HardwareCatalog.* An entry is its uuid, its backend and an `info` that stands for
  everything else. `Hash` is `makeUuidFromBackend`, which need not be injective.
  `uuidIndex[u] = 0` means absent. `reported` and `reloaded` are histories, `returned`
  is what `registerEcChannel` gave back. In `ChannelTable` there are no positions and no
  order: a uuid has at most one channel. `Lookup` and `Stored` are the mapping, a lookup
  by uuid in memory and in the file. So `TableSpec` says that the index always finds the
  entry that was last put under its uuid, through compactions and reloads.
- *HardwareOrchestrator.* `pc` says where `discover()` is. `ScanThrows` leaves it with
  whatever it had done; the builder lives on. `Restart` is a new process on the same
  files. `durable` is the last catalog written in full, `cut` says that a `save()` has
  been cut off since. `GoneNotOffered` is about the one call that looks at definitions and
  catalog together: a definition may come from the mapping file and its device may be gone,
  and it is the purge of an earlier call, on sets that must be those of this cycle, that
  keeps it from the adapters. Backends come in the order of an `unordered_map`: any. Both paths
  are taken to be set; a catalog dump that throws has the effect of `SaveLost`.
- *RtContext.* `config` is what `buildRT()` had: the mapping, the backends that built,
  the lines that could be requested, stub mode. An entry is a backend and a position
  (`Slots`), with the channel and the uuid it has there (`ChannelAt`, `UuidAt`) and its
  cell in an image (`Cells`). `moved` has the backends whose vectors `freeze()`
  reallocated: with libstdc++, where `push_back` doubles the capacity and
  `shrink_to_fit` reallocates unless the vector is full. A pointer into a moved
  vector is never followed in the model. The wave of a simulated input is the level its
  hook computes; how long it lasts is left open. Channel types agree with the catalog.
- *EthercatBus.* `pc[b]` says where builder `b` is; `holds[b]` is the object of it
  whose `master_` is not null, `reserved` is what the kernel thinks. `WalkSlave` reads
  one position of the bus and is a step because the bus may change between two
  positions. A key has what `buildEntryKey()` makes the uuid from: the product, the
  position, the PDO entry. `read[b]` is the result of `scan()`, or `regs_`.
  `BuildFails` is every return from `buildRT()` before the wait: each gives the master back.
  `Typed` is what `build()` has read and has a type for, `Wanted` what the filter leaves of
  it; `ChannelsBuilt` compares the entries with that, uuid by uuid.
  `WaitTraps` is the division by zero, which ends the process.
- *SimulatedWaves.* The hook looks at a square wave in three steps (`HookBegin`,
  `HookCompare`, `HookCount`) as it loads the fields of the channel three times; the
  setter computes first and then writes one field at a time, in the order the compiler
  likes (`SetField`). A phase counts in parts of 10^-9 of a turn.
  `CyclesOf` is the conversion of a count of cycles to `uint32_t`, with `MaxCycles` for its
  largest value: what a compiler makes of a larger one, or of the infinite one that a cycle
  time of zero gives, is any value. The rounding of `HighOf` in floating point, which
  differs for counts above 2^24, is left out. `tick`, `isHigh`,
  `intValue` and `phase` belong to the hook alone.
- *EntryTypes.* A type is a record of the fields of the mask; a name is that of a
  well-known type, or composed. `BeginsInput` is the comparison of `stringToEntryType()`,
  which ends with the shorter name.
- *GpioChannels.* Programs (`Apps`) run one builder after another on the same files.
  `stage[p]` is how far; `DiscoverScan` goes to the end of the purge, `DiscoverSave` is the
  rest of `discover()`, with a choice for each file as it may not open. A line is its uuid.
  `buildRT()` is one request per definition (`LineGranted`, `LineRefused`) between
  `BuildBegin` and `BuildEnd`, and lines may be taken and returned between any two of them.
  A chip that cannot be opened yields an empty scan, and a `BuildEnd` without requests.
  `asked` is a history of what was mapped as what, `contested` one of the lines of a program
  that someone else had at any time of its `buildRT()`. Torn files and exceptions are in
  `HardwareOrchestrator`, and not again here.
- *SimulatedDefinitions.* `SaveOpen` truncates, `SaveWrite` writes any file there can be:
  the builder, the discover tool and an editor are one writer. `Discover` is `discover()`
  with this one backend; `BuildMapped` and `BuildFromFile` are the two ways of
  `build(channels)`. A type name is an entry type, as `Resolved` tells those that the tables
  know from the others. A file has its channels as an array, as an object (which only
  `scan()` goes into) or in the older format, and may have a value of the wrong type where
  only one reader looks: `Unscannable` and `Unloadable` are the exceptions of the two.
  `Identified` and `Defaulted` are what the two make of a channel without a uuid; `Blank` is
  an empty one. `stale` is a history: the file was touched since it was scanned.
- *SignalProcess.* `step` is the application's loop: tick, read, process, write.
  `clock` runs by itself, also within a cycle; `nowNs` is the cached timestamp.

## Runs

| Run | Module | Shows | Bounds |
|---|---|---|---|
| `vb_ring` | `MCVectorBuffer` | `tryPush`, `tryPop` and `drain` in any order: race free, implements `SpscQueue`, each item delivered in its turn; only what lies past the storage is not | capacity 4, 2 values, 7 pushes: the indices wrap and the ring is full and empty at every offset |
| `cat_cycle` | `MCHardwareCatalog` | the catalog implements the table of channels by uuid; what a registration returns, exact purges, territories | 3 backends with one channel each, one of them edited by hand, an absent and a torn file: every call sequence, as the state is finite |
| `orch_faults` | `MCHardwareOrchestrator` | `discover()` under throwing scanners, cut and lost writes, retries, restarts: adapters, what is written, what is offered, what stays | a backend with two pins of which some may be gone, one that may throw, one that is not registered; one channel definition |
| `rt_cycle` | `MCRtContext` | levels go from terminals to entries and back, whatever was mapped | 2 channels per backend, 5 mappings (none, all of the domain, lines twice, odd sizes), GPIO with EtherCAT or simulated alone |
| `rt_handles` | `MCRtContext` | *violated*: pointers to entries that `freeze()` has moved | the same, hardware backends |
| `rt_waves` | `MCRtContext` | *violated*: a simulated input that does not show its wave | the same |
| `rt_ecat_filter` | `MCRtContext` | *violated*: a mapping of the whole domain leaves no entry with a uuid | the same, hardware backends |
| `sig_cycle` | `MCSignalProcess` | debounce and pulse, with cycles of any length | durations of 2 units, cycles of up to 3, events up to time 5, a clock that runs to 10 so that their consequences are over before it stops |
| `ecat_bringup` | `MCEthercatBus` | the master is accounted for wherever a step fails, the channels are those read and mapped with the uuids they should have, every call ends | 2 builders, 2 terminals of different products, one with two channels so that a filter drops some and keeps others, 3 buses (empty, both, one in the other's place), no `cycleNs` or one of 2 s, for which the wait is 2 cycles |
| `sim_cycle` | `MCSimulatedWaves` | `setCyclePeriod()` between any two steps of the hook: fields and period agree, no wave is stuck, each turns in time | 5 channels, one of each kind and a square wave without a period; cycles of 0.5 s and 1 s, for which a period is 4 or 2 cycles, or one less as the code rounds; cycles of 0.25 s and of no length, for which it is more than a field holds (5); the histories count to 6 |
| `gpio_restart` | `MCGpioChannels` | lines and mappings over restarts: no input is ever driven, the first definition decides unless someone else has the line, mappings outlive purges | 2 lines, an application and a program without mappings, 2 definitions; the types are one that comes back from the mapping file as it was and one that does not; states that differ only in what nothing looks at any more (a catalog that has been saved, a context's definitions of lines it did not get) are one (`VIEW Seen`) |
| `sim_definitions` | `MCSimulatedDefinitions` | the two readings of a definitions file agree unless it was written to in between; the process ends only as explained; entries do not overlap | a uuid, the generated one, none and an empty one; every file of up to 2 channels in three forms, with and without a value of the wrong type, of types of 1 and 2 bytes and one unknown to the tables; 2 mapped channels; no writes between `buildRT()` and the restart (`ACTION_CONSTRAINT WritesRead`), as nothing reads the file then and a write after the restart is the same |

The bounds are constants: `MaxPushes` (accepted pushes), `MaxDefs` (channel
definitions), `MaxAsked` (lines with a type ever mapped), `MaxChannels` (of a file),
`MaxMapped` (mapped channels), `MaxCycles` (the width of a field, scaled down), `MaxCount` (history counters, which saturate), `MaxClock`, `MaxLag` and
`LastEvent` (time). Cycle times are chosen so that the counts the code derives from them
are small; what is done with them does not depend on their size. Deadlock is checked
in every run.

Each property of a passing run has a mutant: a definition marked as a mistake in the
module, which is the code with a bug someone could introduce and with which TLC finds
the property violated.

### Fairness

- `VectorBuffer`: a push or a take that has begun is finished, and a consumer that
  finds elements takes them (`WF`). Nothing obliges anyone to push. Both calls are wait
  free, and polling the ring is what the consumer thread is for.
- `HardwareOrchestrator`: `discover()`, once called, runs on (`WF` of its steps); a
  crash is still possible at any of them. It is a straight call without waits.
- `EthercatBus`: a call that has begun runs on (`WF` of the steps of each builder),
  whatever the bus and the other builders do. No step waits for anything but time:
  `waitForCommunication()` counts its cycles, and a master that is taken is refused, not
  waited for.
- `HardwareCatalog`, `RtContext`, `SimulatedWaves`, `GpioChannels`,
  `SimulatedDefinitions`: none; their properties are about safety.
- `SignalProcess`: the clock runs and the loop goes on (`WF`).

## What is proved

For every value of the constants that satisfies the named assumptions:

- `VectorBufferProofs`: `RingInvariant`, and from it `TypeCorrect`, `ElementsConserved`,
  `RaceFreedom`, `DeliveryInOrder` and `PopIsFifo` (when only `tryPop` is used, the n-th
  item out is the n-th in). `Conserved` is not inductive: a push in progress must still
  have its slot (`ProducerInv`), and a take in progress must cover a prefix of what is
  published (`ConsumerInv`). The arithmetic of the ring is in `MaskedNext` and
  `MaskedDistance`. `RingImplementsQueue` is the refinement: the queue is the sequence
  of published slots (`Published`), a push takes effect when it is published, a take
  when it gives its slots back. It needs to know more of what a take has read than that
  each element may be right: `StepInv` says which are read from the storage, and that
  nobody writes there meanwhile.
- `HardwareCatalogProofs`: `CatalogInvariant`, `IndexAlwaysCoherent`,
  `RegisteredReturned`, `PurgeExact`, `TerritoryIsolated`, `TableImplemented`.
  Rebuilding an index is only right for entries with distinct uuids, so the invariant
  also speaks of the file, and of an alive set that equals what was reported.
  `TerritoryIsolated` assumes that no two backends share a uuid; the theorems assume
  that an installed file was written by this program. `TableImplemented` is the
  refinement of `ChannelTable`. With a coherent index and distinct uuids, `LookupIs`
  reads an entry of the table off any position that has its uuid; `PutLookup` and
  `CompactLookup` say what an insertion and a compaction do to the table, and each
  catalog call is then a step of it or none.
- `HardwareOrchestratorProofs`: each action is one catalog call or none. The module has the catalog's proofs as an instance (`Proved
  == INSTANCE HardwareCatalogProofs`), so the catalog's theorems hold behind the
  orchestrator; what the instance assumes of the constants is `CatalogAssumption`.
  `OrchestratorInvariant` adds where `discover()` is to that, and from it follow
  `OrchestratorTyped`, `NoAdapterMissed`, `GoneNeverOffered` and
  `WrittenIsScanned`, all for installed files that this program wrote (`WellFormed`).
  `TerritoryDurable` also needs that no two backends share a uuid, as
  `TerritoryIsolated` does. `OrchestratorKeepsTable` puts the two refinements together:
  what `discover()`, its retries and the restarts do to the catalog is what
  `ChannelTable` allows. `DiscoverComesNearer` is the variant of `discover()`: every
  step of it lowers what is ahead, and no other step raises it.
- `GpioChannelsProofs`: `GpioInvariant`, `InputsNeverDriven`, `FirstMappingHolds`,
  `MappingsSurvive`. That no input is driven is only inductive with what the *names* in
  the mapping file descend from (`FileDescends`), and with the fact that a reload makes
  an output of nothing that is not one, and that a second reload changes nothing
  (`Reload`). `FirstMappingHolds` goes through `buildRT()` request by request: of a line that
  is not contested, the first request was granted if it is behind, and no one has it if it
  is ahead. `MappingsSurvive` assumes one program that maps: of two with one mapping
  path, each overwrites what the other saved after it loaded.
- `RtContextProofs`: `RtInvariant`, `InputsReadTrue`, `OutputsWrittenTrue`. The
  invariant needs that a uuid resolves to the *first* entry that has it
  (`ResolvedFirst`, from `emplace`), because the line of a channel mapped twice is held
  by the first; that two backends never have one uuid (`OneBackend`, from the
  assumptions on uuids); and that what is frozen is based. The step from "the channel
  has a terminal" to "its entry is the one with the line" is `AttachedEntry`.
- `SignalProcessProofs`: `TypeCorrect`, `SettlesPromptly`, `ChangesWhenStable`,
  `PulsesLast`, `PulsesReachThePin`, for every duration, settling time and clock. The
  invariant ties the machines' timestamps to the histories.
- `EthercatBusProofs`: `BusInvariant`, `MasterIsAccounted`, `ChannelsAreBuilt` and
  `CallsComeNearer`, for any number of builders, slaves and buses.
  `ChannelsBuilt` speaks of an adapter that is up; that the filter finds what was
  registered is `EntriesWhileWaiting`, which holds from `buildEntries()` to the end of
  the wait. `MasterAccounted` needs no strengthening but the types: two builders cannot
  both hold what has one owner. `CallsComeNearer` is the variant of `scan()` and
  `build()`: each step of a call lowers the stages ahead or the rounds left of the loop
  it is in, and neither the bus nor another builder raises them.
- `SimulatedBackendProofs`, the waves: `FieldsInvariant`, `FieldsFollowPeriod`,
  `WavesTyped`, `NoWaveStuck`, `WavesTurnInTime`, for every file of definitions. While
  the setter is at a channel, each of its fields is the old one or the one computed; the
  invariant says which by `setLeft`.
- `SimulatedBackendProofs`, the definitions file (whose specification is named
  `DefSpec`, as both halves of the backend are in one module of proofs):
  `ReadingsInvariant`, `DefinitionsTyped`, `DeathIsExplained`, `EntriesLieApart`,
  `ReadingsAgree`, for every file and every mapping. The bytes before a channel are a recursive function of its
  position, and the listing of the mapped channels is one of how many there are. What
  they are at every position is shown by the smallest position at which it is not so
  (`LeastNatural`, from the library's fact that every nonempty set of naturals has a
  minimal element), which needs no operator for a parameter; `PositionRecursion` gives
  the functions their equations. `LayoutGrows` then says that the bytes before a channel
  end before those of the next. `CallsKept` is what ties the adapter and the scanned
  file to the program that has them.

Model-checked only: liveness (`AllDelivered`, `DiscoverReturns`, `PulseEnds`,
`LevelFollowed`, `CallsEnd`), which needs fairness and is out of the prover's reach; of
`DiscoverReturns` and `CallsEnd` the half that is about single steps is proved, as the
variants above, and TLC adds that a call always has a next step. Every safety property of
a passing run is a theorem. The other way round, some inductive invariants, and what
follows from a property that a run has (`InOrder` from `QueueSpec`) or is needed for it
(`IndexCoherent` for `TableSpec`), are proved and not run again.

## Where the code and what is said of it differ

Shown by the violated runs above:

1. `HardwareRegistry.cpp:39`: the uuid map is built before the vectors it points into
   are shrunk.
2. `SimulatedRTBackend.cpp:374`: the byte offset is added twice.
3. `EthercatRTBackend.cpp:469`: a filter that keeps everything leaves moved-from uuids.

Noted while modelling, and without a run of their own:

- `VectorBuffer.h:86`: `drain()` makes one span, which runs past the storage when the
  elements wrap; `tests/test_vector_buffer.cpp:117` drains a ring that never has. The elements past
  it are replaced by what lies there and never handed over; `QueueSpec` and `AllDelivered`
  allow that there and nowhere else.
- `EthercatRTBackend.cpp:315`: the cycle time of an adapter without a `cycleNs` key is not
  initialised, although `EthercatRTBackend.h:103` and `doc/GettingStarted.md:77` promise a
  millisecond, and the wait for the slaves divides by it (`WaitTraps`).
- `saveMappings()` writes types by name, and `stringToEntryType()` does not know them
  all: `Int8Input`, `Int8Output`, `Int32Output` and most composed types come back as
  `BoolInput`, so an output may become an input (never the reverse: `NeverDriven`).
- A GPIO line in use while a scan runs, also by this library, is purged from the catalog;
  it is offered again only after a scan that finds it free.
- `GPIORTBackend.cpp:224`: a line that is mapped twice is requested twice. If someone else
  has it at the first request and not at the second, it has the direction of the second
  definition, and the entry that its uuid resolves to, the first, has no line.
- A `buildRT()` after a `discover()` that threw may offer the adapters channels that are
  gone: the purge has not come. `GoneNotOffered` speaks of completed calls.
- `SimulatedDefinitionBuilder.cpp:159` and `tools/discover.cpp:367` write the parameters of
  a channel under `sim`; `loadDefinitions()` reads `simParams` only
  (`SimulatedRTBackend.cpp:164`), so the waves have their defaults.
- `tools/discover.cpp:262` passes the path as `definitions`; scanner and adapter read
  `definitionsPath`.
- `--gen-simdefs` of a real catalog writes names like `DigitalInput`, for which the simulated
  tables have nothing: entries of type 0, neither input nor output.
- `build(channels)` of the simulated adapter lays out one byte for each mapped channel:
  numeric ones overlap, and the last one is past the image. `EntriesApart` speaks of
  Boolean mappings and of files.
- Files with `entries` for `channels` are built and not scanned, so their channels cannot be
  mapped; `channels` in an object are scanned and not built. `CatalogServed` speaks of
  arrays.
- A channel without a uuid is in the catalog under a generated one, the same for all of
  them, and has an entry "SIM|unknown" (`SimulatedRTBackend.cpp:153`) that no catalog uuid
  finds.
- A definitions file that is torn when `buildRT()` reads it throws out of a `noexcept`
  function, and the process ends; `discover()` reports it. So does a `cycleTimeUs` or a
  simulation parameter of the wrong type (`SimulatedRTBackend.cpp:141`, `:167`), which
  `scan()` does not read: the file is listed, and ends the process each time.
- `SimulatedRTBackend.cpp:323`: a cycle time of zero, which a file may give, divides by zero
  in floating point, and the number of cycles is what the conversion makes of infinity.
- The uuid of an EtherCAT channel names a product and a position, not a terminal: another
  terminal of the same product there is taken for the mapped one.
- `HardwareCatalog.cpp:458`: `registerEcChannel()` on a write-locked catalog returns
  `entries_[0]` for any channel (`RegisterEcLocked`).
- `HardwareCatalog.cpp:288`: the catalog file is truncated before it is written. A crash
  in between costs the entries of backends that did not scan, too;
  `TerritoryDurableUncut` is what remains true.
- `SimulatedRTBackend::build(channels)` gives its own channels their wave once;
  `setCyclePeriod()` does not reach them. Only those of a definitions file follow it.
- A wave of more than one turn to a cycle lets the phase grow, as the hook takes off one
  turn at a time.
- A slave that cannot be read in a scan loses its channels to the purge, and the uuid of
  an EtherCAT channel names a position on the bus, not a terminal: terminals that change
  places change channels.
- `EthercatDiscovery::configure()` reads numbers with `std::stoul` and throws out of
  `discover()`; the adapter's `configure()` catches.
- `load()`, `beginDiscovery()` and `purgeStaleEntries()` change a write-locked catalog.
- Entries of an older file format come without a uuid (`from_json`), and the index
  then has one entry for all of them.
- A simulated channel whose hand-written uuid equals that of another backend's channel
  takes over its entry.
- A backend whose scan finds nothing does not take part in the purge and keeps all its
  entries, although `HardwareOrchestrator.cpp:193` says that unreported entries go.
- `buildRT()` without `discover()` steps through the phases itself and is not refused.
- `discover()` saves the mappings there are when it ends; what is mapped later never is.
  `loadMappings()` appends to the definitions there are.
- `README.md:78` maps channels by a readable key; `findByUuid()` finds uuids only.
- The simulated adapter makes an entry of *every* mapped channel, whatever its
  backend, and renames it "Simulated|n". If only other backends' channels are mapped, the
  EtherCAT adapter drops all its entries.
- `setBool(true)` in the cycle in which a running pulse expires has no effect: `arm()`
  ignores it as the pulse still counts as active.
- Pulse and debounce stand still unless the application calls
  `signalProcessTickNow()`, which the loop of `doc/GettingStarted.md` leaves out. For
  EtherCAT they are configured only through `setConfig()`, which the orchestrator does
  not call.
- `shutdown()` sets the state; `readAll()` and `writeAll()` go on to work.
- `catalog()` of the builder is empty after `buildRT()`, which moves it into the
  context. `lookupByName()` finds the last of several entries with one name.
- `getCandidates()` tests masks for overlap, so the direction bit alone lets every input
  type through, and it knows no EtherCAT type name ("DigitalInput", "Encoder").

## Not modelled

- `BackendRegistry` and the I2C and SPI scanners are stateless: the models take what they
  may return as constants. So are the pin tables and the board detection.
- The command line, probes and listings of the `discover` tool; the examples.
- Values of numeric channels (their bytes are in `EntryTypes`), names, `getCandidates()`,
  health queries. The one-message slot of an entry is overwritten by whoever comes next,
  but nothing in the library produces or consumes a message.
- Of the EtherCAT backend: distributed clocks, and what `setConfig()` adds. Of the
  simulated one: amplitude, offset, channels without bounds.
- `PhaseManager::resetToDiscovery()`, which nothing calls.
- I2C and SPI runtime adapters: stubs. `EcatIoChain.cpp` is not built.
- `thirdparty/nlohmann/json.hpp`, which is three quarters of the repository's lines and not
  this project's code; the models have what a parse yields, or that it throws. Counted
  over everything the map covers less than a tenth; without that header it is
  about a third, the rest being mostly tests of preconditions, log lines, tables,
  declarations and the parts named here.
- What undefined behaviour would do: the models show that it is reached, not what
  comes of it.

## Plan

Done: `SpscQueue` and `VectorBuffer`; `HardwareCatalog`; `HardwareOrchestrator` over
it; `SignalProcess`; `RtContext`; `EthercatBus`; `SimulatedWaves`; `EntryTypes` with
`GpioChannels` and `SimulatedDefinitions`; `ChannelTable`; the proofs of all of them.

Next, in this order:

1. The whole cycle: `RtContext` with the machines of `SignalProcess` in its entries, and
   numeric channels with the widths and signs of their cells.
2. Two programs that share a mapping path, with the overwritten mappings this leads to.
3. The candidate queries against the type names of each scanner.
4. The refinement of `HardwareOrchestrator` by `RtContext`: that every `config` the
   latter starts from is one that `BuildRT` can leave, and the other way round.
