SPECIFICATION FairSpec
CONSTANTS
  gpio = gpio
  ecat = ecat
  sim = sim
  pinA = pinA
  pinB = pinB
  wave = wave
  uA = uA
  uB = uB
  uC = uC
  BlankUuid = BlankUuid
  NoFile = NoFile
  TornFile = TornFile
  NoContext = NoContext
  EtherCAT = ecat
  Uuids <- MCUuids
  Backends <- MCBackends
  Infos <- MCInfos
  Hash <- MCHash
  Devices <- MCDevices
  EcChannels = {}
  StoredFiles = {NoFile, TornFile}
  Registered = {gpio, sim}
  Scans <- MCScans
  Throwing = {sim}
  UserEntries <- MCUserEntries
  MapUuids = {uA}
  Faults = {"crashInSave", "writeLost"}
  MaxDefs = 1
INVARIANTS EveryAdapterPending GoneNotOffered
PROPERTIES WrittenMatchesScans DiscoverReturns TerritoryDurableUncut
