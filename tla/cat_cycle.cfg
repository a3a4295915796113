SPECIFICATION Spec
CONSTANTS
  gpio = gpio
  ecat = ecat
  sim = sim
  pinA = pinA
  pinB = pinB
  pdo = pdo
  wave = wave
  edited = edited
  uA = uA
  uB = uB
  uC = uC
  uD = uD
  BlankUuid = BlankUuid
  NoFile = NoFile
  TornFile = TornFile
  EtherCAT = ecat
  Uuids <- MCUuids
  Backends <- MCBackends
  Infos <- MCInfos
  Hash <- MCHash
  Devices <- MCDevices
  EcChannels <- MCEcChannels
  StoredFiles <- MCStoredFiles
INVARIANT EcReturnsOwn
PROPERTIES TableSpec PurgeMatchesReports TerritoryKept
