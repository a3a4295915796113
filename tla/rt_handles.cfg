SPECIFICATION Spec
CONSTANTS
  gIn = gIn
  gOut = gOut
  eIn = eIn
  eOut = eOut
  sIn = sIn
  sOut = sOut
  n1 = n1
  n2 = n2
  n3 = n3
  n4 = n4
  BlankUuid = BlankUuid
  NoEntry = NoEntry
  Gpio <- MCGpio
  Simulated <- MCSimulated
  Ethercat <- MCEthercat
  Outputs <- MCOutputs
  Names <- MCNames
  SimUuid <- MCSimUuid
  Definitions <- MCDefinitions
  Registrations <- MCRegistrations
  Builds <- HardwareBuilds
  Mappings <- MCMappings
INVARIANT HandlesLive
