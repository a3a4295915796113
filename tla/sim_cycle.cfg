SPECIFICATION Spec
CONSTANTS
  Definitions <- MCDefinitions
  FileCycles = {0, 500000000}
  MaxCycles = 5
  Requests = {0, 250000000, 500000000, 1000000000, 2000000000}
  MaxCount = 6
INVARIANT TypeOK
INVARIANT FieldsFollow
INVARIANT NeverStuck
PROPERTY TurnsInTime
