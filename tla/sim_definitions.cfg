SPECIFICATION DefSpec
CONSTANTS
  u1 = u1
  Generated = Generated
  Missing = Missing
  Blank = Blank
  Unknown = Unknown
  NoFile = NoFile
  TornFile = TornFile
  Renamed = Renamed
  Uuids <- MCUuids
  TypeNames <- MCTypeNames
  MappedTypes <- MCMappedTypes
  MaxChannels = 2
  MaxMapped = 2
ACTION_CONSTRAINT WritesRead
INVARIANT DefinitionsInv
INVARIANT EntriesApart
INVARIANT CatalogServed
PROPERTY DeathExplained
