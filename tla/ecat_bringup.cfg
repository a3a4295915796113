SPECIFICATION FairSpec
CONSTANTS
  inTerminal = inTerminal
  outTerminal = outTerminal
  analog = analog
  digital = digital
  word = word
  Builders = {b1, b2}
  Free = Free
  BlankUuid = BlankUuid
  Slaves <- MCSlaves
  ProductOf <- MCProductOf
  Pdos <- MCPdos
  Bits <- MCBits
  OutputPdos = {word}
  Buses <- MCBuses
  CycleTimes = {0, 2000000000}
INVARIANT MasterAccounted
INVARIANT ChannelsBuilt
PROPERTIES CallsEnd
