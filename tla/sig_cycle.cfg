SPECIFICATION FairSpec
CONSTANTS
  Duration = 2
  Settle = 2
  MaxClock = 10
  MaxLag = 3
  LastEvent = 5
INVARIANT DebouncePrompt
PROPERTIES DebounceStable PulseLength PulseSeen PulseEnds LevelFollowed
