SPECIFICATION ChannelsSpec
CONSTANTS
  \* Autotrim
  LastChannel = 3
  Delay = 15
  DivideClocks = 1
  Period = 24
  RfLatest = 20
  ToneChoices <- AnyTones
  MaxMeasures = 6
  MaxSets = 1
  MaxChanges = 2
  \* RfTiles
  N = 4
  Ref = 2
  MaxFailures = 2
  \* SpiBoards
  Ami = {"a1", "a2"}
  Rpb = {"r1"}
  Steps = {0, 1, 2}
  MaxTimeouts = 1
  MaxRestarts = 1
INVARIANTS
  GainsAreOneSet SampleHasItsGains
  RestIsRight SyncLeavesNoTrace
  ReadingIsOwn CacheIsInForce
PROPERTIES
  PoweredInOrder
