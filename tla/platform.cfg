SPECIFICATION PlatformSpec
CONSTANTS
  \* Iic
  Registers = {0, 1}
  MaxFailures = 1
  MaxCalls = 2
  MaxRestarts = 1
  Tries = 2
  \* Evr
  SinglePassEvents = {40, 122}
  Fractions = 2
  InitTimeout = 3
  MaxTicks = 7
  MaxCommands = 1
  \* Clocks
  Synthesizers <- Both
  MaxFaults = 1
  MaxRequests = 3
  \* Eyescan
  HPoints = 3
  VPoints = 2
  SyncPasses = 2
  BorderLength = 2
  \* Display
  Debounce = 1
  LongPress = 3
  EnableTime = 4
  Rows = 2
  MaxMessages = 2
  MaxWarnings = 3
  \* Settings
  Bpms = 2
  PerBpm = 4
  PerTile = 2
  MaxEvents = 2
  \* Tables
  LoBpms = {1}
  Uploadable <- Tried
  MinRows = 2
  Capacity = 4
  BuildRows = 2
  TableRestarts = 1
  MaxOps = 3
INVARIANTS
  AnswerIsOwn
  TimeIsAnInstant
  ReadsAreReadbacks ChipsAreRestored
  PointsAreOwn
  ScreenIsCurrent
   TablesAreWhole
PROPERTIES
  WritesReachTheirDevice
  ScanEnds
  ShownIsCommanded
CHECK_DEADLOCK FALSE
