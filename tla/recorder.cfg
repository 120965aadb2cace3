CONSTANTS
  ACQ_CAPACITY = 4
  MULTI_BEAT_LENGTH = 2
  FIFO_CAPACITY = 3
  PauseCycles = 1
  Requests <- SomeRequests
  ArmsWhileDraining = FALSE
  BusErrors = TRUE
  MaxArms = 2
  MaxWait = 4
SPECIFICATION FairSpec
INVARIANTS WindowRecorded BurstInRing
PROPERTIES ImplementsRecording FullDrains
