CONSTANTS
  ACQ_CAPACITY = 4
  MULTI_BEAT_LENGTH = 2
  FIFO_CAPACITY = 3
  PauseCycles = 1
  Requests <- SomeRequests
  ArmsWhileDraining = FALSE
  BusErrors = TRUE
  MaxArms = 1
  MaxWait = 5
SPECIFICATION Spec
INVARIANTS NoFullAfterError
