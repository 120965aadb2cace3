CONSTANTS
  Capacity = 5  BlockWords = 2  RetryLimit = 2
  AcqCounts <- SomeCounts
  Settings <- AllSettings
SPECIFICATION FairSpec
INVARIANTS NothingRecordedUnderTransfer PayloadIsTheRecording BlocksFollowRequests
PROPERTIES ImplementsOffers TransferEnds FilledIsDelivered
CHECK_DEADLOCK FALSE
