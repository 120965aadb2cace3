CONSTANTS
  \* RxAligner
  HoldTime = 1
  ResetTimeout = 7
  DelayTime = 2
  ConfirmTime = 4
  RxWrap = 16
  RxLatency = 2
  StaleTime = 3
  MaxErrors = 2
  \* CellLink
  Ends = {near, far}
  DownTime = 14
  ResetTime = 1
  WaitTime = 3
  Wrap = 20
  MaxLatency = 2
  TrainTime = 3
  MaxFaults = 2
  \* ForwardData
  a = a
  b = b
  c = c
  Values <- ThreeValues
SPECIFICATION LinksSpec
INVARIANTS  NothingLeftAsserted
PROPERTIES ReceiverRealigns CellLinkRecovers ImplementsMailbox
