CONSTANTS
  Clients = {"ioc"}
  ChangeTime = 3
  ReportTime = 4
  SecondsWrap = 30
  WordModulus = 64
  BootTime = 4
  MaxTime = 40
SPECIFICATION IocSpec
INVARIANTS DuplicateIsReal
