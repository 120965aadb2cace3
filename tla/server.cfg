CONSTANTS
  \* Tftp
  Settings <- AllSettings
  \* EpicsServer
  Kinds = {"set", "bad", "1", "100", "10000", "0"}
  Capacity = 2
  MaxCommands = 4
SPECIFICATION ServerSpec
INVARIANTS SuccessIsReal OnceInOrder RebootsInSequence
PROPERTIES SessionsEnd
CHECK_DEADLOCK FALSE
