SPECIFICATION ConsoleSpec
CONSTANTS
    Files <- UploadFiles
    Boards <- BoardStates
    BlockLines = 3
    Words <- OffsetWords
    Clients = {1}
    LineSize = 2
    StartSize = 2
    UdpSize = 2
    LogSize = 3
    MaxInput = 3
    MaxRestarts = 1
    MaxUploads = 0
PROPERTIES OffsetShownIsInForce
CHECK_DEADLOCK FALSE
