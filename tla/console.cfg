SPECIFICATION ConsoleSpec
CONSTANTS
    Files <- UploadFiles
    Boards <- BoardStates
    BlockLines = 3
    Words <- ConsoleWords
    Clients = {1}
    LineSize = 2
    StartSize = 2
    UdpSize = 2
    LogSize = 3
    MaxInput = 3
    MaxRestarts = 1
    MaxUploads = 1
PROPERTIES   ShownBeforeStored
CHECK_DEADLOCK FALSE
