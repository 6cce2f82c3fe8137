SPECIFICATION LiveSpec
CONSTANTS
    Components = {"server", "take", "uvc", "settings", "raspicam", "libcamera"}
    MAX_SD_LEN = 2
    AddressNum = 3
    MaxConns = 3
    MaxThreadFaults = 1
    OneReady = TRUE
    Takers = {"h1"}
    MaxPicture = 2
    PictureSize <- MCPictureSize
    Slack = 1
    ReallocFails = TRUE
    Requesters = {"h1"}
    Resolutions = {1}
    DvTimings = TRUE
    MaxChanges = 2
    MaxCommands = 0
    Parameters = {"brightness", "contrast"}
    FirstParameter = "brightness"
    UserClass = {"contrast"}
    Values = {1, 2, 9}
    ValuesInRange = {1, 2}
    PowerUp = 1
    MaxOptions = 0
    OptionNumbers <- MCOptionNumbers
    Refusable = {"sharpness", "awbMode", "rotation"}
    RcBuffers = 3
    RcMaxChunks = 4
    RcMaxFaults = 1
    LcBufferCount = 2
    LcMaxReads = 2
    LcMaxTriggers = 0
    LcMaxFaults = 0
INVARIANTS
    ConnectionsOwned
    
PROPERTIES
    RequestsAnswered
    CamerasGoOn
CHECK_DEADLOCK FALSE
