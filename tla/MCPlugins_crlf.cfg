SPECIFICATION PluginsSpec
CONSTANTS
    Components = {"extractor"}
    MaxPlugins = 2
    Digits = {0, 1, 2}
    Numbers <- MCNumbers
    MaxHeaders = 2
    IO_BUFFER = 2
    LineMax = 3
    StreamMax = 5
    TextMax = 5
    Sizes <- MCSizes
    Exceeds = {0, 2}
    MaxCreated = 5
    MaxClock = 2
    Shift = TRUE
    Takers = {"h1", "h2"}
    MaxPicture = 2
    PictureSize <- MCPictureSize
    Slack = 1
    ReallocFails = TRUE
    ZmqBufferSize = 2
    FrameSizes = {1, 3, 4}
    ZmqSlack = 1
    MaxFrames = 4
    Pictures <- MCPictures
    MaxPictures = 1
    MaxConnections = 1
    BUFFER_SIZE = 10
    CharSigned = TRUE
    Requesters = {"h1"}
    Resolutions = {1, 2}
    DvTimings = TRUE
    MaxChanges = 2
    MaxCommands = 1
    Parameters = {"brightness", "contrast"}
    FirstParameter = "brightness"
    UserClass = {"contrast"}
    Values = {1, 2, 9}
    ValuesInRange = {1, 2}
    PowerUp = 1
    MaxOptions = 2
    OptionNumbers <- MCOptionNumbers
    Refusable = {"sharpness", "awbMode", "rotation"}
    OptMaxArguments = 6
    LcBufferCount = 2
    LcMaxReads = 2
    LcMaxTriggers = 1
    LcMaxFaults = 1
    HcMaxConnections = 3
    HcAddresses = {"a", "b"}
    HcServers = 2
    HcMaxClock = 2
    HcMaxPictures = 2
    HcAllocFails = TRUE
    UcCameras <- MCCameras
    UcMaxFaults = 1
INVARIANTS
    OnlyDoubleCrlf
CHECK_DEADLOCK FALSE
