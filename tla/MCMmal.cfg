SPECIFICATION MmalSpec
CONSTANTS
    MaxHeaders = 3
    MaxRefs = 2
    QThreads = {t1, t2, t3}
    QBuffers = {b1, b2}
    PortBufferNum = 3
    TunnelBuffers = {b1, b2}
    MaxEvents = 1
    CompIds = {c1, c2}
    Refs = {r1, r2, r3}
    PortIds = {p1, p2}
    MaxCoreRefs = 4
    MaxWork = 3
    ListThreads = {t1, t2}
    MaxElement = 4
    MaxTime = 3
    ReqSlots = 2
    DiscontThreshold = 1
    DiscontDuration = 2
    UpdateThreshold = 1
    MaxJumps = 1
    MaxScales = 1
    ClockBuffers = 3
    Scales = {0, 1, 2}
    FirstScale = 1
    Formats = {f1, f2}
    ExtraDefault = 1
    ExtraMax = 3
    ExtraFaults = 1
    RationalMax = 4
    FixedOne = 8
    FixedMax = 31
    VcThreads = {t1, t2}
    MaxWaiters = 2
    MaxUseFaults = 1
    MaxQueued = 1
    VpBuffers = {b1, b2}
    VpBufferNum = 2
    MaxVcHandles = 2
    MaxVccFaults = 2
    PayloadThreads = {1, 2}
    ShmSlots = {1, 2}
    PayloadMax = 3
    CxBuffers = {b1, b2}
    MaxFormats = 2
    MaxFaults = 1
    GComponents = 3
    GPortNum = 2
    GConnMax = 2
    GListMax = 1
    GFormats = {0, 1}
    GraphFaults = 1
    WInBuffers = {i1}
    WOutBuffers = {o1, o2}
    WSemMax = 2
    CxOut <- MCCxOut
    CxIn <- MCCxIn
    CxMaxHolders = 2
INVARIANTS
    MmalTypeOK
    BuffersCounted
    PortKept
    ConnectionFlow
    ComponentKept
    ActionKept
    ClockKept
    
    
    
    UtilitiesRight
PROPERTIES
    ConnectionKept
CHECK_DEADLOCK FALSE
