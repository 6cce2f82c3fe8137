SPECIFICATION Spec
CONSTANTS
    s1 = s1
    p1 = p1
    Streams = {s1}
    Snapshots = {p1}
    MaxFrame = 2
    FrameSize <- MCFrameSize
    TEN_K = 1
    Spurious = TRUE
INVARIANTS
    TypeOK
    NoTornFrame
    CopyFits
PROPERTIES
    TimestampsMonotone
    ImplementsChannel
CHECK_DEADLOCK FALSE
