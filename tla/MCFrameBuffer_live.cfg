SPECIFICATION FairSpec
CONSTANTS
    s1 = s1
    p1 = p1
    Streams = {s1}
    Snapshots = {p1}
    MaxFrame = 2
    FrameSize <- MCFrameSize
    TEN_K = 1
    Spurious = FALSE
INVARIANTS
    CopiesFreshFrame
PROPERTIES
    WaitersServed
CHECK_DEADLOCK FALSE
