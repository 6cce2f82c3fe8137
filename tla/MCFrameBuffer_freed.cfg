SPECIFICATION Spec
CONSTANTS
    s1 = s1
    Streams = {s1}
    Snapshots = {}
    MaxFrame = 2
    FrameSize <- MCFrameSize
    TEN_K = 1
    Spurious = FALSE
INVARIANTS
    NoCopyFromFreed
CHECK_DEADLOCK FALSE
