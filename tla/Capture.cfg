CONSTANTS
    Streams = {s1, s2}
    None = None
    Quiet = 2
    Deadline = 3
    Limit = 2
    Lag = 1
    MaxFrames = 3
    Places = {0, 1}
    Sizes = {2, 3, 5}
    Scales <- MCScales
    MaxStreams = 2
    Pixels = {2, 3, 5, 7}
    LongEdge = 6
    Area = 20
SPECIFICATION MCSpec
INVARIANTS NothingLost NotStale PointerUnskewed ZoomShowsRegion
PROPERTIES UsesTheLast CaptureEnds
