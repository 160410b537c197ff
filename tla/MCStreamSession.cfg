SPECIFICATION Spec
CONSTANTS
    ChunkSize = 4
    OpenEndedMax = 8
    StartupClamp = 2
    Modulus = 22
    Requests = {p1, p2, p3}
    Headers <- PlayerOrProbe
    Files <- ShortFiles
    ProbeMax = 3
    TailChunks = 1
    WindowChunks = 1
    PrefetchChunks = 1
    SeekThreshold = 2
    WarmupRequests = 1
    StableHits = 1
SYMMETRY Symmetric
INVARIANTS
    BodyIsRange
    StatsConsistent
    BufferedExact
    AbortedByOther
    RangeSupported
    SeekNeedsStability
    RangesInside
    IndexPrefetched
