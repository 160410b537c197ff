SPECIFICATION Spec
CONSTANTS
    TotalChunks = 2
    Tasks = {t1, t2}
    Callers = {p1, p2}
    NoTask = NoTask
    UrgentPermits = 1
    BackgroundPermits = 1
    MaxRetries = 1
    WindowChunks = 1
SYMMETRY Symmetry
VIEW Seen
INVARIANTS SingleDownload AnswerHasData CachedCountExact PermitsConserved
PROPERTIES NoFetchAfterShutdown ImplementsChunkStore ImplementsSlots
