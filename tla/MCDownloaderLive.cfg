SPECIFICATION FairSpec
CONSTANTS
    TotalChunks = 2
    Tasks = {t1, t2}
    Callers = {p1}
    NoTask = NoTask
    UrgentPermits = 1
    BackgroundPermits = 1
    MaxRetries = 0
    WindowChunks = 1
PROPERTIES SlotFreed ShutdownDrains
