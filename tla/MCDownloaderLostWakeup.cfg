SPECIFICATION FairSpec
CONSTANTS
    TotalChunks = 1
    Tasks = {t1}
    Callers = {p1}
    NoTask = NoTask
    UrgentPermits = 1
    BackgroundPermits = 1
    MaxRetries = 0
    WindowChunks = 1
PROPERTY WaitAnswered
