SPECIFICATION Spec
CONSTANTS
    Fetchers = {f1, f2}
    Updates = 2
    MaxFetches = 2
    MaxRoutes = 2
INVARIANTS
    NothingStale
PROPERTIES
    BuiltOnce
