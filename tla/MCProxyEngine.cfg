SPECIFICATION Spec
CONSTANTS
    Ids = {movie, show}
    Sessions = {s1, s2, s3}
    Streams = {p1}
    Chunks = {0}
    None = None
SYMMETRY Symmetric
INVARIANTS
    OneSession
    OrphansAreShut
    LiveSessionIntact
    FilesOwned
