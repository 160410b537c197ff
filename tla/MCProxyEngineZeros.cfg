SPECIFICATION Spec
CONSTANTS
    Ids = {movie}
    Sessions = {s1, s2}
    Streams = {p1}
    Chunks = {0}
    None = None
SYMMETRY Symmetric
INVARIANTS
    ReadsAreDownloads
