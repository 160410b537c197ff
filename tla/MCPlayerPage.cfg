SPECIFICATION Spec
CONSTANTS
    Episodes = {e1, e2}
    Variants = {"raw", "low"}
    Plays = {p1, p2}
    Switches = {w}
    Recovery = recovery
    None = None
    MaxStarts = 3
SYMMETRY Symmetric
INVARIANTS
    
    OldSessionClosed
    
    SpinnerHasCause
    NothingLeft
