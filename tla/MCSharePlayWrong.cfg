SPECIFICATION Spec
CONSTANTS
    e1 = e1
    e2 = e2
    e3 = e3
    Episodes = {e1, e2}
    NameOf <- TwoNames
    Nested = {}
    Leftovers = {}
    Calls = {c1}
    None = None
    MaxPlays = 3
    MaxTries = 2
INVARIANT PlaysSelected
