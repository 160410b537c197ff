SPECIFICATION FairSpec
CONSTANTS
    e1 = e1
    e2 = e2
    e3 = e3
    Episodes = {e1, e2, e3}
    NameOf <- Names
    Nested = {e3}
    Leftovers = {e1, e2}
    Calls = {c1, c2}
    None = None
    MaxPlays = 2
    MaxTries = 2
INVARIANTS SavedEpisodeIsPlayed FolderTidied
PROPERTIES OwnFileKept PlayEnds
