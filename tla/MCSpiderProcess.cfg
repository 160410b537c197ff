\* Every call is made once: in the end nothing is left to do.
CHECK_DEADLOCK FALSE
SPECIFICATION FairSpec
CONSTANTS
    Calls = {c1, c2, c3, destroy}
    Destroy = destroy
    MaxStarts = 3
INVARIANTS PendingAreWaiting OneProcess
PROPERTIES ExitFailsItsCalls DisposeKillsRunning CallEnds
