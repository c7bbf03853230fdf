CONSTANTS
    None = None
    Procs = {p1, p2, p3}
    MaxSent = 2
SPECIFICATION FairSpec
INVARIANTS CreatorWaitsForProbe SentOnRecord
PROPERTIES SessionsOnlyGrow CreatorLocks
CHECK_DEADLOCK FALSE
