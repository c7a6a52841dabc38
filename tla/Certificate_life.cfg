SPECIFICATION FairSpec
CONSTANTS
    c1 = c1  c2 = c2
    Absent = Absent  Torn = Torn
    Clients = {c1, c2}
    MaxCrashes = 4
    MaxDeletes = 3
CHECK_DEADLOCK FALSE
INVARIANTS TypeOK FingerprintIsStable ServedIsKept
PROPERTIES PinnedGetsBack
