SPECIFICATION Spec
CONSTANTS
    k1 = k1  k2 = k2
    Codes = {k1}
    MaxAge = 6
    Grace = 3
    MaxAttempts = 2
    SweepEvery = 2
    MaxTime = 10
    MaxRooms = 2
CHECK_DEADLOCK FALSE
INVARIANTS TypeOK AgeIsBounded EmptySessionsGo
PROPERTIES  EarlyReapIsBounded
