SPECIFICATION Spec
CONSTANTS
    a = a  b = b  w1 = w1  w2 = w2
    Ips = {a}
    Workers = {w1, w2}
    CreateMax = 1
    JoinMax = 2
    Window = 3
    MaxDelay = 1
    MaxTime = 7
    MaxCount = 3
CHECK_DEADLOCK FALSE
SYMMETRY SymWorkers
INVARIANT AtMostTwice
