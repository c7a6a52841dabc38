SPECIFICATION Spec
CONSTANTS
    c1 = c1  c2 = c2  c3 = c3  c4 = c4
    u1 = u1  u2 = u2  u3 = u3  r1 = r1  r2 = r2
    Conns = {c1, c2, c3}
    Users = {u1, u2}
    Rooms = {r1, r2}
    Kinds = {"offer"}
    Claims <- AnyClaim
    NoConn = NoConn
    WarnCap = 2
    HardCap = 2
    PeerChan = 1
    Fragile = {}
    TurnEnabled = FALSE
    MaxRequests = 1
SYMMETRY Interchangeable
CHECK_DEADLOCK FALSE
INVARIANT MessagesStayInRoom
