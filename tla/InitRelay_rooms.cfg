SPECIFICATION Spec
CONSTANTS
    c1 = c1  c2 = c2  c3 = c3  c4 = c4
    u1 = u1  u2 = u2  u3 = u3  r1 = r1  r2 = r2
    Conns = {c1, c2, c3}
    Users = {u1, u2, u3}
    Rooms = {r1}
    Kinds = {"offer"}
    Claims <- AnyClaim
    NoConn = NoConn
    WarnCap = 2
    HardCap = 2
    PeerChan = 3
    Fragile = {c1, c2, c3}
    TurnEnabled = TRUE
    MaxRequests = 0
SYMMETRY Interchangeable
CHECK_DEADLOCK FALSE
INVARIANTS TypeOK RoomWithinCap HandlesAreLive SettledViewIsRoom
