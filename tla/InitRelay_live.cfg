SPECIFICATION FairSpec
CONSTANTS
    c1 = c1  c2 = c2  c3 = c3  c4 = c4
    u1 = u1  u2 = u2  u3 = u3  r1 = r1  r2 = r2
    Conns = {c1, c2, c3}
    Users = {u1, u2}
    Rooms = {r1}
    Kinds = {"offer"}
    Claims <- TwoClients
    NoConn = NoConn
    WarnCap = 3
    HardCap = 3
    PeerChan = 3
    Fragile = {}
    TurnEnabled = FALSE
    MaxRequests = 0

CHECK_DEADLOCK FALSE
PROPERTIES JoinIsAnswered DepartureIsSeen
