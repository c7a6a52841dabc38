SPECIFICATION FairSpec
CONSTANTS
    p = p
    Peers = {p}
    Self = Self
    OpusRate = 100
    Rates <- Slower
    SelfCap = 2
    PeerCap = 2
    Bursts <- Small
    MaxCapture = 4
    MaxArrived = 1
CHECK_DEADLOCK FALSE
INVARIANTS TypeOK NoDrift LatencyIsBounded PressSendsNoBacklog
PROPERTIES StopEndsRig EveryoneIsHeard
