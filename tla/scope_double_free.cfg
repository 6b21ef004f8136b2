CONSTANTS
    l1 = l1  l2 = l2  p1 = p1  p2 = p2  p3 = p3  k1 = k1  k2 = k2
    a1 = a1  a2 = a2  a3 = a3  s1 = s1  s2 = s2  s3 = s3
    Nil = Nil  MyKey = MyKey  BadKey = BadKey
    Links <- MCLinks1
    PeerIds <- MCPeers2
    Keys <- MCKeys1
    LLAddrs <- MCAddrs2
    Labels <- MCLabels2
    PingAfter = 1
    UnresponsiveAfter = 2
    ForgetAfter = 3
    PingSlots = 1
    BeaconModes = {0}
    SessionStates = {4}
    PingResults = {"timeout"}
    MaxPingCount = 1
SPECIFICATION Spec
CONSTRAINT PingCountBound
SYMMETRY Symmetry
INVARIANT NoDoubleFree
