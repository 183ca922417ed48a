SPECIFICATION Spec
CONSTANTS
    p1 = p1
    p2 = p2
    d1 = d1
    Peers = {p1, p2}
    NoPeer = NoPeer
    Reliable = {}
    Silent = {}
    Faults = {"leave", "engine"}
    ChainHeight = 1
    DataIDs = {d1}
    DataIDAt <- FirstHasData
    ZeroDataID = ZeroDataID
    Starts = {1}
    Stops = {2}
    Calls = {"resume"}
    MaxResumes = 1
    PeerChanCap = 1
    FetchStateCap = 1
INVARIANTS
    NoCachePanic
