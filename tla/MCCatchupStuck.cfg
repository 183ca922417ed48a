SPECIFICATION FairSpec
CONSTANTS
    p1 = p1
    p2 = p2
    d1 = d1
    Peers = {p1}
    NoPeer = NoPeer
    Reliable = {p1}
    Silent = {}
    Faults = {}
    ChainHeight = 1
    DataIDs = {d1}
    DataIDAt <- NoData
    ZeroDataID = ZeroDataID
    Starts = {1}
    Stops = {0}
    Calls = {"resume", "pause"}
    MaxResumes = 3
    PeerChanCap = 1
    FetchStateCap = 1
PROPERTIES
    DriverCallsReturn
CHECK_DEADLOCK FALSE
