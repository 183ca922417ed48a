SPECIFICATION Spec
CONSTANTS
    p1 = p1
    p2 = p2
    d1 = d1
    Peers = {p1, p2}
    NoPeer = NoPeer
    Reliable = {p1}
    Silent = {}
    Faults = {"leave", "height", "engine"}
    ChainHeight = 2
    DataIDs = {d1}
    DataIDAt <- SecondHasData
    ZeroDataID = ZeroDataID
    Starts = {1, 2}
    Stops = {4}
    Calls = {"resume", "pause"}
    MaxResumes = 2
    PeerChanCap = 1
    FetchStateCap = 1
INVARIANTS
    TypeOK
    ExcludedStayOut
    BlockedReplyHasRoom
    AcceptedDataReady
    FetchInOrder
    NoCircularWait
