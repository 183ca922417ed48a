SPECIFICATION FairSpec
CONSTANTS
    k1 = k1
    d1 = d1
    d2 = d2
    d3 = d3
    d4 = d4
    a1 = a1
    a2 = a2
    Workers = {k1}
    NWorkers <- WorkerCount
    DataIDs = {d1, d2, d3, d4}
    Addrs = {a1, a2}
    Usable <- SomeUsable
    Serving = {a1}
    Silent = {}
    Events = {"cancel", "stop"}
    NoID = NoID
INVARIANTS
    HeldOnce
    ResultsApply
    CircularWaitNeedsMany
PROPERTIES
    KeepsPromise
    ServedBecomeReady
    
    ShutdownCompletes
