SPECIFICATION NodeFairSpec
CONSTANTS
    MaxHeight = 3
    DataHeights = {1, 2}
    DataIDs = {1, 2}
    Faults = {"crash", "error", "missing"}
    t1 = t1
    u1 = u1
    t2 = t2
    Txs = {t1, u1, t2}
    NoTx = NoTx
    Number <- Sequence
    MaxBlockTxs = 1
CONSTRAINT PeersOrClients
INVARIANTS
    NodeTypeOK
    StoreTracksEngine
    BufferOnCommittedState
    ResultsTrailByOne
    AnsweredBlockServed
    OwnProposalExecutes
    FlushedTxExecuted
PROPERTIES
    KeepsLog
    FinalizationAnswered
