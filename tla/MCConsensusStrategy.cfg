SPECIFICATION Spec
CONSTANTS
    v1 = v1
    me = me
    byz = byz
    t1 = t1
    NoTxs = NoTxs
    Nil = Nil
    None = None
    ValSeq <- ThreeValidators
    Power <- UnequalPower
    Self = me
    Byzantine = {byz}
    MaxHeight = 1
    MaxRound = 1
    TxLists = {t1}
    Offered <- SomeHeaders
    MaxPassed = 2
INVARIANTS
    TypeOK
    ChosenDataReady
    DataChosenInOneRound
    NoChoiceMeansAllAsked
    PrecommitsAgree
    NoPanic
