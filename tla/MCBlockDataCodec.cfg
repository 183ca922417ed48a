SPECIFICATION Spec
CONSTANTS
    a = a
    b = b
    TxLists <- SomeLists
    RawLen <- SomeRawLen
    SnappyLen <- SomeSnappyLen
    LenWidth = 3
    SnappySlack = 1
    BufSize = 6
    MaxJunk = 2
    MaxHops = 3
INVARIANTS
    DecodedIsAskedFor
    EncodedIsAccepted
    CopyIsAccepted
CHECK_DEADLOCK FALSE
