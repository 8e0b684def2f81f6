CONSTANTS
    MaxHeight = 5
    Chain <- MCChain
    EmptyRoot = EmptyRoot
    NoWrites = NoWrites
    StateHashCheckHeight = 1
    CrossHeights = {2}
    CrossPutFails = FALSE
    LastConfig <- MCLastConfig
    ConfigHeights = {0}
    HeaderBatch = 2
    PreserveLen = 0
    PruneBatch = 2
    DeprecateHeight = 0
    Word = 64
    Genesis = Genesis
    TxA = TxA
    TxB = TxB
    TxC = TxC
SPECIFICATION FairSpec
INVARIANTS
    TypeOK
    NoSilentCorruption
    ShownIsDurable
    EventsBeforeState
    HeaderIndexHasNoGap
PROPERTIES
    ImplementsDurableLedger
    SaveEnds
