CONSTANTS
    MaxHeight = 7
    Chain <- MCChain
    EmptyRoot = EmptyRoot
    NoWrites = NoWrites
    StateHashCheckHeight = 1
    CrossHeights = {3}
    CrossPutFails = TRUE
    LastConfig <- MCLastConfig
    ConfigHeights = {0, 4}
    HeaderBatch = 2
    PreserveLen = 2
    PruneBatch = 3
    DeprecateHeight = 1
    Word = 64
    Genesis = Genesis
    TxA = TxA
    TxB = TxB
    TxC = TxC
SPECIFICATION Spec
PROPERTIES
    PruneKeepsHistory
