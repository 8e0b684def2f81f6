CONSTANTS
    MaxHeight = 4
    Chain <- MCChain
    EmptyRoot = EmptyRoot
    NoWrites = NoWrites
    StateHashCheckHeight = 1
    CrossHeights = {2}
    CrossPutFails = FALSE
    LastConfig <- MCLastConfig
    ConfigHeights = {0}
    HeaderBatch = 2
    PreserveLen = 3
    PruneBatch = 3
    DeprecateHeight = 0
    Word = 64
    Genesis = Genesis
    TxA = TxA
    TxB = TxB
    TxC = TxC
SPECIFICATION Spec
PROPERTIES
    PrunedIsOld
