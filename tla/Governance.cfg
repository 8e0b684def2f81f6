SPECIFICATION GovSpec
CONSTANTS
    Peers = {1,2}
    GenesisPeers = {1}
    Accounts = {"o1","o2","u"}
    OwnerOf <- mcOwner
    Amounts = {1}
    Holders = {"u"}
    Wallet <- mcWallet
    GenesisInitPos = 1
    GenesisConfig <- mcConfig
    Configs <- mcConfigs
    GlobalParams <- mcGlobalParams
    GlobalParams2 <- mcGlobalParams2
    SplitCurves <- mcCurves
    GasFees = {4}
    GasAddresses = {"dapp"}
    NEW_VERSION_VIEW = 1
    NEW_VERSION_BLOCK = 0
    NEW_WITHDRAW_BLOCK = 1
    SelfGovRegisterHeight = 1
    PRECISE = 100
    Xi <- mcXi
    MinK = 1
    CandidatesPerK = 1
    MaxHeight = 3
    MaxView = 4
    MaxMinorCalls = 1
    StartAttributes <- mcAttributes
    PeerCosts = {0}
    PenaltyAddresses = {"o2"}
INVARIANTS StakeConserved PositionsMatchPool FeesBacked SplitIsDefined
PROPERTY IndexIdentifies
CHECK_DEADLOCK FALSE
