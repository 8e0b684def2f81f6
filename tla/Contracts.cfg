SPECIFICATION ContractsSpec
CONSTANTS
    TokenUsers = {"bk", "u"}
    Bookkeepers = "bk"
    OntContract = "ont"
    GovContract = "gov"
    TokenValues = {2}
    Spenders = {"u"}
    ONT_TOTAL_SUPPLY = 5
    UNBOUND_TIME_INTERVAL = 2
    UNBOUND_GENERATION_AMOUNT <- mcGen
    BlockTimes = {0, 1, 4}
    MaxTokenCalls = 5
    FsOwners = {a, b}
    FsNodes = {1, 2}
    FsContract = fsc
    FsHashes = {"h"}
    Hour = 2
    DefaultPerBlockSize = 2
    FsDefaultParam <- mcFsParam
    FsParams <- mcFsParams
    FsVolumes = {5}
    FsCopies = {2}
    FsServiceTimes = {3}
    FsExpiries = {4}
    FsRegistered = {1, 2}
    FsRegisteredVolume = 5
    FsStartOng = 30
    FsBlockTimes = {0, 3, 5}
    MaxFsCalls = 5
    Ids = {"x", "y", "z"}
    IdKeys = {"ky", "k1", "k2"}
    IdAddresses = {"r"}
    IdSigners = {"ky", "k1", "k2", "r"}
    IdGroups <- mcGroups
    IdAttributes <- mcAttributes
    IdAttributeKeys = {"a", "b", "c"}
    IdServices = {"s"}
    IdEndpoints = {"e1"}
    IdContexts = {"c"}
    MaxIdKeys = 2
    MAX_NUM = 3
    MaxIdCalls = 4
    Roles = {"r1"}
    AuthFuncs = {"f"}
    AuthPeriods = {1, 5}
    AuthFuture = 5
    AuthBlockTimes = {1, 2}
    MaxAuthCalls = 5
    GpAddresses = {"A", "B"}
    GpSigners = {"A", "B"}
    GpNames = {"p"}
    GpValues = {2}
    GpGenesis <- mcParams
    GpGenesisAdmin = "A"
    MaxGpCalls = 2
    CcUser = 4
    CcValues = {1, 2}
    CcLimits = {3}
    CcProxy = "fp"
    CcNoProxy = "nofp"
    FarGenesis = {"n1", "n2", "n3"}
    FarConfig <- mcPeers
    FarHeights = 3
    HeightModulus = 65536
    MaxCcCalls = 7
SYMMETRY mcOwners
INVARIANTS UnboundIsBacked StakeClaimsCovered  FsRecordsLive
           RevokedIsEmpty AccessIsAssigned 
PROPERTY KeyIndexStable
CHECK_DEADLOCK FALSE
