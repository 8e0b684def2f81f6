SPECIFICATION NodeSpec
CONSTANTS
    N = 4
    C = 1
    Self = 2
    Order <- mcOrder
    Scenarios <- mcScenarios
    NetBlocks <- mcNet
    InitConnected = {1, 3}
    MaxHeight = 2
    SyncPeers = {1, 3}
    SyncC = 1
    Cases <- mcCases
    TopHeight = 3
    ReqCap = 1
    CheckNum = 1
    MaxInstances = 2
    Addrs = {1, 2, 3, 4}
    Wasm = {3, 4}
    Slots = {1, 2, 3}
    Blocks <- mcBlocks
    MinGas = 2
    CreateGas = 2
    PutGas = 1
    OpGas = 1
    MaxEngine = 2
    Workers = {1, 2}
    BadTxs = {"x"}
    GasOf <- mcGas
    Days <- mcDays
    MaxSlots = 1
    MaxCapacity = 2
    MaxRetries = 0
    PreExec = TRUE
    Base = 4
    IntBytes = 2
    MaxIntBytes = 3
    StackLimit = 5
    CallLimit = 2
    ArrayLimit = 3
    CloneLimit = 3
    BytesLimit = 4
    Starts <- mcStarts
    Bookkeepers = {0, 1, 2, 3}
    Me = 0
    MaxDbftHeight = 2
    MaxView = 2
    MaxMsgs = 2
    SyncNodes = {"p1", "p2"}
    Situations <- mcSituations
    BatchSize = 2
    FlightMax = 3
    CacheMax = 2
    ForwardMax = 3
    NextTimes = 2
    NextHeights = 1
    ErrorMax = 2
    MaxLeaves = 7
    MaxCrashes = 1
    SelfId = "self"
    Meetings <- mcMeetings
    Reserved = {}
    MaxConnInBound = 2
    MaxConnOutBound = 2
    MaxConnInBoundPerIP = 1
    IdBits = 3
    LocalId = 7
    RemoteIds = {6, 5, 4, 3, 2}
    AddrOf <- mcAddrOf
    BucketSize = 2
    AlphaValue = 2
    MaskSet = {3}
    MaxRetryCount = 1
    MaxNotices = 5
    StoreAddresses = {"s1", "s2"}
    FileAddresses = {"s1", "w"}
    MaxOpens = 3
    NewAddresses = {"n1", "n2"}
    OtherAddresses = {"o1"}
    Passwords = {"", "p"}
    Schemes = {"sha256", "sha3"}
    BadScheme = "sm3"
    MaxWalletCalls = 4
INVARIANTS   SealedIsSupported SyncCompletes FailedTxOnlyPays StorageFollowsContract
           PendingIsWorkedOn DbftSound BlocksArrive ProofsVerify RecordsFollowConnections  AccountsKept
 
CHECK_DEADLOCK FALSE
