SPECIFICATION SequentialSpec
CONSTANTS
    MaxId = 7
    None = None
    Queued = {r1, r2}
    NoTtl = NoTtl
    u1 = u1
    u2 = u2
    u3 = u3
    User = {u1, u2, u3}
    Keys <- Menu
    DnssecTypes = {"RRSIG"}
    Replies <- AllReplies
    MaxValidity = 3
    FailureDuration = 1
    MiscDuration = 1
    NxdomainValidity = 2
    NodataValidity = 2
    DelegationValidity = 3
    CacheTruncated = FALSE
    MaxNow = 2
    NativeLen = 2
    ClientKeys <- AnyKey
    ServerKeys <- WholeMac
    Fudge = 1
    Skews <- ClockSkews
    MaxUnsigned = 1
    MaxAnswers = 3
    MaxTime = 2
    MaxReceived = 3
    Compressors = {"none", "static", "tree", "hash"}
    Capacities = {9, 14}
    StreamMax = 12
    PointerSpan = 20
    StaticMax = 4
    CountMax = 2
    HeaderLen = 1
    Limits = {8}
    Questions <- OneQuestion
    Records <- ThreeRecords
INVARIANTS
    IdsFit
    CachedIsFresh 
     AcceptedIsPrefix
    MessageReadsBack
PROPERTIES IsPool 
CHECK_DEADLOCK FALSE
