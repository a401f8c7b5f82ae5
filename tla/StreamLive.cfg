SPECIFICATION FairSpec
CONSTANTS
    None = None
    MaxId = 0
    Req = {s1, x1}
    Multi = {x1}
    BadQtype = {}
    TooLong = {}
    ChanCap = 1
    StreamCap = 1
    ReplyCap = 1
    SingleTimeout = 1
    StreamTimeout = 1
    InitTimeout = 1
    IdleTimeout = 1
    Keepalives = {}
    WireCap = 1
    MaxBogus = 1
    s1 = s1
    x1 = x1
PROPERTIES
    RequestsEnd
    TransportEnds
