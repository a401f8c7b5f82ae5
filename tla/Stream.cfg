SPECIFICATION FamilySpec
CONSTANTS
    None = None
    MaxId = 2
    Req = {s1, s2, s3, x1}
    Singles = {s1, s2, s3}
    Refused = {s1, s3, x1}
    Transfers = {s1, x1}
    Multi = {x1}
    BadQtype = {x1}
    TooLong = {s3}
    ChanCap = 1
    StreamCap = 1
    ReplyCap = 1
    SingleTimeout = 1
    StreamTimeout = 2
    InitTimeout = 1
    IdleTimeout = 1
    Keepalives = {0}
    WireCap = 1
    MaxBogus = 1
    s1 = s1
    s2 = s2
    s3 = s3
    x1 = x1
INVARIANTS
    OutstandingIsTimed
    
    
    
