SPECIFICATION Spec
CONSTANTS
    k1 = k1
    k2 = k2
    k3 = k3
    d1 = d1
    d2 = d2
    Key = {k1, k2, k3}
    Data = {d1, d2}
    History <- FourVersions
    TooBig = {k3}
    Queries <- IxfrQueries
    DiffsFrom = {}
    ChannelLen = 1
    BatchLen = 2
    MaxQueries = 1
INVARIANT OldRecordsGo
CHECK_DEADLOCK FALSE
