SPECIFICATION Spec
CONSTANTS
    k1 = k1
    k2 = k2
    k3 = k3
    d1 = d1
    d2 = d2
    Key = {k1, k2, k3}
    Data = {d1, d2}
    History <- FourVersions
    TooBig = {k3}
    Queries <- AllQueries
    DiffsFrom = {1, 2, 3}
    ChannelLen = 2
    BatchLen = 2
    MaxQueries = 2
PROPERTIES  TransfersEnd
CHECK_DEADLOCK FALSE
