SPECIFICATION BSpec
CONSTANTS
    Compressors = {"none", "static", "tree", "hash"}
    Capacities = {9, 14}
    StreamMax = 12
    PointerSpan = 4
    StaticMax = 4
    CountMax = 2
    HeaderLen = 1
    Limits = {8}
    Questions <- OneQuestion
    Records <- ThreeRecords
INVARIANT NamesReadBack
CHECK_DEADLOCK FALSE
