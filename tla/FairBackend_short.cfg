SPECIFICATION Spec
CONSTANTS
    Keys = {1, 2, 3}
    Clients = {c1}
    Lambdas = {1}
    SizePerChunk = 4
    ThresholdInverse = 1
    MaxCacheSize = 4
    ChunkSize <- ShortChunks
    Modes = {FALSE}
    Prefixes <- NothingRetrieved
    MaxTime = 0
    MaxPuts = 3
    MaxUpdates = 0
INVARIANTS
    PoolNeverExhausted
