SPECIFICATION Spec
CONSTANTS
    Keys = {1, 2, 3}
    Clients = {c1}
    Lambdas = {1, 2}
    SizePerChunk = 2
    ThresholdInverse = 1
    MaxCacheSize = 4
    ChunkSize <- FullChunks
    Modes = {TRUE, FALSE}
    Prefixes <- UpToOneRetrieved
    MaxTime = 1
    MaxPuts = 3
    MaxUpdates = 0
INVARIANTS
    SlotsExclusive
    CachedDataIntact
PROPERTIES
    ImplementsCache
    CloseJoins
