SPECIFICATION Spec
CONSTANTS
    Keys = {1, 2, 3}
    Clients = {c1, c2}
    Lambdas = {1}
    SizePerChunk = 2
    ThresholdInverse = 1
    MaxCacheSize = 5
    ChunkSize <- FullChunks
    Modes = {FALSE}
    Prefixes <- UpToTwoRetrieved
    MaxTime = 2
    MaxPuts = 3
    MaxUpdates = 1
INVARIANTS
    TypeOK
    NoSlotLeak
    AccountingExact
    PoolNeverExhausted
    TablesDescribeCache
PROPERTIES
    RetrievedKept
    ThresholdExhaustive
SYMMETRY ClientSymmetry
