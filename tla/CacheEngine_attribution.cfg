SPECIFICATION MCSpec
CONSTANTS
    c1 = c1  c2 = c2
    Keys = {1, 2, 3}
    Clients = {c1, c2}
    Lambdas = {1}
    SizePerChunk = 2
    ThresholdInverse = 1
    MaxCacheSize = 4
    ChunkSize <- FullChunks
    Modes = {FALSE}
    Prefixes <- PromptPrefixes
    MaxTime = 0
    MaxPuts = 20
    MaxUpdates = 20
    PrefillBatches <- SharedPrompts
    DecodeBatches <- Decodes
    RankZero = FALSE
    LocalDevice = "cpu"
    MaxSteps = 2
PROPERTY JoinWasAttributed
