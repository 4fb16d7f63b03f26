SPECIFICATION MCSpec
CONSTANTS
    a = a  b = b  a1 = a1  a2 = a2  b1 = b1  b2 = b2
    Requests = {a1, a2, b1, b2}
    Clients = {a, b}
    ClientOf <- TwoEach
    PromptLen <- Prompts223
    HitWeight = 1
    PrefillWeight = 5
    DecodeWeight = 10
    Eta = 1
    MaxTokens = 2
    MaxModelLen = 10
    MaxNumSeqs = 2
    BlockSize = 1
    NumGpuBlocks = 3
    NumCpuBlocks = 3
    Watermark = 0
    PreemptionMode = "swap"
    SharedTokens = {2}
INVARIANTS TypeOK FairShare OnePlace BudgetHolds
PROPERTY ServedMonotone
