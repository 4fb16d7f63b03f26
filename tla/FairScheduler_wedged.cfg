SPECIFICATION MCSpec
CONSTANTS
    a = a  b = b  a1 = a1  a2 = a2  b1 = b1  b2 = b2
    Requests = {a1, a2, b1}
    Clients = {a, b}
    ClientOf <- TwoToOne
    PromptLen <- Prompts12
    HitWeight = 5
    PrefillWeight = 5
    DecodeWeight = 10
    Eta = 1
    MaxTokens = 4
    MaxModelLen = 10
    MaxNumSeqs = 3
    BlockSize = 1
    NumGpuBlocks = 5
    NumCpuBlocks = 20
    Watermark = 2
    PreemptionMode = "swap"
    SharedTokens = {}
PROPERTY EveryRequestLeaves
