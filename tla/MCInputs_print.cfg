SPECIFICATION MCSpec
CONSTANTS
    Tokens <- MCTokens
    IntOf <- MCIntOf
    TimeOf <- MCTimeOf
    Params <- MCParams
    Lower <- MCLower
    Split <- MCSplit
    StopWords = {"the"}
    Blank = ""
    MisCased = {"Top"}
    MaxTop = 1
    MaxDepth = 1
    MaxDim = 2
    DefaultDepth = 0
    DefaultTop = 1
    MaxTokens = 9
    ArgLists <- MCArgLists
    Disks <- MCDisks
    Paths <- MCPaths
    Folded <- MCFolded
    Cores = 1
    NaN = NaN
    r1 = r1
    r2 = r2
    r3 = r3
    r4 = r4
    r5 = r5
    r6 = r6
    h1 = h1
    h2 = h2
    h3 = h3
    Requests = {r1}
    Keys = {h1, h2, h3}
    Capacities = {1}
    MaxUses = 1
    QueryOf <- MCQueryOf
    HashOf <- MCHashOf
    NoPlan = NoPlan
    MaxNow = 0
INVARIANTS
    AlwaysPrintsBack
CHECK_DEADLOCK FALSE
