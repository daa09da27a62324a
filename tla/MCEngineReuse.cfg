SPECIFICATION FairSpec
CONSTANTS
    r1 = r1
    r2 = r2
    r3 = r3
    None = None
    Requests = {r1, r3}
    PromptLen <- MCPromptLen
    MaxNew <- MCMaxNew
    Priority <- MCPriority
    PriorityEnabled = FALSE
    PageSize = 1
    NumPages = 6
    TokenBudget = 3
    DecodeBudget = 0
    MaxSeqs = 2
    MaxPartial = 2
    Watermark = 0
    SpecTokens = 0
    Depth = 3
    Stops = {r1}
    Refusable = {}
    MaxLives = 2
    MaxFailures = 0
INVARIANTS
    TokensReachTheirRequest
    StaleAbortsComeFirst
PROPERTIES
    EveryRequestEnds
CHECK_DEADLOCK FALSE
