SPECIFICATION DeliverySpec
CONSTANTS
    r1 = r1
    None = None
    Requests = {r1}
    PromptLen <- MCPromptLen
    MaxNew <- MCMaxNew
    Priority <- MCPriority
    PriorityEnabled = FALSE
    PageSize = 1
    NumPages = 6
    TokenBudget = 3
    DecodeBudget = 0
    MaxSeqs = 1
    MaxPartial = 2
    Watermark = 0
    SpecTokens = 0
    Depth = 2
    Stops = {}
    Refusable = {}
    MaxLives = 2
    MaxFailures = 0
    MaxPosted = 2
INVARIANTS
    UpdatesReachTheirStream
CHECK_DEADLOCK FALSE
