SPECIFICATION Spec
CONSTANTS
    r1 = r1
    r2 = r2
    r3 = r3
    None = None
    Requests = {r1, r3}
    PromptLen <- MCPromptLen
    MaxNew <- MCMaxNew
    Priority <- MCPriority
    PriorityEnabled = FALSE
    PageSize = 1
    NumPages = 6
    TokenBudget = 3
    DecodeBudget = 0
    MaxSeqs = 2
    MaxPartial = 2
    Watermark = 0
    SpecTokens = 0
    Depth = 2
    Stops = {}
    Refusable = {}
    MaxLives = 1
    MaxFailures = 1
INVARIANTS
    AbortedIdsAreReleased
CHECK_DEADLOCK FALSE
