SPECIFICATION Spec
CONSTANTS
    r1 = r1
    r2 = r2
    r3 = r3
    None = None
    Requests = {r1, r2, r3}
    PromptLen <- MCPromptLen
    MaxNew <- MCMaxNewLong
    Priority <- MCPriority
    PriorityEnabled = TRUE
    PageSize = 1
    NumPages = 8
    TokenBudget = 3
    DecodeBudget = 2
    MaxSeqs = 2
    MaxPartial = 2
    Watermark = 1
    SpecTokens = 1
    Depth = 2
    Stops = {}
    Refusable = {}
    MaxLives = 1
    MaxFailures = 0
INVARIANTS
    InFlightIsExact
    PlansAreWithinLimits
    FittingRequestsAreServed
CHECK_DEADLOCK FALSE
