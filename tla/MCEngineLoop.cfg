SPECIFICATION FairSpec
CONSTANTS
    r1 = r1
    r2 = r2
    r3 = r3
    None = None
    Requests = {r1, r2, r3}
    PromptLen <- MCPromptLen
    MaxNew <- MCMaxNewLong
    Priority <- MCPriority
    PriorityEnabled = FALSE
    PageSize = 2
    NumPages = 3
    TokenBudget = 4
    DecodeBudget = 0
    MaxSeqs = 3
    MaxPartial = 2
    Watermark = 0
    SpecTokens = 0
    Depth = 3
    Stops = {r1}
    Refusable = {r1, r2, r3}
    MaxLives = 1
    MaxFailures = 1
INVARIANTS
    TypeOK
    InFlightIsExact
    PagesConserved
    RowsHavePages
    StreamsAreServed
PROPERTIES
    EveryStreamEnds
CHECK_DEADLOCK FALSE
