SPECIFICATION Spec
CONSTANTS
    r1 = r1
    r2 = r2
    x1 = x1
    None = None
    Requests = {r1, r2}
    Sessions = {x1}
    Tokens <- MCTokens
    Sampled = {1}
    Prompts <- MCPrompts
    PageSize = 2
    NumPages = 3
    MaxOutput = 2
    PinTtls = {1}
    MinRestore = 1
    Refusals = {0, 1, 3}
SYMMETRY Symmetry
INVARIANTS
    TypeOK
    OneOwnerPerPage
    RefCountsAreExact
    CachedRowsAreWritten
    RunningRequestsReadTheirOwnRows
    UncomputedNodesArePrivate
    AnnouncedIsCached
CHECK_DEADLOCK FALSE
