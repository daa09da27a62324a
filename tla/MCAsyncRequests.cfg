CONSTANTS
    r1 = r1
    r2 = r2
    c1 = c1
    c2 = c2
    g1 = g1
    o1 = o1
    None = None
    Never = Never
    Requests = {r1}
    Consumers = {c1, c2}
    Gateways = {g1}
    Owners = {o1}
    GatewayOf <- MCGatewayOf
    Owner <- MCOwner
    Priority <- MCPriority
    Deadlines <- MCDeadlines
    MaxExpirations = 2
    LeaseTicks = 2
    RetryTicks = 1
    DeferTicks = 1
    MaxReleases = 1
SPECIFICATION MCSpec
INVARIANTS
    LocalLeaseIsExclusive
    ClaimsAreDistinct
PROPERTIES
    KeepsContract
    DeadWorkStops
    EverySubmissionEnds
