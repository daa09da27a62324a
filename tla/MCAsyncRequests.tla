--------------------------- MODULE MCAsyncRequests ---------------------------
EXTENDS AsyncRequests, TLC

CONSTANTS r1, r2, c1, c2, g1, o1,
          MaxReleases   \* bound: refused admissions and orderly shutdowns

MCGatewayOf == [c \in Consumers |-> g1]
MCOwner == [r \in Requests |-> o1]
MCPriority == [r \in Requests |-> IF r = r1 THEN 1 ELSE 2]
MCDeadlines == {Never, 0, 2}

\* FairSpec up to the bound.  It disables no fair action: a dispatch may still
\* return, and no shutdown is promised.
MCNext == Next /\ releases' <= MaxReleases
MCSpec == Init /\ [][MCNext]_vars /\ Fairness
=============================================================================
