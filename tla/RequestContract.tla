--------------------------- MODULE RequestContract ---------------------------
(***************************************************************************)
(* What a store of asynchronous requests promises to its callers.  The     *)
(* source calls InMemoryRequestStore (async_requests/store.py) the         *)
(* executable specification of the protocol; this module is its life cycle *)
(* of one request, without clocks, priorities or payloads:                 *)
(*   - state, token and expirations are the record's state, its fencing    *)
(*     token and the number of its leases that ran out;                    *)
(*   - live says whether the lease of a claimed request is unexpired.      *)
(* One call may move several requests (a claim also expires and abandons   *)
(* others), so a step moves every request along its own life cycle.        *)
(***************************************************************************)
EXTENDS Naturals

CONSTANTS Requests,         \* request ids
          MaxExpirations    \* max_lease_expirations

VARIABLES state, token, live, expirations

vars == <<state, token, live, expirations>>

Claimable == {"claimed", "running"}
Terminal == {"succeeded", "failed", "cancelled", "expired"}
Pending == {"queued"} \cup Claimable
States == {"new", "purged"} \cup Pending \cup Terminal

Init ==
    /\ state = [r \in Requests |-> "new"]
    /\ token = [r \in Requests |-> 0]
    /\ live = [r \in Requests |-> FALSE]
    /\ expirations = [r \in Requests |-> 0]

\* A request goes to state s; its fence moves by n and no lease is left.
Leave(r, s, n) ==
    /\ state'[r] = s
    /\ token'[r] = token[r] + n
    /\ ~live'[r]

SameExpirations(r) == expirations'[r] = expirations[r]

\* submit: a deadline that has passed ends the request at once.
Submit(r) ==
    /\ state[r] = "new"
    /\ Leave(r, "queued", 0) \/ Leave(r, "expired", 0)
    /\ SameExpirations(r)

\* claim_next hands out a queued request, or one whose lease has run out, under
\* a larger token; at the last expiration it fails the request instead.
Grant(r) == state'[r] = "claimed" /\ token'[r] = token[r] + 1 /\ live'[r]

Claim(r) == state[r] = "queued" /\ Grant(r) /\ SameExpirations(r)

Reclaim(r) ==
    /\ state[r] \in Claimable /\ ~live[r]
    /\ expirations[r] + 1 < MaxExpirations
    /\ Grant(r)
    /\ expirations'[r] = expirations[r] + 1

Abandon(r) ==
    /\ state[r] \in Claimable /\ ~live[r]
    /\ expirations[r] + 1 >= MaxExpirations
    /\ Leave(r, "failed", 1)
    /\ expirations'[r] = expirations[r] + 1

MarkRunning(r) ==
    /\ state[r] = "claimed" /\ live[r]
    /\ state'[r] = "running" /\ token'[r] = token[r] /\ live'[r]
    /\ SameExpirations(r)

Defer(r) ==
    /\ state[r] \in Claimable /\ live[r]
    /\ Leave(r, "queued", 1)
    /\ SameExpirations(r)

\* succeed and fail keep the token: it names the claim that published.
Finish(r) ==
    /\ state[r] = "running" /\ live[r]
    /\ Leave(r, "succeeded", 0) \/ Leave(r, "failed", 0)
    /\ SameExpirations(r)

\* cancel, and a deadline that passes.
Withdraw(r) ==
    /\ state[r] \in Pending
    /\ Leave(r, "cancelled", 1) \/ Leave(r, "expired", 1)
    /\ SameExpirations(r)

Purge(r) ==
    /\ state[r] \in Terminal
    /\ state'[r] = "purged" /\ token'[r] = 0 /\ ~live'[r]
    /\ expirations'[r] = 0

\* Time passes: the lease of a claimed request runs out.
Lapse(r) ==
    /\ live[r] /\ ~live'[r]
    /\ state'[r] = state[r] /\ token'[r] = token[r]
    /\ SameExpirations(r)

Still(r) ==
    /\ state'[r] = state[r] /\ token'[r] = token[r] /\ live'[r] = live[r]
    /\ SameExpirations(r)

RequestStep(r) ==
    \/ Submit(r) \/ Claim(r) \/ Reclaim(r) \/ Abandon(r) \/ MarkRunning(r)
    \/ Defer(r) \/ Finish(r) \/ Withdraw(r) \/ Purge(r) \/ Lapse(r) \/ Still(r)

Next == \A r \in Requests : RequestStep(r)

Spec == Init /\ [][Next]_vars
=============================================================================
