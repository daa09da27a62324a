---------------------------- MODULE AsyncRequests ----------------------------
(***************************************************************************)
(* Durable asynchronous requests: PostgresRequestStore                     *)
(* (async_requests/postgres_store.py) and the consumers of                 *)
(* AsyncRequestWorker (async_requests/worker.py) that execute them.        *)
(*                                                                         *)
(* A transaction of the store locks the row it touches, so each is one     *)
(* step.  A consumer reaches the store through asyncio.to_thread: time     *)
(* passes and other consumers run while a call is on its way, the call may *)
(* fail before the commit, and it may commit and lose its reply.           *)
(*                                                                         *)
(* The code compares times, never their values, so every timestamp is the  *)
(* number of ticks until it passes; 0 means that it has passed.            *)
(***************************************************************************)
EXTENDS Naturals, FiniteSets

CONSTANTS Requests, Consumers,
          Gateways, GatewayOf,  \* the process a consumer runs in
          Owner, Owners,        \* the tenant of a request
          Priority,             \* claim order: (priority, created_at, id)
          MaxExpirations,       \* max_lease_expirations
          LeaseTicks,           \* lease_seconds
          RetryTicks,           \* the heartbeat's delay before it retries
          DeferTicks,           \* retry_after_s of a refused admission
          Deadlines,            \* deadlines a client may ask for
          None, Never           \* no worker; no deadline

ASSUME AsyncAssumption ==
    /\ GatewayOf \in [Consumers -> Gateways] /\ Owner \in [Requests -> Owners]
    /\ Priority \in [Requests -> Nat]
    /\ MaxExpirations \in Nat /\ LeaseTicks \in Nat \ {0}
    /\ RetryTicks \in Nat /\ DeferTicks \in Nat
    /\ Never \notin Nat /\ Deadlines \subseteq Nat \cup {Never}
    /\ None \notin Requests \cup Gateways

ASSUME PriorityAssumption == \A r, q \in Requests : Priority[r] = Priority[q] => r = q

VARIABLES state, token, worker, lease, deadline,  \* the row of each request
          reclaims,    \* its 'reclaim' audit rows
          expiries,    \* history: its leases that ran out and were noticed
          cooldown,    \* async_request_owner_deferrals
          con,         \* the consumers
          draining,    \* gateways that are shutting down
          releases     \* history: refused admissions and orderly shutdowns

rowVars == <<state, token, worker, lease, deadline, reclaims, expiries>>
vars == <<rowVars, cooldown, con, draining, releases>>

Claimable == {"claimed", "running"}
Terminal == {"succeeded", "failed", "cancelled", "expired"}
Pending == {"queued"} \cup Claimable

Min2(a, b) == IF a <= b THEN a ELSE b
Minus(a, b) == IF a <= b THEN 0 ELSE a - b

\* A consumer between two claims.  While it processes one: the request and the
\* token of its claim, the ticks until its heartbeat takes the lease for lost
\* (left), the age of its store call (elapsed), its claim_lost and
\* locally_cancelled events, whether _active_cancellations holds the latter
\* (listed), its heartbeat (hb) and how often it tried to publish (tries).
Idle == [pc |-> "idle", request |-> None, token |-> 0, left |-> 0, elapsed |-> 0,
         lost |-> FALSE, signal |-> FALSE, listed |-> FALSE, hb |-> "off", tries |-> 0]

Init ==
    /\ state = [r \in Requests |-> "new"]
    /\ token = [r \in Requests |-> 0]
    /\ worker = [r \in Requests |-> None]
    /\ lease = [r \in Requests |-> 0]
    /\ deadline = [r \in Requests |-> Never]
    /\ reclaims = [r \in Requests |-> 0]
    /\ expiries = [r \in Requests |-> 0]
    /\ cooldown = [o \in Owners |-> 0]
    /\ con = [c \in Consumers |-> Idle]
    /\ draining = {}
    /\ releases = 0

(***************************************************************************)
(* The rows.                                                               *)
(***************************************************************************)
Due(r) == state[r] \in Pending /\ deadline[r] = 0

\* LEAST(now + lease_seconds, deadline_at)
LeaseUntil(r) == IF deadline[r] = Never THEN LeaseTicks ELSE Min2(LeaseTicks, deadline[r])

\* The row of r goes to state s without a claim; its fence moves by n.  The
\* deadline and the audit rows of a request that ended are never read again.
Leave(r, s, n) ==
    /\ state' = [state EXCEPT ![r] = s]
    /\ token' = [token EXCEPT ![r] = @ + n]
    /\ worker' = [worker EXCEPT ![r] = None]
    /\ lease' = [lease EXCEPT ![r] = 0]
    /\ deadline' = [deadline EXCEPT ![r] = IF s = "queued" THEN @ ELSE Never]
    /\ UNCHANGED <<reclaims, expiries>>

\* _commit_expiry
Expire(r) == Leave(r, "expired", 1)

\* Mutant: a claim whose lease has run out is accepted until it is taken over.
CurrentWithoutLease(k) ==
    /\ state[k.request] \in Claimable
    /\ worker[k.request] = k.worker
    /\ token[k.request] = k.token

\* The claim k is the row's own and its lease has not run out.
Current(k) ==
    /\ state[k.request] \in Claimable
    /\ worker[k.request] = k.worker
    /\ token[k.request] = k.token
    /\ lease[k.request] > 0

\* _load_claim refuses the claim k; a deadline that has passed is committed.
Refused(k) ==
    \/ Due(k.request) /\ Expire(k.request)
    \/ ~Due(k.request) /\ ~Current(k) /\ UNCHANGED rowVars

Accepted(k) == ~Due(k.request) /\ Current(k)

\* renew_claim
Renewed(k) ==
    /\ Accepted(k)
    /\ lease' = [lease EXCEPT ![k.request] = LeaseUntil(k.request)]
    /\ UNCHANGED <<state, token, worker, deadline, reclaims, expiries>>

\* mark_running
MarkedRunning(k) ==
    /\ Accepted(k)
    /\ state[k.request] = "claimed"
    /\ state' = [state EXCEPT ![k.request] = "running"]
    /\ UNCHANGED <<token, worker, lease, deadline, reclaims, expiries>>

\* defer: back to the queue under a new fence
Requeued(k) == Accepted(k) /\ Leave(k.request, "queued", 1)

\* _finish_once: the fence stays the publisher's
Finished(k, s) ==
    /\ Accepted(k)
    /\ state[k.request] = "running"
    /\ Leave(k.request, s, 0)

(***************************************************************************)
(* Clients and housekeeping.                                               *)
(***************************************************************************)
consumerVars == <<con, draining, releases>>

Submit(r, d) ==
    /\ state[r] = "new"
    /\ state' = [state EXCEPT ![r] = IF d = 0 THEN "expired" ELSE "queued"]
    /\ deadline' = [deadline EXCEPT ![r] = IF d = 0 THEN Never ELSE d]
    /\ UNCHANGED <<token, worker, lease, reclaims, expiries, cooldown, consumerVars>>

\* get, list and a replayed submission persist a deadline that has passed.
Observe(r) ==
    /\ Due(r)
    /\ Expire(r)
    /\ UNCHANGED <<cooldown, consumerVars>>

Cancel(r) ==
    /\ state[r] \in Pending
    /\ IF Due(r) THEN Expire(r) ELSE Leave(r, "cancelled", 1)
    /\ UNCHANGED <<cooldown, consumerVars>>

\* After a cancel returned, notify_cancel of the gateway g that served it.
NotifyCancel(g, r) ==
    /\ state[r] \in Terminal
    /\ con' = [c \in Consumers |->
                 IF GatewayOf[c] = g /\ con[c].listed /\ con[c].request = r
                 THEN [con[c] EXCEPT !.signal = TRUE] ELSE con[c]]
    /\ con' # con
    /\ UNCHANGED <<rowVars, cooldown, draining, releases>>

\* _apply_retention_batch removes a terminal request and its audit rows.
Purge(r) ==
    /\ state[r] \in Terminal
    /\ state' = [state EXCEPT ![r] = "purged"]
    /\ token' = [token EXCEPT ![r] = 0]
    /\ deadline' = [deadline EXCEPT ![r] = Never]
    /\ reclaims' = [reclaims EXCEPT ![r] = 0]
    /\ expiries' = [expiries EXCEPT ![r] = 0]
    /\ UNCHANGED <<worker, lease, cooldown, consumerVars>>

(***************************************************************************)
(* Consumers.                                                              *)
(***************************************************************************)
ClaimOf(c) ==
    [request |-> con[c].request, token |-> con[c].token, worker |-> GatewayOf[c]]

\* A consumer of a draining gateway leaves its loop after the claim at hand.
Rested(c) == IF GatewayOf[c] \in draining THEN [Idle EXCEPT !.pc = "stopped"] ELSE Idle

\* The end of process.
End(c) ==
    /\ con' = [con EXCEPT ![c] = Rested(c)]
    /\ UNCHANGED draining

Continue(c, fields) ==
    /\ con' = [con EXCEPT ![c] = fields]
    /\ UNCHANGED draining

\* Mutant: a request whose worker was lost while running is never taken over.
OpenUnlessRunning(skipped) ==
    {r \in Requests \ skipped :
        /\ ~Due(r)
        /\ cooldown[Owner[r]] = 0
        /\ state[r] = "queued" \/ (state[r] = "claimed" /\ lease[r] = 0)}

\* The rows claim_next considers: rows another transaction has locked are
\* skipped, and the requests of an owner that cools down are left alone.
Open(skipped) ==
    {r \in Requests \ skipped :
        /\ ~Due(r)
        /\ cooldown[Owner[r]] = 0
        /\ state[r] = "queued" \/ (state[r] \in Claimable /\ lease[r] = 0)}

\* _fail_if_abandoned
Worn(r) == state[r] \in Claimable /\ reclaims[r] + 1 >= MaxExpirations

\* Mutant: a takeover keeps the fence of the lost claim.
GrantedTokenKept(r) == IF state[r] = "queued" THEN token[r] + 1 ELSE token[r]

\* Every claim gets a larger fence than any before it.
GrantedToken(r) == token[r] + 1

\* One transaction of claim_next for gateway g: the due rows end, worn rows
\* fail until the first that may be claimed, and that one is granted.
ClaimNext(g, skipped, granted) ==
    LET swept == {r \in Requests \ skipped : Due(r)}
        fit == {r \in Open(skipped) : ~Worn(r)}
        abandoned == {r \in Open(skipped) : Worn(r) /\ \A q \in granted : Priority[r] < Priority[q]}
        ended == swept \cup abandoned
        again == {r \in granted : state[r] \in Claimable}
    IN  /\ granted \subseteq fit
        /\ fit # {} => granted # {}
        /\ \A r \in granted, q \in fit : Priority[r] <= Priority[q]
        /\ state' = [r \in Requests |-> IF r \in swept THEN "expired"
                                        ELSE IF r \in abandoned THEN "failed"
                                        ELSE IF r \in granted THEN "claimed" ELSE state[r]]
        /\ token' = [r \in Requests |-> IF r \in ended THEN token[r] + 1
                                        ELSE IF r \in granted THEN GrantedToken(r) ELSE token[r]]
        /\ worker' = [r \in Requests |-> IF r \in ended THEN None
                                         ELSE IF r \in granted THEN g ELSE worker[r]]
        /\ lease' = [r \in Requests |-> IF r \in ended THEN 0
                                        ELSE IF r \in granted THEN LeaseUntil(r) ELSE lease[r]]
        /\ reclaims' = [r \in Requests |-> IF r \in again THEN reclaims[r] + 1 ELSE reclaims[r]]
        /\ expiries' = [r \in Requests |-> IF r \in again \cup abandoned
                                           THEN expiries[r] + 1 ELSE expiries[r]]
        /\ deadline' = [r \in Requests |-> IF r \in ended THEN Never ELSE deadline[r]]

\* A poll for work.  The reply may be lost.
Poll(c, skipped) ==
    /\ con[c].pc = "idle"
    /\ \E granted \in {{}} \cup {{r} : r \in Requests} :
          /\ ClaimNext(GatewayOf[c], skipped, granted)
          /\ \/ End(c)
             \/ \E r \in granted :
                   Continue(c, [Idle EXCEPT !.pc = "claimed", !.request = r,
                                            !.token = GrantedToken(r)])
    /\ UNCHANGED <<cooldown, releases>>

\* The claim arrives during a shutdown: it is given back without being executed.
RefuseProcess(c) ==
    /\ con[c].pc = "claimed" /\ GatewayOf[c] \in draining
    /\ Continue(c, [con[c] EXCEPT !.pc = "releasing"])
    /\ UNCHANGED <<rowVars, cooldown, releases>>

\* process registers its cancellation event, notes the time and calls the store.
StartProcess(c) ==
    /\ con[c].pc = "claimed" /\ GatewayOf[c] \notin draining
    /\ con' = [d \in Consumers |->
                 IF d = c THEN [con[c] EXCEPT !.pc = "marking", !.listed = TRUE]
                 ELSE IF GatewayOf[d] = GatewayOf[c] /\ con[d].request = con[c].request
                 THEN [con[d] EXCEPT !.listed = FALSE] ELSE con[d]]
    /\ UNCHANGED <<rowVars, cooldown, draining, releases>>

\* Mutant: a whole lease is counted from the reply.
LocalLeaseFromReply(c, until) == LeaseUntil(con[c].request)

\* lease_deadline of the heartbeat: the lease counts from the store's update,
\* which is no earlier than the local time at which the call was made.
LocalLease(c, until) == Minus(until, con[c].elapsed)

MarkRunning(c) ==
    /\ con[c].pc = "marking"
    /\ \/ Refused(ClaimOf(c)) /\ End(c)
       \/ /\ MarkedRunning(ClaimOf(c))
          /\ \/ Continue(c, [con[c] EXCEPT !.pc = "working", !.hb = "sleep", !.elapsed = 0,
                                !.left = LocalLease(c, lease[con[c].request])])
             \/ End(c)
       \/ UNCHANGED rowVars /\ End(c)
    /\ UNCHANGED <<cooldown, releases>>

\* _heartbeat
SendRenewal(c) ==
    /\ con[c].hb = "sleep"
    /\ Continue(c, [con[c] EXCEPT !.hb = "asking"])
    /\ UNCHANGED <<rowVars, cooldown, releases>>

\* Mutant: a stale claim is retried like any other error.
LoseClaimRetries(c) == Continue(c, [con[c] EXCEPT !.hb = "sleep", !.elapsed = 0])

\* The heartbeat ends with claim_lost set.
LoseClaim(c) == Continue(c, [con[c] EXCEPT !.hb = "off", !.left = 0, !.elapsed = 0, !.lost = TRUE])

RenewalFailed(c) ==
    IF con[c].left <= RetryTicks THEN LoseClaim(c)
    ELSE Continue(c, [con[c] EXCEPT !.hb = "sleep", !.elapsed = 0])

RenewClaim(c) ==
    /\ con[c].hb = "asking"
    /\ \/ Refused(ClaimOf(c)) /\ LoseClaim(c)
       \/ /\ Renewed(ClaimOf(c))
          /\ \/ Continue(c, [con[c] EXCEPT !.hb = "sleep", !.elapsed = 0,
                                !.left = LocalLease(c, LeaseUntil(con[c].request))])
             \/ RenewalFailed(c)
       \/ UNCHANGED rowVars /\ RenewalFailed(c)
    /\ UNCHANGED <<cooldown, releases>>

\* The consumer notices claim_lost or locally_cancelled before or during the
\* dispatch; at a shutdown it gives the claim back.
Withdraw(c) ==
    /\ con[c].pc = "working"
    /\ con[c].lost \/ con[c].signal
    /\ IF ~con[c].lost /\ GatewayOf[c] \in draining
       THEN Continue(c, [con[c] EXCEPT !.pc = "releasing"])
       ELSE End(c)
    /\ UNCHANGED <<rowVars, cooldown, releases>>

\* The dispatch returns a response or an error, or is refused by the limiter.
Dispatch(c) ==
    /\ con[c].pc = "working"
    /\ ~con[c].lost /\ ~con[c].signal
    /\ \/ \E next \in {"publishing", "failing"} :
             Continue(c, [con[c] EXCEPT !.pc = next]) /\ UNCHANGED releases
       \/ Continue(c, [con[c] EXCEPT !.pc = "deferring"]) /\ releases' = releases + 1
    /\ UNCHANGED <<rowVars, cooldown>>

\* _publish_result: two attempts, then a terminal error.  An error after the
\* commit is either resolved by _recover_committed_finalization or retried.
PublishResult(c) ==
    /\ con[c].pc = "publishing"
    /\ LET again == Continue(c, IF con[c].tries = 0 THEN [con[c] EXCEPT !.tries = 1]
                                ELSE [con[c] EXCEPT !.tries = 0, !.pc = "failing"])
       IN  \/ Refused(ClaimOf(c)) /\ End(c)
           \/ Finished(ClaimOf(c), "succeeded") /\ (End(c) \/ again)
           \/ UNCHANGED rowVars /\ again
    /\ UNCHANGED <<cooldown, releases>>

PublishFailure(c) ==
    /\ con[c].pc = "failing"
    /\ Refused(ClaimOf(c)) \/ Finished(ClaimOf(c), "failed") \/ UNCHANGED rowVars
    /\ End(c)
    /\ UNCHANGED <<cooldown, releases>>

Defer(c) ==
    /\ con[c].pc = "deferring"
    /\ \/ (Refused(ClaimOf(c)) \/ UNCHANGED rowVars) /\ UNCHANGED cooldown
       \/ /\ Requeued(ClaimOf(c))
          /\ cooldown' = [cooldown EXCEPT ![Owner[con[c].request]] =
                             IF @ <= DeferTicks THEN DeferTicks ELSE @]
    /\ End(c)
    /\ UNCHANGED releases

\* _release_for_shutdown
Release(c) ==
    /\ con[c].pc = "releasing"
    /\ Refused(ClaimOf(c)) \/ Requeued(ClaimOf(c)) \/ UNCHANGED rowVars
    /\ End(c)
    /\ UNCHANGED <<cooldown, releases>>

(***************************************************************************)
(* Gateways and time.                                                      *)
(***************************************************************************)
\* The lifespan cancels run: polls on their way complete, other idle consumers
\* stop, and every registered event is set.
Shutdown(g) ==
    /\ g \notin draining /\ draining' = draining \cup {g}
    /\ releases' = releases + 1
    /\ \E polling \in SUBSET Consumers :
          con' = [c \in Consumers |->
                    IF GatewayOf[c] # g THEN con[c]
                    ELSE IF con[c].pc = "idle" /\ c \notin polling THEN [Idle EXCEPT !.pc = "stopped"]
                    ELSE IF con[c].listed THEN [con[c] EXCEPT !.signal = TRUE] ELSE con[c]]
    /\ UNCHANGED <<rowVars, cooldown>>

\* The process ends, in order or not, and another takes its place.
Restart(g) ==
    /\ con' = [c \in Consumers |-> IF GatewayOf[c] = g THEN Idle ELSE con[c]]
    /\ draining' = draining \ {g}
    /\ UNCHANGED <<rowVars, cooldown, releases>>

Tick ==
    /\ lease' = [r \in Requests |-> Minus(lease[r], 1)]
    /\ deadline' = [r \in Requests |->
                      IF deadline[r] = Never THEN Never ELSE Minus(deadline[r], 1)]
    /\ cooldown' = [o \in Owners |-> Minus(cooldown[o], 1)]
    /\ con' = [c \in Consumers |->
                 [con[c] EXCEPT !.left = Minus(@, 1),
                    !.elapsed = IF con[c].pc = "marking" \/ con[c].hb = "asking"
                                THEN Min2(@ + 1, LeaseTicks) ELSE 0]]
    /\ UNCHANGED <<state, token, worker, reclaims, expiries, draining, releases>>

Work(c) ==
    \/ RefuseProcess(c) \/ StartProcess(c) \/ MarkRunning(c) \/ Withdraw(c) \/ PublishResult(c)
    \/ PublishFailure(c) \/ Defer(c) \/ Release(c)

Heartbeat(c) == SendRenewal(c) \/ RenewClaim(c)

Client(r) ==
    \/ \E d \in Deadlines : Submit(r, d)
    \/ Observe(r) \/ Cancel(r) \/ Purge(r)
    \/ \E g \in Gateways : NotifyCancel(g, r)

Next ==
    \/ \E r \in Requests : Client(r)
    \/ \E c \in Consumers :
          \/ \E skipped \in SUBSET Requests : Poll(c, skipped)
          \/ Work(c) \/ Dispatch(c) \/ Heartbeat(c)
    \/ \E g \in Gateways : Shutdown(g) \/ Restart(g)
    \/ Tick

Spec == Init /\ [][Next]_vars

\* Event loops and threads run, time passes, some poll finds the rows unlocked,
\* and a gateway that was shut down is replaced.  Nothing is assumed of the
\* dispatch, of clients or of faults.
Fairness ==
    /\ WF_vars(Tick)
    /\ \A c \in Consumers :
          WF_vars(Poll(c, {}) \/ Work(c)) /\ WF_vars(Heartbeat(c))
    /\ \A g \in Gateways : WF_vars(g \in draining /\ Restart(g))

FairSpec == Spec /\ Fairness

(***************************************************************************)
(* Properties.                                                             *)
(***************************************************************************)
Ended == Terminal \cup {"purged"}

\* The fields have their types, and a row carries a worker and a lease only
\* while it is claimed.
TypeOK ==
    /\ state \in [Requests -> {"new", "purged"} \cup Pending \cup Terminal]
    /\ token \in [Requests -> Nat]
    /\ worker \in [Requests -> Gateways \cup {None}]
    /\ lease \in [Requests -> 0..LeaseTicks]
    /\ deadline \in [Requests -> Nat \cup {Never}]
    /\ reclaims \in [Requests -> Nat] /\ expiries \in [Requests -> Nat]
    /\ cooldown \in [Owners -> Nat]
    /\ draining \in SUBSET Gateways /\ releases \in Nat
    /\ con \in [Consumers ->
          [pc : {"idle", "stopped", "claimed", "marking", "working", "publishing",
                 "failing", "deferring", "releasing"},
           request : Requests \cup {None}, token : Nat, left : 0..LeaseTicks,
           elapsed : 0..LeaseTicks, lost : BOOLEAN, signal : BOOLEAN,
           listed : BOOLEAN, hb : {"off", "sleep", "asking"}, tries : 0..1]]
    /\ \A r \in Requests : state[r] \notin Claimable => worker[r] = None /\ lease[r] = 0

Holds(c, r) == con[c].request = r

\* As long as the heartbeat of a consumer believes in its lease, nobody else
\* can hold the request: the claim is the row's own and its lease lasts at
\* least as long, or the request has ended.  granted_at and updated_at in
\* _heartbeat make it so whatever the delay of the calls.
LocalLeaseIsExclusive ==
    \A c \in Consumers, r \in Requests :
        Holds(c, r) /\ con[c].left > 0 /\ state[r] \notin Ended =>
            Current(ClaimOf(c)) /\ con[c].left <= lease[r]

\* Two consumers never hold the same claim, so one result at most is published
\* for each claim, and only a holder of the row's newest claim can publish.
ClaimsAreDistinct ==
    \A c, d \in Consumers : \A r \in Requests :
        Holds(c, r) /\ Holds(d, r) /\ state[r] # "purged" =>
            /\ con[c].token <= token[r]
            /\ con[c].token = con[d].token => c = d

\* The refinement mapping: a lease is live until it runs out.
Live == [r \in Requests |-> lease[r] > 0]
Contract == INSTANCE RequestContract WITH live <- Live, expirations <- expiries

\* The PostgreSQL store and its workers keep the contract of
\* InMemoryRequestStore: one end per request, published under the newest
\* claim while its lease lasts, and at most MaxExpirations lost leases.
KeepsContract == Contract!Spec

\* A consumer whose claim was cancelled, taken over or ran out, or whose
\* request has a deadline, leaves it even if its inference never returns.
DeadWorkStops ==
    \A c \in Consumers, r \in Requests :
        (Holds(c, r) /\ (deadline[r] # Never \/ ~Current(ClaimOf(c)))) ~> ~Holds(c, r)

\* Every submitted request ends, whatever store calls fail and however often
\* its gateways crash, provided that inference returns and that from some time
\* on no admission is refused and no gateway is shut down in order.  Both give
\* the claim back without counting it, and the code sets no limit on them: a
\* request without a deadline may be deferred for ever.
EverySubmissionEnds ==
    (\A c \in Consumers : WF_vars(Dispatch(c))) /\ <>[][releases' = releases]_vars =>
        \A r \in Requests : state[r] \in Pending ~> state[r] \in Ended
=============================================================================
