------------------------- MODULE RunnerLeadership -------------------------
(***************************************************************************)
(* Leader election of the runner control plane (kairyu/runners): one       *)
(* lease row per election in PostgreSQL with a fencing token, one elector  *)
(* per contender with a cached copy of its lease, one election runtime per *)
(* contender that campaigns and renews in a thread, and the fenced         *)
(* controller that runs a mutation only after the store has validated the  *)
(* cached lease.                                                           *)
(*                                                                         *)
(* A step is what happens under one lock or in one transaction.  A store   *)
(* call may fail before it commits, or commit and lose its reply.          *)
(***************************************************************************)
EXTENDS Naturals

CONSTANTS
    Holders,          \* contenders (holder_id), one process each
    LeaseTerm,        \* lease_seconds
    MaxFencingToken,  \* _MAX_FENCING_TOKEN
    MaxTime,          \* bound on the store clock
    None              \* Python's None

VARIABLES
    now,       \* clock_timestamp() of the store
    row,       \* the election's row of runner_leader_leases, or None
    lease,     \* RunnerLeaderElector._lease of each contender
    state,     \* RunnerLeaderElectionRuntime._state
    stop,      \* RunnerLeaderElectionRuntime._stop
    op,        \* where run_once is, under _operation_lock
    snapshot,  \* RunnerLeaderElectionRuntime._current_lease
    mutation,  \* where the one running mutate() is, under _execution_lock
    lastToken, \* LeaderFencedRunnerController._last_fencing_token
    issued     \* history: the last token any contender's mutation ran under

storeVars == <<now, row>>
vars == <<now, row, lease, state, stop, op, snapshot, mutation, lastToken, issued>>

\* RunnerLeaderLease, a row of the store or a copy of it.
Lease == [holder : Holders, token : Nat, renewed : Nat, until : Nat]
ASSUME LeadershipAssumption ==
    /\ LeaseTerm \in Nat \ {0}
    /\ MaxFencingToken \in Nat
    /\ MaxTime \in Nat
    /\ None \notin Lease

RuntimeState == {"new", "running", "stopping", "stopped", "failed"}

\* An election operation, and the lease it returned once it has settled.
Operation == [at : {"idle", "campaign", "renew", "failed", "settled"},
              returned : Lease \cup {None}]

\* A mutation, and the authority it runs under once it has one.
Mutation == [at : {"idle", "begun", "running", "revoking"}, token : Nat, until : Nat]

OpAt(a) == [at |-> a, returned |-> None]
MutationAt(a) == [at |-> a, token |-> 0, until |-> 0]

TypeOK ==
    /\ now \in Nat
    /\ row \in Lease \cup {None}
    /\ lease \in [Holders -> Lease \cup {None}]
    /\ state \in [Holders -> RuntimeState]
    /\ stop \in [Holders -> BOOLEAN]
    /\ op \in [Holders -> Operation]
    /\ snapshot \in [Holders -> Lease \cup {None}]
    /\ mutation \in [Holders -> Mutation]
    /\ lastToken \in [Holders -> Nat]
    /\ issued \in Nat

Init ==
    /\ now = 0
    /\ row = None
    /\ lease = [h \in Holders |-> None]
    /\ state = [h \in Holders |-> "new"]
    /\ stop = [h \in Holders |-> FALSE]
    /\ op = [h \in Holders |-> OpAt("idle")]
    /\ snapshot = [h \in Holders |-> None]
    /\ mutation = [h \in Holders |-> MutationAt("idle")]
    /\ lastToken = [h \in Holders |-> 0]
    /\ issued = 0

-----------------------------------------------------------------------------
(* The lease store: every operation is one transaction under an advisory   *)
(* lock, at the store's own time.                                          *)

\* Mutant: a lease is taken for expired one tick early.
LiveUntilEarly(r) == r # None /\ r.until > now + 1

Live(r) == r # None /\ r.until > now

\* The row still carries the caller's tenure (holder and token) and is live.
Current(l) == Live(row) /\ row.holder = l.holder /\ row.token = l.token

\* Mutant: releasing a lease forgets its token.
NextTokenForgets ==
    IF row = None \/ row.until < row.renewed + LeaseTerm THEN 1 ELSE row.token + 1

NextToken == IF row = None THEN 1 ELSE row.token + 1

Granted(h) ==
    [holder |-> h, token |-> NextToken, renewed |-> now, until |-> now + LeaseTerm]

Extended ==
    [holder |-> row.holder, token |-> row.token, renewed |-> now, until |-> now + LeaseTerm]

Released ==
    [holder |-> row.holder, token |-> row.token, renewed |-> row.renewed, until |-> now]

Tick ==
    /\ now < MaxTime
    /\ now' = now + 1
    /\ UNCHANGED <<row, lease, state, stop, op, snapshot, mutation, lastToken, issued>>

-----------------------------------------------------------------------------
(* run_once: check the life cycle, campaign or renew through the elector,  *)
(* then publish the outcome to the runtime's snapshot.                     *)

\* Mutant: run_once does not look at the life cycle.
OpBeginAlways(h) ==
    /\ op[h].at = "idle"
    /\ op' = [op EXCEPT ![h] = OpAt(IF lease[h] = None THEN "campaign" ELSE "renew")]
    /\ UNCHANGED <<storeVars, lease, state, stop, snapshot, mutation, lastToken, issued>>

OpBegin(h) ==
    /\ op[h].at = "idle"
    /\ state[h] \in {"new", "running"}
    /\ op' = [op EXCEPT ![h] = OpAt(IF lease[h] = None THEN "campaign" ELSE "renew")]
    /\ UNCHANGED <<storeVars, lease, state, stop, snapshot, mutation, lastToken, issued>>

\* What the elector and the operation make of the answer: the reply arrives,
\* or the connection is lost and the elector keeps what it had.
Answer(h, l) ==
    \/ /\ lease' = [lease EXCEPT ![h] = l]
       /\ op' = [op EXCEPT ![h] = [at |-> "settled", returned |-> l]]
    \/ /\ op' = [op EXCEPT ![h] = OpAt("failed")]
       /\ UNCHANGED lease

OpCampaign(h) ==
    /\ op[h].at = "campaign"
    /\ \/ /\ ~ Live(row)                         \* free, released or expired
          /\ NextToken <= MaxFencingToken
          /\ row' = Granted(h)
          /\ Answer(h, Granted(h))
       \/ /\ Live(row) /\ row.holder = h         \* our own tenure, still live
          /\ Answer(h, row)
          /\ UNCHANGED row
       \/ /\ Live(row) /\ row.holder # h
          /\ Answer(h, None)
          /\ UNCHANGED row
    /\ UNCHANGED <<now, state, stop, snapshot, mutation, lastToken, issued>>

OpRenew(h) ==
    /\ op[h].at = "renew"
    /\ \/ /\ lease[h] # None /\ Current(lease[h])
          /\ row' = Extended
          /\ Answer(h, Extended)
       \/ /\ lease[h] # None /\ ~ Current(lease[h])   \* StaleRunnerLeaderLeaseError
          /\ lease' = [lease EXCEPT ![h] = None]
          /\ op' = [op EXCEPT ![h] = OpAt("failed")]
          /\ UNCHANGED row
       \/ /\ lease[h] = None                          \* dropped by a mutation
          /\ op' = [op EXCEPT ![h] = OpAt("failed")]
          /\ UNCHANGED <<row, lease>>
    /\ UNCHANGED <<now, state, stop, snapshot, mutation, lastToken, issued>>

\* The store was out of reach, or no fencing token is left: nothing changed.
OpUnreachable(h) ==
    /\ op[h].at \in {"campaign", "renew"}
    /\ op' = [op EXCEPT ![h] = OpAt("failed")]
    /\ UNCHANGED <<storeVars, lease, state, stop, snapshot, mutation, lastToken, issued>>

OpSettle(h) ==
    /\ op[h].at \in {"failed", "settled"}
    /\ snapshot' = [snapshot EXCEPT ![h] = IF op[h].at = "failed" THEN lease[h]
                                           ELSE op[h].returned]
    /\ op' = [op EXCEPT ![h] = OpAt("idle")]
    /\ UNCHANGED <<storeVars, lease, state, stop, mutation, lastToken, issued>>

-----------------------------------------------------------------------------
(* mutate: admission under the life cycle, the store's authority, the      *)
(* operation itself, and the revocation of the snapshot on refusal.        *)

MutateBegin(h) ==
    /\ mutation[h].at = "idle"
    /\ state[h] = "running"
    /\ mutation' = [mutation EXCEPT ![h] = MutationAt("begun")]
    /\ UNCHANGED <<storeVars, lease, state, stop, op, snapshot, lastToken, issued>>

\* The store validates the cached lease and the answer agrees with it.  A
\* renewal whose reply was lost leaves a cached expiry that does not agree.
Validated(h) ==
    /\ lease[h] # None
    /\ Current(lease[h])
    /\ row.until = lease[h].until
    /\ now >= lease[h].renewed

\* Mutant: the controller remembers the holder instead of the token.
MutateAuthorizedHolder(h) ==
    /\ mutation[h].at = "begun"
    /\ Validated(h)
    /\ mutation' = [mutation EXCEPT
            ![h] = [at |-> "running", token |-> row.token, until |-> row.until]]
    /\ lastToken' = [lastToken EXCEPT ![h] = row.holder]
    /\ issued' = row.token
    /\ UNCHANGED <<storeVars, lease, state, stop, op, snapshot>>

\* Mutant: the controller remembers a token that was not issued yet.
MutateAuthorizedAhead(h) ==
    /\ mutation[h].at = "begun"
    /\ Validated(h)
    /\ row.token >= lastToken[h]
    /\ mutation' = [mutation EXCEPT
            ![h] = [at |-> "running", token |-> row.token, until |-> row.until]]
    /\ lastToken' = [lastToken EXCEPT ![h] = row.token + 1]
    /\ issued' = row.token
    /\ UNCHANGED <<storeVars, lease, state, stop, op, snapshot>>

\* The controller has also seen no newer token: the operation starts.
MutateAuthorized(h) ==
    /\ mutation[h].at = "begun"
    /\ Validated(h)
    /\ row.token >= lastToken[h]
    /\ mutation' = [mutation EXCEPT
            ![h] = [at |-> "running", token |-> row.token, until |-> row.until]]
    /\ lastToken' = [lastToken EXCEPT ![h] = row.token]
    /\ issued' = row.token
    /\ UNCHANGED <<storeVars, lease, state, stop, op, snapshot>>

\* The elector drops its lease, then the runtime drops its snapshot.
MutateRefused(h) ==
    /\ mutation[h].at = "begun"
    /\ ~ Validated(h)
    /\ lease' = [lease EXCEPT ![h] = None]
    /\ mutation' = [mutation EXCEPT ![h] = MutationAt("revoking")]
    /\ UNCHANGED <<storeVars, state, stop, op, snapshot, lastToken, issued>>

MutateRevoke(h) ==
    /\ mutation[h].at = "revoking"
    /\ snapshot' = [snapshot EXCEPT ![h] = None]
    /\ mutation' = [mutation EXCEPT ![h] = MutationAt("idle")]
    /\ UNCHANGED <<storeVars, lease, state, stop, op, lastToken, issued>>

\* The operation returned or raised, or the store was out of reach.
MutateEnd(h) ==
    /\ mutation[h].at \in {"begun", "running"}
    /\ mutation' = [mutation EXCEPT ![h] = MutationAt("idle")]
    /\ UNCHANGED <<storeVars, lease, state, stop, op, snapshot, lastToken, issued>>

-----------------------------------------------------------------------------
(* Life cycle of the runtime.                                              *)

Start(h) ==
    /\ state[h] = "new"
    /\ state' = [state EXCEPT ![h] = "running"]
    /\ stop' = [stop EXCEPT ![h] = FALSE]
    /\ UNCHANGED <<storeVars, lease, op, snapshot, mutation, lastToken, issued>>

\* The election thread could not start, or died on a BaseException.
ThreadDies(h) ==
    /\ state[h] \in {"new", "running"}
    /\ op[h].at = "idle"
    /\ state' = [state EXCEPT ![h] = "failed"]
    /\ UNCHANGED <<storeVars, lease, stop, op, snapshot, mutation, lastToken, issued>>

CloseBegin(h) ==
    /\ state[h] # "stopped"
    /\ state' = [state EXCEPT ![h] = IF @ = "failed" THEN @ ELSE "stopping"]
    /\ stop' = [stop EXCEPT ![h] = TRUE]
    /\ UNCHANGED <<storeVars, lease, op, snapshot, mutation, lastToken, issued>>

\* Mutant: close() does not wait for active mutations.
CloseFinishEarly(h) ==
    /\ stop[h]
    /\ state[h] # "stopped"
    /\ op[h].at = "idle"
    /\ \/ /\ lease[h] # None /\ Current(lease[h])
          /\ row' = Released
       \/ UNCHANGED row
    /\ lease' = [lease EXCEPT ![h] = None]
    /\ snapshot' = [snapshot EXCEPT ![h] = None]
    /\ state' = [state EXCEPT ![h] = "stopped"]
    /\ UNCHANGED <<now, stop, op, mutation, lastToken, issued>>

\* The thread is joined and no mutation is active: resign, or abandon the
\* lease when the release fails or its reply is lost.
CloseFinish(h) ==
    /\ stop[h]
    /\ state[h] # "stopped"
    /\ op[h].at = "idle"
    /\ mutation[h].at = "idle"
    /\ \/ /\ lease[h] # None /\ Current(lease[h])
          /\ row' = Released
       \/ UNCHANGED row
    /\ lease' = [lease EXCEPT ![h] = None]
    /\ snapshot' = [snapshot EXCEPT ![h] = None]
    /\ state' = [state EXCEPT ![h] = "stopped"]
    /\ UNCHANGED <<now, stop, op, mutation, lastToken, issued>>

\* The process dies and a new one starts under the same holder_id.
Restart(h) ==
    /\ lease' = [lease EXCEPT ![h] = None]
    /\ state' = [state EXCEPT ![h] = "new"]
    /\ stop' = [stop EXCEPT ![h] = FALSE]
    /\ op' = [op EXCEPT ![h] = OpAt("idle")]
    /\ snapshot' = [snapshot EXCEPT ![h] = None]
    /\ mutation' = [mutation EXCEPT ![h] = MutationAt("idle")]
    /\ lastToken' = [lastToken EXCEPT ![h] = 0]
    /\ UNCHANGED <<storeVars, issued>>

Next ==
    \/ Tick
    \/ \E h \in Holders :
        \/ OpBegin(h) \/ OpCampaign(h) \/ OpRenew(h) \/ OpUnreachable(h) \/ OpSettle(h)
        \/ MutateBegin(h) \/ MutateAuthorized(h) \/ MutateRefused(h)
        \/ MutateRevoke(h) \/ MutateEnd(h)
        \/ Start(h) \/ ThreadDies(h) \/ CloseBegin(h) \/ CloseFinish(h) \/ Restart(h)

Spec == Init /\ [][Next]_vars

-----------------------------------------------------------------------------
(* Properties.                                                             *)

\* A lease the elector still caches and that has not passed its own expiry is
\* the tenure the store holds: no process can believe, by its own copy, in a
\* leadership that another contender has taken over, whatever replies were
\* lost and however the runtime is closed (elector, leadership.py).
UnexpiredLeaseIsCurrent ==
    \A h \in Holders :
        lease[h] # None /\ lease[h].until > now =>
            /\ Live(row)
            /\ row.holder = h
            /\ row.token = lease[h].token

\* A mutation that started under an authority which has not expired yet is run
\* by the store's current leader: closing a runtime waits for its mutations, so
\* a released lease never leaves a writer behind (close, leadership_runtime.py).
UnexpiredWriterIsLeader ==
    \A h \in Holders :
        mutation[h].at = "running" /\ mutation[h].until > now =>
            /\ Live(row)
            /\ row.holder = h
            /\ row.token = mutation[h].token

\* The tokens mutations run under never go back, across all contenders: the
\* order in which sinks may compare fencing tokens is the order of authority.
AuthorityNeverRegresses == [][issued' >= issued]_vars

\* The controller's own monotonicity check (mutate, leadership.py:468) is never
\* what refuses a mutation: what the store validates is never older than what
\* this controller has run under.
ControllerFenceNeverTrips ==
    \A h \in Holders :
        mutation[h].at = "begun" /\ Validated(h) => row.token >= lastToken[h]

\* After close() has returned nothing of the runtime is left: no cached lease,
\* no leadership shown in status(), no running mutation or election operation.
StoppedIsQuiet ==
    \A h \in Holders :
        state[h] = "stopped" =>
            /\ lease[h] = None
            /\ snapshot[h] = None
            /\ op[h].at = "idle"
            /\ mutation[h].at = "idle"

-----------------------------------------------------------------------------
(* The inductive invariant behind them.                                    *)

TokenOf(r) == IF r = None THEN 0 ELSE r.token

\* What a contender may hold a copy of: the current tenure, with an expiry the
\* store has not shortened, or an older tenure that has run out.
Held(r, time, h, token, until) ==
    /\ r # None
    /\ token <= r.token
    /\ token = r.token => r.holder = h /\ until <= r.until
    /\ token < r.token => until <= time

\* Cached leases and running authorities are held in that sense, and the row
\* promises no more than one term, so that a renewal never shortens it.
HeldInv ==
    /\ row # None => row.until <= now + LeaseTerm
    /\ \A h \in Holders :
        /\ lease[h] # None =>
            lease[h].holder = h /\ Held(row, now, h, lease[h].token, lease[h].until)
        /\ mutation[h].at = "running" => Held(row, now, h, mutation[h].token, mutation[h].until)

\* No token that was used anywhere is newer than the store's.
TokenInv ==
    /\ \A h \in Holders : lastToken[h] <= TokenOf(row)
    /\ issued <= TokenOf(row)

LeadershipInv == TypeOK /\ HeldInv /\ TokenInv /\ StoppedIsQuiet
=============================================================================
