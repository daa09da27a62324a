------------------------- MODULE AsyncRequestsProofs ------------------------
(***************************************************************************)
(* Proofs about AsyncRequests, for any requests, consumers and gateways:   *)
(* the inductive invariant, that what consumers, gateways, clients,        *)
(* claim_next and the passing of time do keeps it, the theorems, and that  *)
(* RequestContract is kept.                                                *)
(***************************************************************************)
EXTENDS AsyncRequests, TLAPS

RowType ==
    /\ state \in [Requests -> {"new", "purged"} \cup Pending \cup Terminal]
    /\ token \in [Requests -> Nat]
    /\ worker \in [Requests -> Gateways \cup {None}]
    /\ lease \in [Requests -> 0..LeaseTicks]
    /\ deadline \in [Requests -> Nat \cup {Never}]
    /\ reclaims \in [Requests -> Nat] /\ expiries \in [Requests -> Nat]
    /\ \A r \in Requests : state[r] \notin Claimable => worker[r] = None /\ lease[r] = 0

Fields ==
    [pc : {"idle", "stopped", "claimed", "marking", "working", "publishing",
           "failing", "deferring", "releasing"},
     request : Requests \cup {None}, token : Nat, left : 0..LeaseTicks,
     elapsed : 0..LeaseTicks, lost : BOOLEAN, signal : BOOLEAN,
     listed : BOOLEAN, hb : {"off", "sleep", "asking"}, tries : 0..1]

ConType == con \in [Consumers -> Fields]

RestType ==
    /\ cooldown \in [Owners -> Nat]
    /\ draining \in SUBSET Gateways /\ releases \in Nat

\* A consumer that will call the store has a request.
BusyInv ==
    \A c \in Consumers : con[c].pc \notin {"idle", "stopped"} \/ con[c].hb # "off" =>
        con[c].request \in Requests

\* A lease never outlasts the deadline: renewing it never shortens it.
DeadlineInv ==
    \A r \in Requests : state[r] \in Claimable /\ deadline[r] # Never => lease[r] <= deadline[r]

\* The audit rows count the lost leases of a request that has not ended.
CountInv == \A r \in Requests : state[r] \in Pending \cup {"new"} => reclaims[r] = expiries[r]

RowInv == RowType /\ DeadlineInv /\ CountInv
ConInv == ConType /\ RestType /\ BusyInv
FenceInv == ClaimsAreDistinct /\ LocalLeaseIsExclusive

IInv == RowInv /\ ConInv /\ FenceInv

USE AsyncAssumption

(***************************************************************************)
(* What the transactions do to the rows.                                   *)
(***************************************************************************)
\* A row that leaves its claim is well formed.
LEMMA LeaveRow ==
    ASSUME RowInv, NEW r \in Requests, NEW s \in {"queued"} \cup Terminal, NEW n \in {0, 1},
           state[r] \in Pending, Leave(r, s, n)
    PROVE  RowInv'
<1>1. RowType'
  BY DEF RowInv, RowType, Leave, Pending, Claimable, Terminal
<1>2. DeadlineInv'
  BY ZenonT(60) DEF RowInv, RowType, DeadlineInv, Leave, Claimable, Terminal
<1>3. CountInv'
  BY ZenonT(60) DEF RowInv, RowType, CountInv, Leave, Pending, Claimable, Terminal
<1> QED BY <1>1, <1>2, <1>3, ZenonT(60) DEF RowInv

\* The longest lease that the deadline allows is a lease.
LEMMA LeaseUntilType ==
    ASSUME RowInv, NEW r \in Requests
    PROVE  /\ LeaseUntil(r) \in 0..LeaseTicks
           /\ deadline[r] # Never => LeaseUntil(r) <= deadline[r]
           /\ deadline[r] # 0 => LeaseUntil(r) > 0
           /\ state[r] \in Claimable => lease[r] <= LeaseUntil(r)
<1>1. deadline[r] \in Nat \cup {Never} /\ lease[r] \in 0..LeaseTicks
  BY ZenonT(60) DEF RowInv, RowType
<1>2. state[r] \in Claimable /\ deadline[r] # Never => lease[r] <= deadline[r]
  BY ZenonT(60) DEF RowInv, DeadlineInv
<1> QED BY <1>1, <1>2 DEF LeaseUntil, Min2

\* renew_claim and mark_running keep the claim and never shorten its lease.
Touch(r) ==
    /\ state[r] \in Claimable /\ lease[r] > 0 /\ ~Due(r)
    /\ state' = [state EXCEPT ![r] = state'[r]] /\ state'[r] \in Claimable
    /\ lease' = [lease EXCEPT ![r] = lease'[r]] /\ lease'[r] >= lease[r]
    /\ lease'[r] \in 0..LeaseTicks
    /\ deadline[r] # Never => lease'[r] <= deadline[r]
    /\ state[r] = "running" => state'[r] = "running"
    /\ UNCHANGED <<token, worker, deadline, reclaims, expiries>>

\* A renewal moves one row and gives it the lease LeaseUntil.
LEMMA RenewTouches ==
    ASSUME RowInv, NEW k, k.request \in Requests, Renewed(k)
    PROVE  Touch(k.request) /\ lease'[k.request] = LeaseUntil(k.request)
<1> DEFINE r == k.request
<1>1. state[r] \in Claimable /\ lease[r] > 0 /\ ~Due(r)
  BY ZenonT(60) DEF Renewed, Accepted, Current
<1>2. lease' = [lease EXCEPT ![r] = LeaseUntil(r)] /\ state' = state
      /\ UNCHANGED <<token, worker, deadline, reclaims, expiries>>
  BY ZenonT(60) DEF Renewed
<1>3. state \in [Requests -> {"new", "purged"} \cup Pending \cup Terminal]
      /\ lease \in [Requests -> 0..LeaseTicks]
  BY ZenonT(60) DEF RowInv, RowType
<1>4. lease'[r] = LeaseUntil(r) /\ state' = [state EXCEPT ![r] = state'[r]] /\ state'[r] = state[r]
  BY <1>2, <1>3, ZenonT(60)
<1> QED BY <1>1, <1>2, <1>3, <1>4, LeaseUntilType, ZenonT(60) DEF Touch

\* mark_running moves one row and leaves its lease.
LEMMA MarkTouches ==
    ASSUME RowInv, NEW k, k.request \in Requests, MarkedRunning(k)
    PROVE  Touch(k.request) /\ lease' = lease
<1> DEFINE r == k.request
<1>1. state[r] = "claimed" /\ lease[r] > 0 /\ ~Due(r)
  BY ZenonT(60) DEF MarkedRunning, Accepted, Current
<1>2. state' = [state EXCEPT ![r] = "running"]
      /\ UNCHANGED <<lease, token, worker, deadline, reclaims, expiries>>
  BY ZenonT(60) DEF MarkedRunning
<1>3. state \in [Requests -> {"new", "purged"} \cup Pending \cup Terminal]
      /\ lease \in [Requests -> 0..LeaseTicks]
  BY ZenonT(60) DEF RowInv, RowType
<1>4. deadline[r] # Never => lease[r] <= deadline[r]
  BY <1>1, ZenonT(60) DEF RowInv, DeadlineInv, Claimable
<1>5. state'[r] = "running" /\ lease' = [lease EXCEPT ![r] = lease'[r]]
  BY <1>2, <1>3, ZenonT(60)
<1>6. state[r] \in Claimable /\ state'[r] \in Claimable /\ state' = [state EXCEPT ![r] = state'[r]]
  BY <1>1, <1>2, <1>5, ZenonT(60) DEF Claimable
<1>7. lease'[r] = lease[r] /\ lease'[r] >= lease[r] /\ lease'[r] \in 0..LeaseTicks
  BY <1>2, <1>3
<1> QED BY <1>1, <1>2, <1>4, <1>5, <1>6, <1>7, ZenonT(60) DEF Touch

\* Moving one claimed row keeps the row invariant.
LEMMA TouchRow ==
    ASSUME RowInv, NEW r \in Requests, Touch(r)
    PROVE  RowInv'
<1>1. RowType'
  BY ZenonT(60) DEF RowInv, RowType, Touch, Pending, Claimable, Terminal
<1>2. DeadlineInv'
  BY ZenonT(60) DEF RowInv, RowType, DeadlineInv, Touch
<1>3. CountInv'
  BY ZenonT(60) DEF RowInv, RowType, CountInv, Touch, Pending, Claimable
<1> QED BY <1>1, <1>2, <1>3, ZenonT(60) DEF RowInv

\* So does leaving every row alone.
LEMMA SameRow ==
    ASSUME RowInv, UNCHANGED rowVars
    PROVE  RowInv'
BY ZenonT(60) DEF RowInv, RowType, DeadlineInv, CountInv, rowVars

\* Either the row of k ends, or nothing changes.
LEMMA RefusedRow ==
    ASSUME RowInv, NEW k, k.request \in Requests, Refused(k)
    PROVE  RowInv'
<1>1. CASE Due(k.request) /\ Expire(k.request)
  BY <1>1, LeaveRow, ZenonT(60) DEF Due, Expire, Terminal
<1>2. CASE UNCHANGED rowVars
  BY <1>2, SameRow, ZenonT(60)
<1> QED BY <1>1, <1>2, ZenonT(60) DEF Refused

(***************************************************************************)
(* Fences and local leases.                                                *)
(***************************************************************************)
\* Consumer c keeps its claim or drops it, and with KeepsLease it believes in
\* no longer lease than before.
KeepsClaim(c) ==
    con'[c].request # None =>
        con'[c].request = con[c].request /\ con'[c].token = con[c].token

KeepsLease(c) == con'[c].request # None => con'[c].left <= con[c].left

\* Fences only grow, and a request that ended or was removed stays so.
Forward ==
    \A r \in Requests :
        /\ token'[r] >= token[r] \/ state'[r] = "purged"
        /\ state[r] = "purged" => state'[r] = "purged"
        /\ state[r] \in Ended => state'[r] \in Ended

\* Claims stay distinct when fences only grow and consumers keep or drop theirs.
LEMMA DistinctStep ==
    ASSUME RowType, RowType', ConType, ConType', ClaimsAreDistinct, Forward,
           \A c \in Consumers : KeepsClaim(c)
    PROVE  ClaimsAreDistinct'
<1> SUFFICES ASSUME NEW c \in Consumers, NEW d \in Consumers, NEW r \in Requests,
                    Holds(c, r)', Holds(d, r)', state'[r] # "purged"
             PROVE  /\ con'[c].token <= token'[r]
                    /\ con'[c].token = con'[d].token => c = d
  BY ZenonT(60) DEF ClaimsAreDistinct
<1>1. \A e \in Consumers : Holds(e, r)' => Holds(e, r) /\ con'[e].token = con[e].token
  BY ZenonT(60) DEF Holds, KeepsClaim
<1>2. state[r] # "purged" /\ token'[r] >= token[r]
  BY ZenonT(60) DEF Forward
<1>3. con[c].token <= token[r] /\ (con[c].token = con[d].token => c = d)
  BY <1>1, <1>2, ZenonT(60) DEF ClaimsAreDistinct
<1>4. con[c].token \in Nat /\ token[r] \in Nat /\ token'[r] \in Nat
  BY ZenonT(60) DEF ConType, RowType, Fields
<1> QED BY <1>1, <1>2, <1>3, <1>4

\* The claim that the row of r carries survives, its lease no shorter.
Survives(r) ==
    /\ state'[r] \in Claimable /\ token'[r] = token[r] /\ worker'[r] = worker[r]
    /\ lease'[r] >= lease[r]

\* A consumer that keeps its belief in a lease keeps it rightly.
LEMMA ExclusiveAt ==
    ASSUME RowType, RowType', ConType, ConType', LocalLeaseIsExclusive, Forward,
           NEW c \in Consumers, NEW r \in Requests, KeepsClaim(c), KeepsLease(c),
           Holds(c, r)', con'[c].left > 0, state'[r] \notin Ended,
           Current(ClaimOf(c)) /\ Holds(c, r) => Survives(r)
    PROVE  Current(ClaimOf(c))' /\ con'[c].left <= lease'[r]
<1>1. Holds(c, r) /\ con'[c].token = con[c].token /\ con'[c].left <= con[c].left
  BY ZenonT(60) DEF Holds, KeepsClaim, KeepsLease
<1>2. con[c].left \in Nat /\ con'[c].left \in Nat /\ lease[r] \in Nat /\ lease'[r] \in Nat
  BY DEF ConType, RowType, Fields
<1>3. Current(ClaimOf(c)) /\ con[c].left <= lease[r]
  BY <1>1, <1>2 DEF LocalLeaseIsExclusive, Forward
<1>4. Survives(r)
  BY <1>1, <1>3, ZenonT(60)
<1>5. con'[c].left <= lease'[r] /\ lease'[r] > 0
  BY <1>1, <1>2, <1>3, <1>4 DEF Survives
<1>6. ClaimOf(c)' = ClaimOf(c) /\ ClaimOf(c).request = r
  BY <1>1, ZenonT(60) DEF ClaimOf, Holds
<1> QED BY <1>3, <1>4, <1>5, <1>6, ZenonT(60) DEF Current, Survives

\* The fence invariant after any step that goes forward and drops no live claim.
LEMMA FenceStep ==
    ASSUME RowType, RowType', ConType, ConType', FenceInv, Forward,
           \A c \in Consumers : KeepsClaim(c) /\ KeepsLease(c),
           \A c \in Consumers, r \in Requests :
               Current(ClaimOf(c)) /\ Holds(c, r) /\ Holds(c, r)' /\ state'[r] \notin Ended => Survives(r)
    PROVE  FenceInv'
<1>1. ClaimsAreDistinct'
  BY DistinctStep, ZenonT(60) DEF FenceInv
<1>2. LocalLeaseIsExclusive'
  <2> SUFFICES ASSUME NEW c \in Consumers, NEW r \in Requests, Holds(c, r)', con'[c].left > 0,
                      state'[r] \notin Ended
               PROVE  Current(ClaimOf(c))' /\ con'[c].left <= lease'[r]
    BY ZenonT(60) DEF LocalLeaseIsExclusive
  <2> QED BY ExclusiveAt, ZenonT(60) DEF FenceInv
<1> QED BY <1>1, <1>2, ZenonT(60) DEF FenceInv

\* Every consumer keeps or drops what it has.
KeepsAll == \A c \in Consumers : KeepsClaim(c) /\ KeepsLease(c)

\* A step that leaves the rows alone keeps rows and fences.
LEMMA QuietStep ==
    ASSUME RowInv, ConType, ConType', FenceInv, KeepsAll, UNCHANGED rowVars
    PROVE  RowInv' /\ FenceInv'
<1>1. RowInv'
  BY SameRow, ZenonT(60)
<1>2. Forward
  BY DEF Forward, rowVars, RowInv, RowType
<1>3. \A c \in Consumers, r \in Requests : Current(ClaimOf(c)) /\ Holds(c, r) => Survives(r)
  BY DEF Current, ClaimOf, Holds, Survives, rowVars, RowInv, RowType
<1> QED BY <1>1, <1>2, <1>3, FenceStep, ZenonT(60) DEF RowInv, KeepsAll

\* Ending a row keeps rows and fences.
LEMMA EndedStep ==
    ASSUME RowInv, ConType, ConType', FenceInv, KeepsAll,
           NEW r \in Requests, NEW s \in Terminal, NEW n \in {0, 1}, state[r] \in Pending, Leave(r, s, n)
    PROVE  RowInv' /\ FenceInv'
<1>1. RowInv'
  BY LeaveRow, ZenonT(60)
<1>2. Forward
  BY DEF Forward, Leave, RowInv, RowType, Ended, Pending, Claimable, Terminal
<1>3. \A c \in Consumers, q \in Requests :
          Current(ClaimOf(c)) /\ Holds(c, q) /\ state'[q] \notin Ended => Survives(q)
  BY DEF Current, ClaimOf, Holds, Survives, Leave, RowInv, RowType, Ended
<1> QED BY <1>1, <1>2, <1>3, FenceStep, ZenonT(60) DEF RowInv, KeepsAll

\* So does a refused call.
LEMMA RefusedStep ==
    ASSUME RowInv, ConType, ConType', FenceInv, KeepsAll,
           NEW k, k.request \in Requests, Refused(k)
    PROVE  RowInv' /\ FenceInv'
<1>1. CASE Due(k.request) /\ Expire(k.request)
  BY <1>1, EndedStep, ZenonT(60) DEF Due, Expire, Terminal
<1>2. CASE UNCHANGED rowVars
  BY <1>2, QuietStep, ZenonT(60)
<1> QED BY <1>1, <1>2, ZenonT(60) DEF Refused

\* A claim that its holder gives back was nobody else's.
LEMMA RequeueStep ==
    ASSUME RowInv, ConType, ConType', FenceInv, KeepsAll,
           NEW c \in Consumers, con[c].request \in Requests, Requeued(ClaimOf(c)), con'[c].request = None
    PROVE  RowInv' /\ FenceInv'
<1> DEFINE r == con[c].request
<1>1. state[r] \in Claimable /\ token[r] = con[c].token /\ Leave(r, "queued", 1)
  BY ZenonT(60) DEF Requeued, Accepted, Current, ClaimOf
<1>2. RowInv'
  BY <1>1, LeaveRow, ZenonT(60) DEF Pending
<1>3. Forward
  BY <1>1 DEF Forward, Leave, RowInv, RowType, Ended, Claimable, Terminal
<1>4. ASSUME NEW d \in Consumers, NEW q \in Requests,
             Current(ClaimOf(d)), Holds(d, q), Holds(d, q)'
      PROVE  Survives(q)
  <2>1. q # r
    <3> SUFFICES ASSUME q = r PROVE FALSE
      OBVIOUS
    <3>1. con[d].token = token[r] /\ state[r] # "purged"
      BY <1>1, <1>4, ZenonT(60) DEF Current, ClaimOf, Holds, Claimable
    <3>2. Holds(c, r) /\ Holds(d, r)
      BY <1>4, ZenonT(60) DEF Holds
    <3>3. c = d
      BY <1>1, <3>1, <3>2, ZenonT(60) DEF FenceInv, ClaimsAreDistinct
    <3> QED BY <1>4, <3>3, ZenonT(60) DEF Holds
  <2>2. state[q] \in Claimable
    BY <1>4, ZenonT(60) DEF Current, ClaimOf, Holds
  <2> QED BY <1>1, <2>1, <2>2 DEF Survives, Leave, RowInv, RowType
<1> QED BY <1>2, <1>3, <1>4, FenceStep, ZenonT(60) DEF RowInv, KeepsAll

\* Moving one row goes forward, and every claim survives it.
LEMMA TouchForward ==
    ASSUME RowInv, NEW r \in Requests, Touch(r)
    PROVE  /\ RowInv' /\ Forward
           /\ \A q \in Requests : state[q] \in Claimable => Survives(q)
<1>1. RowInv'
  BY TouchRow, ZenonT(60)
<1>2. Forward
  BY DEF Forward, Touch, RowInv, RowType, Ended, Claimable, Terminal
<1>3. \A q \in Requests : state[q] \in Claimable => Survives(q)
  BY DEF Survives, Touch, RowInv, RowType
<1> QED BY <1>1, <1>2, <1>3, ZenonT(60)

\* So it keeps rows and fences.
LEMMA TouchStep ==
    ASSUME RowInv, ConType, ConType', FenceInv, KeepsAll, NEW r \in Requests, Touch(r)
    PROVE  RowInv' /\ FenceInv'
<1>1. \A c \in Consumers, q \in Requests : Current(ClaimOf(c)) /\ Holds(c, q) => Survives(q)
  BY TouchForward, ZenonT(60) DEF Current, ClaimOf, Holds
<1> QED BY <1>1, TouchForward, FenceStep, ZenonT(60) DEF RowInv, KeepsAll

\* The holder of the row's claim learns the lease that the store has granted.
LEMMA LearnStep ==
    ASSUME RowInv, ConType, ConType', FenceInv,
           NEW c \in Consumers, con[c].request \in Requests, Accepted(ClaimOf(c)), Touch(con[c].request),
           con'[c].request = con[c].request, con'[c].token = con[c].token,
           con'[c].left <= lease'[con[c].request],
           \A d \in Consumers : KeepsClaim(d) /\ (d # c => KeepsLease(d))
    PROVE  RowInv' /\ FenceInv'
<1>1. RowInv' /\ Forward /\ \A q \in Requests : state[q] \in Claimable => Survives(q)
  BY TouchForward, ZenonT(60)
<1>2. ClaimsAreDistinct'
  BY <1>1, DistinctStep, ZenonT(60) DEF FenceInv, RowInv
<1>3. ASSUME NEW d \in Consumers, NEW q \in Requests, Holds(d, q)', con'[d].left > 0, state'[q] \notin Ended
      PROVE  Current(ClaimOf(d))' /\ con'[d].left <= lease'[q]
  <2>1. CASE d # c
    <3>1. Current(ClaimOf(d)) /\ Holds(d, q) => Survives(q)
      BY <1>1, ZenonT(60) DEF Current, ClaimOf, Holds
    <3> QED BY <1>1, <1>3, <2>1, <3>1, ExclusiveAt, ZenonT(60) DEF FenceInv, RowInv
  <2>2. CASE d = c
    <3>1. q = con[c].request /\ ClaimOf(c)' = ClaimOf(c) /\ ClaimOf(c).request = q
      BY <1>3, <2>2, ZenonT(60) DEF Holds, ClaimOf
    <3>2. Current(ClaimOf(c)) /\ Survives(q)
      BY <1>1, <3>1, ZenonT(60) DEF Accepted, Current
    <3>3. lease[q] \in Nat /\ lease'[q] \in Nat
      BY <1>1 DEF RowInv, RowType
    <3> QED BY <2>2, <3>1, <3>2, <3>3, SMTT(60) DEF Current, Survives
  <2> QED BY <2>1, <2>2, ZenonT(60)
<1> QED BY <1>1, <1>2, <1>3, ZenonT(60) DEF FenceInv, LocalLeaseIsExclusive

(***************************************************************************)
(* What the steps do to the consumers.                                     *)
(***************************************************************************)
LEMMA LeaseRange == 0 \in 0..LeaseTicks /\ 0 \in 0..1 /\ 1 \in 0..1
OBVIOUS

\* The record of a consumer without a claim.
LEMMA IdleType ==
    /\ Idle \in Fields /\ [Idle EXCEPT !.pc = "stopped"] \in Fields
    /\ Idle.request = None /\ Idle.hb = "off" /\ Idle.pc = "idle" /\ Idle.left = 0
<1>1. Idle \in Fields
  BY SMTT(30) DEF Idle, Fields
<1>2. [Idle EXCEPT !.pc = "stopped"] \in Fields
  BY <1>1, ZenonT(60) DEF Fields
<1> QED BY <1>1, <1>2, ZenonT(60) DEF Idle

\* All consumers but c are as before, and c drops its claim.
LEMMA EndCon ==
    ASSUME ConInv, NEW c \in Consumers, End(c)
    PROVE  ConType' /\ BusyInv' /\ KeepsAll /\ con'[c].request = None /\ UNCHANGED draining
<1>1. con' = [con EXCEPT ![c] = Rested(c)] /\ UNCHANGED draining
  BY ZenonT(60) DEF End
<1>2. Rested(c) \in Fields /\ Rested(c).request = None /\ Rested(c).hb = "off"
      /\ Rested(c).pc \in {"idle", "stopped"}
  BY IdleType, ZenonT(60) DEF Rested, Idle
<1>3. con \in [Consumers -> Fields]
  BY ZenonT(60) DEF ConInv, ConType
<1>4. con'[c] = Rested(c) /\ \A d \in Consumers : d # c => con'[d] = con[d]
  BY <1>1, <1>3, ZenonT(60)
<1>5. \A d \in Consumers : con[d].left \in Nat
  BY <1>3 DEF Fields
<1>6. ConType'
  BY <1>1, <1>2, <1>3, ZenonT(60) DEF ConType
<1>7. BusyInv'
  BY <1>2, <1>4, ZenonT(60) DEF ConInv, BusyInv
<1>8. KeepsAll
  BY <1>2, <1>4, <1>5 DEF KeepsAll, KeepsClaim, KeepsLease
<1> QED BY <1>1, <1>2, <1>4, <1>6, <1>7, <1>8, ZenonT(60)

\* Consumer c goes on with its claim.
LEMMA ContinueCon ==
    ASSUME ConInv, NEW c \in Consumers, NEW f \in Fields, Continue(c, f),
           f.request = con[c].request, f.token = con[c].token, con[c].request \in Requests
    PROVE  /\ ConType' /\ BusyInv' /\ UNCHANGED draining
           /\ con'[c] = f
           /\ \A d \in Consumers : KeepsClaim(d) /\ (d # c => KeepsLease(d))
           /\ f.left <= con[c].left => KeepsAll
<1>1. con' = [con EXCEPT ![c] = f] /\ UNCHANGED draining
  BY ZenonT(60) DEF Continue
<1>3. con \in [Consumers -> Fields]
  BY ZenonT(60) DEF ConInv, ConType
<1>4. con'[c] = f /\ \A d \in Consumers : d # c => con'[d] = con[d]
  BY <1>1, <1>3, ZenonT(60)
<1>5. \A d \in Consumers : con[d].left \in Nat
  BY <1>3 DEF Fields
<1>6. ConType'
  BY <1>1, <1>3, ZenonT(60) DEF ConType
<1>7. BusyInv'
  BY <1>4, ZenonT(60) DEF ConInv, BusyInv
<1>8. \A d \in Consumers : KeepsClaim(d) /\ (d # c => KeepsLease(d))
  BY <1>4, <1>5 DEF KeepsClaim, KeepsLease
<1>9. f.left <= con[c].left => KeepsAll
  BY <1>4, <1>8, ZenonT(60) DEF KeepsAll, KeepsLease
<1> QED BY <1>1, <1>4, <1>6, <1>7, <1>8, <1>9, ZenonT(60)

\* A step that leaves the cooldowns alone.
LEMMA RestSame ==
    ASSUME ConInv, UNCHANGED <<cooldown, draining>>, releases' \in Nat
    PROVE  RestType'
BY ZenonT(60) DEF ConInv, RestType

\* The claim that a consumer presents names its own request.
LEMMA ClaimFields ==
    ASSUME NEW c \in Consumers
    PROVE  ClaimOf(c).request = con[c].request /\ ClaimOf(c).token = con[c].token
BY ZenonT(60) DEF ClaimOf

\* What a call of consumer c may have done to the rows.
Called(c) ==
    \/ Refused(ClaimOf(c)) \/ UNCHANGED rowVars
    \/ MarkedRunning(ClaimOf(c)) \/ Renewed(ClaimOf(c))
    \/ Finished(ClaimOf(c), "succeeded") \/ Finished(ClaimOf(c), "failed")

\* Whatever a call of a consumer does to its row keeps rows and fences.
LEMMA CalledStep ==
    ASSUME RowInv, ConType, ConType', FenceInv, KeepsAll,
           NEW c \in Consumers, con[c].request \in Requests, Called(c)
    PROVE  RowInv' /\ FenceInv'
<1>1. ClaimOf(c).request \in Requests
  BY ClaimFields, ZenonT(60)
<1>2. CASE Refused(ClaimOf(c))
  BY <1>1, <1>2, RefusedStep, ZenonT(60)
<1>3. CASE UNCHANGED rowVars
  BY <1>3, QuietStep, ZenonT(60)
<1>4. CASE MarkedRunning(ClaimOf(c))
  BY <1>1, <1>4, MarkTouches, TouchStep, ZenonT(60)
<1>5. CASE Renewed(ClaimOf(c))
  BY <1>1, <1>5, RenewTouches, TouchStep, ZenonT(60)
<1>6. ASSUME NEW s \in {"succeeded", "failed"}, Finished(ClaimOf(c), s)
      PROVE  RowInv' /\ FenceInv'
  <2>1. state[ClaimOf(c).request] \in Pending /\ Leave(ClaimOf(c).request, s, 0) /\ s \in Terminal
    BY <1>6, ZenonT(60) DEF Finished, Pending, Claimable, Terminal
  <2> QED BY <1>1, <2>1, EndedStep, ZenonT(60)
<1> QED BY <1>2, <1>3, <1>4, <1>5, <1>6, ZenonT(60) DEF Called

\* A step that ends the processing of a claim.
LEMMA EndInv ==
    ASSUME IInv, NEW c \in Consumers, con[c].request \in Requests, End(c),
           Called(c) \/ Requeued(ClaimOf(c)), releases' \in Nat, cooldown' \in [Owners -> Nat]
    PROVE  IInv'
<1>1. RowInv /\ ConInv /\ ConType /\ FenceInv /\ draining \in SUBSET Gateways
  BY ZenonT(60) DEF IInv, ConInv, RestType
<1>2. ConType' /\ BusyInv' /\ KeepsAll /\ con'[c].request = None /\ RestType'
  BY <1>1, EndCon, ZenonT(60) DEF RestType
<1>3. RowInv' /\ FenceInv'
  BY <1>1, <1>2, CalledStep, RequeueStep, ZenonT(60)
<1> QED BY <1>2, <1>3, ZenonT(60) DEF IInv, ConInv

\* A step after which c goes on with its claim and no longer lease.
LEMMA GoOnInv ==
    ASSUME IInv, NEW c \in Consumers, con[c].request \in Requests, NEW f \in Fields, Continue(c, f),
           f.request = con[c].request, f.token = con[c].token, f.left <= con[c].left,
           Called(c), releases' \in Nat, UNCHANGED cooldown
    PROVE  IInv'
<1>1. RowInv /\ ConInv /\ ConType /\ FenceInv
  BY ZenonT(60) DEF IInv, ConInv
<1>2. ConType' /\ BusyInv' /\ KeepsAll /\ UNCHANGED draining
  BY <1>1, ContinueCon, ZenonT(60)
<1>3. RestType'
  BY <1>1, <1>2, RestSame, ZenonT(60)
<1>4. RowInv' /\ FenceInv'
  BY <1>1, <1>2, CalledStep, ZenonT(60)
<1> QED BY <1>2, <1>3, <1>4, ZenonT(60) DEF IInv, ConInv

\* A step after which c knows the lease of its claim.
LEMMA LearnInv ==
    ASSUME IInv, NEW c \in Consumers, con[c].request \in Requests, NEW f \in Fields, Continue(c, f),
           f.request = con[c].request, f.token = con[c].token, f.left <= lease'[con[c].request],
           Accepted(ClaimOf(c)), Touch(con[c].request), UNCHANGED <<cooldown, releases>>
    PROVE  IInv'
<1>1. RowInv /\ ConInv /\ ConType /\ FenceInv /\ releases \in Nat
  BY ZenonT(60) DEF IInv, ConInv, RestType
<1>2. /\ ConType' /\ BusyInv' /\ UNCHANGED draining /\ con'[c] = f
      /\ \A d \in Consumers : KeepsClaim(d) /\ (d # c => KeepsLease(d))
  BY <1>1, ContinueCon, ZenonT(60)
<1>3. RestType'
  BY <1>1, <1>2, RestSame, ZenonT(60)
<1>4. RowInv' /\ FenceInv'
  BY <1>1, <1>2, LearnStep, ZenonT(60)
<1> QED BY <1>2, <1>3, <1>4, ZenonT(60) DEF IInv, ConInv

\* What the invariant says of one consumer.
LEMMA Facts ==
    ASSUME IInv, NEW c \in Consumers
    PROVE  /\ con[c] \in Fields /\ con[c].left \in Nat /\ con[c].left <= con[c].left
           /\ con[c].pc \notin {"idle", "stopped"} \/ con[c].hb # "off" => con[c].request \in Requests
           /\ releases \in Nat /\ cooldown \in [Owners -> Nat]
           /\ \A r \in Requests : lease[r] \in 0..LeaseTicks
BY DEF IInv, ConInv, RestType, ConType, BusyInv, RowInv, RowType, Fields

\* The local lease is no longer than what it is counted from.
LEMMA LocalLeaseBound ==
    ASSUME NEW c \in Consumers, con[c] \in Fields, NEW n \in 0..LeaseTicks
    PROVE  LocalLease(c, n) \in 0..LeaseTicks /\ LocalLease(c, n) <= n
BY DEF LocalLease, Minus, Fields

\* mark_running keeps the invariant.
LEMMA MarkRunningInv ==
    ASSUME IInv, NEW c \in Consumers, MarkRunning(c)
    PROVE  IInv'
<1> DEFINE r == con[c].request
<1>1. r \in Requests /\ UNCHANGED <<cooldown, releases>>
  BY Facts, ZenonT(60) DEF MarkRunning
<1>2. CASE End(c) /\ Called(c)
  BY <1>1, <1>2, EndInv, Facts, ZenonT(60)
<1>3. ASSUME MarkedRunning(ClaimOf(c)),
             Continue(c, [con[c] EXCEPT !.pc = "working", !.hb = "sleep", !.elapsed = 0,
                                        !.left = LocalLease(c, lease[r])])
      PROVE  IInv'
  <2> DEFINE f == [con[c] EXCEPT !.pc = "working", !.hb = "sleep", !.elapsed = 0,
                                 !.left = LocalLease(c, lease[r])]
  <2>1. LocalLease(c, lease[r]) \in 0..LeaseTicks /\ LocalLease(c, lease[r]) <= lease[r]
    BY <1>1, Facts, LocalLeaseBound, ZenonT(60)
  <2>2. f \in Fields /\ f.request = r /\ f.token = con[c].token /\ f.left = LocalLease(c, lease[r])
    BY <2>1, Facts, LeaseRange, ZenonT(60) DEF Fields
  <2>3. Touch(r) /\ lease' = lease /\ Accepted(ClaimOf(c))
    BY <1>1, <1>3, ClaimFields, MarkTouches, ZenonT(60) DEF IInv, MarkedRunning
  <2> QED BY <1>1, <1>3, <2>1, <2>2, <2>3, LearnInv, ZenonT(60)
<1> QED BY <1>2, <1>3, ZenonT(60) DEF MarkRunning, Called

\* Learning that the claim is lost, or failing to renew, keeps the invariant.
LEMMA LoseClaimInv ==
    ASSUME IInv, NEW c \in Consumers, con[c].request \in Requests, LoseClaim(c) \/ RenewalFailed(c),
           Called(c), UNCHANGED <<cooldown, releases>>
    PROVE  IInv'
<1> DEFINE f == [con[c] EXCEPT !.hb = "off", !.left = 0, !.elapsed = 0, !.lost = TRUE]
           g == [con[c] EXCEPT !.hb = "sleep", !.elapsed = 0]
<1>1. f \in Fields /\ f.request = con[c].request /\ f.token = con[c].token /\ f.left = 0
  BY Facts, LeaseRange, ZenonT(60) DEF Fields
<1>2. g \in Fields /\ g.request = con[c].request /\ g.token = con[c].token /\ g.left = con[c].left
  BY Facts, LeaseRange, ZenonT(30) DEF Fields
<1>3. 0 <= con[c].left
  BY Facts
<1>4. CASE LoseClaim(c)
  BY <1>1, <1>3, <1>4, Facts, GoOnInv, ZenonT(60) DEF LoseClaim
<1>5. CASE Continue(c, g)
  BY <1>2, <1>5, Facts, GoOnInv, ZenonT(60)
<1> QED BY <1>4, <1>5, ZenonT(60) DEF RenewalFailed

\* The reply to a renewal keeps the invariant.
LEMMA RenewClaimInv ==
    ASSUME IInv, NEW c \in Consumers, RenewClaim(c)
    PROVE  IInv'
<1> DEFINE r == con[c].request
<1>1. r \in Requests /\ UNCHANGED <<cooldown, releases>>
  BY Facts, ZenonT(60) DEF RenewClaim
<1>2. CASE Called(c) /\ (LoseClaim(c) \/ RenewalFailed(c))
  BY <1>1, <1>2, LoseClaimInv, ZenonT(60)
<1>3. ASSUME Renewed(ClaimOf(c)),
             Continue(c, [con[c] EXCEPT !.hb = "sleep", !.elapsed = 0,
                                        !.left = LocalLease(c, LeaseUntil(r))])
      PROVE  IInv'
  <2> DEFINE f == [con[c] EXCEPT !.hb = "sleep", !.elapsed = 0,
                                 !.left = LocalLease(c, LeaseUntil(r))]
  <2>1. LeaseUntil(r) \in 0..LeaseTicks
    BY <1>1, LeaseUntilType, ZenonT(60) DEF IInv
  <2>2. LocalLease(c, LeaseUntil(r)) \in 0..LeaseTicks /\ LocalLease(c, LeaseUntil(r)) <= LeaseUntil(r)
    BY <2>1, Facts, LocalLeaseBound, ZenonT(60)
  <2>3. f \in Fields /\ f.request = r /\ f.token = con[c].token /\ f.left = LocalLease(c, LeaseUntil(r))
    BY <2>2, Facts, LeaseRange, ZenonT(60) DEF Fields
  <2>4. Touch(r) /\ lease'[r] = LeaseUntil(r) /\ Accepted(ClaimOf(c))
    BY <1>1, <1>3, ClaimFields, RenewTouches, ZenonT(60) DEF IInv, Renewed
  <2> QED BY <1>1, <1>3, <2>2, <2>3, <2>4, LearnInv, ZenonT(60)
<1> QED BY <1>2, <1>3, ZenonT(60) DEF RenewClaim, Called

\* Sending a renewal keeps the invariant.
LEMMA SendRenewalInv ==
    ASSUME IInv, NEW c \in Consumers, SendRenewal(c)
    PROVE  IInv'
<1> DEFINE f == [con[c] EXCEPT !.hb = "asking"]
<1>1. f \in Fields /\ f.request = con[c].request /\ f.token = con[c].token /\ f.left = con[c].left
  BY Facts, ZenonT(60) DEF Fields
<1>2. con[c].request \in Requests /\ Continue(c, f) /\ Called(c) /\ UNCHANGED <<cooldown, releases>>
  BY Facts, ZenonT(60) DEF SendRenewal, Called
<1> QED BY <1>1, <1>2, Facts, GoOnInv, ZenonT(60)

\* Turning down a claim that arrives during a shutdown keeps the invariant.
LEMMA RefuseProcessInv ==
    ASSUME IInv, NEW c \in Consumers, RefuseProcess(c)
    PROVE  IInv'
<1> DEFINE f == [con[c] EXCEPT !.pc = "releasing"]
<1>1. f \in Fields /\ f.request = con[c].request /\ f.token = con[c].token /\ f.left = con[c].left
  BY Facts, ZenonT(60) DEF Fields
<1>2. con[c].request \in Requests /\ Continue(c, f) /\ Called(c) /\ UNCHANGED <<cooldown, releases>>
  BY Facts, ZenonT(60) DEF RefuseProcess, Called
<1> QED BY <1>1, <1>2, Facts, GoOnInv, ZenonT(60)

\* Giving up a claim that lost its reason keeps the invariant.
LEMMA WithdrawInv ==
    ASSUME IInv, NEW c \in Consumers, Withdraw(c)
    PROVE  IInv'
<1> DEFINE f == [con[c] EXCEPT !.pc = "releasing"]
<1>1. f \in Fields /\ f.request = con[c].request /\ f.token = con[c].token /\ f.left = con[c].left
  BY Facts, ZenonT(60) DEF Fields
<1>2. con[c].request \in Requests /\ Called(c) /\ UNCHANGED <<cooldown, releases>>
  BY Facts, ZenonT(60) DEF Withdraw, Called
<1>3. CASE Continue(c, f)
  BY <1>1, <1>2, <1>3, Facts, GoOnInv, ZenonT(60)
<1>4. CASE End(c)
  BY <1>2, <1>4, Facts, EndInv, ZenonT(60)
<1> QED BY <1>3, <1>4, ZenonT(60) DEF Withdraw

\* The return of the dispatch keeps the invariant.
LEMMA DispatchInv ==
    ASSUME IInv, NEW c \in Consumers, Dispatch(c)
    PROVE  IInv'
<1>1. con[c].request \in Requests /\ Called(c) /\ UNCHANGED cooldown /\ releases' \in Nat
  BY Facts DEF Dispatch, Called
<1>2. PICK next \in {"publishing", "failing", "deferring"} : Continue(c, [con[c] EXCEPT !.pc = next])
  BY ZenonT(60) DEF Dispatch
<1> DEFINE f == [con[c] EXCEPT !.pc = next]
<1>3. f \in Fields /\ f.request = con[c].request /\ f.token = con[c].token /\ f.left = con[c].left
  BY Facts, ZenonT(60) DEF Fields
<1> QED BY <1>1, <1>2, <1>3, Facts, GoOnInv, ZenonT(60)

\* succeed keeps the invariant.
LEMMA PublishResultInv ==
    ASSUME IInv, NEW c \in Consumers, PublishResult(c)
    PROVE  IInv'
<1> DEFINE f == [con[c] EXCEPT !.tries = 1]
           g == [con[c] EXCEPT !.tries = 0, !.pc = "failing"]
<1>1. f \in Fields /\ f.request = con[c].request /\ f.token = con[c].token /\ f.left = con[c].left
  BY Facts, LeaseRange, ZenonT(60) DEF Fields
<1>2. g \in Fields /\ g.request = con[c].request /\ g.token = con[c].token /\ g.left = con[c].left
  BY Facts, LeaseRange, ZenonT(30) DEF Fields
<1>3. con[c].request \in Requests /\ Called(c) /\ UNCHANGED <<cooldown, releases>>
  BY Facts, ZenonT(60) DEF PublishResult, Called
<1>4. CASE End(c)
  BY <1>3, <1>4, Facts, EndInv, ZenonT(60)
<1>5. CASE Continue(c, f)
  BY <1>1, <1>3, <1>5, Facts, GoOnInv, ZenonT(60)
<1>6. CASE Continue(c, g)
  BY <1>2, <1>3, <1>6, Facts, GoOnInv, ZenonT(60)
<1> QED BY <1>4, <1>5, <1>6, ZenonT(60) DEF PublishResult

\* fail, defer and release keep the invariant.
LEMMA LastCallInv ==
    ASSUME IInv, NEW c \in Consumers, PublishFailure(c) \/ Defer(c) \/ Release(c)
    PROVE  IInv'
<1>1. con[c].request \in Requests /\ End(c) /\ UNCHANGED releases
  BY Facts, ZenonT(60) DEF PublishFailure, Defer, Release
<1>2. Called(c) \/ Requeued(ClaimOf(c))
  BY ZenonT(60) DEF PublishFailure, Defer, Release, Called
<1>3. cooldown' \in [Owners -> Nat]
  BY <1>1, Facts, ZenonT(60) DEF PublishFailure, Defer, Release
<1> QED BY <1>1, <1>2, <1>3, Facts, EndInv, ZenonT(60)

(***************************************************************************)
(* Steps that change several consumers and no row.                         *)
(***************************************************************************)
Stopped == [Idle EXCEPT !.pc = "stopped"]

\* Consumer c has the claim, the belief and the heartbeat it had.
Steady(c) ==
    /\ con'[c].request = con[c].request /\ con'[c].token = con[c].token
    /\ con'[c].left = con[c].left /\ con'[c].hb = con[c].hb
    /\ con[c].pc \in {"idle", "stopped"} => con'[c].pc = con[c].pc

\* Steps of a whole process: each consumer goes on or is without a claim.
LEMMA CrowdInv ==
    ASSUME IInv, con' \in [Consumers -> Fields], UNCHANGED <<rowVars, cooldown>>,
           draining' \in SUBSET Gateways, releases' \in Nat,
           \A c \in Consumers : Steady(c) \/ con'[c] \in {Idle, Stopped}
    PROVE  IInv'
<1>1. RowInv /\ ConInv /\ ConType /\ FenceInv /\ cooldown \in [Owners -> Nat]
  BY ZenonT(60) DEF IInv, ConInv, RestType
<1>2. ConType' /\ RestType'
  BY <1>1, ZenonT(60) DEF ConType, RestType
<1>3. \A c \in Consumers : con'[c] \in {Idle, Stopped} =>
          con'[c].request = None /\ con'[c].hb = "off" /\ con'[c].pc \in {"idle", "stopped"}
  BY DEF Idle, Stopped
<1>4. BusyInv'
  BY <1>1, <1>3, ZenonT(60) DEF ConInv, BusyInv, Steady
<1>5. \A c \in Consumers : con[c].left \in Nat
  BY <1>1 DEF ConType, Fields
<1>6. KeepsAll
  BY <1>3, <1>5 DEF KeepsAll, KeepsClaim, KeepsLease, Steady
<1>7. RowInv' /\ FenceInv'
  BY <1>1, <1>2, <1>6, QuietStep, ZenonT(60)
<1> QED BY <1>2, <1>4, <1>7, ZenonT(60) DEF IInv, ConInv

\* An event set or removed leaves the claim as it is.
LEMMA EventSteady ==
    ASSUME NEW c \in Consumers, con[c] \in Fields,
           \/ con'[c] = con[c] \/ con'[c] = [con[c] EXCEPT !.signal = TRUE]
           \/ con'[c] = [con[c] EXCEPT !.listed = FALSE]
    PROVE  con'[c] \in Fields /\ Steady(c)
<1> DEFINE f == con[c]
           g == [f EXCEPT !.signal = TRUE]
           h == [f EXCEPT !.listed = FALSE]
<1>1. /\ g \in Fields /\ g.request = f.request /\ g.token = f.token /\ g.left = f.left
      /\ g.hb = f.hb /\ g.pc = f.pc
  BY Zenon DEF Fields
<1>2. /\ h \in Fields /\ h.request = f.request /\ h.token = f.token /\ h.left = f.left
      /\ h.hb = f.hb /\ h.pc = f.pc
  BY Zenon DEF Fields
<1>3. CASE con'[c] = f
  BY <1>3, ZenonT(60) DEF Steady
<1>4. CASE con'[c] = g
  BY <1>1, <1>4, ZenonT(60) DEF Steady
<1>5. CASE con'[c] = h
  BY <1>2, <1>5, ZenonT(60) DEF Steady
<1> QED BY <1>3, <1>4, <1>5, ZenonT(60)

\* Delivering a cancellation keeps the invariant.
LEMMA NotifyCancelInv ==
    ASSUME IInv, NEW g \in Gateways, NEW r \in Requests, NotifyCancel(g, r)
    PROVE  IInv'
<1>1. \A c \in Consumers : con[c] \in Fields
  BY Facts, ZenonT(60)
<1>2. con' = [c \in Consumers |->
                 IF GatewayOf[c] = g /\ con[c].listed /\ con[c].request = r
                 THEN [con[c] EXCEPT !.signal = TRUE] ELSE con[c]]
      /\ UNCHANGED <<rowVars, cooldown, draining, releases>>
  BY ZenonT(60) DEF NotifyCancel
<1>3. \A c \in Consumers : con'[c] = con[c] \/ con'[c] = [con[c] EXCEPT !.signal = TRUE]
  BY <1>2, ZenonT(60)
<1>4. \A c \in Consumers : con'[c] \in Fields /\ Steady(c)
  BY <1>1, <1>3, EventSteady, ZenonT(60)
<1>5. con' \in [Consumers -> Fields]
  BY <1>2, <1>4, ZenonT(60)
<1>6. draining' \in SUBSET Gateways /\ releases' \in Nat
  BY <1>2, ZenonT(60) DEF IInv, ConInv, RestType
<1> QED BY <1>2, <1>4, <1>5, <1>6, CrowdInv, ZenonT(60)

\* Entering the processing of a claim keeps the invariant.
LEMMA StartProcessInv ==
    ASSUME IInv, NEW c \in Consumers, StartProcess(c)
    PROVE  IInv'
<1> DEFINE f == [con[c] EXCEPT !.pc = "marking", !.listed = TRUE]
<1>1. \A d \in Consumers : con[d] \in Fields
  BY Facts, ZenonT(60)
<1>2. con' = [d \in Consumers |->
                 IF d = c THEN f
                 ELSE IF GatewayOf[d] = GatewayOf[c] /\ con[d].request = con[c].request
                 THEN [con[d] EXCEPT !.listed = FALSE] ELSE con[d]]
      /\ UNCHANGED <<rowVars, cooldown, draining, releases>> /\ con[c].pc = "claimed"
  BY ZenonT(60) DEF StartProcess
<1>3. f \in Fields /\ f.request = con[c].request /\ f.token = con[c].token /\ f.left = con[c].left
      /\ f.hb = con[c].hb
  BY <1>1, Zenon DEF Fields
<1>4. con'[c] \in Fields /\ Steady(c)
  <2>1. con'[c] = f
    BY <1>2, ZenonT(60)
  <2> QED BY <1>2, <1>3, <2>1, ZenonT(60) DEF Steady
<1>5. \A d \in Consumers : d # c => con'[d] = con[d] \/ con'[d] = [con[d] EXCEPT !.listed = FALSE]
  BY <1>2, ZenonT(60)
<1>6. \A d \in Consumers : con'[d] \in Fields /\ Steady(d)
  BY <1>1, <1>4, <1>5, EventSteady, ZenonT(60)
<1>7. con' \in [Consumers -> Fields]
  BY <1>2, <1>6, ZenonT(60)
<1>8. draining' \in SUBSET Gateways /\ releases' \in Nat
  BY <1>2, ZenonT(60) DEF IInv, ConInv, RestType
<1> QED BY <1>2, <1>6, <1>7, <1>8, CrowdInv, ZenonT(60)

\* Draining a gateway keeps the invariant.
LEMMA ShutdownInv ==
    ASSUME IInv, NEW g \in Gateways, Shutdown(g)
    PROVE  IInv'
<1>1. \A c \in Consumers : con[c] \in Fields
  BY Facts, ZenonT(60)
<1>2. PICK polling \in SUBSET Consumers :
          con' = [c \in Consumers |->
                    IF GatewayOf[c] # g THEN con[c]
                    ELSE IF con[c].pc = "idle" /\ c \notin polling THEN [Idle EXCEPT !.pc = "stopped"]
                    ELSE IF con[c].listed THEN [con[c] EXCEPT !.signal = TRUE] ELSE con[c]]
  BY ZenonT(60) DEF Shutdown
<1>3. \A c \in Consumers : \/ con'[c] = con[c] \/ con'[c] = [con[c] EXCEPT !.signal = TRUE]
                           \/ con'[c] = Stopped
  BY <1>2, ZenonT(60) DEF Stopped
<1>4. Stopped \in Fields
  BY IdleType, ZenonT(60) DEF Stopped
<1>5. \A c \in Consumers : con'[c] \in Fields /\ (Steady(c) \/ con'[c] \in {Idle, Stopped})
  BY <1>1, <1>3, <1>4, EventSteady, ZenonT(60)
<1>6. con' \in [Consumers -> Fields]
  BY <1>2, <1>5, ZenonT(60)
<1>7. draining' \in SUBSET Gateways /\ releases' \in Nat /\ UNCHANGED <<rowVars, cooldown>>
  BY DEF IInv, ConInv, RestType, Shutdown
<1> QED BY <1>5, <1>6, <1>7, CrowdInv, ZenonT(60)

\* A crash and restart of a gateway keeps the invariant.
LEMMA RestartInv ==
    ASSUME IInv, NEW g \in Gateways, Restart(g)
    PROVE  IInv'
<1>1. \A c \in Consumers : con[c] \in Fields
  BY Facts, ZenonT(60)
<1>2. con' = [c \in Consumers |-> IF GatewayOf[c] = g THEN Idle ELSE con[c]]
  BY ZenonT(60) DEF Restart
<1>3. \A c \in Consumers : con'[c] \in Fields /\ (Steady(c) \/ con'[c] \in {Idle, Stopped})
  BY <1>1, <1>2, IdleType, ZenonT(60) DEF Steady
<1>4. con' \in [Consumers -> Fields]
  BY <1>2, <1>3, ZenonT(60)
<1>5. draining' \in SUBSET Gateways /\ releases' \in Nat /\ UNCHANGED <<rowVars, cooldown>>
  BY ZenonT(60) DEF IInv, ConInv, RestType, Restart
<1> QED BY <1>3, <1>4, <1>5, CrowdInv, ZenonT(60)

(***************************************************************************)
(* Clients.                                                                *)
(***************************************************************************)
LEMMA SameCon ==
    ASSUME IInv, UNCHANGED <<cooldown, consumerVars>>
    PROVE  RowInv /\ FenceInv /\ ConType /\ ConType' /\ ConInv' /\ KeepsAll
<1>1. con' = con /\ UNCHANGED <<cooldown, draining, releases>>
  BY ZenonT(60) DEF consumerVars
<1>2. RowInv /\ FenceInv /\ ConType /\ ConType' /\ ConInv'
  BY <1>1, ZenonT(60) DEF IInv, ConInv, ConType, RestType, BusyInv
<1>3. \A c \in Consumers : con[c].left \in Nat
  BY <1>2 DEF ConType, Fields
<1> QED BY <1>1, <1>2, <1>3 DEF KeepsAll, KeepsClaim, KeepsLease

\* Reading an overdue row and cancelling one keep the invariant.
LEMMA WithdrawalInv ==
    ASSUME IInv, NEW r \in Requests, Observe(r) \/ Cancel(r)
    PROVE  IInv'
<1>1. state[r] \in Pending /\ UNCHANGED <<cooldown, consumerVars>>
  BY ZenonT(60) DEF Observe, Cancel, Due
<1>2. PICK s \in Terminal : Leave(r, s, 1)
  BY ZenonT(60) DEF Observe, Cancel, Expire, Terminal
<1> QED BY <1>1, <1>2, SameCon, EndedStep, ZenonT(60) DEF IInv

\* A new submission keeps the invariant.
LEMMA SubmitInv ==
    ASSUME IInv, NEW r \in Requests, NEW d \in Deadlines, Submit(r, d)
    PROVE  IInv'
<1>1. UNCHANGED <<cooldown, consumerVars>> /\ d \in Nat \cup {Never}
  BY ZenonT(60) DEF Submit
<1>2. RowInv'
  <2>1. RowType'
    BY <1>1, ZenonT(60) DEF IInv, RowInv, RowType, Submit, Pending, Claimable, Terminal
  <2>2. DeadlineInv' /\ CountInv'
    BY <1>1, ZenonT(60) DEF IInv, RowInv, RowType, DeadlineInv, CountInv, Submit, Pending, Claimable, Terminal
  <2> QED BY <2>1, <2>2, ZenonT(60) DEF RowInv
<1>3. Forward
  BY DEF Forward, Submit, IInv, RowInv, RowType, Ended, Terminal
<1>4. \A c \in Consumers, q \in Requests : Current(ClaimOf(c)) /\ Holds(c, q) => Survives(q)
  BY DEF Current, ClaimOf, Holds, Survives, Submit, IInv, RowInv, RowType, Claimable
<1> QED BY <1>1, <1>2, <1>3, <1>4, SameCon, FenceStep, ZenonT(60) DEF IInv, RowInv, KeepsAll

\* Purging an ended row keeps the invariant.
LEMMA PurgeInv ==
    ASSUME IInv, NEW r \in Requests, Purge(r)
    PROVE  IInv'
<1>1. UNCHANGED <<cooldown, consumerVars>>
  BY ZenonT(60) DEF Purge
<1>2. RowInv'
  <2>1. RowType'
    BY ZenonT(60) DEF IInv, RowInv, RowType, Purge, Pending, Claimable, Terminal
  <2>2. DeadlineInv' /\ CountInv'
    BY ZenonT(60) DEF IInv, RowInv, RowType, DeadlineInv, CountInv, Purge, Pending, Claimable, Terminal
  <2> QED BY <2>1, <2>2, ZenonT(60) DEF RowInv
<1>3. Forward
  BY DEF Forward, Purge, IInv, RowInv, RowType, Ended, Terminal
<1>4. \A c \in Consumers, q \in Requests : Current(ClaimOf(c)) /\ Holds(c, q) => Survives(q)
  BY DEF Current, ClaimOf, Holds, Survives, Purge, IInv, RowInv, RowType, Claimable, Terminal
<1> QED BY <1>1, <1>2, <1>3, <1>4, SameCon, FenceStep, ZenonT(60) DEF IInv, RowInv, KeepsAll

(***************************************************************************)
(* claim_next.                                                             *)
(***************************************************************************)
\* What one transaction of claim_next may do to the row of r.
SameAt(r) ==
    /\ state'[r] = state[r] /\ token'[r] = token[r] /\ worker'[r] = worker[r]
    /\ lease'[r] = lease[r] /\ deadline'[r] = deadline[r]
    /\ reclaims'[r] = reclaims[r] /\ expiries'[r] = expiries[r]

EndedAt(r, s) ==
    /\ state'[r] = s /\ token'[r] = token[r] + 1 /\ worker'[r] = None
    /\ lease'[r] = 0 /\ deadline'[r] = Never /\ reclaims'[r] = reclaims[r]

SweptAt(r) == Due(r) /\ EndedAt(r, "expired") /\ expiries'[r] = expiries[r]

AbandonedAt(r) ==
    /\ state[r] \in Claimable /\ lease[r] = 0 /\ Worn(r)
    /\ EndedAt(r, "failed") /\ expiries'[r] = expiries[r] + 1

GrantedAt(r, g) ==
    /\ ~Due(r) /\ state'[r] = "claimed" /\ token'[r] = token[r] + 1 /\ worker'[r] = g
    /\ lease'[r] = LeaseUntil(r) /\ deadline'[r] = deadline[r]
    /\ \/ state[r] = "queued" /\ reclaims'[r] = reclaims[r] /\ expiries'[r] = expiries[r]
       \/ /\ state[r] \in Claimable /\ lease[r] = 0 /\ ~Worn(r)
          /\ reclaims'[r] = reclaims[r] + 1 /\ expiries'[r] = expiries[r] + 1

\* What one transaction of claim_next may do to each row.
LEMMA ClaimNextRows ==
    ASSUME RowInv, NEW g \in Gateways, NEW skipped \in SUBSET Requests,
           NEW granted \in SUBSET Requests, ClaimNext(g, skipped, granted)
    PROVE  /\ \A r \in Requests : SameAt(r) \/ SweptAt(r) \/ AbandonedAt(r) \/ GrantedAt(r, g)
           /\ \A r \in granted : GrantedAt(r, g)
<1> DEFINE swept == {r \in Requests \ skipped : Due(r)}
           fit == {r \in Open(skipped) : ~Worn(r)}
           abandoned == {r \in Open(skipped) : Worn(r) /\ \A q \in granted : Priority[r] < Priority[q]}
<1>1. granted \subseteq fit
  BY ZenonT(60) DEF ClaimNext
<1>2. \A r \in Open(skipped) : /\ r \in Requests /\ ~Due(r)
                               /\ state[r] = "queued" \/ (state[r] \in Claimable /\ lease[r] = 0)
  BY ZenonT(60) DEF Open
<1>3. ASSUME NEW r \in swept PROVE SweptAt(r)
  <2>1. r \notin granted /\ r \notin abandoned /\ r \in Requests
    BY <1>1, <1>2, ZenonT(60)
  <2> QED BY <2>1, ZenonT(60) DEF ClaimNext, SweptAt, EndedAt
<1>4. ASSUME NEW r \in abandoned PROVE AbandonedAt(r)
  <2>1. r \notin granted /\ r \notin swept /\ r \in Requests
    BY <1>1, <1>2, ZenonT(60)
  <2>2. state[r] \in Claimable /\ lease[r] = 0 /\ Worn(r)
    BY <1>2, ZenonT(60) DEF Worn, Claimable
  <2> QED BY <2>1, <2>2, ZenonT(60) DEF ClaimNext, AbandonedAt, EndedAt
<1>5. ASSUME NEW r \in granted PROVE GrantedAt(r, g)
  <2>1. r \notin abandoned /\ r \notin swept /\ r \in Requests /\ ~Worn(r)
    BY <1>1, <1>2, ZenonT(60)
  <2>2. CASE state[r] = "queued"
    BY <1>1, <1>2, <2>1, <2>2, ZenonT(60) DEF ClaimNext, GrantedAt, GrantedToken, Claimable
  <2>3. CASE state[r] \in Claimable /\ lease[r] = 0
    BY <1>1, <1>2, <2>1, <2>3, ZenonT(60) DEF ClaimNext, GrantedAt, GrantedToken
  <2> QED BY <1>1, <1>2, <2>2, <2>3, ZenonT(60)
<1>6. ASSUME NEW r \in Requests, r \notin swept, r \notin abandoned, r \notin granted PROVE SameAt(r)
  BY <1>6, ZenonT(60) DEF ClaimNext, SameAt
<1> QED BY <1>1, <1>3, <1>4, <1>5, <1>6, ZenonT(60)

\* claim_next goes forward and takes nothing from an unexpired lease.
LEMMA ClaimNextStep ==
    ASSUME RowInv, NEW g \in Gateways, NEW skipped \in SUBSET Requests,
           NEW granted \in SUBSET Requests, ClaimNext(g, skipped, granted)
    PROVE  /\ RowInv' /\ Forward
           /\ \A q \in Requests : state[q] \in Claimable /\ lease[q] > 0 /\ state'[q] \notin Ended => Survives(q)
           /\ \A q \in granted : /\ state[q] # "purged" /\ token'[q] = token[q] + 1
                                 /\ state'[q] = "claimed"
<1> DEFINE Kind(r) == SameAt(r) \/ SweptAt(r) \/ AbandonedAt(r) \/ GrantedAt(r, g)
<1>1. \A r \in Requests : Kind(r)
  BY ClaimNextRows, ZenonT(60)
<1> DEFINE Fun(f) == f = [r \in Requests |-> f[r]]
<1>2. Fun(state') /\ Fun(token') /\ Fun(worker') /\ Fun(lease') /\ Fun(deadline')
      /\ Fun(reclaims') /\ Fun(expiries')
  BY ZenonT(60) DEF ClaimNext
<1>3. ASSUME NEW r \in Requests
      PROVE  /\ state[r] \in {"new", "purged"} \cup Pending \cup Terminal /\ token[r] \in Nat
             /\ worker[r] \in Gateways \cup {None} /\ lease[r] \in 0..LeaseTicks
             /\ deadline[r] \in Nat \cup {Never} /\ reclaims[r] \in Nat /\ expiries[r] \in Nat
             /\ state[r] \notin Claimable => worker[r] = None /\ lease[r] = 0
             /\ state[r] \in Claimable /\ deadline[r] # Never => lease[r] <= deadline[r]
             /\ state[r] \in Pending \cup {"new"} => reclaims[r] = expiries[r]
             /\ LeaseUntil(r) \in 0..LeaseTicks
             /\ deadline[r] # Never => LeaseUntil(r) <= deadline[r]
  BY LeaseUntilType, ZenonT(60) DEF RowInv, RowType, DeadlineInv, CountInv
<1>4. ASSUME NEW r \in Requests
      PROVE  /\ state'[r] \in {"new", "purged"} \cup Pending \cup Terminal /\ token'[r] \in Nat
             /\ worker'[r] \in Gateways \cup {None} /\ lease'[r] \in 0..LeaseTicks
             /\ deadline'[r] \in Nat \cup {Never} /\ reclaims'[r] \in Nat /\ expiries'[r] \in Nat
             /\ state'[r] \notin Claimable => worker'[r] = None /\ lease'[r] = 0
             /\ state'[r] \in Claimable /\ deadline'[r] # Never => lease'[r] <= deadline'[r]
             /\ state'[r] \in Pending \cup {"new"} => reclaims'[r] = expiries'[r]
  <2>1. CASE SameAt(r)
    BY <1>3, <2>1, ZenonT(60) DEF SameAt
  <2>2. CASE SweptAt(r)
    BY <1>3, <2>2, SMTT(60) DEF SweptAt, EndedAt, Pending, Claimable, Terminal
  <2>3. CASE AbandonedAt(r)
    BY <1>3, <2>3, SMTT(60) DEF AbandonedAt, EndedAt, Pending, Claimable, Terminal
  <2>4. CASE GrantedAt(r, g)
    BY <1>3, <2>4, SMTT(60) DEF GrantedAt, Pending, Claimable, Terminal
  <2> QED BY <1>1, <2>1, <2>2, <2>3, <2>4, ZenonT(60)
<1>5. RowInv'
  BY <1>2, <1>4, ZenonT(60) DEF RowInv, RowType, DeadlineInv, CountInv
<1>6. Forward
  BY <1>1, <1>3, SMTT(60)
     DEF Forward, SameAt, SweptAt, AbandonedAt, GrantedAt, EndedAt, Due, Ended, Pending, Claimable, Terminal
<1>7. \A q \in Requests : state[q] \in Claimable /\ lease[q] > 0 /\ state'[q] \notin Ended => Survives(q)
  <2> SUFFICES ASSUME NEW q \in Requests, state[q] \in Claimable, lease[q] > 0, state'[q] \notin Ended
               PROVE  Survives(q)
    OBVIOUS
  <2>1. ~SweptAt(q)
    BY ZenonT(60) DEF SweptAt, EndedAt, Ended, Terminal
  <2>2. ~AbandonedAt(q) /\ ~GrantedAt(q, g)
    BY <1>3 DEF AbandonedAt, GrantedAt, Claimable
  <2>3. SameAt(q) /\ lease[q] \in Nat
    BY <1>1, <1>3, <2>1, <2>2
  <2> QED BY <2>3 DEF SameAt, Survives
<1>8. \A q \in granted : state[q] # "purged" /\ token'[q] = token[q] + 1 /\ state'[q] = "claimed"
  <2>1. \A q \in granted : GrantedAt(q, g)
    BY ClaimNextRows, ZenonT(60)
  <2> QED BY <2>1, ZenonT(60) DEF GrantedAt, Claimable
<1> QED BY <1>5, <1>6, <1>7, <1>8, ZenonT(60)

\* A poll keeps the invariant.
LEMMA PollInv ==
    ASSUME IInv, NEW c \in Consumers, NEW skipped \in SUBSET Requests, Poll(c, skipped)
    PROVE  IInv'
<1>1. PICK granted \in {{}} \cup {{r} : r \in Requests} :
          /\ ClaimNext(GatewayOf[c], skipped, granted)
          /\ \/ End(c)
             \/ \E r \in granted :
                   Continue(c, [Idle EXCEPT !.pc = "claimed", !.request = r,
                                            !.token = GrantedToken(r)])
  BY ZenonT(60) DEF Poll
<1>2. granted \in SUBSET Requests /\ GatewayOf[c] \in Gateways /\ UNCHANGED <<cooldown, releases>>
  <2>1. granted \in SUBSET Requests
    OBVIOUS
  <2>2. GatewayOf[c] \in Gateways
    OBVIOUS
  <2> QED BY <2>1, <2>2, ZenonT(60) DEF Poll
<1>3. RowInv /\ RowType /\ ConInv /\ ConType /\ FenceInv /\ releases \in Nat
  BY ZenonT(60) DEF IInv, ConInv, RestType, RowInv
<1>4. /\ RowInv' /\ Forward
      /\ \A q \in Requests : state[q] \in Claimable /\ lease[q] > 0 /\ state'[q] \notin Ended => Survives(q)
      /\ \A q \in granted : state[q] # "purged" /\ token'[q] = token[q] + 1 /\ state'[q] = "claimed"
  BY <1>1, <1>2, <1>3, ClaimNextStep, ZenonT(60)
<1>5. \A d \in Consumers, q \in Requests :
          Current(ClaimOf(d)) /\ Holds(d, q) /\ state'[q] \notin Ended => Survives(q)
  BY <1>4, ZenonT(60) DEF Current, ClaimOf, Holds
<1>6. CASE End(c)
  <2>1. ConType' /\ BusyInv' /\ KeepsAll /\ UNCHANGED draining
    BY <1>3, <1>6, EndCon, ZenonT(60)
  <2>2. FenceInv'
    BY <1>3, <1>4, <1>5, <2>1, FenceStep, ZenonT(60) DEF RowInv, KeepsAll
  <2>3. RestType'
    BY <1>2, <1>3, <2>1, RestSame, ZenonT(60)
  <2> QED BY <1>4, <2>1, <2>2, <2>3, ZenonT(60) DEF IInv, ConInv
<1>7. ASSUME NEW r \in granted,
             Continue(c, [Idle EXCEPT !.pc = "claimed", !.request = r, !.token = GrantedToken(r)])
      PROVE  IInv'
  <2> DEFINE f == [Idle EXCEPT !.pc = "claimed", !.request = r, !.token = GrantedToken(r)]
  <2>1. r \in Requests /\ token[r] \in Nat /\ GrantedToken(r) \in Nat /\ GrantedToken(r) = token[r] + 1
    BY <1>2, <1>3 DEF RowType, GrantedToken
  <2>3. f \in Fields /\ f.request = r /\ f.token = GrantedToken(r) /\ f.left = 0
    <3>1. f \in Fields
      BY <2>1, IdleType, LeaseRange, Zenon DEF Fields
    <3>2. f.request = r /\ f.token = GrantedToken(r) /\ f.left = Idle.left
      BY Zenon DEF Idle
    <3> QED BY <3>1, <3>2, IdleType, ZenonT(60)
  <2>4. con' = [con EXCEPT ![c] = f] /\ UNCHANGED draining
    BY <1>7, ZenonT(60) DEF Continue
  <2> HIDE DEF f
  <2>5. con'[c] = f /\ \A d \in Consumers : d # c => con'[d] = con[d]
    BY <1>3, <2>4, ZenonT(60) DEF ConType
  <2>6. ConType'
    BY <1>3, <2>3, <2>4, ZenonT(60) DEF ConType
  <2>7. BusyInv'
    BY <1>3, <2>1, <2>3, <2>5, ZenonT(60) DEF ConInv, BusyInv
  <2>8. RestType'
    BY <1>2, <1>3, <2>4, RestSame, ZenonT(60)
  <2>9. \A d \in Consumers : con[d].token \in Nat /\ con[d].left \in Nat
    BY <1>3 DEF ConType, Fields
  <2>10. ClaimsAreDistinct'
    <3>1. ASSUME NEW d \in Consumers, d # c, NEW q \in Requests, Holds(d, q)', state'[q] # "purged"
          PROVE  /\ con'[d].token <= token'[q] /\ Holds(d, q) /\ state[q] # "purged"
                 /\ con'[d].token = con[d].token /\ con[d].token <= token[q]
      <4>1. Holds(d, q) /\ state[q] # "purged" /\ token'[q] >= token[q] /\ con'[d].token = con[d].token
        BY <1>4, <2>5, <3>1, ZenonT(60) DEF Forward, Holds
      <4>2. con[d].token <= token[q]
        BY <1>3, <4>1, ZenonT(60) DEF FenceInv, ClaimsAreDistinct
      <4>3. token[q] \in Nat /\ token'[q] \in Nat
        BY <1>3, <1>4, ZenonT(60) DEF RowInv, RowType
      <4> QED BY <2>9, <4>1, <4>2, <4>3, SMTT(60)
    <3>2. con'[c].request = r /\ con'[c].token = token[r] + 1 /\ token'[r] = token[r] + 1
      BY <1>4, <2>1, <2>3, <2>5, ZenonT(60)
    <3>3. ASSUME NEW d \in Consumers, NEW e \in Consumers, NEW q \in Requests,
                 Holds(d, q)', Holds(e, q)', state'[q] # "purged", con'[d].token = con'[e].token, d # e
          PROVE  FALSE
      <4>1. CASE d # c /\ e # c
        <5>1. Holds(d, q) /\ Holds(e, q) /\ state[q] # "purged" /\ con[d].token = con[e].token
          BY <3>1, <3>3, <4>1, ZenonT(60)
        <5> QED BY <1>3, <3>3, <5>1, ZenonT(60) DEF FenceInv, ClaimsAreDistinct
      <4>2. ASSUME NEW x \in Consumers, x # c, Holds(x, r)', state'[r] # "purged", con'[x].token = con'[c].token
            PROVE  FALSE
        BY <2>1, <2>9, <3>1, <3>2, <4>2
      <4>3. CASE d = c
        BY <3>2, <3>3, <4>2, <4>3, ZenonT(60) DEF Holds
      <4>4. CASE e = c
        BY <3>2, <3>3, <4>2, <4>4, ZenonT(60) DEF Holds
      <4> QED BY <4>1, <4>3, <4>4, ZenonT(60)
    <3>4. ASSUME NEW d \in Consumers, NEW q \in Requests, Holds(d, q)', state'[q] # "purged"
          PROVE  con'[d].token <= token'[q]
      <4>1. CASE d = c
        BY <2>1, <3>2, <3>4, <4>1 DEF Holds
      <4> QED BY <3>1, <3>4, <4>1, ZenonT(60)
    <3> QED BY <3>3, <3>4, ZenonT(60) DEF ClaimsAreDistinct
  <2>11. LocalLeaseIsExclusive'
    <3> SUFFICES ASSUME NEW d \in Consumers, NEW q \in Requests, Holds(d, q)', con'[d].left > 0,
                        state'[q] \notin Ended
                 PROVE  Current(ClaimOf(d))' /\ con'[d].left <= lease'[q]
      BY ZenonT(60) DEF LocalLeaseIsExclusive
    <3>1. d # c
      BY <2>3, <2>5
    <3>2. KeepsClaim(d) /\ KeepsLease(d)
      BY <2>5, <2>9, <3>1 DEF KeepsClaim, KeepsLease
    <3> QED BY <1>3, <1>4, <1>5, <2>6, <3>2, ExclusiveAt, ZenonT(60) DEF FenceInv, RowInv
  <2> QED BY <1>4, <2>6, <2>7, <2>8, <2>10, <2>11, ZenonT(60) DEF IInv, ConInv, FenceInv
<1> QED BY <1>1, <1>6, <1>7, ZenonT(60)

(***************************************************************************)
(* Time.                                                                   *)
(***************************************************************************)
\* Local leases run out with the leases of the rows.
LEMMA TickInv ==
    ASSUME IInv, Tick
    PROVE  IInv'
<1>1. RowInv /\ RowType /\ ConInv /\ ConType /\ FenceInv
  BY ZenonT(60) DEF IInv, ConInv, RowInv
<1>2. UNCHANGED <<state, token, worker, reclaims, expiries, draining, releases>>
  BY ZenonT(60) DEF Tick
<1>3. ASSUME NEW r \in Requests
      PROVE  /\ lease[r] \in 0..LeaseTicks /\ deadline[r] \in Nat \cup {Never}
             /\ lease'[r] = Minus(lease[r], 1)
             /\ deadline'[r] = IF deadline[r] = Never THEN Never ELSE Minus(deadline[r], 1)
  BY <1>1, ZenonT(60) DEF RowType, Tick
<1>4. RowType'
  <2>1. \A r \in Requests : /\ Minus(lease[r], 1) \in 0..LeaseTicks
                            /\ deadline[r] # Never => Minus(deadline[r], 1) \in Nat
    BY <1>3, SMTT(60) DEF Minus
  <2>2. lease' \in [Requests -> 0..LeaseTicks] /\ deadline' \in [Requests -> Nat \cup {Never}]
    BY <2>1, ZenonT(60) DEF Tick
  <2> QED BY <1>1, <1>2, <1>3, <2>1, <2>2 DEF RowType, Minus
<1>5. DeadlineInv' /\ CountInv'
  <2>1. CountInv'
    BY <1>1, <1>2, ZenonT(60) DEF RowInv, CountInv
  <2>2. ASSUME NEW r \in Requests, state[r] \in Claimable, deadline'[r] # Never
        PROVE  lease'[r] <= deadline'[r]
    <3>1. lease[r] \in Nat /\ deadline[r] \in Nat /\ lease[r] <= deadline[r]
      BY <1>1, <1>3, <2>2 DEF RowInv, DeadlineInv
    <3>2. lease'[r] = Minus(lease[r], 1) /\ deadline'[r] = Minus(deadline[r], 1)
      BY <1>3, <2>2, ZenonT(60)
    <3> QED BY <3>1, <3>2 DEF Minus
  <2>3. DeadlineInv'
    BY <1>2, <2>2, ZenonT(60) DEF DeadlineInv
  <2> QED BY <2>1, <2>3, ZenonT(60)
<1>6. ASSUME NEW c \in Consumers
      PROVE  /\ con'[c] \in Fields /\ con'[c].request = con[c].request
             /\ con'[c].token = con[c].token /\ con'[c].left = Minus(con[c].left, 1)
             /\ con'[c].pc = con[c].pc /\ con'[c].hb = con[c].hb
  <2> DEFINE e == IF con[c].pc = "marking" \/ con[c].hb = "asking"
                  THEN Min2(con[c].elapsed + 1, LeaseTicks) ELSE 0
             l == Minus(con[c].left, 1)
  <2>1. con[c] \in Fields
    BY <1>1, ZenonT(60) DEF ConType
  <2>2. con[c].elapsed \in 0..LeaseTicks /\ con[c].left \in 0..LeaseTicks
    BY <2>1, ZenonT(60) DEF Fields
  <2>3. e \in 0..LeaseTicks /\ l \in 0..LeaseTicks
    BY <2>2 DEF Min2, Minus
  <2>4. con'[c] = [con[c] EXCEPT !.left = l, !.elapsed = e]
    BY ZenonT(60) DEF Tick
  <2> HIDE DEF e, l
  <2>5. [con[c] EXCEPT !.left = l, !.elapsed = e] \in Fields
    BY <2>1, <2>3, Zenon DEF Fields
  <2>6. LET f == [con[c] EXCEPT !.left = l, !.elapsed = e]
        IN  /\ f.request = con[c].request /\ f.token = con[c].token /\ f.left = l
            /\ f.pc = con[c].pc /\ f.hb = con[c].hb
    BY <2>1, Zenon DEF Fields
  <2> QED BY <2>4, <2>5, <2>6, ZenonT(60) DEF l
<1>7. ConType'
  BY <1>6, ZenonT(60) DEF ConType, Tick
<1>8. BusyInv'
  BY <1>1, <1>6, ZenonT(60) DEF ConInv, BusyInv
<1>9. RestType'
  <2>1. \A o \in Owners : Minus(cooldown[o], 1) \in Nat
    BY <1>1 DEF ConInv, RestType, Minus
  <2> QED BY <1>1, <1>2, <2>1, ZenonT(60) DEF ConInv, RestType, Tick
<1>10. ClaimsAreDistinct'
  BY <1>1, <1>2, <1>6, SMTT(60) DEF FenceInv, ClaimsAreDistinct, Holds
<1>11. LocalLeaseIsExclusive'
  <2> SUFFICES ASSUME NEW c \in Consumers, NEW r \in Requests, Holds(c, r)', con'[c].left > 0,
                      state'[r] \notin Ended
               PROVE  Current(ClaimOf(c))' /\ con'[c].left <= lease'[r]
    BY ZenonT(60) DEF LocalLeaseIsExclusive
  <2>1. con[c].left \in Nat
    BY <1>1 DEF ConType, Fields
  <2>2. Holds(c, r) /\ con[c].left > 0 /\ state[r] \notin Ended
    BY <1>2, <1>6, <2>1 DEF Holds, Minus
  <2>3. Current(ClaimOf(c)) /\ con[c].left <= lease[r]
    BY <1>1, <2>2, ZenonT(60) DEF FenceInv, LocalLeaseIsExclusive
  <2>4. con'[c].left <= lease'[r] /\ lease'[r] > 0
    BY <1>3, <1>6, <2>1, <2>3 DEF Minus
  <2>5. ClaimOf(c)' = ClaimOf(c) /\ ClaimOf(c).request = r
    BY <1>6, <2>2, ZenonT(60) DEF ClaimOf, Holds
  <2> QED BY <1>2, <2>3, <2>4, <2>5, ZenonT(60) DEF Current
<1> QED BY <1>4, <1>5, <1>7, <1>8, <1>9, <1>10, <1>11, ZenonT(60) DEF IInv, RowInv, ConInv, FenceInv

(***************************************************************************)
(* The invariant.                                                          *)
(***************************************************************************)
LEMMA InitInv == Init => IInv
<1> SUFFICES ASSUME Init PROVE IInv
  OBVIOUS
<1>1. RowInv
  BY LeaseRange, ZenonT(60) DEF Init, RowInv, RowType, DeadlineInv, CountInv, Pending, Claimable, Terminal
<1>2. ConInv
  BY IdleType, ZenonT(60) DEF Init, ConInv, ConType, RestType, BusyInv
<1>3. FenceInv
  BY IdleType, ZenonT(60) DEF Init, FenceInv, ClaimsAreDistinct, LocalLeaseIsExclusive, Holds
<1> QED BY <1>1, <1>2, <1>3, ZenonT(60) DEF IInv

\* A stuttering step keeps the invariant.
LEMMA StutterInv == IInv /\ UNCHANGED vars => IInv'
<1> SUFFICES ASSUME IInv, UNCHANGED vars PROVE IInv'
  OBVIOUS
<1> QED BY SameCon, QuietStep, ZenonT(60) DEF IInv, vars, consumerVars

\* Every step keeps the invariant.
LEMMA NextInv == IInv /\ [Next]_vars => IInv'
<1> SUFFICES ASSUME IInv, [Next]_vars PROVE IInv'
  OBVIOUS
<1>1. ASSUME NEW r \in Requests, Client(r) PROVE IInv'
  BY <1>1, SubmitInv, WithdrawalInv, PurgeInv, NotifyCancelInv, ZenonT(60) DEF Client
<1>2. ASSUME NEW c \in Consumers, NEW skipped \in SUBSET Requests, Poll(c, skipped) PROVE IInv'
  BY <1>2, PollInv, ZenonT(60)
<1>3. ASSUME NEW c \in Consumers, Work(c) \/ Dispatch(c) PROVE IInv'
  BY <1>3, RefuseProcessInv, StartProcessInv, MarkRunningInv, WithdrawInv, DispatchInv, PublishResultInv, LastCallInv, ZenonT(60) DEF Work
<1>4. ASSUME NEW c \in Consumers, Heartbeat(c) PROVE IInv'
  BY <1>4, SendRenewalInv, RenewClaimInv, ZenonT(60) DEF Heartbeat
<1>5. ASSUME NEW g \in Gateways, Shutdown(g) \/ Restart(g) PROVE IInv'
  BY <1>5, ShutdownInv, RestartInv, ZenonT(60)
<1> QED BY <1>1, <1>2, <1>3, <1>4, <1>5, TickInv, StutterInv, ZenonT(60) DEF Next

\* The invariant holds of the store and its consumers.
THEOREM Invariant == Spec => []IInv
BY InitInv, NextInv, PTL DEF Spec

\* The rows and the consumers have their types, and only a claimed row carries
\* a worker and a lease.
THEOREM TypeCorrect == Spec => []TypeOK
<1>1. IInv => TypeOK
  BY ZenonT(60) DEF IInv, RowInv, RowType, ConInv, ConType, RestType, Fields, TypeOK
<1> QED BY Invariant, <1>1, PTL

\* For any number of requests, consumers and gateways, and any lease: while a
\* heartbeat believes in its lease, nobody else can hold the request.
THEOREM Exclusive == Spec => []LocalLeaseIsExclusive
<1>1. IInv => LocalLeaseIsExclusive
  BY ZenonT(60) DEF IInv, FenceInv
<1> QED BY Invariant, <1>1, PTL

\* Two consumers never hold the same claim: fencing tokens are unique.
THEOREM Fenced == Spec => []ClaimsAreDistinct
<1>1. IInv => ClaimsAreDistinct
  BY ZenonT(60) DEF IInv, FenceInv
<1> QED BY Invariant, <1>1, PTL

(***************************************************************************)
(* The refinement.                                                         *)
(***************************************************************************)
Kept == \A r \in Requests : Contract!RequestStep(r)

\* The contract sees a live claim where the lease has not run out.
LEMMA LiveIs ==
    ASSUME NEW r \in Requests
    PROVE  (Live[r] <=> lease[r] > 0) /\ (Live'[r] <=> lease'[r] > 0)
BY ZenonT(60) DEF Live

\* A row that is left alone makes no contract step.
LEMMA StillAt ==
    ASSUME NEW r \in Requests, SameAt(r)
    PROVE  Contract!RequestStep(r)
<1>1. Contract!Still(r)
  BY ZenonT(60) DEF SameAt, Live, Contract!Still, Contract!SameExpirations
<1> QED BY <1>1, ZenonT(60) DEF Contract!RequestStep

\* Rows left alone keep the contract.
LEMMA QuietKept ==
    ASSUME UNCHANGED rowVars
    PROVE  Kept
<1>1. \A r \in Requests : SameAt(r)
  BY ZenonT(60) DEF SameAt, rowVars
<1> QED BY <1>1, StillAt, ZenonT(60) DEF Kept

\* Only the row of r moves.
LEMMA LeaveAt ==
    ASSUME RowType, NEW r \in Requests, NEW s, NEW n \in {0, 1}, Leave(r, s, n)
    PROVE  /\ \A q \in Requests : q # r => SameAt(q)
           /\ state'[r] = s /\ token'[r] = token[r] + n /\ lease'[r] = 0 /\ expiries'[r] = expiries[r]
BY ZenonT(60) DEF RowType, Leave, SameAt

\* A cancellation or an expiry is a step of the contract.
LEMMA WithdrawKept ==
    ASSUME RowType, NEW r \in Requests, state[r] \in Pending,
           Leave(r, "cancelled", 1) \/ Expire(r)
    PROVE  Kept
<1>1. Leave(r, "cancelled", 1) \/ Leave(r, "expired", 1)
  BY ZenonT(60) DEF Expire
<1>2. Contract!Withdraw(r)
  <2>1. CASE Leave(r, "cancelled", 1)
    BY <2>1, LeaveAt, LiveIs, SMTT(60)
       DEF Contract!Withdraw, Contract!Leave, Contract!SameExpirations, Contract!Pending,
       Contract!Claimable, Pending, Claimable
  <2>2. CASE Leave(r, "expired", 1)
    BY <2>2, LeaveAt, LiveIs, SMTT(60)
       DEF Contract!Withdraw, Contract!Leave, Contract!SameExpirations, Contract!Pending,
       Contract!Claimable, Pending, Claimable
  <2> QED BY <1>1, <2>1, <2>2, ZenonT(60)
<1>3. \A q \in Requests : q # r => Contract!RequestStep(q)
  BY <1>1, LeaveAt, StillAt, ZenonT(60)
<1> QED BY <1>2, <1>3, ZenonT(60) DEF Kept, Contract!RequestStep

\* So is giving a claim back.
LEMMA RequeuedKept ==
    ASSUME RowType, NEW k, k.request \in Requests, Requeued(k)
    PROVE  Kept
<1> DEFINE r == k.request
<1>1. state[r] \in Claimable /\ lease[r] > 0 /\ Leave(r, "queued", 1)
  BY ZenonT(60) DEF Requeued, Accepted, Current
<1>2. Contract!Defer(r)
  <2>1. state'[r] = "queued" /\ token'[r] = token[r] + 1 /\ lease'[r] = 0 /\ expiries'[r] = expiries[r]
    BY <1>1, LeaveAt, ZenonT(60)
  <2>2. Live[r] /\ ~Live'[r]
    BY <1>1, <2>1, LiveIs
  <2> HIDE DEF r
  <2> QED BY <1>1, <2>1, <2>2, ZenonT(60) DEF Contract!Defer, Contract!Leave, Contract!SameExpirations,
             Contract!Claimable, Claimable
<1>3. \A q \in Requests : q # r => Contract!RequestStep(q)
  BY <1>1, LeaveAt, StillAt, ZenonT(60)
<1> QED BY <1>2, <1>3, ZenonT(60) DEF Kept, Contract!RequestStep

\* So is publishing an outcome.
LEMMA FinishedKept ==
    ASSUME RowType, NEW k, k.request \in Requests, NEW s \in {"succeeded", "failed"}, Finished(k, s)
    PROVE  Kept
<1> DEFINE r == k.request
<1>1. state[r] = "running" /\ lease[r] > 0 /\ Leave(r, s, 0)
  BY ZenonT(60) DEF Finished, Accepted, Current
<1>2. token'[r] = token[r]
  BY <1>1, LeaveAt, SMTT(60) DEF RowType
<1>3. Contract!Finish(r)
  <2>1. state'[r] = s /\ token'[r] = token[r] + 0 /\ lease'[r] = 0 /\ expiries'[r] = expiries[r]
    BY <1>1, LeaveAt, ZenonT(60)
  <2> HIDE DEF r
  <2>2. Live[r] /\ ~Live'[r]
    <3>1. ~(0 > 0)
      OBVIOUS
    <3>2. r \in Requests /\ lease[r] > 0 /\ lease'[r] = 0
      BY <1>1, <2>1, ZenonT(60) DEF r
    <3> QED BY <3>1, <3>2, LiveIs, ZenonT(60)
  <2>3. Contract!Leave(r, s, 0)
    BY <2>1, <2>2, ZenonT(60) DEF Contract!Leave
  <2> QED BY <1>1, <2>1, <2>2, <2>3, ZenonT(60) DEF Contract!Finish, Contract!SameExpirations
<1>4. \A q \in Requests : q # r => Contract!RequestStep(q)
  BY <1>1, LeaveAt, StillAt, ZenonT(60)
<1> QED BY <1>3, <1>4, ZenonT(60) DEF Kept, Contract!RequestStep

\* So is starting or renewing a claim.
LEMMA TouchKept ==
    ASSUME RowType, NEW r \in Requests, Touch(r), state'[r] = state[r] \/ state[r] = "claimed"
    PROVE  Kept
<1>1. \A q \in Requests : q # r => SameAt(q)
  BY ZenonT(60) DEF RowType, Touch, SameAt
<1>2. lease[r] > 0 /\ lease'[r] > 0 /\ token'[r] = token[r] /\ expiries'[r] = expiries[r]
  BY DEF RowType, Touch
<1>3. state'[r] = state[r] => Contract!Still(r)
  BY <1>2, ZenonT(60) DEF Live, Contract!Still, Contract!SameExpirations
<1>4. state'[r] = "running" /\ state[r] = "claimed" => Contract!MarkRunning(r)
  BY <1>2, LiveIs, ZenonT(60) DEF Contract!MarkRunning, Contract!SameExpirations
<1>5. state'[r] = state[r] \/ (state'[r] = "running" /\ state[r] = "claimed")
  BY ZenonT(60) DEF Touch, Claimable
<1>6. Contract!RequestStep(r)
  BY <1>3, <1>4, <1>5, ZenonT(60) DEF Contract!RequestStep
<1> QED BY <1>1, <1>6, StillAt, ZenonT(60) DEF Kept

\* So is every call of a consumer.
LEMMA CalledKept ==
    ASSUME RowInv, NEW c \in Consumers, con[c].request \in Requests, Called(c) \/ Requeued(ClaimOf(c))
    PROVE  Kept
<1> DEFINE k == ClaimOf(c)
<1>1. k.request \in Requests /\ RowType
  BY ClaimFields, ZenonT(60) DEF RowInv
<1>2. CASE Refused(k)
  BY <1>1, <1>2, WithdrawKept, QuietKept, ZenonT(60) DEF Refused, Due
<1>3. CASE UNCHANGED rowVars
  BY <1>3, QuietKept, ZenonT(60)
<1>4. CASE MarkedRunning(k)
  BY <1>1, <1>4, MarkTouches, TouchKept, ZenonT(60) DEF MarkedRunning
<1>5. CASE Renewed(k)
  BY <1>1, <1>5, RenewTouches, TouchKept, ZenonT(60) DEF Renewed
<1>6. CASE Finished(k, "succeeded") \/ Finished(k, "failed")
  BY <1>1, <1>6, FinishedKept, ZenonT(60)
<1>7. CASE Requeued(k)
  BY <1>1, <1>7, RequeuedKept, ZenonT(60)
<1> QED BY <1>2, <1>3, <1>4, <1>5, <1>6, <1>7, ZenonT(60) DEF Called

\* So is a transaction of claim_next, on every row it moves.
LEMMA ClaimNextKept ==
    ASSUME RowInv, NEW g \in Gateways, NEW skipped \in SUBSET Requests,
           NEW granted \in SUBSET Requests, ClaimNext(g, skipped, granted)
    PROVE  Kept
<1> SUFFICES ASSUME NEW r \in Requests PROVE Contract!RequestStep(r)
  BY ZenonT(60) DEF Kept
<1>1. /\ reclaims[r] \in Nat /\ expiries[r] \in Nat /\ deadline[r] \in Nat \cup {Never}
      /\ state[r] \in Pending => reclaims[r] = expiries[r]
  BY ZenonT(60) DEF RowInv, RowType, CountInv
<1>2. CASE SameAt(r)
  BY <1>2, StillAt, ZenonT(60)
<1>3. CASE SweptAt(r)
  <2>1. Contract!Withdraw(r)
    BY <1>3, LiveIs DEF SweptAt, EndedAt, Due, Contract!Withdraw, Contract!Leave, Contract!SameExpirations,
       Contract!Pending, Contract!Claimable, Pending, Claimable
  <2> QED BY <2>1, ZenonT(60) DEF Contract!RequestStep
<1>4. CASE AbandonedAt(r)
  <2>1. Contract!Abandon(r)
    <3>1. /\ state[r] \in Claimable /\ lease[r] = 0 /\ expiries[r] + 1 >= MaxExpirations
          /\ state'[r] = "failed" /\ token'[r] = token[r] + 1 /\ lease'[r] = 0
          /\ expiries'[r] = expiries[r] + 1
      BY <1>1, <1>4, ZenonT(60) DEF AbandonedAt, EndedAt, Worn, Pending
    <3>2. ~Live[r] /\ ~Live'[r]
      BY <3>1, LiveIs
    <3> QED BY <3>1, <3>2, ZenonT(60) DEF Contract!Abandon, Contract!Leave, Contract!Claimable, Claimable
  <2> QED BY <2>1, ZenonT(60) DEF Contract!RequestStep
<1>5. CASE GrantedAt(r, g)
  <2>1. state[r] \in Pending /\ LeaseUntil(r) > 0 /\ LeaseUntil(r) \in Nat
    BY <1>1, <1>5, LeaseUntilType, SMTT(60) DEF GrantedAt, Due, Pending, Claimable
  <2>2. Contract!Grant(r)
    BY <1>5, <2>1, LiveIs, ZenonT(60) DEF GrantedAt, Contract!Grant
  <2>3. \/ state[r] = "queued" /\ expiries'[r] = expiries[r]
        \/ /\ state[r] \in Claimable /\ lease[r] = 0 /\ expiries[r] + 1 < MaxExpirations
           /\ expiries'[r] = expiries[r] + 1
    <3>1. state[r] \in Claimable => reclaims[r] = expiries[r]
      BY <1>1, ZenonT(60) DEF Pending
    <3>2. state[r] \in Claimable /\ ~Worn(r) => expiries[r] + 1 < MaxExpirations
      BY <1>1, <3>1 DEF Worn
    <3> QED BY <1>5, <3>2, ZenonT(60) DEF GrantedAt
  <2>4. lease[r] = 0 => ~Live[r]
    BY LiveIs
  <2>5. Contract!Claim(r) \/ Contract!Reclaim(r)
    BY <2>2, <2>3, <2>4, ZenonT(60) DEF Contract!Claim, Contract!Reclaim,
       Contract!SameExpirations, Contract!Claimable, Claimable
  <2> QED BY <2>5, ZenonT(60) DEF Contract!RequestStep
<1> QED BY <1>2, <1>3, <1>4, <1>5, ClaimNextRows, ZenonT(60)

\* So is a submission.
LEMMA SubmitKept ==
    ASSUME RowType, NEW r \in Requests, NEW d \in Deadlines, Submit(r, d)
    PROVE  Kept
<1>1. \A q \in Requests : q # r => SameAt(q)
  BY ZenonT(60) DEF RowType, Submit, SameAt
<1>2. /\ state[r] = "new" /\ state'[r] \in {"queued", "expired"}
      /\ lease'[r] = 0 /\ token'[r] = token[r] /\ token[r] + 0 = token[r] /\ expiries'[r] = expiries[r]
  BY DEF RowType, Submit, Claimable
<1>3. Contract!Submit(r)
  BY <1>2, LiveIs DEF Contract!Submit, Contract!Leave, Contract!SameExpirations
<1> QED BY <1>1, <1>3, StillAt, ZenonT(60) DEF Kept, Contract!RequestStep

\* So is a purge.
LEMMA PurgeKept ==
    ASSUME RowType, NEW r \in Requests, Purge(r)
    PROVE  Kept
<1>1. \A q \in Requests : q # r => SameAt(q)
  BY ZenonT(60) DEF RowType, Purge, SameAt
<1>2. /\ state[r] \in Terminal /\ state'[r] = "purged"
      /\ lease'[r] = 0 /\ token'[r] = 0 /\ expiries'[r] = 0
  BY ZenonT(60) DEF RowType, Purge, Claimable, Terminal
<1>3. Contract!Purge(r)
  BY <1>2, LiveIs DEF Contract!Purge, Contract!Terminal, Terminal
<1> QED BY <1>1, <1>3, StillAt, ZenonT(60) DEF Kept, Contract!RequestStep

\* Time makes leases lapse and changes nothing else that the contract sees.
LEMMA TickKept ==
    ASSUME RowType, Tick
    PROVE  Kept
<1> SUFFICES ASSUME NEW r \in Requests PROVE Contract!RequestStep(r)
  BY ZenonT(60) DEF Kept
<1>1. /\ lease[r] \in Nat /\ lease'[r] = Minus(lease[r], 1)
      /\ state'[r] = state[r] /\ token'[r] = token[r] /\ expiries'[r] = expiries[r]
  <2>1. lease[r] \in Nat
    BY DEF RowType
  <2> QED BY <2>1, ZenonT(60) DEF Tick
<1>2. (lease[r] > 0 /\ lease'[r] > 0) \/ (lease[r] > 0 /\ ~(lease'[r] > 0)) \/ lease'[r] = lease[r]
  BY <1>1 DEF Minus
<1>3. lease[r] > 0 /\ lease'[r] > 0 => Contract!Still(r)
  BY <1>1, ZenonT(60) DEF Live, Contract!Still, Contract!SameExpirations
<1>4. lease[r] > 0 /\ ~(lease'[r] > 0) => Contract!Lapse(r)
  BY <1>1, LiveIs, ZenonT(60) DEF Contract!Lapse, Contract!SameExpirations
<1>5. lease'[r] = lease[r] => Contract!Still(r)
  BY <1>1, ZenonT(60) DEF Live, Contract!Still, Contract!SameExpirations
<1> QED BY <1>2, <1>3, <1>4, <1>5, ZenonT(60) DEF Contract!RequestStep

\* Every step is a step of the contract, or none.
LEMMA NextKept == IInv /\ [Next]_vars => Kept
<1> SUFFICES ASSUME IInv, [Next]_vars PROVE Kept
  OBVIOUS
<1>1. RowInv /\ RowType
  BY ZenonT(60) DEF IInv, RowInv
<1>2. ASSUME NEW r \in Requests, Client(r) PROVE Kept
  <2>1. CASE Observe(r) \/ Cancel(r)
    BY <1>1, <2>1, WithdrawKept, ZenonT(60) DEF Observe, Cancel, Due
  <2>2. ASSUME NEW g \in Gateways, NotifyCancel(g, r) PROVE Kept
    BY <2>2, QuietKept, ZenonT(60) DEF NotifyCancel
  <2> QED BY <1>1, <1>2, <2>1, <2>2, SubmitKept, PurgeKept, ZenonT(60) DEF Client
<1>3. ASSUME NEW c \in Consumers, NEW skipped \in SUBSET Requests, Poll(c, skipped) PROVE Kept
  <2>1. PICK granted \in {{}} \cup {{r} : r \in Requests} : ClaimNext(GatewayOf[c], skipped, granted)
    BY <1>3, ZenonT(60) DEF Poll
  <2>2. granted \in SUBSET Requests
    OBVIOUS
  <2>3. GatewayOf[c] \in Gateways
    OBVIOUS
  <2> QED BY <1>1, <2>1, <2>2, <2>3, ClaimNextKept, ZenonT(60)
<1>4. ASSUME NEW c \in Consumers, Work(c) \/ Dispatch(c) \/ Heartbeat(c) PROVE Kept
  <2>1. CASE \/ RefuseProcess(c) \/ StartProcess(c) \/ Withdraw(c)
             \/ Dispatch(c) \/ SendRenewal(c)
    BY <2>1, QuietKept, ZenonT(60) DEF RefuseProcess, StartProcess, Withdraw, Dispatch, SendRenewal
  <2>2. ASSUME MarkRunning(c) \/ PublishResult(c) \/ PublishFailure(c) \/ Defer(c) \/ Release(c) \/ RenewClaim(c)
        PROVE  con[c].request \in Requests /\ (Called(c) \/ Requeued(ClaimOf(c)))
    <3>1. con[c].pc \notin {"idle", "stopped"} \/ con[c].hb # "off"
      BY <2>2, ZenonT(60) DEF MarkRunning, PublishResult, PublishFailure, Defer, Release, RenewClaim
    <3>2. Called(c) \/ Requeued(ClaimOf(c))
      BY <2>2, ZenonT(60) DEF MarkRunning, PublishResult, PublishFailure, Defer, Release, RenewClaim, Called
    <3> QED BY <3>1, <3>2, Facts, ZenonT(60)
  <2> QED BY <1>1, <1>4, <2>1, <2>2, CalledKept, ZenonT(60) DEF Work, Heartbeat
<1>5. ASSUME NEW g \in Gateways, Shutdown(g) \/ Restart(g) PROVE Kept
  BY <1>5, QuietKept, ZenonT(60) DEF Shutdown, Restart
<1>6. CASE UNCHANGED vars
  BY <1>6, QuietKept, ZenonT(60) DEF vars
<1> QED BY <1>1, <1>2, <1>3, <1>4, <1>5, <1>6, TickKept, ZenonT(60) DEF Next

\* The PostgreSQL store with its consumers implements the contract of the
\* in-memory store: for any requests, consumers, leases and failures of calls,
\* every request goes along the life cycle of RequestContract.
THEOREM Implements == Spec => KeepsContract
<1>1. Init => Contract!Init
  <2> SUFFICES ASSUME Init PROVE Contract!Init
    OBVIOUS
  <2>1. \A r \in Requests : (lease[r] > 0) = FALSE
    BY DEF Init
  <2>2. Live = [r \in Requests |-> FALSE]
    BY <2>1, Zenon DEF Live
  <2> QED BY <2>2, ZenonT(60) DEF Init, Contract!Init
<1>2. IInv /\ [Next]_vars => Contract!Next
  BY NextKept, ZenonT(60) DEF Kept, Contract!Next
<1> QED BY Invariant, <1>1, <1>2, PTL DEF Spec, KeepsContract, Contract!Spec
=============================================================================
