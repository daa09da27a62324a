---------------------- MODULE RunnerLeadershipProofs ----------------------
(* Proofs about RunnerLeadership for any set of contenders, any lease term   *)
(* and any bound on the clock.                                               *)
EXTENDS RunnerLeadership, TLAPS

\* The initial state satisfies the inductive invariant.
LEMMA InitInv == Init => LeadershipInv
  BY LeadershipAssumption
     DEF Init, LeadershipInv, TypeOK, Lease, RuntimeState, Operation, Mutation,
         OpAt, MutationAt, HeldInv, TokenInv, TokenOf, StoppedIsQuiet

\* What the store writes is a lease.
LEMMA StoreRows ==
  ASSUME TypeOK, NEW h \in Holders
  PROVE  /\ Granted(h) \in Lease
         /\ Granted(h) # None
         /\ row # None => /\ row \in Lease
                          /\ Extended \in Lease /\ Extended # None
                          /\ Released \in Lease /\ Released # None
<1>1. LeaseTerm \in Nat /\ None \notin Lease /\ now \in Nat /\ row \in Lease \cup {None}
  BY LeadershipAssumption DEF TypeOK
<1>2. NextToken \in Nat
  BY <1>1 DEF NextToken, Lease
<1>3. Granted(h) \in Lease
  BY <1>1, <1>2 DEF Granted, Lease
<1>4. row # None => Extended \in Lease /\ Released \in Lease
  BY <1>1 DEF Extended, Released, Lease
<1> QED
  BY <1>1, <1>3, <1>4

\* Every step keeps the variables in their types.
LEMMA NextType == TypeOK /\ [Next]_vars => TypeOK'
<1> SUFFICES ASSUME TypeOK, [Next]_vars PROVE TypeOK'
  OBVIOUS
<1>a. LeaseTerm \in Nat /\ None \notin Lease
  BY LeadershipAssumption
<1>b. \A a \in {"idle", "campaign", "renew", "failed", "settled"} : OpAt(a) \in Operation
  BY DEF OpAt, Operation
<1>c. \A a \in {"idle", "begun", "running", "revoking"} : MutationAt(a) \in Mutation
  BY DEF MutationAt, Mutation
<1>1. CASE UNCHANGED vars
  BY <1>1 DEF TypeOK, vars
<1>2. CASE Tick
  BY <1>2 DEF TypeOK, Tick
<1>3. ASSUME NEW h \in Holders, OpBegin(h) PROVE TypeOK'
  BY <1>3, <1>b DEF TypeOK, OpBegin, storeVars
<1>4. ASSUME NEW h \in Holders, NEW l \in Lease \cup {None}, Answer(h, l)
      PROVE  /\ lease' \in [Holders -> Lease \cup {None}]
             /\ op' \in [Holders -> Operation]
  <2>1. [at |-> "settled", returned |-> l] \in Operation /\ OpAt("failed") \in Operation
    BY <1>b DEF Operation
  <2> QED
    BY <1>4, <2>1 DEF TypeOK, Answer
<1>5. ASSUME NEW h \in Holders, OpCampaign(h) PROVE TypeOK'
  <2>1. /\ row' \in Lease \cup {None}
        /\ \E l \in Lease \cup {None} : Answer(h, l)
    BY <1>5, StoreRows DEF TypeOK, OpCampaign
  <2> QED
    BY <1>5, <2>1, <1>4 DEF TypeOK, OpCampaign
<1>6. ASSUME NEW h \in Holders, OpRenew(h) PROVE TypeOK'
  <2>1. CASE lease[h] # None /\ Current(lease[h]) /\ row' = Extended /\ Answer(h, Extended)
    <3>1. Extended \in Lease
      BY <2>1, StoreRows DEF Current, Live
    <3> QED
      BY <1>6, <2>1, <3>1, <1>4 DEF TypeOK, OpRenew
  <2>2. CASE /\ lease' \in {lease, [lease EXCEPT ![h] = None]}
             /\ op' = [op EXCEPT ![h] = OpAt("failed")]
             /\ UNCHANGED row
    BY <1>6, <2>2, <1>b DEF TypeOK, OpRenew
  <2> QED
    BY <1>6, <2>1, <2>2 DEF OpRenew
<1>7. ASSUME NEW h \in Holders, OpUnreachable(h) PROVE TypeOK'
  BY <1>7, <1>b DEF TypeOK, OpUnreachable, storeVars
<1>8. ASSUME NEW h \in Holders, OpSettle(h) PROVE TypeOK'
  BY <1>8, <1>b DEF TypeOK, OpSettle, storeVars, Operation
<1>9. ASSUME NEW h \in Holders, MutateBegin(h) PROVE TypeOK'
  BY <1>9, <1>c DEF TypeOK, MutateBegin, storeVars
<1>10. ASSUME NEW h \in Holders, MutateAuthorized(h) PROVE TypeOK'
  <2>1. row \in Lease
    BY <1>10 DEF TypeOK, MutateAuthorized, Validated, Current, Live
  <2>2. [at |-> "running", token |-> row.token, until |-> row.until] \in Mutation
    BY <2>1 DEF Lease, Mutation
  <2> QED
    BY <1>10, <2>1, <2>2 DEF TypeOK, MutateAuthorized, storeVars, Lease
<1>11. ASSUME NEW h \in Holders, MutateRefused(h) PROVE TypeOK'
  BY <1>11, <1>c DEF TypeOK, MutateRefused, storeVars
<1>12. ASSUME NEW h \in Holders, MutateRevoke(h) PROVE TypeOK'
  BY <1>12, <1>c DEF TypeOK, MutateRevoke, storeVars
<1>13. ASSUME NEW h \in Holders, MutateEnd(h) PROVE TypeOK'
  BY <1>13, <1>c DEF TypeOK, MutateEnd, storeVars
<1>14. ASSUME NEW h \in Holders, Start(h) PROVE TypeOK'
  BY <1>14 DEF TypeOK, Start, storeVars, RuntimeState
<1>15. ASSUME NEW h \in Holders, ThreadDies(h) PROVE TypeOK'
  BY <1>15 DEF TypeOK, ThreadDies, storeVars, RuntimeState
<1>16. ASSUME NEW h \in Holders, CloseBegin(h) PROVE TypeOK'
  BY <1>16 DEF TypeOK, CloseBegin, storeVars, RuntimeState
<1>17. ASSUME NEW h \in Holders, CloseFinish(h) PROVE TypeOK'
  <2>1. row' \in Lease \cup {None}
    BY <1>17, StoreRows DEF TypeOK, CloseFinish, Current, Live
  <2> QED
    BY <1>17, <2>1 DEF TypeOK, CloseFinish, RuntimeState
<1>18. ASSUME NEW h \in Holders, Restart(h) PROVE TypeOK'
  BY <1>18, <1>b, <1>c DEF TypeOK, Restart, storeVars, RuntimeState
<1> QED
  BY <1>1, <1>2, <1>3, <1>5, <1>6, <1>7, <1>8, <1>9, <1>10, <1>11, <1>12, <1>13,
     <1>14, <1>15, <1>16, <1>17, <1>18 DEF Next

\* A write to the row that keeps every held tenure held, and gives at most its
\* writer a copy, preserves the invariant on tenures.
LEMMA TenuresStayHeld ==
  ASSUME TypeOK, HeldInv, NEW h \in Holders,
         now' = now, mutation' = mutation, row' # None, row' \in Lease,
         row'.holder = h, row'.until <= now + LeaseTerm,
         \A g \in Holders, t \in Nat, u \in Nat :
            Held(row, now, g, t, u) => Held(row', now', g, t, u),
         Held(row', now', h, row'.token, row'.until),
         \A g \in Holders : lease'[g] = lease[g] \/ (g = h /\ lease'[g] = row')
  PROVE  HeldInv'
<1>1. ASSUME NEW g \in Holders, lease'[g] # None
      PROVE  lease'[g].holder = g /\ Held(row', now', g, lease'[g].token, lease'[g].until)
  BY <1>1 DEF HeldInv, TypeOK, Lease
<1>2. ASSUME NEW g \in Holders, mutation'[g].at = "running"
      PROVE  Held(row', now', g, mutation'[g].token, mutation'[g].until)
  BY <1>2 DEF HeldInv, TypeOK, Mutation
<1> QED
  BY <1>1, <1>2 DEF HeldInv

\* The tenures contenders hold stay held: every write to the row either raises
\* the token after the old expiry has passed, or keeps the tenure and is made
\* by its only holder.
LEMMA NextHeld == TypeOK /\ HeldInv /\ [Next]_vars => HeldInv'
<1> SUFFICES ASSUME TypeOK, HeldInv, [Next]_vars PROVE HeldInv'
  OBVIOUS
<1>a. LeaseTerm \in Nat /\ None \notin Lease /\ TypeOK'
  BY LeadershipAssumption, NextType
<1>1. CASE UNCHANGED vars
  BY <1>1 DEF vars, HeldInv, Held
<1>2. CASE Tick
  <2>1. /\ row' = row /\ lease' = lease /\ mutation' = mutation
        /\ now \in Nat /\ now' = now + 1
    BY <1>2 DEF Tick, TypeOK
  <2>2. ASSUME NEW g \in Holders, NEW t \in Nat, NEW u \in Nat, Held(row, now, g, t, u)
        PROVE  Held(row', now', g, t, u)
    BY <2>1, <2>2 DEF Held
  <2>3. row # None => row.until <= now' + LeaseTerm
    BY <2>1, <1>a DEF HeldInv, TypeOK, Lease
  <2> QED
    BY <2>1, <2>2, <2>3 DEF HeldInv, TypeOK, Lease, Mutation
<1>3. ASSUME NEW h \in Holders,
             \/ OpBegin(h) \/ OpUnreachable(h) \/ OpSettle(h)
             \/ Start(h) \/ ThreadDies(h) \/ CloseBegin(h) \/ MutateRevoke(h)
             \/ MutateBegin(h) \/ MutateEnd(h) \/ MutateRefused(h) \/ Restart(h)
      PROVE  HeldInv'
  <2>1. UNCHANGED storeVars
    BY <1>3 DEF OpBegin, OpUnreachable, OpSettle, Start, ThreadDies, CloseBegin,
                MutateRevoke, MutateBegin, MutateEnd, MutateRefused, Restart
  <2>2. lease' \in {lease, [lease EXCEPT ![h] = None]}
    BY <1>3 DEF OpBegin, OpUnreachable, OpSettle, Start, ThreadDies, CloseBegin,
                MutateRevoke, MutateBegin, MutateEnd, MutateRefused, Restart
  <2>3. \/ mutation' = mutation
        \/ \E a \in {"idle", "begun", "revoking"} :
                mutation' = [mutation EXCEPT ![h] = MutationAt(a)]
    BY <1>3 DEF OpBegin, OpUnreachable, OpSettle, Start, ThreadDies, CloseBegin,
                MutateRevoke, MutateBegin, MutateEnd, MutateRefused, Restart
  <2> QED
    BY <2>1, <2>2, <2>3 DEF storeVars, HeldInv, Held, TypeOK, MutationAt
<1>4. ASSUME NEW h \in Holders, OpCampaign(h) PROVE HeldInv'
  <2>0. now' = now /\ mutation' = mutation
    BY <1>4 DEF OpCampaign
  <2>1. CASE ~ Live(row) /\ row' = Granted(h) /\ Answer(h, Granted(h))
    <3>1. /\ row' # None /\ row'.holder = h /\ row'.token = NextToken
          /\ row'.until = now + LeaseTerm
      BY <2>1, StoreRows DEF Granted
    <3>2. /\ row = None => NextToken = 1
          /\ row # None => /\ NextToken = row.token + 1 /\ row.until <= now
                           /\ row.token \in Nat /\ row.until \in Nat
      BY <2>1 DEF NextToken, Live, TypeOK, Lease
    <3>3. ASSUME NEW g \in Holders, NEW t \in Nat, NEW u \in Nat, Held(row, now, g, t, u)
          PROVE  Held(row', now', g, t, u)
      BY <2>0, <3>1, <3>2, <3>3 DEF Held, TypeOK
    <3>4. Held(row', now', h, row'.token, row'.until)
      BY <2>0, <3>1, <3>2, <1>a DEF Held, TypeOK
    <3>5. \A g \in Holders : lease'[g] = lease[g] \/ (g = h /\ lease'[g] = row')
      BY <2>1 DEF Answer, TypeOK
    <3>6. row' \in Lease /\ row'.until <= now + LeaseTerm
      BY <2>1, <3>1, <1>a, StoreRows DEF TypeOK
    <3> QED
      BY <2>0, <3>1, <3>3, <3>4, <3>5, <3>6, TenuresStayHeld
  <2>2. CASE Live(row) /\ row.holder = h /\ Answer(h, row) /\ UNCHANGED row
    BY <2>0, <2>2 DEF Answer, HeldInv, Held, Live, TypeOK, Lease
  <2>3. CASE Live(row) /\ row.holder # h /\ Answer(h, None) /\ UNCHANGED row
    BY <2>0, <2>3 DEF Answer, HeldInv, Held, TypeOK
  <2> QED
    BY <1>4, <2>1, <2>2, <2>3 DEF OpCampaign
<1>5. ASSUME NEW h \in Holders, OpRenew(h) PROVE HeldInv'
  <2>0. now' = now /\ mutation' = mutation
    BY <1>5 DEF OpRenew
  <2>1. CASE lease[h] # None /\ Current(lease[h]) /\ row' = Extended /\ Answer(h, Extended)
    <3>1. /\ row # None /\ row \in Lease /\ row.holder = h
          /\ row' # None /\ row'.holder = row.holder /\ row'.token = row.token
          /\ row'.until = now + LeaseTerm
      BY <2>1, StoreRows DEF Current, Live, Extended, HeldInv
    <3>2. row.until <= row'.until
      BY <3>1 DEF HeldInv
    <3>3. ASSUME NEW g \in Holders, NEW t \in Nat, NEW u \in Nat, Held(row, now, g, t, u)
          PROVE  Held(row', now', g, t, u)
      BY <2>0, <3>1, <3>2, <3>3, <1>a DEF Held, TypeOK, Lease
    <3>4. Held(row', now', h, row'.token, row'.until)
      BY <2>0, <3>1, <1>a DEF Held, TypeOK, Lease
    <3>5. \A g \in Holders : lease'[g] = lease[g] \/ (g = h /\ lease'[g] = row')
      BY <2>1 DEF Answer, TypeOK
    <3>6. row' \in Lease /\ row'.until <= now + LeaseTerm
      BY <2>1, <3>1, <1>a, StoreRows DEF TypeOK
    <3> QED
      BY <2>0, <3>1, <3>3, <3>4, <3>5, <3>6, TenuresStayHeld
  <2>2. CASE lease' \in {lease, [lease EXCEPT ![h] = None]} /\ UNCHANGED row
    BY <2>0, <2>2 DEF HeldInv, Held, TypeOK
  <2> QED
    BY <1>5, <2>1, <2>2 DEF OpRenew
<1>6. ASSUME NEW h \in Holders, MutateAuthorized(h) PROVE HeldInv'
  <2>1. row \in Lease /\ row # None /\ row.holder = h /\ UNCHANGED <<now, row, lease>>
    BY <1>6 DEF MutateAuthorized, Validated, Current, Live, TypeOK, HeldInv, storeVars
  <2>2. Held(row, now, h, row.token, row.until)
    BY <2>1 DEF Held, Lease
  <2>3. mutation' = [mutation EXCEPT
            ![h] = [at |-> "running", token |-> row.token, until |-> row.until]]
    BY <1>6 DEF MutateAuthorized
  <2> QED
    BY <2>1, <2>2, <2>3 DEF HeldInv, Held, TypeOK
<1>7. ASSUME NEW h \in Holders, CloseFinish(h) PROVE HeldInv'
  <2>1. /\ now' = now /\ mutation' = mutation
        /\ lease' = [lease EXCEPT ![h] = None]
        /\ mutation[h].at = "idle"
    BY <1>7 DEF CloseFinish
  <2>2. CASE lease[h] # None /\ Current(lease[h]) /\ row' = Released
    <3>1. /\ row # None /\ row \in Lease /\ row' # None
          /\ row'.holder = row.holder /\ row'.token = row.token /\ row'.until = now
          /\ row.holder = h
      BY <2>2, StoreRows DEF Current, Live, Released, HeldInv, TypeOK
    <3>2. ASSUME NEW g \in Holders, g # h, NEW t \in Nat, NEW u \in Nat,
                 Held(row, now, g, t, u)
          PROVE  Held(row', now', g, t, u)
      BY <2>1, <3>1, <3>2 DEF Held, TypeOK, Lease
    <3> QED
      BY <2>1, <3>1, <3>2, <1>a DEF HeldInv, TypeOK, Lease, Mutation
  <2>3. CASE UNCHANGED row
    BY <2>1, <2>3 DEF HeldInv, Held, TypeOK
  <2> QED
    BY <1>7, <2>2, <2>3 DEF CloseFinish
<1> QED
  BY <1>1, <1>2, <1>3, <1>4, <1>5, <1>6, <1>7 DEF Next

\* No step uses a token the store has not issued, and no step takes one back.
LEMMA NextTokens == TypeOK /\ TokenInv /\ [Next]_vars => TokenInv'
<1> SUFFICES ASSUME TypeOK, TokenInv, [Next]_vars PROVE TokenInv'
  OBVIOUS
<1>a. TypeOK'
  BY NextType
<1>b. TokenOf(row) \in Nat /\ TokenOf(row') \in Nat
  BY <1>a DEF TypeOK, TokenOf, Lease
<1>c. ASSUME TokenOf(row) <= TokenOf(row'), UNCHANGED issued,
             \A g \in Holders : lastToken'[g] \in {0, lastToken[g]}
      PROVE  TokenInv'
  BY <1>b, <1>c, <1>a DEF TokenInv, TypeOK
<1>1. CASE UNCHANGED vars
  BY <1>1, <1>b, <1>c DEF vars
<1>2. CASE Tick
  BY <1>2, <1>b, <1>c DEF Tick
<1>3. ASSUME NEW h \in Holders,
             \/ OpBegin(h) \/ OpUnreachable(h) \/ OpSettle(h)
             \/ Start(h) \/ ThreadDies(h) \/ CloseBegin(h) \/ MutateRevoke(h)
             \/ MutateBegin(h) \/ MutateEnd(h) \/ MutateRefused(h)
      PROVE  TokenInv'
  BY <1>3, <1>b, <1>c DEF OpBegin, OpUnreachable, OpSettle, Start, ThreadDies, CloseBegin,
                MutateRevoke, MutateBegin, MutateEnd, MutateRefused, storeVars
<1>4. ASSUME NEW h \in Holders, Restart(h) PROVE TokenInv'
  BY <1>4, <1>b, <1>c DEF Restart, storeVars, TypeOK
<1>5. ASSUME NEW h \in Holders, OpCampaign(h) PROVE TokenInv'
  <2>1. row' \in {row, Granted(h)} /\ UNCHANGED <<issued, lastToken>>
    BY <1>5 DEF OpCampaign
  <2>2. TokenOf(row) <= TokenOf(row')
    BY <2>1, <1>b, StoreRows, SMTT(60) DEF TokenOf, Granted, NextToken
  <2> QED
    BY <2>1, <2>2, <1>c
<1>6. ASSUME NEW h \in Holders, OpRenew(h) \/ CloseFinish(h) PROVE TokenInv'
  <2>1. row' = row \/ (row # None /\ row' \in {Extended, Released})
    BY <1>6 DEF OpRenew, CloseFinish, Current, Live
  <2>2. TokenOf(row) <= TokenOf(row')
    BY <2>1, <1>b, StoreRows DEF TokenOf, Extended, Released
  <2> QED
    BY <1>6, <2>2, <1>c DEF OpRenew, CloseFinish
<1>7. ASSUME NEW h \in Holders, MutateAuthorized(h) PROVE TokenInv'
  <2>1. row # None /\ row' = row /\ issued' = row.token
        /\ lastToken' = [lastToken EXCEPT ![h] = row.token]
    BY <1>7, ZenonT(60) DEF MutateAuthorized, Validated, Current, Live, storeVars
  <2> QED
    BY <2>1, <1>b DEF TokenInv, TokenOf, TypeOK
<1> QED
  BY <1>1, <1>2, <1>3, <1>4, <1>5, <1>6, <1>7 DEF Next

\* A stopped runtime stays quiet: neither run_once nor mutate starts anew.
LEMMA NextQuiet == TypeOK /\ StoppedIsQuiet /\ [Next]_vars => StoppedIsQuiet'
<1> SUFFICES ASSUME TypeOK, StoppedIsQuiet, [Next]_vars, NEW g \in Holders,
                    state'[g] = "stopped"
             PROVE  /\ lease'[g] = None /\ snapshot'[g] = None
                    /\ op'[g].at = "idle" /\ mutation'[g].at = "idle"
  BY DEF StoppedIsQuiet
<1> DEFINE Quiet == /\ lease'[g] = None /\ snapshot'[g] = None
                    /\ op'[g].at = "idle" /\ mutation'[g].at = "idle"
<1>a. state[g] = "stopped" => /\ lease[g] = None /\ snapshot[g] = None
                              /\ op[g].at = "idle" /\ mutation[g].at = "idle"
  BY DEF StoppedIsQuiet
<1>1. CASE UNCHANGED vars
  BY <1>1, <1>a DEF vars
<1>2. CASE Tick
  BY <1>2, <1>a DEF Tick
<1>3. ASSUME NEW h \in Holders, OpBegin(h) \/ OpUnreachable(h) \/ OpSettle(h) PROVE Quiet
  BY <1>3, <1>a DEF OpBegin, OpUnreachable, OpSettle, TypeOK
<1>4. ASSUME NEW h \in Holders, OpCampaign(h) \/ OpRenew(h) PROVE Quiet
  BY <1>4, <1>a DEF OpCampaign, OpRenew, Answer, TypeOK
<1>5. ASSUME NEW h \in Holders, MutateBegin(h) \/ MutateAuthorized(h) \/ MutateRefused(h)
      PROVE  Quiet
  BY <1>5, <1>a DEF MutateBegin, MutateAuthorized, MutateRefused, TypeOK
<1>6. ASSUME NEW h \in Holders, MutateRevoke(h) \/ MutateEnd(h) PROVE Quiet
  BY <1>6, <1>a DEF MutateRevoke, MutateEnd, MutationAt, TypeOK
<1>7. ASSUME NEW h \in Holders, Start(h) \/ ThreadDies(h) \/ CloseBegin(h) PROVE Quiet
  BY <1>7, <1>a DEF Start, ThreadDies, CloseBegin, TypeOK
<1>8. ASSUME NEW h \in Holders, CloseFinish(h) PROVE Quiet
  BY <1>8, <1>a DEF CloseFinish, TypeOK
<1>9. ASSUME NEW h \in Holders, Restart(h) PROVE Quiet
  BY <1>9, <1>a DEF Restart, OpAt, MutationAt, TypeOK
<1> QED
  BY <1>1, <1>2, <1>3, <1>4, <1>5, <1>6, <1>7, <1>8, <1>9 DEF Next

\* The inductive invariant holds in every reachable state.
THEOREM LeadershipInvariant == Spec => []LeadershipInv
<1>1. LeadershipInv /\ [Next]_vars => LeadershipInv'
  BY NextType, NextHeld, NextTokens, NextQuiet DEF LeadershipInv
<1> QED
  BY InitInv, <1>1, PTL DEF Spec

\* Two processes never both believe, by leases they cache, that they lead: an
\* unexpired cached lease is the tenure in the store, for any number of
\* contenders, lost replies, restarts and closes.
THEOREM CachedLeadershipIsCurrent == Spec => []UnexpiredLeaseIsCurrent
<1>1. LeadershipInv => UnexpiredLeaseIsCurrent
  <2> SUFFICES ASSUME LeadershipInv, NEW h \in Holders,
                      lease[h] # None, lease[h].until > now
               PROVE  Live(row) /\ row.holder = h /\ row.token = lease[h].token
    BY DEF UnexpiredLeaseIsCurrent
  <2>1. Held(row, now, h, lease[h].token, lease[h].until)
    BY DEF LeadershipInv, HeldInv
  <2>2. lease[h] \in Lease /\ row \in Lease \cup {None} /\ now \in Nat
    BY DEF LeadershipInv, TypeOK
  <2> QED
    BY <2>1, <2>2 DEF Held, Lease, Live
<1> QED
  BY LeadershipInvariant, <1>1, PTL

\* A mutation whose authority has not expired is run by the store's leader.
THEOREM WriterIsLeader == Spec => []UnexpiredWriterIsLeader
<1>1. LeadershipInv => UnexpiredWriterIsLeader
  BY SMTT(60) DEF LeadershipInv, HeldInv, Held, TypeOK, Lease, Mutation,
         UnexpiredWriterIsLeader, Live
<1> QED
  BY LeadershipInvariant, <1>1, PTL

\* Fencing tokens reach the sinks in an order that never goes back, and the
\* controller's own check of that order never refuses a mutation.
THEOREM AuthorityIsOrdered == Spec => AuthorityNeverRegresses /\ []ControllerFenceNeverTrips
<1>1. LeadershipInv => ControllerFenceNeverTrips
  BY DEF LeadershipInv, TokenInv, TokenOf, ControllerFenceNeverTrips, Validated,
         Current, Live
<1>2. LeadershipInv /\ [Next]_vars => (issued' >= issued \/ UNCHANGED vars)
  <2> SUFFICES ASSUME LeadershipInv, Next PROVE issued' >= issued
    BY DEF vars
  <2>1. issued' = issued \/ (row # None /\ issued' = row.token)
    BY ZenonT(60) DEF Next, Tick, OpBegin, OpCampaign, OpRenew, OpUnreachable, OpSettle,
           MutateBegin, MutateAuthorized, MutateRefused, MutateRevoke, MutateEnd,
           Start, ThreadDies, CloseBegin, CloseFinish, Restart, Validated, Current, Live
  <2> QED
    BY <2>1 DEF LeadershipInv, TokenInv, TokenOf, TypeOK
<1> QED
  BY LeadershipInvariant, <1>1, <1>2, PTL DEF Spec, AuthorityNeverRegresses

\* Rows, leases, operations and mutations keep their shape in every call of the
\* election runtime and the store.
THEOREM TypeCorrect == Spec => []TypeOK
<1>1. LeadershipInv => TypeOK
  BY DEF LeadershipInv
<1> QED
  BY LeadershipInvariant, <1>1, PTL

\* After close() has returned a process caches no lease, shows no leadership in
\* status() and runs neither an election operation nor a mutation.
THEOREM StoppedElectionIsQuiet == Spec => []StoppedIsQuiet
<1>1. LeadershipInv => StoppedIsQuiet
  BY DEF LeadershipInv
<1> QED
  BY LeadershipInvariant, <1>1, PTL
=============================================================================
