----------------------------- MODULE EngineLoop -----------------------------
(***************************************************************************)
(* The engine loop of kairyu/engine/engine_loop.py over the scheduler:      *)
(* producers stream adds and aborts from any thread, one step thread drains  *)
(* them, plans up to Depth steps ahead of the device, commits the oldest    *)
(* result, presents it and applies the stop strings the presentation finds. *)
(* A failed device call discards every step in flight and purges.           *)
(*                                                                          *)
(* pc says where the step thread is: "idle" between two steps, "fill" in    *)
(* the loop that plans ahead, "commit" after it, "output" when a batch that *)
(* may feed back is being presented, "failed" or "stalled" once an          *)
(* exception has left _step_once, "discarding" and "purging" in the two     *)
(* halves of purge, "publishing" after it, and "closed".                    *)
(***************************************************************************)
EXTENDS Scheduler

CONSTANTS
    Depth,          \* pipeline_depth
    Stops,          \* requests submitted with stop strings
    Refusable,      \* requests that may name a class add_request refuses
    MaxLives,       \* bound: submissions of one request id
    MaxFailures     \* bound: device calls that raise

ASSUME LoopAssumption ==
    /\ Depth \in Nat \ {0} /\ MaxLives \in Nat /\ MaxFailures \in Nat
    /\ Stops \subseteq Requests /\ Refusable \subseteq Requests

VARIABLES
    sched,          \* the Scheduler
    ops,            \* _ops: adds and aborts, oldest first
    active,         \* _active_request_ids
    aborting,       \* _abort_requested
    tracked,        \* _tracked: tokens presented so far, or None
    pending,        \* _pending_steps, oldest first
    deferred,       \* _deferred_forget
    batch,          \* inputs of the _StepOutputBatch that holds a barrier
    stream,         \* the backend's stream: "open" while its client waits
    victims,        \* request_ids of the failure being reported
    doomed,         \* the ids purge aborts and forgets
    pc,
    life,           \* ghost: submissions of each id
    failures        \* ghost: device calls that raised

purge == <<victims, doomed>>
loop == <<tracked, pending, deferred, batch, purge, pc>>
vars == <<sched, ops, active, aborting, loop, stream, life, failures>>

----------------------------------------------------------------------------
(* Producers.                                                              *)

\* Mutant: an add overtakes the operations queued before it.
EnqueueOpFirst(q, op) == IF op.kind = "add" THEN <<op>> \o q ELSE Append(q, op)

EnqueueOp(q, op) == Append(q, op)

Submit(r) ==
    /\ pc # "closed" /\ r \notin active /\ stream[r] # "open" /\ life[r] < MaxLives
    /\ life' = [life EXCEPT ![r] = @ + 1]
    /\ active' = active \cup {r}
    /\ stream' = [stream EXCEPT ![r] = "open"]
    /\ \E valid \in {TRUE, r \notin Refusable} :
           ops' = EnqueueOp(ops, [kind |-> "add", req |-> r, life |-> life'[r],
                                  valid |-> valid])
    /\ UNCHANGED <<sched, aborting, loop, failures>>

\* abort() and the end of the queue of r.
Abandon(r) ==
    /\ pc # "closed"
    /\ stream' = [stream EXCEPT ![r] = "left"]
    /\ IF r \in active \ aborting
       THEN /\ aborting' = aborting \cup {r}
            /\ ops' = EnqueueOp(ops, [kind |-> "abort", req |-> r, life |-> life[r]])
       ELSE UNCHANGED <<aborting, ops>>
    /\ UNCHANGED <<sched, active, loop, life, failures>>

\* The client of r leaves before the end.
Leave(r) == stream[r] = "open" /\ Abandon(r)

----------------------------------------------------------------------------
(* The step thread: draining the operations.                               *)

HasWork == ops # <<>> \/ pending # <<>> \/ HasUnfinished(sched)

\* One operation of _drain_ops, on the scheduler and the tracks.
DrainOp(acc, op) ==
    IF op.kind = "add"
    THEN [sched |-> AddRequest(acc.sched, op.req),
          tracked |-> [acc.tracked EXCEPT ![op.req] = 0]]
    ELSE IF acc.tracked[op.req] = None THEN acc
    ELSE [acc EXCEPT !.sched = Abort(@, op.req)]

Drain(q) ==
    \E drained \in {FoldLeft(DrainOp, [sched |-> sched, tracked |-> tracked], q)} :
        sched' = drained.sched /\ tracked' = drained.tracked

Refused(op) == op.kind = "add" /\ ~op.valid

DrainOps ==
    /\ pc = "idle" /\ HasWork /\ \A op \in ToSet(ops) : ~Refused(op)
    /\ Drain(ops)
    /\ ops' = <<>> /\ pc' = "fill"
    /\ UNCHANGED <<active, aborting, pending, deferred, batch,
                   purge, stream, life, failures>>

\* add_request raises: its id is free again, the operations behind it go back
\* to the queue and the step fails.
DrainFails ==
    /\ pc = "idle"
    /\ \E i \in DOMAIN ops :
           /\ Refused(ops[i]) /\ \A j \in 1..(i - 1) : ~Refused(ops[j])
           /\ Drain(SubSeq(ops, 1, i - 1))
           /\ active' = active \ {ops[i].req} /\ aborting' = aborting \ {ops[i].req}
           /\ ops' = SubSeq(ops, i + 1, Len(ops))
    /\ pc' = "failed"
    /\ UNCHANGED <<pending, deferred, batch, purge, stream, life, failures>>

----------------------------------------------------------------------------
(* Planning ahead.                                                         *)

InPending(r, steps) ==
    \E i \in DOMAIN steps : \E j \in DOMAIN steps[i] : steps[i][j].req = r

\* _schedule_ahead_limit
AheadLimit ==
    IF \/ HasPrefillWork(sched)
       \/ \E i \in DOMAIN pending : \E j \in DOMAIN pending[i] : pending[i][j].prefill
    THEN Min({Depth, 2}) ELSE Depth

\* should_drain_before_admission may hold: every running request has its last
\* token in flight and more requests wait than there are slots.  Whether the
\* drain forms a larger cohort is an estimate, left open.
MayDrainFirst ==
    /\ pending # <<>> /\ SpecTokens = 0
    /\ sched.running # <<>> /\ Len(sched.running) < MaxSeqs
    /\ Len(sched.waiting) > MaxSeqs - Len(sched.running)
    /\ \A r \in ToSet(sched.running) :
           /\ PrefillDone(sched, r) /\ sched.req[r].inFlight > 0
           /\ Remaining(sched, r) < 1

MayPlan ==
    pc = "fill" /\ HasUnfinished(sched) /\ Len(pending) < AheadLimit /\ ops = <<>>

StopPlanning ==
    /\ pc = "fill" /\ (~MayPlan \/ MayDrainFirst)
    /\ pc' = "commit"
    /\ UNCHANGED <<sched, ops, active, aborting, tracked, pending, deferred,
                   batch, purge, stream, life, failures>>

\* The frozen step: sample is how many tokens at most the device returns.
Snapshot(s, plan) ==
    [i \in DOMAIN plan |->
        [req |-> plan[i].req, tokens |-> plan[i].tokens, prefill |-> plan[i].prefill,
         sample |-> IF ~plan[i].prefill THEN plan[i].tokens
                    ELSE IF PrefillDone(s, plan[i].req) THEN 1 ELSE 0,
         life |-> life[plan[i].req]]]

\* _needs_commit_barrier
NeedsBarrier(s, plan) ==
    /\ SpecTokens > 0
    /\ \E i \in DOMAIN plan : plan[i].prefill /\ PrefillDone(s, plan[i].req)

\* Mutant: the waiting head is never rejected.
EmptyPlanWaits(s) == sched' = s /\ pc' = "commit"

\* An empty plan: with nothing in flight the waiting head is rejected, and
\* without one the step raises.
EmptyPlan(s) ==
    IF pending # <<>> \/ ~HasUnfinished(s) THEN sched' = s /\ pc' = "commit"
    ELSE IF s.waiting # <<>>
    THEN sched' = RejectUnadmittable(s, Head(s.waiting)) /\ pc' = "commit"
    ELSE sched' = s /\ pc' = "stalled"

PlanStep ==
    /\ MayPlan
    /\ \E out \in {Schedule(sched)} :
           IF out.plan = <<>>
           THEN EmptyPlan(out.s) /\ UNCHANGED pending
           ELSE /\ sched' = out.s
                /\ pending' = Append(pending, Snapshot(out.s, out.plan))
                /\ pc' = IF NeedsBarrier(out.s, out.plan) THEN "commit" ELSE "fill"
    /\ UNCHANGED <<ops, active, aborting, tracked, deferred, batch, purge,
                   stream, life, failures>>

\* The runner refuses the step after the scheduler has planned it.
SubmitFails ==
    /\ MayPlan /\ failures < MaxFailures
    /\ \E out \in {Schedule(sched)} : out.plan # <<>> /\ sched' = out.s
    /\ pc' = "failed" /\ failures' = failures + 1
    /\ UNCHANGED <<ops, active, aborting, tracked, pending, deferred, batch,
                   purge, stream, life>>

----------------------------------------------------------------------------
(* Committing the oldest step and presenting what it brought.  e holds the *)
(* part of the state that this works on.                                   *)

Engine == [sched |-> sched, active |-> active, aborting |-> aborting,
           tracked |-> tracked, deferred |-> deferred, stream |-> stream]

Becomes(e) ==
    /\ sched' = e.sched /\ active' = e.active /\ aborting' = e.aborting
    /\ tracked' = e.tracked /\ deferred' = e.deferred /\ stream' = e.stream

\* _forget
Forgotten(e, r) ==
    [e EXCEPT !.sched = Forget(@, r), !.active = @ \ {r}, !.aborting = @ \ {r}]

\* Mutant: a deferred request is never forgotten.
ReleaseCountKeeps(e, r, rest) == e

\* _release_pending_counts for r, of whose steps rest are still pending.
ReleaseCount(e, r, rest) ==
    IF r \in e.deferred /\ ~InPending(r, rest)
    THEN Forgotten([e EXCEPT !.deferred = @ \ {r}], r) ELSE e

Release(e, step, rest) ==
    FoldLeft(LAMBDA acc, c : ReleaseCount(acc, c.req, rest), e, step)

\* What the device may return for a chunk: up to sample tokens, at least
\* one, a stop token among them (0: none), or a finished grammar.
Results(c) ==
    {x \in [n : 1..c.sample, stop : 0..c.sample, grammar : BOOLEAN] :
        /\ x.stop <= x.n /\ (x.grammar => x.stop = 0)
        /\ SpecTokens = 0 => x.n = c.sample}

Sampling(step) == SelectSeq(step, LAMBDA c : c.sample > 0)

Outcomes(chunks) ==
    {f \in [DOMAIN chunks -> UNION {Results(chunks[i]) : i \in DOMAIN chunks}] :
        \A i \in DOMAIN chunks : f[i] \in Results(chunks[i])}

\* update() of every sampled request, then finish_early for the grammars.
UpdateAll(s, chunks, f) ==
    FoldLeft(LAMBDA acc, i : Update(acc, chunks[i].req, f[i].n, f[i].stop),
             s, [i \in DOMAIN chunks |-> i])

FinishGrammars(s, chunks, f) ==
    FoldLeft(LAMBDA acc, i : IF f[i].grammar THEN FinishEarly(acc, chunks[i].req)
                             ELSE acc,
             s, [i \in DOMAIN chunks |-> i])

CommitChunks(e, chunks, f) ==
    [e EXCEPT !.sched = FinishGrammars(UpdateAll(@, chunks, f), chunks, f)]

\* Mutant: a request is forgotten while steps of it are in flight.
RetireAtOnce(e, r, rest) ==
    Forgotten([e EXCEPT !.tracked[r] = None,
                        !.stream[r] = IF @ = "open" THEN "ended" ELSE @], r)

\* The end of r is presented: its track goes, and its state as soon as no
\* pending step names it.  The stream counts as ended from here on, although
\* the event loop has yet to deliver the end (StepDelivery has that delay).
Retire(e, r, rest) ==
    LET out == [e EXCEPT !.tracked[r] = None,
                         !.stream[r] = IF @ = "open" THEN "ended" ELSE @]
    IN  IF InPending(r, rest) THEN [out EXCEPT !.deferred = @ \cup {r}]
        ELSE Forgotten(out, r)

PresentOne(e, r, rest) ==
    IF e.tracked[r] = None THEN e
    ELSE IF e.sched.req[r].status = "finished" THEN Retire(e, r, rest)
    ELSE [e EXCEPT !.tracked[r] = e.sched.req[r].outputs]

Present(e, rest) ==
    FoldLeft(LAMBDA acc, r : PresentOne(acc, r, rest), e, SetToSeq(Requests))

\* The inputs of the batch: the requests with new tokens or an end.
Inputs(before, after) ==
    {[req |-> r, life |-> life[r]] : r \in
        {x \in Requests : /\ before.tracked[x] # None
                          /\ after.tracked[x] # before.tracked[x]}}

\* The requests of a batch whose new text may hold a stop string.
Matching(inputs, after) ==
    {i.req : i \in {x \in inputs : x.req \in Stops /\ after.tracked[x.req] # None}}

\* Only a batch that may feed back keeps the next step waiting.
EndStep(e, rest, inputs) ==
    /\ Becomes(e) /\ pending' = rest
    /\ IF Matching(inputs, e) = {} THEN batch' = {} /\ pc' = "idle"
       ELSE batch' = inputs /\ pc' = "output"
    /\ UNCHANGED <<ops, purge, life, failures>>

Commit ==
    /\ pc = "commit" /\ pending # <<>>
    /\ \E f \in Outcomes(Sampling(Head(pending))) :
           \E e \in {Present(Release(CommitChunks(Engine, Sampling(Head(pending)), f),
                                     Head(pending), Tail(pending)),
                             Tail(pending))} :
               EndStep(e, Tail(pending), Inputs(Engine, e))

\* Nothing is in flight: the step still presents what it rejected or aborted.
PresentOnly ==
    /\ pc = "commit" /\ pending = <<>>
    /\ Becomes(Present(Engine, <<>>)) /\ pc' = "idle"
    /\ UNCHANGED <<ops, pending, batch, purge, life, failures>>

\* The oldest step's device call raises.
CommitFails ==
    /\ pc = "commit" /\ pending # <<>> /\ failures < MaxFailures
    /\ Becomes(Release(Engine, Head(pending), Tail(pending)))
    /\ pending' = Tail(pending)
    /\ pc' = "failed" /\ failures' = failures + 1
    /\ UNCHANGED <<ops, batch, purge, life>>

\* finish_output: the stop strings found end their requests.
FinishOutput ==
    /\ pc = "output"
    /\ \E found \in SUBSET Matching(batch, Engine) :
           Becomes(FoldLeft(LAMBDA e, r : Retire([e EXCEPT !.sched = FinishEarly(@, r)],
                                                 r, pending),
                            Engine, SetToSeq(found)))
    /\ batch' = {} /\ pc' = "idle"
    /\ UNCHANGED <<ops, pending, purge, life, failures>>

----------------------------------------------------------------------------
(* A failed step, and the end.                                             *)

\* _report_step_failure names every open stream.
ReportFailure ==
    /\ pc \in {"failed", "stalled"}
    /\ victims' = {r \in Requests : stream[r] = "open"}
    /\ doomed' = victims' /\ pc' = "discarding"
    /\ UNCHANGED <<sched, ops, active, aborting, tracked, pending, deferred,
                   batch, stream, life, failures>>

\* _discard_pending_steps, one settled device call at a time.
DiscardStep ==
    /\ pc = "discarding" /\ pending # <<>>
    /\ Becomes(Release(Engine, Head(pending), Tail(pending)))
    /\ pending' = Tail(pending)
    /\ doomed' = doomed \cup {c.req : c \in ToSet(Head(pending))}
    /\ UNCHANGED <<ops, batch, victims, pc, life, failures>>

\* Mutant: purge leaves the queued operations of its ids.
FilterNoOps ==
    /\ pc = "discarding" /\ pending = <<>>
    /\ aborting' = aborting \ doomed
    /\ doomed' = doomed \cap active /\ pc' = "purging"
    /\ UNCHANGED <<sched, ops, active, tracked, pending, deferred, batch, victims,
                   stream, life, failures>>

\* purge drops the operations of its ids and settles which are active.
FilterOps ==
    /\ pc = "discarding" /\ pending = <<>>
    /\ ops' = SelectSeq(ops, LAMBDA op : op.req \notin doomed)
    /\ aborting' = aborting \ doomed
    /\ doomed' = doomed \cap active /\ pc' = "purging"
    /\ UNCHANGED <<sched, active, tracked, pending, deferred, batch, victims,
                   stream, life, failures>>

AbortAndForget(e, r) ==
    Forgotten([e EXCEPT !.sched = Abort(@, r), !.tracked[r] = None], r)

PurgeIds ==
    /\ pc = "purging"
    /\ Becomes(FoldLeft(AbortAndForget, Engine, SetToSeq(doomed)))
    /\ doomed' = {} /\ pc' = "publishing"
    /\ UNCHANGED <<ops, pending, batch, victims, life, failures>>

\* The failure goes to the streams that were named.
PublishFailure ==
    /\ pc = "publishing"
    /\ stream' = [r \in Requests |-> IF r \in victims /\ stream[r] = "open"
                                     THEN "ended" ELSE stream[r]]
    /\ victims' = {} /\ pc' = "idle"
    /\ UNCHANGED <<sched, ops, active, aborting, tracked, pending, deferred,
                   batch, doomed, life, failures>>

\* close(): settle what is in flight, then abort and forget every request.
Close ==
    /\ pc = "idle"
    /\ Becomes([FoldLeft(AbortAndForget,
                         FoldLeft(LAMBDA e, r : ReleaseCount(e, r, <<>>), Engine,
                                  SetToSeq(deferred)),
                         SetToSeq(active \ deferred)) EXCEPT !.deferred = {}])
    /\ pending' = <<>> /\ ops' = <<>> /\ pc' = "closed"
    /\ UNCHANGED <<batch, purge, life, failures>>

----------------------------------------------------------------------------

Init ==
    /\ sched = Empty /\ ops = <<>> /\ active = {} /\ aborting = {}
    /\ tracked = [r \in Requests |-> None] /\ pending = <<>> /\ deferred = {}
    /\ batch = {} /\ victims = {} /\ doomed = {} /\ pc = "idle"
    /\ stream = [r \in Requests |-> "none"]
    /\ life = [r \in Requests |-> 0] /\ failures = 0

StepThread ==
    \/ DrainOps \/ DrainFails \/ StopPlanning \/ PlanStep \/ SubmitFails
    \/ Commit \/ PresentOnly \/ CommitFails \/ FinishOutput
    \/ ReportFailure \/ DiscardStep \/ FilterOps \/ PurgeIds
    \/ PublishFailure

Next ==
    \/ \E r \in Requests : Submit(r) \/ Leave(r)
    \/ StepThread
    \/ Close

Spec == Init /\ [][Next]_vars

\* Where StepThread has a step to take.
Busy == pc \notin {"idle", "closed"} \/ (pc = "idle" /\ HasWork)

\* Weak fairness of StepThread, whose every step changes pc or pending: the
\* worker steps while there is work, device calls return, and the pump starts
\* a new worker when an operation arrived after the last look.
FairSpec == Spec /\ ([]<>~Busy \/ []<><<TRUE>>_<<pc, pending>>)

----------------------------------------------------------------------------
(* Properties.                                                             *)

Live == {r \in Requests : sched.req[r].status # "absent"}

Sum(f(_), set) == FoldSet(LAMBDA x, n : n + f(x), 0, set)

\* The state has the shape the code gives it: the queues hold each live
\* request once, according to its status, and only a running one owns pages.
TypeOK ==
    /\ \A q \in {sched.waiting, sched.running} : IsInjective(q)
    /\ ToSet(sched.waiting) = {r \in Live : sched.req[r].status = "waiting"}
    /\ ToSet(sched.running) = {r \in Live : sched.req[r].status = "running"}
    /\ \A r \in Requests : Owned(sched.req[r]) > 0 => r \in ToSet(sched.running)

\* The tokens that pending steps will still bring for r.
Awaited(r) ==
    Sum(LAMBDA i : Sum(LAMBDA j : IF pending[i][j].req = r THEN pending[i][j].sample
                                  ELSE 0,
                       DOMAIN pending[i]),
        DOMAIN pending)

\* update() never meets a token nobody is waiting for: what a request has in
\* flight, or has left behind as surplus, is what the pending steps hold for
\* it, across preemption, EOS, aborts, stop strings and draft shortfalls.  A
\* step that failed may leave a request whose client had left with tokens
\* that never come; its queued abort then releases them.
InFlightIsExact ==
    pc \in {"idle", "fill", "commit", "output"} =>
        \A r \in Live :
            \/ /\ sched.req[r].inFlight + sched.req[r].surplus = Awaited(r)
               /\ sched.req[r].inFlight = 0 \/ sched.req[r].surplus = 0
               /\ sched.req[r].status = "waiting" => Awaited(r) = 0
            \/ failures > 0 /\ r \in aborting

\* A step in flight never outlives the requests it was planned for: the id
\* is neither forgotten nor in the hands of a later request, so no token,
\* cache row or sampler state crosses over when an id is reused.
TokensReachTheirRequest ==
    \A i \in DOMAIN pending : \A c \in ToSet(pending[i]) :
        c.req \in Live \cap active /\ c.life = life[c.req]

\* Every page is free, idle in the tree or owned by one running request.
PagesConserved ==
    sched.free + PagesOf(sched.idle)
        + Sum(LAMBDA r : Owned(sched.req[r]), Requests) = NumPages

\* Every row that a step in flight will write has a page: the decode planned
\* ahead of uncommitted tokens, and draft tokens, included.
RowsHavePages ==
    \A r \in ToSet(sched.running) : PrefillDone(sched, r) =>
        PromptLen[r] + sched.req[r].outputs + sched.req[r].inFlight - 1
            <= Owned(sched.req[r]) * PageSize

Tokens(step, prefill) ==
    Sum(LAMBDA i : IF step[i].prefill = prefill THEN step[i].tokens ELSE 0, DOMAIN step)

\* No plan exceeds the step's token budget, or the two budgets where decodes
\* have their own, names a request twice, or leaves more requests running
\* than the sequence limit.
PlansAreWithinLimits ==
    /\ Len(sched.running) <= MaxSeqs
    /\ \A i \in DOMAIN pending :
           /\ \A j, k \in DOMAIN pending[i] : pending[i][j].req = pending[i][k].req => j = k
           /\ Tokens(pending[i], TRUE) <= TokenBudget
           /\ Tokens(pending[i], FALSE) <= IF DecodeBudget > 0 THEN DecodeBudget
                                           ELSE TokenBudget - Tokens(pending[i], TRUE)

\* A request is never told "length" before its tokens are used up, and the
\* step never raises for lack of progress, provided that each request on its
\* own fits the pool: prefills leave the running decodes their way out.
FittingRequestsAreServed ==
    (\A r \in Requests : TargetPages(r) <= NumPages) =>
        /\ pc # "stalled"
        /\ \A r \in Live : sched.req[r].reason = "length" =>
               sched.req[r].outputs = MaxNew[r]

\* An abort of an earlier request with the same id is drained before the add
\* of the later one, so it never ends it.
StaleAbortsComeFirst ==
    \A i \in DOMAIN ops : (ops[i].kind = "abort" /\ ops[i].life < life[ops[i].req]) =>
        \/ ops[i].req \notin active
        \/ \E j \in (i + 1)..Len(ops) : /\ ops[j].kind = "add"
                                        /\ ops[j].req = ops[i].req
                                        /\ ops[j].life = life[ops[i].req]

\* Nobody waits for a request the engine no longer knows, unless the failure
\* is about to reach them, and no stream is presented anything after its end.
StreamsAreServed ==
    /\ \A r \in Requests :
           stream[r] = "open" => r \in active \cup victims \/ pc \in {"failed", "closed"}
    /\ \A r \in Requests : tracked[r] # None => stream[r] # "ended"

\* purge loses no unrelated add: a stream that no failure report names or is
\* about to name is tracked, or its add is still queued.
PurgeLosesNoAdd ==
    \A r \in Requests :
        stream[r] = "open" /\ r \notin victims /\ pc \notin {"failed", "closed"} =>
        \/ tracked[r] # None
        \/ \E op \in ToSet(ops) : op.kind = "add" /\ op.req = r /\ op.life = life[r]

\* reject_waiting_head, the stall backstop, only ever ends a request that
\* could be admitted by itself when nothing is running.
HeadRejectedOnlyWhenNothingRuns ==
    [][\A r \in Requests :
           (/\ pc = "fill" /\ PromptPages(r) <= NumPages
            /\ sched.req[r].status = "waiting"
            /\ sched'.req[r].reason = "length") => sched'.running = <<>>]_vars

\* Every client that waits gets an end or leaves, whether or not its request
\* fits the pool and even if a step fails: reject_waiting_head, the stall
\* error and the failure report leave no stream behind.
EveryStreamEnds ==
    \A r \in Requests : stream[r] = "open" ~> (stream[r] # "open" \/ pc = "closed")

\* Every request that enters is forgotten once its deferred steps are in, so
\* its id becomes free again.
EveryRequestEnds == \A r \in Requests : r \in active ~> r \notin active

\* Once the engine is at rest, no id is still reserved: a request that ended
\* or was aborted has been presented and forgotten, and its id may be reused.
AbortedIdsAreReleased == pc = "idle" /\ ~HasWork => active = {}
=============================================================================
