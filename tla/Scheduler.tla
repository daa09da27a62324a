----------------------------- MODULE Scheduler -----------------------------
(***************************************************************************)
(* The chunked-prefill scheduler of kairyu/engine/core/scheduler.py as      *)
(* operators on a scheduler record s: what schedule() plans and what        *)
(* update(), abort() and finish_early() do to the queues, the in-flight     *)
(* counters and the KV pages.                                               *)
(*                                                                          *)
(* The radix cache appears by the page counts the scheduler relies on:      *)
(* prompts share no page, so an allocation takes all of its pages from the  *)
(* pool, evicting idle nodes when the pool is short, and the computed nodes *)
(* of a released request stay behind as idle ones.  Sharing, splitting and  *)
(* locking are the subject of RadixKV.                                      *)
(***************************************************************************)
EXTENDS Integers, Sequences, FiniteSets, SequencesExt

CONSTANTS
    Requests,         \* request ids
    PromptLen,        \* tokens of each request's prompt
    MaxNew,           \* max_new_tokens of each request
    Priority,         \* priority of each request, smaller first
    PriorityEnabled,  \* priority_age_s is 0 (no aging), not null
    PageSize,
    NumPages,
    TokenBudget,      \* max_num_batched_tokens
    DecodeBudget,     \* decode_token_budget of P-D separation, or 0
    MaxSeqs,          \* max_num_seqs
    MaxPartial,       \* max_num_partial_prefills
    Watermark,        \* decode_watermark_pages
    SpecTokens,       \* speculative_tokens
    None

MaxWaitingBypasses == 1

CeilDiv(a, b) == (a + b - 1) \div b

ASSUME SchedulerAssumption ==
    /\ PageSize \in Nat \ {0} /\ NumPages \in Nat \ {0}
    /\ TokenBudget \in Nat \ {0} /\ MaxSeqs \in Nat \ {0}
    /\ MaxPartial \in Nat \ {0}
    /\ DecodeBudget \in Nat /\ Watermark \in Nat /\ SpecTokens \in Nat
    /\ \A r \in Requests : PromptLen[r] \in Nat \ {0} /\ MaxNew[r] \in Nat \ {0}

PromptPages(r) == CeilDiv(PromptLen[r], PageSize)

\* The pages a request owns once every token it may generate has a row.
TargetPages(r) == CeilDiv(PromptLen[r] + MaxNew[r], PageSize)

----------------------------------------------------------------------------
(* The state of a request and of the scheduler.                            *)

Absent == [status |-> "absent", computed |-> 0, outputs |-> 0, inFlight |-> 0,
           surplus |-> 0, spec |-> 0, pages |-> 0, decode |-> 0,
           bypasses |-> 0, reason |-> "none"]

\* req: _states; arrived: live ids by arrival; free: pages of the pool; idle:
\* sizes of the evictable nodes of the tree, in the order they are evicted.
Empty == [req |-> [r \in Requests |-> Absent], waiting |-> <<>>,
          running |-> <<>>, arrived |-> <<>>, free |-> NumPages, idle |-> <<>>]

PrefillDone(s, r) == s.req[r].computed >= PromptLen[r]

Owned(q) == q.pages + q.decode

HasUnfinished(s) == s.waiting # <<>> \/ s.running # <<>>

HasPrefillWork(s) ==
    \/ s.waiting # <<>>
    \/ \E i \in DOMAIN s.running : ~PrefillDone(s, s.running[i])

----------------------------------------------------------------------------
(* The waiting queue.  It is kept in the order peek() would serve it.      *)

PriorityKey(r) == IF PriorityEnabled THEN Priority[r] ELSE 0

\* append: behind its equals, or before them when front is set.
Enqueue(queue, r, front) ==
    LET ahead(x) == \/ PriorityKey(x) < PriorityKey(r)
                    \/ ~front /\ PriorityKey(x) = PriorityKey(r)
    IN  SelectSeq(queue, ahead) \o <<r>>
            \o SelectSeq(queue, LAMBDA x : ~ahead(x))

Without(queue, r) == SelectSeq(queue, LAMBDA x : x # r)

AddRequest(s, r) ==
    [s EXCEPT !.req[r] = [Absent EXCEPT !.status = "waiting"],
              !.arrived = Append(@, r),
              !.waiting = Enqueue(@, r, FALSE)]

----------------------------------------------------------------------------
(* Pages.                                                                  *)

PagesOf(nodes) == FoldLeft(+, 0, nodes)

\* _ensure_free: evict whole idle nodes until n pages are free or none is left.
RECURSIVE EnsureFree(_, _)
EnsureFree(s, n) ==
    IF s.free >= n \/ s.idle = <<>> THEN s
    ELSE EnsureFree([s EXCEPT !.free = @ + Head(s.idle), !.idle = Tail(@)], n)

\* Mutant: the pages grown during decoding are not given back.
ReturnPromptPages(s, r, kept) ==
    [s EXCEPT !.free = @ + s.req[r].pages - PagesOf(kept),
              !.idle = @ \o SelectSeq(kept, LAMBDA n : n > 0),
              !.req[r].pages = 0, !.req[r].decode = 0]

\* Give every page of r back, except those of the nodes that stay in the tree.
ReturnPages(s, r, kept) ==
    [s EXCEPT !.free = @ + Owned(s.req[r]) - PagesOf(kept),
              !.idle = @ \o SelectSeq(kept, LAMBDA n : n > 0),
              !.req[r].pages = 0, !.req[r].decode = 0]

\* Mutant: tokens in flight are written off.
StrandForgets(s, r) == [s EXCEPT !.req[r].inFlight = 0]

\* Tokens in flight for r will arrive after it left the running state.
Strand(s, r) ==
    [s EXCEPT !.req[r].surplus = @ + s.req[r].inFlight, !.req[r].inFlight = 0]

\* release_preempted keeps the prompt's node only if it was computed, which
\* the first committed output proves.
ReleaseWithoutCommit(s, r) ==
    Strand(ReturnPages(s, r, IF s.req[r].outputs = 0 THEN <<>>
                             ELSE <<PromptLen[r] \div PageSize>>), r)

----------------------------------------------------------------------------
(* The end of a request.                                                   *)

Ended(s, r, reason) ==
    [s EXCEPT !.req[r].status = "finished", !.req[r].reason = reason]

Abort(s, r) ==
    CASE s.req[r].status \in {"absent", "finished"} -> s
      [] s.req[r].status = "waiting" ->
            Ended([s EXCEPT !.waiting = Without(@, r)], r, "abort")
      [] OTHER ->
            Ended(ReleaseWithoutCommit([s EXCEPT !.running = Without(@, r)], r),
                  r, "abort")

\* The nodes commit_and_release leaves: the full pages generated, evicted
\* first, and the prompt's.  The last sampled token has no row.
CommittedNodes(r, outputs) ==
    <<(PromptLen[r] + outputs - 1) \div PageSize - PromptLen[r] \div PageSize,
      PromptLen[r] \div PageSize>>

\* _finish
Finish(s, r, reason) ==
    Ended([ReturnPages(s, r, CommittedNodes(r, s.req[r].outputs)) EXCEPT
              !.running = Without(@, r)], r, reason)

FinishEarly(s, r) ==
    CASE s.req[r].status = "finished" -> s
      [] s.req[r].status = "waiting" ->
            Ended([s EXCEPT !.waiting = Without(@, r)], r, "stop")
      [] OTHER -> Finish(Strand(s, r), r, "stop")

RejectUnadmittable(s, r) ==
    Ended([s EXCEPT !.waiting = Without(@, r)], r, "length")

Forget(s, r) ==
    IF s.req[r].status # "finished" THEN s
    ELSE [s EXCEPT !.req[r] = Absent, !.arrived = Without(@, r)]

----------------------------------------------------------------------------
(* Preemption.                                                             *)

\* Mutant: the victim is queued again but keeps its place among the running.
RequeueStillRunning(s, r) ==
    [ReleaseWithoutCommit(s, r) EXCEPT
        !.req[r].computed = 0, !.req[r].bypasses = 0,
        !.req[r].status = "waiting",
        !.waiting = Enqueue(@, r, TRUE)]

RequeuePreempted(s, r) ==
    [ReleaseWithoutCommit([s EXCEPT !.running = Without(@, r)], r) EXCEPT
        !.req[r].computed = 0, !.req[r].bypasses = 0,
        !.req[r].status = "waiting",
        !.waiting = Enqueue(@, r, TRUE)]

\* _preempt_for_decode: the youngest running request with neither an output
\* nor a token in flight.  Without sharing it always gives pages back, so the
\* cached-only fallback never arises.
DecodeVictims(s, needy) ==
    SelectSeq(s.running, LAMBDA r : /\ r # needy /\ s.req[r].outputs = 0
                                    /\ s.req[r].inFlight = 0)

\* _lower_priority_prefill_victim: the running prefill of the lowest rank
\* that the waiting request outranks, the youngest of its equals; or None.
Youngest(s, candidates) ==
    IF candidates = {} THEN None
    ELSE Last(SelectSeq(s.arrived, LAMBDA r : r \in candidates))

LowestRanked(candidates) ==
    {r \in candidates : \A x \in candidates : PriorityKey(x) <= PriorityKey(r)}

LowerPriorityVictim(s, waiting) ==
    Youngest(s, LowestRanked({r \in ToSet(s.running) :
                                 /\ ~PrefillDone(s, r) /\ s.req[r].outputs = 0
                                 /\ PriorityKey(waiting) < PriorityKey(r)}))

----------------------------------------------------------------------------
(* Decodes.                                                                *)

\* The pages r lacks for all its tokens and so many more.
MissingPages(q, r, extra) ==
    Max({0, CeilDiv(PromptLen[r] + q.outputs + q.inFlight + extra, PageSize)
            - Owned(q)})

\* Mutant: an exhausted pool goes unnoticed.
GivePagesBlindly(s, r, n, all) ==
    [s |-> [EnsureFree(s, n) EXCEPT !.free = @ - n, !.req[r].decode = @ + n],
     ok |-> TRUE]

GivePages(s, r, n, all) ==
    [s |-> [EnsureFree(s, n) EXCEPT !.free = @ - n, !.req[r].decode = @ + n],
     ok |-> n = all]

\* _ensure_decode_capacity.  Pages obtained before the pool ran dry are kept.
EnsureDecodeCapacity(s, r, extra) ==
    GivePages(s, r,
              Min({MissingPages(s.req[r], r, extra), s.free + PagesOf(s.idle)}),
              MissingPages(s.req[r], r, extra))

Chunk(r, n, prefill) == [req |-> r, tokens |-> n, prefill |-> prefill]

Remaining(s, r) == MaxNew[r] - s.req[r].outputs - s.req[r].inFlight

MayDecode(s, r, budget) ==
    /\ s.req[r].status = "running" /\ PrefillDone(s, r) /\ budget >= 1
    /\ Remaining(s, r) >= 1
    /\ SpecTokens > 0 => s.req[r].inFlight = 0

PlanDecode(acc, s, r, n) ==
    [s |-> [s EXCEPT !.req[r].inFlight = @ + n,
                     !.req[r].spec = IF SpecTokens > 0 THEN n ELSE @],
     budget |-> acc.budget - n,
     plan |-> Append(acc.plan, Chunk(r, n, FALSE))]

\* No room for the reservation: preempt one victim and try again.
PreemptForDecode(grown, victims, r, reserve) ==
    IF grown.ok \/ victims = <<>> THEN grown
    ELSE EnsureDecodeCapacity(RequeuePreempted(grown.s, Last(victims)), r, reserve)

\* Still no room: a single token is enough, and none means a later step.
DecodeOne(acc, grown, r) ==
    IF grown.ok THEN PlanDecode(acc, grown.s, r, 1) ELSE [acc EXCEPT !.s = grown.s]

ReserveDecode(acc, grown, r, reserve) ==
    IF grown.ok THEN PlanDecode(acc, grown.s, r, reserve)
    ELSE DecodeOne(acc, EnsureDecodeCapacity(grown.s, r, 1), r)

TryDecode(acc, grown, r, reserve) ==
    ReserveDecode(acc, PreemptForDecode(grown, DecodeVictims(grown.s, r), r, reserve),
                  r, reserve)

Reserve(acc, r) ==
    IF SpecTokens = 0 THEN 1
    ELSE Min({SpecTokens + 1, Remaining(acc.s, r), acc.budget})

\* One turn of the loop of _schedule_decodes, on s, a budget and a plan.
ScheduleDecode(acc, r) ==
    IF ~MayDecode(acc.s, r, acc.budget) THEN acc
    ELSE TryDecode(acc, EnsureDecodeCapacity(acc.s, r, Reserve(acc, r)), r,
                   Reserve(acc, r))

ScheduleDecodes(s, budget) ==
    FoldLeft(ScheduleDecode, [s |-> s, budget |-> budget, plan |-> <<>>], s.running)

----------------------------------------------------------------------------
(* The prefill budget of one plan.                                         *)

\* Pages that a running prefill would give back, and the pages that a
\* request owning so many of them may still ask for.
DecodeLiability(r, owned) == Max({0, TargetPages(r) - owned})

CompletionCost(r, owned) ==
    owned + (IF MaxNew[r] > 1 THEN DecodeLiability(r, owned) ELSE 0)

\* _simple_prefill_cohort: the leading tier of running and waiting prefills.
BestTier(candidates) ==
    SelectSeq(candidates,
              LAMBDA r : \A x \in ToSet(candidates) : PriorityKey(r) <= PriorityKey(x))

Leading(queue, n) == SubSeq(queue, 1, Min({Len(queue), Max({0, n})}))

CohortOf(s, prefills, cap) ==
    IF cap < 1 THEN <<>>
    ELSE Leading(BestTier(prefills \o Leading(s.waiting, cap)), cap)

Cohort(s, prefills, remaining) ==
    CohortOf(s, prefills,
             Min({MaxPartial, remaining,
                  Len(prefills) + Max({0, MaxSeqs - Len(s.running)})}))

BudgetFor(s, remaining, cohort, decodes, prefills) ==
    [remaining |-> remaining,
     shares |-> Max({1, Len(cohort)}),
     public |-> IF PriorityEnabled /\ cohort # <<>> THEN Priority[cohort[1]] ELSE None,
     cohort |-> ToSet(cohort),
     persistent |-> Len(decodes),
     margin |-> s.free + FoldLeft(LAMBDA n, r : n + Owned(s.req[r]), 0, prefills)
                - FoldLeft(LAMBDA n, r : n + DecodeLiability(r, Owned(s.req[r])),
                           0, decodes)]

BudgetAmong(s, remaining, prefills) ==
    BudgetFor(s, remaining, Cohort(s, prefills, remaining),
              SelectSeq(s.running, LAMBDA r : PrefillDone(s, r) /\ MaxNew[r] > 1),
              prefills)

\* _prefill_budget
PrefillBudget(s, remaining) ==
    BudgetAmong(s, remaining, SelectSeq(s.running, LAMBDA r : ~PrefillDone(s, r)))

ChunkLimit(b) ==
    IF b.remaining < 1 THEN 0 ELSE CeilDiv(b.remaining, Max({1, b.shares}))

Spend(b, chunk) ==
    [b EXCEPT !.remaining = @ - chunk, !.shares = Max({0, @ - 1})]

DropShare(b) == [b EXCEPT !.shares = Max({0, @ - 1})]

\* _can_complete_prefill for a request that owns so many pages: keep an
\* escape victim until every decode can retain its capacity.
CanCompletePrefill(b, r, owned) ==
    \/ MaxNew[r] <= 1
    \/ b.persistent < 1
    \/ CompletionCost(r, owned) <= b.margin

RecordCompletion(b, r, owned) ==
    [b EXCEPT !.margin = @ - CompletionCost(r, owned),
              !.persistent = IF MaxNew[r] > 1 THEN @ + 1 ELSE @]

\* A request of another priority may only start once no prefill of the
\* cohort is incomplete; it then opens a cohort of its own.
LiveCohort(s, b) ==
    {r \in b.cohort : s.req[r].status = "running" /\ ~PrefillDone(s, r)}

CohortBlocks(s, b, r) ==
    b.public # None /\ Priority[r] # b.public /\ LiveCohort(s, b) # {}

EnterCohort(b, r, live) ==
    IF b.public = None \/ Priority[r] = b.public THEN b
    ELSE IF live # {} THEN [b EXCEPT !.cohort = live]
    ELSE [b EXCEPT !.public = Priority[r], !.cohort = {}]

Entered(acc, r) == [acc EXCEPT !.b = EnterCohort(@, r, LiveCohort(acc.s, acc.b))]

\* Compute n more prompt tokens of r.  The chunk that completes the prompt
\* samples the first token.
Completed(acc, r) ==
    [acc EXCEPT !.s.req[r].inFlight = @ + 1,
                !.b = RecordCompletion(@, r, Owned(acc.s.req[r]))]

Computed(acc, r) ==
    IF PrefillDone(acc.s, r) THEN Completed(acc, r)
    ELSE IF acc.b.public = None THEN acc
    ELSE [acc EXCEPT !.b.cohort = @ \cup {r}]

Compute(acc, r, n) == [acc EXCEPT !.s.req[r].computed = @ + n]

PlanChunk(acc, r, chunk) ==
    Computed(Compute([acc EXCEPT !.b = Spend(@, chunk),
                                 !.plan = Append(@, Chunk(r, chunk, TRUE))],
                     r, chunk), r)

\* budget.take, the prompt's progress and the plan entry.
PlanPrefill(acc, r, requested) ==
    PlanChunk(acc, r, Min({requested, ChunkLimit(acc.b)}))

\* The tokens to ask for when the whole rest may not be computed yet.
Withhold(rest, b, r, owned) ==
    IF rest <= ChunkLimit(b) /\ ~CanCompletePrefill(b, r, owned) THEN rest - 1
    ELSE rest

----------------------------------------------------------------------------
(* Running prefills.                                                       *)

PrefillOrDrop(acc, r, requested) ==
    IF requested < 1 THEN [acc EXCEPT !.b = DropShare(@)]
    ELSE PlanPrefill(acc, r, requested)

PrefillRest(acc, r) == PromptLen[r] - acc.s.req[r].computed

SchedulePrefillIn(acc, r) ==
    PrefillOrDrop(acc, r, Withhold(PrefillRest(acc, r), acc.b, r, Owned(acc.s.req[r])))

\* One turn of the loop of _schedule_prefills.
SchedulePrefill(acc, r) ==
    IF acc.stop \/ acc.b.remaining < 1 THEN acc
    ELSE IF CohortBlocks(acc.s, acc.b, r) THEN [Entered(acc, r) EXCEPT !.stop = TRUE]
    ELSE SchedulePrefillIn(Entered(acc, r), r)

Ranked(ids) == FoldLeft(LAMBDA q, r : Enqueue(q, r, FALSE), <<>>, ids)

Prefilling(s, plan) ==
    SelectSeq(s.running, LAMBDA r : /\ ~PrefillDone(s, r)
                                    /\ \A i \in DOMAIN plan : plan[i].req # r)

SchedulePrefills(acc) ==
    [FoldLeft(SchedulePrefill, acc, Ranked(Prefilling(acc.s, acc.plan))) EXCEPT
        !.stop = FALSE]

Extend(acc, i, r, extra) ==
    LET more == [Compute(acc, r, extra) EXCEPT
                    !.b.remaining = @ - extra, !.plan[i].tokens = @ + extra]
    IN  IF PrefillRest(acc, r) = extra THEN Completed(more, r) ELSE more

Leftover(acc, r, rest) ==
    IF acc.b.remaining >= rest /\ ~CanCompletePrefill(acc.b, r, Owned(acc.s.req[r]))
    THEN rest - 1 ELSE Min({rest, acc.b.remaining})

\* _redistribute_prefill_remainder on entry i of the plan.
Redistribute(acc, i) ==
    IF \/ ~acc.plan[i].prefill
       \/ Leftover(acc, acc.plan[i].req, PrefillRest(acc, acc.plan[i].req)) < 1
    THEN acc
    ELSE Extend(acc, i, acc.plan[i].req,
                Leftover(acc, acc.plan[i].req, PrefillRest(acc, acc.plan[i].req)))

----------------------------------------------------------------------------
(* Admission.                                                              *)

\* r leaves the queue with its prompt's pages; passing the head counts.
Start(s, r, n) ==
    [s EXCEPT !.free = @ - n,
              !.waiting = Without(@, r), !.running = Append(@, r),
              !.req = [@ EXCEPT ![Head(s.waiting)].bypasses = @ + 1,
                                ![r] = [@ EXCEPT !.status = "running", !.pages = n,
                                                 !.bypasses = 0]]]

\* acc already holds the room for r.  One that passes the head must be
\* computed whole in this plan; one that computes nothing is not admitted.
AdmitWith(acc, r, bypassed, requested) ==
    IF \/ requested = 0
       \/ bypassed /\ (PromptLen[r] > ChunkLimit(acc.b) \/ requested < PromptLen[r])
    THEN [acc EXCEPT !.stop = TRUE]
    ELSE [PlanPrefill([acc EXCEPT !.s = Start(@, r, PromptPages(r))], r, requested)
             EXCEPT !.stop = bypassed]

\* Evicted pages add to the margin.
WithRoom(acc, room) ==
    [acc EXCEPT !.s = room, !.b.margin = @ + room.free - acc.s.free]

AdmitIn(acc, r, bypassed) ==
    AdmitWith(acc, r, bypassed, Withhold(PromptLen[r], acc.b, r, PromptPages(r)))

Admit(acc, r, bypassed) ==
    AdmitIn(WithRoom(acc, EnsureFree(acc.s, PromptPages(r))), r, bypassed)

\* The request that may pass a head the pool cannot serve, or None.
Successor(s, head) ==
    IF /\ s.running # <<>> /\ Len(s.waiting) >= 2
       /\ s.free < PromptPages(head) + Watermark
       /\ PromptPages(s.waiting[2]) <= NumPages
    THEN s.waiting[2] ELSE None

Blocked(acc) == [acc EXCEPT !.blocked = TRUE, !.stop = TRUE]

\* The successor must fit the plan, and the pool as it was and as it is.
Pass(acc, successor, free) ==
    IF \/ PromptLen[successor] > ChunkLimit(acc.b)
       \/ Min({free, acc.s.free}) < PromptPages(successor) + Watermark
    THEN Blocked(acc)
    ELSE Admit([acc EXCEPT !.blocked = TRUE], successor, TRUE)

SkipTo(acc, head, successor, free) ==
    IF successor = None \/ acc.s.req[head].bypasses >= MaxWaitingBypasses
    THEN Blocked(acc)
    ELSE IF CohortBlocks(acc.s, acc.b, successor) THEN Blocked(Entered(acc, successor))
    ELSE Pass(Entered(acc, successor), successor, free)

\* A head blocked on pages: one successor may pass it, once, if it can be
\* computed whole within this plan and needs no eviction.
SkipAhead(acc, head, successor, free, allowed) ==
    IF ~allowed THEN Blocked(acc)
    ELSE SkipTo([acc EXCEPT !.b = DropShare(@)], head, successor, free)

\* Mutant: the watermark is kept free even when nothing runs.
ReservedAlways(s, n) == Watermark > 0 /\ s.free < n + Watermark

\* The watermark is kept free for decodes while anything runs.
Reserved(s, n) == Watermark > 0 /\ s.running # <<>> /\ s.free < n + Watermark

AdmitFull(acc, head, successor, free, allowed) ==
    IF acc.s.running = <<>> THEN [acc EXCEPT !.s = RejectUnadmittable(@, head)]
    ELSE SkipAhead(acc, head, successor, free, allowed)

AdmitEntered(acc, head, allowed) ==
    IF Reserved(acc.s, PromptPages(head))
    THEN SkipAhead(acc, head, Successor(acc.s, head), acc.s.free, allowed)
    ELSE IF PromptPages(head) <= acc.s.free + PagesOf(acc.s.idle)
    THEN Admit(acc, head, FALSE)
    ELSE AdmitFull(WithRoom(acc, EnsureFree(acc.s, PromptPages(head))),
                   head, Successor(acc.s, head), acc.s.free, allowed)

\* One turn of the loop of _admit_waiting.
AdmitHead(acc, head, allowed) ==
    IF PromptPages(head) > NumPages
    THEN [acc EXCEPT !.s = RejectUnadmittable(@, head)]
    ELSE IF CohortBlocks(acc.s, acc.b, head) THEN [Entered(acc, head) EXCEPT !.stop = TRUE]
    ELSE AdmitEntered(Entered(acc, head), head, allowed)

\* _admit_waiting, with at most so many plan entries and running requests.
RECURSIVE AdmitLoop(_, _, _, _)
AdmitLoop(acc, entries, seqs, allowed) ==
    IF \/ acc.stop \/ acc.s.waiting = <<>> \/ acc.b.remaining < 1
       \/ Len(acc.s.running) >= seqs \/ Len(acc.plan) >= entries
    THEN [acc EXCEPT !.stop = FALSE]
    ELSE AdmitLoop(AdmitHead(acc, Head(acc.s.waiting), allowed), entries, seqs, allowed)

AdmitWaiting(acc) ==
    AdmitLoop([acc EXCEPT !.blocked = FALSE],
              Len(acc.plan) + Cardinality(Requests), MaxSeqs, TRUE)

\* The one admission that _admit_priority_ahead_of_prefills asks for.
AdmitOne(acc, seqs) ==
    AdmitLoop([acc EXCEPT !.blocked = FALSE], Len(acc.plan) + 1, seqs, FALSE)

Preempt(acc, victim) == [acc EXCEPT !.s = RequeuePreempted(@, victim)]

\* Preempting for a head that the decode escape margin would still keep from
\* completing, when it has nothing else to compute, is futile.
Futile(b, head) ==
    /\ PromptLen[head] = 1 /\ MaxNew[head] > 1 /\ b.persistent > 0
    /\ CompletionCost(head, PromptPages(head)) > b.margin

StopUnlessSettled(acc, head) ==
    IF acc.s.req[head].status = "waiting" /\ ~acc.blocked
    THEN [acc EXCEPT !.stop = TRUE] ELSE acc

\* The head is still short of pages: release a victim and try once more.
RetryAhead(acc, head, victim) ==
    IF victim = None THEN [acc EXCEPT !.stop = TRUE]
    ELSE StopUnlessSettled(AdmitOne(Preempt(acc, victim), MaxSeqs), head)

\* Mutant: the victim keeps running beside the head that took its place.
AfterProbeKeepsVictim(acc, head, victim, overcommit) ==
    CASE acc.s.req[head].status \in {"running", "finished"} -> acc
      [] OTHER -> IF ~acc.blocked THEN [acc EXCEPT !.stop = TRUE]
                  ELSE RetryAhead(acc, head, victim)

\* The head was tried with the victim running: over the sequence limit when
\* overcommit is set, and then it takes the victim's place.
AfterProbe(acc, head, victim, overcommit) ==
    CASE acc.s.req[head].status = "running" ->
            IF overcommit THEN Preempt(acc, victim) ELSE acc
      [] acc.s.req[head].status = "finished" -> acc
      [] OTHER -> IF ~acc.blocked THEN [acc EXCEPT !.stop = TRUE]
                  ELSE RetryAhead(acc, head, victim)

\* The head was tried after the victim was released.
AfterRelease(acc, head) ==
    IF acc.s.req[head].status # "waiting" THEN acc
    ELSE IF ~acc.blocked THEN [acc EXCEPT !.stop = TRUE]
    ELSE RetryAhead(acc, head, LowerPriorityVictim(acc.s, head))

\* One turn of the loop of _admit_priority_ahead_of_prefills for a head that
\* outranks victim: probe for it when it needs no eviction, otherwise
\* preempt the victim first.
AdmitAhead(acc, head, victim) ==
    IF Len(acc.s.running) < MaxSeqs
    THEN AfterProbe(AdmitOne(acc, MaxSeqs), head, victim, FALSE)
    ELSE IF PromptPages(head) <= acc.s.free
    THEN AfterProbe(AdmitOne(acc, MaxSeqs + 1), head, victim, TRUE)
    ELSE IF Futile(acc.b, head) THEN [acc EXCEPT !.stop = TRUE]
    ELSE AfterRelease(AdmitOne(Preempt(acc, victim), MaxSeqs), head)

\* A turn of that loop, the head's early exits included.
AheadTurn(acc, head, victim) ==
    IF PromptPages(head) > NumPages
    THEN [acc EXCEPT !.s = RejectUnadmittable(@, head)]
    ELSE IF CohortBlocks(acc.s, acc.b, head) \/ victim = None
    THEN [acc EXCEPT !.b.cohort = IF Priority[head] = acc.b.public THEN @
                                  ELSE LiveCohort(acc.s, acc.b),
                     !.stop = TRUE]
    ELSE AdmitAhead(acc, head, victim)

RECURSIVE AdmitPriorityAhead(_)
AdmitPriorityAhead(acc) ==
    IF ~PriorityEnabled \/ acc.stop \/ acc.s.waiting = <<>> \/ acc.b.remaining < 1
    THEN [acc EXCEPT !.stop = FALSE]
    ELSE AdmitPriorityAhead(AheadTurn(acc, Head(acc.s.waiting),
                                      LowerPriorityVictim(acc.s, Head(acc.s.waiting))))

----------------------------------------------------------------------------
(* schedule() and update().                                                *)

Planned(acc) ==
    FoldLeft(Redistribute, acc, [i \in 1..Len(acc.plan) |-> i])

PlanPrefills(decodes, left) ==
    Planned(AdmitWaiting(SchedulePrefills(AdmitPriorityAhead(
        [s |-> decodes.s, b |-> PrefillBudget(decodes.s, left),
         plan |-> decodes.plan, stop |-> FALSE, blocked |-> FALSE]))))

ScheduleAfter(decodes) ==
    PlanPrefills(decodes, IF DecodeBudget > 0 THEN TokenBudget ELSE decodes.budget)

\* The scheduler after schedule(), in s, and the plan.
Schedule(s) ==
    ScheduleAfter(ScheduleDecodes(s, IF DecodeBudget > 0 THEN DecodeBudget
                                     ELSE TokenBudget))

\* The tokens of a list of n that update() commits: up to the first terminal
\* one, which is a stop token (position stop, 0: none) or the last allowed.
Terminal(q, r, n, stop) == {i \in 1..n : i = stop \/ q.outputs + i >= MaxNew[r]}

CommitTokens(s, r, n) ==
    [s EXCEPT !.req[r].spec = 0, !.req[r].outputs = @ + n, !.req[r].inFlight = @ - n]

\* Mutant: rejected draft tokens stay in flight.
ShortfallNone(q, committed) == 0

\* Reserved draft slots that never arrive.
Shortfall(q, committed) == IF q.spec = 0 THEN 0 ELSE q.spec - committed

DropSurplus(s, r, n) == [s EXCEPT !.req[r].surplus = Max({0, @ - n})]

FinishAt(s, r, last, stop, shortfall) ==
    DropSurplus(Finish(Strand(CommitTokens(s, r, last), r), r,
                       IF last = stop THEN "stop" ELSE "length"),
                r, shortfall)

\* update() with n tokens for r: late tokens of a request that left are
\* trimmed from its surplus, live ones are committed.
Update(s, r, n, stop) ==
    IF s.req[r].status # "running"
    THEN DropSurplus([s EXCEPT !.req[r].spec = 0, !.req[r].surplus = @ - n],
                     r, Shortfall(s.req[r], 0))
    ELSE IF Terminal(s.req[r], r, n, stop) = {}
    THEN [CommitTokens(s, r, n) EXCEPT
             !.req[r].inFlight = @ - Shortfall(s.req[r], n)]
    ELSE FinishAt(s, r, Min(Terminal(s.req[r], r, n, stop)), stop,
                  Shortfall(s.req[r], Min(Terminal(s.req[r], r, n, stop))))
=============================================================================
