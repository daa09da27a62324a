------------------------------ MODULE RadixKV ------------------------------
(***************************************************************************)
(* The radix prefix cache of kairyu/engine/core/radix_kv.py over the page   *)
(* pool of kairyu/engine/core/pages.py, driven by the life of a request as  *)
(* the scheduler drives it: allocate, prefill, decode, then commit or       *)
(* preempt.  A node of the radix tree is named by the whole token path from *)
(* the root to its end.  A split leaves the lower node object, and so its   *)
(* path, in place, which is why allocations and pins may keep a path.       *)
(* Pages are numbered along the path: a node that starts after page `start` *)
(* holds the pages start+1 .. FullPages(path), so a split cuts the interval *)
(* and moves nothing.                                                       *)
(*                                                                          *)
(* The optional DRAM tier appears by what RadixKVCache relies on: a set of  *)
(* page prefixes it can restore, transfers that succeed, are settled        *)
(* failures, or end with an unknown completion.                             *)
(***************************************************************************)
EXTENDS Integers, Sequences, FiniteSets, FiniteSetsExt, Functions

CONSTANTS
    Requests,      \* request slots of the scheduler
    Sessions,      \* orchestration sessions that pin a prefix
    Tokens,        \* token ids
    Sampled,       \* token ids a sampler may return
    Prompts,       \* the prompts submitted, sequences of tokens
    PageSize,      \* tokens in a page
    NumPages,      \* pages in the pool
    MaxOutput,     \* bound: tokens a request generates
    PinTtls,       \* ttl_allocations values of pin()
    MinRestore,    \* _dram_min_restore_tokens, in pages; 0: no tier attached
    Refusals,      \* after how many evictions the tier or the sink may raise
    None

ASSUME RadixAssumption ==
    /\ IsFiniteSet(Requests) /\ IsFiniteSet(Sessions)
    /\ PageSize \in Nat \ {0} /\ NumPages \in Nat \ {0}
    /\ MaxOutput \in Nat /\ MinRestore \in Nat
    /\ PinTtls \subseteq Nat \ {0} /\ Refusals \subseteq Nat
    /\ Sampled \subseteq Tokens
    /\ \A s \in Prompts : s \in Seq(Tokens) /\ Len(s) > 0
    /\ None \notin [tokens : Seq(Tokens), table : Seq(1..NumPages), matched : Nat,
                    node : Seq(Tokens), inserted : BOOLEAN, out : Seq(Tokens)]
    /\ None \notin [node : Seq(Tokens), left : Nat]

VARIABLES
    cache,     \* the RadixKVCache, a record:
               \*   free   _pool._free            nodes  the tree, by path
               \*   older  pairs of nodes, the first with the older last_access
               \*   host   prefixes the DRAM tier holds
               \*   told   prefixes announced stored and not yet removed
               \*   lost   pages quarantined or reserved for good
               \*   rows   ghost: the token sequence whose KV a page ends
    pins,      \* _pins: session -> node path and allocations left (0: forever)
    alloc      \* per request: tokens, page table (the KVAllocation's pages and
               \* the decode pages), matched pages, node, outputs

vars == <<cache, pins, alloc>>

Pages == 1..NumPages
Root == <<>>

----------------------------------------------------------------------------
(* Page arithmetic on token paths.                                         *)

FullPages(s) == Len(s) \div PageSize

PagePrefix(s, n) == SubSeq(s, 1, n * PageSize)

\* Node a lies on the path from the root to q.
OnPath(a, q) == FullPages(a) <= FullPages(q) /\ PagePrefix(q, FullPages(a)) = a

----------------------------------------------------------------------------
(* The tree.                                                               *)

\* Every page-aligned prefix that node q of the tree holds a page for.
SegmentPrefixes(nodes, q) ==
    {PagePrefix(q, n) : n \in (nodes[q].start + 1)..FullPages(q)}

\* The node that holds the page of prefix x: children.get(first_page) of the
\* node before x, or the node that x ends inside.
Holder(nodes, x) == {q \in DOMAIN nodes : x \in SegmentPrefixes(nodes, q)}

Children(nodes, q) == {d \in DOMAIN nodes : d # q /\ OnPath(q, d)}

\* Mutant: matching does not skip a node whose prefill is still running.
MatchesUncomputed(nodes, x) == Holder(nodes, x) # {}

\* _match_and_lock steps over the page of x: a computed node holds it.
Matches(nodes, x) == \E q \in Holder(nodes, x) : nodes[q].computed

\* The pages of s that the walk from the root matches, one after the other.
MatchedPages(nodes, s) ==
    Max({n \in 0..FullPages(s) : \A i \in 1..n : Matches(nodes, PagePrefix(s, i))})

\* Mutant: the upper half of a split starts with no locks.
SplitUnlocked(nodes, q, n) ==
    LET node == nodes[q]
        upper == [start |-> node.start,
                  pages |-> [i \in (node.start + 1)..n |-> node.pages[i]],
                  ref |-> 0, computed |-> node.computed]
        lower == [start |-> n,
                  pages |-> [i \in (n + 1)..FullPages(q) |-> node.pages[i]],
                  ref |-> node.ref, computed |-> node.computed]
    IN  [p \in DOMAIN nodes \cup {PagePrefix(q, n)} |->
            IF p = q THEN lower
            ELSE IF p = PagePrefix(q, n) THEN upper ELSE nodes[p]]

\* Mutant: the lower half of a split keeps its whole page list.
SplitSharesPages(nodes, q, n) ==
    LET node == nodes[q]
        upper == [node EXCEPT !.pages = [i \in (node.start + 1)..n |-> @[i]]]
        lower == [node EXCEPT !.start = n]
    IN  [p \in DOMAIN nodes \cup {PagePrefix(q, n)} |->
            IF p = q THEN lower
            ELSE IF p = PagePrefix(q, n) THEN upper ELSE nodes[p]]

\* _split: the new upper node inherits the lock count, the stamp and the
\* computed flag; the node keeps the tail of its segment.
Split(nodes, q, n) ==
    LET node == nodes[q]
        upper == [start |-> node.start,
                  pages |-> [i \in (node.start + 1)..n |-> node.pages[i]],
                  ref |-> node.ref, computed |-> node.computed]
        lower == [start |-> n,
                  pages |-> [i \in (n + 1)..FullPages(q) |-> node.pages[i]],
                  ref |-> node.ref, computed |-> node.computed]
    IN  [p \in DOMAIN nodes \cup {PagePrefix(q, n)} |->
            IF p = q THEN lower
            ELSE IF p = PagePrefix(q, n) THEN upper ELSE nodes[p]]

\* The tree in which the node that the match x ends inside, if any, is split.
SplitPartial(nodes, x) ==
    IF x \in DOMAIN nodes \/ Holder(nodes, x) = {} THEN nodes
    ELSE Split(nodes, CHOOSE q \in Holder(nodes, x) : TRUE, FullPages(x))

\* _touch of the nodes of one path, from the root down.
Touch(older, nodes, path) ==
    {e \in (DOMAIN nodes) \X (DOMAIN nodes) :
        \/ e[2] \in path /\ (e[1] \notin path \/ Len(e[1]) < Len(e[2]))
        \/ e[2] \notin path /\ e[1] \notin path /\ e \in older}

\* A node with k more locks.
Locks(node, k) == [node EXCEPT !.ref = @ + k]

\* Lock and stamp the path to x.
LockPath(c, nodes, x) ==
    [c EXCEPT !.nodes = [q \in DOMAIN nodes |->
                            IF OnPath(q, x) THEN Locks(nodes[q], 1) ELSE nodes[q]],
              !.older = Touch(@, nodes, {q \in DOMAIN nodes : OnPath(q, x)})]

\* _match_and_lock, for the prefix x that matches: split the node it ends
\* inside, lock and stamp the path.
MatchAndLock(c, x) == LockPath(c, SplitPartial(c.nodes, x), x)

\* _unlock_path from node p up to the root.
UnlockPath(c, p) ==
    [c EXCEPT !.nodes = [q \in DOMAIN @ |->
                            IF OnPath(q, p) THEN Locks(@[q], -1) ELSE @[q]]]

\* Mutant: a locked leaf may be evicted.
EvictableLocked(nodes) ==
    {q \in DOMAIN nodes : nodes[q].computed /\ Children(nodes, q) = {}}

Evictable(nodes) ==
    {q \in DOMAIN nodes : nodes[q].ref = 0 /\ Children(nodes, q) = {}}

\* PagePool.free: a page handed back holds no row anyone may rely on.
PoolFree(c, pages) ==
    [c EXCEPT !.free = @ \cup pages,
              !.rows = [p \in Pages |-> IF p \in pages THEN <<>> ELSE @[p]]]

\* Nodes V leave the tree, their pages go back to the pool.
RemoveNodes(c, V) ==
    [PoolFree(c, UNION {Range(c.nodes[q].pages) : q \in V}) EXCEPT
        !.nodes = [q \in DOMAIN @ \ V |-> @[q]],
        !.older = {e \in @ : e[1] \notin V /\ e[2] \notin V}]

InsertNode(c, p, node) ==
    [c EXCEPT !.nodes = [q \in DOMAIN @ \cup {p} |-> IF q = p THEN node ELSE @[q]],
              !.older = @ \cup {<<q, p>> : q \in DOMAIN c.nodes}]

\* PagePool.allocate, for the pages lo..hi of a path: which free ids are
\* handed out is immaterial.
Take(c, lo, hi) == CHOOSE t \in [lo..hi -> c.free] : IsInjective(t)

PoolAllocate(c, pages) == [c EXCEPT !.free = @ \ pages]

\* Mutant: an eviction is not announced.
EvictedSilently(c, V, offload) ==
    [RemoveNodes(c, V) EXCEPT
        !.host = IF offload
                 THEN @ \cup UNION {SegmentPrefixes(c.nodes, q) :
                                      q \in {v \in V : c.nodes[v].computed}}
                 ELSE @]

\* Evictions of _ensure_free: offload the computed victims, announce their
\* removal, return their pages.
Evicted(c, V, offload) ==
    [RemoveNodes(c, V) EXCEPT
        !.host = IF offload
                 THEN @ \cup UNION {SegmentPrefixes(c.nodes, q) :
                                      q \in {v \in V : c.nodes[v].computed}}
                 ELSE @,
        !.told = @ \ UNION {SegmentPrefixes(c.nodes, q) : q \in V}]

\* The least recently used evictable nodes of a cache: one, if any.
Oldest(c) ==
    {q \in Evictable(c.nodes) : \A p \in Evictable(c.nodes) : <<p, q>> \notin c.older}

\* The cache after the first i victims of v.
AfterVictims(c, v, i, offload) == Evicted(c, {v[j] : j \in 1..i}, offload)

\* The victims _ensure_free pops, in order: while pages are needed, each time
\* the oldest leaf that nobody locks.
VictimOrders(c, needed, offload) ==
    {v \in UNION {[1..n -> DOMAIN c.nodes] : n \in 0..Cardinality(DOMAIN c.nodes)} :
        \A i \in 1..Len(v) :
            LET left == AfterVictims(c, v, i - 1, offload)
            IN  Cardinality(left.free) < needed /\ v[i] \in Oldest(left)}

\* How the loop of _ensure_free ends on cache c, with no more victims: enough
\* pages, nothing to evict, or a tier or event sink that raises.
RoomResult(c, needed) ==
    IF Cardinality(c.free) >= needed THEN "ok"
    ELSE IF Evictable(c.nodes) = {} THEN "full" ELSE "raised"

\* _ensure_free.  offload says whether the tier retains the victims, refuse
\* after how many evictions the tier or the event sink raises.
EnsureFree(c, needed, offload, refuse) ==
    {[cache |-> AfterVictims(c, v, Len(v), offload),
      result |-> RoomResult(AfterVictims(c, v, Len(v), offload), needed)] :
        v \in {w \in VictimOrders(c, needed, offload) :
                  /\ Len(w) <= refuse
                  /\ \/ Len(w) = refuse
                     \/ RoomResult(AfterVictims(c, w, Len(w), offload), needed)
                            # "raised"}}

\* What the tier and the sink do in one call of the cache.
Environment ==
    [offload : IF MinRestore = 0 THEN {FALSE} ELSE BOOLEAN,
     refuse : Refusals,
     transfer : IF MinRestore = 0 THEN {"settled"}
                ELSE {"restored", "refused", "settled", "unknown"}]

----------------------------------------------------------------------------
(* Allocation.                                                             *)

\* The page that holds prefix x.
PageAt(nodes, x) == nodes[CHOOSE q \in Holder(nodes, x) : TRUE].pages[FullPages(x)]

\* _available_dram_prefix_pages for the suffix of s after m matched pages.
Restorable(c, s, m) ==
    Max({n \in 0..(FullPages(s) - m) :
            \A i \in 1..n : PagePrefix(s, m + i) \in c.host})

\* The tier's names of pages m+1..m+n of s.
SuffixKeys(s, m, n) == {PagePrefix(s, i) : i \in (m + 1)..(m + n)}

\* The restored suffix, pages m+1..m+n of s, joins the tree computed and
\* locked; the tier gives its copy up.
Restored(c, pages, s, m, n) ==
    LET keys == SuffixKeys(s, m, n)
    IN  InsertNode([PoolAllocate(c, Range(pages)) EXCEPT
                       !.host = @ \ keys, !.told = @ \cup keys,
                       !.rows = [p \in Pages |->
                           IF p \in Range(pages)
                           THEN PagePrefix(s, CHOOSE i \in (m + 1)..(m + n) : pages[i] = p)
                           ELSE @[p]]],
                   PagePrefix(s, m + n),
                   [start |-> m, pages |-> pages, ref |-> 1, computed |-> TRUE])

\* The transfer, once there is room: no room or a settled failure is a miss;
\* pages of an unknown completion are lost and the allocation fails.  It also
\* fails when the sink refuses to announce the restored pages: they go back to
\* the pool, and the tier has given its copy up.
Transfer(room, s, m, n, env) ==
    LET pages == Take(room.cache, m + 1, m + n)
    IN  IF room.result = "raised"
        THEN [cache |-> room.cache, result |-> "raised", matched |-> m]
        ELSE IF room.result = "full" \/ env.transfer = "settled"
        THEN [cache |-> room.cache, result |-> "ok", matched |-> m]
        ELSE IF env.transfer = "restored"
        THEN [cache |-> Restored(room.cache, pages, s, m, n),
              result |-> "ok", matched |-> m + n]
        ELSE IF env.transfer = "refused"
        THEN [cache |-> [room.cache EXCEPT !.host = @ \ SuffixKeys(s, m, n)],
              result |-> "raised", matched |-> m]
        ELSE [cache |-> [PoolAllocate(room.cache, Range(pages)) EXCEPT
                            !.lost = @ \cup Range(pages)],
              result |-> "raised", matched |-> m]

\* _restore_from_dram, on a cache whose path for s, m pages, is locked.
RestoreFromDram(c, s, m, env) ==
    LET n == Restorable(c, s, m)
    IN  IF MinRestore = 0 \/ n < MinRestore \/ Holder(c.nodes, PagePrefix(s, m + 1)) # {}
        THEN {[cache |-> c, result |-> "ok", matched |-> m]}
        ELSE {Transfer(room, s, m, n, env) : room \in EnsureFree(c, n, FALSE, env.refuse)}

\* The pages of a prompt: the full ones and one for the tail.
TablePages(s) == FullPages(s) + (IF Len(s) % PageSize = 0 THEN 0 ELSE 1)

\* _expire_pins after one more allocation: the pins that run out.
Expired == {x \in Sessions : pins[x] # None /\ pins[x].left = 1}

AgedPins ==
    [x \in Sessions |->
        IF x \in Expired \/ pins[x] = None THEN None
        ELSE IF pins[x].left = 0 THEN pins[x]
        ELSE [pins[x] EXCEPT !.left = @ - 1]]

ExpirePins(c) ==
    [c EXCEPT !.nodes = [q \in DOMAIN @ |->
        Locks(@[q], -Cardinality({x \in Expired : OnPath(q, pins[x].node)}))]]

NewAllocation(nodes, s, m, pages) ==
    [tokens |-> s,
     table |-> [i \in 1..TablePages(s) |->
                   IF i <= m THEN PageAt(nodes, PagePrefix(s, i)) ELSE pages[i]],
     matched |-> m, node |-> PagePrefix(s, m), inserted |-> TRUE, out |-> <<>>]

\* The new full pages join the tree uncomputed, unless another request is
\* already computing the same edge; then they stay private.
Allocated(c, s, m, new) ==
    IF m = FullPages(s)
    THEN [cache |-> c, alloc |-> new]
    ELSE IF Holder(c.nodes, PagePrefix(s, m + 1)) # {}
    THEN [cache |-> c, alloc |-> [new EXCEPT !.inserted = FALSE]]
    ELSE [cache |-> InsertNode(c, PagePrefix(s, FullPages(s)),
                               [start |-> m,
                                pages |-> [i \in (m + 1)..FullPages(s) |-> new.table[i]],
                                ref |-> 1, computed |-> FALSE]),
          alloc |-> [new EXCEPT !.node = PagePrefix(s, FullPages(s))]]

Refused(c, s, m) == [cache |-> UnlockPath(c, PagePrefix(s, m)), alloc |-> None]

TakePages(room, s, m) ==
    LET pages == Take(room.cache, m + 1, TablePages(s))
    IN  IF room.result # "ok" THEN Refused(room.cache, s, m)
        ELSE Allocated(PoolAllocate(room.cache, Range(pages)), s, m,
                       NewAllocation(room.cache.nodes, s, m, pages))

AllocateRest(restored, s, env) ==
    IF restored.result = "raised"
    THEN {Refused(restored.cache, s, restored.matched)}
    ELSE {TakePages(room, s, restored.matched) :
             room \in EnsureFree(restored.cache, TablePages(s) - restored.matched,
                                 env.offload, env.refuse)}

AllocateMatched(c, s, m, env) ==
    UNION {AllocateRest(restored, s, env) :
              restored \in RestoreFromDram(MatchAndLock(c, PagePrefix(s, m)), s, m, env)}

\* The outcomes of allocate(s): the cache, and the allocation or None.
AllocateOutcomes(s, env) ==
    AllocateMatched(ExpirePins(cache), s, MatchedPages(cache.nodes, s), env)

Allocate(r) ==
    /\ alloc[r] = None
    /\ \E s \in Prompts, env \in Environment :
           \E outcome \in AllocateOutcomes(s, env) :
               /\ cache' = outcome.cache
               /\ alloc' = [alloc EXCEPT ![r] = outcome.alloc]
    /\ pins' = AgedPins

----------------------------------------------------------------------------
(* The life of an allocation.                                              *)

Sequence(a) == a.tokens \o a.out

\* What page i of sequence s holds once the first k rows are written.
Fill(s, i, k) == SubSeq(s, 1, Min({i * PageSize, k}))

\* The KV rows of positions lo..hi of sequence s, written in order through
\* page table t; a row out of order leaves the page useless.
WriteRows(c, t, s, lo, hi) ==
    LET touched == {i \in 1..Len(t) : lo <= hi /\ lo <= i * PageSize /\ (i - 1) * PageSize < hi}
        sound(i) == lo <= (i - 1) * PageSize + 1 \/ c.rows[t[i]] = Fill(s, i, lo - 1)
    IN  [c EXCEPT !.rows = [p \in Pages |->
            IF \E i \in touched : t[i] = p
            THEN LET i == CHOOSE i \in touched : t[i] = p
                 IN  IF sound(i) THEN Fill(s, i, hi) ELSE <<>>
            ELSE @[p]]]

\* mark_computed: announce the node, then let the matching see it.
MarkComputed(c, a) ==
    IF a.inserted /\ a.matched < FullPages(a.tokens) /\ ~c.nodes[a.node].computed
    THEN [c EXCEPT !.told = @ \cup SegmentPrefixes(c.nodes, a.node),
                   !.nodes[a.node].computed = TRUE]
    ELSE c

\* The rows of the prompt's forward pass.
PromptWritten(a) ==
    WriteRows(cache, a.table, a.tokens, a.matched * PageSize + 1, Len(a.tokens))

\* The prompt's forward pass has completed and its first token is sampled.
Prefilled(r) ==
    /\ alloc[r] # None /\ alloc[r].out = <<>>
    /\ cache' = MarkComputed(PromptWritten(alloc[r]), alloc[r])
    /\ \E t \in Sampled : alloc' = [alloc EXCEPT ![r].out = <<t>>]
    /\ UNCHANGED pins

\* The sink raises on the announcement: the rows are written, the node stays
\* uncomputed and the token is lost.
PublishRefused(r) ==
    /\ alloc[r] # None /\ alloc[r].out = <<>>
    /\ MarkComputed(PromptWritten(alloc[r]), alloc[r]) # PromptWritten(alloc[r])
    /\ cache' = PromptWritten(alloc[r])
    /\ UNCHANGED <<pins, alloc>>

\* allocate_private_page, when the next row has no page.
Grow(r) ==
    /\ alloc[r] # None /\ alloc[r].out # <<>> /\ Len(alloc[r].out) < MaxOutput
    /\ Len(alloc[r].table) * PageSize < Len(Sequence(alloc[r]))
    /\ \E env \in Environment : \E room \in EnsureFree(cache, 1, env.offload, env.refuse) :
           IF room.result = "ok"
           THEN LET next == Len(alloc[r].table) + 1
                    pages == Take(room.cache, next, next)
                IN  /\ cache' = PoolAllocate(room.cache, Range(pages))
                    /\ alloc' = [alloc EXCEPT ![r].table = Append(@, pages[next])]
           ELSE cache' = room.cache /\ UNCHANGED alloc
    /\ UNCHANGED pins

\* A decode step writes the row of the newest token and samples the next.
Decode(r) ==
    /\ alloc[r] # None /\ alloc[r].out # <<>> /\ Len(alloc[r].out) < MaxOutput
    /\ Len(alloc[r].table) * PageSize >= Len(Sequence(alloc[r]))
    /\ LET a == alloc[r]
       IN  cache' = WriteRows(cache, a.table, Sequence(a), Len(Sequence(a)), Len(Sequence(a)))
    /\ \E t \in Sampled : alloc' = [alloc EXCEPT ![r].out = Append(@, t)]
    /\ UNCHANGED pins

\* Mutant: the last sampled token is taken for written.
WrittenLenWhole(a) == Len(Sequence(a))

\* The rows of a sequence that a finished request has written: a decode step
\* writes the previous token's row, so the last sampled token has none.
WrittenLen(a) == Len(Sequence(a)) - 1

\* The pages that belong to the allocation alone start after these: the full
\* pages of the prompt are the tree's once the allocation is inserted.
PrivateFrom(a) == IF a.inserted THEN FullPages(a.tokens) ELSE a.matched

PrivatePages(a) == {a.table[i] : i \in (PrivateFrom(a) + 1)..Len(a.table)}

\* The pages written in full beyond the prompt join the tree, announced.
Folded(c, a, last) ==
    LET first == FullPages(a.tokens)
        end == PagePrefix(Sequence(a), last)
        child == [start |-> first,
                  pages |-> [i \in (first + 1)..last |-> a.table[i]],
                  ref |-> 0, computed |-> TRUE]
    IN  [InsertNode(c, end, child) EXCEPT
            !.told = @ \cup {PagePrefix(Sequence(a), i) : i \in (first + 1)..last}]

\* The pages of the sequence that commit_and_release may fold.
CommittedPages(c, a) ==
    IF /\ a.inserted /\ WrittenLen(a) \div PageSize > FullPages(a.tokens)
       /\ Holder(c.nodes, PagePrefix(Sequence(a), FullPages(a.tokens) + 1)) = {}
    THEN WrittenLen(a) \div PageSize
    ELSE FullPages(a.tokens)

\* commit_and_release: fold the pages generated in full into the tree unless
\* another node owns the edge, unlock the path, return what is left over.  A
\* sink that raises on the announcement undoes all of it: no step.
CommitAndRelease(r) ==
    /\ alloc[r] # None /\ alloc[r].out # <<>>
    /\ LET a == alloc[r]
           last == CommittedPages(cache, a)
           folded == IF last > FullPages(a.tokens) THEN Folded(cache, a, last) ELSE cache
           kept == {a.table[i] : i \in (FullPages(a.tokens) + 1)..last}
       IN  cache' = PoolFree(UnlockPath(MarkComputed(folded, a), a.node),
                             PrivatePages(a) \ kept)
    /\ alloc' = [alloc EXCEPT ![r] = None]
    /\ UNCHANGED pins

\* Mutant: the pages of an allocation that was kept out of the tree leak.
ReleasePreemptedLeaks(r) ==
    /\ alloc[r] # None
    /\ LET a == alloc[r]
           unlocked == UnlockPath(cache, a.node)
           dropped == IF /\ a.matched < FullPages(a.tokens) /\ a.inserted
                         /\ ~cache.nodes[a.node].computed
                      THEN RemoveNodes(unlocked, {a.node}) ELSE unlocked
       IN  cache' = PoolFree(dropped, {a.table[i] : i \in (FullPages(a.tokens) + 1)..Len(a.table)})
    /\ alloc' = [alloc EXCEPT ![r] = None]
    /\ UNCHANGED pins

\* release_preempted: an inserted node whose KV was never written leaves the
\* tree with its pages; a computed one is only unlocked.
ReleasePreempted(r) ==
    /\ alloc[r] # None
    /\ LET a == alloc[r]
           unlocked == UnlockPath(cache, a.node)
           dropped == IF /\ a.matched < FullPages(a.tokens) /\ a.inserted
                         /\ ~cache.nodes[a.node].computed
                      THEN RemoveNodes(unlocked, {a.node}) ELSE unlocked
       IN  cache' = PoolFree(dropped, PrivatePages(a))
    /\ alloc' = [alloc EXCEPT ![r] = None]
    /\ UNCHANGED pins

----------------------------------------------------------------------------
(* Pins, the graph scratch page and the tier's own forgetting.             *)

Pin(x) ==
    /\ pins[x] = None
    /\ \E s \in Prompts, ttl \in PinTtls \cup {0} :
           LET match == PagePrefix(s, MatchedPages(cache.nodes, s))
           IN  /\ cache' = MatchAndLock(cache, match)
               /\ pins' = [pins EXCEPT ![x] = [node |-> match, left |-> ttl]]
    /\ UNCHANGED alloc

Unpin(x) ==
    /\ pins[x] # None
    /\ cache' = UnlockPath(cache, pins[x].node)
    /\ pins' = [pins EXCEPT ![x] = None]
    /\ UNCHANGED alloc

\* reserve_scratch_page: one page leaves circulation for good.
ReserveScratchPage ==
    /\ cache.lost = {}
    /\ \E env \in Environment : \E room \in EnsureFree(cache, 1, env.offload, env.refuse) :
           LET pages == Range(Take(room.cache, 1, 1))
           IN  cache' = IF room.result = "ok"
                        THEN [PoolAllocate(room.cache, pages) EXCEPT !.lost = @ \cup pages]
                        ELSE room.cache
    /\ UNCHANGED <<pins, alloc>>

\* The tier's own LRU and checksum losses.
HostForgets ==
    /\ \E k \in cache.host : cache' = [cache EXCEPT !.host = @ \ {k}]
    /\ UNCHANGED <<pins, alloc>>

Init ==
    /\ cache = [free |-> Pages, nodes |-> [q \in {} |-> None], older |-> {},
                host |-> {}, told |-> {}, lost |-> {},
                rows |-> [p \in Pages |-> <<>>]]
    /\ pins = [x \in Sessions |-> None]
    /\ alloc = [r \in Requests |-> None]

Next ==
    \/ \E r \in Requests :
           \/ Allocate(r) \/ Prefilled(r) \/ PublishRefused(r) \/ Grow(r) \/ Decode(r)
           \/ CommitAndRelease(r) \/ ReleasePreempted(r)
    \/ \E x \in Sessions : Pin(x) \/ Unpin(x)
    \/ ReserveScratchPage
    \/ HostForgets

Spec == Init /\ [][Next]_vars

----------------------------------------------------------------------------
(* Properties.                                                             *)

Live == {r \in Requests : alloc[r] # None}

\* The pages each owner holds: the pool, the quarantine, a node, a request.
Holdings ==
    {<<"pool", None, cache.free>>, <<"lost", None, cache.lost>>}
    \cup {<<"node", q, Range(cache.nodes[q].pages)>> : q \in DOMAIN cache.nodes}
    \cup {<<"request", r, PrivatePages(alloc[r])>> : r \in Live}

\* The state has the shape the code gives it: segments as long as their page
\* lists under a parent that is in the tree, LRU stamps that order exactly the
\* nodes of the tree.
TypeOK ==
    /\ cache.free \subseteq Pages /\ cache.lost \subseteq Pages
    /\ \A q \in DOMAIN cache.nodes :
           LET n == cache.nodes[q]
           IN  /\ Len(q) % PageSize = 0 /\ n.start \in 0..(FullPages(q) - 1)
               /\ n.pages \in [(n.start + 1)..FullPages(q) -> Pages]
               /\ n.start = 0 \/ PagePrefix(q, n.start) \in DOMAIN cache.nodes
    /\ cache.older \subseteq (DOMAIN cache.nodes) \X (DOMAIN cache.nodes)
    /\ \A p, q \in DOMAIN cache.nodes :
           p # q => (<<p, q>> \in cache.older <=> <<q, p>> \notin cache.older)

\* Every page of the pool has exactly one owner at all times: the free list,
\* the quarantine, one node of the tree or one request.  No path of
\* allocate, commit_and_release, release_preempted or _ensure_free leaks a
\* page or hands one to two owners.
OneOwnerPerPage ==
    /\ \A h, k \in Holdings : h = k \/ h[3] \cap k[3] = {}
    /\ UNION {h[3] : h \in Holdings} = Pages

\* A node's ref_count is exactly the number of live allocations and pins
\* whose locked path runs through it, splits and DRAM restores included.
RefCountsAreExact ==
    \A q \in DOMAIN cache.nodes :
        cache.nodes[q].ref =
            Cardinality({r \in Live : OnPath(q, alloc[r].node)})
            + Cardinality({x \in Sessions : pins[x] # None /\ OnPath(q, pins[x].node)})

\* Whatever a later match may reuse holds the KV of exactly its own prefix:
\* no computed node covers a row that was never written (the last sampled
\* token's) or that belongs to another sequence.
CachedRowsAreWritten ==
    \A q \in DOMAIN cache.nodes : cache.nodes[q].computed =>
        \A i \in (cache.nodes[q].start + 1)..FullPages(q) :
            cache.rows[cache.nodes[q].pages[i]] = PagePrefix(q, i)

\* Through its page table a decoding request always sees the KV of its own
\* sequence up to the newest token, whatever is evicted, split, committed or
\* preempted around it.
RunningRequestsReadTheirOwnRows ==
    \A r \in Live : alloc[r].out # <<>> =>
        \A i \in 1..Len(alloc[r].table) : (i - 1) * PageSize < Len(Sequence(alloc[r])) - 1 =>
            cache.rows[alloc[r].table[i]]
                = Fill(Sequence(alloc[r]), i, Len(Sequence(alloc[r])) - 1)

\* The assertions of release_preempted can never fail: a node still being
\* prefilled belongs to one allocation, has no children and was not split.
UncomputedNodesArePrivate ==
    \A q \in DOMAIN cache.nodes : ~cache.nodes[q].computed =>
        /\ Children(cache.nodes, q) = {} /\ cache.nodes[q].ref = 1
        /\ \E r \in Live :
               /\ alloc[r].node = q /\ alloc[r].inserted
               /\ alloc[r].matched = cache.nodes[q].start
               /\ \A i \in (cache.nodes[q].start + 1)..FullPages(q) :
                      alloc[r].table[i] = cache.nodes[q].pages[i]

\* What the KV event stream has announced is exactly what the tree can reuse,
\* so a router's index of this replica is never wrong about it.
AnnouncedIsCached ==
    cache.told = UNION {SegmentPrefixes(cache.nodes, q) :
                           q \in {n \in DOMAIN cache.nodes : cache.nodes[n].computed}}
----------------------------------------------------------------------------
(* The inductive invariant.  The cache's part is stated for any cache c and *)
(* for what is outside it, so that it can be carried through the steps of   *)
(* one call: the paths locked by each request and session, the pages each   *)
(* request owns, and the nodes being prefilled.                             *)

\* The page-aligned token sequences.
Paths == {q \in Seq(Tokens) : PagePrefix(q, FullPages(q)) = q}

NodeOK(q, node) ==
    /\ q \in Paths
    /\ node = [start |-> node.start, pages |-> node.pages,
               ref |-> node.ref, computed |-> node.computed]
    /\ node.start \in Nat /\ node.start < FullPages(q)
    /\ node.pages \in [(node.start + 1)..FullPages(q) -> Pages]
    /\ IsInjective(node.pages)
    /\ node.ref \in Nat /\ node.computed \in BOOLEAN

\* A tree: parents are there, no prefix is held twice, and every prefix of a
\* node is held by a node on its path.
Tree(nodes) ==
    /\ \A q \in DOMAIN nodes :
           /\ NodeOK(q, nodes[q])
           /\ nodes[q].start = 0 \/ PagePrefix(q, nodes[q].start) \in DOMAIN nodes
           /\ \A n \in 1..FullPages(q) :
                  \E a \in Holder(nodes, PagePrefix(q, n)) : OnPath(a, q)
    /\ \A q, d \in DOMAIN nodes :
           q # d => SegmentPrefixes(nodes, q) \cap SegmentPrefixes(nodes, d) = {}

Stamps(c) ==
    /\ c.older \subseteq (DOMAIN c.nodes) \X (DOMAIN c.nodes)
    /\ \A p, q \in DOMAIN c.nodes :
           p # q => (<<p, q>> \in c.older <=> <<q, p>> \notin c.older)

\* The members of I whose locked path, if any, runs through q.
Lockers(I, locks, q) == {i \in I : \E h \in locks[i] : OnPath(q, h)}

\* Locked paths end in the tree, and the lock counts count them.
Locked(nodes, RL, SL) ==
    /\ \A r \in Requests : RL[r] \subseteq (DOMAIN nodes) \cup {Root}
    /\ \A x \in Sessions : SL[x] \subseteq (DOMAIN nodes) \cup {Root}
    /\ \A q \in DOMAIN nodes :
           nodes[q].ref = Cardinality(Lockers(Requests, RL, q))
                          + Cardinality(Lockers(Sessions, SL, q))

NodePages(nodes) == UNION {Range(nodes[q].pages) : q \in DOMAIN nodes}

\* Page ownership: PR[r] are the pages of request r alone.
Owned(c, PR) ==
    /\ c.free \cup c.lost \cup NodePages(c.nodes) \cup UNION {PR[r] : r \in Requests} = Pages
    /\ c.free \cap c.lost = {} /\ (c.free \cup c.lost) \cap NodePages(c.nodes) = {}
    /\ \A r \in Requests :
           /\ PR[r] \cap (c.free \cup c.lost \cup NodePages(c.nodes)) = {}
           /\ \A o \in Requests : r # o => PR[r] \cap PR[o] = {}
    /\ \A q, d \in DOMAIN c.nodes :
           q # d => Range(c.nodes[q].pages) \cap Range(c.nodes[d].pages) = {}

\* A node being prefilled is a leaf locked once, by the request that prefills it:
\* PF[r] is the node that r inserted, with its start.
Prefilling(nodes, RL, PF) ==
    \A q \in DOMAIN nodes : ~nodes[q].computed =>
        /\ Children(nodes, q) = {} /\ nodes[q].ref = 1
        /\ \E r \in Requests : q \in RL[r] /\ <<q, nodes[q].start>> \in PF[r]

Announced(c) ==
    c.told = UNION {SegmentPrefixes(c.nodes, q) :
                       q \in {n \in DOMAIN c.nodes : c.nodes[n].computed}}

Written(c) ==
    \A q \in DOMAIN c.nodes : c.nodes[q].computed =>
        \A i \in (c.nodes[q].start + 1)..FullPages(q) :
            c.rows[c.nodes[q].pages[i]] = PagePrefix(q, i)

IsCache(c) ==
    c = [free |-> c.free, nodes |-> c.nodes, older |-> c.older, host |-> c.host,
         told |-> c.told, lost |-> c.lost, rows |-> c.rows]

CacheOK(c, RL, SL, PR, PF) ==
    /\ IsCache(c) /\ Tree(c.nodes) /\ Stamps(c) /\ Locked(c.nodes, RL, SL) /\ Owned(c, PR)
    /\ Prefilling(c.nodes, RL, PF) /\ Announced(c) /\ Written(c)

\* What the state says of locks, pages and prefills.
RequestLocks == [r \in Requests |-> IF alloc[r] = None THEN {} ELSE {alloc[r].node}]
SessionLocks == [x \in Sessions |-> IF pins[x] = None THEN {} ELSE {pins[x].node}]
RequestPages == [r \in Requests |-> IF alloc[r] = None THEN {} ELSE PrivatePages(alloc[r])]
Prefills ==
    [r \in Requests |-> IF alloc[r] # None /\ alloc[r].inserted
                        THEN {<<alloc[r].node, alloc[r].matched>>} ELSE {}]

\* The shape of an allocation: its node ends where its own pages begin, its
\* table has the pages it needs, and its own pages are distinct.
AllocShape(a) ==
    /\ Len(a.tokens) > 0 /\ a.matched \in 0..FullPages(a.tokens)
    /\ a.inserted \/ a.matched < FullPages(a.tokens)
    /\ a.node = PagePrefix(a.tokens, PrivateFrom(a))
    /\ Len(a.table) >= TablePages(a.tokens)
    /\ a.out # <<>> => Len(a.table) * PageSize >= Len(Sequence(a)) - 1
    /\ \A i, j \in (PrivateFrom(a) + 1)..Len(a.table) : a.table[i] = a.table[j] => i = j

\* The prompt pages before its own are the tree's, and its node is computed
\* unless its own prefill is still to come.
InTree(c, a) ==
    /\ \A i \in 1..PrivateFrom(a) :
           \E q \in Holder(c.nodes, PagePrefix(a.tokens, i)) :
               c.nodes[q].pages[i] = a.table[i]
    /\ a.node # Root =>
           /\ c.nodes[a.node].computed
                 <=> (a.out # <<>> \/ ~a.inserted \/ a.matched = FullPages(a.tokens))
           /\ c.nodes[a.node].computed \/ c.nodes[a.node].start = a.matched

\* Its own pages hold the rows written so far.
OwnRows(c, a) ==
    a.out # <<>> =>
        \A i \in (PrivateFrom(a) + 1)..Len(a.table) :
            (i - 1) * PageSize < Len(Sequence(a)) - 1 =>
                c.rows[a.table[i]] = Fill(Sequence(a), i, Len(Sequence(a)) - 1)

AllocOK(c, a) == AllocShape(a) /\ InTree(c, a) /\ OwnRows(c, a)

Allocation ==
    [tokens : Seq(Tokens), table : Seq(Pages), matched : Nat, node : Seq(Tokens),
     inserted : BOOLEAN, out : Seq(Tokens)]

PinEntry == [node : Seq(Tokens), left : Nat]

RadixInv ==
    /\ alloc \in [Requests -> Allocation \cup {None}]
    /\ pins \in [Sessions -> PinEntry \cup {None}]
    /\ CacheOK(cache, RequestLocks, SessionLocks, RequestPages, Prefills)
    /\ \A r \in Live : AllocOK(cache, alloc[r])
=============================================================================
