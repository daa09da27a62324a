--------------------------- MODULE RadixKVProofs ----------------------------
(***************************************************************************)
(* The theorems about RadixKV, for any number of pages, requests, sessions *)
(* and tokens, any page size and any prompts.  RadixInv is inductive: each *)
(* operation keeps it (RadixKVTree, RadixKVAllocate, RadixKVRequests), and *)
(* each invariant of the model is a part or a consequence of it.           *)
(***************************************************************************)
EXTENDS RadixKVAllocate, RadixKVRequests, FiniteSetTheorems

\* The facts about finite sets and numbers that the proofs rest on are theorems
\* of the library.
LEMMA Library == LibraryFacts
<1>1. ASSUME NEW S, IsFiniteSet(S)
      PROVE  /\ Cardinality(S) \in Nat /\ ExistsBijection(1..Cardinality(S), S)
             /\ Cardinality(S) = 0 <=> S = {}
             /\ Cardinality(S) = 1 <=> \E x : S = {x}
             /\ \A x : x \notin S => Cardinality(S \cup {x}) = Cardinality(S) + 1
             /\ \A T \in SUBSET S : IsFiniteSet(T)
  <2>1. Cardinality(S) \in Nat /\ ExistsBijection(1..Cardinality(S), S)
    BY <1>1, FS_CardinalityType
  <2>2. (Cardinality(S) = 0 <=> S = {}) /\ (Cardinality(S) = 1 <=> \E x : S = {x})
    BY <1>1, FS_EmptySet, FS_Singleton, Zenon
  <2>3. \A x : x \notin S => Cardinality(S \cup {x}) = Cardinality(S) + 1
    BY <1>1, FS_AddElement
  <2>4. \A T \in SUBSET S : IsFiniteSet(T)
    BY <1>1, FS_Subset
  <2> QED BY <2>1, <2>2, <2>3, <2>4, Zenon
<1>2. Cardinality({}) = 0 /\ \A x : Cardinality({x}) = 1
  BY FS_EmptySet, FS_Singleton
<1>3. \A a, b \in Int : IsFiniteSet(a..b)
  BY FS_Interval
<1>4. ASSUME NEW T \in SUBSET Nat, T # {} PROVE \E x \in T : \A y \in T : x <= y
  <2> DEFINE L == OpToRel(<, Nat)
  <2>1. \A i, j \in Nat : <<i, j>> \in L <=> i < j
    BY Zenon DEF OpToRel
  <2>2. IsWellFoundedOn(L, Nat)
    BY NatLessThanWellFounded, Zenon
  <2> HIDE DEF L
  <2>3. \A i, j \in Nat : ~(<<i, j>> \in L) => j <= i
    BY <2>1
  <2>4. \E x \in T : \A y \in T : ~(<<y, x>> \in L)
    BY <1>4, <2>2, WFMin, Zenon
  <2>5. PICK x \in T : \A y \in T : ~(<<y, x>> \in L)
    BY <2>4
  <2>6. \A y \in T : x <= y
    BY <2>3, <2>5, Zenon
  <2> QED BY <2>6
<1>5. \A S, T : IsFiniteSet(S) /\ IsFiniteSet(T) =>
          Cardinality(S \cup T) = Cardinality(S) + Cardinality(T) - Cardinality(S \cap T)
  BY FS_Union
<1> QED BY <1>1, <1>2, <1>3, <1>4, <1>5, Zenon DEF LibraryFacts

\* The shape of the state.
LEMMA InvTypeOK ==
      /\ RadixInv
    =>   TypeOK
\* Paths are the sequences of whole pages, which is what TypeOK asks of a node.
<1>Aligned.
  ASSUME NEW q \in Seq(Tokens)
  PROVE  q \in Paths <=> Len(q) % PageSize = 0
  <2> USE <1>Aligned
  <2>1. Len(q) \in Nat /\ FullPages(q) \in Nat /\ FullPages(q) \in 0..FullPages(q)
    BY LevelBounds
  <2>2. Len(PagePrefix(q, FullPages(q))) = FullPages(q) * PageSize
        /\ PagePrefix(q, FullPages(q)) \in Seq(Tokens)
        /\ \A i \in 1..FullPages(q) * PageSize : PagePrefix(q, FullPages(q))[i] = q[i]
    BY <2>1, PrefixLen
  <2>3. Len(q) % PageSize = 0 <=> FullPages(q) * PageSize = Len(q)
    BY <2>1, ModDiv DEF FullPages
  <2>4. ASSUME FullPages(q) * PageSize = Len(q) PROVE PagePrefix(q, FullPages(q)) = q
    BY <2>2, <2>4
  <2>5. ASSUME PagePrefix(q, FullPages(q)) = q PROVE FullPages(q) * PageSize = Len(q)
    BY <2>2, <2>5
  <2> QED BY <2>3, <2>4, <2>5 DEF Paths
<1> SUFFICES
  ASSUME RadixInv
  PROVE  TypeOK
  OBVIOUS
<1>1. Tree(cache.nodes) /\ Stamps(cache) /\ Owned(cache, RequestPages)
  BY Zenon DEF RadixInv, CacheOK
<1>2. cache.free \subseteq Pages /\ cache.lost \subseteq Pages
  BY <1>1, Zenon DEF Owned
<1>3. ASSUME NEW q \in DOMAIN cache.nodes
      PROVE  /\ Len(q) % PageSize = 0 /\ cache.nodes[q].start \in 0..(FullPages(q) - 1)
             /\ cache.nodes[q].pages \in [(cache.nodes[q].start + 1)..FullPages(q) -> Pages]
             /\ cache.nodes[q].start = 0
                    \/ PagePrefix(q, cache.nodes[q].start) \in DOMAIN cache.nodes
  <2>1. /\ q \in Paths /\ NodeOK(q, cache.nodes[q])
        /\ cache.nodes[q].start \in Nat /\ FullPages(q) \in Nat
        /\ cache.nodes[q].start < FullPages(q)
        /\ cache.nodes[q].start = 0 \/ PagePrefix(q, cache.nodes[q].start) \in DOMAIN cache.nodes
    BY <1>1, TreeNode, Zenon
  <2>2. Len(q) % PageSize = 0
    BY <2>1, <1>Aligned, PathFacts, Zenon
  <2>3. cache.nodes[q].start \in 0..(FullPages(q) - 1)
    BY ONLY <2>1
  <2>4. cache.nodes[q].pages \in [(cache.nodes[q].start + 1)..FullPages(q) -> Pages]
    BY <2>1, Zenon DEF NodeOK
  <2> QED BY <2>1, <2>2, <2>3, <2>4, Zenon
<1> QED BY <1>1, <1>2, <1>3, Zenon DEF TypeOK, Stamps

\* The pages of the pool, of quarantine, of nodes and of requests are all pages, once.
LEMMA InvOneOwner ==
      /\ RadixInv
    =>   OneOwnerPerPage
\* The pages of an owner.
<1>HoldingCases.
  ASSUME NEW h \in Holdings
  PROVE  \/ h = <<"pool", None, cache.free>>
         \/ h = <<"lost", None, cache.lost>>
         \/ \E q \in DOMAIN cache.nodes : h = <<"node", q, Range(cache.nodes[q].pages)>>
         \/ \E r \in Live : h = <<"request", r, PrivatePages(alloc[r])>>
  BY <1>HoldingCases, Zenon DEF Holdings
\* The pages of a live request.
<1>LivePages.
  ASSUME NEW r \in Live
  PROVE  r \in Requests /\ RequestPages[r] = PrivatePages(alloc[r])
  BY <1>LivePages, Zenon DEF Live, RequestPages
<1> SUFFICES
  ASSUME RadixInv
  PROVE  OneOwnerPerPage
  OBVIOUS
<1>1. Owned(cache, RequestPages)
  BY Zenon DEF RadixInv, CacheOK
<1>2. ASSUME NEW h \in Holdings, NEW k \in Holdings PROVE h = k \/ h[3] \cap k[3] = {}
  <2> DEFINE N(q) == Range(cache.nodes[q].pages)
             P(r) == PrivatePages(alloc[r])
  <2>1. \A q \in DOMAIN cache.nodes : N(q) \subseteq NodePages(cache.nodes)
    BY Zenon DEF NodePages
  <2>2. cache.free \cap cache.lost = {}
    BY <1>1, Zenon DEF Owned
  <2>3. \A q \in DOMAIN cache.nodes : cache.free \cap N(q) = {} /\ cache.lost \cap N(q) = {}
    BY <1>1, <2>1, Zenon DEF Owned
  <2>4. \A r \in Live : /\ cache.free \cap P(r) = {} /\ cache.lost \cap P(r) = {}
                        /\ \A q \in DOMAIN cache.nodes : N(q) \cap P(r) = {}
    <3> SUFFICES ASSUME NEW r \in Live
                 PROVE  /\ cache.free \cap P(r) = {} /\ cache.lost \cap P(r) = {}
                        /\ \A q \in DOMAIN cache.nodes : N(q) \cap P(r) = {}
      OBVIOUS
    <3>1. P(r) \cap (cache.free \cup cache.lost \cup NodePages(cache.nodes)) = {}
      BY <1>1, <1>LivePages, Zenon DEF Owned
    <3> HIDE DEF N, P
    <3> QED BY <2>1, <3>1, Zenon
  <2>5. \A r, o \in Live : r # o => P(r) \cap P(o) = {}
    BY <1>1, <1>LivePages, Zenon DEF Owned
  <2>6. \A q, d \in DOMAIN cache.nodes : q # d => N(q) \cap N(d) = {}
    BY <1>1, Zenon DEF Owned
  <2>7. \/ h[3] = cache.free /\ h = <<"pool", None, cache.free>>
        \/ h[3] = cache.lost /\ h = <<"lost", None, cache.lost>>
        \/ \E q \in DOMAIN cache.nodes : h[3] = N(q) /\ h = <<"node", q, N(q)>>
        \/ \E r \in Live : h[3] = P(r) /\ h = <<"request", r, P(r)>>
    BY <1>HoldingCases
  <2>8. \/ k[3] = cache.free /\ k = <<"pool", None, cache.free>>
        \/ k[3] = cache.lost /\ k = <<"lost", None, cache.lost>>
        \/ \E q \in DOMAIN cache.nodes : k[3] = N(q) /\ k = <<"node", q, N(q)>>
        \/ \E r \in Live : k[3] = P(r) /\ k = <<"request", r, P(r)>>
    BY <1>HoldingCases
  <2> HIDE DEF N, P
  <2>9. CASE h[3] = cache.free /\ h = <<"pool", None, cache.free>>
    BY <2>2, <2>3, <2>4, <2>8, <2>9, Zenon
  <2>10. CASE h[3] = cache.lost /\ h = <<"lost", None, cache.lost>>
    BY <2>2, <2>3, <2>4, <2>8, <2>10, Zenon
  <2>11. ASSUME NEW q \in DOMAIN cache.nodes, h[3] = N(q), h = <<"node", q, N(q)>>
         PROVE  h = k \/ h[3] \cap k[3] = {}
    BY <2>3, <2>4, <2>6, <2>8, <2>11, Zenon
  <2>12. ASSUME NEW r \in Live, h[3] = P(r), h = <<"request", r, P(r)>>
         PROVE  h = k \/ h[3] \cap k[3] = {}
    BY <2>4, <2>5, <2>8, <2>12, Zenon
  <2> QED BY <2>7, <2>9, <2>10, <2>11, <2>12, Zenon
<1>3. ASSUME NEW p \in Pages PROVE \E h \in Holdings : p \in h[3]
  <2>1. \/ p \in cache.free \/ p \in cache.lost
        \/ \E q \in DOMAIN cache.nodes : p \in Range(cache.nodes[q].pages)
        \/ \E r \in Requests : p \in RequestPages[r]
    BY <1>1, <1>3, Zenon DEF Owned, NodePages
  <2>2. ASSUME NEW r \in Requests, p \in RequestPages[r]
        PROVE  r \in Live /\ p \in PrivatePages(alloc[r])
    BY <2>2, Zenon DEF RequestPages, Live
  <2>3. /\ <<"pool", None, cache.free>> \in Holdings /\ <<"lost", None, cache.lost>> \in Holdings
        /\ \A q \in DOMAIN cache.nodes : <<"node", q, Range(cache.nodes[q].pages)>> \in Holdings
        /\ \A r \in Live : <<"request", r, PrivatePages(alloc[r])>> \in Holdings
    BY Zenon DEF Holdings
  <2>4. \A a, b, S : <<a, b, S>>[3] = S
    OBVIOUS
  <2> QED BY <2>1, <2>2, <2>3, <2>4, Zenon
<1>4. ASSUME NEW h \in Holdings PROVE h[3] \subseteq Pages
  <2>2. /\ cache.free \subseteq Pages /\ cache.lost \subseteq Pages
        /\ \A q \in DOMAIN cache.nodes : Range(cache.nodes[q].pages) \subseteq Pages
        /\ \A r \in Requests : RequestPages[r] \subseteq Pages
    BY <1>1, Zenon DEF Owned, NodePages
  <2>3. \A r \in Live : PrivatePages(alloc[r]) \subseteq Pages
    BY <2>2, <1>LivePages, Zenon
  <2>4. \/ h[3] = cache.free \/ h[3] = cache.lost
        \/ \E q \in DOMAIN cache.nodes : h[3] = Range(cache.nodes[q].pages)
        \/ \E r \in Live : h[3] = PrivatePages(alloc[r])
    BY ONLY <1>HoldingCases, h \in Holdings
  <2> QED BY <2>2, <2>3, <2>4, Zenon
<1> QED BY <1>2, <1>3, <1>4, Zenon DEF OneOwnerPerPage

\* The locks of a node are the allocations and pins whose path it is on.
LEMMA InvRefCounts ==
  ASSUME RadixInv
  PROVE  RefCountsAreExact
<1>1. Locked(cache.nodes, RequestLocks, SessionLocks)
  BY Zenon DEF RadixInv, CacheOK
<1>2. ASSUME NEW q \in DOMAIN cache.nodes
      PROVE  cache.nodes[q].ref = Cardinality({r \in Live : OnPath(q, alloc[r].node)})
             + Cardinality({x \in Sessions : pins[x] # None /\ OnPath(q, pins[x].node)})
  <2>1. Lockers(Requests, RequestLocks, q) = {r \in Live : OnPath(q, alloc[r].node)}
    BY Zenon DEF Lockers, RequestLocks, Live
  <2>2. Lockers(Sessions, SessionLocks, q)
            = {x \in Sessions : pins[x] # None /\ OnPath(q, pins[x].node)}
    BY Zenon DEF Lockers, SessionLocks
  <2> QED BY <1>1, <2>1, <2>2, Zenon DEF Locked
<1> QED BY <1>2, Zenon DEF RefCountsAreExact

\* The node a request prefills is the one it inserted, page by page.
LEMMA InvPrivateNodes ==
  ASSUME RadixInv
  PROVE  UncomputedNodesArePrivate
<1>1. Tree(cache.nodes) /\ Prefilling(cache.nodes, RequestLocks, Prefills)
  BY Zenon DEF RadixInv, CacheOK
<1>2. ASSUME NEW q \in DOMAIN cache.nodes, ~cache.nodes[q].computed
      PROVE  /\ Children(cache.nodes, q) = {} /\ cache.nodes[q].ref = 1
             /\ \E r \in Live :
                    /\ alloc[r].node = q /\ alloc[r].inserted
                    /\ alloc[r].matched = cache.nodes[q].start
                    /\ \A i \in (cache.nodes[q].start + 1)..FullPages(q) :
                           alloc[r].table[i] = cache.nodes[q].pages[i]
  <2>1. /\ Children(cache.nodes, q) = {} /\ cache.nodes[q].ref = 1
        /\ \E r \in Requests : q \in RequestLocks[r] /\ <<q, cache.nodes[q].start>> \in Prefills[r]
    BY <1>1, <1>2, Zenon DEF Prefilling
  <2>2. PICK r \in Requests : q \in RequestLocks[r] /\ <<q, cache.nodes[q].start>> \in Prefills[r]
    BY <2>1, Zenon
  <2>3. alloc[r] # None /\ alloc[r].inserted /\ <<q, cache.nodes[q].start>>
                                                    = <<alloc[r].node, alloc[r].matched>>
    BY <2>2, Zenon DEF Prefills
  <2>4. PICK a : a = alloc[r]
    OBVIOUS
  <2>5. a.node = q /\ a.matched = cache.nodes[q].start /\ a.inserted
    BY <2>3, <2>4
  <2>6. a \in Allocation /\ AllocOK(cache, a)
    BY <2>3, <2>4, OwnView, Zenon
  <2>7. q # Root
    BY <1>1, TreeNode, Zenon
  <2>8. a.out = <<>> /\ a.matched # FullPages(a.tokens)
    BY <1>2, <2>5, <2>6, <2>7, Zenon DEF AllocOK, InTree
  <2>9. AllocShape(a) /\ a.matched \in 0..FullPages(a.tokens) /\ FullPages(a.tokens) \in Nat
    BY <2>6, AllocSizes, Zenon DEF AllocOK, AllocShape
  <2>10. OwnNode(a)
    BY <2>5, <2>8, <2>9 DEF OwnNode
  <2>11. IsOwnNode(cache, a)
    BY <1>1, <2>5, <2>6, <2>8, <2>10, OwnNodeFacts, Zenon
  <2>12. \A i \in (cache.nodes[q].start + 1)..FullPages(q) : a.table[i] = cache.nodes[q].pages[i]
    BY <2>5, <2>11, Zenon DEF IsOwnNode
  <2>13. r \in Live
    BY <2>3, Zenon DEF Live
  <2> QED BY <2>1, <2>4, <2>5, <2>12, <2>13, Zenon
<1> QED BY <1>2, Zenon DEF UncomputedNodesArePrivate

\* Prompt pages hold the prompt's prefixes, and own pages what was written since.
LEMMA InvOwnRows ==
      /\ RadixInv
    =>   RunningRequestsReadTheirOwnRows
\* The rows behind the prompt pages that the tree holds.
<1>PromptRows.
  ASSUME NEW c, Tree(c.nodes), NEW RL, NEW PF, Prefilling(c.nodes, RL, PF), Written(c),
         NEW a \in Allocation, AllocOK(c, a), a.out # <<>>,
         a.node = Root \/ a.node \in DOMAIN c.nodes, NEW i \in 1..PrivateFrom(a)
  PROVE  c.rows[a.table[i]] = PagePrefix(a.tokens, i)
  <2> USE <1>PromptRows
  <2> DEFINE x == PagePrefix(a.tokens, i)
  <2>1. PICK M, F : M = PrivateFrom(a) /\ F = FullPages(a.tokens)
    OBVIOUS
  <2>2. /\ AllocShape(a) /\ InTree(c, a) /\ a.tokens \in Seq(Tokens)
        /\ M \in Nat /\ F \in Nat /\ M <= F
    BY <2>1, AllocSizes, AllocParts, Zenon DEF AllocOK
  <2>3. i \in 1..M /\ i \in 0..M /\ i \in 0..F /\ M \in 0..F /\ M # 0
    BY ONLY <2>1, <2>2, i \in 1..PrivateFrom(a)
  <2>4. x \in Paths /\ FullPages(x) = i /\ OnPath(x, PagePrefix(a.tokens, M))
    <3>1. x \in Paths /\ FullPages(x) = i
      BY <2>1, <2>2, <2>3, PrefixFacts, Zenon
    <3>2. OnPath(x, PagePrefix(a.tokens, M)) <=> i <= M /\ x = x
      BY <2>1, <2>2, <2>3, <3>1, OnPathOfPrefix, Zenon
    <3> QED BY <2>3, <3>1, <3>2
  <2>5. a.node = PagePrefix(a.tokens, M) /\ FullPages(a.node) = M
    BY <2>1, <2>2, <2>3, PrefixFacts, Zenon DEF AllocShape
  <2>6. a.node # Root /\ a.node \in DOMAIN c.nodes
    BY <2>3, <2>5, RootPath, Zenon
  <2>7. c.nodes[a.node].computed
    BY <2>2, <2>6, Zenon DEF InTree
  <2>8. PICK q \in Holder(c.nodes, x) : c.nodes[q].pages[i] = a.table[i]
    BY <2>2, Zenon DEF InTree
  <2>9. q \in DOMAIN c.nodes /\ c.nodes[q].start < i /\ OnPath(x, q)
    BY <2>4, <2>8, HolderMember, Zenon
  <2>10. OnPath(q, a.node)
    BY <2>4, <2>5, <2>6, <2>8, HolderOnPath, Zenon
  <2>11. c.nodes[q].computed
    BY <2>6, <2>7, <2>9, <2>10, ComputedPath, Zenon
  <2>12. c.nodes[q].start \in Nat /\ FullPages(q) \in Nat
    BY <2>9, TreeNode, Zenon
  <2>13. i <= FullPages(q) /\ PagePrefix(q, i) = x
    BY <2>4, <2>9, Zenon DEF OnPath
  <2>14. i \in (c.nodes[q].start + 1)..FullPages(q)
    BY ONLY <2>3, <2>9, <2>12, <2>13
  <2>15. c.rows[c.nodes[q].pages[i]] = PagePrefix(q, i)
    BY <2>9, <2>11, <2>14, Zenon DEF Written
  <2> QED BY <2>8, <2>13, <2>15, Zenon
\* A prompt page is full of the sequence, whatever was sampled since.
<1>PromptFill.
  ASSUME NEW a \in Allocation, AllocShape(a), a.out # <<>>, NEW i \in 1..PrivateFrom(a)
  PROVE  Fill(Sequence(a), i, Len(Sequence(a)) - 1) = PagePrefix(a.tokens, i)
  <2> USE <1>PromptFill
  <2>1. PICK M, F, K, N, L, S : /\ M = PrivateFrom(a) /\ F = FullPages(a.tokens) /\ K = Len(a.tokens)
                                /\ N = Len(a.out) /\ S = Sequence(a) /\ L = Len(S)
    BY Zenon
  <2>2. /\ M \in Nat /\ F \in Nat /\ M <= F /\ K \in Nat /\ N \in Nat /\ L = K + N
        /\ a.tokens \in Seq(Tokens) /\ a.out \in Seq(Tokens) /\ S = a.tokens \o a.out
    BY <2>1, AllocSizes, AllocParts, Zenon DEF Sequence
  <2>3. N # 0
    BY <2>1, <2>2
  <2>4. i \in Nat /\ i \in 0..F
    BY ONLY <2>1, <2>2, i \in 1..PrivateFrom(a)
  <2>5. i * PageSize \in 0..K
    BY <2>1, <2>2, <2>4, LevelBounds, Zenon
  <2>6. PICK x : x = i * PageSize
    OBVIOUS
  <2>7. x \in Nat /\ x <= K /\ K <= L - 1 /\ x <= L - 1 /\ L - 1 \in Nat /\ K \in 0..K
    BY ONLY <2>2, <2>3, <2>5, <2>6
  <2>8. /\ Fill(S, i, L - 1) = PagePrefix(S, i) /\ Fill(S, i, K) = PagePrefix(S, i)
        /\ Fill(a.tokens, i, K) = PagePrefix(a.tokens, i)
    BY <2>2, <2>4, <2>6, <2>7, FillFull, Zenon
  <2>9. Fill(S, i, K) = Fill(a.tokens, i, K)
    BY ONLY <2>1, <2>2, <2>4, <2>7, FillPrefix
  <2> QED BY <2>1, <2>8, <2>9, Zenon
<1> SUFFICES
  ASSUME RadixInv
  PROVE  RunningRequestsReadTheirOwnRows
  OBVIOUS
<1>1. Tree(cache.nodes) /\ Prefilling(cache.nodes, RequestLocks, Prefills) /\ Written(cache)
  BY Zenon DEF RadixInv, CacheOK
<1>2. ASSUME NEW r \in Live, alloc[r].out # <<>>, NEW i \in 1..Len(alloc[r].table),
             (i - 1) * PageSize < Len(Sequence(alloc[r])) - 1
      PROVE  cache.rows[alloc[r].table[i]]
                 = Fill(Sequence(alloc[r]), i, Len(Sequence(alloc[r])) - 1)
  <2>1. PICK a : a = alloc[r]
    OBVIOUS
  <2>2. r \in Requests /\ alloc[r] # None
    BY Zenon DEF Live
  <2>3. /\ a \in Allocation /\ AllocOK(cache, a)
        /\ a.node = Root \/ a.node \in DOMAIN cache.nodes
    BY <2>1, <2>2, OwnView, Zenon
  <2>4. AllocShape(a) /\ OwnRows(cache, a) /\ a.out # <<>>
    BY <1>2, <2>1, <2>3, Zenon DEF AllocOK
  <2>5. PrivateFrom(a) \in Nat /\ Len(a.table) \in Nat
    BY <2>3, <2>4, AllocSizes, Zenon
  <2>6. i \in 1..Len(a.table)
    BY <2>1, Zenon
  <2>7. i \in 1..PrivateFrom(a) \/ i \in (PrivateFrom(a) + 1)..Len(a.table)
    BY ONLY <2>5, <2>6
  <2>8. CASE i \in 1..PrivateFrom(a)
    BY <1>1, <2>1, <2>3, <2>4, <2>8, <1>PromptRows, <1>PromptFill, Zenon
  <2>9. CASE i \in (PrivateFrom(a) + 1)..Len(a.table)
    BY <1>2, <2>1, <2>4, <2>9, Zenon DEF OwnRows
  <2> QED BY <2>7, <2>8, <2>9, Zenon
<1> QED BY <1>2, Zenon DEF RunningRequestsReadTheirOwnRows

\* The cache starts with all pages free and an empty tree.
LEMMA InitInv ==
  ASSUME Init
  PROVE  RadixInv
<1>1. PICK f, n, w : f = Pages /\ n = [q \in {} |-> None] /\ w = [p \in Pages |-> <<>>]
  BY Zenon
<1>2. cache = [free |-> f, nodes |-> n, older |-> {}, host |-> {}, told |-> {}, lost |-> {},
               rows |-> w]
  BY <1>1, Zenon DEF Init
<1>3. /\ IsCache(cache) /\ cache.free = f /\ cache.nodes = n /\ cache.older = {}
      /\ cache.told = {} /\ cache.lost = {}
  BY ONLY <1>2, Zenon DEF IsCache
<1>4. DOMAIN n = {}
  BY <1>1, Zenon
<1>5. alloc = [r \in Requests |-> None] /\ pins = [x \in Sessions |-> None]
  BY Zenon DEF Init
<1>6. /\ \A r \in Requests : alloc[r] = None /\ RequestLocks[r] = {} /\ RequestPages[r] = {}
      /\ \A x \in Sessions : pins[x] = None /\ SessionLocks[x] = {}
  BY <1>5, Zenon DEF RequestLocks, RequestPages, SessionLocks
<1>7. Tree(n)
  BY <1>4, Zenon DEF Tree
<1>8. Stamps(cache)
  BY <1>3, <1>4, Zenon DEF Stamps
<1>9. Locked(n, RequestLocks, SessionLocks)
  BY <1>4, <1>6, Zenon DEF Locked
<1>10. Owned(cache, RequestPages)
  <2>1. NodePages(n) = {}
    BY <1>4, Zenon DEF NodePages
  <2>2. UNION {RequestPages[r] : r \in Requests} = {}
    BY <1>6, Zenon
  <2>3. cache.free \cup cache.lost \cup NodePages(cache.nodes)
            \cup UNION {RequestPages[r] : r \in Requests} = Pages
    BY <1>1, <1>3, <2>1, <2>2, Zenon
  <2>4. /\ cache.free \cap cache.lost = {}
        /\ (cache.free \cup cache.lost) \cap NodePages(cache.nodes) = {}
    BY <1>3, <2>1, Zenon
  <2>5. \A r \in Requests :
           /\ RequestPages[r] \cap (cache.free \cup cache.lost \cup NodePages(cache.nodes)) = {}
           /\ \A o \in Requests : r # o => RequestPages[r] \cap RequestPages[o] = {}
    BY <1>6, Zenon
  <2>6. \A q, d \in DOMAIN cache.nodes :
           q # d => Range(cache.nodes[q].pages) \cap Range(cache.nodes[d].pages) = {}
    BY <1>3, <1>4, Zenon
  <2> QED BY <2>3, <2>4, <2>5, <2>6, Zenon DEF Owned
<1>11. Prefilling(n, RequestLocks, Prefills) /\ Written(cache)
  BY <1>3, <1>4, Zenon DEF Prefilling, Written
<1>12. Announced(cache)
  BY <1>3, <1>4, Zenon DEF Announced
<1>13. CacheOK(cache, RequestLocks, SessionLocks, RequestPages, Prefills)
  BY <1>3, <1>7, <1>8, <1>9, <1>10, <1>11, <1>12, Zenon DEF CacheOK
<1>14. alloc \in [Requests -> Allocation \cup {None}] /\ pins \in [Sessions -> PinEntry \cup {None}]
  BY <1>5, Zenon
<1>15. \A r \in Live : AllocOK(cache, alloc[r])
  BY <1>6, Zenon DEF Live
<1> QED BY <1>13, <1>14, <1>15, Zenon DEF RadixInv

\* Nothing happens.
LEMMA StutterInv ==
  ASSUME RadixInv, UNCHANGED vars
  PROVE  RadixInv'
<1>1. cache' = cache /\ pins' = pins /\ alloc' = alloc
  BY Zenon DEF vars
<1>2. /\ RequestLocks' = RequestLocks /\ SessionLocks' = SessionLocks
      /\ RequestPages' = RequestPages /\ Prefills' = Prefills /\ Live' = Live
  BY <1>1 DEF RequestLocks, SessionLocks, RequestPages, Prefills, Live
<1> QED BY <1>1, <1>2, Zenon DEF RadixInv

\* The inductive invariant: the radix tree, the lock counts, the ownership of
\* the pages, the announcements, the rows and the allocations agree, whatever
\* the order of allocations, prefills, decode steps, evictions, restores,
\* commits, preemptions and pins.
THEOREM RadixInvariant == Spec => []RadixInv
<1>1. Init => RadixInv
  BY InitInv
<1>2. RadixInv /\ [Next]_vars => RadixInv'
  <2> SUFFICES ASSUME RadixInv, [Next]_vars PROVE RadixInv'
    OBVIOUS
  <2>1. ASSUME NEW r \in Requests, Allocate(r) PROVE RadixInv'
    BY <2>1, Library, AllocateStep, Zenon
  <2>2. ASSUME NEW r \in Requests, Prefilled(r) \/ PublishRefused(r) PROVE RadixInv'
    BY <2>2, Library, PrefilledStep, Zenon
  <2>3. ASSUME NEW r \in Requests, Grow(r) PROVE RadixInv'
    BY <2>3, Library, GrowStep, Zenon
  <2>4. ASSUME NEW r \in Requests, Decode(r) PROVE RadixInv'
    BY <2>4, DecodeStep, Zenon
  <2>5. ASSUME NEW r \in Requests, CommitAndRelease(r) PROVE RadixInv'
    BY <2>5, Library, CommitStep, Zenon
  <2>6. ASSUME NEW r \in Requests, ReleasePreempted(r) PROVE RadixInv'
    BY <2>6, Library, PreemptStep, Zenon
  <2>7. ASSUME NEW x \in Sessions, Pin(x) PROVE RadixInv'
    BY <2>7, Library, PinStep, Zenon
  <2>8. ASSUME NEW x \in Sessions, Unpin(x) PROVE RadixInv'
    BY <2>8, Library, UnpinStep, Zenon
  <2>9. CASE ReserveScratchPage
    BY <2>9, Library, ScratchStep, Zenon
  <2>10. CASE HostForgets
    BY <2>10, HostStep, Zenon
  <2>11. CASE UNCHANGED vars
    BY <2>11, StutterInv, Zenon
  <2> QED BY <2>1, <2>2, <2>3, <2>4, <2>5, <2>6, <2>7, <2>8, <2>9, <2>10, <2>11, Zenon DEF Next
<1> QED BY <1>1, <1>2, PTL DEF Spec

\* The tree stays a tree of page-aligned segments under stamps that order it.
THEOREM TypeCorrect == Spec => []TypeOK
BY RadixInvariant, InvTypeOK, PTL

\* No call leaks a page or gives it to two owners.
THEOREM PagesHaveOneOwner == Spec => []OneOwnerPerPage
BY RadixInvariant, InvOneOwner, PTL

\* The lock counts are those of the live allocations and pins.
THEOREM LockCountsExact == Spec => []RefCountsAreExact
BY RadixInvariant, InvRefCounts, PTL

\* A match only ever reuses rows that hold its own prefix.
THEOREM CacheHoldsItsPrefixes == Spec => []CachedRowsAreWritten
<1>1. RadixInv => CachedRowsAreWritten
  BY Zenon DEF RadixInv, CacheOK, Written, CachedRowsAreWritten
<1> QED BY <1>1, RadixInvariant, PTL

\* A decoding request reads its own sequence through its page table.
THEOREM DecodesReadOwnRows == Spec => []RunningRequestsReadTheirOwnRows
BY RadixInvariant, InvOwnRows, PTL

\* The assertions of release_preempted hold.
THEOREM PrefillsArePrivate == Spec => []UncomputedNodesArePrivate
BY RadixInvariant, InvPrivateNodes, PTL

\* The event stream announces exactly the computed prefixes of the tree.
THEOREM EventsMatchTree == Spec => []AnnouncedIsCached
<1>1. RadixInv => AnnouncedIsCached
  BY Zenon DEF RadixInv, CacheOK, Announced, AnnouncedIsCached
<1> QED BY <1>1, RadixInvariant, PTL
=============================================================================
