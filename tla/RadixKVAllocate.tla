-------------------------- MODULE RadixKVAllocate ---------------------------
(***************************************************************************)
(* Lemmas about RadixKV, second part: allocate.  It matches and locks a    *)
(* prefix, restores pages from the host tier, takes or evicts the pages it *)
(* needs, inserts the new node, and on an early return undoes its lock.    *)
(***************************************************************************)
EXTENDS RadixKVTree

\* The size of a union.
LEMMA CardUnion ==
  ASSUME LibraryFacts, NEW S, IsFiniteSet(S), NEW T, IsFiniteSet(T)
  PROVE  Cardinality(S \cup T) = Cardinality(S) + Cardinality(T) - Cardinality(S \cap T)
<1>1. \A U, V : IsFiniteSet(U) /\ IsFiniteSet(V) =>
          Cardinality(U \cup V) = Cardinality(U) + Cardinality(V) - Cardinality(U \cap V)
  BY Zenon DEF LibraryFacts
<1> QED BY <1>1, Zenon

\* The locks that are left when the pins that run out are gone.
LocksExpire(SL, SM) ==
    /\ \A x \in Expired : SL[x] = {pins[x].node}
    /\ \A x \in Sessions : SM[x] = IF x \in Expired THEN {} ELSE SL[x]

\* The nodes being prefilled, and this one if it has no rows yet.
MorePrefills(PF, PG, r, p, node) ==
    /\ \A o \in Requests : PF[o] \subseteq PG[o]
    /\ ~node.computed => <<p, node.start>> \in PG[r]

\* The inserting request's lock moves from the parent to the new node.
LEMMA InsertMoveOK ==
  \A c, RL, SL, PR, PF, p, node, d, r, PM, RM, PG :
      /\ LibraryFacts /\ CacheOK(c, RL, SL, PR, PF) /\ MayInsert(c, p, node)
      /\ node.ref = 1 /\ IsInsertion(c, p, node, d)
      /\ Drops(PR, PM, r, Range(node.pages))
      /\ MovesLock(Requests, RL, RM, r, PagePrefix(p, node.start), p)
      /\ MorePrefills(PF, PG, r, p, node)
    =>   /\ CacheOK(d, RM, SL, PM, PG)
         /\ \A h, P : h = Root \/ h \in DOMAIN c.nodes => Keeps(c, d, h, P)
\* A lock that moves from g to h is felt by no node on both paths or on neither.
<1>LockersMove.
  ASSUME NEW I, NEW L, NEW M, NEW i, NEW g, NEW h, MovesLock(I, L, M, i, g, h),
         NEW q, OnPath(q, g) <=> OnPath(q, h)
  PROVE  Lockers(I, M, q) = Lockers(I, L, q)
  BY <1>LockersMove, Zenon DEF Lockers, MovesLock
\* The lock counts when the inserting request's lock moves to the new node.
<1>InsertLocksMove.
  ASSUME LibraryFacts, NEW nodes, Tree(nodes), NEW p, NEW node, Fits(nodes, p, node), NEW new,
         IsInsert(nodes, p, node, new), NEW RL, NEW SL, Locked(nodes, RL, SL), NEW r, NEW RM,
         MovesLock(Requests, RL, RM, r, PagePrefix(p, node.start), p), node.ref = 1
  PROVE  Locked(new, RM, SL)
  <2> USE <1>InsertLocksMove
  <2>1. /\ DOMAIN new = DOMAIN nodes \cup {p} /\ new[p] = node /\ p \notin DOMAIN nodes
        /\ \A d \in DOMAIN nodes : new[d] = nodes[d]
    BY FitsNew, Zenon DEF IsInsert
  <2>2. /\ \A h : h = Root \/ h \in DOMAIN nodes => ~OnPath(p, h)
        /\ \A q \in DOMAIN nodes : OnPath(q, PagePrefix(p, node.start)) <=> OnPath(q, p)
    BY InsertAnchor, Zenon
  <2>3. /\ r \in Requests /\ RM[r] = {p} /\ \A o \in Requests : o # r => RM[o] = RL[o]
    BY Zenon DEF MovesLock
  <2>4. /\ \A o \in Requests : RM[o] \subseteq (DOMAIN new) \cup {Root}
        /\ \A x \in Sessions : SL[x] \subseteq (DOMAIN new) \cup {Root}
    BY <2>1, <2>3, Zenon DEF Locked
  <2>5. ASSUME NEW q \in DOMAIN nodes
        PROVE  new[q].ref = Cardinality(Lockers(Requests, RM, q))
                            + Cardinality(Lockers(Sessions, SL, q))
    <3>1. Lockers(Requests, RM, q) = Lockers(Requests, RL, q)
      <4>1. OnPath(q, PagePrefix(p, node.start)) <=> OnPath(q, p)
        BY <2>2, Zenon
      <4> QED BY <4>1, <1>LockersMove
    <3>2. nodes[q].ref = Cardinality(Lockers(Requests, RL, q)) + Cardinality(Lockers(Sessions, SL, q))
      BY Zenon DEF Locked
    <3> QED BY <2>1, <3>1, <3>2, Zenon
  <2>6. 1 = Cardinality(Lockers(Requests, RM, p)) + Cardinality(Lockers(Sessions, SL, p))
    <3>1. OnPath(p, p)
      BY FitsNew, OnPathRefl, Zenon
    <3>2. Lockers(Requests, RM, p) = {r}
      BY <2>2, <2>3, <3>1, Zenon DEF Lockers, Locked
    <3>3. Lockers(Sessions, SL, p) = {}
      BY <2>2, Zenon DEF Lockers, Locked
    <3>4. Cardinality({r}) = 1 /\ Cardinality({}) = 0
      BY CardSingle, CardEmpty, Zenon
    <3> QED BY <3>2, <3>3, <3>4
  <2> QED BY <2>1, <2>4, <2>5, <2>6, Zenon DEF Locked
<1> SUFFICES
  ASSUME LibraryFacts, NEW c, NEW RL, NEW SL, NEW PR, NEW PF, CacheOK(c, RL, SL, PR, PF),
         NEW p, NEW node, MayInsert(c, p, node), node.ref = 1,
         NEW d, IsInsertion(c, p, node, d),
         NEW r, NEW PM, Drops(PR, PM, r, Range(node.pages)),
         NEW RM, MovesLock(Requests, RL, RM, r, PagePrefix(p, node.start), p),
         NEW PG, MorePrefills(PF, PG, r, p, node)
  PROVE  /\ CacheOK(d, RM, SL, PM, PG)
         /\ \A h, P : h = Root \/ h \in DOMAIN c.nodes => Keeps(c, d, h, P)
  OBVIOUS
<1>0. (\A o \in Requests : PF[o] \subseteq PG[o]) /\ (~node.computed => <<p, node.start>> \in PG[r])
  BY Zenon DEF MorePrefills
<1>1. Tree(c.nodes) /\ Locked(c.nodes, RL, SL)
  BY Zenon DEF CacheOK
<1>2. Fits(c.nodes, p, node) /\ IsInsert(c.nodes, p, node, d.nodes)
  BY Zenon DEF MayInsert, IsInsertion
<1>3. Locked(d.nodes, RM, SL)
  BY <1>1, <1>2, <1>InsertLocksMove, Zenon
<1>4. /\ r \in Requests /\ RL[r] = {PagePrefix(p, node.start)} /\ RM[r] = {p}
      /\ \A o \in Requests : o # r => RM[o] = RL[o]
  BY Zenon DEF MovesLock
<1>5. ASSUME NEW q \in DOMAIN c.nodes, ~c.nodes[q].computed PROVE q # PagePrefix(p, node.start)
  <2>1. CASE node.start = 0
    <3>1. p \in Seq(Tokens)
      BY <1>1, <1>2, FitsNew, PathFacts, Zenon
    <3>2. PagePrefix(p, node.start) = Root
      BY <2>1, <3>1, RootPath, Zenon
    <3> QED BY <1>1, <3>2, TreeNode, Zenon
  <2>2. CASE node.start # 0
    BY <1>5, <2>2, Zenon DEF MayInsert
  <2> QED BY <2>1, <2>2
<1>6. InsertPrefills(c, p, node, RL, RM, PF, PG)
  BY <1>0, <1>4, <1>5, Zenon DEF InsertPrefills
<1> QED BY <1>3, <1>6, InsertOK, Zenon

\* A stage of allocate: the m pages matched so far are locked for r, which has
\* no pages of its own yet.
StageOK(c, r, RL, SL, PR, PF, s, m) ==
    /\ m \in 0..FullPages(s) /\ Anchored(c, PagePrefix(s, m))
    /\ CacheOK(c, With(RL, r, {PagePrefix(s, m)}), SL, With(PR, r, {}), With(PF, r, {}))

\* _ensure_free within allocate.
LEMMA StageRoom ==
  \A c, r, RL, SL, PR, PF, s, m, needed, offload, refuse, room :
      /\ LibraryFacts /\ r \in Requests /\ StageOK(c, r, RL, SL, PR, PF, s, m)
      /\ room \in EnsureFree(c, needed, offload, refuse)
    =>   /\ StageOK(room.cache, r, RL, SL, PR, PF, s, m) /\ Steady(c, room.cache, r, RL, PR)
         /\ \A x : Holder(room.cache.nodes, x) \subseteq Holder(c.nodes, x)
         /\ room.result \in {"ok", "full", "raised"}
         /\ room.result = "ok" => Cardinality(room.cache.free) >= needed
\* What keeps all paths keeps those of the other requests.
<1>SafeSteady.
  ASSUME NEW c, NEW d, NEW r \in Requests, NEW RL, NEW PR, NEW X, NEW Y,
         Safe(c, d, With(RL, r, X), With(PR, r, Y))
  PROVE  Steady(c, d, r, RL, PR)
  BY <1>SafeSteady, WithFacts DEF Safe, Steady
<1> TAKE c, r, RL, SL, PR, PF, s, m, needed, offload, refuse, room
<1> HAVE /\ LibraryFacts /\ r \in Requests /\ StageOK(c, r, RL, SL, PR, PF, s, m)
         /\ room \in EnsureFree(c, needed, offload, refuse)
<1> DEFINE R == With(RL, r, {PagePrefix(s, m)})
           O == With(PR, r, {})
           G == With(PF, r, {})
<1>1. m \in 0..FullPages(s) /\ Anchored(c, PagePrefix(s, m)) /\ CacheOK(c, R, SL, O, G)
  BY Zenon DEF StageOK
<1>2. R[r] = {PagePrefix(s, m)}
  BY Zenon DEF With
<1> HIDE DEF R, O, G
<1>3. /\ CacheOK(room.cache, R, SL, O, G) /\ Safe(c, room.cache, R, O)
      /\ \A x : Holder(room.cache.nodes, x) \subseteq Holder(c.nodes, x)
      /\ room.result \in {"ok", "full", "raised"}
      /\ room.result = "ok" => Cardinality(room.cache.free) >= needed
  BY <1>1, EnsureFreeOK
<1>4. Anchored(room.cache, PagePrefix(s, m))
  <2>1. Keeps(c, room.cache, PagePrefix(s, m), O[r])
    BY <1>2, <1>3, Zenon DEF Safe
  <2> QED BY <1>1, <2>1, KeepsAnchored, Zenon
<1>5. Steady(c, room.cache, r, RL, PR)
  BY <1>3, <1>SafeSteady, Zenon DEF R, O
<1>6. StageOK(room.cache, r, RL, SL, PR, PF, s, m)
  BY <1>1, <1>3, <1>4, Zenon DEF StageOK, R, O, G
<1> QED BY <1>3, <1>5, <1>6

\* The restored pages before they join the tree: taken, written, request r's.
RestoredRows(c, pages, s, m, n) ==
    [p \in Pages |-> IF p \in Range(pages)
                     THEN PagePrefix(s, CHOOSE i \in (m + 1)..(m + n) : pages[i] = p)
                     ELSE c.rows[p]]

WithRows(e, h, t, w) == [e EXCEPT !.host = h, !.told = t, !.rows = w]

\* A restore that completes: the match grows by the restored pages.
LEMMA RestoreInsert ==
  \A c, r, RL, SL, PR, PF, s, m, n, pages, d :
      /\ LibraryFacts /\ r \in Requests /\ s \in Seq(Tokens)
      /\ StageOK(c, r, RL, SL, PR, PF, s, m) /\ n \in Nat \ {0} /\ m + n <= FullPages(s)
      /\ Holder(c.nodes, PagePrefix(s, m + 1)) = {}
      /\ n <= Cardinality(c.free) /\ pages = Take(c, m + 1, m + n)
      /\ d = Restored(c, pages, s, m, n)
    =>   StageOK(d, r, RL, SL, PR, PF, s, m + n) /\ Steady(c, d, r, RL, PR)
\* A cache with other rows.
<1>WithRowsFields.
  ASSUME NEW e, IsCache(e), NEW h, NEW t, NEW w, NEW x, x = WithRows(e, h, t, w)
  PROVE  /\ IsCache(x) /\ x.free = e.free /\ x.nodes = e.nodes /\ x.older = e.older
         /\ x.host = h /\ x.told = t /\ x.lost = e.lost /\ x.rows = w
  <2> USE <1>WithRowsFields
  <2>1. x = [free |-> e.free, nodes |-> e.nodes, older |-> e.older, host |-> h,
             told |-> t, lost |-> e.lost, rows |-> w]
    BY Zenon DEF IsCache, WithRows
  <2> QED BY ONLY <2>1, Zenon DEF IsCache
\* A completed restore, field by field.
<1>RestoredShape.
  ASSUME NEW c, IsCache(c), NEW s \in Seq(Tokens), NEW m \in 0..FullPages(s), NEW n \in Nat,
         m + n <= FullPages(s), NEW pages, NEW node,
         node = [start |-> m, pages |-> pages, ref |-> 1, computed |-> TRUE]
  PROVE  \E a : /\ IsCache(a) /\ a.free = c.free \ Range(pages) /\ a.nodes = c.nodes
                /\ a.older = c.older /\ a.told = c.told /\ a.lost = c.lost
                /\ a.rows = RestoredRows(c, pages, s, m, n)
                /\ IsInsertion(a, PagePrefix(s, m + n), node, Restored(c, pages, s, m, n))
  <2> USE <1>RestoredShape
  <2> DEFINE T == Range(pages)
             keys == {PagePrefix(s, i) : i \in (m + 1)..(m + n)}
             w == RestoredRows(c, pages, s, m, n)
             p == PagePrefix(s, m + n)
  <2>1. PICK a : a = [free |-> c.free \ T, nodes |-> c.nodes, older |-> c.older,
                      host |-> c.host \ keys, told |-> c.told, lost |-> c.lost, rows |-> w]
    BY Zenon
  <2>3. PICK e : e = PoolAllocate(c, T)
    OBVIOUS
  <2>4. PICK d : d = Restored(c, pages, s, m, n)
    OBVIOUS
  <2>5. PICK x : x = [PoolAllocate(c, Range(pages)) EXCEPT
                          !.host = @ \ keys, !.told = @ \cup keys,
                          !.rows = [g \in Pages |->
                              IF g \in Range(pages)
                              THEN PagePrefix(s, CHOOSE i \in (m + 1)..(m + n) : pages[i] = g)
                              ELSE @[g]]]
    BY Zenon
  <2>17. d = InsertNode(x, p, node)
    BY <2>4, <2>5, Zenon DEF Restored, SuffixKeys
  <2>6. e = [free |-> c.free \ T, nodes |-> c.nodes, older |-> c.older, host |-> c.host,
             told |-> c.told, lost |-> c.lost, rows |-> c.rows]
    <3> HIDE DEF T
    <3> QED BY <2>3, Zenon DEF IsCache, PoolAllocate
  <2>7. /\ IsCache(e) /\ e.free = c.free \ T /\ e.nodes = c.nodes /\ e.older = c.older
        /\ e.host = c.host /\ e.told = c.told /\ e.lost = c.lost /\ e.rows = c.rows
    <3> HIDE DEF T
    <3> QED BY ONLY <2>6, Zenon DEF IsCache
  <2>8. x = [e EXCEPT !.host = e.host \ keys, !.told = e.told \cup keys,
                      !.rows = [g \in Pages |->
                          IF g \in T
                          THEN PagePrefix(s, CHOOSE i \in (m + 1)..(m + n) : pages[i] = g)
                          ELSE e.rows[g]]]
    BY ONLY <2>3, <2>5
  <2>18. RestoredRows(c, pages, s, m, n) = [g \in Pages |->
                          IF g \in T
                          THEN PagePrefix(s, CHOOSE i \in (m + 1)..(m + n) : pages[i] = g)
                          ELSE c.rows[g]]
    BY Zenon DEF RestoredRows
  <2>19. x = WithRows(e, c.host \ keys, c.told \cup keys, w)
    BY <2>7, <2>8, <2>18, Zenon DEF WithRows
  <2> HIDE DEF T, keys, w, p
  <2>11. /\ IsCache(x) /\ x.free = e.free /\ x.nodes = e.nodes /\ x.older = e.older
         /\ x.told = c.told \cup keys /\ x.lost = e.lost /\ x.rows = w
    BY ONLY <2>7, <2>19, <1>WithRowsFields
  <2>12. /\ IsCache(a) /\ a.free = c.free \ T /\ a.nodes = c.nodes /\ a.older = c.older
         /\ a.told = c.told /\ a.lost = c.lost /\ a.rows = w
    BY ONLY <2>1, Zenon DEF IsCache
  <2>13. /\ IsCache(d) /\ d.free = x.free /\ d.told = x.told /\ d.lost = x.lost /\ d.rows = x.rows
         /\ IsInsert(x.nodes, p, node, d.nodes)
         /\ d.older = x.older \cup {<<q, p>> : q \in DOMAIN x.nodes}
    BY ONLY <2>11, <2>17, InsertNodeShape
  <2>14. keys = {PagePrefix(p, i) : i \in (node.start + 1)..FullPages(p)}
    <3>1. m + n \in 0..FullPages(s) /\ m \in Nat /\ FullPages(s) \in Nat /\ node.start = m
      BY LevelBounds
    <3>2. FullPages(p) = m + n
      BY <3>1, PrefixFacts DEF p
    <3>3. ASSUME NEW i \in (m + 1)..(m + n) PROVE PagePrefix(p, i) = PagePrefix(s, i)
      <4>1. i \in 0..(m + n)
        BY <3>1
      <4> QED BY <3>1, <4>1, PrefixFacts DEF p
    <3> QED BY <3>1, <3>2, <3>3, Zenon DEF keys
  <2>15. node.computed
    OBVIOUS
  <2>16. IsInsertion(a, p, node, d)
    BY <2>7, <2>11, <2>12, <2>13, <2>14, <2>15, Zenon DEF IsInsertion
  <2> QED BY <2>4, <2>12, <2>16, Zenon DEF T, w, p
<1> SUFFICES
  ASSUME LibraryFacts,
         NEW c, NEW r \in Requests, NEW RL, NEW SL, NEW PR, NEW PF, NEW s \in Seq(Tokens), NEW m,
         StageOK(c, r, RL, SL, PR, PF, s, m), NEW n \in Nat \ {0}, m + n <= FullPages(s),
         Holder(c.nodes, PagePrefix(s, m + 1)) = {}, n <= Cardinality(c.free),
         NEW pages, pages = Take(c, m + 1, m + n), NEW d, d = Restored(c, pages, s, m, n)
  PROVE  StageOK(d, r, RL, SL, PR, PF, s, m + n) /\ Steady(c, d, r, RL, PR)
  OBVIOUS
<1> DEFINE R == With(RL, r, {PagePrefix(s, m)})
           S == With(RL, r, {PagePrefix(s, m + n)})
           O == With(PR, r, {})
           Q == With(PR, r, {} \cup Range(pages))
           G == With(PF, r, {})
           p == PagePrefix(s, m + n)
<1>1. m \in 0..FullPages(s) /\ Anchored(c, PagePrefix(s, m)) /\ CacheOK(c, R, SL, O, G)
  BY Zenon DEF StageOK
<1>2. FullPages(s) \in Nat /\ m \in Nat /\ m + n \in 0..FullPages(s) /\ m \in 0..(m + n) /\ m < m + n
  BY <1>1, LevelBounds
<1>3. /\ IsCache(c) /\ Tree(c.nodes) /\ Owned(c, O) /\ Written(c) /\ Locked(c.nodes, R, SL)
  BY <1>1, Zenon DEF CacheOK
<1>4. /\ Gains(O, Q, r, Range(pages)) /\ Drops(Q, O, r, Range(pages))
      /\ MovesLock(Requests, R, S, r, PagePrefix(s, m), p)
  <2>1. Range(pages) \subseteq {} \cup Range(pages) /\ {} = ({} \cup Range(pages)) \ Range(pages)
    BY Zenon
  <2> QED BY <2>1, WithChanges, Zenon
<1> HIDE DEF R, S, O, Q, G
<1>5. /\ pages \in [(m + 1)..(m + n) -> Pages] /\ IsInjective(pages)
      /\ Range(pages) \subseteq c.free /\ Range(pages) = {pages[i] : i \in (m + 1)..(m + n)}
  <2>1. m + 1 \in Nat /\ m + n \in Nat /\ (m + n) + 1 - (m + 1) <= Cardinality(c.free)
    BY <1>2
  <2>2. IsTaken(c, pages, m + 1, m + n)
    BY <1>3, <2>1, TakenPages, Zenon
  <2> QED BY <2>2, Zenon DEF IsTaken
<1>6. PICK node : node = [start |-> m, pages |-> pages, ref |-> 1, computed |-> TRUE]
  BY Zenon
<1>7. node.ref = 1 /\ node.start = m /\ node.pages = pages /\ node.computed
  BY <1>6
<1>8. PICK a : /\ IsCache(a) /\ a.free = c.free \ Range(pages) /\ a.nodes = c.nodes
               /\ a.older = c.older /\ a.told = c.told /\ a.lost = c.lost
               /\ a.rows = RestoredRows(c, pages, s, m, n)
               /\ IsInsertion(a, p, node, d)
  BY <1>1, <1>3, <1>6, <1>RestoredShape
<1>9. \A g \in Pages : g \notin Range(pages) => a.rows[g] = c.rows[g]
  BY <1>8, Zenon DEF RestoredRows
<1>10. ASSUME NEW i \in (m + 1)..(m + n) PROVE a.rows[pages[i]] = PagePrefix(s, i)
  <2> DEFINE j == CHOOSE k \in (m + 1)..(m + n) : pages[k] = pages[i]
  <2>1. pages[i] \in Pages /\ pages[i] \in Range(pages)
    BY <1>5, Zenon
  <2>2. a.rows[pages[i]] = PagePrefix(s, j)
    BY <1>8, <2>1, Zenon DEF RestoredRows
  <2>3. j \in (m + 1)..(m + n) /\ pages[j] = pages[i]
    BY Zenon
  <2> HIDE DEF j
  <2>4. j = i
    BY <1>5, <2>3, Zenon DEF IsInjective
  <2> QED BY <2>2, <2>4
<1>11. CacheOK(a, R, SL, Q, G)
  <2>1. OwnedX(c.free, c.lost, NodePages(c.nodes), O)
    BY <1>3, OwnedView, Zenon
  <2>2. OwnedX(c.free \ Range(pages), c.lost, NodePages(c.nodes), Q)
    BY <1>4, <1>5, <2>1, GainsOwned, Zenon
  <2>3. OwnedX(a.free, a.lost, NodePages(c.nodes), Q)
    BY <1>8, <2>2, Zenon
  <2>4. NodePages(c.nodes) \subseteq Pages /\ NodePages(c.nodes) \cap c.free = {}
    BY <2>1, Zenon DEF OwnedX
  <2>5. \A g \in NodePages(c.nodes) : a.rows[g] = c.rows[g]
    BY <1>5, <1>9, <2>4, Zenon
  <2>6. Written(a)
    BY <1>3, <1>8, <2>5, RowsKept, Zenon
  <2> QED BY <1>1, <1>8, <2>3, <2>6, Repage, Zenon
<1>12. MayInsert(a, p, node)
  <2>1. Anchored(a, PagePrefix(s, m)) /\ Holder(a.nodes, PagePrefix(s, m + 1)) = {}
    BY <1>1, <1>8, Zenon DEF Anchored
  <2>2. 1 \in Nat /\ TRUE \in BOOLEAN
    OBVIOUS
  <2> QED BY <1>2, <1>5, <1>6, <1>10, <2>1, <2>2, StageFits, Zenon
<1>13. PagePrefix(p, node.start) = PagePrefix(s, m)
  BY <1>2, <1>7, StagePath
<1>14. /\ CacheOK(d, S, SL, O, G)
       /\ \A h, P : h = Root \/ h \in DOMAIN a.nodes => Keeps(a, d, h, P)
  <2>1. MovesLock(Requests, R, S, r, PagePrefix(p, node.start), p)
    BY <1>4, <1>13, Zenon
  <2>2. Drops(Q, O, r, Range(node.pages))
    BY <1>4, <1>7, Zenon
  <2>3. MorePrefills(G, G, r, p, node)
    BY <1>7, Zenon DEF MorePrefills
  <2> HIDE DEF p
  <2>5. node.ref = 1 /\ IsInsertion(a, p, node, d)
    BY <1>7, <1>8, Zenon
  <2> QED BY ONLY LibraryFacts, <1>11, <1>12, <2>1, <2>2, <2>3, <2>5, InsertMoveOK, Zenon
<1>15. Steady(c, d, r, RL, PR)
  <2> SUFFICES ASSUME NEW o \in Requests, o # r, NEW h \in RL[o] PROVE Keeps(c, d, h, PR[o])
    BY Zenon DEF Steady
  <2>1. R[o] = RL[o] /\ O[o] = PR[o]
    BY Zenon DEF With, R, O
  <2>2. h = Root \/ h \in DOMAIN c.nodes
    <3>1. R[o] \subseteq (DOMAIN c.nodes) \cup {Root}
      BY <1>3, Zenon DEF Locked
    <3> QED BY <2>1, <3>1, Zenon
  <2>3. \A g \in PR[o] : g \in Pages /\ g \notin Range(pages)
    BY <1>3, <1>5, <2>1, Zenon DEF Owned
  <2>4. \A g \in PR[o] : a.rows[g] = c.rows[g]
    BY <1>9, <2>3, Zenon
  <2>5. Keeps(c, a, h, PR[o])
    BY <1>8, <2>4, KeepsRefl, Zenon
  <2>6. Keeps(a, d, h, PR[o])
    BY <1>8, <1>14, <2>2, Zenon
  <2> QED BY <2>5, <2>6, KeepsTrans, Zenon
<1>16. Anchored(d, p)
  <2>1. p \in DOMAIN d.nodes /\ d.nodes[p] = node
    BY <1>8, Zenon DEF IsInsertion, IsInsert
  <2> QED BY <1>7, <2>1, Zenon DEF Anchored
<1> QED BY <1>2, <1>14, <1>15, <1>16, Zenon DEF StageOK, S, O, G

\* _restore_from_dram: the locked match grows, or stays as it was.
LEMMA RestoreOK ==
  \A c, r, RL, SL, PR, PF, s, m, env, x :
      /\ LibraryFacts /\ r \in Requests /\ s \in Seq(Tokens)
      /\ StageOK(c, r, RL, SL, PR, PF, s, m) /\ x \in RestoreFromDram(c, s, m, env)
    =>   StageOK(x.cache, r, RL, SL, PR, PF, s, x.matched) /\ Steady(c, x.cache, r, RL, PR)
\* The tier restores no more than the prompt's remaining full pages.
<1>RestorableFacts.
  ASSUME LibraryFacts, NEW c, NEW s \in Seq(Tokens), NEW m \in 0..FullPages(s)
  PROVE  Restorable(c, s, m) \in 0..(FullPages(s) - m)
  <2> USE <1>RestorableFacts
  <2> DEFINE S == {n \in 0..(FullPages(s) - m) :
                      \A i \in 1..n : PagePrefix(s, m + i) \in c.host}
  <2>1. FullPages(s) \in Nat /\ FullPages(s) - m \in Nat
    BY LevelBounds
  <2>2. S \subseteq 0..(FullPages(s) - m) /\ 0 \in S
    BY <2>1
  <2>3. Restorable(c, s, m) \in S
    <3>1. Restorable(c, s, m) = Max(S)
      BY Zenon DEF Restorable
    <3> HIDE DEF S
    <3> QED BY <2>1, <2>2, <3>1, MaxFacts, Zenon
  <2> QED BY <2>3, Zenon
\* The fields of a stage of allocate.
<1>StepFields.
  ASSUME NEW c, NEW t, NEW m, NEW x, x = [cache |-> c, result |-> t, matched |-> m]
  PROVE  x.cache = c /\ x.result = t /\ x.matched = m
  BY <1>StepFields
\* A transfer into the room that _ensure_free made.
<1>TransferOK.
  ASSUME LibraryFacts,
         NEW c, NEW r \in Requests, NEW RL, NEW SL, NEW PR, NEW PF, NEW s \in Seq(Tokens), NEW m,
         NEW n \in Nat \ {0}, m + n <= FullPages(s), NEW room,
         StageOK(room.cache, r, RL, SL, PR, PF, s, m), Steady(c, room.cache, r, RL, PR),
         Holder(room.cache.nodes, PagePrefix(s, m + 1)) = {},
         room.result \in {"ok", "full", "raised"},
         room.result = "ok" => Cardinality(room.cache.free) >= n,
         NEW env, NEW x, x = Transfer(room, s, m, n, env)
  PROVE  StageOK(x.cache, r, RL, SL, PR, PF, s, x.matched) /\ Steady(c, x.cache, r, RL, PR)
  <2> USE <1>TransferOK
  <2>1. PICK pages : pages = Take(room.cache, m + 1, m + n)
    OBVIOUS
  <2>2. PICK a : a = room.cache
    OBVIOUS
  <2>3. CASE x.cache = a /\ x.matched = m
    BY <2>2, <2>3, Zenon
  <2>4. CASE room.result = "ok" /\ x.cache = Restored(a, pages, s, m, n) /\ x.matched = m + n
    <3>0. IsFiniteSet(a.free)
      BY <2>2, FreeFinite, Zenon DEF StageOK, CacheOK
    <3>1. n <= Cardinality(a.free)
      BY <2>2, <2>4, <3>0, CardType
    <3>2. PICK d : d = Restored(a, pages, s, m, n)
      OBVIOUS
    <3>3. /\ StageOK(a, r, RL, SL, PR, PF, s, m) /\ Steady(c, a, r, RL, PR)
          /\ Holder(a.nodes, PagePrefix(s, m + 1)) = {} /\ pages = Take(a, m + 1, m + n)
      BY <2>1, <2>2, Zenon
    <3>4. StageOK(d, r, RL, SL, PR, PF, s, m + n) /\ Steady(a, d, r, RL, PR)
      BY ONLY LibraryFacts, <3>1, <3>2, <3>3, RestoreInsert, r \in Requests, s \in Seq(Tokens),
              n \in Nat \ {0}, m + n <= FullPages(s)
    <3>5. Steady(c, d, r, RL, PR)
      BY <3>3, <3>4, SteadyTrans, Zenon
    <3> QED BY <2>4, <3>2, <3>4, <3>5, Zenon
  <2>5. CASE room.result = "ok" /\ x.cache = Quarantined(a, Range(pages)) /\ x.matched = m
    <3>0. PICK d, T : d = Quarantined(a, T) /\ T = Range(pages)
      OBVIOUS
    <3>1. m \in Nat
      BY LevelBounds DEF StageOK
    <3>2. PICK O : O = With(PR, r, {})
      OBVIOUS
    <3>3. PICK R, G : R = With(RL, r, {PagePrefix(s, m)}) /\ G = With(PF, r, {})
      OBVIOUS
    <3>4. CacheOK(a, R, SL, O, G) /\ Anchored(a, PagePrefix(s, m)) /\ m \in 0..FullPages(s)
      BY <2>2, <3>2, <3>3, Zenon DEF StageOK
    <3>5. Owned(a, O)
      BY <3>4, Zenon DEF CacheOK
    <3>6. IsFiniteSet(a.free)
      BY <3>5, FreeFinite, Zenon
    <3>7. m + 1 \in Nat /\ m + n \in Nat /\ (m + n) + 1 - (m + 1) <= Cardinality(a.free)
      BY <2>2, <2>5, <3>1, <3>6, CardType
    <3>8. IsTaken(a, pages, m + 1, m + n)
      BY <2>1, <2>2, <3>5, <3>7, TakenPages, Zenon
    <3>9. T \subseteq a.free
      BY <3>0, <3>8, Zenon DEF IsTaken
    <3>10. CacheOK(d, R, SL, O, G) /\ \A h, P : Keeps(a, d, h, P)
      BY ONLY <3>0, <3>4, <3>9, LostOK
    <3>11. Anchored(d, PagePrefix(s, m))
      BY <3>4, <3>10, KeepsAnchored, Zenon
    <3>12. StageOK(d, r, RL, SL, PR, PF, s, m)
      BY <3>2, <3>3, <3>4, <3>10, <3>11, Zenon DEF StageOK
    <3>13. Steady(a, d, r, RL, PR) /\ Steady(c, a, r, RL, PR)
      BY <2>2, <3>10, KeepsSteady, Zenon
    <3>14. Steady(c, d, r, RL, PR)
      BY <3>13, SteadyTrans, Zenon
    <3> QED BY <2>5, <3>0, <3>12, <3>14, Zenon
  <2>6. CASE \E h : x.cache = [a EXCEPT !.host = h] /\ x.matched = m
    <3>1. PICK h, d : d = [a EXCEPT !.host = h] /\ x.cache = d /\ x.matched = m
      BY <2>6, Zenon
    <3>2. PICK R, O, G : /\ R = With(RL, r, {PagePrefix(s, m)}) /\ O = With(PR, r, {})
                         /\ G = With(PF, r, {})
      BY Zenon
    <3>3. CacheOK(a, R, SL, O, G) /\ Anchored(a, PagePrefix(s, m)) /\ m \in 0..FullPages(s)
      BY <2>2, <3>2, Zenon DEF StageOK
    <3>4. CacheOK(d, R, SL, O, G) /\ \A g, P : Keeps(a, d, g, P)
      BY ONLY <3>1, <3>3, HostOK, Zenon
    <3>5. Anchored(d, PagePrefix(s, m))
      BY <3>3, <3>4, KeepsAnchored, Zenon
    <3>6. StageOK(d, r, RL, SL, PR, PF, s, m)
      BY <3>2, <3>3, <3>4, <3>5, Zenon DEF StageOK
    <3>7. Steady(a, d, r, RL, PR) /\ Steady(c, a, r, RL, PR)
      BY <2>2, <3>4, KeepsSteady, Zenon
    <3>8. Steady(c, d, r, RL, PR)
      BY <3>7, SteadyTrans, Zenon
    <3> QED BY <3>1, <3>6, <3>8, Zenon
  <2>7. \/ x.cache = a /\ x.matched = m
        \/ \E h : x.cache = [a EXCEPT !.host = h] /\ x.matched = m
        \/ room.result = "ok" /\ x.cache = Restored(a, pages, s, m, n) /\ x.matched = m + n
        \/ room.result = "ok" /\ x.cache = Quarantined(a, Range(pages)) /\ x.matched = m
    <3>0. PICK e : e = [a EXCEPT !.host = @ \ SuffixKeys(s, m, n)]
      BY Zenon
    <3>1. \/ x = [cache |-> a, result |-> "raised", matched |-> m]
          \/ x = [cache |-> e, result |-> "raised", matched |-> m]
          \/ x = [cache |-> a, result |-> "ok", matched |-> m]
          \/ room.result = "ok" /\ x = [cache |-> Restored(a, pages, s, m, n), result |-> "ok", matched |-> m + n]
          \/ room.result = "ok" /\ x = [cache |-> Quarantined(a, Range(pages)), result |-> "raised", matched |-> m]
      BY <2>1, <2>2, <3>0, Zenon DEF Transfer, Quarantined
    <3>2. \E h : e = [a EXCEPT !.host = h]
      BY <3>0, Zenon
    <3>3. CASE x = [cache |-> e, result |-> "raised", matched |-> m]
      <4>1. x.cache = e /\ x.matched = m
        BY ONLY <3>3
      <4> QED BY <3>2, <4>1, Zenon
    <3>4. CASE x # [cache |-> e, result |-> "raised", matched |-> m]
      BY ONLY <3>1, <3>4, <1>StepFields
    <3> QED BY <3>3, <3>4, Zenon
  <2> QED BY <2>3, <2>4, <2>5, <2>6, <2>7, Zenon
<1> SUFFICES
  ASSUME LibraryFacts,
         NEW c, NEW r \in Requests, NEW RL, NEW SL, NEW PR, NEW PF, NEW s \in Seq(Tokens), NEW m,
         StageOK(c, r, RL, SL, PR, PF, s, m), NEW env,
         NEW x \in RestoreFromDram(c, s, m, env)
  PROVE  StageOK(x.cache, r, RL, SL, PR, PF, s, x.matched) /\ Steady(c, x.cache, r, RL, PR)
  OBVIOUS
<1>1. PICK n : n = Restorable(c, s, m)
  OBVIOUS
<1>2. m \in 0..FullPages(s) /\ FullPages(s) \in Nat
  BY LevelBounds, Zenon DEF StageOK
<1>3. n \in 0..(FullPages(s) - m)
  BY <1>1, <1>2, <1>RestorableFacts
<1>4. CASE x = [cache |-> c, result |-> "ok", matched |-> m]
  <2>1. x.cache = c /\ x.matched = m
    BY <1>4, <1>StepFields, Zenon
  <2>2. Steady(c, c, r, RL, PR)
    BY KeepsRefl, Zenon DEF Steady
  <2> QED BY <2>1, <2>2, Zenon
<1>5. CASE /\ ~(MinRestore = 0 \/ n < MinRestore \/ Holder(c.nodes, PagePrefix(s, m + 1)) # {})
           /\ \E room \in EnsureFree(c, n, FALSE, env.refuse) : x = Transfer(room, s, m, n, env)
  <2>1. n \in Nat \ {0} /\ m + n <= FullPages(s)
    BY <1>2, <1>3, <1>5, RadixAssumption
  <2>2. PICK room \in EnsureFree(c, n, FALSE, env.refuse) : x = Transfer(room, s, m, n, env)
    BY <1>5, Zenon
  <2>3. /\ StageOK(room.cache, r, RL, SL, PR, PF, s, m) /\ Steady(c, room.cache, r, RL, PR)
        /\ \A y : Holder(room.cache.nodes, y) \subseteq Holder(c.nodes, y)
        /\ room.result \in {"ok", "full", "raised"}
        /\ room.result = "ok" => Cardinality(room.cache.free) >= n
    BY StageRoom, Zenon
  <2>4. Holder(room.cache.nodes, PagePrefix(s, m + 1)) = {}
    BY <1>5, <2>3, Zenon
  <2> QED BY <2>1, <2>2, <2>3, <2>4, <1>TransferOK, Zenon
<1> QED BY <1>1, <1>4, <1>5, Zenon DEF RestoreFromDram

\* The page table of a new allocation.
Table(nodes, s, m, pages) ==
    [i \in 1..TablePages(s) |-> IF i <= m THEN PageAt(nodes, PagePrefix(s, i)) ELSE pages[i]]

IsTable(c, s, m, pages, t) ==
    /\ t \in Seq(Pages) /\ Len(t) = TablePages(s)
    /\ \A i \in 1..m : \E q \in Holder(c.nodes, PagePrefix(s, i)) : c.nodes[q].pages[i] = t[i]
    /\ \A i \in (m + 1)..TablePages(s) : t[i] = pages[i]

\* An allocation as allocate returns it, with k prompt pages of the tree.
Fresh(s, t, m, k, b) ==
    [tokens |-> s, table |-> t, matched |-> m, node |-> PagePrefix(s, k),
     inserted |-> b, out |-> <<>>]

\* The first k pages of s, by table t, are the tree's.
HeldPages(d, s, m, t, b, k) ==
    /\ \A i \in 1..k : \E q \in Holder(d.nodes, PagePrefix(s, i)) : d.nodes[q].pages[i] = t[i]
    /\ PagePrefix(s, k) # Root =>
           /\ d.nodes[PagePrefix(s, k)].computed <=> (~b \/ m = FullPages(s))
           /\ d.nodes[PagePrefix(s, k)].computed \/ d.nodes[PagePrefix(s, k)].start = m

\* An allocation that holds k of its prompt's pages in the tree.
FreshPages(c, s, m, pages, t, k, b) ==
    /\ Len(s) > 0 /\ m \in 0..FullPages(s)
    /\ IsTaken(c, pages, m + 1, TablePages(s)) /\ IsTable(c, s, m, pages, t)
    /\ b \in BOOLEAN /\ (b \/ m < FullPages(s)) /\ k = IF b THEN FullPages(s) ELSE m

IsGrant(d, a, s, m, k, b, pages) ==
    /\ a \in Allocation /\ a # None /\ AllocOK(d, a)
    /\ LockOf(a) = {PagePrefix(s, k)}
    /\ OwnOf(a) = {pages[i] : i \in (k + 1)..TablePages(s)}
    /\ PrefillOf(a) = IF b THEN {<<PagePrefix(s, k), m>>} ELSE {}

\* The allocation is as it should be.
LEMMA NewAllocOK ==
  ASSUME NEW c, NEW d, NEW s \in Seq(Tokens), NEW m, NEW pages, NEW t, NEW k, NEW b,
         FreshPages(c, s, m, pages, t, k, b), NEW a, a = Fresh(s, t, m, k, b),
         HeldPages(d, s, m, t, b, k)
  PROVE  IsGrant(d, a, s, m, k, b, pages)
<1>0. /\ Len(s) > 0 /\ m \in 0..FullPages(s)
      /\ IsTaken(c, pages, m + 1, TablePages(s)) /\ IsTable(c, s, m, pages, t)
      /\ b \in BOOLEAN /\ (b \/ m < FullPages(s)) /\ k = IF b THEN FullPages(s) ELSE m
  BY Zenon DEF FreshPages
<1> USE <1>0
<1>1. PICK F \in Nat, N \in Nat : /\ F = FullPages(s) /\ N = TablePages(s) /\ F <= N
                                  /\ m \in Nat /\ m <= F
  BY TableSize
<1>2. k \in Nat /\ k <= F /\ m <= k /\ k \in 0..FullPages(s)
  BY <1>1
<1>3. PagePrefix(s, k) \in Seq(Tokens) /\ <<>> \in Seq(Tokens)
  BY <1>2, PrefixLen
<1>4. t \in Seq(Pages) /\ Len(t) = N /\ \A i \in (m + 1)..N : t[i] = pages[i]
  BY <1>1, Zenon DEF IsTable
<1>5. PICK n \in Seq(Tokens), e \in Seq(Tokens) : n = PagePrefix(s, k) /\ e = <<>>
  BY <1>3, Zenon
<1>13. a = [tokens |-> s, table |-> t, matched |-> m, node |-> n, inserted |-> b, out |-> e]
  BY <1>5 DEF Fresh
<1>6. /\ a \in Allocation /\ a # None /\ a.tokens = s /\ a.table = t /\ a.matched = m
      /\ a.node = n /\ a.inserted = b /\ a.out = <<>>
  <2>1. /\ a \in Allocation /\ a # None /\ a.tokens = s /\ a.table = t /\ a.matched = m
        /\ a.node = n /\ a.inserted = b /\ a.out = e
    BY ONLY <1>0, <1>1, <1>4, <1>13, AllocFields, s \in Seq(Tokens), b \in BOOLEAN,
            n \in Seq(Tokens), e \in Seq(Tokens)
  <2> QED BY <1>5, <2>1
<1>7. PrivateFrom(a) = k
  BY <1>6, Zenon DEF PrivateFrom
<1>8. ASSUME NEW i \in (k + 1)..N PROVE t[i] = pages[i] /\ i \in (m + 1)..N
  <2>1. i \in (m + 1)..N
    BY <1>1, <1>2
  <2> QED BY <1>4, <2>1
<1>9. AllocShape(a)
  <2>1. \A i, j \in (k + 1)..N : t[i] = t[j] => i = j
    <3>1. DOMAIN pages = (m + 1)..N /\ IsInjective(pages)
      BY <1>1, Zenon DEF IsTaken
    <3>2. \A i, j \in (m + 1)..N : pages[i] = pages[j] => i = j
      BY <3>1, Zenon DEF IsInjective
    <3> SUFFICES ASSUME NEW i \in (k + 1)..N, NEW j \in (k + 1)..N, t[i] = t[j] PROVE i = j
      BY Zenon
    <3>3. /\ t[i] = pages[i] /\ t[j] = pages[j] /\ i \in (m + 1)..N /\ j \in (m + 1)..N
      BY <1>8, Zenon
    <3> QED BY <3>2, <3>3, Zenon
  <2>2. Len(t) >= N /\ m \in 0..F
    BY <1>1, <1>4
  <2>3. Len(a.table) = N /\ TablePages(a.tokens) = N /\ FullPages(a.tokens) = F
    BY <1>1, <1>4, <1>6
  <2>4. Len(a.tokens) > 0 /\ a.matched \in 0..FullPages(a.tokens)
    BY <1>6
  <2>5. a.inserted \/ a.matched < FullPages(a.tokens)
    BY <1>6
  <2>6. a.node = PagePrefix(a.tokens, PrivateFrom(a))
    BY <1>5, <1>6, <1>7
  <2>7. \A i, j \in (PrivateFrom(a) + 1)..Len(a.table) : a.table[i] = a.table[j] => i = j
    BY <1>6, <1>7, <2>1, <2>3
  <2>8. Len(a.table) >= TablePages(a.tokens)
    BY <2>3
  <2> QED BY <1>6, <2>4, <2>5, <2>6, <2>7, <2>8, Zenon DEF AllocShape
<1>10. InTree(d, a)
  <2>1. \A i \in 1..k : \E q \in Holder(d.nodes, PagePrefix(s, i)) : d.nodes[q].pages[i] = t[i]
    BY Zenon DEF HeldPages
  <2>2. n # Root => /\ d.nodes[n].computed <=> (~b \/ m = FullPages(s))
                    /\ d.nodes[n].computed \/ d.nodes[n].start = m
    BY <1>5, Zenon DEF HeldPages
  <2>3. \A i \in 1..PrivateFrom(a) :
            \E q \in Holder(d.nodes, PagePrefix(a.tokens, i)) : d.nodes[q].pages[i] = a.table[i]
    BY <1>6, <1>7, <2>1
  <2> QED BY <1>6, <2>2, <2>3, Zenon DEF InTree
<1>11. OwnRows(d, a)
  BY <1>6, Zenon DEF OwnRows
<1>12. PrivatePages(a) = {pages[i] : i \in (k + 1)..TablePages(s)}
  <2>1. PrivatePages(a) = {t[i] : i \in (k + 1)..N}
    <3>1. Len(a.table) = N
      BY <1>4, <1>6
    <3> QED BY <1>6, <1>7, <3>1 DEF PrivatePages
  <2> QED BY <1>1, <1>8, <2>1, Zenon
<1> QED BY <1>5, <1>6, <1>9, <1>10, <1>11, <1>12, Zenon DEF AllocOK, LockOf, OwnOf, PrefillOf, IsGrant

\* The outcome x of allocate, from cache c on.
GrantOK(c, x, r, RL, SL, PR, PF) ==
    /\ x.alloc \in Allocation \cup {None}
    /\ CacheOK(x.cache, With(RL, r, LockOf(x.alloc)), SL, With(PR, r, OwnOf(x.alloc)),
               With(PF, r, PrefillOf(x.alloc)))
    /\ x.alloc # None => AllocOK(x.cache, x.alloc)
    /\ Steady(c, x.cache, r, RL, PR)

\* The pages are taken and the table is made.
GrantStart(c, r, RL, SL, PR, PF, s, m, pages, t, e) ==
    /\ StageOK(c, r, RL, SL, PR, PF, s, m) /\ Len(s) > 0
    /\ IsTaken(c, pages, m + 1, TablePages(s)) /\ IsTable(c, s, m, pages, t)
    /\ e = PoolAllocate(c, Range(pages))

\* Taking the pages makes them the request's own.
LEMMA GrantTaken ==
  ASSUME NEW c, NEW r \in Requests, NEW RL, NEW SL, NEW PR, NEW PF, NEW s, NEW m, NEW pages, NEW t,
         NEW e, GrantStart(c, r, RL, SL, PR, PF, s, m, pages, t, e)
  PROVE  /\ CacheOK(e, With(RL, r, {PagePrefix(s, m)}), SL, With(PR, r, Range(pages)),
                    With(PF, r, {}))
         /\ e.nodes = c.nodes /\ Anchored(e, PagePrefix(s, m)) /\ Steady(c, e, r, RL, PR)
<1>1. PICK R, O, Q, G, T : /\ R = With(RL, r, {PagePrefix(s, m)}) /\ O = With(PR, r, {})
                           /\ Q = With(PR, r, T) /\ G = With(PF, r, {}) /\ T = Range(pages)
  BY Zenon
<1>2. CacheOK(c, R, SL, O, G) /\ T \subseteq c.free /\ e = PoolAllocate(c, T)
  BY <1>1, Zenon DEF GrantStart, StageOK, IsTaken
<1>3. Gains(O, Q, r, T)
  <2>1. T = {} \cup T
    BY Zenon
  <2> QED BY <1>1, <2>1, WithChanges, Zenon
<1>4. CacheOK(e, R, SL, Q, G) /\ (\A h, P : Keeps(c, e, h, P)) /\ e.nodes = c.nodes
  BY ONLY <1>2, <1>3, TakeOK
<1>5. Anchored(e, PagePrefix(s, m))
  BY <1>4, Zenon DEF GrantStart, StageOK, Anchored
<1> QED BY <1>1, <1>4, <1>5, KeepsSteady, Zenon

\* The fields of an outcome.
LEMMA OutcomeFields ==
  ASSUME NEW c, NEW a, NEW x, x = [cache |-> c, alloc |-> a]
  PROVE  x.cache = c /\ x.alloc = a
OBVIOUS

\* Nothing joins the tree: all full pages matched, or another request is
\* computing the same edge.
LEMMA GrantPrivate ==
  \A c, r, RL, SL, PR, PF, s, m, pages, t, e, b, a, x :
      /\ r \in Requests /\ s \in Seq(Tokens)
      /\ GrantStart(c, r, RL, SL, PR, PF, s, m, pages, t, e)
      /\ b \in BOOLEAN
      /\ b <=> m = FullPages(s)
      /\ a = Fresh(s, t, m, m, b) /\ x = [cache |-> e, alloc |-> a]
    =>   GrantOK(c, x, r, RL, SL, PR, PF)
\* Naming more prefills than there are does no harm.
<1>PrefillsMore.
  ASSUME NEW c, NEW RL, NEW SL, NEW PR, NEW PF, CacheOK(c, RL, SL, PR, PF), NEW PG,
         \A o \in Requests : PF[o] \subseteq PG[o]
  PROVE  CacheOK(c, RL, SL, PR, PG)
  <2> USE <1>PrefillsMore
  <2>1. Prefilling(c.nodes, RL, PG)
    <3>1. Prefilling(c.nodes, RL, PF)
      BY Zenon DEF CacheOK
    <3> QED BY <3>1, Zenon DEF Prefilling
  <2> QED BY <2>1, Zenon DEF CacheOK
<1> SUFFICES
  ASSUME NEW c, NEW r \in Requests, NEW RL, NEW SL, NEW PR, NEW PF, NEW s \in Seq(Tokens), NEW m,
         NEW pages, NEW t, NEW e, GrantStart(c, r, RL, SL, PR, PF, s, m, pages, t, e),
         NEW b \in BOOLEAN, b <=> m = FullPages(s),
         NEW a, a = Fresh(s, t, m, m, b),
         NEW x, x = [cache |-> e, alloc |-> a]
  PROVE  GrantOK(c, x, r, RL, SL, PR, PF)
  OBVIOUS
<1>1. m \in 0..FullPages(s) /\ FullPages(s) \in Nat
  BY LevelBounds, Zenon DEF GrantStart, StageOK
<1>2. m = IF b THEN FullPages(s) ELSE m
  OBVIOUS
<1>3. b \/ m < FullPages(s)
  BY <1>1
<1>4. /\ CacheOK(e, With(RL, r, {PagePrefix(s, m)}), SL, With(PR, r, Range(pages)),
                 With(PF, r, {}))
      /\ e.nodes = c.nodes /\ Anchored(e, PagePrefix(s, m)) /\ Steady(c, e, r, RL, PR)
  BY GrantTaken, Zenon
<1>5. IsTaken(c, pages, m + 1, TablePages(s)) /\ IsTable(c, s, m, pages, t) /\ Len(s) > 0
  BY Zenon DEF GrantStart
<1>6. \A i \in 1..m : \E q \in Holder(e.nodes, PagePrefix(s, i)) : e.nodes[q].pages[i] = t[i]
  BY <1>4, <1>5, Zenon DEF IsTable
<1>7. PagePrefix(s, m) # Root =>
          /\ e.nodes[PagePrefix(s, m)].computed <=> (~b \/ m = FullPages(s))
          /\ e.nodes[PagePrefix(s, m)].computed \/ e.nodes[PagePrefix(s, m)].start = m
  BY <1>4, Zenon DEF Anchored
<1>8. /\ a \in Allocation /\ a # None /\ AllocOK(e, a)
      /\ LockOf(a) = {PagePrefix(s, m)}
      /\ OwnOf(a) = {pages[i] : i \in (m + 1)..TablePages(s)}
  <2>1. HeldPages(e, s, m, t, b, m)
    BY <1>6, <1>7, Zenon DEF HeldPages
  <2>2. FreshPages(c, s, m, pages, t, m, b)
    BY <1>1, <1>2, <1>3, <1>5, Zenon DEF FreshPages
  <2>3. IsGrant(e, a, s, m, m, b, pages)
    BY <2>1, <2>2, NewAllocOK
  <2> QED BY <2>3, Zenon DEF IsGrant
<1>9. OwnOf(a) = Range(pages)
  BY <1>5, <1>8, Zenon DEF IsTaken
<1>10. PICK R, Q, G, H : /\ R = With(RL, r, LockOf(a)) /\ Q = With(PR, r, OwnOf(a))
                         /\ G = With(PF, r, {}) /\ H = With(PF, r, PrefillOf(a))
  BY Zenon
<1>11. \A o \in Requests : G[o] \subseteq H[o]
  <2>1. \A o \in Requests : o # r => G[o] = H[o]
    BY <1>10, Zenon DEF With
  <2>2. G[r] = {}
    BY <1>10, Zenon DEF With
  <2> QED BY <2>1, <2>2, Zenon
<1>12. CacheOK(e, R, SL, Q, G)
  BY <1>4, <1>8, <1>9, <1>10, Zenon
<1>13. CacheOK(e, R, SL, Q, H)
  BY <1>11, <1>12, <1>PrefillsMore, Zenon
<1>14. x.cache = e /\ x.alloc = a
  BY OutcomeFields, Zenon
<1> QED BY <1>4, <1>8, <1>10, <1>13, <1>14, Zenon DEF GrantOK

\* The pages of a new node among those taken.
IsSegment(s, m, pages, t, n) ==
    /\ n \in [(m + 1)..FullPages(s) -> Pages] /\ IsInjective(n)
    /\ Range(n) \subseteq Range(pages)
    /\ Range(pages) \ Range(n) = {pages[i] : i \in (FullPages(s) + 1)..TablePages(s)}
    /\ \A i \in (m + 1)..FullPages(s) : n[i] = t[i]

\* The new full pages join the tree uncomputed.
LEMMA GrantInsert ==
  \A c, r, RL, SL, PR, PF, s, m, pages, t, e, a, n, node, d, x :
      /\ LibraryFacts /\ r \in Requests /\ s \in Seq(Tokens)
      /\ GrantStart(c, r, RL, SL, PR, PF, s, m, pages, t, e)
      /\ m # FullPages(s)
      /\ Holder(e.nodes, PagePrefix(s, m + 1)) = {}
      /\ a = Fresh(s, t, m, FullPages(s), TRUE)
      /\ n = [i \in (m + 1)..FullPages(s) |-> t[i]]
      /\ node = [start |-> m, pages |-> n, ref |-> 1, computed |-> FALSE]
      /\ d = InsertNode(e, PagePrefix(s, FullPages(s)), node)
      /\ x = [cache |-> d, alloc |-> a]
    =>   GrantOK(c, x, r, RL, SL, PR, PF)
\* The full pages beyond the match go to the new node, the rest stay private.
<1>NewNodePages.
  ASSUME NEW c, NEW s \in Seq(Tokens), NEW m \in 0..FullPages(s), NEW pages, NEW t,
         IsTaken(c, pages, m + 1, TablePages(s)), IsTable(c, s, m, pages, t)
  PROVE  IsSegment(s, m, pages, t, [i \in (m + 1)..FullPages(s) |-> t[i]])
  <2> USE <1>NewNodePages
  <2>0. PICK n : n = [i \in (m + 1)..FullPages(s) |-> t[i]]
    BY Zenon
  <2>1. PICK F \in Nat, N \in Nat : /\ F = FullPages(s) /\ N = TablePages(s) /\ F <= N
                                    /\ m \in Nat /\ m <= F
    BY TableSize
  <2>2. /\ pages \in [(m + 1)..N -> Pages] /\ \A i, j \in (m + 1)..N : pages[i] = pages[j] => i = j
        /\ Range(pages) = {pages[i] : i \in (m + 1)..N}
    <3>1. /\ pages \in [(m + 1)..N -> Pages] /\ IsInjective(pages)
          /\ Range(pages) = {pages[i] : i \in (m + 1)..N}
      BY <2>1, Zenon DEF IsTaken
    <3>2. DOMAIN pages = (m + 1)..N
      BY <3>1
    <3> QED BY <3>1, <3>2, Zenon DEF IsInjective
  <2>3. \A i \in (m + 1)..N : t[i] = pages[i]
    BY <2>1, Zenon DEF IsTable
  <2>4. (\A i \in (m + 1)..F : i \in (m + 1)..N) /\ (\A i \in (F + 1)..N : i \in (m + 1)..N)
    BY <2>1
  <2>5. DOMAIN n = (m + 1)..F /\ \A i \in (m + 1)..F : n[i] = pages[i] /\ n[i] = t[i]
    BY <2>0, <2>1, <2>3, <2>4, Zenon
  <2>6. n \in [(m + 1)..F -> Pages]
    <3>1. n = [i \in (m + 1)..F |-> t[i]]
      BY <2>0, <2>1
    <3>2. \A i \in (m + 1)..F : t[i] \in Pages
      BY <2>2, <2>3, <2>4, Zenon
    <3> QED BY <3>1, <3>2, Zenon
  <2>7. IsInjective(n)
    <3> SUFFICES ASSUME NEW i \in (m + 1)..F, NEW j \in (m + 1)..F, n[i] = n[j] PROVE i = j
      BY <2>5, Zenon DEF IsInjective
    <3>1. pages[i] = pages[j] /\ i \in (m + 1)..N /\ j \in (m + 1)..N
      BY <2>4, <2>5, Zenon
    <3> QED BY <2>2, <3>1, Zenon
  <2>8. Range(n) = {pages[i] : i \in (m + 1)..F}
    <3>1. Range(n) = {n[i] : i \in (m + 1)..F}
      BY <2>5, Zenon DEF Range
    <3> QED BY <2>5, <3>1, Zenon
  <2>9. Range(n) \subseteq Range(pages)
    BY <2>2, <2>4, <2>8, Zenon
  <2>10. ASSUME NEW g PROVE g \in Range(pages) \ Range(n) <=> g \in {pages[i] : i \in (F + 1)..N}
    <3>1. ASSUME g \in Range(pages) \ Range(n) PROVE g \in {pages[i] : i \in (F + 1)..N}
      <4>1. PICK i \in (m + 1)..N : g = pages[i]
        BY <2>2, <3>1, Zenon
      <4>2. i \notin (m + 1)..F
        BY <2>8, <3>1, <4>1, Zenon
      <4>3. i \in (F + 1)..N
        BY <2>1, <4>2
      <4> QED BY <4>1, <4>3, Zenon
    <3>2. ASSUME g \in {pages[i] : i \in (F + 1)..N} PROVE g \in Range(pages) \ Range(n)
      <4>1. PICK i \in (F + 1)..N : g = pages[i]
        BY <3>2, Zenon
      <4>2. ASSUME NEW j \in (m + 1)..F, g = pages[j] PROVE FALSE
        <5>1. i = j
          BY <2>2, <2>4, <4>1, <4>2, Zenon
        <5> QED BY <2>1, <5>1
      <4>3. g \in Range(pages)
        BY <2>2, <2>4, <4>1, Zenon
      <4> QED BY <2>8, <4>2, <4>3, Zenon
    <3> QED BY <3>1, <3>2, Zenon
  <2>11. Range(pages) \ Range(n) = {pages[i] : i \in (F + 1)..N}
    BY <2>10, Zenon
  <2>12. IsSegment(s, m, pages, t, n)
    BY <2>1, <2>5, <2>6, <2>7, <2>9, <2>11, Zenon DEF IsSegment
  <2> QED BY <2>0, <2>12, Zenon
\* The tree after the insertion holds the prompt's full pages.
<1>GrantHeld.
  ASSUME NEW c, NEW e, Tree(e.nodes), e.nodes = c.nodes, NEW s \in Seq(Tokens),
         NEW m \in 0..FullPages(s), m < FullPages(s), NEW pages, NEW t, IsTable(c, s, m, pages, t),
         NEW n, \A i \in (m + 1)..FullPages(s) : n[i] = t[i],
         NEW node, node = [start |-> m, pages |-> n, ref |-> 1, computed |-> FALSE],
         NEW p, p = PagePrefix(s, FullPages(s)), Fits(e.nodes, p, node),
         NEW d, IsInsert(e.nodes, p, node, d.nodes)
  PROVE  HeldPages(d, s, m, t, TRUE, FullPages(s))
  <2> USE <1>GrantHeld
  <2>1. PICK F \in Nat : F = FullPages(s) /\ m \in Nat /\ m < F /\ F # 0
    BY LevelBounds
  <2>2. node.start = m /\ node.pages = n /\ ~node.computed
    OBVIOUS
  <2>3. d.nodes[p] = node
    BY Zenon DEF IsInsert
  <2>4. p \in Paths /\ FullPages(p) = F
    BY <2>1, PrefixFacts
  <2>5. ASSUME NEW i \in 1..F
        PROVE  \E q \in Holder(d.nodes, PagePrefix(s, i)) : d.nodes[q].pages[i] = t[i]
    <3>1. CASE i \in 1..m
      <4>1. PICK q \in Holder(e.nodes, PagePrefix(s, i)) : e.nodes[q].pages[i] = t[i]
        BY <3>1, Zenon DEF IsTable
      <4>2. q \in Holder(d.nodes, PagePrefix(s, i)) /\ d.nodes[q] = e.nodes[q]
        BY InsertHolder
      <4> QED BY <4>1, <4>2, Zenon
    <3>2. CASE i \notin 1..m
      <4>1. i \in (m + 1)..F /\ i \in 0..F /\ m < i /\ i <= F
        BY <2>1, <3>2
      <4>2. PagePrefix(s, i) \in Paths /\ FullPages(PagePrefix(s, i)) = i
        BY <2>1, <4>1, PrefixFacts
      <4>3. PagePrefix(p, i) = PagePrefix(s, i)
        BY <2>1, <4>1, PrefixFacts
      <4>4. OnPath(PagePrefix(s, i), p)
        BY <2>4, <4>1, <4>2, <4>3 DEF OnPath
      <4>5. p \in Holder(d.nodes, PagePrefix(s, i))
        BY <2>2, <4>1, <4>2, <4>4, InsertHolder
      <4>6. d.nodes[p].pages[i] = t[i]
        BY <2>1, <2>2, <2>3, <4>1, Zenon
      <4> QED BY <4>5, <4>6, Zenon
    <3> QED BY <3>1, <3>2
  <2>6. m # F
    BY <2>1
  <2>7. ~d.nodes[p].computed /\ d.nodes[p].start = m
    BY <2>2, <2>3, ZenonT(30)
  <2> QED BY <2>1, <2>5, <2>6, <2>7, Zenon DEF HeldPages
<1> TAKE c, r, RL, SL, PR, PF, s, m, pages, t, e, a, n, node, d, x
<1> HAVE /\ LibraryFacts /\ r \in Requests /\ s \in Seq(Tokens)
         /\ GrantStart(c, r, RL, SL, PR, PF, s, m, pages, t, e)
         /\ m # FullPages(s)
         /\ Holder(e.nodes, PagePrefix(s, m + 1)) = {}
         /\ a = Fresh(s, t, m, FullPages(s), TRUE)
         /\ n = [i \in (m + 1)..FullPages(s) |-> t[i]]
         /\ node = [start |-> m, pages |-> n, ref |-> 1, computed |-> FALSE]
         /\ d = InsertNode(e, PagePrefix(s, FullPages(s)), node)
         /\ x = [cache |-> d, alloc |-> a]
<1>1. PICK F \in Nat : F = FullPages(s) /\ m \in 0..F /\ m < F /\ F \in 0..FullPages(s)
  <2>1. FullPages(s) \in Nat /\ m \in 0..FullPages(s)
    BY LevelBounds, Zenon DEF GrantStart, StageOK
  <2> QED BY <2>1
<1>2. PICK p, g : p = PagePrefix(s, F) /\ g = PagePrefix(s, m)
  BY Zenon
<1>3. PICK b : b = TRUE
  BY Zenon
<1>4. /\ IsTaken(c, pages, m + 1, TablePages(s)) /\ IsTable(c, s, m, pages, t) /\ Len(s) > 0
  BY Zenon DEF GrantStart
<1>5. PICK T : T = Range(pages)
  OBVIOUS
<1>6. PICK R, Q, G : R = With(RL, r, {g}) /\ Q = With(PR, r, T) /\ G = With(PF, r, {})
  BY Zenon
<1>7. CacheOK(e, R, SL, Q, G) /\ e.nodes = c.nodes /\ Anchored(e, g) /\ Steady(c, e, r, RL, PR)
  <2>1. /\ CacheOK(e, With(RL, r, {PagePrefix(s, m)}), SL, With(PR, r, Range(pages)), With(PF, r, {}))
        /\ e.nodes = c.nodes /\ Anchored(e, PagePrefix(s, m)) /\ Steady(c, e, r, RL, PR)
    BY GrantTaken, Zenon
  <2> QED BY <1>2, <1>5, <1>6, <2>1, Zenon
<1>8. Tree(e.nodes) /\ Locked(e.nodes, R, SL) /\ IsCache(e)
  BY <1>7, Zenon DEF CacheOK
<1>9. /\ n \in [(m + 1)..F -> Pages] /\ IsInjective(n) /\ Range(n) \subseteq T
      /\ T \ Range(n) = {pages[i] : i \in (F + 1)..TablePages(s)}
      /\ \A i \in (m + 1)..F : n[i] = t[i]
  <2>1. m \in 0..FullPages(s)
    BY <1>1
  <2>2. /\ n \in [(m + 1)..FullPages(s) -> Pages] /\ IsInjective(n)
        /\ Range(n) \subseteq Range(pages)
        /\ Range(pages) \ Range(n) = {pages[i] : i \in (FullPages(s) + 1)..TablePages(s)}
        /\ \A i \in (m + 1)..FullPages(s) : n[i] = t[i]
    <3>1. IsSegment(s, m, pages, t, [i \in (m + 1)..FullPages(s) |-> t[i]])
      BY <1>4, <2>1, <1>NewNodePages, ZenonT(30)
    <3>2. IsSegment(s, m, pages, t, n)
      BY <3>1, Zenon
    <3> QED BY <3>2, Zenon DEF IsSegment
  <2> QED BY <1>1, <1>5, <2>2, Zenon
<1>10. node.start = m /\ node.pages = n /\ node.ref = 1 /\ node.computed = FALSE
  OBVIOUS
<1>11. MayInsert(e, p, node)
  <2>1. Anchored(e, PagePrefix(s, m)) /\ 1 \in Nat /\ FALSE \in BOOLEAN
    BY <1>2, <1>7, Zenon
  <2> QED BY <1>1, <1>2, <1>9, <2>1, StageFits, Zenon
<1>12. IsInsertion(e, p, node, d)
  <2>1. d = InsertNode(e, p, node)
    BY <1>1, <1>2
  <2>2. /\ IsCache(d) /\ d.free = e.free /\ d.told = e.told /\ d.lost = e.lost /\ d.rows = e.rows
        /\ IsInsert(e.nodes, p, node, d.nodes)
        /\ d.older = e.older \cup {<<q, p>> : q \in DOMAIN e.nodes}
    BY ONLY <1>8, <2>1, InsertNodeShape
  <2> QED BY <1>10, <2>2, Zenon DEF IsInsertion
<1>13. PagePrefix(p, node.start) = g
  BY <1>1, <1>2, <1>10, StagePath
<1>14. PICK S, O, H : /\ S = With(RL, r, {p}) /\ O = With(PR, r, T \ Range(n))
                      /\ H = With(PF, r, {<<p, m>>})
  BY Zenon
<1>15. /\ MovesLock(Requests, R, S, r, PagePrefix(p, node.start), p)
       /\ Drops(Q, O, r, Range(node.pages))
  BY <1>6, <1>9, <1>10, <1>13, <1>14, WithChanges, Zenon
<1>16. MorePrefills(G, H, r, p, node)
  <2>1. H[r] = {<<p, m>>} /\ G[r] = {} /\ \A o \in Requests : o # r => G[o] = PF[o] /\ H[o] = PF[o]
    BY ONLY <1>6, <1>14, WithFacts, r \in Requests
  <2> QED BY <1>10, <2>1, Zenon DEF MorePrefills
<1>17. /\ CacheOK(d, S, SL, O, H)
       /\ \A h, P : h = Root \/ h \in DOMAIN e.nodes => Keeps(e, d, h, P)
  <2>1. node.ref = 1
    BY <1>10
  <2> QED BY ONLY LibraryFacts, <1>7, <1>11, <1>12, <1>15, <1>16, <2>1, InsertMoveOK, Zenon
<1>18. Steady(c, d, r, RL, PR)
  <2>1. Steady(e, d, r, RL, PR)
    <3> SUFFICES ASSUME NEW o \in Requests, o # r, NEW h \in RL[o] PROVE Keeps(e, d, h, PR[o])
      BY Zenon DEF Steady
    <3>1. R[o] = RL[o]
      BY <1>6, Zenon DEF With
    <3>2. h = Root \/ h \in DOMAIN e.nodes
      <4>1. R[o] \subseteq (DOMAIN e.nodes) \cup {Root}
        BY <1>8, Zenon DEF Locked
      <4> QED BY <3>1, <4>1, Zenon
    <3> QED BY <1>17, <3>2, Zenon
  <2> QED BY <1>7, <2>1, SteadyTrans, Zenon
<1>19. IsGrant(d, a, s, m, F, b, pages)
  <2>1. Fits(e.nodes, p, node) /\ IsInsert(e.nodes, p, node, d.nodes)
    BY <1>11, <1>12, Zenon DEF MayInsert, IsInsertion
  <2>2. HeldPages(d, s, m, t, b, F)
    BY <1>1, <1>2, <1>3, <1>4, <1>7, <1>8, <1>9, <2>1, <1>GrantHeld, Zenon
  <2>3. FreshPages(c, s, m, pages, t, F, b)
    BY <1>1, <1>3, <1>4, Zenon DEF FreshPages
  <2>4. a = Fresh(s, t, m, F, b)
    BY <1>1, <1>3
  <2> QED BY ONLY <2>2, <2>3, <2>4, NewAllocOK, s \in Seq(Tokens)
<1>20. /\ a \in Allocation /\ AllocOK(d, a) /\ LockOf(a) = {p} /\ OwnOf(a) = T \ Range(n)
       /\ PrefillOf(a) = {<<p, m>>}
  BY <1>2, <1>3, <1>9, <1>19, Zenon DEF IsGrant
<1>21. x.cache = d /\ x.alloc = a
  BY OutcomeFields, Zenon
<1> QED BY <1>14, <1>17, <1>18, <1>20, <1>21, Zenon DEF GrantOK

\* An outcome of a later stage is an outcome of the whole call.
LEMMA GrantFrom ==
  ASSUME NEW c, NEW d, NEW x, NEW r, NEW RL, NEW SL, NEW PR, NEW PF,
         Steady(c, d, r, RL, PR), GrantOK(d, x, r, RL, SL, PR, PF)
  PROVE  GrantOK(c, x, r, RL, SL, PR, PF)
<1>1. Steady(c, x.cache, r, RL, PR)
  BY SteadyTrans, Zenon DEF GrantOK
<1> QED BY <1>1, Zenon DEF GrantOK

FreshForms(new, s, t, m) ==
    /\ new = Fresh(s, t, m, m, TRUE) /\ new.table = t
    /\ [new EXCEPT !.inserted = FALSE] = Fresh(s, t, m, m, FALSE)
    /\ [new EXCEPT !.node = PagePrefix(s, FullPages(s))] = Fresh(s, t, m, FullPages(s), TRUE)

\* A failed allocation leaves no lock behind.
LEMMA GrantRefused ==
  \A c, d, r, RL, SL, PR, PF, s, m, x :
      /\ LibraryFacts /\ r \in Requests /\ StageOK(d, r, RL, SL, PR, PF, s, m)
      /\ Steady(c, d, r, RL, PR) /\ x = Refused(d, s, m)
    =>   GrantOK(c, x, r, RL, SL, PR, PF)
\* A failed allocation unlocks what the match locked.
<1>RefusedOK.
  ASSUME LibraryFacts, NEW c, NEW r \in Requests, NEW RL, NEW SL, NEW PR, NEW PF, NEW s, NEW m,
         StageOK(c, r, RL, SL, PR, PF, s, m), NEW d, d = UnlockPath(c, PagePrefix(s, m))
  PROVE  /\ CacheOK(d, With(RL, r, {}), SL, With(PR, r, {}), With(PF, r, {}))
         /\ Steady(c, d, r, RL, PR)
  <2> USE <1>RefusedOK
  <2>1. PICK g : g = PagePrefix(s, m)
    OBVIOUS
  <2>2. PICK R, M, O, G : /\ R = With(RL, r, {g}) /\ M = With(RL, r, {}) /\ O = With(PR, r, {})
                          /\ G = With(PF, r, {})
    BY Zenon
  <2>3. CacheOK(c, R, SL, O, G) /\ (g = Root \/ (g \in DOMAIN c.nodes /\ c.nodes[g].computed))
    BY <2>1, <2>2, Zenon DEF StageOK, Anchored
  <2>4. AddsLock(Requests, M, R, r, g)
    BY <2>2, WithChanges, Zenon
  <2>5. d = UnlockPath(c, g)
    BY <2>1
  <2>6. CacheOK(d, M, SL, O, G) /\ \A h, P : Keeps(c, d, h, P)
    BY ONLY LibraryFacts, <2>3, <2>4, <2>5, UnlockRequest
  <2>7. Steady(c, d, r, RL, PR)
    BY <2>6, KeepsSteady, Zenon
  <2> QED BY <2>2, <2>6, <2>7
<1> SUFFICES
  ASSUME LibraryFacts,
         NEW c, NEW d, NEW r \in Requests, NEW RL, NEW SL, NEW PR, NEW PF, NEW s, NEW m,
         StageOK(d, r, RL, SL, PR, PF, s, m), Steady(c, d, r, RL, PR),
         NEW x, x = Refused(d, s, m)
  PROVE  GrantOK(c, x, r, RL, SL, PR, PF)
  OBVIOUS
<1>1. PICK e : e = UnlockPath(d, PagePrefix(s, m))
  OBVIOUS
<1>2. /\ CacheOK(e, With(RL, r, {}), SL, With(PR, r, {}), With(PF, r, {}))
      /\ Steady(d, e, r, RL, PR)
  BY <1>1, <1>RefusedOK
<1>3. x = [cache |-> e, alloc |-> None]
  BY <1>1, Zenon DEF Refused
<1>4. x.cache = e /\ x.alloc = None
  BY <1>3, OutcomeFields, ZenonT(30)
<1>5. LockOf(x.alloc) = {} /\ OwnOf(x.alloc) = {} /\ PrefillOf(x.alloc) = {}
  BY <1>4, Zenon DEF LockOf, OwnOf, PrefillOf
<1>6. Steady(c, e, r, RL, PR)
  BY <1>2, SteadyTrans, Zenon
<1> QED BY <1>2, <1>4, <1>5, <1>6, Zenon DEF GrantOK

\* The pages are taken, and the full ones join the tree if they may.
LEMMA AllocatedOK ==
  \A c, r, RL, SL, PR, PF, s, m, pages, e, x :
      /\ LibraryFacts /\ r \in Requests /\ s \in Seq(Tokens) /\ Len(s) > 0
      /\ StageOK(c, r, RL, SL, PR, PF, s, m) /\ TablePages(s) - m <= Cardinality(c.free)
      /\ pages = Take(c, m + 1, TablePages(s)) /\ e = PoolAllocate(c, Range(pages))
      /\ x = Allocated(e, s, m, NewAllocation(c.nodes, s, m, pages))
    =>   GrantOK(c, x, r, RL, SL, PR, PF)
\* The table has the tree's page for each matched prefix, then the pages taken.
<1>TableFacts.
  \A c, s, m, pages, t :
      /\ Tree(c.nodes) /\ s \in Seq(Tokens) /\ m \in 0..FullPages(s)
      /\ Anchored(c, PagePrefix(s, m))
      /\ pages \in [(m + 1)..TablePages(s) -> Pages]
      /\ t = Table(c.nodes, s, m, pages)
    =>   IsTable(c, s, m, pages, t)
\* The page of a prefix that the tree holds.
  <2>PageAtFacts.
    ASSUME NEW c, Tree(c.nodes), NEW s \in Seq(Tokens), NEW m \in 0..FullPages(s),
           Anchored(c, PagePrefix(s, m)), NEW i \in 1..m
    PROVE  /\ PageAt(c.nodes, PagePrefix(s, i)) \in Pages
           /\ \E q \in Holder(c.nodes, PagePrefix(s, i)) :
                  c.nodes[q].pages[i] = PageAt(c.nodes, PagePrefix(s, i))
    <3> USE <2>PageAtFacts
    <3> DEFINE x == PagePrefix(s, m)
               y == PagePrefix(s, i)
    <3>1. FullPages(s) \in Nat /\ m \in Nat /\ i \in Nat /\ i \in 0..m /\ i \in 0..FullPages(s) /\ m # 0 /\ i # 0
      BY LevelBounds
    <3>2. x \in Paths /\ y \in Paths /\ FullPages(y) = i /\ FullPages(x) = m /\ PagePrefix(x, i) = y
      BY <3>1, PrefixFacts
    <3>3. x # Root /\ y # Root
      BY <3>1, <3>2, RootPath
    <3>4. x \in DOMAIN c.nodes
      BY <3>3, Zenon DEF Anchored
    <3>5. OnPath(y, x)
      BY <3>1, <3>2 DEF OnPath
    <3> HIDE DEF x, y
    <3>6. PICK a : a = CHOOSE q \in Holder(c.nodes, y) : TRUE
      OBVIOUS
    <3>7. a \in Holder(c.nodes, y)
      BY <3>2, <3>3, <3>4, <3>5, <3>6, HolderCover, Zenon
    <3>8. c.nodes[a].pages[FullPages(y)] \in Pages
      BY <3>7, HolderPage, Zenon
    <3>9. PageAt(c.nodes, y) = c.nodes[a].pages[FullPages(y)]
      BY <3>6, Zenon DEF PageAt
    <3> QED BY <3>2, <3>7, <3>8, <3>9, Zenon DEF y
  <2> SUFFICES
    ASSUME NEW c, Tree(c.nodes), NEW s \in Seq(Tokens), NEW m \in 0..FullPages(s),
           Anchored(c, PagePrefix(s, m)), NEW pages \in [(m + 1)..TablePages(s) -> Pages],
           NEW t, t = Table(c.nodes, s, m, pages)
    PROVE  IsTable(c, s, m, pages, t)
    OBVIOUS
  <2>1. PICK N \in Nat : N = TablePages(s) /\ m \in Nat /\ m <= N
    BY TableSize
  <2>2. t = [i \in 1..N |-> IF i <= m THEN PageAt(c.nodes, PagePrefix(s, i)) ELSE pages[i]]
    BY <2>1, Zenon DEF Table
  <2>3. ASSUME NEW i \in 1..N PROVE t[i] \in Pages
    <3>1. CASE i <= m
      <4>1. i \in 1..m
        BY <2>1, <3>1
      <4>2. t[i] = PageAt(c.nodes, PagePrefix(s, i))
        BY <2>2, <3>1, Zenon
      <4>3. PageAt(c.nodes, PagePrefix(s, i)) \in Pages
        BY <4>1, <2>PageAtFacts
      <4> QED BY <4>2, <4>3
    <3>2. CASE ~(i <= m)
      <4>1. i \in (m + 1)..N
        BY <2>1, <3>2
      <4>2. pages[i] \in Pages
        BY <2>1, <4>1, Zenon
      <4> QED BY <2>2, <3>2, <4>2, Zenon
    <3> QED BY <3>1, <3>2
  <2>4. t \in [1..N -> Pages]
    <3>1. t = [i \in 1..N |-> t[i]]
      BY <2>2, Zenon
    <3> QED BY <2>3, <3>1, Zenon
  <2>5. t \in Seq(Pages) /\ Len(t) = N
    BY <2>1, <2>4
  <2>6. ASSUME NEW i \in 1..m
        PROVE  \E q \in Holder(c.nodes, PagePrefix(s, i)) : c.nodes[q].pages[i] = t[i]
    <3>1. i \in 1..N /\ i <= m
      BY <2>1
    <3>2. t[i] = PageAt(c.nodes, PagePrefix(s, i))
      BY <2>2, <3>1, Zenon
    <3>3. \E q \in Holder(c.nodes, PagePrefix(s, i)) :
              c.nodes[q].pages[i] = PageAt(c.nodes, PagePrefix(s, i))
      BY <2>PageAtFacts
    <3> QED BY <3>2, <3>3, Zenon
  <2>7. ASSUME NEW i \in (m + 1)..N PROVE t[i] = pages[i]
    <3>1. i \in 1..N /\ ~(i <= m)
      BY <2>1
    <3> QED BY <2>2, <3>1, Zenon
  <2> QED BY <2>1, <2>5, <2>6, <2>7, Zenon DEF IsTable
\* The three forms of the allocation that allocate returns.
<1>FreshShapes.
  ASSUME NEW nodes, NEW s, NEW m, NEW pages, NEW new, new = NewAllocation(nodes, s, m, pages),
         NEW t, t = Table(nodes, s, m, pages)
  PROVE  FreshForms(new, s, t, m)
  <2> USE <1>FreshShapes
  <2>1. new = [tokens |-> s, table |-> t, matched |-> m, node |-> PagePrefix(s, m),
               inserted |-> TRUE, out |-> <<>>]
    BY Zenon DEF NewAllocation, Table
  <2>2. PICK g, h, b, e : /\ g = PagePrefix(s, m) /\ h = PagePrefix(s, FullPages(s)) /\ b = FALSE
                          /\ e = TRUE
    BY Zenon
  <2>3. PICK o : o = <<>>
    OBVIOUS
  <2>4. new = [tokens |-> s, table |-> t, matched |-> m, node |-> g, inserted |-> e, out |-> o]
    BY <2>1, <2>2, <2>3, Zenon
  <2>5. [new EXCEPT !.inserted = b]
          = [tokens |-> s, table |-> t, matched |-> m, node |-> g, inserted |-> b, out |-> o]
    BY ONLY <2>4
  <2>6. [new EXCEPT !.node = h]
          = [tokens |-> s, table |-> t, matched |-> m, node |-> h, inserted |-> e, out |-> o]
    BY ONLY <2>4
  <2>7. new.table = t
    BY ONLY <2>4
  <2> QED BY <2>1, <2>2, <2>3, <2>5, <2>6, <2>7, Zenon DEF Fresh, FreshForms
<1> SUFFICES
  ASSUME LibraryFacts,
         NEW c, NEW r \in Requests, NEW RL, NEW SL, NEW PR, NEW PF, NEW s \in Seq(Tokens),
         Len(s) > 0, NEW m, StageOK(c, r, RL, SL, PR, PF, s, m),
         TablePages(s) - m <= Cardinality(c.free), NEW pages, pages = Take(c, m + 1, TablePages(s)),
         NEW e, e = PoolAllocate(c, Range(pages)),
         NEW x, x = Allocated(e, s, m, NewAllocation(c.nodes, s, m, pages))
  PROVE  GrantOK(c, x, r, RL, SL, PR, PF)
  OBVIOUS
<1>1. m \in 0..FullPages(s) /\ Anchored(c, PagePrefix(s, m)) /\ m \in Nat /\ TablePages(s) \in Nat
  BY TableSize DEF StageOK
<1>2. Tree(c.nodes) /\ Owned(c, With(PR, r, {}))
  BY Zenon DEF StageOK, CacheOK
<1>3. IsTaken(c, pages, m + 1, TablePages(s))
  <2>1. m + 1 \in Nat /\ TablePages(s) + 1 - (m + 1) <= Cardinality(c.free)
    <3>1. Cardinality(c.free) \in Nat
      BY <1>2, FreeFinite, CardType, Zenon
    <3> QED BY <1>1, <3>1
  <2> QED BY <1>1, <1>2, <2>1, TakenPages, Zenon
<1>4. PICK t : t = Table(c.nodes, s, m, pages)
  OBVIOUS
<1>5. IsTable(c, s, m, pages, t)
  <2>1. pages \in [(m + 1)..TablePages(s) -> Pages]
    BY <1>3, Zenon DEF IsTaken
  <2> QED BY <1>1, <1>2, <1>4, <2>1, <1>TableFacts
<1>6. GrantStart(c, r, RL, SL, PR, PF, s, m, pages, t, e)
  BY <1>3, <1>5, Zenon DEF GrantStart
<1>7. PICK new : new = NewAllocation(c.nodes, s, m, pages)
  OBVIOUS
<1>8. /\ new = Fresh(s, t, m, m, TRUE) /\ new.table = t
      /\ [new EXCEPT !.inserted = FALSE] = Fresh(s, t, m, m, FALSE)
      /\ [new EXCEPT !.node = PagePrefix(s, FullPages(s))] = Fresh(s, t, m, FullPages(s), TRUE)
  <2>1. FreshForms(new, s, t, m)
    BY ONLY <1>4, <1>7, <1>FreshShapes
  <2> QED BY <2>1, Zenon DEF FreshForms
<1>9. PICK n, node, d :
         /\ n = [i \in (m + 1)..FullPages(s) |-> t[i]]
         /\ node = [start |-> m, pages |-> n, ref |-> 1, computed |-> FALSE]
         /\ d = InsertNode(e, PagePrefix(s, FullPages(s)), node)
  BY Zenon
<1>10. CASE m = FullPages(s)
  <2>1. PICK b, a : b \in BOOLEAN /\ b = TRUE /\ a = Fresh(s, t, m, m, b)
    BY Zenon
  <2>2. x = [cache |-> e, alloc |-> a]
    BY <1>7, <1>8, <1>10, <2>1, Zenon DEF Allocated
  <2>3. b <=> m = FullPages(s)
    BY <1>10, <2>1, Zenon
  <2> QED BY ONLY <1>6, <2>1, <2>2, <2>3, GrantPrivate, r \in Requests, s \in Seq(Tokens), Zenon
<1>11. CASE m # FullPages(s) /\ Holder(e.nodes, PagePrefix(s, m + 1)) # {}
  <2>1. PICK b, a : b \in BOOLEAN /\ b = FALSE /\ a = Fresh(s, t, m, m, b)
    BY Zenon
  <2>2. x = [cache |-> e, alloc |-> a]
    BY <1>7, <1>8, <1>11, <2>1, Zenon DEF Allocated
  <2>3. b <=> m = FullPages(s)
    BY <1>11, <2>1, Zenon
  <2> QED BY ONLY <1>6, <2>1, <2>2, <2>3, GrantPrivate, r \in Requests, s \in Seq(Tokens)
<1>12. CASE m # FullPages(s) /\ Holder(e.nodes, PagePrefix(s, m + 1)) = {}
  <2>1. PICK a : a = Fresh(s, t, m, FullPages(s), TRUE)
    BY Zenon
  <2>2. x = [cache |-> d, alloc |-> a]
    BY <1>7, <1>8, <1>9, <1>12, <2>1, Zenon DEF Allocated
  <2> QED BY ONLY LibraryFacts, <1>6, <1>9, <1>12, <2>1, <2>2, GrantInsert, r \in Requests, s \in Seq(Tokens), Zenon
<1> QED BY <1>10, <1>11, <1>12

\* allocate, from the expired pins on.
LEMMA AllocateOK ==
  \A c, r, RL, SL, PR, PF, s, m, env, x :
      /\ LibraryFacts /\ r \in Requests /\ CacheOK(c, RL, SL, PR, PF)
      /\ RL = With(RL, r, {}) /\ PR = With(PR, r, {}) /\ PF = With(PF, r, {})
      /\ s \in Seq(Tokens) /\ Len(s) > 0 /\ m \in 0..FullPages(s)
      /\ PagePrefix(s, m) = Root \/ Matches(c.nodes, PagePrefix(s, m))
      /\ x \in AllocateMatched(c, s, m, env)
    =>   GrantOK(c, x, r, RL, SL, PR, PF)
\* _match_and_lock for a request, and for a session that pins.
<1>LockRequest.
  ASSUME LibraryFacts, NEW c, NEW RL, NEW SL, NEW PR, NEW PF, CacheOK(c, RL, SL, PR, PF),
         NEW x \in Paths, x = Root \/ Matches(c.nodes, x),
         NEW r, NEW RM, AddsLock(Requests, RL, RM, r, x), NEW d, d = MatchAndLock(c, x)
  PROVE  /\ CacheOK(d, RM, SL, PR, PF) /\ \A h, P : Keeps(c, d, h, P)
         /\ x = Root \/ (x \in DOMAIN d.nodes /\ d.nodes[x].computed)
  <2> USE <1>LockRequest
  <2>1. IsFiniteSet(Requests) /\ IsFiniteSet(Sessions)
    BY RadixAssumption, Zenon
  <2>2. ASSUME NEW q
        PROVE  /\ OnPath(q, x) =>
                      Cardinality(Lockers(Requests, RM, q)) + Cardinality(Lockers(Sessions, SL, q))
                          = Cardinality(Lockers(Requests, RL, q))
                            + Cardinality(Lockers(Sessions, SL, q)) + 1
               /\ ~OnPath(q, x) => Lockers(Requests, RM, q) = Lockers(Requests, RL, q)
    <3>1. /\ OnPath(q, x) => Cardinality(Lockers(Requests, RM, q))
                                 = Cardinality(Lockers(Requests, RL, q)) + 1
          /\ ~OnPath(q, x) => Lockers(Requests, RM, q) = Lockers(Requests, RL, q)
      BY <2>1, LockersAdd
    <3>2. /\ Cardinality(Lockers(Requests, RL, q)) \in Nat
          /\ Cardinality(Lockers(Sessions, SL, q)) \in Nat
      BY <2>1, LockersFinite, Zenon
    <3> QED BY <3>1, <3>2
  <2>3. LocksMore(RL, SL, RM, SL, x)
    BY <2>2, Zenon DEF LocksMore, AddsLock
  <2> QED BY <2>3, MatchAndLocks, Zenon
\* Room is made and the pages are taken, or the call fails.
<1>TakePagesOK.
  ASSUME LibraryFacts,
         NEW c, NEW r \in Requests, NEW RL, NEW SL, NEW PR, NEW PF, NEW s \in Seq(Tokens),
         Len(s) > 0, NEW m, StageOK(c, r, RL, SL, PR, PF, s, m), NEW offload, NEW refuse,
         NEW room \in EnsureFree(c, TablePages(s) - m, offload, refuse),
         NEW x, x = TakePages(room, s, m)
  PROVE  GrantOK(c, x, r, RL, SL, PR, PF)
  <2> USE <1>TakePagesOK
  <2>1. /\ StageOK(room.cache, r, RL, SL, PR, PF, s, m) /\ Steady(c, room.cache, r, RL, PR)
        /\ room.result = "ok" => Cardinality(room.cache.free) >= TablePages(s) - m
    BY StageRoom, Zenon
  <2>2. PICK a : a = room.cache
    OBVIOUS
  <2>3. CASE room.result = "ok"
    <3>1. PICK pages, e : pages = Take(a, m + 1, TablePages(s)) /\ e = PoolAllocate(a, Range(pages))
      BY Zenon
    <3>2. x = Allocated(e, s, m, NewAllocation(a.nodes, s, m, pages))
      BY <2>2, <2>3, <3>1, Zenon DEF TakePages
    <3>3. StageOK(a, r, RL, SL, PR, PF, s, m) /\ Steady(c, a, r, RL, PR)
      BY <2>1, <2>2, Zenon
    <3>4. TablePages(s) - m <= Cardinality(a.free)
      <4>1. Cardinality(a.free) \in Nat
        <5>1. IsFiniteSet(a.free)
          BY <3>3, FreeFinite, Zenon DEF StageOK, CacheOK
        <5> QED BY <5>1, CardType, Zenon
      <4>2. TablePages(s) \in Nat /\ m \in Nat
        BY TableSize DEF StageOK
      <4> QED BY <2>1, <2>2, <2>3, <4>1, <4>2
    <3>5. GrantOK(a, x, r, RL, SL, PR, PF)
      BY ONLY LibraryFacts, <3>1, <3>2, <3>3, <3>4, AllocatedOK, r \in Requests, s \in Seq(Tokens), Len(s) > 0
    <3> QED BY <3>3, <3>5, GrantFrom, Zenon
  <2>4. CASE room.result # "ok"
    <3>1. x = Refused(a, s, m)
      BY <2>2, <2>4, Zenon DEF TakePages
    <3> QED BY <2>1, <2>2, <3>1, GrantRefused, Zenon
  <2> QED BY <2>3, <2>4
<1> TAKE c, r, RL, SL, PR, PF, s, m, env, x
<1> HAVE /\ LibraryFacts /\ r \in Requests /\ CacheOK(c, RL, SL, PR, PF)
         /\ RL = With(RL, r, {}) /\ PR = With(PR, r, {}) /\ PF = With(PF, r, {})
         /\ s \in Seq(Tokens) /\ Len(s) > 0 /\ m \in 0..FullPages(s)
         /\ PagePrefix(s, m) = Root \/ Matches(c.nodes, PagePrefix(s, m))
         /\ x \in AllocateMatched(c, s, m, env)
<1>1. PICK g, R, d : /\ g = PagePrefix(s, m) /\ R = With(RL, r, {g}) /\ d = MatchAndLock(c, g)
  BY Zenon
<1>2. g \in Paths
  BY <1>1, PrefixFacts
<1>3. AddsLock(Requests, RL, R, r, g)
  BY <1>1, WithChanges
<1>4. /\ CacheOK(d, R, SL, PR, PF) /\ \A h, P : Keeps(c, d, h, P)
      /\ g = Root \/ (g \in DOMAIN d.nodes /\ d.nodes[g].computed)
  <2>1. (g = Root \/ Matches(c.nodes, g)) /\ d = MatchAndLock(c, g)
    BY <1>1
  <2>2. CacheOK(c, RL, SL, PR, PF)
    OBVIOUS
  <2> QED BY ONLY LibraryFacts, <1>2, <1>3, <2>1, <2>2, <1>LockRequest
<1>5. StageOK(d, r, RL, SL, PR, PF, s, m)
  BY <1>1, <1>4, Zenon DEF StageOK, Anchored
<1>6. Steady(c, d, r, RL, PR)
  BY <1>4, KeepsSteady, Zenon
<1>7. PICK y \in RestoreFromDram(d, s, m, env) : x \in AllocateRest(y, s, env)
  BY <1>1, Zenon DEF AllocateMatched
<1>8. StageOK(y.cache, r, RL, SL, PR, PF, s, y.matched) /\ Steady(d, y.cache, r, RL, PR)
  BY ONLY LibraryFacts, <1>5, <1>7, RestoreOK, r \in Requests, s \in Seq(Tokens), y \in RestoreFromDram(d, s, m, env)
<1>9. Steady(c, y.cache, r, RL, PR)
  BY <1>6, <1>8, SteadyTrans, Zenon
<1>10. CASE x = Refused(y.cache, s, y.matched)
  BY <1>8, <1>9, <1>10, GrantRefused, Zenon
<1>11. CASE \E room \in EnsureFree(y.cache, TablePages(s) - y.matched, env.offload, env.refuse) :
               x = TakePages(room, s, y.matched)
  <2>1. PICK e, k : e = y.cache /\ k = y.matched
    BY Zenon
  <2>2. PICK room \in EnsureFree(e, TablePages(s) - k, env.offload, env.refuse) :
            x = TakePages(room, s, k)
    BY <1>11, <2>1, Zenon
  <2>3. StageOK(e, r, RL, SL, PR, PF, s, k) /\ Steady(c, e, r, RL, PR)
    BY <1>8, <1>9, <2>1, Zenon
  <2>4. GrantOK(e, x, r, RL, SL, PR, PF)
    BY <2>2, <2>3, <1>TakePagesOK, Zenon
  <2> QED BY <2>3, <2>4, GrantFrom, Zenon
<1> QED BY <1>7, <1>10, <1>11, Zenon DEF AllocateRest

\* allocate, for a request that has no allocation.
LEMMA AllocateStep ==
  \A r :
      /\ LibraryFacts /\ RadixInv /\ r \in Requests /\ Allocate(r)
    =>   RadixInv'
\* _expire_pins drops the locks of the pins that run out.
<1>ExpireLocks.
  ASSUME LibraryFacts, NEW c, NEW RL, NEW SL, NEW PR, NEW PF, CacheOK(c, RL, SL, PR, PF),
         NEW SM, LocksExpire(SL, SM), NEW d, d = ExpirePins(c)
  PROVE  CacheOK(d, RL, SM, PR, PF) /\ (\A h, P : Keeps(c, d, h, P)) /\ d.told = c.told
  <2> USE <1>ExpireLocks
  <2>0. /\ \A x \in Expired : SL[x] = {pins[x].node}
        /\ \A x \in Sessions : SM[x] = IF x \in Expired THEN {} ELSE SL[x]
    BY Zenon DEF LocksExpire
  <2>1. IsCache(c) /\ Tree(c.nodes) /\ Locked(c.nodes, RL, SL) /\ Prefilling(c.nodes, RL, PF)
    BY Zenon DEF CacheOK
  <2>2. IsFiniteSet(Requests) /\ IsFiniteSet(Sessions) /\ Expired \subseteq Sessions
    BY RadixAssumption DEF Expired
  <2> DEFINE gone(q) == {x \in Expired : OnPath(q, pins[x].node)}
             n == [q \in DOMAIN c.nodes |-> Locks(c.nodes[q], -Cardinality(gone(q)))]
  <2>3. ASSUME NEW q \in DOMAIN c.nodes
        PROVE  /\ c.nodes[q].ref = Cardinality(Lockers(Requests, RL, q))
                                   + Cardinality(Lockers(Sessions, SL, q))
               /\ Cardinality(Lockers(Sessions, SL, q))
                      = Cardinality(Lockers(Sessions, SM, q)) + Cardinality(gone(q))
               /\ Cardinality(Lockers(Requests, RL, q)) \in Nat
               /\ Cardinality(Lockers(Sessions, SM, q)) \in Nat
               /\ Cardinality(gone(q)) \in Nat
    <3> DEFINE G == gone(q)
    <3>1. /\ Lockers(Sessions, SL, q) = Lockers(Sessions, SM, q) \cup G
          /\ Lockers(Sessions, SM, q) \cap G = {}
      BY <2>0, <2>2, Zenon DEF Lockers
    <3>2. G \in SUBSET Sessions
      BY <2>2, Zenon
    <3> HIDE DEF G
    <3>3. IsFiniteSet(G) /\ Cardinality(G) \in Nat
      BY <2>2, <3>2, FiniteSub, CardType
    <3>4. /\ IsFiniteSet(Lockers(Sessions, SM, q)) /\ Cardinality(Lockers(Sessions, SM, q)) \in Nat
          /\ Cardinality(Lockers(Requests, RL, q)) \in Nat
      BY <2>2, LockersFinite
    <3>5. Cardinality(Lockers(Sessions, SM, q) \cap G) = 0
      BY <3>1, CardEmpty
    <3>6. Cardinality(Lockers(Sessions, SL, q)) = Cardinality(Lockers(Sessions, SM, q)) + Cardinality(G)
      <4> DEFINE S == Lockers(Sessions, SM, q)
      <4>1. IsFiniteSet(S) /\ IsFiniteSet(G) /\ Cardinality(S) \in Nat /\ Cardinality(S \cap G) = 0
        BY <3>3, <3>4, <3>5
      <4>2. Lockers(Sessions, SL, q) = S \cup G
        BY <3>1
      <4> HIDE DEF S
      <4>3. Cardinality(S \cup G) = Cardinality(S) + Cardinality(G) - Cardinality(S \cap G)
        BY <4>1, CardUnion
      <4> QED BY <3>3, <4>1, <4>2, <4>3 DEF S
    <3>7. c.nodes[q].ref = Cardinality(Lockers(Requests, RL, q)) + Cardinality(Lockers(Sessions, SL, q))
      BY <2>1, Zenon DEF Locked
    <3> QED BY <3>3, <3>4, <3>6, <3>7, Zenon DEF G
  <2>4. d = [c EXCEPT !.nodes = n]
    BY Zenon DEF ExpirePins
  <2> HIDE DEF n, gone
  <2>5. /\ IsCache(d) /\ d.nodes = n /\ d.free = c.free /\ d.older = c.older
        /\ d.told = c.told /\ d.lost = c.lost /\ d.rows = c.rows
    BY <2>1, <2>4, SetNodes
  <2>6. ASSUME NEW q \in DOMAIN c.nodes
        PROVE  /\ NodeOK(q, n[q]) /\ n[q].start = c.nodes[q].start
               /\ n[q].pages = c.nodes[q].pages /\ n[q].computed = c.nodes[q].computed
               /\ n[q].ref = Cardinality(Lockers(Requests, RL, q))
                             + Cardinality(Lockers(Sessions, SM, q))
    <3> DEFINE k == -Cardinality(gone(q))
    <3>1. NodeOK(q, c.nodes[q]) /\ n[q] = Locks(c.nodes[q], k)
      BY <2>1, TreeNode, Zenon DEF n
    <3>2. /\ k \in Int /\ c.nodes[q].ref + k \in Nat
          /\ c.nodes[q].ref + k = Cardinality(Lockers(Requests, RL, q))
                                  + Cardinality(Lockers(Sessions, SM, q))
      BY <2>3
    <3> HIDE DEF k
    <3> QED BY <3>1, <3>2, NodeLocks, ZenonT(30)
  <2>7. DOMAIN n = DOMAIN c.nodes
    BY Zenon DEF n
  <2>8. SameShape(c.nodes, d.nodes)
    BY <2>5, <2>6, <2>7, Zenon DEF SameShape
  <2>9. Locked(d.nodes, RL, SM)
    BY <2>0, <2>1, <2>5, <2>6, <2>7, Zenon DEF Locked
  <2>10. PrefillsKept(c.nodes, d.nodes, RL, RL)
    <3> SUFFICES ASSUME NEW q \in DOMAIN c.nodes, ~c.nodes[q].computed
                 PROVE  d.nodes[q].ref = c.nodes[q].ref
      BY Zenon DEF PrefillsKept
    <3>1. c.nodes[q].ref = 1 /\ \E r \in Requests : q \in RL[r]
      BY <2>1, Zenon DEF Prefilling
    <3>2. OnPath(q, q)
      BY <2>1, TreeNode, OnPathRefl, Zenon
    <3>3. Cardinality(Lockers(Requests, RL, q)) # 0
      BY <2>2, <3>1, <3>2, LockersNone, Zenon
    <3> DEFINE R == Cardinality(Lockers(Requests, RL, q))
               M == Cardinality(Lockers(Sessions, SM, q))
               G == Cardinality(gone(q))
               S == Cardinality(Lockers(Sessions, SL, q))
    <3>4. R # 0 /\ R \in Nat /\ M \in Nat /\ G \in Nat /\ S = M + G /\ 1 = R + S
      BY <2>3, <3>1, <3>3, Zenon
    <3>5. d.nodes[q].ref = R + M
      BY <2>5, <2>6, Zenon
    <3> HIDE DEF R, M, G, S
    <3> QED BY <3>1, <3>4, <3>5
  <2>11. CacheOK(d, RL, SM, PR, PF) /\ \A h, P : Keeps(c, d, h, P)
    BY <2>5, <2>8, <2>9, <2>10, Relock, Zenon
  <2> QED BY <2>5, <2>11, Zenon
\* The pins after one more allocation.
<1>AgedLocks.
  ASSUME RadixInv, pins' = AgedPins
  PROVE  pins' \in [Sessions -> PinEntry \cup {None}] /\ LocksExpire(SessionLocks, SessionLocks')
  <2> USE <1>AgedLocks
  <2>1. pins \in [Sessions -> PinEntry \cup {None}]
    BY InvView, Zenon
  <2>2. ASSUME NEW x \in Sessions
        PROVE  /\ x \in Expired => pins'[x] = None /\ SessionLocks[x] = {pins[x].node}
               /\ x \notin Expired /\ pins[x] = None => pins'[x] = None
               /\ x \notin Expired /\ pins[x] # None =>
                      /\ pins'[x] \in PinEntry /\ pins'[x] # None /\ pins'[x].node = pins[x].node
    <3>1. CASE x \in Expired
      BY <3>1, Zenon DEF AgedPins, SessionLocks, Expired
    <3>2. CASE x \notin Expired /\ pins[x] = None
      BY <3>2, Zenon DEF AgedPins
    <3>3. CASE x \notin Expired /\ pins[x] # None
      <4>1. pins[x] \in PinEntry /\ pins[x].left # 1
        BY <2>1, <3>3, Zenon DEF Expired
      <4>2. CASE pins[x].left = 0
        <5>1. pins'[x] = pins[x]
          BY <3>3, <4>2, Zenon DEF AgedPins
        <5> QED BY <3>3, <4>1, <5>1, Zenon
      <4>3. CASE pins[x].left # 0
        <5>1. pins'[x] = [pins[x] EXCEPT !.left = @ - 1]
          BY <3>3, <4>3, Zenon DEF AgedPins
        <5>2. pins[x].left \notin {0, 1}
          BY <4>1, <4>3, Zenon
        <5>3. pins'[x] \in PinEntry /\ pins'[x].node = pins[x].node
          BY <4>1, <5>1, <5>2, PinFacts, Zenon
        <5>4. pins'[x] # None
          BY <5>3, PinFacts, Zenon
        <5> QED BY <3>3, <5>3, <5>4, Zenon
      <4> QED BY <4>2, <4>3
    <3> QED BY <3>1, <3>2, <3>3
  <2>3. pins' \in [Sessions -> PinEntry \cup {None}]
    <3>1. \A x \in Sessions : pins'[x] \in PinEntry \cup {None}
      BY <2>2, Zenon
    <3>2. pins' = [x \in Sessions |-> pins'[x]]
      BY Zenon DEF AgedPins
    <3> QED BY <3>1, <3>2, Zenon
  <2>4. /\ \A x \in Sessions : SessionLocks'[x] = IF pins'[x] = None THEN {} ELSE {pins'[x].node}
        /\ \A x \in Sessions : SessionLocks[x] = IF pins[x] = None THEN {} ELSE {pins[x].node}
    BY Zenon DEF SessionLocks
  <2>5. LocksExpire(SessionLocks, SessionLocks')
    <3>1. Expired \subseteq Sessions
      BY Zenon DEF Expired
    <3> QED BY <2>2, <2>4, <3>1, ZenonT(30) DEF LocksExpire
  <2> QED BY <2>3, <2>5
<1> SUFFICES
  ASSUME LibraryFacts, RadixInv, NEW r \in Requests, Allocate(r)
  PROVE  RadixInv'
  OBVIOUS
<1>1. PICK s \in Prompts, env \in Environment : \E x \in AllocateOutcomes(s, env) :
          cache' = x.cache /\ alloc' = [alloc EXCEPT ![r] = x.alloc]
  BY Zenon DEF Allocate
<1>2. PICK x \in AllocateOutcomes(s, env) :
          cache' = x.cache /\ alloc' = [alloc EXCEPT ![r] = x.alloc]
  BY <1>1, Zenon
<1>3. alloc[r] = None /\ pins' = AgedPins
  BY Zenon DEF Allocate
<1>4. s \in Seq(Tokens) /\ Len(s) > 0
  BY RadixAssumption, Zenon
<1>5. PICK c, m : c = ExpirePins(cache) /\ m = MatchedPages(cache.nodes, s)
  BY Zenon
<1>6. PICK RL, SL, PR, PF, SM :
         /\ RL = RequestLocks /\ SL = SessionLocks /\ PR = RequestPages /\ PF = Prefills
         /\ SM = SessionLocks'
  BY Zenon
<1>7. CacheOK(cache, RL, SL, PR, PF)
  BY <1>6, InvView, Zenon
<1>8. pins' \in [Sessions -> PinEntry \cup {None}] /\ LocksExpire(SL, SM)
  BY <1>3, <1>6, <1>AgedLocks, Zenon
<1>9. CacheOK(c, RL, SM, PR, PF) /\ (\A h, P : Keeps(cache, c, h, P)) /\ c.told = cache.told
  BY <1>5, <1>7, <1>8, <1>ExpireLocks
<1>10. /\ m \in 0..FullPages(s)
       /\ PagePrefix(s, m) = Root \/ Matches(c.nodes, PagePrefix(s, m))
  <2>1. m \in 0..FullPages(s) /\ (PagePrefix(s, m) = Root \/ Matches(cache.nodes, PagePrefix(s, m)))
    BY <1>4, <1>5, MatchedFacts
  <2>2. Announced(cache) /\ Announced(c)
    BY <1>7, <1>9, Zenon DEF CacheOK
  <2>3. /\ PagePrefix(s, m) \in cache.told <=> Matches(cache.nodes, PagePrefix(s, m))
        /\ PagePrefix(s, m) \in c.told <=> Matches(c.nodes, PagePrefix(s, m))
    BY <2>2, AnnouncedX, Zenon
  <2> QED BY <1>9, <2>1, <2>3, Zenon
<1>11. RL = With(RL, r, {}) /\ PR = With(PR, r, {}) /\ PF = With(PF, r, {})
  <2>1. PICK A, a : A = alloc /\ a = None
    BY Zenon
  <2>2. LockOf(a) = {} /\ OwnOf(a) = {} /\ PrefillOf(a) = {}
    BY <2>1, Zenon DEF LockOf, OwnOf, PrefillOf
  <2>3. A[r] = a /\ \A o \in Requests : o # r => A[o] = A[o]
    BY <1>3, <2>1, Zenon
  <2>4. /\ LocksOf(A) = With(LocksOf(A), r, LockOf(a))
        /\ OwnsOf(A) = With(OwnsOf(A), r, OwnOf(a))
        /\ PrefillsOf(A) = With(PrefillsOf(A), r, PrefillOf(a))
    BY ONLY <2>3, OneAllocation, r \in Requests
  <2>5. RL = LocksOf(A) /\ PR = OwnsOf(A) /\ PF = PrefillsOf(A)
    BY <1>6, <2>1, InvView, Zenon
  <2> QED BY <2>2, <2>4, <2>5, Zenon
<1>12. x \in AllocateMatched(c, s, m, env)
  BY <1>5, Zenon DEF AllocateOutcomes
<1>13. GrantOK(c, x, r, RL, SM, PR, PF)
  BY ONLY LibraryFacts, <1>4, <1>9, <1>10, <1>11, <1>12, AllocateOK, r \in Requests, Zenon
<1>14. Steady(cache, c, r, RL, PR)
  BY <1>9, KeepsSteady, Zenon
<1>15. GrantOK(cache, x, r, RL, SM, PR, PF)
  BY <1>13, <1>14, GrantFrom, Zenon
<1>16. PICK a, d : a = x.alloc /\ d = x.cache
  BY Zenon
<1>17. /\ a \in Allocation \cup {None} /\ (a # None => AllocOK(d, a))
       /\ CacheOK(d, With(RL, r, LockOf(a)), SM, With(PR, r, OwnOf(a)), With(PF, r, PrefillOf(a)))
       /\ Steady(cache, d, r, RL, PR)
  BY <1>15, <1>16, Zenon DEF GrantOK
<1>18. cache' = d /\ alloc' = [alloc EXCEPT ![r] = a]
  BY <1>2, <1>16, Zenon
<1>19. /\ (a # None => AllocOK(cache', a)) /\ Steady(cache, cache', r, RequestLocks, RequestPages)
       /\ CacheOK(cache', With(RequestLocks, r, LockOf(a)), SessionLocks',
                  With(RequestPages, r, OwnOf(a)), With(Prefills, r, PrefillOf(a)))
  BY <1>6, <1>17, <1>18, Zenon
<1> QED BY <1>8, <1>17, <1>18, <1>19, StepRequest, Zenon
=============================================================================
