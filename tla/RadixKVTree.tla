---------------------------- MODULE RadixKVTree -----------------------------
(***************************************************************************)
(* Lemmas about RadixKV, first part: paths, the tree and its holders, what *)
(* a split, a change of locks, an insertion and a removal do to the tree,  *)
(* the invariant of a cache that every call starts from and comes back to, *)
(* and the steps that follow from these: pin, unpin, grow,                 *)
(* reserve_scratch_page and the losses of the host tier.                   *)
(*                                                                         *)
(* A property of the tree is stated prefix by prefix: the holder of a      *)
(* prefix is the node whose segment the prefix ends in, and there is at    *)
(* most one. A split then changes nothing (SameView), an insertion adds    *)
(* prefixes and a removal takes some away.  Between the steps of a call    *)
(* the locks, pages and prefills of the requests are parameters (RL, SL,   *)
(* PR, PF), since the call has changed the cache before it returns the     *)
(* allocation.  Keeps says what a request relies on while others call: its *)
(* path keeps its pages, its node its state, and its own pages their rows. *)
(***************************************************************************)
EXTENDS RadixKV, TLAPS

\* What the proofs use of the library's theorems about finite sets and numbers.
\* RadixKVProofs derives it from them.
LibraryFacts ==
    /\ \A S : IsFiniteSet(S) =>
           /\ Cardinality(S) \in Nat /\ ExistsBijection(1..Cardinality(S), S)
           /\ Cardinality(S) = 0 <=> S = {}
           /\ Cardinality(S) = 1 <=> \E x : S = {x}
           /\ \A x : x \notin S => Cardinality(S \cup {x}) = Cardinality(S) + 1
           /\ \A T \in SUBSET S : IsFiniteSet(T)
    /\ \A S, T : IsFiniteSet(S) /\ IsFiniteSet(T) =>
           Cardinality(S \cup T) = Cardinality(S) + Cardinality(T) - Cardinality(S \cap T)
    /\ Cardinality({}) = 0 /\ \A x : Cardinality({x}) = 1
    /\ \A a, b \in Int : IsFiniteSet(a..b)
    /\ \A T \in SUBSET Nat : T # {} => \E x \in T : \A y \in T : x <= y

\* The number of elements of a finite set, and a numbering of them.
LEMMA CardType ==
  ASSUME LibraryFacts, NEW S, IsFiniteSet(S)
  PROVE  Cardinality(S) \in Nat /\ ExistsBijection(1..Cardinality(S), S)
BY Zenon DEF LibraryFacts

\* The empty set has no elements, and only it.
LEMMA CardEmpty ==
  ASSUME LibraryFacts
  PROVE  /\ Cardinality({}) = 0
         /\ \A S : IsFiniteSet(S) => (Cardinality(S) = 0 <=> S = {})
BY Zenon DEF LibraryFacts

\* A part of a finite set is finite.
LEMMA FiniteSub ==
  ASSUME LibraryFacts, NEW S, IsFiniteSet(S), NEW T \in SUBSET S
  PROVE  IsFiniteSet(T)
BY Zenon DEF LibraryFacts

\* One element makes a singleton.
LEMMA CardSingle ==
  ASSUME LibraryFacts
  PROVE  /\ \A x : Cardinality({x}) = 1
         /\ \A S : IsFiniteSet(S) => (Cardinality(S) = 1 <=> \E x : S = {x})
BY Zenon DEF LibraryFacts

\* A sequence has the pages that division by PageSize counts, and no more.
LEMMA DivMul ==
  ASSUME NEW n \in Nat
  PROVE  /\ n \div PageSize \in Nat
         /\ (n \div PageSize) * PageSize <= n
         /\ n < (n \div PageSize + 1) * PageSize
<1>1. PageSize \in Nat /\ PageSize > 0
  BY RadixAssumption
<1> QED BY <1>1, SMT

\* Division undoes the multiplication of FullPages.
LEMMA DivOfMul ==
  ASSUME NEW n \in Nat
  PROVE  (n * PageSize) \div PageSize = n /\ n * PageSize \in Nat
<1>1. PageSize \in Nat /\ PageSize > 0
  BY RadixAssumption
<1> QED BY <1>1, SMT

\* More pages are more tokens.
LEMMA MulMono ==
  ASSUME NEW m \in Nat, NEW n \in Nat
  PROVE  /\ m <= n <=> m * PageSize <= n * PageSize
         /\ m * PageSize \in Nat
<1>1. PageSize \in Nat /\ PageSize > 0
  BY RadixAssumption
<1> QED BY <1>1, SMT

\* What a page-aligned length is.
LEMMA ModDiv ==
  ASSUME NEW n \in Nat
  PROVE  /\ n % PageSize = 0 <=> (n \div PageSize) * PageSize = n
<1>1. PageSize \in Nat /\ PageSize > 0
  BY RadixAssumption
<1> QED BY <1>1, SMT

\* A page boundary inside a sequence is one of its positions.
LEMMA LevelBounds ==
  ASSUME NEW s \in Seq(Tokens)
  PROVE  /\ FullPages(s) \in Nat /\ Len(s) \in Nat
         /\ \A n \in 0..FullPages(s) : n * PageSize \in 0..Len(s)
<1>1. Len(s) \in Nat
  OBVIOUS
<1>2. FullPages(s) \in Nat /\ FullPages(s) * PageSize <= Len(s)
  BY <1>1, DivMul DEF FullPages
<1>3. ASSUME NEW n \in 0..FullPages(s) PROVE n * PageSize \in 0..Len(s)
  <2>1. n \in Nat /\ n <= FullPages(s)
    BY <1>2
  <2>2. n * PageSize <= FullPages(s) * PageSize /\ n * PageSize \in Nat /\ FullPages(s) * PageSize \in Nat
    BY <2>1, <1>2, MulMono
  <2> QED BY <2>2, <1>1, <1>2
<1> QED BY <1>1, <1>2, <1>3

\* The first n pages of a sequence are n pages long and hold its tokens.
LEMMA PrefixLen ==
  \A s, n :
      /\ s \in Seq(Tokens) /\ n \in 0..FullPages(s)
    =>   /\ PagePrefix(s, n) \in Seq(Tokens)
         /\ Len(PagePrefix(s, n)) = n * PageSize
         /\ FullPages(PagePrefix(s, n)) = n
         /\ \A i \in 1..n * PageSize : PagePrefix(s, n)[i] = s[i]
\* The first k elements of a sequence.
<1>SubSeqFacts.
  ASSUME NEW s \in Seq(Tokens), NEW k \in 0..Len(s)
  PROVE  /\ SubSeq(s, 1, k) \in Seq(Tokens) /\ Len(SubSeq(s, 1, k)) = k
         /\ \A i \in 1..k : SubSeq(s, 1, k)[i] = s[i]
  <2> USE <1>SubSeqFacts
  <2>1. \A i \in 1..k : s[i] \in Tokens
    OBVIOUS
  <2>2. k \in Int /\ 1 \in Int /\ k >= 0
    OBVIOUS
  <2> QED BY <2>1, <2>2
<1> SUFFICES
  ASSUME NEW s \in Seq(Tokens), NEW n \in 0..FullPages(s)
  PROVE  /\ PagePrefix(s, n) \in Seq(Tokens)
         /\ Len(PagePrefix(s, n)) = n * PageSize
         /\ FullPages(PagePrefix(s, n)) = n
         /\ \A i \in 1..n * PageSize : PagePrefix(s, n)[i] = s[i]
  OBVIOUS
<1>1. n * PageSize \in 0..Len(s) /\ n \in Nat
  BY LevelBounds
<1>2. /\ PagePrefix(s, n) \in Seq(Tokens)
      /\ Len(PagePrefix(s, n)) = n * PageSize
      /\ \A i \in 1..n * PageSize : PagePrefix(s, n)[i] = s[i]
  BY <1>1, <1>SubSeqFacts DEF PagePrefix
<1>3. FullPages(PagePrefix(s, n)) = n
  BY <1>1, <1>2, DivOfMul DEF FullPages
<1> QED BY <1>2, <1>3

\* A prefix of a prefix is a prefix.
LEMMA PrefixOfPrefix ==
  ASSUME NEW s \in Seq(Tokens), NEW n \in 0..FullPages(s), NEW m \in 0..n
  PROVE  PagePrefix(PagePrefix(s, n), m) = PagePrefix(s, m)
<1> DEFINE t == PagePrefix(s, n)
<1>0. FullPages(s) \in Nat /\ n \in Nat /\ m \in Nat /\ m <= n /\ m \in 0..FullPages(s)
  BY LevelBounds
<1>1. t \in Seq(Tokens) /\ Len(t) = n * PageSize /\ FullPages(t) = n
      /\ \A i \in 1..n * PageSize : t[i] = s[i]
  BY PrefixLen
<1> HIDE DEF t
<1>2. /\ PagePrefix(t, m) \in Seq(Tokens) /\ Len(PagePrefix(t, m)) = m * PageSize
      /\ \A i \in 1..m * PageSize : PagePrefix(t, m)[i] = t[i]
  BY <1>1, PrefixLen
<1>3. /\ PagePrefix(s, m) \in Seq(Tokens) /\ Len(PagePrefix(s, m)) = m * PageSize
      /\ \A i \in 1..m * PageSize : PagePrefix(s, m)[i] = s[i]
  BY <1>0, PrefixLen
<1>4. m * PageSize <= n * PageSize /\ m * PageSize \in Nat /\ n * PageSize \in Nat
  BY <1>0, MulMono
<1>5. \A i \in 1..m * PageSize : PagePrefix(t, m)[i] = PagePrefix(s, m)[i]
  BY <1>1, <1>2, <1>3, <1>4
<1> QED BY <1>2, <1>3, <1>5 DEF t

\* A prefix of full pages may name a node.
LEMMA PrefixPath ==
  ASSUME NEW s \in Seq(Tokens), NEW n \in 0..FullPages(s)
  PROVE  PagePrefix(s, n) \in Paths
<1>1. PagePrefix(s, n) \in Seq(Tokens) /\ FullPages(PagePrefix(s, n)) = n
  BY PrefixLen
<1>2. n \in 0..n
  BY LevelBounds
<1>3. PagePrefix(PagePrefix(s, n), n) = PagePrefix(s, n)
  BY <1>2, PrefixOfPrefix
<1> QED BY <1>1, <1>3 DEF Paths

\* The root is the empty path, and the only path without pages.
LEMMA RootPath ==
  /\ Root \in Paths /\ FullPages(Root) = 0
  /\ \A s \in Seq(Tokens) : PagePrefix(s, 0) = Root
  /\ \A q \in Paths : FullPages(q) = 0 => q = Root
<1>1. ASSUME NEW s \in Seq(Tokens) PROVE PagePrefix(s, 0) = Root
  <2>1. 0 * PageSize = 0
    BY RadixAssumption
  <2> QED BY <2>1 DEF PagePrefix, Root
<1>2. Root \in Seq(Tokens) /\ Len(Root) = 0
  BY DEF Root
<1>3. FullPages(Root) = 0
  <2>1. 0 * PageSize = 0
    BY RadixAssumption
  <2>2. (0 * PageSize) \div PageSize = 0
    BY DivOfMul
  <2> QED BY <1>2, <2>1, <2>2 DEF FullPages
<1>4. \A q \in Paths : FullPages(q) = 0 => q = Root
  BY <1>1 DEF Paths
<1> QED BY <1>1, <1>2, <1>3, <1>4, Zenon DEF Paths

\* A path and its prefixes.
LEMMA PathFacts ==
  ASSUME NEW q \in Paths
  PROVE  /\ q \in Seq(Tokens) /\ FullPages(q) \in Nat
         /\ PagePrefix(q, FullPages(q)) = q
         /\ \A n \in 0..FullPages(q) :
                PagePrefix(q, n) \in Paths /\ FullPages(PagePrefix(q, n)) = n
<1>1. q \in Seq(Tokens) /\ PagePrefix(q, FullPages(q)) = q
  BY DEF Paths
<1> QED BY <1>1, LevelBounds, PrefixLen, PrefixPath

\* The page prefixes of any sequence are paths, one per level.
LEMMA PrefixFacts ==
  ASSUME NEW s \in Seq(Tokens)
  PROVE  /\ FullPages(s) \in Nat
         /\ \A n \in 0..FullPages(s) :
                /\ PagePrefix(s, n) \in Paths /\ FullPages(PagePrefix(s, n)) = n
                /\ \A m \in 0..n : PagePrefix(PagePrefix(s, n), m) = PagePrefix(s, m)
BY LevelBounds, PrefixLen, PrefixPath, PrefixOfPrefix

\* A node on the way to q has q's prefixes.
LEMMA OnPathPrefix ==
  ASSUME NEW a \in Paths, NEW q \in Paths, OnPath(a, q), NEW n \in 0..FullPages(a)
  PROVE  PagePrefix(a, n) = PagePrefix(q, n)
<1>1. FullPages(a) \in Nat /\ FullPages(q) \in Nat /\ q \in Seq(Tokens)
  BY PathFacts
<1>2. FullPages(a) \in 0..FullPages(q) /\ PagePrefix(q, FullPages(a)) = a
  BY <1>1 DEF OnPath
<1> QED BY <1>1, <1>2, PrefixFacts

\* A path ends in itself and starts at the root.
LEMMA OnPathRefl ==
  ASSUME NEW q \in Paths
  PROVE  OnPath(q, q) /\ OnPath(Root, q)
<1>1. FullPages(q) \in Nat /\ q \in Seq(Tokens) /\ PagePrefix(q, FullPages(q)) = q
  BY PathFacts
<1> QED BY <1>1, RootPath DEF OnPath

\* Lying on a path is transitive, so _unlock_path visits every ancestor.
LEMMA OnPathTrans ==
  ASSUME NEW a \in Paths, NEW q \in Paths, NEW x \in Paths, OnPath(a, q), OnPath(q, x)
  PROVE  OnPath(a, x)
<1>1. FullPages(a) \in Nat /\ FullPages(q) \in Nat /\ FullPages(x) \in Nat
  BY PathFacts
<1>2. FullPages(a) \in 0..FullPages(q) /\ FullPages(a) <= FullPages(x)
  BY <1>1 DEF OnPath
<1>3. PagePrefix(q, FullPages(a)) = PagePrefix(x, FullPages(a))
  BY <1>2, OnPathPrefix
<1> QED BY <1>2, <1>3, Zenon DEF OnPath

\* The nodes on one path are linearly ordered by their levels.
LEMMA OnPathChain ==
  ASSUME NEW a \in Paths, NEW b \in Paths, NEW x \in Paths, OnPath(a, x), OnPath(b, x),
         FullPages(a) <= FullPages(b)
  PROVE  OnPath(a, b)
<1>1. FullPages(a) \in Nat /\ FullPages(b) \in Nat /\ FullPages(x) \in Nat
  BY PathFacts
<1>2. FullPages(a) \in 0..FullPages(b)
  BY <1>1
<1>3. PagePrefix(b, FullPages(a)) = PagePrefix(x, FullPages(a))
  BY <1>2, OnPathPrefix
<1> QED BY <1>3 DEF OnPath

\* The paths on the way to a prefix of s are the shorter prefixes of s.
LEMMA OnPathOfPrefix ==
  ASSUME NEW s \in Seq(Tokens), NEW n \in 0..FullPages(s), NEW a \in Paths
  PROVE  OnPath(a, PagePrefix(s, n)) <=> FullPages(a) <= n /\ PagePrefix(s, FullPages(a)) = a
<1>1. /\ FullPages(a) \in Nat /\ FullPages(s) \in Nat /\ FullPages(PagePrefix(s, n)) = n
      /\ \A m \in 0..n : PagePrefix(PagePrefix(s, n), m) = PagePrefix(s, m)
  BY PathFacts, PrefixFacts
<1>2. CASE FullPages(a) <= n
  <2>1. FullPages(a) \in 0..n
    BY <1>1, <1>2
  <2> QED BY <2>1, <1>1, <1>2 DEF OnPath
<1>3. CASE ~(FullPages(a) <= n)
  BY <1>1, <1>3 DEF OnPath
<1> QED BY <1>2, <1>3

\* The nodes on the way to a prefix of q are those of q's path that end by then.
LEMMA OnPathToPrefix ==
  ASSUME NEW q \in Paths, NEW n \in 0..FullPages(q), NEW a \in Paths
  PROVE  OnPath(a, PagePrefix(q, n)) <=> OnPath(a, q) /\ FullPages(a) <= n
<1>1. q \in Seq(Tokens) /\ FullPages(q) \in Nat /\ FullPages(a) \in Nat
  BY PathFacts
<1>2. OnPath(a, PagePrefix(q, n)) <=> FullPages(a) <= n /\ PagePrefix(q, FullPages(a)) = a
  BY <1>1, OnPathOfPrefix
<1>3. n <= FullPages(q)
  BY <1>1
<1> QED BY <1>1, <1>2, <1>3 DEF OnPath

\* The prefixes that end inside node q, which are the ones it announces.
LEMMA SegmentMember ==
  ASSUME NEW nodes, NEW q \in Paths, nodes[q].start \in Nat, NEW x
  PROVE  x \in SegmentPrefixes(nodes, q)
             <=> x \in Paths /\ nodes[q].start < FullPages(x) /\ OnPath(x, q)
<1>1. /\ FullPages(q) \in Nat
      /\ \A n \in 0..FullPages(q) :
             PagePrefix(q, n) \in Paths /\ FullPages(PagePrefix(q, n)) = n
  BY PathFacts
<1>2. ASSUME NEW n \in (nodes[q].start + 1)..FullPages(q), x = PagePrefix(q, n)
      PROVE  x \in Paths /\ nodes[q].start < FullPages(x) /\ OnPath(x, q)
  <2>1. n \in 0..FullPages(q) /\ n <= FullPages(q) /\ nodes[q].start < n
    BY <1>1
  <2> QED BY <2>1, <1>1, <1>2 DEF OnPath
<1>3. ASSUME x \in Paths, nodes[q].start < FullPages(x), OnPath(x, q)
      PROVE  \E n \in (nodes[q].start + 1)..FullPages(q) : x = PagePrefix(q, n)
  <2>1. FullPages(x) \in Nat
    BY <1>3, PathFacts
  <2>2. FullPages(x) \in (nodes[q].start + 1)..FullPages(q) /\ x = PagePrefix(q, FullPages(x))
    BY <2>1, <1>1, <1>3 DEF OnPath
  <2> QED BY <2>2
<1> QED BY <1>2, <1>3 DEF SegmentPrefixes

\* The holders of a lock can be counted.
LEMMA LockersFinite ==
  ASSUME LibraryFacts, NEW I, IsFiniteSet(I), NEW L, NEW q
  PROVE  IsFiniteSet(Lockers(I, L, q)) /\ Cardinality(Lockers(I, L, q)) \in Nat
<1>1. Lockers(I, L, q) \in SUBSET I
  BY DEF Lockers
<1>2. IsFiniteSet(Lockers(I, L, q))
  BY <1>1, FiniteSub
<1> QED BY <1>2, CardType

\* Locks M are the locks L and the path of h, locked by i.
AddsLock(I, L, M, i, h) ==
    /\ i \in I /\ L[i] = {} /\ M[i] = {h}
    /\ \A j \in I : j # i => M[j] = L[j]

\* One more path locked is one more lock on each node of the path.
LEMMA LockersAdd ==
  \A I, L, M, i, h, q :
      /\ LibraryFacts /\ IsFiniteSet(I) /\ AddsLock(I, L, M, i, h)
    =>   /\ OnPath(q, h) =>
                Cardinality(Lockers(I, M, q)) = Cardinality(Lockers(I, L, q)) + 1
         /\ ~OnPath(q, h) => Lockers(I, M, q) = Lockers(I, L, q)
\* One more element is one more.
<1>CardAdd.
  ASSUME LibraryFacts, NEW S, NEW x, IsFiniteSet(S), x \notin S
  PROVE  Cardinality(S \cup {x}) = Cardinality(S) + 1
  BY <1>CardAdd, Zenon DEF LibraryFacts
<1> SUFFICES
  ASSUME LibraryFacts,
         NEW I, IsFiniteSet(I), NEW L, NEW M, NEW i, NEW h, AddsLock(I, L, M, i, h), NEW q
  PROVE  /\ OnPath(q, h) =>
                Cardinality(Lockers(I, M, q)) = Cardinality(Lockers(I, L, q)) + 1
         /\ ~OnPath(q, h) => Lockers(I, M, q) = Lockers(I, L, q)
  OBVIOUS
<1> USE DEF AddsLock
<1>1. IsFiniteSet(Lockers(I, L, q)) /\ Cardinality(Lockers(I, L, q)) \in Nat
  BY LockersFinite
<1>2. i \notin Lockers(I, L, q)
  BY DEF Lockers
<1>3. CASE OnPath(q, h)
  <2>1. Lockers(I, M, q) = Lockers(I, L, q) \cup {i}
    BY <1>3, Zenon DEF Lockers
  <2> QED BY <1>1, <1>2, <1>3, <2>1, <1>CardAdd
<1>4. CASE ~OnPath(q, h)
  BY <1>4, Zenon DEF Lockers
<1> QED BY <1>3, <1>4

\* A locked path moves from g to h: nodes on both see no difference.
MovesLock(I, L, M, i, g, h) ==
    /\ i \in I /\ L[i] = {g} /\ M[i] = {h}
    /\ \A j \in I : j # i => M[j] = L[j]

\* A node with no locks is on nobody's path, one with some is on somebody's.
LEMMA LockersNone ==
  ASSUME LibraryFacts, NEW I, IsFiniteSet(I), NEW L, NEW q
  PROVE  Cardinality(Lockers(I, L, q)) = 0 <=> \A i \in I : \A h \in L[i] : ~OnPath(q, h)
<1>1. IsFiniteSet(Lockers(I, L, q))
  BY LockersFinite
<1>2. Cardinality(Lockers(I, L, q)) = 0 <=> Lockers(I, L, q) = {}
  BY <1>1, CardEmpty
<1>3. Lockers(I, L, q) = {} <=> \A i \in I : \A h \in L[i] : ~OnPath(q, h)
  BY Zenon DEF Lockers
<1> QED BY <1>2, <1>3

\* What Tree says of one node: its segment is not empty and its parent is there.
LEMMA TreeNode ==
  ASSUME NEW nodes, Tree(nodes), NEW q \in DOMAIN nodes
  PROVE  /\ q \in Paths /\ NodeOK(q, nodes[q]) /\ q # Root
         /\ nodes[q].start \in Nat /\ FullPages(q) \in Nat /\ nodes[q].start < FullPages(q)
         /\ nodes[q].start = 0 \/ PagePrefix(q, nodes[q].start) \in DOMAIN nodes
<1>1. NodeOK(q, nodes[q])
  BY Zenon DEF Tree
<1>2. q \in Paths /\ nodes[q].start \in Nat /\ nodes[q].start < FullPages(q)
  BY <1>1, Zenon DEF NodeOK
<1>3. FullPages(q) \in Nat
  BY <1>2, PathFacts
<1>4. q # Root
  BY <1>2, <1>3, RootPath
<1> QED BY <1>1, <1>2, <1>3, <1>4, Zenon DEF Tree

\* The node that holds prefix x is the one whose segment x ends in.
LEMMA HolderMember ==
  ASSUME NEW nodes, Tree(nodes), NEW x, NEW q
  PROVE  q \in Holder(nodes, x) <=>
             /\ q \in DOMAIN nodes /\ x \in Paths
             /\ nodes[q].start < FullPages(x) /\ OnPath(x, q)
<1>1. CASE q \in DOMAIN nodes
  <2>1. q \in Paths /\ nodes[q].start \in Nat
    BY <1>1, TreeNode, Zenon
  <2>2. x \in SegmentPrefixes(nodes, q)
            <=> x \in Paths /\ nodes[q].start < FullPages(x) /\ OnPath(x, q)
    BY <2>1, SegmentMember
  <2> QED BY <1>1, <2>2, Zenon DEF Holder
<1>2. CASE q \notin DOMAIN nodes
  BY <1>2, Zenon DEF Holder
<1> QED BY <1>1, <1>2, Zenon

\* No two nodes hold the same prefix: siblings differ in their first page.
LEMMA HolderUnique ==
  ASSUME NEW nodes, Tree(nodes), NEW x, NEW q \in Holder(nodes, x), NEW d \in Holder(nodes, x)
  PROVE  q = d
<1>1. /\ q \in DOMAIN nodes /\ x \in SegmentPrefixes(nodes, q)
      /\ d \in DOMAIN nodes /\ x \in SegmentPrefixes(nodes, d)
  BY Zenon DEF Holder
<1>2. q # d => SegmentPrefixes(nodes, q) \cap SegmentPrefixes(nodes, d) = {}
  BY <1>1, Zenon DEF Tree
<1> QED BY <1>1, <1>2, Zenon

\* Every prefix of a node is held by an ancestor or by itself.
LEMMA HolderCover ==
  ASSUME NEW nodes, Tree(nodes), NEW q \in DOMAIN nodes, NEW x \in Paths,
         OnPath(x, q), x # Root
  PROVE  \E a \in Holder(nodes, x) : OnPath(a, q)
<1>1. FullPages(x) \in Nat /\ FullPages(x) # 0 /\ FullPages(q) \in Nat
  BY PathFacts, RootPath, TreeNode
<1>2. FullPages(x) \in 1..FullPages(q) /\ PagePrefix(q, FullPages(x)) = x
  BY <1>1 DEF OnPath
<1>3. \A n \in 1..FullPages(q) : \E a \in Holder(nodes, PagePrefix(q, n)) : OnPath(a, q)
  BY Zenon DEF Tree
<1> QED BY <1>2, <1>3, Zenon

\* The holder of a prefix of a node lies on the node's path.
LEMMA HolderOnPath ==
  ASSUME NEW nodes, Tree(nodes), NEW q \in DOMAIN nodes, NEW x \in Paths,
         OnPath(x, q), NEW d \in Holder(nodes, x)
  PROVE  OnPath(d, q)
<1>1. nodes[d].start \in Nat /\ nodes[d].start < FullPages(x)
  BY HolderMember, TreeNode, Zenon
<1>2. x # Root
  BY <1>1, RootPath
<1>3. PICK a \in Holder(nodes, x) : OnPath(a, q)
  BY <1>2, HolderCover
<1> QED BY <1>3, HolderUnique, Zenon

\* How to show that nodes form a tree.
LEMMA TreeIntro ==
  ASSUME NEW nodes,
         \A q \in DOMAIN nodes : NodeOK(q, nodes[q]),
         \A q \in DOMAIN nodes :
             nodes[q].start = 0 \/ PagePrefix(q, nodes[q].start) \in DOMAIN nodes,
         \A q \in DOMAIN nodes : \A x \in Paths : OnPath(x, q) /\ x # Root =>
             \E a \in DOMAIN nodes : nodes[a].start < FullPages(x) /\ OnPath(x, a) /\ OnPath(a, q),
         \A q, d \in DOMAIN nodes : \A x \in Paths :
             (/\ nodes[q].start < FullPages(x) /\ OnPath(x, q)
              /\ nodes[d].start < FullPages(x) /\ OnPath(x, d)) => q = d
  PROVE  Tree(nodes)
<1>1. ASSUME NEW q \in DOMAIN nodes
      PROVE  q \in Paths /\ nodes[q].start \in Nat
  BY Zenon DEF NodeOK
<1>2. ASSUME NEW q \in DOMAIN nodes, NEW x
      PROVE  x \in SegmentPrefixes(nodes, q)
                 <=> x \in Paths /\ nodes[q].start < FullPages(x) /\ OnPath(x, q)
  BY <1>1, SegmentMember
<1>3. ASSUME NEW q \in DOMAIN nodes, NEW n \in 1..FullPages(q)
      PROVE  \E a \in Holder(nodes, PagePrefix(q, n)) : OnPath(a, q)
  <2>1. q \in Seq(Tokens) /\ FullPages(q) \in Nat /\ n \in 0..FullPages(q) /\ n # 0
    BY <1>1, PathFacts
  <2>2. PagePrefix(q, n) \in Paths /\ FullPages(PagePrefix(q, n)) = n
    BY <2>1, PrefixFacts
  <2>3. OnPath(PagePrefix(q, n), q) /\ PagePrefix(q, n) # Root
    BY <2>1, <2>2, RootPath DEF OnPath
  <2>4. PICK a \in DOMAIN nodes : /\ nodes[a].start < FullPages(PagePrefix(q, n))
                                  /\ OnPath(PagePrefix(q, n), a) /\ OnPath(a, q)
    BY <2>2, <2>3, Zenon
  <2>5. PagePrefix(q, n) \in SegmentPrefixes(nodes, a)
    BY <2>2, <2>4, <1>2, Zenon
  <2> QED BY <2>4, <2>5, Zenon DEF Holder
<1>4. ASSUME NEW q \in DOMAIN nodes, NEW d \in DOMAIN nodes, q # d
      PROVE  SegmentPrefixes(nodes, q) \cap SegmentPrefixes(nodes, d) = {}
  BY <1>2, <1>4, Zenon
<1> QED BY <1>3, <1>4, Zenon DEF Tree

\* Only lock counts change.
SameShape(nodes, new) ==
    /\ DOMAIN new = DOMAIN nodes
    /\ \A q \in DOMAIN nodes :
           /\ NodeOK(q, new[q])
           /\ new[q].start = nodes[q].start /\ new[q].pages = nodes[q].pages
           /\ new[q].computed = nodes[q].computed

\* Every prefix is held with the same page, computed or not.
SameView(nodes, new) ==
    \A x : /\ \A q \in Holder(nodes, x) : \E d \in Holder(new, x) :
                  /\ new[d].pages[FullPages(x)] = nodes[q].pages[FullPages(x)]
                  /\ new[d].computed = nodes[q].computed
           /\ \A d \in Holder(new, x) : \E q \in Holder(nodes, x) :
                  /\ new[d].pages[FullPages(x)] = nodes[q].pages[FullPages(x)]
                  /\ new[d].computed = nodes[q].computed

\* A node with k more locks.
LEMMA NodeLocks ==
  ASSUME NEW q, NEW node, NodeOK(q, node), NEW k \in Int, node.ref + k \in Nat
  PROVE  /\ NodeOK(q, Locks(node, k))
         /\ Locks(node, k).ref = node.ref + k
         /\ Locks(node, k).start = node.start
         /\ Locks(node, k).pages = node.pages
         /\ Locks(node, k).computed = node.computed
<1>1. node = [start |-> node.start, pages |-> node.pages,
              ref |-> node.ref, computed |-> node.computed]
  BY Zenon DEF NodeOK
<1>2. Locks(node, k) = [start |-> node.start, pages |-> node.pages,
                        ref |-> node.ref + k, computed |-> node.computed]
  BY <1>1 DEF Locks
<1> HIDE <1>1
<1> DEFINE new == Locks(node, k)
<1> HIDE DEF new
<1>3. /\ new.ref = node.ref + k /\ new.start = node.start /\ new.pages = node.pages
      /\ new.computed = node.computed
  BY <1>2 DEF new
<1>4. NodeOK(q, new)
  BY <1>2, <1>3, Zenon DEF NodeOK, new
<1> QED BY <1>3, <1>4 DEF new

\* A change of lock counts leaves the tree as it was.
LEMMA ShapeTree ==
  ASSUME NEW nodes, Tree(nodes), NEW new, SameShape(nodes, new)
  PROVE  /\ Tree(new) /\ SameView(nodes, new)
         /\ \A x : Holder(new, x) = Holder(nodes, x)
         /\ \A q \in DOMAIN nodes : SegmentPrefixes(new, q) = SegmentPrefixes(nodes, q)
         /\ \A q : Children(new, q) = Children(nodes, q)
<1>1. \A q \in DOMAIN nodes : SegmentPrefixes(new, q) = SegmentPrefixes(nodes, q)
  BY Zenon DEF SameShape, SegmentPrefixes
<1>2. \A x : Holder(new, x) = Holder(nodes, x)
  BY <1>1, Zenon DEF SameShape, Holder
<1>3. \A q : Children(new, q) = Children(nodes, q)
  BY Zenon DEF SameShape, Children
<1>4. Tree(new)
  BY <1>1, <1>2, Zenon DEF SameShape, Tree
<1>5. SameView(nodes, new)
  BY <1>2, Zenon DEF SameShape, SameView, Holder
<1> QED BY <1>1, <1>2, <1>3, <1>4, <1>5, Zenon

\* A leaf p fits under its parent: nobody holds its first page.
Fits(nodes, p, node) ==
    /\ NodeOK(p, node)
    /\ node.start = 0 \/ PagePrefix(p, node.start) \in DOMAIN nodes
    /\ Holder(nodes, PagePrefix(p, node.start + 1)) = {}

IsInsert(nodes, p, node, new) ==
    /\ DOMAIN new = DOMAIN nodes \cup {p} /\ new[p] = node
    /\ \A d \in DOMAIN nodes : d # p => new[d] = nodes[d]

IsRemove(nodes, V, new) ==
    /\ DOMAIN new = DOMAIN nodes \ V
    /\ \A d \in DOMAIN new : new[d] = nodes[d]

\* No node lies beyond the first page of a leaf that fits.
LEMMA FitsFresh ==
  ASSUME NEW nodes, Tree(nodes), NEW p, NEW node, Fits(nodes, p, node),
         NEW d \in DOMAIN nodes, NEW x \in Paths, OnPath(x, p), node.start < FullPages(x)
  PROVE  ~OnPath(x, d)
<1>1. p \in Paths /\ node.start \in Nat /\ node.start < FullPages(p)
  BY Zenon DEF Fits, NodeOK
<1>2. FullPages(p) \in Nat /\ p \in Seq(Tokens) /\ FullPages(x) \in Nat /\ d \in Paths
  BY <1>1, PathFacts, TreeNode
<1> DEFINE y == PagePrefix(p, node.start + 1)
<1>3. node.start + 1 \in 0..FullPages(p)
  BY <1>1, <1>2
<1>4. y \in Paths /\ FullPages(y) = node.start + 1
  BY <1>2, <1>3, PrefixFacts
<1>5. OnPath(y, p) /\ FullPages(y) <= FullPages(x) /\ y # Root
  BY <1>1, <1>2, <1>3, <1>4, RootPath DEF OnPath
<1> HIDE DEF y
<1>6. OnPath(y, x)
  BY <1>1, <1>4, <1>5, OnPathChain
<1>7. OnPath(x, d) => OnPath(y, d)
  BY <1>2, <1>4, <1>6, OnPathTrans
<1>8. OnPath(y, d) => Holder(nodes, y) # {}
  BY <1>4, <1>5, HolderCover
<1> QED BY <1>7, <1>8 DEF y, Fits

\* A leaf that fits is not in the tree, and no node lies below it.
LEMMA FitsNew ==
  ASSUME NEW nodes, Tree(nodes), NEW p, NEW node, Fits(nodes, p, node)
  PROVE  /\ p \notin DOMAIN nodes /\ p \in Paths /\ node.start \in Nat
         /\ FullPages(p) \in Nat /\ node.start < FullPages(p)
         /\ \A d \in DOMAIN nodes : ~OnPath(p, d)
<1>1. p \in Paths /\ node.start \in Nat /\ node.start < FullPages(p)
  BY Zenon DEF Fits, NodeOK
<1>2. OnPath(p, p) /\ FullPages(p) \in Nat
  BY <1>1, OnPathRefl, PathFacts
<1>3. \A d \in DOMAIN nodes : ~OnPath(p, d)
  BY <1>1, <1>2, FitsFresh
<1> QED BY <1>1, <1>2, <1>3, Zenon

\* The tree with a leaf that fits is a tree.
LEMMA InsertTree ==
  ASSUME NEW nodes, Tree(nodes), NEW p, NEW node, Fits(nodes, p, node),
         NEW new, IsInsert(nodes, p, node, new)
  PROVE  Tree(new)
<1>1. /\ p \notin DOMAIN nodes /\ p \in Paths /\ node.start \in Nat
      /\ FullPages(p) \in Nat /\ node.start < FullPages(p)
  BY FitsNew
<1>2. /\ DOMAIN new = DOMAIN nodes \cup {p} /\ new[p] = node
      /\ \A d \in DOMAIN nodes : new[d] = nodes[d]
  BY <1>1, Zenon DEF IsInsert
<1>3. ASSUME NEW d \in DOMAIN new
      PROVE  /\ NodeOK(d, new[d])
             /\ new[d].start = 0 \/ PagePrefix(d, new[d].start) \in DOMAIN new
  BY <1>2, TreeNode, Zenon DEF Fits
<1>4. ASSUME NEW d \in DOMAIN nodes, NEW x \in Paths, OnPath(x, d), x # Root
      PROVE  \E a \in DOMAIN new : new[a].start < FullPages(x) /\ OnPath(x, a) /\ OnPath(a, d)
  <2>1. PICK a \in Holder(nodes, x) : OnPath(a, d)
    BY <1>4, HolderCover
  <2>2. a \in DOMAIN nodes /\ nodes[a].start < FullPages(x) /\ OnPath(x, a)
    BY <2>1, HolderMember, Zenon
  <2> QED BY <1>2, <2>1, <2>2, Zenon
<1>5. ASSUME NEW x \in Paths, OnPath(x, p), x # Root
      PROVE  \E a \in DOMAIN new : new[a].start < FullPages(x) /\ OnPath(x, a) /\ OnPath(a, p)
  <2>1. CASE node.start < FullPages(x)
    BY <1>1, <1>2, <1>5, <2>1, OnPathRefl, Zenon
  <2>2. CASE ~(node.start < FullPages(x))
    <3> DEFINE up == PagePrefix(p, node.start)
    <3>1. /\ FullPages(x) \in Nat /\ FullPages(x) # 0 /\ FullPages(x) <= node.start
          /\ node.start # 0 /\ node.start \in 0..FullPages(p)
      BY <1>1, <1>5, <2>2, PathFacts, RootPath
    <3>2. up \in DOMAIN nodes /\ up \in Paths /\ FullPages(up) = node.start
      BY <1>1, <3>1, PathFacts DEF Fits
    <3>3. OnPath(x, up) /\ OnPath(up, p)
      BY <1>1, <1>5, <3>1, <3>2, OnPathToPrefix DEF OnPath
    <3>4. PICK a \in DOMAIN new : new[a].start < FullPages(x) /\ OnPath(x, a) /\ OnPath(a, up)
      BY <1>4, <1>5, <3>2, <3>3, Zenon
    <3>5. OnPath(a, p)
      BY <1>1, <1>3, <3>2, <3>3, <3>4, OnPathTrans DEF NodeOK
    <3> QED BY <3>4, <3>5, Zenon
  <2> QED BY <2>1, <2>2, Zenon
<1>6. ASSUME NEW d \in DOMAIN nodes, NEW x \in Paths, new[d].start < FullPages(x), OnPath(x, d),
             new[p].start < FullPages(x), OnPath(x, p)
      PROVE  FALSE
  BY <1>2, <1>6, FitsFresh, Zenon
<1>7. ASSUME NEW d \in DOMAIN nodes, NEW e \in DOMAIN nodes, NEW x \in Paths,
             new[d].start < FullPages(x), OnPath(x, d),
             new[e].start < FullPages(x), OnPath(x, e)
      PROVE  d = e
  <2>1. d \in Holder(nodes, x) /\ e \in Holder(nodes, x)
    BY <1>2, <1>7, HolderMember, Zenon
  <2> QED BY <2>1, HolderUnique
<1>8. \A d, e \in DOMAIN new : \A x \in Paths :
         (/\ new[d].start < FullPages(x) /\ OnPath(x, d)
          /\ new[e].start < FullPages(x) /\ OnPath(x, e)) => d = e
  BY <1>2, <1>6, <1>7, Zenon
<1>9. \A d \in DOMAIN new : \A x \in Paths : OnPath(x, d) /\ x # Root =>
         \E a \in DOMAIN new : new[a].start < FullPages(x) /\ OnPath(x, a) /\ OnPath(a, d)
  <2> SUFFICES ASSUME NEW d \in DOMAIN new, NEW x \in Paths, OnPath(x, d), x # Root
               PROVE  \E a \in DOMAIN new :
                          new[a].start < FullPages(x) /\ OnPath(x, a) /\ OnPath(a, d)
    OBVIOUS
  <2>1. CASE d = p
    BY <1>5, <2>1, Zenon
  <2>2. CASE d \in DOMAIN nodes
    BY <1>4, <2>2, Zenon
  <2> QED BY <1>2, <2>1, <2>2, Zenon
<1> QED BY <1>3, <1>8, <1>9, TreeIntro, Zenon

\* The leaf is the holder of its own prefixes, and no other holder changes.
LEMMA InsertHolder ==
  ASSUME NEW nodes, Tree(nodes), NEW p, NEW node, Fits(nodes, p, node),
         NEW new, IsInsert(nodes, p, node, new), NEW x
  PROVE  /\ \A d \in Holder(nodes, x) : d \in Holder(new, x) /\ new[d] = nodes[d] /\ d # p
         /\ \A d \in Holder(new, x) : d # p => d \in Holder(nodes, x)
         /\ p \in Holder(new, x) <=> x \in Paths /\ node.start < FullPages(x) /\ OnPath(x, p)
<1>1. p \notin DOMAIN nodes /\ Tree(new)
  BY FitsNew, InsertTree, Zenon
<1>2. /\ DOMAIN new = DOMAIN nodes \cup {p} /\ new[p] = node
      /\ \A d \in DOMAIN nodes : new[d] = nodes[d]
  BY <1>1, Zenon DEF IsInsert
<1>3. \A d : d \in Holder(nodes, x) <=> /\ d \in DOMAIN nodes /\ x \in Paths
                                        /\ nodes[d].start < FullPages(x) /\ OnPath(x, d)
  BY HolderMember, Zenon
<1>4. \A d : d \in Holder(new, x) <=> /\ d \in DOMAIN new /\ x \in Paths
                                      /\ new[d].start < FullPages(x) /\ OnPath(x, d)
  BY <1>1, HolderMember, Zenon
<1> QED BY <1>1, <1>2, <1>3, <1>4, Zenon

\* The page a holder has for a prefix.
LEMMA HolderPage ==
  ASSUME NEW nodes, Tree(nodes), NEW x, NEW q \in Holder(nodes, x)
  PROVE  /\ q \in DOMAIN nodes /\ x \in Paths /\ FullPages(x) \in Nat
         /\ FullPages(x) \in (nodes[q].start + 1)..FullPages(q)
         /\ PagePrefix(q, FullPages(x)) = x
         /\ nodes[q].pages[FullPages(x)] \in Range(nodes[q].pages)
         /\ nodes[q].pages[FullPages(x)] \in Pages
<1>1. /\ q \in DOMAIN nodes /\ x \in Paths /\ nodes[q].start < FullPages(x) /\ OnPath(x, q)
  BY HolderMember, Zenon
<1>2. nodes[q].start \in Nat /\ FullPages(x) \in Nat /\ FullPages(q) \in Nat
      /\ nodes[q].pages \in [(nodes[q].start + 1)..FullPages(q) -> Pages]
  BY <1>1, TreeNode, PathFacts, Zenon DEF NodeOK
<1>3. FullPages(x) \in (nodes[q].start + 1)..FullPages(q) /\ PagePrefix(q, FullPages(x)) = x
  BY <1>1, <1>2 DEF OnPath
<1>4. nodes[q].pages[FullPages(x)] \in Range(nodes[q].pages)
      /\ nodes[q].pages[FullPages(x)] \in Pages
  BY <1>2, <1>3, Zenon DEF Range
<1> QED BY <1>1, <1>2, <1>3, <1>4, Zenon

\* Each page of a node is the page of one of its prefixes.
LEMMA PageHolder ==
  ASSUME NEW nodes, Tree(nodes), NEW q \in DOMAIN nodes,
         NEW i \in (nodes[q].start + 1)..FullPages(q)
  PROVE  q \in Holder(nodes, PagePrefix(q, i)) /\ FullPages(PagePrefix(q, i)) = i
<1>1. q \in Paths /\ nodes[q].start \in Nat /\ FullPages(q) \in Nat
  BY TreeNode, Zenon
<1>2. i \in 0..FullPages(q)
  BY <1>1
<1> QED BY <1>1, <1>2, PathFacts, Zenon DEF Holder, SegmentPrefixes

\* Page p is the tree's, for some prefix.
HasPage(nodes, p) ==
    \E x : \E q \in Holder(nodes, x) : nodes[q].pages[FullPages(x)] = p

\* The tree holds no page for two prefixes.
Distinct(nodes) ==
    \A x, y : \A q \in Holder(nodes, x) : \A d \in Holder(nodes, y) :
        nodes[q].pages[FullPages(x)] = nodes[d].pages[FullPages(y)] => x = y

\* Page ownership without the tree's shape.
OwnedX(free, lost, NP, PR) ==
    /\ free \cup lost \cup NP \cup UNION {PR[r] : r \in Requests} = Pages
    /\ free \cap lost = {} /\ (free \cup lost) \cap NP = {}
    /\ \A r \in Requests :
           /\ PR[r] \cap (free \cup lost \cup NP) = {}
           /\ \A o \in Requests : r # o => PR[r] \cap PR[o] = {}

\* Ownership of the pages, prefix by prefix.
LEMMA OwnedView ==
  \A c, PR :
      /\ Tree(c.nodes)
    =>   Owned(c, PR) <=> OwnedX(c.free, c.lost, NodePages(c.nodes), PR) /\ Distinct(c.nodes)
\* No page is in two nodes, prefix by prefix.
<1>DistinctX.
  ASSUME NEW nodes, Tree(nodes)
  PROVE  Distinct(nodes) <=>
             \A q, d \in DOMAIN nodes :
                 q # d => Range(nodes[q].pages) \cap Range(nodes[d].pages) = {}
  <2> USE <1>DistinctX
  <2>1. ASSUME Distinct(nodes), NEW q \in DOMAIN nodes, NEW d \in DOMAIN nodes, NEW p,
               p \in Range(nodes[q].pages), p \in Range(nodes[d].pages)
        PROVE  q = d
    <3>1. /\ DOMAIN nodes[q].pages = (nodes[q].start + 1)..FullPages(q)
          /\ DOMAIN nodes[d].pages = (nodes[d].start + 1)..FullPages(d)
      BY TreeNode, Zenon DEF NodeOK
    <3>2. PICK i \in (nodes[q].start + 1)..FullPages(q) : nodes[q].pages[i] = p
      BY <2>1, <3>1, Zenon DEF Range
    <3>3. PICK j \in (nodes[d].start + 1)..FullPages(d) : nodes[d].pages[j] = p
      BY <2>1, <3>1, Zenon DEF Range
    <3>4. PagePrefix(q, i) = PagePrefix(d, j)
      <4>1. q \in Holder(nodes, PagePrefix(q, i)) /\ FullPages(PagePrefix(q, i)) = i
        BY PageHolder, Zenon
      <4>2. d \in Holder(nodes, PagePrefix(d, j)) /\ FullPages(PagePrefix(d, j)) = j
        BY PageHolder, Zenon
      <4>3. nodes[q].pages[FullPages(PagePrefix(q, i))] = nodes[d].pages[FullPages(PagePrefix(d, j))]
        BY <3>2, <3>3, <4>1, <4>2, Zenon
      <4> QED BY <2>1, <4>1, <4>2, <4>3, Zenon DEF Distinct
    <3>5. q \in Holder(nodes, PagePrefix(q, i)) /\ d \in Holder(nodes, PagePrefix(d, j))
      BY PageHolder, Zenon
    <3> QED BY <3>4, <3>5, HolderUnique, Zenon
  <2>2. ASSUME \A q, d \in DOMAIN nodes :
                   q # d => Range(nodes[q].pages) \cap Range(nodes[d].pages) = {},
               NEW x, NEW y, NEW q \in Holder(nodes, x), NEW d \in Holder(nodes, y),
               nodes[q].pages[FullPages(x)] = nodes[d].pages[FullPages(y)]
        PROVE  x = y
    <3>1. /\ q \in DOMAIN nodes /\ nodes[q].pages[FullPages(x)] \in Range(nodes[q].pages)
          /\ FullPages(x) \in (nodes[q].start + 1)..FullPages(q) /\ PagePrefix(q, FullPages(x)) = x
      BY HolderPage, Zenon
    <3>2. /\ d \in DOMAIN nodes /\ nodes[d].pages[FullPages(y)] \in Range(nodes[d].pages)
          /\ FullPages(y) \in (nodes[d].start + 1)..FullPages(d) /\ PagePrefix(d, FullPages(y)) = y
      BY HolderPage, Zenon
    <3>3. q = d
      BY <2>2, <3>1, <3>2, Zenon
    <3>4. /\ DOMAIN nodes[q].pages = (nodes[q].start + 1)..FullPages(q)
          /\ IsInjective(nodes[q].pages)
      BY <3>1, TreeNode, Zenon DEF NodeOK
    <3>5. FullPages(x) = FullPages(y)
      BY <2>2, <3>1, <3>2, <3>3, <3>4, Zenon DEF IsInjective
    <3> QED BY <3>1, <3>2, <3>3, <3>5, Zenon
  <2>3. ASSUME Distinct(nodes)
        PROVE  \A q, d \in DOMAIN nodes :
                   q # d => Range(nodes[q].pages) \cap Range(nodes[d].pages) = {}
    BY <2>1, <2>3, Zenon
  <2>4. ASSUME \A q, d \in DOMAIN nodes :
                   q # d => Range(nodes[q].pages) \cap Range(nodes[d].pages) = {}
        PROVE  Distinct(nodes)
    BY <2>2, <2>4, Zenon DEF Distinct
  <2> QED BY <2>3, <2>4, Zenon
<1> SUFFICES
  ASSUME NEW c, Tree(c.nodes), NEW PR
  PROVE  Owned(c, PR) <=> OwnedX(c.free, c.lost, NodePages(c.nodes), PR) /\ Distinct(c.nodes)
  OBVIOUS
<1> QED BY <1>DistinctX, Zenon DEF Owned, OwnedX

\* The announcements, prefix by prefix.
LEMMA AnnouncedX ==
  ASSUME NEW c
  PROVE  Announced(c) <=> \A x : x \in c.told <=> Matches(c.nodes, x)
<1>1. \A x : Matches(c.nodes, x)
                <=> x \in UNION {SegmentPrefixes(c.nodes, q) :
                                    q \in {n \in DOMAIN c.nodes : c.nodes[n].computed}}
  BY Zenon DEF Matches, Holder
<1> QED BY <1>1, Zenon DEF Announced

\* The rows of the computed nodes, prefix by prefix.
LEMMA WrittenX ==
  ASSUME NEW c, Tree(c.nodes)
  PROVE  Written(c) <=>
             \A x : \A q \in Holder(c.nodes, x) :
                 c.nodes[q].computed => c.rows[c.nodes[q].pages[FullPages(x)]] = x
<1>1. ASSUME Written(c), NEW x, NEW q \in Holder(c.nodes, x), c.nodes[q].computed
      PROVE  c.rows[c.nodes[q].pages[FullPages(x)]] = x
  <2>1. /\ q \in DOMAIN c.nodes /\ FullPages(x) \in (c.nodes[q].start + 1)..FullPages(q)
        /\ PagePrefix(q, FullPages(x)) = x
    BY HolderPage, Zenon
  <2>2. c.rows[c.nodes[q].pages[FullPages(x)]] = PagePrefix(q, FullPages(x))
    BY <1>1, <2>1, Zenon DEF Written
  <2> QED BY <2>1, <2>2, Zenon
<1>2. ASSUME \A x : \A q \in Holder(c.nodes, x) :
                 c.nodes[q].computed => c.rows[c.nodes[q].pages[FullPages(x)]] = x,
             NEW q \in DOMAIN c.nodes, c.nodes[q].computed,
             NEW i \in (c.nodes[q].start + 1)..FullPages(q)
      PROVE  c.rows[c.nodes[q].pages[i]] = PagePrefix(q, i)
  <2>1. q \in Holder(c.nodes, PagePrefix(q, i)) /\ FullPages(PagePrefix(q, i)) = i
    BY PageHolder, Zenon
  <2>2. c.rows[c.nodes[q].pages[FullPages(PagePrefix(q, i))]] = PagePrefix(q, i)
    BY <1>2, <2>1, Zenon
  <2> QED BY <2>1, <2>2, Zenon
<1>3. ASSUME \A x : \A q \in Holder(c.nodes, x) :
                 c.nodes[q].computed => c.rows[c.nodes[q].pages[FullPages(x)]] = x
      PROVE  Written(c)
  BY <1>2, <1>3, Zenon DEF Written
<1> QED BY <1>1, <1>3, Zenon

\* A tree that holds the same pages has the same owners, events and rows.
LEMMA ViewKeeps ==
  \A c, d, PR :
      /\ Tree(c.nodes) /\ Tree(d.nodes) /\ SameView(c.nodes, d.nodes) /\ d.free = c.free
      /\ d.lost = c.lost /\ d.told = c.told /\ d.rows = c.rows /\ Owned(c, PR)
      /\ Announced(c) /\ Written(c)
    =>   Owned(d, PR) /\ Announced(d) /\ Written(d)
\* The tree's pages, prefix by prefix.
<1>NodePagesX.
  ASSUME NEW nodes, Tree(nodes), NEW p
  PROVE  p \in NodePages(nodes) <=> HasPage(nodes, p)
  <2> USE <1>NodePagesX
  <2>1. ASSUME p \in NodePages(nodes)
        PROVE  \E x : \E q \in Holder(nodes, x) : nodes[q].pages[FullPages(x)] = p
    <3>1. PICK q \in DOMAIN nodes : p \in Range(nodes[q].pages)
      BY <2>1, Zenon DEF NodePages
    <3>2. DOMAIN nodes[q].pages = (nodes[q].start + 1)..FullPages(q)
      BY TreeNode, Zenon DEF NodeOK
    <3>3. PICK i \in (nodes[q].start + 1)..FullPages(q) : nodes[q].pages[i] = p
      BY <3>1, <3>2, Zenon DEF Range
    <3> QED BY <3>3, PageHolder, Zenon
  <2>2. ASSUME NEW x, NEW q \in Holder(nodes, x), nodes[q].pages[FullPages(x)] = p
        PROVE  p \in NodePages(nodes)
    <3>1. q \in DOMAIN nodes /\ p \in Range(nodes[q].pages)
      BY <2>2, HolderPage, Zenon
    <3> QED BY <3>1, Zenon DEF NodePages
  <2> QED BY <2>1, <2>2, Zenon DEF HasPage
<1> SUFFICES
  ASSUME NEW c, NEW d, Tree(c.nodes), Tree(d.nodes), SameView(c.nodes, d.nodes), NEW PR,
         d.free = c.free, d.lost = c.lost, d.told = c.told, d.rows = c.rows,
         Owned(c, PR), Announced(c), Written(c)
  PROVE  Owned(d, PR) /\ Announced(d) /\ Written(d)
  OBVIOUS
<1>1. NodePages(d.nodes) = NodePages(c.nodes)
  <2>1. ASSUME NEW p PROVE p \in NodePages(d.nodes) <=> p \in NodePages(c.nodes)
    <3>1. HasPage(c.nodes, p) <=> HasPage(d.nodes, p)
      <4>1. ASSUME NEW x, NEW q \in Holder(c.nodes, x), c.nodes[q].pages[FullPages(x)] = p
            PROVE  HasPage(d.nodes, p)
        BY <4>1, Zenon DEF HasPage, SameView
      <4>2. ASSUME NEW x, NEW q \in Holder(d.nodes, x), d.nodes[q].pages[FullPages(x)] = p
            PROVE  HasPage(c.nodes, p)
        BY <4>2, Zenon DEF HasPage, SameView
      <4> QED BY <4>1, <4>2, Zenon DEF HasPage
    <3> QED BY <3>1, <1>NodePagesX, Zenon
  <2> QED BY <2>1, Zenon
<1>2. Distinct(c.nodes) => Distinct(d.nodes)
  <2> SUFFICES ASSUME Distinct(c.nodes), NEW x, NEW y, NEW a \in Holder(d.nodes, x),
                      NEW b \in Holder(d.nodes, y),
                      d.nodes[a].pages[FullPages(x)] = d.nodes[b].pages[FullPages(y)]
               PROVE  x = y
    BY Zenon DEF Distinct
  <2>1. PICK e \in Holder(c.nodes, x) :
            d.nodes[a].pages[FullPages(x)] = c.nodes[e].pages[FullPages(x)]
    BY Zenon DEF SameView
  <2>2. PICK f \in Holder(c.nodes, y) :
            d.nodes[b].pages[FullPages(y)] = c.nodes[f].pages[FullPages(y)]
    BY Zenon DEF SameView
  <2> QED BY <2>1, <2>2, Zenon DEF Distinct
<1>3. Owned(d, PR)
  BY <1>1, <1>2, OwnedView, Zenon
<1>4. Announced(d)
  <2>1. \A x : Matches(d.nodes, x) <=> Matches(c.nodes, x)
    BY Zenon DEF SameView, Matches
  <2> QED BY <2>1, AnnouncedX, Zenon
<1>5. Written(d)
  <2> SUFFICES ASSUME NEW x, NEW a \in Holder(d.nodes, x), d.nodes[a].computed
               PROVE  d.rows[d.nodes[a].pages[FullPages(x)]] = x
    BY WrittenX, Zenon
  <2>1. PICK e \in Holder(c.nodes, x) :
            /\ d.nodes[a].pages[FullPages(x)] = c.nodes[e].pages[FullPages(x)]
            /\ d.nodes[a].computed = c.nodes[e].computed
    BY Zenon DEF SameView
  <2>2. c.rows[c.nodes[e].pages[FullPages(x)]] = x
    BY <2>1, WrittenX, Zenon
  <2> QED BY <2>1, <2>2, Zenon
<1> QED BY <1>3, <1>4, <1>5, Zenon

\* Between caches c and d the locked path to h keeps its pages, its node keeps
\* its state, and the pages P keep their rows.
Keeps(c, d, h, P) ==
    /\ \A x : OnPath(x, h) =>
           \A q \in Holder(c.nodes, x) : \E e \in Holder(d.nodes, x) :
               d.nodes[e].pages[FullPages(x)] = c.nodes[q].pages[FullPages(x)]
    /\ h \in DOMAIN c.nodes =>
           /\ h \in DOMAIN d.nodes /\ d.nodes[h].computed = c.nodes[h].computed
           /\ ~c.nodes[h].computed => d.nodes[h].start = c.nodes[h].start
    /\ \A p \in P : d.rows[p] = c.rows[p]

\* ... for every request but r.
Steady(c, d, r, RL, PR) ==
    \A o \in Requests : o # r => \A h \in RL[o] : Keeps(c, d, h, PR[o])

\* An unchanged tree keeps everything.
LEMMA KeepsRefl ==
  ASSUME NEW c, NEW d, d.nodes = c.nodes, NEW P, \A p \in P : d.rows[p] = c.rows[p], NEW h
  PROVE  Keeps(c, d, h, P)
BY Zenon DEF Keeps

\* What two steps keep, both together keep.
LEMMA KeepsTrans ==
  ASSUME NEW c, NEW d, NEW e, NEW h, NEW P, Keeps(c, d, h, P), Keeps(d, e, h, P)
  PROVE  Keeps(c, e, h, P)
<1>1. ASSUME NEW x, OnPath(x, h), NEW q \in Holder(c.nodes, x)
      PROVE  \E a \in Holder(e.nodes, x) :
                 e.nodes[a].pages[FullPages(x)] = c.nodes[q].pages[FullPages(x)]
  <2>1. PICK b \in Holder(d.nodes, x) :
            d.nodes[b].pages[FullPages(x)] = c.nodes[q].pages[FullPages(x)]
    BY <1>1, Zenon DEF Keeps
  <2> QED BY <1>1, <2>1, Zenon DEF Keeps
<1>2. ASSUME h \in DOMAIN c.nodes
      PROVE  /\ h \in DOMAIN e.nodes /\ e.nodes[h].computed = c.nodes[h].computed
             /\ ~c.nodes[h].computed => e.nodes[h].start = c.nodes[h].start
  BY <1>2, Zenon DEF Keeps
<1>3. \A p \in P : e.rows[p] = c.rows[p]
  BY Zenon DEF Keeps
<1> QED BY <1>1, <1>2, <1>3, Zenon DEF Keeps

\* The same for all other requests.
LEMMA SteadyTrans ==
  ASSUME NEW c, NEW d, NEW e, NEW r, NEW RL, NEW PR,
         Steady(c, d, r, RL, PR), Steady(d, e, r, RL, PR)
  PROVE  Steady(c, e, r, RL, PR)
BY KeepsTrans, Zenon DEF Steady

\* The node of an allocation ends where its own pages begin.
LEMMA AllocNode ==
  ASSUME NEW a \in Allocation, AllocShape(a)
  PROVE  /\ a.tokens \in Seq(Tokens) /\ a.node \in Paths
         /\ FullPages(a.tokens) \in Nat /\ PrivateFrom(a) \in 0..FullPages(a.tokens)
         /\ a.node = PagePrefix(a.tokens, PrivateFrom(a)) /\ FullPages(a.node) = PrivateFrom(a)
<1>1. a.tokens \in Seq(Tokens) /\ a.inserted \in BOOLEAN
  BY DEF Allocation
<1>2. FullPages(a.tokens) \in Nat
  BY <1>1, PrefixFacts
<1>3. PrivateFrom(a) \in 0..FullPages(a.tokens)
  BY <1>1, <1>2 DEF PrivateFrom, AllocShape
<1>4. a.node = PagePrefix(a.tokens, PrivateFrom(a))
  BY Zenon DEF AllocShape
<1> QED BY <1>1, <1>2, <1>3, <1>4, PrefixFacts

\* An allocation stays as it should be while its path, node and rows are kept.
LEMMA KeepsAlloc ==
  ASSUME NEW c, NEW d, NEW a \in Allocation, AllocOK(c, a),
         a.node = Root \/ a.node \in DOMAIN c.nodes, Keeps(c, d, a.node, PrivatePages(a))
  PROVE  AllocOK(d, a)
<1>0. AllocShape(a) /\ InTree(c, a) /\ OwnRows(c, a)
  BY Zenon DEF AllocOK
<1>1. ASSUME NEW i \in 1..PrivateFrom(a)
      PROVE  \E e \in Holder(d.nodes, PagePrefix(a.tokens, i)) : d.nodes[e].pages[i] = a.table[i]
  <2>1. /\ a.tokens \in Seq(Tokens) /\ PrivateFrom(a) \in 0..FullPages(a.tokens)
        /\ FullPages(a.tokens) \in Nat /\ a.node = PagePrefix(a.tokens, PrivateFrom(a))
    BY <1>0, AllocNode
  <2>2. i \in 0..FullPages(a.tokens) /\ i <= PrivateFrom(a)
    BY <2>1
  <2>3. PagePrefix(a.tokens, i) \in Paths /\ FullPages(PagePrefix(a.tokens, i)) = i
    BY <2>1, <2>2, PrefixFacts
  <2>4. OnPath(PagePrefix(a.tokens, i), a.node)
    BY <2>1, <2>2, <2>3, OnPathOfPrefix
  <2>5. PICK q \in Holder(c.nodes, PagePrefix(a.tokens, i)) : c.nodes[q].pages[i] = a.table[i]
    BY <1>0, Zenon DEF InTree
  <2>6. PICK e \in Holder(d.nodes, PagePrefix(a.tokens, i)) :
            d.nodes[e].pages[FullPages(PagePrefix(a.tokens, i))]
                = c.nodes[q].pages[FullPages(PagePrefix(a.tokens, i))]
    BY <2>4, <2>5, Zenon DEF Keeps
  <2> QED BY <2>3, <2>5, <2>6, Zenon
<1>2. ASSUME a.node # Root
      PROVE  /\ d.nodes[a.node].computed
                   <=> (a.out # <<>> \/ ~a.inserted \/ a.matched = FullPages(a.tokens))
             /\ d.nodes[a.node].computed \/ d.nodes[a.node].start = a.matched
  BY <1>0, <1>2, Zenon DEF InTree, Keeps
<1>3. OwnRows(d, a)
  BY <1>0, Zenon DEF OwnRows, Keeps, PrivatePages
<1> QED BY <1>0, <1>1, <1>2, <1>3, Zenon DEF AllocOK, InTree

\* A cache with other nodes.
LEMMA SetNodes ==
  ASSUME NEW c, IsCache(c), NEW n, NEW d, d = [c EXCEPT !.nodes = n]
  PROVE  /\ IsCache(d) /\ d.nodes = n /\ d.free = c.free /\ d.older = c.older /\ d.host = c.host
         /\ d.told = c.told /\ d.lost = c.lost /\ d.rows = c.rows
<1>1. d = [free |-> c.free, nodes |-> n, older |-> c.older, host |-> c.host,
           told |-> c.told, lost |-> c.lost, rows |-> c.rows]
  BY DEF IsCache
<1> QED BY ONLY <1>1, Zenon DEF IsCache

\* Nodes being prefilled keep their lock.
PrefillsKept(nodes, new, RL, RM) ==
    \A q \in DOMAIN nodes : ~nodes[q].computed =>
        /\ new[q].ref = nodes[q].ref
        /\ \A r \in Requests : q \in RL[r] => q \in RM[r]

\* The invariant when only locks change, none of a node being prefilled.
LEMMA Relock ==
  ASSUME NEW c, NEW RL, NEW SL, NEW PR, NEW PF, CacheOK(c, RL, SL, PR, PF),
         NEW d, IsCache(d), d.free = c.free, d.older = c.older, d.told = c.told,
         d.lost = c.lost, d.rows = c.rows, SameShape(c.nodes, d.nodes),
         NEW RM, NEW SM, Locked(d.nodes, RM, SM), PrefillsKept(c.nodes, d.nodes, RL, RM)
  PROVE  CacheOK(d, RM, SM, PR, PF) /\ \A h, P : Keeps(c, d, h, P)
<1>1. /\ Tree(c.nodes) /\ Stamps(c) /\ Owned(c, PR) /\ Prefilling(c.nodes, RL, PF)
      /\ Announced(c) /\ Written(c)
  BY Zenon DEF CacheOK
<1>2. /\ Tree(d.nodes) /\ SameView(c.nodes, d.nodes)
      /\ \A x : Holder(d.nodes, x) = Holder(c.nodes, x)
      /\ \A q : Children(d.nodes, q) = Children(c.nodes, q)
  BY <1>1, ShapeTree, Zenon
<1>3. Owned(d, PR) /\ Announced(d) /\ Written(d)
  BY <1>1, <1>2, ViewKeeps, Zenon
<1>4. /\ DOMAIN d.nodes = DOMAIN c.nodes
      /\ \A q \in DOMAIN c.nodes :
             d.nodes[q].computed = c.nodes[q].computed /\ d.nodes[q].start = c.nodes[q].start
  BY Zenon DEF SameShape
<1>5. Stamps(d)
  BY <1>1, <1>4, Zenon DEF Stamps
<1>6. Prefilling(d.nodes, RM, PF)
  <2> SUFFICES ASSUME NEW q \in DOMAIN d.nodes, ~d.nodes[q].computed
               PROVE  /\ Children(d.nodes, q) = {} /\ d.nodes[q].ref = 1
                      /\ \E r \in Requests : q \in RM[r] /\ <<q, d.nodes[q].start>> \in PF[r]
    BY Zenon DEF Prefilling
  <2>1. q \in DOMAIN c.nodes /\ ~c.nodes[q].computed /\ d.nodes[q].start = c.nodes[q].start
    BY <1>4, Zenon
  <2>2. /\ Children(c.nodes, q) = {} /\ c.nodes[q].ref = 1
        /\ \E r \in Requests : q \in RL[r] /\ <<q, c.nodes[q].start>> \in PF[r]
    BY <1>1, <2>1, Zenon DEF Prefilling
  <2> QED BY <1>2, <2>1, <2>2, Zenon DEF PrefillsKept
<1>7. ASSUME NEW h, NEW P PROVE Keeps(c, d, h, P)
  BY <1>2, <1>4, Zenon DEF Keeps, SameView
<1> QED BY <1>1, <1>2, <1>3, <1>5, <1>6, <1>7, Zenon DEF CacheOK

\* A node on the way to a computed node, or to the root, is computed.
LEMMA ComputedPath ==
  ASSUME NEW nodes, Tree(nodes), NEW RL, NEW PF, Prefilling(nodes, RL, PF),
         NEW h, h = Root \/ (h \in DOMAIN nodes /\ nodes[h].computed),
         NEW q \in DOMAIN nodes, OnPath(q, h)
  PROVE  nodes[q].computed
<1>1. CASE h = Root
  <2>1. q \in Paths /\ q # Root
    BY TreeNode, Zenon
  <2>2. FullPages(q) \in Nat /\ FullPages(q) <= 0
    BY <1>1, <2>1, PathFacts, RootPath DEF OnPath
  <2>3. FullPages(q) = 0
    BY <2>2
  <2> QED BY <2>1, <2>3, RootPath
<1>2. CASE h \in DOMAIN nodes /\ nodes[h].computed
  BY <1>2, Zenon DEF Prefilling, Children
<1> QED BY <1>1, <1>2, Zenon

\* d is c with one lock less on the path to h.
IsUnlocked(c, h, d) ==
    /\ IsCache(d) /\ d.free = c.free /\ d.older = c.older /\ d.told = c.told /\ d.lost = c.lost
    /\ d.rows = c.rows /\ SameShape(c.nodes, d.nodes)
    /\ \A q \in DOMAIN c.nodes :
           /\ OnPath(q, h) => d.nodes[q].ref = c.nodes[q].ref - 1
           /\ ~OnPath(q, h) => d.nodes[q].ref = c.nodes[q].ref

\* _unlock_path takes one lock off each node of the path and changes nothing else.
LEMMA UnlockShape ==
  ASSUME NEW c, IsCache(c), Tree(c.nodes), NEW h, NEW d, d = UnlockPath(c, h),
         \A q \in DOMAIN c.nodes : OnPath(q, h) => c.nodes[q].ref # 0
  PROVE  IsUnlocked(c, h, d)
<1> DEFINE n == [q \in DOMAIN c.nodes |->
                    IF OnPath(q, h) THEN Locks(c.nodes[q], -1) ELSE c.nodes[q]]
<1>1. d = [c EXCEPT !.nodes = n]
  BY DEF UnlockPath
<1> HIDE DEF n
<1>2. /\ IsCache(d) /\ d.nodes = n /\ d.free = c.free /\ d.older = c.older /\ d.host = c.host
      /\ d.told = c.told /\ d.lost = c.lost /\ d.rows = c.rows
  BY <1>1, SetNodes
<1>3. DOMAIN n = DOMAIN c.nodes
  BY Zenon DEF n
<1>4. ASSUME NEW q \in DOMAIN c.nodes
      PROVE  /\ NodeOK(q, n[q]) /\ n[q].start = c.nodes[q].start
             /\ n[q].pages = c.nodes[q].pages /\ n[q].computed = c.nodes[q].computed
             /\ OnPath(q, h) => n[q].ref = c.nodes[q].ref - 1
             /\ ~OnPath(q, h) => n[q].ref = c.nodes[q].ref
  <2>1. NodeOK(q, c.nodes[q]) /\ c.nodes[q].ref \in Nat
    BY TreeNode, Zenon DEF NodeOK
  <2>2. CASE OnPath(q, h)
    <3>1. c.nodes[q].ref + -1 \in Nat /\ c.nodes[q].ref + -1 = c.nodes[q].ref - 1
      BY <2>1, <2>2
    <3>2. n[q] = Locks(c.nodes[q], -1)
      BY <2>2, Zenon DEF n
    <3> QED BY <2>1, <2>2, <3>1, <3>2, NodeLocks
  <2>3. CASE ~OnPath(q, h)
    <3>1. n[q] = c.nodes[q]
      BY <2>3, Zenon DEF n
    <3> QED BY <2>1, <2>3, <3>1, Zenon
  <2> QED BY <2>2, <2>3, Zenon
<1>5. SameShape(c.nodes, d.nodes)
  BY <1>2, <1>3, <1>4, Zenon DEF SameShape
<1> QED BY <1>2, <1>4, <1>5, Zenon DEF IsUnlocked

\* _unlock_path, for the request r or the session x whose path it is.
LEMMA UnlockRequest ==
  ASSUME LibraryFacts, NEW c, NEW RL, NEW SL, NEW PR, NEW PF, CacheOK(c, RL, SL, PR, PF),
         NEW r, NEW h, NEW RM, AddsLock(Requests, RM, RL, r, h),
         h = Root \/ (h \in DOMAIN c.nodes /\ c.nodes[h].computed),
         NEW d, d = UnlockPath(c, h)
  PROVE  CacheOK(d, RM, SL, PR, PF) /\ \A g, P : Keeps(c, d, g, P)
<1>1. IsCache(c) /\ Tree(c.nodes) /\ Locked(c.nodes, RL, SL) /\ Prefilling(c.nodes, RL, PF)
  BY Zenon DEF CacheOK
<1>2. IsFiniteSet(Requests) /\ IsFiniteSet(Sessions)
  BY RadixAssumption
<1>3. ASSUME NEW q \in DOMAIN c.nodes
      PROVE  /\ c.nodes[q].ref = Cardinality(Lockers(Requests, RL, q))
                                 + Cardinality(Lockers(Sessions, SL, q))
             /\ OnPath(q, h) => Cardinality(Lockers(Requests, RL, q))
                                    = Cardinality(Lockers(Requests, RM, q)) + 1
             /\ ~OnPath(q, h) => Cardinality(Lockers(Requests, RL, q))
                                     = Cardinality(Lockers(Requests, RM, q))
             /\ Cardinality(Lockers(Requests, RM, q)) \in Nat
             /\ Cardinality(Lockers(Sessions, SL, q)) \in Nat
  <2>1. /\ OnPath(q, h) => Cardinality(Lockers(Requests, RL, q))
                               = Cardinality(Lockers(Requests, RM, q)) + 1
        /\ ~OnPath(q, h) => Lockers(Requests, RL, q) = Lockers(Requests, RM, q)
    BY <1>2, LockersAdd
  <2> QED BY <1>1, <1>2, <2>1, LockersFinite, Zenon DEF Locked
<1>4. \A q \in DOMAIN c.nodes : OnPath(q, h) => c.nodes[q].ref # 0
  BY <1>3
<1>4a. IsUnlocked(c, h, d)
  BY <1>1, <1>4, UnlockShape, Zenon
<1>5. /\ IsCache(d) /\ d.free = c.free /\ d.older = c.older
      /\ d.told = c.told /\ d.lost = c.lost /\ d.rows = c.rows
      /\ SameShape(c.nodes, d.nodes)
      /\ \A q \in DOMAIN c.nodes :
             /\ OnPath(q, h) => d.nodes[q].ref = c.nodes[q].ref - 1
             /\ ~OnPath(q, h) => d.nodes[q].ref = c.nodes[q].ref
  BY <1>4a, Zenon DEF IsUnlocked
<1>6. DOMAIN d.nodes = DOMAIN c.nodes
  BY <1>5, Zenon DEF SameShape
<1>7. Locked(d.nodes, RM, SL)
  <2>1. ASSUME NEW q \in DOMAIN d.nodes
        PROVE  d.nodes[q].ref = Cardinality(Lockers(Requests, RM, q))
                                + Cardinality(Lockers(Sessions, SL, q))
    <3>1. q \in DOMAIN c.nodes
      BY <1>6
    <3>2. /\ OnPath(q, h) => d.nodes[q].ref = c.nodes[q].ref - 1
          /\ ~OnPath(q, h) => d.nodes[q].ref = c.nodes[q].ref
      BY <1>5, <3>1, Zenon
    <3> QED BY ONLY <1>3, <3>1, <3>2
  <2>2. /\ \A o \in Requests : RM[o] \subseteq (DOMAIN d.nodes) \cup {Root}
        /\ \A x \in Sessions : SL[x] \subseteq (DOMAIN d.nodes) \cup {Root}
    BY <1>1, <1>6, Zenon DEF Locked, AddsLock
  <2> QED BY <2>1, <2>2, Zenon DEF Locked
<1>8. ASSUME NEW q \in DOMAIN c.nodes, ~c.nodes[q].computed
      PROVE  /\ d.nodes[q].ref = c.nodes[q].ref
             /\ \A o \in Requests : q \in RL[o] => q \in RM[o]
  <2>1. ~OnPath(q, h)
    BY <1>1, <1>8, ComputedPath
  <2>2. d.nodes[q].ref = c.nodes[q].ref
    BY <1>3, <1>5, <2>1
  <2>3. q # h
    BY <1>1, <1>8, TreeNode, Zenon
  <2> QED BY <2>2, <2>3, Zenon DEF AddsLock
<1>9. PrefillsKept(c.nodes, d.nodes, RL, RM)
  BY <1>8, Zenon DEF PrefillsKept
<1> QED BY <1>5, <1>7, <1>9, Relock, Zenon

\* x ends strictly inside the segment of node q.
Inside(nodes, q, x) ==
    /\ q \in DOMAIN nodes /\ x \in Paths /\ x \notin DOMAIN nodes
    /\ nodes[q].start < FullPages(x) /\ FullPages(x) < FullPages(q)
    /\ PagePrefix(q, FullPages(x)) = x /\ OnPath(x, q)

IsSplit(nodes, q, x, new) ==
    /\ DOMAIN new = DOMAIN nodes \cup {x}
    /\ \A d \in DOMAIN nodes : d # q => new[d] = nodes[d]
    /\ new[x].start = nodes[q].start /\ new[q].start = FullPages(x)
    /\ new[x].ref = nodes[q].ref /\ new[q].ref = nodes[q].ref
    /\ new[x].computed = nodes[q].computed /\ new[q].computed = nodes[q].computed
    /\ new[x].pages = [i \in (nodes[q].start + 1)..FullPages(x) |-> nodes[q].pages[i]]
    /\ new[q].pages = [i \in (FullPages(x) + 1)..FullPages(q) |-> nodes[q].pages[i]]
    /\ \A d \in DOMAIN new : NodeOK(d, new[d])

\* _match_and_lock in two steps: the stamps on the tree as split, and the locks.
Stamped(c, new, x) ==
    [c EXCEPT !.nodes = new,
              !.older = Touch(c.older, new, {q \in DOMAIN new : OnPath(q, x)})]

MoreLocks(c, x) ==
    [c EXCEPT !.nodes = [q \in DOMAIN c.nodes |->
                            IF OnPath(q, x) THEN Locks(c.nodes[q], 1) ELSE c.nodes[q]]]

\* The cache of a match before the locks.
LEMMA MatchSplit ==
  \A c, RL, SL, PR, PF, x, new, d :
      /\ CacheOK(c, RL, SL, PR, PF) /\ x \in Paths
      /\ x = Root \/ Matches(c.nodes, x)
      /\ new = SplitPartial(c.nodes, x) /\ d = Stamped(c, new, x)
    =>   /\ CacheOK(d, RL, SL, PR, PF) /\ \A h, P : Keeps(c, d, h, P)
         /\ d.nodes = new /\ (x = Root \/ (x \in DOMAIN new /\ new[x].computed))
\* _split, field by field: the upper node takes the first pages, locks and state.
<1>SplitFacts.
  ASSUME NEW nodes, Tree(nodes), NEW q, NEW x, Inside(nodes, q, x),
         NEW new, new = Split(nodes, q, FullPages(x))
  PROVE  IsSplit(nodes, q, x, new)
  <2> USE <1>SplitFacts
  <2>1. /\ q \in DOMAIN nodes /\ x \in Paths /\ x \notin DOMAIN nodes
        /\ PagePrefix(q, FullPages(x)) = x
    BY Zenon DEF Inside
  <2>2. new = [p \in DOMAIN nodes \cup {x} |->
                  IF p = q THEN [start |-> FullPages(x),
                                 pages |-> [i \in (FullPages(x) + 1)..FullPages(q) |-> nodes[q].pages[i]],
                                 ref |-> nodes[q].ref, computed |-> nodes[q].computed]
                  ELSE IF p = x
                  THEN [start |-> nodes[q].start,
                        pages |-> [i \in (nodes[q].start + 1)..FullPages(x) |-> nodes[q].pages[i]],
                        ref |-> nodes[q].ref, computed |-> nodes[q].computed]
                  ELSE nodes[p]]
    BY <2>1, Zenon DEF Split
  <2>3. DOMAIN new = DOMAIN nodes \cup {x}
    BY <2>2, Zenon
  <2>4. new[q] = [start |-> FullPages(x),
                  pages |-> [i \in (FullPages(x) + 1)..FullPages(q) |-> nodes[q].pages[i]],
                  ref |-> nodes[q].ref, computed |-> nodes[q].computed]
    BY <2>1, <2>2, Zenon
  <2>5. new[x] = [start |-> nodes[q].start,
                  pages |-> [i \in (nodes[q].start + 1)..FullPages(x) |-> nodes[q].pages[i]],
                  ref |-> nodes[q].ref, computed |-> nodes[q].computed]
    BY <2>1, <2>2, Zenon
  <2>6. \A d \in DOMAIN nodes : d # q => new[d] = nodes[d]
    BY <2>1, <2>2, Zenon
  <2>7. /\ new[x].start = nodes[q].start /\ new[q].start = FullPages(x)
        /\ new[x].ref = nodes[q].ref /\ new[q].ref = nodes[q].ref
        /\ new[x].computed = nodes[q].computed /\ new[q].computed = nodes[q].computed
        /\ new[x].pages = [i \in (nodes[q].start + 1)..FullPages(x) |-> nodes[q].pages[i]]
        /\ new[q].pages = [i \in (FullPages(x) + 1)..FullPages(q) |-> nodes[q].pages[i]]
    BY <2>4, <2>5
  <2> HIDE <2>2
  <2>8. /\ q \in Paths /\ nodes[q].start \in Nat /\ FullPages(q) \in Nat /\ FullPages(x) \in Nat
        /\ nodes[q].start < FullPages(x) /\ FullPages(x) < FullPages(q)
        /\ nodes[q].pages \in [(nodes[q].start + 1)..FullPages(q) -> Pages]
        /\ IsInjective(nodes[q].pages) /\ nodes[q].ref \in Nat /\ nodes[q].computed \in BOOLEAN
    BY <2>1, TreeNode, PathFacts, Zenon DEF Inside, NodeOK
  <2>9. /\ new[x].pages \in [(nodes[q].start + 1)..FullPages(x) -> Pages] /\ IsInjective(new[x].pages)
        /\ new[q].pages \in [(FullPages(x) + 1)..FullPages(q) -> Pages] /\ IsInjective(new[q].pages)
    <3>1. /\ (nodes[q].start + 1)..FullPages(x) \subseteq (nodes[q].start + 1)..FullPages(q)
          /\ (FullPages(x) + 1)..FullPages(q) \subseteq (nodes[q].start + 1)..FullPages(q)
      BY <2>8
    <3>2. ASSUME NEW D, D \subseteq (nodes[q].start + 1)..FullPages(q), NEW f,
                 f = [i \in D |-> nodes[q].pages[i]]
          PROVE  f \in [D -> Pages] /\ IsInjective(f)
      BY <2>8, <3>2, Zenon DEF IsInjective
    <3> QED BY <2>7, <3>1, <3>2, Zenon
  <2>10. NodeOK(x, new[x])
    BY <2>1, <2>5, <2>7, <2>8, <2>9, Zenon DEF NodeOK
  <2>11. NodeOK(q, new[q])
    BY <2>4, <2>7, <2>8, <2>9, Zenon DEF NodeOK
  <2>12. ASSUME NEW d \in DOMAIN new PROVE NodeOK(d, new[d])
    BY <2>3, <2>6, <2>10, <2>11, TreeNode, Zenon
  <2> QED BY <2>3, <2>6, <2>7, <2>12, Zenon DEF IsSplit
\* A prefix that a node d of the new tree holds is one that q or d held.
<1>SplitOld.
  ASSUME NEW nodes, Tree(nodes), NEW q, NEW x, Inside(nodes, q, x),
         NEW new, IsSplit(nodes, q, x, new),
         NEW d \in DOMAIN new, NEW y \in Paths, new[d].start < FullPages(y), OnPath(y, d)
  PROVE  /\ d = x => q \in Holder(nodes, y) /\ FullPages(y) <= FullPages(x)
         /\ d = q => q \in Holder(nodes, y) /\ FullPages(y) > FullPages(x)
         /\ d # x /\ d # q => d \in Holder(nodes, y)
  <2> USE <1>SplitOld
  <2>1. /\ q \in DOMAIN nodes /\ x \in Paths /\ OnPath(x, q) /\ q \in Paths
        /\ nodes[q].start \in Nat /\ FullPages(q) \in Nat /\ FullPages(x) \in Nat
        /\ nodes[q].start < FullPages(x) /\ FullPages(x) < FullPages(q)
    BY TreeNode, PathFacts, Zenon DEF Inside
  <2>2. /\ DOMAIN new = DOMAIN nodes \cup {x}
        /\ \A e \in DOMAIN nodes : e # q => new[e] = nodes[e]
        /\ new[x].start = nodes[q].start /\ new[q].start = FullPages(x)
    BY Zenon DEF IsSplit
  <2>3. FullPages(y) \in Nat
    BY PathFacts
  <2>4. CASE d = x
    <3>1. OnPath(y, q)
      BY <2>1, <2>4, OnPathTrans
    <3>2. FullPages(y) <= FullPages(x)
      BY <2>4 DEF OnPath
    <3>3. nodes[q].start < FullPages(y)
      BY <2>2, <2>4, Zenon
    <3> QED BY <2>1, <2>4, <3>1, <3>2, <3>3, HolderMember, Zenon DEF Inside
  <2>5. CASE d = q
    <3>1. FullPages(x) < FullPages(y)
      BY <2>2, <2>5, Zenon
    <3>2. nodes[q].start < FullPages(y) /\ FullPages(y) > FullPages(x)
      BY <2>1, <2>3, <3>1
    <3> QED BY <2>1, <2>5, <3>2, HolderMember, Zenon DEF Inside
  <2>6. CASE d # x /\ d # q
    BY <2>2, <2>6, HolderMember, Zenon
  <2> QED BY <2>4, <2>5, <2>6, Zenon
\* A split tree is a tree.
<1>SplitTree.
  ASSUME NEW nodes, Tree(nodes), NEW q, NEW x, Inside(nodes, q, x),
         NEW new, new = Split(nodes, q, FullPages(x))
  PROVE  Tree(new)
  <2> USE <1>SplitTree
  <2>1. /\ q \in DOMAIN nodes /\ x \in Paths /\ OnPath(x, q) /\ q \in Paths
        /\ PagePrefix(q, FullPages(x)) = x
        /\ nodes[q].start \in Nat /\ FullPages(q) \in Nat /\ FullPages(x) \in Nat
        /\ nodes[q].start < FullPages(x) /\ FullPages(x) < FullPages(q)
    BY TreeNode, PathFacts, Zenon DEF Inside
  <2>2. /\ DOMAIN new = DOMAIN nodes \cup {x}
        /\ \A d \in DOMAIN nodes : d # q => new[d] = nodes[d]
        /\ new[x].start = nodes[q].start /\ new[q].start = FullPages(x)
        /\ \A d \in DOMAIN new : NodeOK(d, new[d])
    <3>1. IsSplit(nodes, q, x, new)
      BY <1>SplitFacts, Zenon
    <3> QED BY <3>1, Zenon DEF IsSplit
  <2>3. ASSUME NEW d \in DOMAIN new, NEW y \in Paths, new[d].start < FullPages(y), OnPath(y, d)
        PROVE  /\ d = x => q \in Holder(nodes, y) /\ FullPages(y) <= FullPages(x)
               /\ d = q => q \in Holder(nodes, y) /\ FullPages(y) > FullPages(x)
               /\ d # x /\ d # q => d \in Holder(nodes, y)
    BY <2>3, <1>SplitFacts, <1>SplitOld, Zenon
  <2>4. ASSUME NEW d \in DOMAIN new
        PROVE  new[d].start = 0 \/ PagePrefix(d, new[d].start) \in DOMAIN new
    <3>1. CASE d = x
      <4>1. nodes[q].start \in 0..FullPages(x)
        BY <2>1
      <4>2. PagePrefix(x, nodes[q].start) = PagePrefix(q, nodes[q].start)
        BY <2>1, <4>1, OnPathPrefix
      <4> QED BY <2>1, <2>2, <3>1, <4>2, TreeNode, Zenon
    <3>2. CASE d = q
      BY <2>1, <2>2, <3>2, Zenon
    <3>3. CASE d # x /\ d # q
      BY <2>2, <3>3, TreeNode, Zenon
    <3> QED BY <3>1, <3>2, <3>3, Zenon
    \* What the old tree covered the new one covers.
  <2>5. ASSUME NEW d \in DOMAIN nodes, NEW y \in Paths, OnPath(y, d), y # Root
        PROVE  \E a \in DOMAIN new : new[a].start < FullPages(y) /\ OnPath(y, a) /\ OnPath(a, d)
    <3>1. PICK a \in Holder(nodes, y) : OnPath(a, d)
      BY <2>5, HolderCover
    <3>2. a \in DOMAIN nodes /\ nodes[a].start < FullPages(y) /\ OnPath(y, a)
      BY <3>1, HolderMember, Zenon
    <3>3. CASE a # q
      BY <2>2, <3>1, <3>2, <3>3, Zenon
    <3>4. CASE a = q /\ FullPages(x) < FullPages(y)
      BY <2>1, <2>2, <3>1, <3>2, <3>4, Zenon
    <3>5. CASE a = q /\ ~(FullPages(x) < FullPages(y))
      <4>1. FullPages(y) \in Nat /\ FullPages(y) <= FullPages(x) /\ d \in Paths
        BY <2>1, <3>5, PathFacts, TreeNode
      <4>2. OnPath(y, x) /\ OnPath(x, d)
        BY <2>1, <3>1, <3>2, <3>5, <4>1, OnPathChain, OnPathTrans
      <4> QED BY <2>2, <3>2, <3>5, <4>2, Zenon
    <3> QED BY <3>3, <3>4, <3>5, Zenon
  <2>6. ASSUME NEW d \in DOMAIN new, NEW y \in Paths, OnPath(y, d), y # Root
        PROVE  \E a \in DOMAIN new : new[a].start < FullPages(y) /\ OnPath(y, a) /\ OnPath(a, d)
    <3>1. CASE d \in DOMAIN nodes
      BY <2>5, <2>6, <3>1, Zenon
    <3>2. CASE d = x
      <4>1. FullPages(y) \in Nat /\ FullPages(y) # 0 /\ OnPath(y, q)
        BY <2>1, <2>6, <3>2, OnPathTrans, PathFacts, RootPath
      <4>2. CASE nodes[q].start < FullPages(y)
        BY <2>1, <2>2, <2>6, <3>2, <4>2, OnPathRefl, Zenon
      <4>3. CASE ~(nodes[q].start < FullPages(y))
        <5> DEFINE up == PagePrefix(q, nodes[q].start)
        <5>1. nodes[q].start # 0 /\ nodes[q].start \in 0..FullPages(q) /\ FullPages(y) <= nodes[q].start
          BY <2>1, <4>1, <4>3
        <5>2. up \in DOMAIN nodes /\ up \in Paths
          BY <2>1, <5>1, TreeNode, Zenon
        <5>3. OnPath(y, up) /\ FullPages(up) = nodes[q].start
          BY <2>1, <4>1, <5>1, OnPathToPrefix, PathFacts
        <5>4. OnPath(up, q)
          BY <2>1, <5>1, <5>3 DEF OnPath
        <5>5. OnPath(up, x)
          BY <2>1, <5>2, <5>3, <5>4, OnPathChain
        <5>6. PICK a \in DOMAIN new : new[a].start < FullPages(y) /\ OnPath(y, a) /\ OnPath(a, up)
          BY <2>5, <2>6, <5>2, <5>3, Zenon
        <5>7. OnPath(a, x)
          <6>1. a \in Paths /\ x \in Paths /\ up \in Paths
            BY <2>1, <2>2, <5>2, <5>6, Zenon DEF NodeOK
          <6> QED BY <5>5, <5>6, <6>1, OnPathTrans, Zenon
        <5> QED BY <3>2, <5>6, <5>7, Zenon
      <4> QED BY <4>2, <4>3, Zenon
    <3> QED BY <2>2, <3>1, <3>2, Zenon
  <2>7. ASSUME NEW d \in DOMAIN new, NEW e \in DOMAIN new, NEW y \in Paths,
               new[d].start < FullPages(y), OnPath(y, d),
               new[e].start < FullPages(y), OnPath(y, e)
        PROVE  d = e
    <3>1. /\ d = x => q \in Holder(nodes, y) /\ FullPages(y) <= FullPages(x)
          /\ d = q => q \in Holder(nodes, y) /\ FullPages(y) > FullPages(x)
          /\ d # x /\ d # q => d \in Holder(nodes, y)
      BY <2>3, <2>7, Zenon
    <3>2. /\ e = x => q \in Holder(nodes, y) /\ FullPages(y) <= FullPages(x)
          /\ e = q => q \in Holder(nodes, y) /\ FullPages(y) > FullPages(x)
          /\ e # x /\ e # q => e \in Holder(nodes, y)
      BY <2>3, <2>7, Zenon
    <3>3. ~(FullPages(y) <= FullPages(x) /\ FullPages(y) > FullPages(x))
      BY <2>1, PathFacts
    <3> QED BY <3>1, <3>2, <3>3, HolderUnique, Zenon
  <2>8. \A d \in DOMAIN new : NodeOK(d, new[d])
    BY <2>2, Zenon
  <2> QED BY <2>4, <2>6, <2>7, <2>8, TreeIntro, Zenon
\* A split moves no page: every prefix has the page it had, computed or not.
<1>SplitView.
  ASSUME NEW nodes, Tree(nodes), NEW q, NEW x, Inside(nodes, q, x),
         NEW new, new = Split(nodes, q, FullPages(x))
  PROVE  SameView(nodes, new)
  <2> USE <1>SplitView
  <2>0. Tree(new) /\ IsSplit(nodes, q, x, new)
    BY <1>SplitTree, <1>SplitFacts, Zenon
  <2>1. /\ q \in DOMAIN nodes /\ x \in Paths /\ OnPath(x, q) /\ q \in Paths
        /\ nodes[q].start \in Nat /\ FullPages(q) \in Nat /\ FullPages(x) \in Nat
        /\ nodes[q].start < FullPages(x) /\ FullPages(x) < FullPages(q)
    BY TreeNode, PathFacts, Zenon DEF Inside
  <2>2. /\ DOMAIN new = DOMAIN nodes \cup {x}
        /\ \A d \in DOMAIN nodes : d # q => new[d] = nodes[d]
        /\ new[x].start = nodes[q].start /\ new[q].start = FullPages(x)
        /\ new[x].computed = nodes[q].computed /\ new[q].computed = nodes[q].computed
        /\ \A i \in (nodes[q].start + 1)..FullPages(x) : new[x].pages[i] = nodes[q].pages[i]
        /\ \A i \in (FullPages(x) + 1)..FullPages(q) : new[q].pages[i] = nodes[q].pages[i]
    BY <2>0, Zenon DEF IsSplit
  <2> SUFFICES ASSUME NEW y
               PROVE  /\ \A a \in Holder(nodes, y) : \E d \in Holder(new, y) :
                            /\ new[d].pages[FullPages(y)] = nodes[a].pages[FullPages(y)]
                            /\ new[d].computed = nodes[a].computed
                      /\ \A d \in Holder(new, y) : \E a \in Holder(nodes, y) :
                            /\ new[d].pages[FullPages(y)] = nodes[a].pages[FullPages(y)]
                            /\ new[d].computed = nodes[a].computed
    BY Zenon DEF SameView
  <2>3. ASSUME y \in Paths, OnPath(y, q), nodes[q].start < FullPages(y)
        PROVE  /\ FullPages(y) <= FullPages(x) =>
                     x \in Holder(new, y) /\ FullPages(y) \in (nodes[q].start + 1)..FullPages(x)
               /\ FullPages(y) > FullPages(x) =>
                     q \in Holder(new, y) /\ FullPages(y) \in (FullPages(x) + 1)..FullPages(q)
    <3>1. FullPages(y) \in Nat /\ FullPages(y) <= FullPages(q)
      BY <2>3, PathFacts DEF OnPath
    <3>2. ASSUME FullPages(y) <= FullPages(x)
          PROVE  x \in Holder(new, y) /\ FullPages(y) \in (nodes[q].start + 1)..FullPages(x)
      <4>1. OnPath(y, x)
        BY <2>1, <2>3, <3>2, OnPathChain
      <4>2. x \in Holder(new, y)
        BY <2>0, <2>2, <2>3, <4>1, HolderMember, Zenon
      <4> QED BY <2>1, <2>3, <3>1, <3>2, <4>2
    <3>3. ASSUME FullPages(y) > FullPages(x)
          PROVE  q \in Holder(new, y) /\ FullPages(y) \in (FullPages(x) + 1)..FullPages(q)
      <4>1. FullPages(x) < FullPages(y)
        BY <2>1, <3>1, <3>3
      <4>2. q \in Holder(new, y)
        BY <2>0, <2>1, <2>2, <2>3, <4>1, HolderMember, Zenon
      <4> QED BY <2>1, <2>3, <3>1, <3>3, <4>2
    <3> QED BY <3>2, <3>3
  <2>4. ASSUME NEW a \in Holder(nodes, y)
        PROVE  \E d \in Holder(new, y) :
                   /\ new[d].pages[FullPages(y)] = nodes[a].pages[FullPages(y)]
                   /\ new[d].computed = nodes[a].computed
    <3>1. /\ y \in Paths /\ a \in DOMAIN nodes /\ nodes[a].start < FullPages(y) /\ OnPath(y, a)
          /\ FullPages(y) \in Nat
      BY HolderMember, PathFacts, Zenon
    <3>2. CASE a # q
      <4>1. a \in Holder(new, y)
        BY <2>0, <2>2, <3>1, <3>2, HolderMember, Zenon
      <4> QED BY <2>2, <3>1, <3>2, <4>1, Zenon
    <3>3. CASE a = q
      <4>1. FullPages(y) <= FullPages(x) \/ FullPages(y) > FullPages(x)
        BY <2>1, <3>1
      <4> QED BY <2>2, <2>3, <3>1, <3>3, <4>1, Zenon
    <3> QED BY <3>2, <3>3, Zenon
  <2>5. ASSUME NEW d \in Holder(new, y)
        PROVE  \E a \in Holder(nodes, y) :
                   /\ new[d].pages[FullPages(y)] = nodes[a].pages[FullPages(y)]
                   /\ new[d].computed = nodes[a].computed
    <3>1. /\ y \in Paths /\ d \in DOMAIN new /\ new[d].start < FullPages(y) /\ OnPath(y, d)
      BY <2>0, HolderMember, Zenon
    <3>2. /\ d = x => q \in Holder(nodes, y) /\ FullPages(y) <= FullPages(x)
          /\ d = q => q \in Holder(nodes, y) /\ FullPages(y) > FullPages(x)
          /\ d # x /\ d # q => d \in Holder(nodes, y)
      BY <2>0, <3>1, <1>SplitOld, Zenon
    <3>3. q \in Holder(nodes, y) => y \in Paths /\ OnPath(y, q) /\ nodes[q].start < FullPages(y)
      BY HolderMember, Zenon
    <3> QED BY <2>2, <2>3, <3>1, <3>2, <3>3, Zenon
  <2> QED BY <2>4, <2>5, Zenon
\* The node a match ends inside, if any, is split.
<1>SplitPartialFacts.
  \A nodes, x, new :
      /\ Tree(nodes) /\ x \in Paths
      /\ x = Root \/ Matches(nodes, x)
      /\ new = SplitPartial(nodes, x)
    =>   \/ new = nodes /\ (x = Root \/ (x \in DOMAIN nodes /\ nodes[x].computed))
         \/ \E q : /\ Inside(nodes, q, x) /\ nodes[q].computed
                   /\ new = Split(nodes, q, FullPages(x))
\* Two nodes on one path that end at the same level are one.
  <2>OnPathAnti.
    ASSUME NEW a \in Paths, NEW q \in Paths, OnPath(a, q), FullPages(q) <= FullPages(a)
    PROVE  a = q
    <3> USE <2>OnPathAnti
    <3>1. FullPages(a) \in Nat /\ FullPages(q) \in Nat /\ PagePrefix(q, FullPages(q)) = q
      BY PathFacts
    <3> QED BY <3>1 DEF OnPath
  \* A match that ends at no node ends inside its holder.
  <2>SplitInside.
    ASSUME NEW nodes, Tree(nodes), NEW x, NEW q \in Holder(nodes, x), x \notin DOMAIN nodes
    PROVE  Inside(nodes, q, x)
    <3> USE <2>SplitInside
    <3>1. /\ q \in DOMAIN nodes /\ x \in Paths /\ nodes[q].start < FullPages(x) /\ OnPath(x, q)
          /\ q \in Paths
      BY HolderMember, TreeNode, Zenon
    <3>2. FullPages(x) \in Nat /\ FullPages(q) \in Nat /\ x # q
      BY <3>1, PathFacts
    <3>3. FullPages(x) < FullPages(q)
      BY <3>1, <3>2, <2>OnPathAnti
    <3> QED BY <3>1, <3>3, Zenon DEF Inside, OnPath
  <2> SUFFICES
    ASSUME NEW nodes, Tree(nodes), NEW x \in Paths, x = Root \/ Matches(nodes, x),
           NEW new, new = SplitPartial(nodes, x)
    PROVE  \/ new = nodes /\ (x = Root \/ (x \in DOMAIN nodes /\ nodes[x].computed))
           \/ \E q : /\ Inside(nodes, q, x) /\ nodes[q].computed
                     /\ new = Split(nodes, q, FullPages(x))
    OBVIOUS
  <2>1. CASE x = Root
    <3>1. ASSUME NEW q \in Holder(nodes, x) PROVE FALSE
      <4>1. q \in DOMAIN nodes /\ nodes[q].start < FullPages(x)
        BY HolderMember, Zenon
      <4> QED BY <2>1, <4>1, RootPath, TreeNode
    <3>2. Holder(nodes, x) = {}
      BY <3>1, Zenon
    <3>3. new = nodes
      BY <3>2 DEF SplitPartial
    <3>4. new = nodes /\ (x = Root \/ (x \in DOMAIN nodes /\ nodes[x].computed))
      BY ONLY <2>1, <3>3, Zenon
    <3> QED BY ONLY <3>4
  <2>2. CASE x # Root /\ x \in DOMAIN nodes
    <3>1. x \in Holder(nodes, x)
      BY <2>2, TreeNode, OnPathRefl, HolderMember, Zenon
    <3>2. nodes[x].computed
      BY <2>2, <3>1, HolderUnique, Zenon DEF Matches
    <3> QED BY <2>2, <3>2, Zenon DEF SplitPartial
  <2>3. CASE x # Root /\ x \notin DOMAIN nodes
    <3> DEFINE q == CHOOSE e \in Holder(nodes, x) : TRUE
    <3>1. PICK d \in Holder(nodes, x) : nodes[d].computed
      BY <2>3, Zenon DEF Matches
    <3>2. q \in Holder(nodes, x)
      BY <3>1, Zenon
    <3>3. new = Split(nodes, q, FullPages(x))
      BY <2>3, <3>1, Zenon DEF SplitPartial
    <3> HIDE DEF q
    <3>4. nodes[q].computed
      BY <3>1, <3>2, HolderUnique, Zenon
    <3>5. Inside(nodes, q, x)
      BY <2>3, <3>2, <2>SplitInside, Zenon
    <3> QED BY <3>3, <3>4, <3>5, Zenon
  <2> QED BY <2>1, <2>2, <2>3, Zenon
\* A split changes nobody's lock count and touches no node being prefilled.
<1>SplitLocks.
  ASSUME NEW nodes, Tree(nodes), NEW RL, NEW SL, NEW PF, Locked(nodes, RL, SL),
         Prefilling(nodes, RL, PF), NEW x, NEW q, Inside(nodes, q, x), nodes[q].computed,
         NEW new, new = Split(nodes, q, FullPages(x))
  PROVE  Locked(new, RL, SL) /\ Prefilling(new, RL, PF)
  <2> USE <1>SplitLocks
  <2>0. IsSplit(nodes, q, x, new)
    BY <1>SplitFacts, Zenon
  <2>1. /\ DOMAIN new = DOMAIN nodes \cup {x}
        /\ \A d \in DOMAIN nodes : d # q => new[d] = nodes[d]
        /\ new[x].ref = nodes[q].ref /\ new[q].ref = nodes[q].ref
        /\ new[x].computed = nodes[q].computed /\ new[q].computed = nodes[q].computed
    BY <2>0, Zenon DEF IsSplit
  <2>2. q \in DOMAIN nodes /\ x \in Paths /\ x \notin DOMAIN nodes /\ OnPath(x, q) /\ q \in Paths
        /\ q \in Holder(nodes, x)
    BY TreeNode, HolderMember, Zenon DEF Inside
  <2>3. ASSUME NEW h, h = Root \/ h \in DOMAIN nodes PROVE OnPath(x, h) <=> OnPath(q, h)
    <3>1. CASE h = Root
      <4>1. FullPages(x) \in Nat /\ FullPages(q) \in Nat /\ FullPages(x) > 0 /\ FullPages(q) > 0
        BY <2>2, TreeNode, PathFacts DEF Inside
      <4> QED BY <3>1, <4>1, RootPath DEF OnPath
    <3>2. CASE h \in DOMAIN nodes
      <4>1. h \in Paths
        BY <3>2, TreeNode, Zenon
      <4>2. OnPath(q, h) => OnPath(x, h)
        BY <2>2, <4>1, OnPathTrans
      <4>3. OnPath(x, h) => OnPath(q, h)
        BY <2>2, <3>2, HolderOnPath, Zenon
      <4> QED BY <4>2, <4>3
    <3> QED BY <2>3, <3>1, <3>2
  <2>4. Lockers(Requests, RL, x) = Lockers(Requests, RL, q)
        /\ Lockers(Sessions, SL, x) = Lockers(Sessions, SL, q)
    <3>1. /\ \A r \in Requests : \A h \in RL[r] : h = Root \/ h \in DOMAIN nodes
          /\ \A s \in Sessions : \A h \in SL[s] : h = Root \/ h \in DOMAIN nodes
      BY Zenon DEF Locked
    <3> QED BY <2>3, <3>1, Zenon DEF Lockers
  <2>5. Locked(new, RL, SL)
    <3>1. ASSUME NEW d \in DOMAIN new
          PROVE  new[d].ref = Cardinality(Lockers(Requests, RL, d))
                              + Cardinality(Lockers(Sessions, SL, d))
      <4>1. d = x \/ d = q \/ (d \in DOMAIN nodes /\ new[d] = nodes[d])
        BY <2>1, Zenon
      <4>2. \A e \in DOMAIN nodes : nodes[e].ref = Cardinality(Lockers(Requests, RL, e))
                                                   + Cardinality(Lockers(Sessions, SL, e))
        BY Zenon DEF Locked
      <4> QED BY <2>1, <2>2, <2>4, <4>1, <4>2, Zenon
    <3> QED BY <2>1, <3>1, Zenon DEF Locked
  <2>6. Prefilling(new, RL, PF)
    <3> SUFFICES ASSUME NEW d \in DOMAIN new, ~new[d].computed
                 PROVE  /\ Children(new, d) = {} /\ new[d].ref = 1
                        /\ \E r \in Requests : d \in RL[r] /\ <<d, new[d].start>> \in PF[r]
      BY Zenon DEF Prefilling
    <3>1. d # x /\ d # q /\ d \in DOMAIN nodes /\ new[d] = nodes[d]
      BY <2>1, Zenon
    <3>2. /\ Children(nodes, d) = {} /\ nodes[d].ref = 1
          /\ \E r \in Requests : d \in RL[r] /\ <<d, nodes[d].start>> \in PF[r]
      BY <3>1, Zenon DEF Prefilling
    <3>3. ~OnPath(d, x)
      <4>1. OnPath(d, x) => OnPath(d, q)
        BY <2>2, <3>1, TreeNode, OnPathTrans
      <4> QED BY <2>2, <3>1, <3>2, <4>1, Zenon DEF Children
    <3>4. Children(new, d) = {}
      BY <2>1, <3>2, <3>3, Zenon DEF Children
    <3> QED BY <3>1, <3>2, <3>4, Zenon
  <2> QED BY <2>5, <2>6
\* _touch of a path keeps the stamps in order.
<1>TouchOrder.
  ASSUME NEW nodes, Tree(nodes), NEW x \in Paths, NEW path,
         path = {q \in DOMAIN nodes : OnPath(q, x)}, NEW older,
         \A p, q \in DOMAIN nodes \ path :
             p # q => (<<p, q>> \in older <=> <<q, p>> \notin older),
         NEW new, new = Touch(older, nodes, path)
  PROVE  /\ new \subseteq (DOMAIN nodes) \X (DOMAIN nodes)
         /\ \A p, q \in DOMAIN nodes :
                p # q => (<<p, q>> \in new <=> <<q, p>> \notin new)
  <2> USE <1>TouchOrder
  <2>1. new \subseteq (DOMAIN nodes) \X (DOMAIN nodes)
    BY Zenon DEF Touch
  <2>2. ASSUME NEW p \in DOMAIN nodes, NEW q \in DOMAIN nodes
        PROVE  <<p, q>> \in new <=> \/ q \in path /\ (p \notin path \/ Len(p) < Len(q))
                                    \/ q \notin path /\ p \notin path /\ <<p, q>> \in older
    BY DEF Touch
  <2>3. ASSUME NEW p \in path, NEW q \in path, p # q
        PROVE  Len(p) < Len(q) <=> ~(Len(q) < Len(p))
    <3>1. p \in Paths /\ q \in Paths /\ OnPath(p, x) /\ OnPath(q, x)
      BY TreeNode, Zenon
    <3>2. /\ p \in Seq(Tokens) /\ q \in Seq(Tokens)
          /\ PagePrefix(x, FullPages(p)) = p /\ PagePrefix(x, FullPages(q)) = q
      BY <3>1, PathFacts DEF OnPath
    <3>3. Len(p) # Len(q)
      BY <2>3, <3>2 DEF FullPages
    <3>4. Len(p) \in Nat /\ Len(q) \in Nat
      BY <3>2
    <3> QED BY <3>3, <3>4
  <2>4. ASSUME NEW p \in DOMAIN nodes, NEW q \in DOMAIN nodes, p # q
        PROVE  <<p, q>> \in new <=> <<q, p>> \notin new
    BY <2>2, <2>3, <2>4, Zenon
  <2> QED BY <2>1, <2>4, Zenon
<1> SUFFICES
  ASSUME NEW c, NEW RL, NEW SL, NEW PR, NEW PF, CacheOK(c, RL, SL, PR, PF),
         NEW x \in Paths, x = Root \/ Matches(c.nodes, x),
         NEW new, new = SplitPartial(c.nodes, x), NEW d, d = Stamped(c, new, x)
  PROVE  /\ CacheOK(d, RL, SL, PR, PF) /\ \A h, P : Keeps(c, d, h, P)
         /\ d.nodes = new /\ (x = Root \/ (x \in DOMAIN new /\ new[x].computed))
  OBVIOUS
<1>1. /\ IsCache(c) /\ Tree(c.nodes) /\ Stamps(c) /\ Locked(c.nodes, RL, SL) /\ Owned(c, PR)
      /\ Prefilling(c.nodes, RL, PF) /\ Announced(c) /\ Written(c)
  BY Zenon DEF CacheOK
<1> DEFINE path == {q \in DOMAIN new : OnPath(q, x)}
           o == Touch(c.older, new, path)
<1>2. d = [free |-> c.free, nodes |-> new, older |-> o, host |-> c.host,
           told |-> c.told, lost |-> c.lost, rows |-> c.rows]
  BY <1>1, Zenon DEF IsCache, Stamped
<1> HIDE DEF o
<1>3. /\ IsCache(d) /\ d.nodes = new /\ d.older = o /\ d.free = c.free
      /\ d.told = c.told /\ d.lost = c.lost /\ d.rows = c.rows
  BY ONLY <1>2, Zenon DEF IsCache
<1>4. /\ Tree(new) /\ SameView(c.nodes, new) /\ Locked(new, RL, SL) /\ Prefilling(new, RL, PF)
      /\ DOMAIN new = DOMAIN c.nodes \cup ({x} \ {Root})
      /\ x = Root \/ (x \in DOMAIN new /\ new[x].computed)
      /\ \A q \in DOMAIN c.nodes :
             /\ new[q].computed = c.nodes[q].computed
             /\ ~c.nodes[q].computed => new[q].start = c.nodes[q].start
  <2>1. \/ new = c.nodes /\ (x = Root \/ (x \in DOMAIN c.nodes /\ c.nodes[x].computed))
        \/ \E q : /\ Inside(c.nodes, q, x) /\ c.nodes[q].computed
                  /\ new = Split(c.nodes, q, FullPages(x))
    BY <1>1, <1>SplitPartialFacts, Zenon
  <2>2. CASE new = c.nodes /\ (x = Root \/ (x \in DOMAIN c.nodes /\ c.nodes[x].computed))
    BY <1>1, <2>2, Zenon DEF SameView
  <2>3. ASSUME NEW q, Inside(c.nodes, q, x), c.nodes[q].computed,
               new = Split(c.nodes, q, FullPages(x))
        PROVE  /\ Tree(new) /\ SameView(c.nodes, new) /\ Locked(new, RL, SL) /\ Prefilling(new, RL, PF)
               /\ DOMAIN new = DOMAIN c.nodes \cup {x} /\ new[x].computed /\ x # Root
               /\ \A e \in DOMAIN c.nodes :
                      /\ new[e].computed = c.nodes[e].computed
                      /\ ~c.nodes[e].computed => new[e].start = c.nodes[e].start
    <3>1. Tree(new) /\ SameView(c.nodes, new) /\ Locked(new, RL, SL) /\ Prefilling(new, RL, PF)
      BY <1>1, <2>3, <1>SplitTree, <1>SplitView, <1>SplitLocks, Zenon
    <3>2. IsSplit(c.nodes, q, x, new)
      BY <1>1, <2>3, <1>SplitFacts, Zenon
    <3>3. x # Root
      <4>1. x \in DOMAIN new
        BY <3>2, Zenon DEF IsSplit
      <4> QED BY <3>1, <4>1, TreeNode, Zenon
    <3> QED BY <2>3, <3>1, <3>2, <3>3, Zenon DEF IsSplit
  <2>4. CASE \E q : /\ Inside(c.nodes, q, x) /\ c.nodes[q].computed
                    /\ new = Split(c.nodes, q, FullPages(x))
    <3>1. PICK q : /\ Inside(c.nodes, q, x) /\ c.nodes[q].computed
                   /\ new = Split(c.nodes, q, FullPages(x))
      BY <2>4
    <3> QED BY <2>3, <3>1, Zenon
  <2> QED BY <2>1, <2>2, <2>4, Zenon
<1>5. Stamps(d)
  <2>1. x \in DOMAIN new => x \in path
    BY OnPathRefl, Zenon
  <2>2. \A p, q \in DOMAIN new \ path :
            p # q => (<<p, q>> \in c.older <=> <<q, p>> \notin c.older)
    BY <1>1, <1>4, <2>1, Zenon DEF Stamps
  <2>3. /\ o \subseteq (DOMAIN new) \X (DOMAIN new)
        /\ \A p, q \in DOMAIN new : p # q => (<<p, q>> \in o <=> <<q, p>> \notin o)
    <3>1. Tree(new) /\ x \in Paths
      BY <1>4
    <3> QED BY ONLY <3>1, <2>2, <1>TouchOrder DEF o, path
  <2> QED BY <1>3, <2>3, ZenonT(30) DEF Stamps
<1>6. Owned(d, PR) /\ Announced(d) /\ Written(d)
  <2>1. Tree(d.nodes) /\ SameView(c.nodes, d.nodes)
    BY <1>3, <1>4
  <2> QED BY ONLY <1>1, <1>3, <2>1, ViewKeeps, Zenon
<1>7. ASSUME NEW h, NEW P PROVE Keeps(c, d, h, P)
  <2>1. /\ SameView(c.nodes, d.nodes) /\ DOMAIN c.nodes \subseteq DOMAIN d.nodes
        /\ \A q \in DOMAIN c.nodes :
               /\ d.nodes[q].computed = c.nodes[q].computed
               /\ ~c.nodes[q].computed => d.nodes[q].start = c.nodes[q].start
    BY ONLY <1>3, <1>4
  <2> QED BY ONLY <1>3, <2>1, Zenon DEF Keeps, SameView
<1>8. CacheOK(d, RL, SL, PR, PF)
  BY <1>3, <1>4, <1>5, <1>6, Zenon DEF CacheOK
<1> QED BY <1>3, <1>4, <1>7, <1>8, Zenon

\* One more lock on the path to x, a request's or a session's.
LocksMore(RL, SL, RM, SM, x) ==
    /\ \A r \in Requests : RL[r] \subseteq RM[r] /\ RM[r] \subseteq RL[r] \cup {x}
    /\ \A y \in Sessions : SM[y] \subseteq SL[y] \cup {x}
    /\ \A q :
           /\ OnPath(q, x) =>
                  Cardinality(Lockers(Requests, RM, q)) + Cardinality(Lockers(Sessions, SM, q))
                      = Cardinality(Lockers(Requests, RL, q))
                        + Cardinality(Lockers(Sessions, SL, q)) + 1
           /\ ~OnPath(q, x) =>
                  Cardinality(Lockers(Requests, RM, q)) + Cardinality(Lockers(Sessions, SM, q))
                      = Cardinality(Lockers(Requests, RL, q))
                        + Cardinality(Lockers(Sessions, SL, q))

\* _match_and_lock: split, touch and lock keep the invariant, and the match is computed.
LEMMA MatchAndLocks ==
  \A c, RL, SL, PR, PF, x, RM, SM, d :
      /\ CacheOK(c, RL, SL, PR, PF) /\ x \in Paths
      /\ x = Root \/ Matches(c.nodes, x)
      /\ LocksMore(RL, SL, RM, SM, x) /\ d = MatchAndLock(c, x)
    =>   /\ CacheOK(d, RM, SM, PR, PF) /\ \A h, P : Keeps(c, d, h, P)
         /\ x = Root \/ (x \in DOMAIN d.nodes /\ d.nodes[x].computed)
\* What the locks change.
<1>LockShape.
  ASSUME NEW c, IsCache(c), Tree(c.nodes), NEW x, NEW d, d = MoreLocks(c, x)
  PROVE  /\ IsCache(d) /\ d.free = c.free /\ d.older = c.older /\ d.host = c.host
         /\ d.told = c.told /\ d.lost = c.lost /\ d.rows = c.rows
         /\ SameShape(c.nodes, d.nodes)
         /\ \A q \in DOMAIN c.nodes :
                /\ OnPath(q, x) => d.nodes[q].ref = c.nodes[q].ref + 1
                /\ ~OnPath(q, x) => d.nodes[q].ref = c.nodes[q].ref
  <2> USE <1>LockShape
  <2> DEFINE n == [q \in DOMAIN c.nodes |->
                      IF OnPath(q, x) THEN Locks(c.nodes[q], 1) ELSE c.nodes[q]]
  <2>1. d = [c EXCEPT !.nodes = n]
    BY Zenon DEF MoreLocks
  <2>2. DOMAIN n = DOMAIN c.nodes
    BY Zenon
  <2>3. ASSUME NEW q \in DOMAIN c.nodes
        PROVE  /\ NodeOK(q, n[q]) /\ n[q].start = c.nodes[q].start
               /\ n[q].pages = c.nodes[q].pages /\ n[q].computed = c.nodes[q].computed
               /\ OnPath(q, x) => n[q].ref = c.nodes[q].ref + 1
               /\ ~OnPath(q, x) => n[q].ref = c.nodes[q].ref
    <3>1. NodeOK(q, c.nodes[q]) /\ c.nodes[q].ref \in Nat
      BY TreeNode, Zenon DEF NodeOK
    <3>2. CASE OnPath(q, x)
      <4>1. c.nodes[q].ref + 1 \in Nat
        BY <3>1
      <4>2. n[q] = Locks(c.nodes[q], 1)
        BY <3>2, Zenon
      <4> HIDE DEF n
      <4> QED BY <3>1, <3>2, <4>1, <4>2, NodeLocks
    <3>3. CASE ~OnPath(q, x)
      <4>1. n[q] = c.nodes[q]
        BY <3>3, Zenon
      <4> HIDE DEF n
      <4> QED BY <3>1, <3>3, <4>1, Zenon
    <3> QED BY <3>2, <3>3, Zenon
  <2> HIDE DEF n
  <2>4. /\ IsCache(d) /\ d.nodes = n /\ d.free = c.free /\ d.older = c.older /\ d.host = c.host
        /\ d.told = c.told /\ d.lost = c.lost /\ d.rows = c.rows
    BY <2>1, SetNodes
  <2>5. SameShape(c.nodes, d.nodes)
    BY <2>2, <2>3, <2>4, Zenon DEF SameShape
  <2> QED BY <2>3, <2>4, <2>5, Zenon
<1> SUFFICES
  ASSUME NEW c, NEW RL, NEW SL, NEW PR, NEW PF, CacheOK(c, RL, SL, PR, PF),
         NEW x \in Paths, x = Root \/ Matches(c.nodes, x),
         NEW RM, NEW SM, LocksMore(RL, SL, RM, SM, x), NEW d, d = MatchAndLock(c, x)
  PROVE  /\ CacheOK(d, RM, SM, PR, PF) /\ \A h, P : Keeps(c, d, h, P)
         /\ x = Root \/ (x \in DOMAIN d.nodes /\ d.nodes[x].computed)
  OBVIOUS
<1>a. PICK new : new = SplitPartial(c.nodes, x)
  OBVIOUS
<1>b. PICK m : m = Stamped(c, new, x)
  OBVIOUS
<1> DEFINE n == [q \in DOMAIN new |-> IF OnPath(q, x) THEN Locks(new[q], 1) ELSE new[q]]
<1>1. /\ CacheOK(m, RL, SL, PR, PF) /\ \A h, P : Keeps(c, m, h, P)
      /\ m.nodes = new /\ (x = Root \/ (x \in DOMAIN new /\ new[x].computed))
  BY <1>a, <1>b, MatchSplit
<1>2. d = [m EXCEPT !.nodes = n]
  <2>1. IsCache(c)
    BY Zenon DEF CacheOK
  <2> DEFINE o == Touch(c.older, new, {q \in DOMAIN new : OnPath(q, x)})
  <2>2. d = [c EXCEPT !.nodes = n, !.older = o]
    BY <1>a, Zenon DEF MatchAndLock, LockPath
  <2>3. m = [c EXCEPT !.nodes = new, !.older = o]
    BY <1>b, Zenon DEF Stamped
  <2> HIDE DEF o, n
  <2> QED BY <2>1, <2>2, <2>3, Zenon DEF IsCache
<1>3. IsCache(m) /\ Tree(m.nodes) /\ Locked(m.nodes, RL, SL) /\ Prefilling(m.nodes, RL, PF)
  BY <1>1, Zenon DEF CacheOK
<1>4. d = MoreLocks(m, x)
  BY <1>1, <1>2, Zenon DEF MoreLocks
<1> HIDE DEF n
<1>5. /\ IsCache(d) /\ d.free = m.free /\ d.older = m.older
      /\ d.told = m.told /\ d.lost = m.lost /\ d.rows = m.rows
      /\ SameShape(m.nodes, d.nodes)
      /\ \A q \in DOMAIN m.nodes :
             /\ OnPath(q, x) => d.nodes[q].ref = m.nodes[q].ref + 1
             /\ ~OnPath(q, x) => d.nodes[q].ref = m.nodes[q].ref
  BY ONLY <1>3, <1>4, <1>LockShape
<1>6. /\ DOMAIN d.nodes = DOMAIN m.nodes
      /\ \A q \in DOMAIN m.nodes : d.nodes[q].computed = m.nodes[q].computed
  BY <1>5, Zenon DEF SameShape
<1>7. x = Root \/ (x \in DOMAIN m.nodes /\ m.nodes[x].computed)
  BY <1>1, Zenon
<1>8. Locked(d.nodes, RM, SM)
  <2>1. ASSUME NEW q \in DOMAIN d.nodes
        PROVE  d.nodes[q].ref = Cardinality(Lockers(Requests, RM, q))
                                + Cardinality(Lockers(Sessions, SM, q))
    <3>1. q \in DOMAIN m.nodes
      BY <1>6, Zenon
    <3>2. m.nodes[q].ref = Cardinality(Lockers(Requests, RL, q))
                           + Cardinality(Lockers(Sessions, SL, q))
      BY <1>3, <3>1, Zenon DEF Locked
    <3>3. CASE OnPath(q, x)
      <4>1. d.nodes[q].ref = m.nodes[q].ref + 1
        BY <1>5, <3>1, <3>3, Zenon
      <4> QED BY <3>2, <3>3, <4>1, Zenon DEF LocksMore
    <3>4. CASE ~OnPath(q, x)
      BY <1>5, <3>1, <3>2, <3>4, Zenon DEF LocksMore
    <3> QED BY <3>3, <3>4
  <2>2. \A r \in Requests : RM[r] \subseteq (DOMAIN d.nodes) \cup {Root}
    BY <1>3, <1>6, <1>7, Zenon DEF Locked, LocksMore
  <2>3. \A y \in Sessions : SM[y] \subseteq (DOMAIN d.nodes) \cup {Root}
    BY <1>3, <1>6, <1>7, Zenon DEF Locked, LocksMore
  <2> QED BY <2>1, <2>2, <2>3, Zenon DEF Locked
<1>9. PrefillsKept(m.nodes, d.nodes, RL, RM)
  <2> SUFFICES ASSUME NEW q \in DOMAIN m.nodes, ~m.nodes[q].computed
               PROVE  /\ d.nodes[q].ref = m.nodes[q].ref
                      /\ \A r \in Requests : q \in RL[r] => q \in RM[r]
    BY Zenon DEF PrefillsKept
  <2>1. ~OnPath(q, x)
    BY <1>3, <1>7, ComputedPath, Zenon
  <2> QED BY <1>5, <2>1, Zenon DEF LocksMore
<1>10. CacheOK(d, RM, SM, PR, PF) /\ \A h, P : Keeps(m, d, h, P)
  BY ONLY <1>1, <1>5, <1>8, <1>9, Relock, Zenon
<1>11. \A h, P : Keeps(c, d, h, P)
  BY <1>1, <1>10, KeepsTrans, Zenon
<1> QED BY <1>6, <1>7, <1>10, <1>11, Zenon

\* The invariant but for the nodes being prefilled.
CoreOK(c, RL, SL, PR) ==
    /\ IsCache(c) /\ Tree(c.nodes) /\ Stamps(c) /\ Locked(c.nodes, RL, SL) /\ Owned(c, PR)
    /\ Announced(c) /\ Written(c)

PagesOf(nodes, V) == UNION {Range(nodes[q].pages) : q \in V}

\* The nodes V, unlocked and with all their children, leave the tree of c.
IsRemoval(c, V, d) ==
    /\ IsCache(d) /\ d.lost = c.lost /\ d.free = c.free \cup PagesOf(c.nodes, V)
    /\ IsRemove(c.nodes, V, d.nodes)
    /\ d.older = {e \in c.older : e[1] \notin V /\ e[2] \notin V}
    /\ d.told = c.told \ UNION {SegmentPrefixes(c.nodes, q) : q \in V}
    /\ \A p \in Pages : p \notin PagesOf(c.nodes, V) => d.rows[p] = c.rows[p]

Unused(nodes, V) ==
    /\ V \subseteq DOMAIN nodes
    /\ \A v \in V : nodes[v].ref = 0 /\ Children(nodes, v) \subseteq V

\* Every locked path and every request's own pages are kept.
Safe(c, d, RL, PR) == \A o \in Requests : \A h \in RL[o] : Keeps(c, d, h, PR[o])

\* Removing unlocked nodes keeps the invariant, the locked paths and the requests' rows.
LEMMA RemovalOK ==
  \A c, RL, SL, PR, V, d :
      /\ LibraryFacts /\ CoreOK(c, RL, SL, PR) /\ Unused(c.nodes, V)
      /\ IsRemoval(c, V, d)
    =>   CoreOK(d, RL, SL, PR) /\ Safe(c, d, RL, PR)
\* The tree without nodes and all below them is a tree.
<1>RemoveTree.
  ASSUME NEW nodes, Tree(nodes), NEW V, \A v \in V : Children(nodes, v) \subseteq V,
         NEW new, IsRemove(nodes, V, new)
  PROVE  /\ Tree(new)
         /\ \A x : \A d : d \in Holder(new, x) <=> d \in Holder(nodes, x) /\ d \notin V
  <2> USE <1>RemoveTree
  <2>1. DOMAIN new = DOMAIN nodes \ V /\ \A d \in DOMAIN new : new[d] = nodes[d]
    BY Zenon DEF IsRemove
  <2>2. ASSUME NEW d \in DOMAIN new, NEW a \in DOMAIN nodes, OnPath(a, d) PROVE a \in DOMAIN new
    BY <2>1, <2>2, Zenon DEF Children
  <2>3. ASSUME NEW d \in DOMAIN new
        PROVE  /\ NodeOK(d, new[d])
               /\ new[d].start = 0 \/ PagePrefix(d, new[d].start) \in DOMAIN new
    <3>1. /\ d \in DOMAIN nodes /\ new[d] = nodes[d] /\ d \in Paths /\ NodeOK(d, nodes[d])
          /\ nodes[d].start \in Nat /\ FullPages(d) \in Nat /\ nodes[d].start < FullPages(d)
          /\ nodes[d].start = 0 \/ PagePrefix(d, nodes[d].start) \in DOMAIN nodes
      BY <2>1, TreeNode, Zenon
    <3>2. nodes[d].start \in 0..FullPages(d)
      BY <3>1
    <3>3. OnPath(PagePrefix(d, nodes[d].start), d)
      BY <3>1, <3>2, PathFacts DEF OnPath
    <3> QED BY <2>2, <3>1, <3>3, Zenon
  <2>4. ASSUME NEW d \in DOMAIN new, NEW x \in Paths, OnPath(x, d), x # Root
        PROVE  \E a \in DOMAIN new : new[a].start < FullPages(x) /\ OnPath(x, a) /\ OnPath(a, d)
    <3>1. PICK a \in Holder(nodes, x) : OnPath(a, d)
      BY <2>1, <2>4, HolderCover
    <3>2. a \in DOMAIN nodes /\ nodes[a].start < FullPages(x) /\ OnPath(x, a)
      BY <3>1, HolderMember, Zenon
    <3> QED BY <2>1, <2>2, <3>1, <3>2, Zenon
  <2>5. ASSUME NEW d \in DOMAIN new, NEW e \in DOMAIN new, NEW x \in Paths,
               new[d].start < FullPages(x), OnPath(x, d),
               new[e].start < FullPages(x), OnPath(x, e)
        PROVE  d = e
    <3>1. d \in Holder(nodes, x) /\ e \in Holder(nodes, x)
      BY <2>1, <2>5, HolderMember, Zenon
    <3> QED BY <3>1, HolderUnique
  <2>6. Tree(new)
    BY <2>3, <2>4, <2>5, TreeIntro, Zenon
  <2>7. ASSUME NEW x, NEW d
        PROVE  d \in Holder(new, x) <=> d \in Holder(nodes, x) /\ d \notin V
    <3>1. d \in Holder(nodes, x) <=> /\ d \in DOMAIN nodes /\ x \in Paths
                                     /\ nodes[d].start < FullPages(x) /\ OnPath(x, d)
      BY HolderMember, Zenon
    <3>2. d \in Holder(new, x) <=> /\ d \in DOMAIN new /\ x \in Paths
                                   /\ new[d].start < FullPages(x) /\ OnPath(x, d)
      BY <2>6, HolderMember, Zenon
    <3> QED BY <2>1, <3>1, <3>2, Zenon
  <2> QED BY <2>6, <2>7, Zenon
\* Unlocked nodes are on no request's and no session's path.
<1>UnusedFree.
  ASSUME LibraryFacts,
         NEW nodes, Tree(nodes), NEW RL, NEW SL, Locked(nodes, RL, SL), NEW V, Unused(nodes, V),
         NEW v \in V
  PROVE  /\ \A r \in Requests : \A h \in RL[r] : ~OnPath(v, h)
         /\ \A x \in Sessions : \A h \in SL[x] : ~OnPath(v, h)
  <2> USE <1>UnusedFree
  <2>1. IsFiniteSet(Requests) /\ IsFiniteSet(Sessions)
    BY RadixAssumption
  <2>2. 0 = Cardinality(Lockers(Requests, RL, v)) + Cardinality(Lockers(Sessions, SL, v))
    BY Zenon DEF Locked, Unused
  <2>3. /\ Cardinality(Lockers(Requests, RL, v)) \in Nat
        /\ Cardinality(Lockers(Sessions, SL, v)) \in Nat
    BY <2>1, LockersFinite, Zenon
  <2>4. /\ Cardinality(Lockers(Requests, RL, v)) = 0
        /\ Cardinality(Lockers(Sessions, SL, v)) = 0
    BY <2>2, <2>3
  <2> QED BY <2>1, <2>4, LockersNone, Zenon
\* The pages of removed nodes go to the pool, and no page is lost or doubled.
<1>RemovalPages.
  ASSUME NEW c, NEW PR, Owned(c, PR), NEW V \in SUBSET DOMAIN c.nodes, NEW d, IsRemoval(c, V, d)
  PROVE  /\ NodePages(d.nodes) \cup PagesOf(c.nodes, V) = NodePages(c.nodes)
         /\ NodePages(d.nodes) \cap PagesOf(c.nodes, V) = {}
         /\ Owned(d, PR)
  <2> USE <1>RemovalPages
  <2>1. /\ DOMAIN d.nodes = DOMAIN c.nodes \ V
        /\ \A q \in DOMAIN d.nodes : d.nodes[q] = c.nodes[q]
        /\ d.lost = c.lost /\ d.free = c.free \cup PagesOf(c.nodes, V)
    BY Zenon DEF IsRemoval, IsRemove
  <2>2. NodePages(d.nodes) \cup PagesOf(c.nodes, V) = NodePages(c.nodes)
    <3>1. ASSUME NEW p \in NodePages(c.nodes) PROVE p \in NodePages(d.nodes) \cup PagesOf(c.nodes, V)
      <4>1. PICK q \in DOMAIN c.nodes : p \in Range(c.nodes[q].pages)
        BY Zenon DEF NodePages
      <4>2. CASE q \in V
        BY <4>1, <4>2, Zenon DEF PagesOf
      <4>3. CASE q \notin V
        BY <2>1, <4>1, <4>3, Zenon DEF NodePages
      <4> QED BY <4>2, <4>3
    <3>2. NodePages(d.nodes) \subseteq NodePages(c.nodes)
      BY <2>1, Zenon DEF NodePages
    <3>3. PagesOf(c.nodes, V) \subseteq NodePages(c.nodes)
      BY Zenon DEF NodePages, PagesOf
    <3> QED BY <3>1, <3>2, <3>3, Zenon
  <2>3. \A q, e \in DOMAIN c.nodes :
            q # e => Range(c.nodes[q].pages) \cap Range(c.nodes[e].pages) = {}
    BY Zenon DEF Owned
  <2>4. NodePages(d.nodes) \cap PagesOf(c.nodes, V) = {}
    <3> SUFFICES ASSUME NEW p, p \in NodePages(d.nodes), p \in PagesOf(c.nodes, V) PROVE FALSE
      BY Zenon
    <3>1. PICK q \in DOMAIN d.nodes : p \in Range(d.nodes[q].pages)
      BY Zenon DEF NodePages
    <3>2. PICK v \in V : p \in Range(c.nodes[v].pages)
      BY Zenon DEF PagesOf
    <3> QED BY <2>1, <2>3, <3>1, <3>2, Zenon
  <2>5. Owned(d, PR)
    <3> DEFINE F == PagesOf(c.nodes, V)
               N == NodePages(c.nodes)
               M == NodePages(d.nodes)
               U == UNION {PR[r] : r \in Requests}
    <3>1. /\ c.free \cup c.lost \cup N \cup U = Pages
          /\ c.free \cap c.lost = {} /\ (c.free \cup c.lost) \cap N = {}
          /\ \A r \in Requests :
                 /\ PR[r] \cap (c.free \cup c.lost \cup N) = {}
                 /\ \A o \in Requests : r # o => PR[r] \cap PR[o] = {}
      BY Zenon DEF Owned
    <3>2. M \cup F = N /\ M \cap F = {} /\ d.lost = c.lost /\ d.free = c.free \cup F
      BY <2>1, <2>2, <2>4
    <3>3. \A q, e \in DOMAIN d.nodes :
              q # e => Range(d.nodes[q].pages) \cap Range(d.nodes[e].pages) = {}
      BY <2>1, <2>3, Zenon
    <3> HIDE DEF F, N, M, U
    <3>4. d.free \cup d.lost \cup M \cup U = Pages
      BY <3>1, <3>2
    <3>5. d.free \cap d.lost = {} /\ (d.free \cup d.lost) \cap M = {}
      BY <3>1, <3>2
    <3>6. \A r \in Requests :
              /\ PR[r] \cap (d.free \cup d.lost \cup M) = {}
              /\ \A o \in Requests : r # o => PR[r] \cap PR[o] = {}
      BY <3>1, <3>2
    <3> QED BY <3>3, <3>4, <3>5, <3>6, Zenon DEF Owned, M, U
  <2> QED BY <2>2, <2>4, <2>5
<1> SUFFICES
  ASSUME LibraryFacts, NEW c, NEW RL, NEW SL, NEW PR, CoreOK(c, RL, SL, PR),
         NEW V, Unused(c.nodes, V), NEW d, IsRemoval(c, V, d)
  PROVE  CoreOK(d, RL, SL, PR) /\ Safe(c, d, RL, PR)
  OBVIOUS
<1>1. /\ IsCache(c) /\ Tree(c.nodes) /\ Stamps(c) /\ Locked(c.nodes, RL, SL) /\ Owned(c, PR)
      /\ Announced(c) /\ Written(c)
  BY Zenon DEF CoreOK
<1>2. /\ IsCache(d) /\ IsRemove(c.nodes, V, d.nodes) /\ DOMAIN d.nodes = DOMAIN c.nodes \ V
      /\ \A q \in DOMAIN d.nodes : d.nodes[q] = c.nodes[q]
  BY Zenon DEF IsRemoval, IsRemove
<1>3. V \in SUBSET DOMAIN c.nodes /\ \A v \in V : Children(c.nodes, v) \subseteq V
  BY Zenon DEF Unused
<1>4. /\ Tree(d.nodes)
      /\ \A x : \A e : e \in Holder(d.nodes, x) <=> e \in Holder(c.nodes, x) /\ e \notin V
  BY <1>1, <1>2, <1>3, <1>RemoveTree, Zenon
<1>5. /\ NodePages(d.nodes) \cup PagesOf(c.nodes, V) = NodePages(c.nodes)
      /\ NodePages(d.nodes) \cap PagesOf(c.nodes, V) = {}
      /\ Owned(d, PR)
  BY <1>1, <1>3, <1>RemovalPages, Zenon
<1>6. Stamps(d)
  BY <1>1, <1>2 DEF Stamps, IsRemoval
<1>7. /\ \A r \in Requests : \A h \in RL[r] : \A v \in V : ~OnPath(v, h)
      /\ \A x \in Sessions : \A h \in SL[x] : \A v \in V : ~OnPath(v, h)
  BY <1>1, <1>UnusedFree, Zenon
<1>8. \A v \in V : OnPath(v, v)
  BY <1>1, <1>3, TreeNode, OnPathRefl, Zenon
<1>9. Locked(d.nodes, RL, SL)
  BY <1>1, <1>2, <1>7, <1>8, Zenon DEF Locked
<1>10. Announced(d)
  <2>1. ASSUME NEW x PROVE x \in d.told <=> Matches(d.nodes, x)
    <3>1. x \in c.told <=> Matches(c.nodes, x)
      BY <1>1, AnnouncedX, Zenon
    <3>2. x \in d.told <=> x \in c.told /\ \A v \in V : v \notin Holder(c.nodes, x)
      <4>1. d.told = c.told \ UNION {SegmentPrefixes(c.nodes, q) : q \in V}
        BY Zenon DEF IsRemoval
      <4>2. x \in UNION {SegmentPrefixes(c.nodes, q) : q \in V}
                <=> \E v \in V : x \in SegmentPrefixes(c.nodes, v)
        BY Zenon
      <4>3. \A v \in V : v \in Holder(c.nodes, x) <=> x \in SegmentPrefixes(c.nodes, v)
        BY <1>3, Zenon DEF Holder
      <4> QED BY <4>1, <4>2, <4>3, Zenon
    <3>3. ASSUME NEW q \in Holder(c.nodes, x) PROVE \A v \in Holder(c.nodes, x) : v = q
      BY <1>1, HolderUnique, Zenon
    <3>4. \A q \in Holder(d.nodes, x) : d.nodes[q] = c.nodes[q]
      BY <1>2, Zenon DEF Holder
    <3> QED BY <1>4, <3>1, <3>2, <3>3, <3>4, Zenon DEF Matches
  <2> QED BY <2>1, AnnouncedX, Zenon
<1>11. Written(d)
  <2> SUFFICES ASSUME NEW x, NEW q \in Holder(d.nodes, x), d.nodes[q].computed
               PROVE  d.rows[d.nodes[q].pages[FullPages(x)]] = x
    BY <1>4, WrittenX, Zenon
  <2>1. q \in Holder(c.nodes, x) /\ d.nodes[q] = c.nodes[q]
    BY <1>2, <1>4, Zenon DEF Holder
  <2>2. c.rows[c.nodes[q].pages[FullPages(x)]] = x
    BY <1>1, <2>1, WrittenX, Zenon
  <2>3. /\ d.nodes[q].pages[FullPages(x)] \in Range(d.nodes[q].pages)
        /\ d.nodes[q].pages[FullPages(x)] \in Pages /\ q \in DOMAIN d.nodes
    BY <1>4, HolderPage, Zenon
  <2>4. d.nodes[q].pages[FullPages(x)] \notin PagesOf(c.nodes, V)
    BY <1>5, <2>3, Zenon DEF NodePages
  <2> QED BY <2>1, <2>2, <2>3, <2>4, Zenon DEF IsRemoval
<1>12. ASSUME NEW o \in Requests, NEW h \in RL[o] PROVE Keeps(c, d, h, PR[o])
  <2>1. h = Root \/ h \in DOMAIN c.nodes
    BY <1>1, Zenon DEF Locked
  <2>2. ASSUME NEW x, OnPath(x, h), NEW q \in Holder(c.nodes, x)
        PROVE  q \in Holder(d.nodes, x) /\ d.nodes[q] = c.nodes[q]
    <3>1. x \in Paths /\ q \in DOMAIN c.nodes /\ c.nodes[q].start < FullPages(x)
      BY <1>1, HolderMember, Zenon
    <3>2. h \in DOMAIN c.nodes
      <4> SUFFICES ASSUME h = Root PROVE FALSE
        BY <2>1, Zenon
      <4>1. FullPages(x) <= 0
        BY <2>2, RootPath DEF OnPath
      <4> QED BY <1>1, <3>1, <4>1, TreeNode, PathFacts
    <3>3. OnPath(q, h)
      BY <1>1, <2>2, <3>1, <3>2, HolderOnPath, Zenon
    <3> QED BY <1>2, <1>4, <1>7, <3>1, <3>3, Zenon
  <2>3. h \in DOMAIN c.nodes => h \in DOMAIN d.nodes /\ d.nodes[h] = c.nodes[h]
    BY <1>2, <1>7, <1>8, Zenon
  <2>4. ASSUME NEW p \in PR[o] PROVE d.rows[p] = c.rows[p]
    <3>1. p \in Pages /\ p \notin NodePages(c.nodes)
      BY <1>1, Zenon DEF Owned
    <3> QED BY <1>5, <3>1, Zenon DEF IsRemoval
  <2> QED BY <2>2, <2>3, <2>4, Zenon DEF Keeps
<1>13. CoreOK(d, RL, SL, PR)
  BY <1>2, <1>4, <1>5, <1>6, <1>9, <1>10, <1>11, Zenon DEF CoreOK
<1> QED BY <1>12, <1>13, Zenon DEF Safe

\* What RemoveNodes does to each field.
IsRemoved(c, V, b) ==
    /\ IsCache(b) /\ b.free = c.free \cup PagesOf(c.nodes, V) /\ b.lost = c.lost
    /\ IsRemove(c.nodes, V, b.nodes) /\ b.host = c.host /\ b.told = c.told
    /\ b.older = {e \in c.older : e[1] \notin V /\ e[2] \notin V}
    /\ \A p \in Pages : p \notin PagesOf(c.nodes, V) => b.rows[p] = c.rows[p]

\* RemoveNodes, field by field.
LEMMA RemovedShape ==
  ASSUME NEW c, IsCache(c), NEW V, NEW b, b = RemoveNodes(c, V)
  PROVE  IsRemoved(c, V, b)
<1> DEFINE F == PagesOf(c.nodes, V)
           n == [q \in DOMAIN c.nodes \ V |-> c.nodes[q]]
           o == {e \in c.older : e[1] \notin V /\ e[2] \notin V}
           w == [p \in Pages |-> IF p \in F THEN <<>> ELSE c.rows[p]]
           k == [free |-> c.free \cup F, nodes |-> n, older |-> o, host |-> c.host,
                 told |-> c.told, lost |-> c.lost, rows |-> w]
<1>1. IsRemove(c.nodes, V, n)
  BY Zenon DEF IsRemove
<1>2. \A p \in Pages : p \notin F => w[p] = c.rows[p]
  BY Zenon
<1>3. PICK a : a = PoolFree(c, F)
  OBVIOUS
<1>4. a = [c EXCEPT !.free = c.free \cup F, !.rows = w]
  BY <1>3, Zenon DEF PoolFree
<1>5. a = [free |-> c.free \cup F, nodes |-> c.nodes, older |-> c.older, host |-> c.host,
           told |-> c.told, lost |-> c.lost, rows |-> w]
  <2> HIDE DEF w, F
  <2> QED BY <1>4, Zenon DEF IsCache
<1>6. b = k
  <2>1. b = [a EXCEPT !.nodes = [q \in DOMAIN a.nodes \ V |-> a.nodes[q]],
                      !.older = {e \in a.older : e[1] \notin V /\ e[2] \notin V}]
    BY <1>3, Zenon DEF RemoveNodes, PagesOf
  <2>2. a.nodes = c.nodes /\ a.older = c.older
    <3> HIDE DEF w, F
    <3> QED BY <1>5
  <2>3. b = [a EXCEPT !.nodes = n, !.older = o]
    BY <2>1, <2>2, Zenon
  <2> HIDE DEF n, o, w, F
  <2> QED BY <1>5, <2>3, Zenon
<1>7. /\ IsCache(b) /\ b.free = c.free \cup F /\ b.nodes = n /\ b.older = o /\ b.host = c.host
      /\ b.told = c.told /\ b.lost = c.lost /\ b.rows = w
  <2> HIDE DEF n, o, w, F
  <2> QED BY ONLY <1>6 DEF IsCache
<1> QED BY <1>1, <1>2, <1>7, Zenon DEF IsRemoved

Victims(v) == {v[j] : j \in 1..Len(v)}

\* _ensure_free keeps the invariant, the locked paths and the requests' rows.
LEMMA EnsureFreeOK ==
  \A c, RL, SL, PR, PF, needed, offload, refuse, room :
      /\ LibraryFacts /\ CacheOK(c, RL, SL, PR, PF)
      /\ room \in EnsureFree(c, needed, offload, refuse)
    =>   /\ CacheOK(room.cache, RL, SL, PR, PF) /\ Safe(c, room.cache, RL, PR)
         /\ \A x : Holder(room.cache.nodes, x) \subseteq Holder(c.nodes, x)
         /\ room.result \in {"ok", "full", "raised"}
         /\ room.result = "ok" => Cardinality(room.cache.free) >= needed
\* _evict_one of the victims, field by field: their prefixes are retracted.
<1>EvictedShape.
  ASSUME NEW c, IsCache(c), NEW V, NEW offload
  PROVE  IsRemoval(c, V, Evicted(c, V, offload))
  <2> USE <1>EvictedShape
  <2> DEFINE S == UNION {SegmentPrefixes(c.nodes, q) : q \in V}
             C == UNION {SegmentPrefixes(c.nodes, q) : q \in {v \in V : c.nodes[v].computed}}
             h == IF offload THEN c.host \cup C ELSE c.host
  <2>1. PICK b : b = RemoveNodes(c, V)
    OBVIOUS
  <2>2. /\ IsCache(b) /\ b.free = c.free \cup PagesOf(c.nodes, V) /\ b.lost = c.lost
        /\ IsRemove(c.nodes, V, b.nodes) /\ b.host = c.host /\ b.told = c.told
        /\ b.older = {e \in c.older : e[1] \notin V /\ e[2] \notin V}
        /\ \A p \in Pages : p \notin PagesOf(c.nodes, V) => b.rows[p] = c.rows[p]
    <3>1. IsRemoved(c, V, b)
      BY <2>1, RemovedShape, Zenon
    <3> QED BY <3>1, Zenon DEF IsRemoved
  <2>3. PICK k : k = Evicted(c, V, offload)
    OBVIOUS
  <2>4. k = [b EXCEPT !.host = h, !.told = c.told \ S]
    BY <2>1, <2>2, <2>3, Zenon DEF Evicted
  <2>5. k = [free |-> b.free, nodes |-> b.nodes, older |-> b.older, host |-> h,
             told |-> c.told \ S, lost |-> b.lost, rows |-> b.rows]
    <3> HIDE DEF S, h
    <3> QED BY <2>2, <2>4, Zenon DEF IsCache
  <2>6. /\ IsCache(k) /\ k.free = b.free /\ k.nodes = b.nodes /\ k.older = b.older
        /\ k.told = c.told \ S /\ k.lost = b.lost /\ k.rows = b.rows
    <3> HIDE DEF S, h
    <3> QED BY ONLY <2>5, Zenon DEF IsCache
  <2> QED BY <2>2, <2>3, <2>6, Zenon DEF IsRemoval
\* The victims of _ensure_free are unlocked, and each is a leaf once the
\* earlier ones are gone.
<1>VictimsUnused.
  ASSUME NEW c, IsCache(c), NEW needed, NEW offload, NEW v \in VictimOrders(c, needed, offload)
  PROVE  Unused(c.nodes, Victims(v))
  <2> USE <1>VictimsUnused
  <2> DEFINE gone(i) == {v[j] : j \in 1..i}
  <2>1. PICK n \in 0..Cardinality(DOMAIN c.nodes) : v \in [1..n -> DOMAIN c.nodes]
    BY Zenon DEF VictimOrders
  <2>2. n \in Nat /\ Len(v) = n
    BY <2>1
  <2>3. \A i \in 1..n : v[i] \in Oldest(AfterVictims(c, v, i - 1, offload))
    BY <2>2, Zenon DEF VictimOrders
  <2>4. ASSUME NEW i \in 1..n
        PROVE  /\ v[i] \in DOMAIN c.nodes /\ c.nodes[v[i]].ref = 0
               /\ Children(c.nodes, v[i]) \subseteq gone(n)
    <3>0. PICK d : d = AfterVictims(c, v, i - 1, offload)
      OBVIOUS
    <3>1. IsRemoval(c, gone(i - 1), d)
      BY <3>0, <1>EvictedShape, Zenon DEF AfterVictims
    <3>2. /\ DOMAIN d.nodes = DOMAIN c.nodes \ gone(i - 1)
          /\ \A q \in DOMAIN d.nodes : d.nodes[q] = c.nodes[q]
      BY <3>1, Zenon DEF IsRemoval, IsRemove
    <3>3. /\ v[i] \in DOMAIN d.nodes /\ d.nodes[v[i]].ref = 0 /\ Children(d.nodes, v[i]) = {}
      BY <2>3, <3>0, Zenon DEF Oldest, Evictable
    <3>4. gone(i - 1) \subseteq gone(n)
      <4>1. 1..(i - 1) \subseteq 1..n
        BY <2>2
      <4> QED BY <4>1, Zenon
    <3>5. Children(c.nodes, v[i]) \subseteq gone(i - 1)
      BY <3>2, <3>3, Zenon DEF Children
    <3> QED BY <3>2, <3>3, <3>4, <3>5, Zenon
  <2> QED BY <2>2, <2>4, Zenon DEF Unused, Victims
\* An eviction keeps the invariant, since a node being prefilled is locked.
<1>EvictOK.
  ASSUME LibraryFacts, NEW c, NEW RL, NEW SL, NEW PR, NEW PF, CacheOK(c, RL, SL, PR, PF),
         NEW V, Unused(c.nodes, V), NEW d, IsRemoval(c, V, d)
  PROVE  /\ CacheOK(d, RL, SL, PR, PF) /\ Safe(c, d, RL, PR)
         /\ \A x : Holder(d.nodes, x) \subseteq Holder(c.nodes, x)
  <2> USE <1>EvictOK
  <2>1. CoreOK(c, RL, SL, PR) /\ Prefilling(c.nodes, RL, PF) /\ Tree(c.nodes)
    BY Zenon DEF CacheOK, CoreOK
  <2>2. CoreOK(d, RL, SL, PR) /\ Safe(c, d, RL, PR)
    BY <2>1, RemovalOK, Zenon
  <2>3. /\ DOMAIN d.nodes = DOMAIN c.nodes \ V
        /\ \A q \in DOMAIN d.nodes : d.nodes[q] = c.nodes[q]
    BY Zenon DEF IsRemoval, IsRemove
  <2>4. Prefilling(d.nodes, RL, PF)
    BY <2>1, <2>3, Zenon DEF Prefilling, Children
  <2>5. \A x : Holder(d.nodes, x) \subseteq Holder(c.nodes, x)
    BY <2>3, Zenon DEF Holder, SegmentPrefixes
  <2> QED BY <2>2, <2>4, <2>5, Zenon DEF CacheOK, CoreOK
<1> SUFFICES
  ASSUME LibraryFacts, NEW c, NEW RL, NEW SL, NEW PR, NEW PF, CacheOK(c, RL, SL, PR, PF),
         NEW needed, NEW offload, NEW refuse, NEW room \in EnsureFree(c, needed, offload, refuse)
  PROVE  /\ CacheOK(room.cache, RL, SL, PR, PF) /\ Safe(c, room.cache, RL, PR)
         /\ \A x : Holder(room.cache.nodes, x) \subseteq Holder(c.nodes, x)
         /\ room.result \in {"ok", "full", "raised"}
         /\ room.result = "ok" => Cardinality(room.cache.free) >= needed
  OBVIOUS
<1>1. PICK v \in VictimOrders(c, needed, offload) :
          room = [cache |-> AfterVictims(c, v, Len(v), offload),
                  result |-> RoomResult(AfterVictims(c, v, Len(v), offload), needed)]
  BY Zenon DEF EnsureFree
<1>2. PICK V : V = Victims(v)
  OBVIOUS
<1>3. PICK d : d = Evicted(c, V, offload)
  OBVIOUS
<1>4. room.cache = d /\ room.result = RoomResult(d, needed)
  <2>1. AfterVictims(c, v, Len(v), offload) = d
    BY <1>2, <1>3, Zenon DEF AfterVictims, Victims
  <2> QED BY <1>1, <2>1
<1>5. IsCache(c)
  BY Zenon DEF CacheOK
<1>6. Unused(c.nodes, V) /\ IsRemoval(c, V, d)
  <2>1. Unused(c.nodes, Victims(v))
    BY <1>5, <1>VictimsUnused, Zenon
  <2>2. IsRemoval(c, V, Evicted(c, V, offload))
    BY <1>5, <1>EvictedShape, Zenon
  <2> QED BY <1>2, <1>3, <2>1, <2>2, Zenon
<1>7. /\ CacheOK(d, RL, SL, PR, PF) /\ Safe(c, d, RL, PR)
      /\ \A x : Holder(d.nodes, x) \subseteq Holder(c.nodes, x)
  BY <1>6, <1>EvictOK, Zenon
<1>8. /\ RoomResult(d, needed) \in {"ok", "full", "raised"}
      /\ RoomResult(d, needed) = "ok" => Cardinality(d.free) >= needed
  BY DEF RoomResult
<1> QED BY <1>4, <1>7, <1>8

\* The invariant when the tree stays: pages have one owner, and the computed
\* nodes keep their rows.
LEMMA Repage ==
  ASSUME NEW c, NEW RL, NEW SL, NEW PR, NEW PF, CacheOK(c, RL, SL, PR, PF),
         NEW d, IsCache(d), d.nodes = c.nodes, d.older = c.older, d.told = c.told, Written(d),
         NEW PM, OwnedX(d.free, d.lost, NodePages(c.nodes), PM)
  PROVE  CacheOK(d, RL, SL, PM, PF)
<1>1. /\ Tree(c.nodes) /\ Stamps(c) /\ Locked(c.nodes, RL, SL) /\ Owned(c, PR)
      /\ Prefilling(c.nodes, RL, PF) /\ Announced(c)
  BY Zenon DEF CacheOK
<1>2. Distinct(c.nodes)
  BY <1>1, OwnedView, Zenon
<1>3. Owned(d, PM)
  BY <1>1, <1>2, OwnedView, Zenon
<1>4. Stamps(d) /\ Announced(d)
  <2>1. Stamps(d)
    BY <1>1, Zenon DEF Stamps
  <2>2. Announced(d)
    BY <1>1, AnnouncedX, Zenon
  <2> QED BY <2>1, <2>2
<1> QED BY <1>1, <1>3, <1>4, Zenon DEF CacheOK

\* Computed nodes stay written while their pages keep their rows.
LEMMA RowsKept ==
  ASSUME NEW c, Written(c), Tree(c.nodes), NEW d, d.nodes = c.nodes,
         \A p \in NodePages(c.nodes) : d.rows[p] = c.rows[p]
  PROVE  Written(d)
<1> SUFFICES ASSUME NEW x, NEW q \in Holder(c.nodes, x), c.nodes[q].computed
             PROVE  d.rows[c.nodes[q].pages[FullPages(x)]] = x
  BY WrittenX, Zenon
<1>1. q \in DOMAIN c.nodes /\ c.nodes[q].pages[FullPages(x)] \in Range(c.nodes[q].pages)
  BY HolderPage, Zenon
<1>2. c.nodes[q].pages[FullPages(x)] \in NodePages(c.nodes)
  BY <1>1, Zenon DEF NodePages
<1>3. c.rows[c.nodes[q].pages[FullPages(x)]] = x
  BY WrittenX, Zenon
<1> QED BY <1>2, <1>3, Zenon

\* Request r gets the pages T, or gives them up; the others keep theirs.
Gains(PR, PM, r, T) ==
    /\ r \in Requests /\ PM[r] = PR[r] \cup T
    /\ \A o \in Requests : o # r => PM[o] = PR[o]

Drops(PR, PM, r, T) ==
    /\ r \in Requests /\ T \subseteq PR[r] /\ PM[r] = PR[r] \ T
    /\ \A o \in Requests : o # r => PM[o] = PR[o]

\* Ownership when free pages become a request's.
LEMMA GainsOwned ==
  ASSUME NEW f, NEW l, NEW N, NEW PR, NEW PM, NEW r, NEW T, T \subseteq f,
         OwnedX(f, l, N, PR), Gains(PR, PM, r, T)
  PROVE  OwnedX(f \ T, l, N, PM)
<1> DEFINE U == UNION {PR[o] : o \in Requests}
           W == UNION {PM[o] : o \in Requests}
<1>1. W = U \cup T
  <2>1. ASSUME NEW p \in W PROVE p \in U \cup T
    <3>1. PICK o \in Requests : p \in PM[o]
      BY Zenon
    <3>2. p \in PR[o] \cup T
      BY <3>1, Zenon DEF Gains
    <3> QED BY <3>2, Zenon
  <2>2. ASSUME NEW p \in U \cup T PROVE p \in W
    <3>1. CASE p \in T
      BY <3>1, Zenon DEF Gains
    <3>2. CASE p \in U
      <4>1. PICK o \in Requests : p \in PR[o]
        BY <3>2, Zenon
      <4>2. p \in PM[o]
        BY <4>1, Zenon DEF Gains
      <4> QED BY <4>2, Zenon
    <3> QED BY <3>1, <3>2, Zenon
  <2> QED BY <2>1, <2>2, Zenon
<1>2. /\ f \cup l \cup N \cup U = Pages /\ f \cap l = {} /\ (f \cup l) \cap N = {}
      /\ \A o \in Requests : PR[o] \cap (f \cup l \cup N) = {}
  BY Zenon DEF OwnedX
<1> HIDE DEF U, W
<1>3. /\ (f \ T) \cup l \cup N \cup W = Pages /\ (f \ T) \cap l = {} /\ ((f \ T) \cup l) \cap N = {}
  BY <1>1, <1>2
<1>4. ASSUME NEW o \in Requests PROVE PM[o] \cap ((f \ T) \cup l \cup N) = {}
  <2>1. PM[o] \subseteq PR[o] \cup T
    BY Zenon DEF Gains
  <2> QED BY <1>2, <2>1, Zenon
<1>5. ASSUME NEW o \in Requests, NEW e \in Requests, o # e PROVE PM[o] \cap PM[e] = {}
  <2>1. PR[o] \cap PR[e] = {} /\ PR[o] \cap T = {} /\ PR[e] \cap T = {}
    BY <1>2, <1>5, Zenon DEF OwnedX
  <2>2. (o # r => PM[o] = PR[o]) /\ (e # r => PM[e] = PR[e]) /\ PM[r] = PR[r] \cup T
    BY Zenon DEF Gains
  <2> QED BY <1>5, <2>1, <2>2, Zenon
<1> QED BY <1>3, <1>4, <1>5, Zenon DEF OwnedX, W

\* Ownership when a request's pages go to the pool or to the tree.
LEMMA DropsOwned ==
  ASSUME NEW f, NEW l, NEW N, NEW PR, NEW PM, NEW r, NEW T,
         OwnedX(f, l, N, PR), Drops(PR, PM, r, T),
         NEW g, NEW M, g \cup M = f \cup N \cup T, (g \cup l) \cap M = {},
         g \cap l = {}
  PROVE  OwnedX(g, l, M, PM)
<1> DEFINE U == UNION {PR[o] : o \in Requests}
           W == UNION {PM[o] : o \in Requests}
<1>1. U = W \cup T
  <2>1. ASSUME NEW p \in W PROVE p \in U
    <3>1. PICK o \in Requests : p \in PM[o]
      BY Zenon
    <3>2. p \in PR[o]
      BY <3>1, Zenon DEF Drops
    <3> QED BY <3>2, Zenon
  <2>2. ASSUME NEW p \in U PROVE p \in W \cup T
    <3>1. PICK o \in Requests : p \in PR[o]
      BY Zenon
    <3>2. p \in PM[o] \cup T
      BY <3>1, Zenon DEF Drops
    <3> QED BY <3>2, Zenon
  <2>3. T \subseteq U
    BY Zenon DEF Drops
  <2> QED BY <2>1, <2>2, <2>3, Zenon
<1>2. /\ f \cup l \cup N \cup U = Pages
      /\ \A o \in Requests : PR[o] \cap (f \cup l \cup N) = {}
  BY Zenon DEF OwnedX
<1> HIDE DEF U, W
<1>3. g \cup l \cup M \cup W = Pages
  BY <1>1, <1>2
<1>4. ASSUME NEW o \in Requests PROVE PM[o] \cap (g \cup l \cup M) = {}
  <2>1. PM[o] \subseteq PR[o] /\ PM[o] \cap T = {}
    BY Zenon DEF Drops, OwnedX
  <2> QED BY <1>2, <2>1
<1>5. ASSUME NEW o \in Requests, NEW e \in Requests, o # e PROVE PM[o] \cap PM[e] = {}
  <2>1. PM[o] \subseteq PR[o] /\ PM[e] \subseteq PR[e] /\ PR[o] \cap PR[e] = {}
    BY <1>5, Zenon DEF Drops, OwnedX
  <2> QED BY <2>1, Zenon
<1> QED BY <1>3, <1>4, <1>5, Zenon DEF OwnedX, W

\* PagePool.allocate: free pages become request r's own.
LEMMA TakeOK ==
  ASSUME NEW c, NEW RL, NEW SL, NEW PR, NEW PF, CacheOK(c, RL, SL, PR, PF),
         NEW T, T \subseteq c.free, NEW r, NEW PM, Gains(PR, PM, r, T),
         NEW d, d = PoolAllocate(c, T)
  PROVE  /\ CacheOK(d, RL, SL, PM, PF) /\ \A h, P : Keeps(c, d, h, P)
         /\ d.nodes = c.nodes /\ d.rows = c.rows /\ d.host = c.host
<1>1. IsCache(c) /\ Tree(c.nodes) /\ Owned(c, PR) /\ Written(c)
  BY Zenon DEF CacheOK
<1>2. d = [free |-> c.free \ T, nodes |-> c.nodes, older |-> c.older, host |-> c.host,
           told |-> c.told, lost |-> c.lost, rows |-> c.rows]
  BY <1>1 DEF IsCache, PoolAllocate
<1>3. /\ IsCache(d) /\ d.free = c.free \ T /\ d.nodes = c.nodes /\ d.older = c.older
      /\ d.host = c.host /\ d.told = c.told /\ d.lost = c.lost /\ d.rows = c.rows
  BY ONLY <1>2, Zenon DEF IsCache
<1>4. OwnedX(d.free, d.lost, NodePages(c.nodes), PM)
  <2>1. OwnedX(c.free, c.lost, NodePages(c.nodes), PR)
    BY <1>1, OwnedView, Zenon
  <2>2. OwnedX(c.free \ T, c.lost, NodePages(c.nodes), PM)
    BY <2>1, GainsOwned, Zenon
  <2> QED BY <1>3, <2>2, Zenon
<1>5. Written(d)
  BY <1>1, <1>3, RowsKept, Zenon
<1>6. CacheOK(d, RL, SL, PM, PF)
  BY ONLY CacheOK(c, RL, SL, PR, PF), <1>3, <1>4, <1>5, Repage, Zenon
<1>7. ASSUME NEW h, NEW P PROVE Keeps(c, d, h, P)
  BY <1>3, KeepsRefl, Zenon
<1> QED BY <1>3, <1>6, <1>7, Zenon

\* Node p, a leaf whose pages are request r's, joins the tree of c.
IsInsertion(c, p, node, d) ==
    /\ IsCache(d) /\ d.free = c.free /\ d.lost = c.lost /\ d.rows = c.rows
    /\ IsInsert(c.nodes, p, node, d.nodes)
    /\ d.older = c.older \cup {<<q, p>> : q \in DOMAIN c.nodes}
    /\ node.computed =>
           d.told = c.told \cup {PagePrefix(p, i) : i \in (node.start + 1)..FullPages(p)}
    /\ ~node.computed => d.told = c.told

\* It fits, its parent is computed, and a computed node's pages are written.
MayInsert(c, p, node) ==
    /\ Fits(c.nodes, p, node)
    /\ node.start = 0 \/ c.nodes[PagePrefix(p, node.start)].computed
    /\ node.computed => \A i \in (node.start + 1)..FullPages(p) :
                            c.rows[node.pages[i]] = PagePrefix(p, i)

\* The locks of an insertion: the new node counts its own, the others keep theirs.
LEMMA InsertAnchor ==
  ASSUME NEW nodes, Tree(nodes), NEW p, NEW node, Fits(nodes, p, node)
  PROVE  /\ \A h : h = Root \/ h \in DOMAIN nodes => ~OnPath(p, h)
         /\ \A q \in DOMAIN nodes : OnPath(q, PagePrefix(p, node.start)) <=> OnPath(q, p)
<1>1. /\ p \notin DOMAIN nodes /\ p \in Paths /\ node.start \in Nat
      /\ FullPages(p) \in Nat /\ node.start < FullPages(p)
      /\ \A d \in DOMAIN nodes : ~OnPath(p, d)
  BY FitsNew, Zenon
<1>2. ~OnPath(p, Root)
  BY <1>1, RootPath DEF OnPath
<1>3. ASSUME NEW q \in DOMAIN nodes PROVE OnPath(q, PagePrefix(p, node.start)) <=> OnPath(q, p)
  <2>1. q \in Paths /\ FullPages(q) \in Nat /\ OnPath(q, q)
    BY TreeNode, OnPathRefl, Zenon
  <2>2. node.start \in 0..FullPages(p)
    BY <1>1
  <2>3. OnPath(q, PagePrefix(p, node.start)) <=> OnPath(q, p) /\ FullPages(q) <= node.start
    BY <1>1, <2>1, <2>2, OnPathToPrefix
  <2>4. OnPath(q, p) => ~(node.start < FullPages(q))
    BY <2>1, FitsFresh, Zenon
  <2> QED BY <1>1, <2>1, <2>3, <2>4
<1> QED BY <1>1, <1>2, <1>3, Zenon

\* Nodes of c being prefilled keep their request, and the new one has one.
InsertPrefills(c, p, node, RL, RM, PF, PG) ==
    /\ \A q \in DOMAIN c.nodes : ~c.nodes[q].computed =>
           \A o \in Requests : /\ q \in RL[o] => q \in RM[o]
                               /\ <<q, c.nodes[q].start>> \in PF[o]
                                      => <<q, c.nodes[q].start>> \in PG[o]
    /\ ~node.computed =>
           node.ref = 1 /\ \E o \in Requests : p \in RM[o] /\ <<p, node.start>> \in PG[o]

\* Inserting a leaf that fits keeps the invariant and every locked path.
LEMMA InsertOK ==
  \A c, RL, SL, PR, PF, p, node, d, r, PM, RM, PG :
      /\ CacheOK(c, RL, SL, PR, PF) /\ MayInsert(c, p, node)
      /\ IsInsertion(c, p, node, d) /\ Drops(PR, PM, r, Range(node.pages))
      /\ Locked(d.nodes, RM, SL)
      /\ InsertPrefills(c, p, node, RL, RM, PF, PG)
    =>   /\ CacheOK(d, RM, SL, PM, PG)
         /\ \A h, P : h = Root \/ h \in DOMAIN c.nodes => Keeps(c, d, h, P)
\* The pages of an inserted node change their owner from the request to the tree.
<1>InsertPages.
  ASSUME NEW c, Tree(c.nodes), NEW PR, Owned(c, PR), NEW p, NEW node, Fits(c.nodes, p, node),
         NEW d, IsInsertion(c, p, node, d), NEW r, NEW PM, Drops(PR, PM, r, Range(node.pages))
  PROVE  Owned(d, PM)
  <2> USE <1>InsertPages
  <2>1. /\ DOMAIN d.nodes = DOMAIN c.nodes \cup {p} /\ d.nodes[p] = node /\ p \notin DOMAIN c.nodes
        /\ \A q \in DOMAIN c.nodes : d.nodes[q] = c.nodes[q]
        /\ d.free = c.free /\ d.lost = c.lost
    BY FitsNew, Zenon DEF IsInsertion, IsInsert
  <2>2. NodePages(d.nodes) = NodePages(c.nodes) \cup Range(node.pages)
    <3>1. ASSUME NEW g \in NodePages(d.nodes) PROVE g \in NodePages(c.nodes) \cup Range(node.pages)
      <4>1. PICK q \in DOMAIN d.nodes : g \in Range(d.nodes[q].pages)
        BY Zenon DEF NodePages
      <4> QED BY <2>1, <4>1, Zenon DEF NodePages
    <3>2. NodePages(c.nodes) \subseteq NodePages(d.nodes)
      BY <2>1, Zenon DEF NodePages
    <3>3. Range(node.pages) \subseteq NodePages(d.nodes)
      BY <2>1, Zenon DEF NodePages
    <3> QED BY <3>1, <3>2, <3>3, Zenon
  <2>3. OwnedX(c.free, c.lost, NodePages(c.nodes), PR)
    BY OwnedView, Zenon
  <2>4. Range(node.pages) \subseteq PR[r] /\ r \in Requests
    BY Zenon DEF Drops
  <2>5. /\ Range(node.pages) \cap (c.free \cup c.lost \cup NodePages(c.nodes)) = {}
        /\ c.free \cap c.lost = {} /\ (c.free \cup c.lost) \cap NodePages(c.nodes) = {}
    BY <2>3, <2>4, Zenon DEF OwnedX
  <2>6. OwnedX(c.free, c.lost, NodePages(d.nodes), PM)
    <3>1. /\ c.free \cup NodePages(d.nodes) = c.free \cup NodePages(c.nodes) \cup Range(node.pages)
          /\ (c.free \cup c.lost) \cap NodePages(d.nodes) = {}
      BY <2>2, <2>5, Zenon
    <3> QED BY <2>3, <2>5, <3>1, DropsOwned, Zenon
  <2>7. \A q, e \in DOMAIN d.nodes :
            q # e => Range(d.nodes[q].pages) \cap Range(d.nodes[e].pages) = {}
    <3>1. \A q, e \in DOMAIN c.nodes :
              q # e => Range(c.nodes[q].pages) \cap Range(c.nodes[e].pages) = {}
      BY Zenon DEF Owned
    <3>2. \A q \in DOMAIN c.nodes : Range(c.nodes[q].pages) \cap Range(node.pages) = {}
      BY <2>5, Zenon DEF NodePages
    <3> QED BY <2>1, <3>1, <3>2, Zenon
  <2> QED BY <2>1, <2>6, <2>7, Zenon DEF Owned, OwnedX
<1> TAKE c, RL, SL, PR, PF, p, node, d, r, PM, RM, PG
<1> HAVE /\ CacheOK(c, RL, SL, PR, PF) /\ MayInsert(c, p, node)
         /\ IsInsertion(c, p, node, d) /\ Drops(PR, PM, r, Range(node.pages))
         /\ Locked(d.nodes, RM, SL)
         /\ InsertPrefills(c, p, node, RL, RM, PF, PG)
<1>1. /\ IsCache(c) /\ Tree(c.nodes) /\ Stamps(c) /\ Owned(c, PR)
      /\ Prefilling(c.nodes, RL, PF) /\ Announced(c) /\ Written(c)
  BY Zenon DEF CacheOK
<1>2. /\ Fits(c.nodes, p, node)
      /\ node.start = 0 \/ c.nodes[PagePrefix(p, node.start)].computed
      /\ node.computed => \A i \in (node.start + 1)..FullPages(p) :
                              c.rows[node.pages[i]] = PagePrefix(p, i)
  BY Zenon DEF MayInsert
<1>3. /\ p \notin DOMAIN c.nodes /\ p \in Paths /\ node.start \in Nat
      /\ FullPages(p) \in Nat /\ node.start < FullPages(p)
      /\ \A q \in DOMAIN c.nodes : ~OnPath(p, q)
  BY <1>1, <1>2, FitsNew, Zenon
<1>4. /\ DOMAIN d.nodes = DOMAIN c.nodes \cup {p} /\ d.nodes[p] = node
      /\ \A q \in DOMAIN c.nodes : d.nodes[q] = c.nodes[q]
      /\ IsInsert(c.nodes, p, node, d.nodes) /\ d.rows = c.rows /\ IsCache(d)
  BY <1>3, Zenon DEF IsInsertion, IsInsert
<1>5. Tree(d.nodes)
  BY <1>1, <1>2, <1>4, InsertTree, Zenon
<1>6. Owned(d, PM)
  BY <1>1, <1>2, <1>InsertPages, Zenon
<1>7. ASSUME NEW x
      PROVE  /\ \A q \in Holder(c.nodes, x) : q \in Holder(d.nodes, x) /\ d.nodes[q] = c.nodes[q]
             /\ \A q \in Holder(d.nodes, x) : q # p => q \in Holder(c.nodes, x)
  <2>1. Tree(c.nodes) /\ Fits(c.nodes, p, node) /\ IsInsert(c.nodes, p, node, d.nodes)
    BY <1>1, <1>2, <1>4, Zenon
  <2>2. /\ \A q \in Holder(c.nodes, x) :
               q \in Holder(d.nodes, x) /\ d.nodes[q] = c.nodes[q] /\ q # p
        /\ \A q \in Holder(d.nodes, x) : q # p => q \in Holder(c.nodes, x)
        /\ p \in Holder(d.nodes, x) <=> x \in Paths /\ node.start < FullPages(x) /\ OnPath(x, p)
    BY ONLY <2>1, InsertHolder, ZenonT(30)
  <2> QED BY <2>2, Zenon
<1>8. Stamps(d)
  <2>1. /\ c.older \subseteq (DOMAIN c.nodes) \X (DOMAIN c.nodes)
        /\ \A a, q \in DOMAIN c.nodes :
               a # q => (<<a, q>> \in c.older <=> <<q, a>> \notin c.older)
        /\ d.older = c.older \cup {<<q, p>> : q \in DOMAIN c.nodes}
    BY <1>1, Zenon DEF Stamps, IsInsertion
  <2>2. d.older \subseteq (DOMAIN d.nodes) \X (DOMAIN d.nodes)
    BY <1>4, <2>1
  <2>3. ASSUME NEW a \in DOMAIN d.nodes, NEW q \in DOMAIN d.nodes, a # q
        PROVE  <<a, q>> \in d.older <=> <<q, a>> \notin d.older
    <3>1. CASE a = p
      BY <1>3, <1>4, <2>1, <2>3, <3>1, Zenon
    <3>2. CASE q = p
      BY <1>3, <1>4, <2>1, <2>3, <3>2, Zenon
    <3>3. CASE a # p /\ q # p
      BY <1>4, <2>1, <2>3, <3>3
    <3> QED BY <3>1, <3>2, <3>3, Zenon
  <2> QED BY <2>2, <2>3, Zenon DEF Stamps
<1>9. Announced(d)
  <2> DEFINE keys == {PagePrefix(p, i) : i \in (node.start + 1)..FullPages(p)}
  <2>1. ASSUME NEW x PROVE x \in keys <=> p \in Holder(d.nodes, x)
    BY <1>4, Zenon DEF Holder, SegmentPrefixes
  <2>2. /\ node.computed => d.told = c.told \cup keys
        /\ ~node.computed => d.told = c.told
    BY Zenon DEF IsInsertion
  <2> HIDE DEF keys
  <2>3. ASSUME NEW x PROVE x \in d.told <=> Matches(d.nodes, x)
    <3>1. x \in c.told <=> Matches(c.nodes, x)
      BY <1>1, AnnouncedX, Zenon
    <3>2. x \in d.told <=> x \in c.told \/ (node.computed /\ p \in Holder(d.nodes, x))
      BY <2>1, <2>2, Zenon
    <3> QED BY <1>4, <1>7, <3>1, <3>2, Zenon DEF Matches
  <2> QED BY <2>3, AnnouncedX, Zenon
<1>10. Written(d)
  <2>1. ASSUME NEW q \in DOMAIN d.nodes, d.nodes[q].computed,
               NEW i \in (d.nodes[q].start + 1)..FullPages(q)
        PROVE  d.rows[d.nodes[q].pages[i]] = PagePrefix(q, i)
    <3>1. CASE q = p
      BY <1>2, <1>4, <2>1, <3>1, Zenon
    <3>2. CASE q # p
      <4>1. q \in DOMAIN c.nodes /\ d.nodes[q] = c.nodes[q]
        BY <1>4, <3>2, Zenon
      <4>2. c.nodes[q].computed /\ i \in (c.nodes[q].start + 1)..FullPages(q)
        BY <2>1, <4>1, Zenon
      <4>3. c.rows[c.nodes[q].pages[i]] = PagePrefix(q, i)
        BY <1>1, <4>1, <4>2, Zenon DEF Written
      <4>4. d.rows = c.rows /\ d.nodes[q].pages = c.nodes[q].pages
        BY <1>4, <4>1, Zenon
      <4> QED BY <4>3, <4>4, Zenon
    <3> QED BY <3>1, <3>2
  <2> QED BY <2>1, Zenon DEF Written
<1>11. Prefilling(d.nodes, RM, PG)
  <2>1. ASSUME NEW q \in DOMAIN c.nodes, ~c.nodes[q].computed PROVE Children(d.nodes, q) = {}
    <3>1. Children(c.nodes, q) = {}
      BY <1>1, <2>1, Zenon DEF Prefilling
    <3>2. ASSUME OnPath(q, p) PROVE FALSE
      <4>1. OnPath(q, PagePrefix(p, node.start)) /\ q \in Paths /\ q # Root /\ FullPages(q) \in Nat
        BY <1>1, <1>2, <3>2, InsertAnchor, TreeNode, Zenon
      <4>2. CASE node.start = 0
        <5>1. OnPath(q, Root)
          BY <1>3, <4>1, <4>2, RootPath, PathFacts
        <5> QED BY <4>1, <5>1, RootPath DEF OnPath
      <4>3. CASE node.start # 0
        <5>1. PagePrefix(p, node.start) \in DOMAIN c.nodes
              /\ c.nodes[PagePrefix(p, node.start)].computed
          BY <1>2, <4>3, Zenon DEF Fits
        <5> QED BY <2>1, <3>1, <4>1, <5>1, Zenon DEF Children
      <4> QED BY <4>2, <4>3
    <3> QED BY <1>4, <3>1, <3>2, Zenon DEF Children
  <2>2. Children(d.nodes, p) = {}
    BY <1>3, <1>4, Zenon DEF Children
  <2>3. ASSUME NEW q \in DOMAIN c.nodes, ~c.nodes[q].computed
        PROVE  /\ c.nodes[q].ref = 1
               /\ \E o \in Requests : q \in RM[o] /\ <<q, c.nodes[q].start>> \in PG[o]
    <3>1. /\ c.nodes[q].ref = 1
          /\ \E o \in Requests : q \in RL[o] /\ <<q, c.nodes[q].start>> \in PF[o]
      BY <1>1, <2>3, Zenon DEF Prefilling
    <3> QED BY <2>3, <3>1, Zenon DEF InsertPrefills
  <2>4. ~node.computed =>
            node.ref = 1 /\ \E o \in Requests : p \in RM[o] /\ <<p, node.start>> \in PG[o]
    BY Zenon DEF InsertPrefills
  <2> SUFFICES ASSUME NEW q \in DOMAIN d.nodes, ~d.nodes[q].computed
               PROVE  /\ Children(d.nodes, q) = {} /\ d.nodes[q].ref = 1
                      /\ \E o \in Requests : q \in RM[o] /\ <<q, d.nodes[q].start>> \in PG[o]
    BY Zenon DEF Prefilling
  <2>5. CASE q = p
    BY <1>4, <2>2, <2>4, <2>5, Zenon
  <2>6. CASE q # p
    <3>1. q \in DOMAIN c.nodes /\ d.nodes[q] = c.nodes[q]
      BY <1>4, <2>6, Zenon
    <3> QED BY <2>1, <2>3, <3>1, Zenon
  <2> QED BY <2>5, <2>6
<1>12. ASSUME NEW h, NEW P, h = Root \/ h \in DOMAIN c.nodes PROVE Keeps(c, d, h, P)
  BY <1>4, <1>7, <1>12, Zenon DEF Keeps
<1>13. CacheOK(d, RM, SL, PM, PG)
  BY <1>4, <1>5, <1>6, <1>8, <1>9, <1>10, <1>11, Zenon DEF CacheOK
<1> QED BY <1>12, <1>13, Zenon

\* InsertNode, field by field.
LEMMA InsertNodeShape ==
  ASSUME NEW c, IsCache(c), NEW p, NEW node, NEW d, d = InsertNode(c, p, node)
  PROVE  /\ IsCache(d) /\ d.free = c.free /\ d.host = c.host /\ d.told = c.told
         /\ d.lost = c.lost /\ d.rows = c.rows
         /\ IsInsert(c.nodes, p, node, d.nodes)
         /\ d.older = c.older \cup {<<q, p>> : q \in DOMAIN c.nodes}
<1> DEFINE n == [q \in DOMAIN c.nodes \cup {p} |-> IF q = p THEN node ELSE c.nodes[q]]
           o == c.older \cup {<<q, p>> : q \in DOMAIN c.nodes}
<1>1. d = [c EXCEPT !.nodes = n, !.older = o]
  BY Zenon DEF InsertNode
<1>2. IsInsert(c.nodes, p, node, n)
  BY Zenon DEF IsInsert
<1> HIDE DEF n, o
<1>3. d = [free |-> c.free, nodes |-> n, older |-> o, host |-> c.host,
           told |-> c.told, lost |-> c.lost, rows |-> c.rows]
  BY <1>1, Zenon DEF IsCache
<1>4. /\ IsCache(d) /\ d.free = c.free /\ d.nodes = n /\ d.older = o /\ d.host = c.host
      /\ d.told = c.told /\ d.lost = c.lost /\ d.rows = c.rows
  BY ONLY <1>3, Zenon DEF IsCache
<1> QED BY <1>2, <1>4, Zenon DEF o

\* F, but X for request r.
With(F, r, X) == [o \in Requests |-> IF o = r THEN X ELSE F[o]]

\* A changed entry, and the others.
LEMMA WithFacts ==
  ASSUME NEW r \in Requests, NEW F, NEW X
  PROVE  /\ With(F, r, X)[r] = X
         /\ \A o \in Requests : o # r => With(F, r, X)[o] = F[o]
BY Zenon DEF With

\* Changes of one request's entry, as the lemmas above name them.
LEMMA WithChanges ==
  ASSUME NEW r \in Requests, NEW F
  PROVE  /\ \A g, h : MovesLock(Requests, With(F, r, {g}), With(F, r, {h}), r, g, h)
         /\ \A h : AddsLock(Requests, With(F, r, {}), With(F, r, {h}), r, h)
         /\ \A X, T : Gains(With(F, r, X), With(F, r, X \cup T), r, T)
         /\ \A X, T, Y : T \subseteq X /\ Y = X \ T => Drops(With(F, r, X), With(F, r, Y), r, T)
<1>1. ASSUME NEW X
      PROVE  With(F, r, X)[r] = X /\ \A o \in Requests : o # r => With(F, r, X)[o] = F[o]
  BY Zenon DEF With
<1>2. \A g, h : MovesLock(Requests, With(F, r, {g}), With(F, r, {h}), r, g, h)
  BY <1>1, Zenon DEF MovesLock
<1>3. \A h : AddsLock(Requests, With(F, r, {}), With(F, r, {h}), r, h)
  BY <1>1, Zenon DEF AddsLock
<1>4. \A X, T : Gains(With(F, r, X), With(F, r, X \cup T), r, T)
  BY <1>1, Zenon DEF Gains
<1>5. \A X, T, Y : T \subseteq X /\ Y = X \ T => Drops(With(F, r, X), With(F, r, Y), r, T)
  BY <1>1, Zenon DEF Drops
<1> QED BY <1>2, <1>3, <1>4, <1>5, Zenon

\* The path to x is in the tree and computed.
Anchored(c, x) == x = Root \/ (x \in DOMAIN c.nodes /\ c.nodes[x].computed)

\* What keeps everything keeps what the other requests need.
LEMMA KeepsSteady ==
  ASSUME NEW c, NEW d, NEW r, NEW RL, NEW PR, \A h, P : Keeps(c, d, h, P)
  PROVE  Steady(c, d, r, RL, PR)
BY Zenon DEF Steady

\* A computed path that is kept stays computed.
LEMMA KeepsAnchored ==
  ASSUME NEW c, NEW d, NEW x, NEW P, Keeps(c, d, x, P), Anchored(c, x)
  PROVE  Anchored(d, x)
BY Zenon DEF Keeps, Anchored

\* The pool's free pages can be counted.
LEMMA FreeFinite ==
  \A c, PR :
      /\ LibraryFacts /\ Owned(c, PR)
    =>   IsFiniteSet(c.free) /\ c.free \subseteq Pages
\* An interval is finite.
<1>FiniteInterval.
  ASSUME LibraryFacts, NEW a \in Int, NEW b \in Int
  PROVE  IsFiniteSet(a..b)
  BY <1>FiniteInterval, Zenon DEF LibraryFacts
<1> SUFFICES
  ASSUME LibraryFacts, NEW c, NEW PR, Owned(c, PR)
  PROVE  IsFiniteSet(c.free) /\ c.free \subseteq Pages
  OBVIOUS
<1>1. c.free \in SUBSET Pages
  BY Zenon DEF Owned
<1>2. IsFiniteSet(Pages)
  BY RadixAssumption, <1>FiniteInterval DEF Pages
<1> QED BY <1>1, <1>2, FiniteSub, Zenon

IsTaken(c, pages, lo, hi) ==
    /\ pages \in [lo..hi -> Pages] /\ IsInjective(pages) /\ Range(pages) \subseteq c.free
    /\ Range(pages) = {pages[i] : i \in lo..hi}

\* The pages _ensure_free made room for.
LEMMA TakenPages ==
  \A c, PR, lo, hi :
      /\ LibraryFacts /\ Owned(c, PR) /\ lo \in Nat /\ hi \in Nat
      /\ hi + 1 - lo <= Cardinality(c.free)
    =>   IsTaken(c, Take(c, lo, hi), lo, hi)
\* With enough free pages, PagePool.allocate hands out distinct ones.
<1>TakeFacts.
  ASSUME LibraryFacts, NEW c, IsFiniteSet(c.free), NEW lo \in Nat, NEW hi \in Nat,
         hi + 1 - lo <= Cardinality(c.free)
  PROVE  Take(c, lo, hi) \in [lo..hi -> c.free] /\ IsInjective(Take(c, lo, hi))
  <2> USE <1>TakeFacts
  <2> DEFINE n == Cardinality(c.free)
  <2>1. n \in Nat /\ ExistsBijection(1..n, c.free)
    BY CardType
  <2>2. PICK b \in [1..n -> c.free] : IsInjective(b)
    BY <2>1 DEF ExistsBijection, Bijection, Injection
  <2> HIDE DEF n
  <2> DEFINE t == [i \in lo..hi |-> b[i - lo + 1]]
  <2>3. \A i \in lo..hi : i - lo + 1 \in 1..n
    BY <2>1 DEF n
  <2>4. t \in [lo..hi -> c.free]
    BY <2>2, <2>3, Zenon
  <2>5. IsInjective(t)
    <3> SUFFICES ASSUME NEW i \in lo..hi, NEW j \in lo..hi, t[i] = t[j] PROVE i = j
      BY DEF IsInjective
    <3>1. b[i - lo + 1] = b[j - lo + 1]
      OBVIOUS
    <3>2. i - lo + 1 = j - lo + 1
      BY <3>1, <2>2, <2>3 DEF IsInjective
    <3> QED BY <3>2
  <2>6. \E u \in [lo..hi -> c.free] : IsInjective(u)
    BY <2>4, <2>5, Zenon
  <2> QED BY <2>6, Zenon DEF Take
<1> SUFFICES
  ASSUME LibraryFacts, NEW c, NEW PR, Owned(c, PR), NEW lo \in Nat, NEW hi \in Nat,
         hi + 1 - lo <= Cardinality(c.free)
  PROVE  IsTaken(c, Take(c, lo, hi), lo, hi)
  OBVIOUS
<1>0. PICK pages : pages = Take(c, lo, hi)
  OBVIOUS
<1>1. IsFiniteSet(c.free) /\ c.free \subseteq Pages
  BY FreeFinite, Zenon
<1>2. pages \in [lo..hi -> c.free] /\ IsInjective(pages)
  BY <1>0, <1>1, <1>TakeFacts
<1>3. IsTaken(c, pages, lo, hi)
  BY <1>1, <1>2, Zenon DEF Range, IsTaken
<1> QED BY <1>0, <1>3, Zenon

\* A path of s, and its parent, as the tree names them.
LEMMA StagePath ==
  ASSUME NEW s \in Seq(Tokens), NEW k \in 0..FullPages(s), NEW m \in 0..k
  PROVE  /\ PagePrefix(s, k) \in Paths /\ FullPages(PagePrefix(s, k)) = k
         /\ PagePrefix(PagePrefix(s, k), m) = PagePrefix(s, m)
         /\ m = 0 <=> PagePrefix(s, m) = Root
         /\ FullPages(s) \in Nat /\ k \in Nat /\ m \in Nat
<1>1. FullPages(s) \in Nat
  BY LevelBounds
<1>2. m \in 0..FullPages(s) /\ k \in Nat /\ m \in Nat
  BY <1>1
<1>3. /\ PagePrefix(s, k) \in Paths /\ FullPages(PagePrefix(s, k)) = k
      /\ PagePrefix(PagePrefix(s, k), m) = PagePrefix(s, m)
      /\ FullPages(PagePrefix(s, m)) = m
  BY <1>1, <1>2, PrefixFacts
<1>4. m = 0 <=> PagePrefix(s, m) = Root
  BY <1>3, RootPath
<1> QED BY <1>1, <1>2, <1>3, <1>4

\* A node for the pages m+1..k of s fits where nothing holds page m+1.
LEMMA StageFits ==
  ASSUME NEW s \in Seq(Tokens), NEW k \in 0..FullPages(s), NEW m \in 0..k, m < k,
         NEW c, Anchored(c, PagePrefix(s, m)), Holder(c.nodes, PagePrefix(s, m + 1)) = {},
         NEW pages \in [(m + 1)..k -> Pages], IsInjective(pages),
         NEW ref \in Nat, NEW computed \in BOOLEAN,
         NEW node, node = [start |-> m, pages |-> pages, ref |-> ref, computed |-> computed],
         computed => \A i \in (m + 1)..k : c.rows[pages[i]] = PagePrefix(s, i)
  PROVE  MayInsert(c, PagePrefix(s, k), node)
<1>1. /\ node.start = m /\ node.pages = pages /\ node.ref = ref /\ node.computed = computed
  OBVIOUS
<1>2. /\ PagePrefix(s, k) \in Paths /\ FullPages(PagePrefix(s, k)) = k
      /\ PagePrefix(PagePrefix(s, k), m) = PagePrefix(s, m)
      /\ m = 0 <=> PagePrefix(s, m) = Root
      /\ FullPages(s) \in Nat /\ k \in Nat /\ m \in Nat
  BY StagePath
<1>3. NodeOK(PagePrefix(s, k), node)
  <2>1. node = [start |-> node.start, pages |-> node.pages,
                ref |-> node.ref, computed |-> node.computed]
    BY <1>1
  <2> QED BY <1>1, <1>2, <2>1 DEF NodeOK
<1>4. m + 1 \in 0..k
  BY <1>2
<1>5. PagePrefix(PagePrefix(s, k), m + 1) = PagePrefix(s, m + 1)
  BY <1>4, PrefixFacts
<1>6. Fits(c.nodes, PagePrefix(s, k), node)
  BY <1>1, <1>2, <1>3, <1>5, Zenon DEF Fits, Anchored
<1>7. ASSUME computed, NEW i \in (m + 1)..k
      PROVE  c.rows[pages[i]] = PagePrefix(PagePrefix(s, k), i)
  <2>1. i \in 0..k
    BY <1>2
  <2>2. PagePrefix(PagePrefix(s, k), i) = PagePrefix(s, i)
    BY <2>1, PrefixFacts
  <2> QED BY <1>7, <2>2, Zenon
<1> QED BY <1>1, <1>2, <1>6, <1>7, Zenon DEF MayInsert, Anchored

\* A page table has room for the prompt, and for its full pages.
LEMMA TableSize ==
  ASSUME NEW s \in Seq(Tokens)
  PROVE  /\ TablePages(s) \in Nat /\ FullPages(s) \in Nat
         /\ FullPages(s) <= TablePages(s) /\ Len(s) <= TablePages(s) * PageSize
<1>1. /\ FullPages(s) \in Nat /\ Len(s) < (FullPages(s) + 1) * PageSize /\ Len(s) \in Nat
      /\ Len(s) % PageSize = 0 => FullPages(s) * PageSize = Len(s)
  <2>1. Len(s) \in Nat
    OBVIOUS
  <2> QED BY <2>1, DivMul, ModDiv DEF FullPages
<1>2. PICK f \in Nat : f = FullPages(s)
  BY <1>1
<1>3. f * PageSize \in Nat /\ (f + 1) * PageSize \in Nat
  BY MulMono, RadixAssumption
<1>4. CASE Len(s) % PageSize = 0
  <2>1. TablePages(s) = f + 0
    BY <1>2, <1>4, Zenon DEF TablePages
  <2>2. TablePages(s) = f
    BY <2>1, <1>2
  <2> QED BY <1>1, <1>2, <1>3, <1>4, <2>2
<1>5. CASE Len(s) % PageSize # 0
  <2>1. TablePages(s) = f + 1
    BY <1>2, <1>5, Zenon DEF TablePages
  <2> QED BY <1>1, <1>2, <1>3, <2>1
<1> QED BY <1>4, <1>5

\* What an allocation, or None, locks, owns and prefills.
LockOf(a) == IF a = None THEN {} ELSE {a.node}

OwnOf(a) == IF a = None THEN {} ELSE PrivatePages(a)

PrefillOf(a) == IF a # None /\ a.inserted THEN {<<a.node, a.matched>>} ELSE {}

\* None is no allocation and no pin.
LEMMA NotNone ==
  /\ None \notin Allocation /\ None \notin PinEntry
BY RadixAssumption, Zenon DEF Allocation, PinEntry, Pages

\* The fields of an allocation.
LEMMA AllocFields ==
  ASSUME NEW s \in Seq(Tokens), NEW t \in Seq(Pages), NEW m \in Nat, NEW n \in Seq(Tokens),
         NEW b \in BOOLEAN, NEW o \in Seq(Tokens), NEW a,
         a = [tokens |-> s, table |-> t, matched |-> m, node |-> n, inserted |-> b, out |-> o]
  PROVE  /\ a \in Allocation /\ a # None /\ a.tokens = s /\ a.table = t /\ a.matched = m
         /\ a.node = n /\ a.inserted = b /\ a.out = o
<1>1. a \in Allocation
  BY Zenon DEF Allocation
<1> QED BY <1>1, NotNone

\* The locks, pages and prefills of the allocations A.
LocksOf(A) == [o \in Requests |-> LockOf(A[o])]

OwnsOf(A) == [o \in Requests |-> OwnOf(A[o])]

PrefillsOf(A) == [o \in Requests |-> PrefillOf(A[o])]

\* When one allocation changes, one request's locks, pages and prefill change.
LEMMA OneAllocation ==
  ASSUME NEW r \in Requests, NEW A, NEW B, NEW a, B[r] = a,
         \A o \in Requests : o # r => B[o] = A[o]
  PROVE  /\ LocksOf(B) = With(LocksOf(A), r, LockOf(a))
         /\ OwnsOf(B) = With(OwnsOf(A), r, OwnOf(a))
         /\ PrefillsOf(B) = With(PrefillsOf(A), r, PrefillOf(a))
<1>1. \A o \in Requests : LockOf(B[o]) = IF o = r THEN LockOf(a) ELSE LocksOf(A)[o]
  BY Zenon DEF LocksOf
<1>2. \A o \in Requests : OwnOf(B[o]) = IF o = r THEN OwnOf(a) ELSE OwnsOf(A)[o]
  BY Zenon DEF OwnsOf
<1>3. \A o \in Requests : PrefillOf(B[o]) = IF o = r THEN PrefillOf(a) ELSE PrefillsOf(A)[o]
  BY Zenon DEF PrefillsOf
<1>4. LocksOf(B) = With(LocksOf(A), r, LockOf(a))
  BY <1>1 DEF LocksOf, With
<1>5. OwnsOf(B) = With(OwnsOf(A), r, OwnOf(a))
  BY <1>2 DEF OwnsOf, With
<1>6. PrefillsOf(B) = With(PrefillsOf(A), r, PrefillOf(a))
  BY <1>3 DEF PrefillsOf, With
<1> QED BY <1>4, <1>5, <1>6

\* The invariant in terms of the allocations.
LEMMA InvView ==
  ASSUME RadixInv
  PROVE  /\ alloc \in [Requests -> Allocation \cup {None}]
         /\ pins \in [Sessions -> PinEntry \cup {None}]
         /\ RequestLocks = LocksOf(alloc) /\ RequestPages = OwnsOf(alloc)
         /\ Prefills = PrefillsOf(alloc)
         /\ CacheOK(cache, RequestLocks, SessionLocks, RequestPages, Prefills)
         /\ \A r \in Requests : alloc[r] # None => AllocOK(cache, alloc[r])
BY Zenon DEF RadixInv, RequestLocks, RequestPages, Prefills, LockOf, OwnOf, PrefillOf, Live,
             LocksOf, OwnsOf, PrefillsOf

\* An allocation survives what the other requests do.
LEMMA OthersOK ==
  ASSUME RadixInv, NEW o \in Requests, alloc[o] # None, NEW d,
         Keeps(cache, d, alloc[o].node, PrivatePages(alloc[o]))
  PROVE  AllocOK(d, alloc[o])
<1>1. alloc[o] \in Allocation /\ AllocOK(cache, alloc[o]) /\ RequestLocks[o] = {alloc[o].node}
  BY InvView, Zenon DEF LockOf, LocksOf
<1>2. Locked(cache.nodes, RequestLocks, SessionLocks)
  BY InvView, Zenon DEF CacheOK
<1>3. alloc[o].node = Root \/ alloc[o].node \in DOMAIN cache.nodes
  BY <1>1, <1>2, Zenon DEF Locked
<1> QED BY <1>1, <1>3, KeepsAlloc, Zenon

\* A call for one request.
LEMMA StepRequest ==
  ASSUME RadixInv, NEW r \in Requests, NEW a \in Allocation \cup {None},
         alloc' = [alloc EXCEPT ![r] = a], pins' \in [Sessions -> PinEntry \cup {None}],
         CacheOK(cache', With(RequestLocks, r, LockOf(a)), SessionLocks',
                 With(RequestPages, r, OwnOf(a)), With(Prefills, r, PrefillOf(a))),
         a # None => AllocOK(cache', a),
         Steady(cache, cache', r, RequestLocks, RequestPages)
  PROVE  RadixInv'
<1>1. alloc' \in [Requests -> Allocation \cup {None}]
  BY InvView
<1>2. alloc'[r] = a /\ \A o \in Requests : o # r => alloc'[o] = alloc[o]
  BY InvView
<1>3. RequestLocks' = LocksOf(alloc') /\ RequestPages' = OwnsOf(alloc') /\ Prefills' = PrefillsOf(alloc')
  BY Zenon DEF RequestLocks, RequestPages, Prefills, LockOf, OwnOf, PrefillOf, LocksOf, OwnsOf,
               PrefillsOf
<1>4. /\ RequestLocks = LocksOf(alloc) /\ RequestPages = OwnsOf(alloc) /\ Prefills = PrefillsOf(alloc)
  BY InvView, Zenon
<1>5. PICK A, B : A = alloc /\ B = alloc'
  BY Zenon
<1>6. B[r] = a /\ \A o \in Requests : o # r => B[o] = A[o]
  BY <1>2, <1>5, Zenon
<1>7. /\ LocksOf(B) = With(LocksOf(A), r, LockOf(a))
      /\ OwnsOf(B) = With(OwnsOf(A), r, OwnOf(a))
      /\ PrefillsOf(B) = With(PrefillsOf(A), r, PrefillOf(a))
  BY ONLY <1>6, OneAllocation, r \in Requests
<1>8. CacheOK(cache', RequestLocks', SessionLocks', RequestPages', Prefills')
  BY <1>3, <1>4, <1>5, <1>7, Zenon
<1>9. ASSUME NEW o \in Requests, alloc'[o] # None PROVE AllocOK(cache', alloc'[o])
  <2>1. CASE o = r
    BY <1>2, <1>9, <2>1, Zenon
  <2>2. CASE o # r
    <3>1. alloc'[o] = alloc[o] /\ alloc[o] # None
      BY <1>2, <1>9, <2>2, Zenon
    <3>2. alloc[o].node \in RequestLocks[o] /\ RequestPages[o] = PrivatePages(alloc[o])
      BY <1>4, <3>1, Zenon DEF LockOf, OwnOf, LocksOf, OwnsOf
    <3>3. Keeps(cache, cache', alloc[o].node, PrivatePages(alloc[o]))
      BY <2>2, <3>2, Zenon DEF Steady
    <3>4. AllocOK(cache', alloc[o])
      BY <3>1, <3>3, OthersOK, Zenon
    <3> QED BY <3>1, <3>4, Zenon
  <2> QED BY <2>1, <2>2
<1> QED BY <1>1, <1>8, <1>9, Zenon DEF RadixInv, Live

\* A call for no request.
LEMMA StepCache ==
  ASSUME RadixInv, alloc' = alloc, pins' \in [Sessions -> PinEntry \cup {None}],
         CacheOK(cache', RequestLocks, SessionLocks', RequestPages, Prefills),
         Safe(cache, cache', RequestLocks, RequestPages)
  PROVE  RadixInv'
<1>1. RequestLocks' = RequestLocks /\ RequestPages' = RequestPages /\ Prefills' = Prefills
  BY Zenon DEF RequestLocks, RequestPages, Prefills
<1>2. ASSUME NEW o \in Requests, alloc[o] # None PROVE AllocOK(cache', alloc[o])
  <2>1. alloc[o].node \in RequestLocks[o] /\ RequestPages[o] = PrivatePages(alloc[o])
    BY <1>2, InvView, Zenon DEF LockOf, OwnOf, LocksOf, OwnsOf
  <2>2. Keeps(cache, cache', alloc[o].node, PrivatePages(alloc[o]))
    BY <2>1, Zenon DEF Safe
  <2> QED BY <1>2, <2>2, OthersOK, Zenon
<1>3. alloc' \in [Requests -> Allocation \cup {None}]
  BY InvView, Zenon
<1> QED BY <1>1, <1>2, <1>3, Zenon DEF RadixInv, Live

\* The pins, and so their locks, are left alone.
LEMMA SamePins ==
  ASSUME RadixInv, pins' = pins
  PROVE  pins' \in [Sessions -> PinEntry \cup {None}] /\ SessionLocks' = SessionLocks
BY InvView, Zenon DEF SessionLocks

\* The invariant as request r sees it.
LEMMA OwnView ==
  ASSUME RadixInv, NEW r \in Requests, alloc[r] # None, NEW a, a = alloc[r]
  PROVE  /\ a \in Allocation /\ AllocOK(cache, a)
         /\ RequestLocks = With(RequestLocks, r, LockOf(a))
         /\ RequestPages = With(RequestPages, r, OwnOf(a))
         /\ Prefills = With(Prefills, r, PrefillOf(a))
         /\ RequestLocks[r] = {a.node} /\ RequestPages[r] = PrivatePages(a)
         /\ LockOf(a) = {a.node} /\ OwnOf(a) = PrivatePages(a)
         /\ a.node = Root \/ a.node \in DOMAIN cache.nodes
<1>1. a \in Allocation /\ AllocOK(cache, a)
  BY InvView, Zenon
<1>2. /\ RequestLocks = LocksOf(alloc) /\ RequestPages = OwnsOf(alloc) /\ Prefills = PrefillsOf(alloc)
  BY InvView, Zenon
<1>3. PICK A : A = alloc
  OBVIOUS
<1>4. A[r] = a /\ \A o \in Requests : o # r => A[o] = A[o]
  BY <1>3, Zenon
<1>5. /\ LocksOf(A) = With(LocksOf(A), r, LockOf(a))
      /\ OwnsOf(A) = With(OwnsOf(A), r, OwnOf(a))
      /\ PrefillsOf(A) = With(PrefillsOf(A), r, PrefillOf(a))
  BY ONLY <1>4, OneAllocation, r \in Requests
<1>6. LockOf(a) = {a.node} /\ OwnOf(a) = PrivatePages(a)
  BY Zenon DEF LockOf, OwnOf
<1>7. RequestLocks[r] = {a.node} /\ RequestPages[r] = PrivatePages(a)
  BY <1>2, <1>6, Zenon DEF LocksOf, OwnsOf
<1>8. Locked(cache.nodes, RequestLocks, SessionLocks)
  BY InvView, Zenon DEF CacheOK
<1>9. a.node = Root \/ a.node \in DOMAIN cache.nodes
  BY <1>7, <1>8, Zenon DEF Locked
<1> QED BY <1>1, <1>2, <1>3, <1>5, <1>6, <1>7, <1>9, Zenon

\* An allocation and the types of its fields.
LEMMA AllocParts ==
  ASSUME NEW a \in Allocation
  PROVE  /\ a = [tokens |-> a.tokens, table |-> a.table, matched |-> a.matched, node |-> a.node,
                 inserted |-> a.inserted, out |-> a.out]
         /\ a.tokens \in Seq(Tokens) /\ a.table \in Seq(Pages) /\ a.matched \in Nat
         /\ a.node \in Seq(Tokens) /\ a.inserted \in BOOLEAN /\ a.out \in Seq(Tokens)
BY DEF Allocation

\* The arithmetic of a well-shaped allocation.
LEMMA AllocSizes ==
  ASSUME NEW a \in Allocation, AllocShape(a)
  PROVE  /\ Len(a.table) \in Nat /\ FullPages(a.tokens) \in Nat /\ PrivateFrom(a) \in Nat
         /\ PrivateFrom(a) <= FullPages(a.tokens) /\ FullPages(a.tokens) <= Len(a.table)
         /\ a.matched \in Nat /\ a.matched <= PrivateFrom(a)
         /\ Len(a.tokens) \in Nat /\ Len(a.out) \in Nat
         /\ Sequence(a) \in Seq(Tokens) /\ Len(Sequence(a)) = Len(a.tokens) + Len(a.out)
         /\ Len(a.tokens) <= Len(a.table) * PageSize /\ Len(a.table) * PageSize \in Nat
<1>1. /\ a.tokens \in Seq(Tokens) /\ a.table \in Seq(Pages) /\ a.out \in Seq(Tokens)
  BY AllocParts
<1>2. /\ TablePages(a.tokens) \in Nat /\ FullPages(a.tokens) \in Nat
      /\ FullPages(a.tokens) <= TablePages(a.tokens)
      /\ Len(a.tokens) <= TablePages(a.tokens) * PageSize
  BY <1>1, TableSize
<1>3. Len(a.table) \in Nat /\ Len(a.tokens) \in Nat /\ Len(a.out) \in Nat
  BY <1>1
<1>4. a.matched \in 0..FullPages(a.tokens) /\ Len(a.table) >= TablePages(a.tokens)
  BY Zenon DEF AllocShape
<1>5. PrivateFrom(a) = FullPages(a.tokens) \/ PrivateFrom(a) = a.matched
  BY Zenon DEF PrivateFrom
<1>6. /\ TablePages(a.tokens) * PageSize <= Len(a.table) * PageSize
      /\ Len(a.table) * PageSize \in Nat /\ TablePages(a.tokens) * PageSize \in Nat
  BY <1>2, <1>3, <1>4, MulMono
<1>7. Sequence(a) \in Seq(Tokens) /\ Len(Sequence(a)) = Len(a.tokens) + Len(a.out)
  BY <1>1 DEF Sequence
<1> QED BY <1>2, <1>3, <1>4, <1>5, <1>6, <1>7

\* The smaller of two numbers.
LEMMA MinPair ==
  ASSUME NEW x \in Nat, NEW y \in Nat
  PROVE  /\ x <= y => Min({x, y}) = x
         /\ y <= x => Min({x, y}) = y
<1>1. CASE x <= y
  <2>1. \A z \in {x, y} : (\A w \in {x, y} : z <= w) <=> z = x
    BY <1>1
  <2>2. Min({x, y}) = x
    BY <2>1, Zenon DEF Min
  <2> QED BY <1>1, <2>2
<1>2. CASE ~(x <= y)
  <2>1. \A z \in {x, y} : (\A w \in {x, y} : z <= w) <=> z = y
    BY <1>2
  <2>2. Min({x, y}) = y
    BY <2>1, Zenon DEF Min
  <2> QED BY <1>2, <2>2
<1> QED BY <1>1, <1>2

\* A page whose rows are all written.
LEMMA FillFull ==
  ASSUME NEW s, NEW i \in Nat, NEW k \in Nat, i * PageSize <= k
  PROVE  Fill(s, i, k) = PagePrefix(s, i)
<1>1. i * PageSize \in Nat
  BY MulMono
<1>2. Min({i * PageSize, k}) = i * PageSize
  BY <1>1, MinPair
<1> QED BY <1>2, Zenon DEF Fill, PagePrefix

\* The rows of a longer sequence.
LEMMA FillPrefix ==
  ASSUME NEW s \in Seq(Tokens), NEW u \in Seq(Tokens), NEW i \in Nat, NEW k \in 0..Len(s)
  PROVE  Fill(s \o u, i, k) = Fill(s, i, k)
<1>1. i * PageSize \in Nat /\ k \in Nat
  BY MulMono
<1>2. PICK n \in 0..Len(s) : Min({i * PageSize, k}) = n
  <2>1. CASE i * PageSize <= k
    BY <1>1, <2>1, MinPair
  <2>2. CASE ~(i * PageSize <= k)
    BY <1>1, <2>2, MinPair
  <2> QED BY <2>1, <2>2, Zenon
<1>3. SubSeq(s \o u, 1, n) = SubSeq(s, 1, n)
  OBVIOUS
<1> QED BY <1>2, <1>3, Zenon DEF Fill

\* The two halves of InTree.
PromptPages(c, a) ==
    \A i \in 1..PrivateFrom(a) :
        \E q \in Holder(c.nodes, PagePrefix(a.tokens, i)) : c.nodes[q].pages[i] = a.table[i]

NodeNow(c, a) ==
    a.node # Root =>
        /\ c.nodes[a.node].computed
              <=> (a.out # <<>> \/ ~a.inserted \/ a.matched = FullPages(a.tokens))
        /\ c.nodes[a.node].computed \/ c.nodes[a.node].start = a.matched

\* InTree in its two halves.
LEMMA TreeParts ==
  ASSUME NEW c, NEW a
  PROVE  InTree(c, a) <=> PromptPages(c, a) /\ NodeNow(c, a)
BY Zenon DEF InTree, PromptPages, NodeNow

\* The node that a prefill writes: the one its allocation inserted.
OwnNode(a) == a.inserted /\ a.matched < FullPages(a.tokens)

IsOwnNode(c, a) ==
    /\ a.node \in DOMAIN c.nodes /\ ~c.nodes[a.node].computed /\ a.node # Root
    /\ c.nodes[a.node].start = a.matched /\ FullPages(a.node) = FullPages(a.tokens)
    /\ \A i \in (a.matched + 1)..FullPages(a.tokens) :
           /\ c.nodes[a.node].pages[i] = a.table[i] /\ a.table[i] \in Range(c.nodes[a.node].pages)
           /\ PagePrefix(a.node, i) = PagePrefix(a.tokens, i)
    /\ \A i, j \in (a.matched + 1)..FullPages(a.tokens) : a.table[i] = a.table[j] => i = j

\* A prefill's node is still as allocate inserted it: its pages are those of the table.
LEMMA OwnNodeFacts ==
  ASSUME NEW c, Tree(c.nodes), NEW a \in Allocation, AllocOK(c, a), a.out = <<>>, OwnNode(a),
         a.node = Root \/ a.node \in DOMAIN c.nodes
  PROVE  IsOwnNode(c, a)
<1>1. AllocShape(a) /\ PromptPages(c, a) /\ NodeNow(c, a)
  BY TreeParts, Zenon DEF AllocOK
<1>2. PICK F, m, h, s : F = FullPages(a.tokens) /\ m = a.matched /\ h = a.node /\ s = a.tokens
  BY Zenon
<1>3. /\ F \in Nat /\ m \in Nat /\ m < F /\ s \in Seq(Tokens) /\ h \in Paths
      /\ PrivateFrom(a) = F /\ h = PagePrefix(s, F) /\ FullPages(h) = F
  <2>1. a.inserted /\ m < F
    BY <1>2, Zenon DEF OwnNode
  <2>2. PrivateFrom(a) = F
    BY <1>2, <2>1, Zenon DEF PrivateFrom
  <2>3. a.matched \in Nat
    BY AllocParts
  <2> QED BY <1>1, <1>2, <2>1, <2>2, <2>3, AllocNode, Zenon
<1>4. h # Root
  <2>1. F # 0
    BY ONLY <1>3
  <2> QED BY <1>3, <2>1, RootPath, Zenon
<1>5. h \in DOMAIN c.nodes /\ ~c.nodes[h].computed /\ c.nodes[h].start = m
  <2>1. a.inserted /\ a.matched # FullPages(a.tokens)
    BY <1>2, <1>3 DEF OwnNode
  <2> QED BY <1>1, <1>2, <1>4, <2>1, Zenon DEF NodeNow
<1>6. NodeOK(h, c.nodes[h]) /\ c.nodes[h].pages \in [(m + 1)..F -> Pages] /\ IsInjective(c.nodes[h].pages)
  BY <1>3, <1>5, TreeNode, ZenonT(30) DEF NodeOK
<1>7. ASSUME NEW i \in (m + 1)..F
      PROVE  /\ c.nodes[h].pages[i] = a.table[i] /\ a.table[i] \in Range(c.nodes[h].pages)
             /\ PagePrefix(h, i) = PagePrefix(s, i)
  <2>1. i \in 1..F /\ i \in 0..F /\ F \in 0..F
    BY <1>3
  <2>2. PICK q \in Holder(c.nodes, PagePrefix(s, i)) : c.nodes[q].pages[i] = a.table[i]
    BY <1>1, <1>2, <1>3, <2>1, Zenon DEF PromptPages
  <2>3. PagePrefix(h, i) = PagePrefix(s, i)
    <3>1. FullPages(s) = F
      BY <1>2, Zenon
    <3>2. PagePrefix(PagePrefix(s, F), i) = PagePrefix(s, i)
      BY ONLY <1>3, <2>1, <3>1, StagePath
    <3> QED BY <1>3, <3>2, Zenon
  <2>4. h \in Holder(c.nodes, PagePrefix(h, i))
    BY <1>3, <1>5, PageHolder, Zenon
  <2>5. q = h
    BY <2>2, <2>3, <2>4, HolderUnique, Zenon
  <2>6. c.nodes[h].pages[i] \in Range(c.nodes[h].pages)
    BY <1>6, Zenon DEF Range
  <2> QED BY <2>2, <2>3, <2>5, <2>6, Zenon
<1>8. ASSUME NEW i \in (m + 1)..F, NEW j \in (m + 1)..F, a.table[i] = a.table[j] PROVE i = j
  <2>1. c.nodes[h].pages[i] = c.nodes[h].pages[j]
    BY <1>7, <1>8, Zenon
  <2>2. DOMAIN c.nodes[h].pages = (m + 1)..F
    BY <1>6, Zenon
  <2> QED BY <1>6, <2>1, <2>2, Zenon DEF IsInjective
<1> QED BY <1>2, <1>3, <1>4, <1>5, <1>7, <1>8, Zenon DEF IsOwnNode

\* The longest match, or restore, is one of the candidates.
LEMMA MaxFacts ==
  \A n, S :
      /\ LibraryFacts /\ n \in Nat /\ S \subseteq 0..n /\ S # {}
    =>   Max(S) \in S /\ \A y \in S : y <= Max(S)
\* A set of numbers has a least one.
<1>MinNat.
  ASSUME LibraryFacts, NEW T \in SUBSET Nat, T # {}
  PROVE  \E x \in T : \A y \in T : x <= y
  BY <1>MinNat, Zenon DEF LibraryFacts
<1> SUFFICES
  ASSUME LibraryFacts, NEW n \in Nat, NEW S, S \subseteq 0..n, S # {}
  PROVE  Max(S) \in S /\ \A y \in S : y <= Max(S)
  BY Zenon
<1> DEFINE T == {n - x : x \in S}
<1>0. \A x \in S : n - x \in Nat
  OBVIOUS
<1>1. T \subseteq Nat /\ T # {}
  BY <1>0, Zenon
<1>2. PICK t \in T : \A u \in T : t <= u
  BY <1>1, <1>MinNat, Zenon
<1>3. PICK x \in S : t = n - x
  BY <1>2
<1>4. \A y \in S : n - y \in T
  BY Zenon
<1>5. ASSUME NEW y \in S PROVE x >= y
  <2>1. t <= n - y
    BY <1>2, <1>4, Zenon
  <2>2. x \in 0..n /\ y \in 0..n
    BY Zenon
  <2> QED BY <1>3, <2>1, <2>2
<1>6. \A y \in S : Max(S) >= y
  BY <1>5, Zenon DEF Max
<1>7. Max(S) \in S
  BY <1>5, Zenon DEF Max
<1> QED BY <1>6, <1>7

\* The match is a page-aligned prefix of the prompt that the tree holds.
LEMMA MatchedFacts ==
  ASSUME LibraryFacts, NEW nodes, NEW s \in Seq(Tokens), NEW m, m = MatchedPages(nodes, s)
  PROVE  /\ m \in 0..FullPages(s) /\ PagePrefix(s, m) \in Paths
         /\ PagePrefix(s, m) = Root \/ Matches(nodes, PagePrefix(s, m))
<1> DEFINE S == {n \in 0..FullPages(s) : \A i \in 1..n : Matches(nodes, PagePrefix(s, i))}
<1>1. FullPages(s) \in Nat /\ PagePrefix(s, 0) = Root
  BY LevelBounds, RootPath
<1>2. S \subseteq 0..FullPages(s) /\ 0 \in S
  BY <1>1
<1>3. m \in S
  <2>1. m = Max(S)
    BY Zenon DEF MatchedPages
  <2> HIDE DEF S
  <2> QED BY <1>1, <1>2, <2>1, MaxFacts, Zenon
<1>4. m \in 0..FullPages(s) /\ \A i \in 1..m : Matches(nodes, PagePrefix(s, i))
  BY <1>3, Zenon
<1>5. m = 0 \/ m \in 1..m
  BY <1>1, <1>4
<1> QED BY <1>1, <1>4, <1>5, PrefixPath, Zenon

\* A pin with one allocation less to live.
LEMMA PinFacts ==
  ASSUME NEW p \in PinEntry
  PROVE  /\ p # None /\ p.node \in Seq(Tokens) /\ p.left \in Nat
         /\ p.left \notin {0, 1} =>
                /\ [p EXCEPT !.left = @ - 1] \in PinEntry
                /\ [p EXCEPT !.left = @ - 1].node = p.node
<1>1. p # None
  BY NotNone, Zenon
<1>2. p = [node |-> p.node, left |-> p.left] /\ p.node \in Seq(Tokens) /\ p.left \in Nat
  BY DEF PinEntry
<1>3. PICK k : k = p.left - 1
  OBVIOUS
<1>4. [p EXCEPT !.left = @ - 1] = [node |-> p.node, left |-> k]
  BY <1>2, <1>3
<1>5. p.left \notin {0, 1} => k \in Nat
  BY <1>2, <1>3
<1>6. [node |-> p.node, left |-> k].node = p.node
  OBVIOUS
<1>7. p.left \notin {0, 1} => [node |-> p.node, left |-> k] \in PinEntry
  BY <1>2, <1>5, Zenon DEF PinEntry
<1> QED BY <1>1, <1>2, <1>4, <1>6, <1>7, Zenon

\* What keeps everything keeps all requests' paths.
LEMMA KeepsSafe ==
  ASSUME NEW c, NEW d, NEW RL, NEW PR, \A h, P : Keeps(c, d, h, P)
  PROVE  Safe(c, d, RL, PR)
BY Zenon DEF Safe

\* pin: lock the match for the session.
LEMMA PinStep ==
  \A x :
      /\ LibraryFacts /\ RadixInv /\ x \in Sessions /\ Pin(x)
    =>   RadixInv'
\* The same for a session.
<1>LockSession.
  ASSUME LibraryFacts, NEW c, NEW RL, NEW SL, NEW PR, NEW PF, CacheOK(c, RL, SL, PR, PF),
         NEW x \in Paths, x = Root \/ Matches(c.nodes, x),
         NEW y, NEW SM, AddsLock(Sessions, SL, SM, y, x), NEW d, d = MatchAndLock(c, x)
  PROVE  CacheOK(d, RL, SM, PR, PF) /\ \A h, P : Keeps(c, d, h, P)
  <2> USE <1>LockSession
  <2>1. IsFiniteSet(Requests) /\ IsFiniteSet(Sessions)
    BY RadixAssumption, Zenon
  <2>2. ASSUME NEW q
        PROVE  /\ OnPath(q, x) =>
                      Cardinality(Lockers(Requests, RL, q)) + Cardinality(Lockers(Sessions, SM, q))
                          = Cardinality(Lockers(Requests, RL, q))
                            + Cardinality(Lockers(Sessions, SL, q)) + 1
               /\ ~OnPath(q, x) => Lockers(Sessions, SM, q) = Lockers(Sessions, SL, q)
    <3>1. /\ OnPath(q, x) => Cardinality(Lockers(Sessions, SM, q))
                                 = Cardinality(Lockers(Sessions, SL, q)) + 1
          /\ ~OnPath(q, x) => Lockers(Sessions, SM, q) = Lockers(Sessions, SL, q)
      BY <2>1, LockersAdd
    <3>2. /\ Cardinality(Lockers(Requests, RL, q)) \in Nat
          /\ Cardinality(Lockers(Sessions, SL, q)) \in Nat
      BY <2>1, LockersFinite, Zenon
    <3> QED BY <3>1, <3>2
  <2>3. LocksMore(RL, SL, RL, SM, x)
    BY <2>2, Zenon DEF LocksMore, AddsLock
  <2> QED BY <2>3, MatchAndLocks, Zenon
<1> SUFFICES
  ASSUME LibraryFacts, RadixInv, NEW x \in Sessions, Pin(x)
  PROVE  RadixInv'
  OBVIOUS
<1>1. PICK s \in Prompts, ttl \in PinTtls \cup {0} :
         /\ cache' = MatchAndLock(cache, PagePrefix(s, MatchedPages(cache.nodes, s)))
         /\ pins' = [pins EXCEPT ![x] = [node |-> PagePrefix(s, MatchedPages(cache.nodes, s)),
                                         left |-> ttl]]
  BY Zenon DEF Pin
<1>2. pins[x] = None /\ alloc' = alloc
  BY Zenon DEF Pin
<1>3. s \in Seq(Tokens) /\ ttl \in Nat
  BY RadixAssumption
<1>4. PICK m : m = MatchedPages(cache.nodes, s)
  OBVIOUS
<1>5. PICK g : g = PagePrefix(s, m)
  OBVIOUS
<1>6. /\ m \in 0..FullPages(s) /\ g \in Paths /\ (g = Root \/ Matches(cache.nodes, g))
  BY <1>3, <1>4, <1>5, MatchedFacts
<1>7. g \in Seq(Tokens)
  BY <1>6, PathFacts
<1>8. PICK RL, SL, PR, PF, SM, d :
         /\ RL = RequestLocks /\ SL = SessionLocks /\ PR = RequestPages /\ PF = Prefills
         /\ SM = SessionLocks' /\ d = cache'
  BY Zenon
<1>9. PICK p : p = [node |-> g, left |-> ttl]
  BY Zenon
<1>10. p \in PinEntry /\ p # None /\ p.node = g
  <2>1. p \in PinEntry /\ p.node = g
    BY <1>3, <1>7, <1>9 DEF PinEntry
  <2> QED BY <2>1, PinFacts, Zenon
<1>11. d = MatchAndLock(cache, g) /\ pins' = [pins EXCEPT ![x] = p]
  BY <1>1, <1>4, <1>5, <1>8, <1>9, Zenon
<1>12. pins \in [Sessions -> PinEntry \cup {None}]
  BY InvView, Zenon
<1>13. /\ pins' \in [Sessions -> PinEntry \cup {None}] /\ pins'[x] = p
       /\ \A y \in Sessions : y # x => pins'[y] = pins[y]
  BY <1>10, <1>11, <1>12
<1>14. AddsLock(Sessions, SL, SM, x, g)
  <2>1. /\ \A y \in Sessions : SessionLocks'[y] = IF pins'[y] = None THEN {} ELSE {pins'[y].node}
        /\ \A y \in Sessions : SessionLocks[y] = IF pins[y] = None THEN {} ELSE {pins[y].node}
    BY Zenon DEF SessionLocks
  <2> QED BY <1>2, <1>8, <1>10, <1>13, <2>1, ZenonT(30) DEF AddsLock
<1>15. CacheOK(cache, RL, SL, PR, PF)
  BY <1>8, InvView, Zenon
<1>16. CacheOK(d, RL, SM, PR, PF) /\ \A h, P : Keeps(cache, d, h, P)
  BY ONLY LibraryFacts, <1>6, <1>11, <1>14, <1>15, <1>LockSession
<1>17. Safe(cache, d, RL, PR)
  BY <1>16, KeepsSafe, Zenon
<1> QED BY <1>2, <1>8, <1>13, <1>16, <1>17, StepCache, Zenon

\* unpin: the session's path is unlocked.
LEMMA UnpinStep ==
  \A x :
      /\ LibraryFacts /\ RadixInv /\ x \in Sessions /\ Unpin(x)
    =>   RadixInv'
\* _unlock_path for a pin.  Pins lock computed paths only: a node being prefilled has
\* one lock, its request's.
<1>UnlockSession.
  ASSUME LibraryFacts, NEW c, NEW RL, NEW SL, NEW PR, NEW PF, CacheOK(c, RL, SL, PR, PF),
         NEW x, NEW h, NEW SM, AddsLock(Sessions, SM, SL, x, h),
         NEW d, d = UnlockPath(c, h)
  PROVE  CacheOK(d, RL, SM, PR, PF) /\ \A g, P : Keeps(c, d, g, P)
  <2> USE <1>UnlockSession
  <2>1. IsCache(c) /\ Tree(c.nodes) /\ Locked(c.nodes, RL, SL) /\ Prefilling(c.nodes, RL, PF)
    BY Zenon DEF CacheOK
  <2>2. IsFiniteSet(Requests) /\ IsFiniteSet(Sessions)
    BY RadixAssumption, Zenon
  <2>3. ASSUME NEW q \in DOMAIN c.nodes
        PROVE  /\ c.nodes[q].ref = Cardinality(Lockers(Requests, RL, q))
                                   + Cardinality(Lockers(Sessions, SL, q))
               /\ OnPath(q, h) => Cardinality(Lockers(Sessions, SL, q))
                                      = Cardinality(Lockers(Sessions, SM, q)) + 1
               /\ ~OnPath(q, h) => Cardinality(Lockers(Sessions, SL, q))
                                       = Cardinality(Lockers(Sessions, SM, q))
               /\ Cardinality(Lockers(Requests, RL, q)) \in Nat
               /\ Cardinality(Lockers(Sessions, SM, q)) \in Nat
    <3>1. /\ OnPath(q, h) => Cardinality(Lockers(Sessions, SL, q))
                                 = Cardinality(Lockers(Sessions, SM, q)) + 1
          /\ ~OnPath(q, h) => Lockers(Sessions, SL, q) = Lockers(Sessions, SM, q)
      BY <2>2, LockersAdd
    <3> QED BY <2>1, <2>2, <3>1, LockersFinite, Zenon DEF Locked
  <2>4. \A q \in DOMAIN c.nodes : OnPath(q, h) => c.nodes[q].ref # 0
    BY ONLY <2>3
  <2>4a. IsUnlocked(c, h, d)
    BY <2>1, <2>4, UnlockShape, Zenon
  <2>5. /\ IsCache(d) /\ d.free = c.free /\ d.older = c.older
        /\ d.told = c.told /\ d.lost = c.lost /\ d.rows = c.rows
        /\ SameShape(c.nodes, d.nodes)
        /\ \A q \in DOMAIN c.nodes :
               /\ OnPath(q, h) => d.nodes[q].ref = c.nodes[q].ref - 1
               /\ ~OnPath(q, h) => d.nodes[q].ref = c.nodes[q].ref
    BY <2>4a, Zenon DEF IsUnlocked
  <2>6. DOMAIN d.nodes = DOMAIN c.nodes
    BY <2>5, Zenon DEF SameShape
  <2>7. Locked(d.nodes, RL, SM)
    <3>1. ASSUME NEW q \in DOMAIN d.nodes
          PROVE  d.nodes[q].ref = Cardinality(Lockers(Requests, RL, q))
                                  + Cardinality(Lockers(Sessions, SM, q))
      <4>1. q \in DOMAIN c.nodes
        BY <2>6, Zenon
      <4>2. /\ OnPath(q, h) => d.nodes[q].ref = c.nodes[q].ref - 1
            /\ ~OnPath(q, h) => d.nodes[q].ref = c.nodes[q].ref
        BY <2>5, <4>1, Zenon
      <4> QED BY ONLY <2>3, <4>1, <4>2
    <3>2. /\ \A o \in Requests : RL[o] \subseteq (DOMAIN d.nodes) \cup {Root}
          /\ \A y \in Sessions : SM[y] \subseteq (DOMAIN d.nodes) \cup {Root}
      BY <2>1, <2>6, Zenon DEF Locked, AddsLock
    <3> QED BY <3>1, <3>2, Zenon DEF Locked
    \* A node being prefilled has one lock, its request's, so no session has it.
  <2>8. ASSUME NEW q \in DOMAIN c.nodes, ~c.nodes[q].computed
        PROVE  d.nodes[q].ref = c.nodes[q].ref
    <3>1. c.nodes[q].ref = 1 /\ \E r \in Requests : q \in RL[r]
      BY <2>1, <2>8, Zenon DEF Prefilling
    <3>2. OnPath(q, q)
      BY <2>1, TreeNode, OnPathRefl, Zenon
    <3>3. Cardinality(Lockers(Requests, RL, q)) # 0
      BY <2>2, <3>1, <3>2, LockersNone, Zenon
    <3>4. ~OnPath(q, h)
      BY ONLY <2>3, <3>1, <3>3, q \in DOMAIN c.nodes
    <3> QED BY <2>3, <2>5, <3>4, Zenon
  <2>9. PrefillsKept(c.nodes, d.nodes, RL, RL)
    BY <2>8, Zenon DEF PrefillsKept
  <2> QED BY <2>5, <2>7, <2>9, Relock, Zenon
<1> SUFFICES
  ASSUME LibraryFacts, RadixInv, NEW x \in Sessions, Unpin(x)
  PROVE  RadixInv'
  OBVIOUS
<1>1. /\ pins[x] # None /\ alloc' = alloc /\ cache' = UnlockPath(cache, pins[x].node)
      /\ pins' = [pins EXCEPT ![x] = None]
  BY Zenon DEF Unpin
<1>2. PICK RL, SL, PR, PF, SM, d :
         /\ RL = RequestLocks /\ SL = SessionLocks /\ PR = RequestPages /\ PF = Prefills
         /\ SM = SessionLocks' /\ d = cache'
  BY Zenon
<1>3. PICK g : g = pins[x].node
  OBVIOUS
<1>4. pins \in [Sessions -> PinEntry \cup {None}]
  BY InvView, Zenon
<1>5. /\ pins' \in [Sessions -> PinEntry \cup {None}] /\ pins'[x] = None
      /\ \A y \in Sessions : y # x => pins'[y] = pins[y]
  BY <1>1, <1>4
<1>6. AddsLock(Sessions, SM, SL, x, g)
  <2>1. /\ \A y \in Sessions : SessionLocks'[y] = IF pins'[y] = None THEN {} ELSE {pins'[y].node}
        /\ \A y \in Sessions : SessionLocks[y] = IF pins[y] = None THEN {} ELSE {pins[y].node}
    BY Zenon DEF SessionLocks
  <2> QED BY <1>1, <1>2, <1>3, <1>5, <2>1, Zenon DEF AddsLock
<1>7. CacheOK(cache, RL, SL, PR, PF) /\ d = UnlockPath(cache, g)
  BY <1>1, <1>2, <1>3, InvView, Zenon
<1>8. CacheOK(d, RL, SM, PR, PF) /\ \A h, P : Keeps(cache, d, h, P)
  BY ONLY LibraryFacts, <1>6, <1>7, <1>UnlockSession
<1>9. Safe(cache, d, RL, PR)
  BY <1>8, KeepsSafe, Zenon
<1> QED BY <1>1, <1>2, <1>5, <1>8, <1>9, StepCache, Zenon

\* Free pages that leave circulation: an unknown completion, the scratch page.
Quarantined(c, T) == [PoolAllocate(c, T) EXCEPT !.lost = @ \cup T]

\* Free pages go out of use; nobody else loses or gains any.
LEMMA LostOK ==
  ASSUME NEW c, NEW RL, NEW SL, NEW PR, NEW PF, CacheOK(c, RL, SL, PR, PF),
         NEW T, T \subseteq c.free, NEW d, d = Quarantined(c, T)
  PROVE  /\ CacheOK(d, RL, SL, PR, PF) /\ \A h, P : Keeps(c, d, h, P)
<1>1. IsCache(c) /\ Tree(c.nodes) /\ Owned(c, PR) /\ Written(c)
  BY Zenon DEF CacheOK
<1>2. d = [free |-> c.free \ T, nodes |-> c.nodes, older |-> c.older, host |-> c.host,
           told |-> c.told, lost |-> c.lost \cup T, rows |-> c.rows]
  <2>1. PICK a : a = PoolAllocate(c, T)
    OBVIOUS
  <2>2. a = [free |-> c.free \ T, nodes |-> c.nodes, older |-> c.older, host |-> c.host,
             told |-> c.told, lost |-> c.lost, rows |-> c.rows]
    BY <1>1, <2>1 DEF IsCache, PoolAllocate
  <2>3. PICK w, l : w = c.free \ T /\ l = c.lost \cup T
    BY Zenon
  <2>4. a.lost = c.lost
    BY ONLY <2>2, Zenon
  <2>5. d = [a EXCEPT !.lost = l]
    BY <2>1, <2>3, <2>4, Zenon DEF Quarantined
  <2>6. a = [free |-> w, nodes |-> c.nodes, older |-> c.older, host |-> c.host,
             told |-> c.told, lost |-> c.lost, rows |-> c.rows]
    BY <2>2, <2>3, Zenon
  <2>7. d = [free |-> w, nodes |-> c.nodes, older |-> c.older, host |-> c.host,
             told |-> c.told, lost |-> l, rows |-> c.rows]
    BY ONLY <2>5, <2>6, Zenon
  <2> QED BY <2>3, <2>7, Zenon
<1>3. /\ IsCache(d) /\ d.free = c.free \ T /\ d.nodes = c.nodes /\ d.older = c.older
      /\ d.told = c.told /\ d.lost = c.lost \cup T /\ d.rows = c.rows
  BY ONLY <1>2, Zenon DEF IsCache
<1>4. OwnedX(d.free, d.lost, NodePages(c.nodes), PR)
  <2>1. OwnedX(c.free, c.lost, NodePages(c.nodes), PR)
    BY <1>1, OwnedView, Zenon
  <2> DEFINE N == NodePages(c.nodes)
             U == UNION {PR[o] : o \in Requests}
  <2>2. /\ c.free \cup c.lost \cup N \cup U = Pages
        /\ c.free \cap c.lost = {} /\ (c.free \cup c.lost) \cap N = {}
        /\ \A o \in Requests : PR[o] \cap (c.free \cup c.lost \cup N) = {}
        /\ \A o \in Requests : \A e \in Requests : o # e => PR[o] \cap PR[e] = {}
    BY <2>1, Zenon DEF OwnedX
  <2> HIDE DEF N, U
  <2>3. d.free \cup d.lost = c.free \cup c.lost /\ d.free \cap d.lost = {}
    BY <1>3, <2>2, Zenon
  <2>4. /\ d.free \cup d.lost \cup N \cup U = Pages
        /\ d.free \cap d.lost = {} /\ (d.free \cup d.lost) \cap N = {}
        /\ \A o \in Requests : PR[o] \cap (d.free \cup d.lost \cup N) = {}
    BY ONLY <2>2, <2>3
  <2> QED BY <2>2, <2>4, Zenon DEF OwnedX, N, U
<1>5. Written(d)
  BY <1>1, <1>3, RowsKept, Zenon
<1>6. CacheOK(d, RL, SL, PR, PF)
  BY ONLY CacheOK(c, RL, SL, PR, PF), <1>3, <1>4, <1>5, Repage, Zenon
<1>7. ASSUME NEW h, NEW P PROVE Keeps(c, d, h, P)
  BY <1>3, KeepsRefl, Zenon
<1> QED BY <1>6, <1>7, Zenon

\* reserve_scratch_page.
LEMMA ScratchStep ==
  ASSUME LibraryFacts, RadixInv, ReserveScratchPage
  PROVE  RadixInv'
<1>1. alloc' = alloc /\ pins' = pins
  BY Zenon DEF ReserveScratchPage
<1>12. PICK env \in Environment : \E room \in EnsureFree(cache, 1, env.offload, env.refuse) :
          cache' = IF room.result = "ok"
                   THEN Quarantined(room.cache, Range(Take(room.cache, 1, 1))) ELSE room.cache
  BY Zenon DEF ReserveScratchPage, Quarantined
<1>2. PICK room \in EnsureFree(cache, 1, env.offload, env.refuse) :
          cache' = IF room.result = "ok"
                   THEN Quarantined(room.cache, Range(Take(room.cache, 1, 1))) ELSE room.cache
  BY <1>12
<1>3. PICK RL, SL, PR, PF, d, e :
         /\ RL = RequestLocks /\ SL = SessionLocks /\ PR = RequestPages /\ PF = Prefills
         /\ d = cache' /\ e = room.cache
  BY Zenon
<1>4. CacheOK(cache, RL, SL, PR, PF)
  BY <1>3, InvView, Zenon
<1>5. /\ CacheOK(e, RL, SL, PR, PF) /\ Safe(cache, e, RL, PR)
      /\ room.result = "ok" => Cardinality(e.free) >= 1
  <2>1. /\ CacheOK(room.cache, RL, SL, PR, PF) /\ Safe(cache, room.cache, RL, PR)
        /\ room.result = "ok" => Cardinality(room.cache.free) >= 1
    BY <1>4, EnsureFreeOK, Zenon
  <2> QED BY <1>3, <2>1, Zenon
<1>6. CacheOK(d, RL, SL, PR, PF) /\ Safe(cache, d, RL, PR)
  <2>1. CASE room.result = "ok"
    <3>1. PICK T : T = Range(Take(e, 1, 1))
      OBVIOUS
    <3>2. d = Quarantined(e, T)
      BY <1>2, <1>3, <2>1, <3>1, Zenon
    <3>3. Owned(e, PR)
      BY <1>5, Zenon DEF CacheOK
    <3>4. Cardinality(e.free) \in Nat
      BY <3>3, FreeFinite, CardType
    <3>5. 1 \in Nat /\ 1 + 1 - 1 <= Cardinality(e.free)
      BY <1>5, <2>1, <3>4
    <3>6. T \subseteq e.free
      BY <3>1, <3>3, <3>5, TakenPages, Zenon DEF IsTaken
    <3>7. CacheOK(d, RL, SL, PR, PF) /\ \A h, P : Keeps(e, d, h, P)
      BY ONLY <1>5, <3>2, <3>6, LostOK, Zenon
    <3>8. Safe(cache, d, RL, PR)
      BY <1>5, <3>7, KeepsTrans, Zenon DEF Safe
    <3> QED BY <3>7, <3>8
  <2>2. CASE room.result # "ok"
    BY <1>2, <1>3, <1>5, <2>2, Zenon
  <2> QED BY <2>1, <2>2
<1> QED BY <1>1, <1>3, <1>6, SamePins, StepCache, Zenon

\* What the tier holds is nothing the cache relies on.
LEMMA HostOK ==
  ASSUME NEW c, NEW RL, NEW SL, NEW PR, NEW PF, CacheOK(c, RL, SL, PR, PF),
         NEW h, NEW d, d = [c EXCEPT !.host = h]
  PROVE  CacheOK(d, RL, SL, PR, PF) /\ \A g, P : Keeps(c, d, g, P)
<1>1. IsCache(c) /\ Tree(c.nodes) /\ Owned(c, PR) /\ Written(c)
  BY Zenon DEF CacheOK
<1>2. d = [free |-> c.free, nodes |-> c.nodes, older |-> c.older, host |-> h,
           told |-> c.told, lost |-> c.lost, rows |-> c.rows]
  BY <1>1 DEF IsCache
<1>3. /\ IsCache(d) /\ d.free = c.free /\ d.nodes = c.nodes /\ d.older = c.older
      /\ d.told = c.told /\ d.lost = c.lost /\ d.rows = c.rows
  BY ONLY <1>2, Zenon DEF IsCache
<1>4. OwnedX(d.free, d.lost, NodePages(c.nodes), PR)
  BY <1>1, <1>3, OwnedView, Zenon
<1>5. Written(d)
  BY <1>1, <1>3, RowsKept, Zenon
<1>6. CacheOK(d, RL, SL, PR, PF)
  BY <1>3, <1>4, <1>5, Repage, Zenon
<1>7. ASSUME NEW g, NEW P PROVE Keeps(c, d, g, P)
  BY <1>3, KeepsRefl, Zenon
<1> QED BY <1>6, <1>7, Zenon

\* The tier's own losses.
LEMMA HostStep ==
  ASSUME RadixInv, HostForgets
  PROVE  RadixInv'
<1>1. alloc' = alloc /\ pins' = pins /\ \E h : cache' = [cache EXCEPT !.host = h]
  BY Zenon DEF HostForgets
<1>2. PICK RL, SL, PR, PF, d :
         /\ RL = RequestLocks /\ SL = SessionLocks /\ PR = RequestPages /\ PF = Prefills /\ d = cache'
  BY Zenon
<1>3. CacheOK(cache, RL, SL, PR, PF)
  BY <1>2, InvView, Zenon
<1>4. CacheOK(d, RL, SL, PR, PF) /\ \A g, P : Keeps(cache, d, g, P)
  BY <1>1, <1>2, <1>3, HostOK, Zenon
<1>5. Safe(cache, d, RL, PR)
  BY <1>4, KeepsSafe, Zenon
<1> QED BY <1>1, <1>2, <1>4, <1>5, SamePins, StepCache, Zenon

\* An allocation with one more page, or with other outputs.
MorePages(a, t) == [a EXCEPT !.table = t]

MoreOut(a, o) == [a EXCEPT !.out = o]

\* The fields of a grown or extended allocation.
LEMMA MoreFields ==
  ASSUME NEW a \in Allocation, NEW t \in Seq(Pages), NEW o \in Seq(Tokens)
  PROVE  /\ MorePages(a, t) \in Allocation /\ MorePages(a, t).table = t
         /\ MorePages(a, t).tokens = a.tokens /\ MorePages(a, t).matched = a.matched
         /\ MorePages(a, t).node = a.node /\ MorePages(a, t).inserted = a.inserted
         /\ MorePages(a, t).out = a.out
         /\ MoreOut(a, o) \in Allocation /\ MoreOut(a, o).out = o
         /\ MoreOut(a, o).tokens = a.tokens /\ MoreOut(a, o).matched = a.matched
         /\ MoreOut(a, o).node = a.node /\ MoreOut(a, o).inserted = a.inserted
         /\ MoreOut(a, o).table = a.table
<1>1. PICK s, u, m, n, b, p : /\ s = a.tokens /\ u = a.table /\ m = a.matched /\ n = a.node
                              /\ b = a.inserted /\ p = a.out
  BY Zenon
<1>2. a = [tokens |-> s, table |-> u, matched |-> m, node |-> n, inserted |-> b, out |-> p]
  BY <1>1, AllocParts, Zenon
<1>3. /\ s \in Seq(Tokens) /\ u \in Seq(Pages) /\ m \in Nat /\ n \in Seq(Tokens)
      /\ b \in BOOLEAN /\ p \in Seq(Tokens)
  BY <1>1, AllocParts, Zenon
<1>4. MorePages(a, t)
        = [tokens |-> s, table |-> t, matched |-> m, node |-> n, inserted |-> b, out |-> p]
  BY ONLY <1>2 DEF MorePages
<1>5. MoreOut(a, o)
        = [tokens |-> s, table |-> u, matched |-> m, node |-> n, inserted |-> b, out |-> o]
  BY ONLY <1>2 DEF MoreOut
<1>6. /\ MorePages(a, t) \in Allocation /\ MorePages(a, t).table = t
      /\ MorePages(a, t).tokens = s /\ MorePages(a, t).matched = m
      /\ MorePages(a, t).node = n /\ MorePages(a, t).inserted = b
      /\ MorePages(a, t).out = p
  BY ONLY <1>3, <1>4, t \in Seq(Pages) DEF Allocation
<1>7. /\ MoreOut(a, o) \in Allocation /\ MoreOut(a, o).out = o
      /\ MoreOut(a, o).tokens = s /\ MoreOut(a, o).matched = m
      /\ MoreOut(a, o).node = n /\ MoreOut(a, o).inserted = b
      /\ MoreOut(a, o).table = u
  BY ONLY <1>3, <1>5, o \in Seq(Tokens) DEF Allocation
<1> QED BY <1>1, <1>6, <1>7, Zenon

IsGrown(d, a, g, b) ==
    /\ b \in Allocation /\ AllocOK(d, b) /\ b.node = a.node
    /\ PrivatePages(b) = PrivatePages(a) \cup {g} /\ PrefillOf(b) = PrefillOf(a)

\* allocate_private_page.
LEMMA GrowStep ==
  \A r :
      /\ LibraryFacts /\ RadixInv /\ r \in Requests /\ Grow(r)
    =>   RadixInv'
\* One more page, which was nobody's, at the end of the table.
<1>GrowAlloc.
  ASSUME NEW d, NEW a \in Allocation, AllocOK(d, a), a.out # <<>>,
         NEW g \in Pages, g \notin PrivatePages(a), NEW t, t = Append(a.table, g),
         NEW b, b = MorePages(a, t)
  PROVE  IsGrown(d, a, g, b)
  <2> USE <1>GrowAlloc
  <2>1. AllocShape(a) /\ InTree(d, a) /\ OwnRows(d, a)
    BY Zenon DEF AllocOK
  <2>2. PICK N \in Nat, F \in Nat : N = Len(a.table) /\ F = PrivateFrom(a) /\ F <= N
    <3>1. /\ Len(a.table) \in Nat /\ FullPages(a.tokens) \in Nat /\ PrivateFrom(a) \in Nat
          /\ PrivateFrom(a) <= FullPages(a.tokens) /\ FullPages(a.tokens) <= Len(a.table)
      BY <2>1, AllocSizes, Zenon
    <3> QED BY <3>1
  <2>3. /\ t \in Seq(Pages) /\ Len(t) = N + 1 /\ t[N + 1] = g
        /\ \A i \in 1..N : t[i] = a.table[i]
    BY <2>2, AllocParts
  <2>4. /\ b \in Allocation /\ b.table = t /\ b.tokens = a.tokens /\ b.matched = a.matched
        /\ b.node = a.node /\ b.inserted = a.inserted /\ b.out = a.out
    <3>1. <<>> \in Seq(Tokens)
      OBVIOUS
    <3> QED BY <2>3, <3>1, MoreFields, Zenon
  <2>5. PrivateFrom(b) = F /\ Sequence(b) = Sequence(a)
    BY <2>2, <2>4, Zenon DEF PrivateFrom, Sequence
  <2>6. \A i \in (F + 1)..N : i \in 1..N /\ i \in (F + 1)..(N + 1)
    BY <2>2
  <2>7. \A i \in (F + 1)..(N + 1) : i \in (F + 1)..N \/ i = N + 1
    BY <2>2
  <2>8. N + 1 \in (F + 1)..(N + 1) /\ Len(b.table) = N + 1
    BY <2>2, <2>3, <2>4
  <2>9. PrivatePages(a) = {a.table[i] : i \in (F + 1)..N}
    BY <2>2, Zenon DEF PrivatePages
  <2>10. PrivatePages(b) = PrivatePages(a) \cup {g}
    <3>1. PrivatePages(b) = {t[i] : i \in (F + 1)..(N + 1)}
      BY <2>4, <2>5, <2>8 DEF PrivatePages
    <3>2. \A i \in (F + 1)..N : t[i] = a.table[i]
      BY <2>3, <2>6, Zenon
    <3> QED BY <2>3, <2>6, <2>7, <2>8, <2>9, <3>1, <3>2, ZenonT(30)
  <2>11. AllocShape(b)
    <3>1. /\ Len(b.tokens) > 0 /\ b.matched \in 0..FullPages(b.tokens)
          /\ (b.inserted \/ b.matched < FullPages(b.tokens))
          /\ b.node = PagePrefix(b.tokens, PrivateFrom(b))
      BY <2>1, <2>2, <2>4, <2>5, Zenon DEF AllocShape
    <3>2. Len(b.table) >= TablePages(b.tokens)
      <4>1. N >= TablePages(a.tokens) /\ TablePages(a.tokens) \in Nat
        BY <2>1, <2>2, AllocParts, TableSize DEF AllocShape
      <4> QED BY <2>4, <2>8, <4>1
    <3>3. Len(b.table) * PageSize >= Len(Sequence(b)) - 1
      <4>1. N * PageSize >= Len(Sequence(a)) - 1
        BY <2>1, <2>2, Zenon DEF AllocShape
      <4>2. Len(Sequence(a)) \in Nat /\ PageSize \in Nat
        BY <2>1, AllocSizes, RadixAssumption
      <4>3. (N + 1) * PageSize >= N * PageSize /\ N * PageSize \in Nat /\ (N + 1) * PageSize \in Nat
        BY MulMono
      <4> QED BY <2>5, <2>8, <4>1, <4>2, <4>3
    <3>4. ASSUME NEW i \in (F + 1)..(N + 1), NEW j \in (F + 1)..(N + 1), t[i] = t[j]
          PROVE  i = j
      <4>1. \A k, l \in (F + 1)..N : a.table[k] = a.table[l] => k = l
        BY <2>1, <2>2, Zenon DEF AllocShape
      <4>2. \A k \in (F + 1)..N : t[k] = a.table[k] /\ t[k] # g
        BY <2>3, <2>6, <2>9, Zenon
      <4> QED BY <2>3, <2>7, <3>4, <4>1, <4>2, Zenon
    <3>5. \A i, j \in (PrivateFrom(b) + 1)..Len(b.table) : b.table[i] = b.table[j] => i = j
      BY <2>4, <2>5, <2>8, <3>4
    <3> QED BY <3>1, <3>2, <3>3, <3>5, Zenon DEF AllocShape
  <2>12. InTree(d, b)
    <3>1. \A i \in 1..F : i \in 1..N
      BY <2>2
    <3>2. ASSUME NEW i \in 1..F
          PROVE  \E q \in Holder(d.nodes, PagePrefix(a.tokens, i)) : d.nodes[q].pages[i] = t[i]
      <4>1. \E q \in Holder(d.nodes, PagePrefix(a.tokens, i)) : d.nodes[q].pages[i] = a.table[i]
        BY <2>1, <2>2, Zenon DEF InTree
      <4> QED BY <2>3, <3>1, <4>1, Zenon
    <3>3. \A i \in 1..PrivateFrom(b) :
              \E q \in Holder(d.nodes, PagePrefix(b.tokens, i)) : d.nodes[q].pages[i] = b.table[i]
      <4> SUFFICES ASSUME NEW i \in 1..F
                   PROVE  \E q \in Holder(d.nodes, PagePrefix(b.tokens, i)) :
                              d.nodes[q].pages[i] = b.table[i]
        BY <2>5, Zenon
      <4>1. PagePrefix(b.tokens, i) = PagePrefix(a.tokens, i) /\ b.table[i] = t[i]
        BY <2>4, Zenon
      <4> QED BY <3>2, <4>1, Zenon
    <3>4. a.node # Root =>
             /\ d.nodes[a.node].computed
                   <=> (a.out # <<>> \/ ~a.inserted \/ a.matched = FullPages(a.tokens))
             /\ d.nodes[a.node].computed \/ d.nodes[a.node].start = a.matched
      BY <2>1, Zenon DEF InTree
    <3> QED BY <2>4, <3>3, <3>4, Zenon DEF InTree
  <2>13. OwnRows(d, b)
    <3>1. ASSUME NEW i \in (F + 1)..(N + 1), (i - 1) * PageSize < Len(Sequence(a)) - 1
          PROVE  d.rows[t[i]] = Fill(Sequence(a), i, Len(Sequence(a)) - 1)
      <4>1. CASE i \in (F + 1)..N
        <5>1. d.rows[a.table[i]] = Fill(Sequence(a), i, Len(Sequence(a)) - 1)
          BY <2>1, <2>2, <3>1, <4>1, ZenonT(30) DEF OwnRows
        <5> QED BY <2>3, <2>6, <4>1, <5>1, Zenon
      <4>2. CASE i = N + 1
        <5>1. N * PageSize >= Len(Sequence(a)) - 1
          BY <2>1, <2>2, Zenon DEF AllocShape
        <5>2. i - 1 = N
          BY ONLY N \in Nat, <4>2
        <5>3. Sequence(a) \in Seq(Tokens) /\ Len(a.table) * PageSize \in Nat
          BY <2>1, AllocSizes, Zenon
        <5>4. Len(Sequence(a)) \in Nat /\ N * PageSize \in Nat
          BY ONLY <2>2, <5>3
        <5> QED BY <3>1, <5>1, <5>2, <5>4
      <4> QED BY <2>7, <4>1, <4>2, Zenon
    <3> QED BY <2>4, <2>5, <2>8, <3>1 DEF OwnRows
  <2>14. PrefillOf(b) = PrefillOf(a)
    <3>1. a # None /\ b # None
      BY <2>4, NotNone, Zenon
    <3> QED BY <2>4, <3>1, Zenon DEF PrefillOf
  <2> QED BY <2>4, <2>10, <2>11, <2>12, <2>13, <2>14, Zenon DEF AllocOK, IsGrown
<1> SUFFICES
  ASSUME LibraryFacts, RadixInv, NEW r \in Requests, Grow(r)
  PROVE  RadixInv'
  OBVIOUS
<1>1. alloc[r] # None /\ alloc[r].out # <<>> /\ pins' = pins
  BY Zenon DEF Grow
<1>2. PICK a : a = alloc[r]
  OBVIOUS
<1>3. PICK N : N = Len(a.table) + 1
  OBVIOUS
<1>4. PICK env \in Environment : \E room \in EnsureFree(cache, 1, env.offload, env.refuse) :
         IF room.result = "ok"
         THEN /\ cache' = PoolAllocate(room.cache, Range(Take(room.cache, N, N)))
              /\ alloc' = [alloc EXCEPT ![r].table = Append(@, Take(room.cache, N, N)[N])]
         ELSE cache' = room.cache /\ alloc' = alloc
  BY <1>2, <1>3, Zenon DEF Grow
<1>5. PICK room \in EnsureFree(cache, 1, env.offload, env.refuse) :
         IF room.result = "ok"
         THEN /\ cache' = PoolAllocate(room.cache, Range(Take(room.cache, N, N)))
              /\ alloc' = [alloc EXCEPT ![r].table = Append(@, Take(room.cache, N, N)[N])]
         ELSE cache' = room.cache /\ alloc' = alloc
  BY <1>4
<1>6. PICK RL, SL, PR, PF, d, e :
         /\ RL = RequestLocks /\ SL = SessionLocks /\ PR = RequestPages /\ PF = Prefills
         /\ d = cache' /\ e = room.cache
  BY Zenon
<1>7. CacheOK(cache, RL, SL, PR, PF)
  BY <1>6, InvView, Zenon
<1>8. /\ CacheOK(e, RL, SL, PR, PF) /\ Safe(cache, e, RL, PR)
      /\ room.result = "ok" => Cardinality(e.free) >= 1
  <2>1. /\ CacheOK(room.cache, RL, SL, PR, PF) /\ Safe(cache, room.cache, RL, PR)
        /\ room.result = "ok" => Cardinality(room.cache.free) >= 1
    BY <1>7, EnsureFreeOK, Zenon
  <2> QED BY <1>6, <2>1, Zenon
<1>9. CASE room.result # "ok"
  <2>1. d = e /\ alloc' = alloc
    BY <1>5, <1>6, <1>9, Zenon
  <2> QED BY <1>1, <1>6, <1>8, <2>1, SamePins, StepCache, Zenon
<1>10. CASE room.result = "ok"
  <2>1. /\ a \in Allocation /\ AllocOK(cache, a)
        /\ RL = With(RL, r, LockOf(a)) /\ PR = With(PR, r, OwnOf(a))
        /\ PF = With(PF, r, PrefillOf(a)) /\ RL[r] = {a.node} /\ PR[r] = PrivatePages(a)
        /\ LockOf(a) = {a.node} /\ (a.node = Root \/ a.node \in DOMAIN cache.nodes)
    BY <1>1, <1>2, <1>6, OwnView, Zenon
  <2>2. N \in Nat
    BY <1>3, <2>1, AllocParts
  <2>3. PICK pages : pages = Take(e, N, N)
    OBVIOUS
  <2>4. PICK g, T, t, b : /\ g = pages[N] /\ T = Range(pages) /\ t = Append(a.table, g)
                          /\ b = MorePages(a, t)
    BY Zenon
  <2>5. d = PoolAllocate(e, T) /\ alloc' = [alloc EXCEPT ![r].table = Append(@, g)]
    BY <1>5, <1>6, <1>10, <2>3, <2>4, Zenon
  <2>6. Owned(e, PR)
    BY <1>8, Zenon DEF CacheOK
  <2>7. IsTaken(e, pages, N, N)
    <3>1. Cardinality(e.free) \in Nat
      BY <2>6, FreeFinite, CardType
    <3>2. N + 1 - N <= Cardinality(e.free)
      BY <1>8, <1>10, <2>2, <3>1
    <3> QED BY <2>2, <2>3, <2>6, <3>2, TakenPages, Zenon
  <2>8. g \in Pages /\ T = {g} /\ T \subseteq e.free
    <3>1. N..N = {N}
      BY <2>2
    <3>2. pages[N] \in Pages /\ Range(pages) = {pages[i] : i \in {N}} /\ Range(pages) \subseteq e.free
      BY <2>7, <3>1, Zenon DEF IsTaken
    <3> QED BY <2>4, <3>2, Zenon
  <2>9. g \notin PrivatePages(a)
    BY <2>1, <2>6, <2>8, Zenon DEF Owned
  <2>10. PICK PM : PM = With(PR, r, PrivatePages(a) \cup T)
    OBVIOUS
  <2>11. Gains(PR, PM, r, T)
    <3>1. PM[r] = PrivatePages(a) \cup T /\ \A o \in Requests : o # r => PM[o] = PR[o]
      BY <2>10, Zenon DEF With
    <3> QED BY <2>1, <3>1, Zenon DEF Gains
  <2>12. CacheOK(d, RL, SL, PM, PF) /\ \A h, P : Keeps(e, d, h, P)
    BY ONLY <1>8, <2>5, <2>8, <2>11, TakeOK, Zenon
  <2>13. AllocOK(d, a)
    <3>1. Keeps(cache, e, a.node, PrivatePages(a)) /\ Keeps(e, d, a.node, PrivatePages(a))
      BY <1>8, <2>1, <2>12, Zenon DEF Safe
    <3>2. Keeps(cache, d, a.node, PrivatePages(a))
      BY <3>1, KeepsTrans, Zenon
    <3> QED BY <2>1, <3>2, KeepsAlloc, Zenon
  <2>14. /\ b \in Allocation /\ AllocOK(d, b) /\ b.node = a.node
         /\ PrivatePages(b) = PrivatePages(a) \cup {g} /\ PrefillOf(b) = PrefillOf(a)
    <3>1. a.out # <<>> /\ a \in Allocation
      BY <1>1, <1>2, <2>1
    <3>2. IsGrown(d, a, g, b)
      BY ONLY <2>4, <2>8, <2>9, <2>13, <3>1, <1>GrowAlloc, Zenon
    <3> QED BY <3>2, Zenon DEF IsGrown
  <2>15. LockOf(b) = LockOf(a) /\ OwnOf(b) = PrivatePages(a) \cup T
    <3>1. b # None
      BY <2>14, NotNone, Zenon
    <3> QED BY <2>1, <2>8, <2>14, <3>1, Zenon DEF LockOf, OwnOf
  <2>16. alloc' = [alloc EXCEPT ![r] = b]
    <3>1. alloc \in [Requests -> Allocation \cup {None}]
      BY InvView, Zenon
    <3> QED BY <1>2, <2>4, <2>5, <3>1 DEF MorePages
  <2>17. Steady(cache, d, r, RL, PR)
    <3>1. Steady(cache, e, r, RL, PR)
      BY <1>8, Zenon DEF Safe, Steady
    <3>2. Steady(e, d, r, RL, PR)
      BY <2>12, KeepsSteady, Zenon
    <3> QED BY <3>1, <3>2, SteadyTrans, Zenon
  <2>18. CacheOK(d, With(RL, r, LockOf(b)), SL, With(PR, r, OwnOf(b)), With(PF, r, PrefillOf(b)))
    BY <2>1, <2>10, <2>12, <2>14, <2>15, Zenon
  <2>19. SessionLocks' = SL /\ pins' \in [Sessions -> PinEntry \cup {None}]
    BY <1>1, <1>6, SamePins, Zenon
  <2>20. CacheOK(cache', With(RequestLocks, r, LockOf(b)), SessionLocks',
                 With(RequestPages, r, OwnOf(b)), With(Prefills, r, PrefillOf(b)))
    BY <1>6, <2>18, <2>19, Zenon
  <2> QED BY <1>6, <2>14, <2>16, <2>17, <2>19, <2>20, StepRequest, Zenon
<1> QED BY <1>9, <1>10
=============================================================================
