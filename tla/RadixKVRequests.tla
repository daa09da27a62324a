-------------------------- MODULE RadixKVRequests ---------------------------
(***************************************************************************)
(* Lemmas about RadixKV, third part: what a running request does.  It      *)
(* decodes, ends its prefill, and is committed or preempted.               *)
(***************************************************************************)
EXTENDS RadixKVTree

\* The pages of table t that rows lo..hi fall in, and whether page i holds the
\* rows before lo.
Touched(t, lo, hi) ==
    {i \in 1..Len(t) : lo <= hi /\ lo <= i * PageSize /\ (i - 1) * PageSize < hi}

Sound(c, t, s, lo, i) ==
    lo <= (i - 1) * PageSize + 1 \/ c.rows[t[i]] = Fill(s, i, lo - 1)

WrittenRows(c, t, s, lo, hi) ==
    [p \in Pages |-> IF \E i \in Touched(t, lo, hi) : t[i] = p
                     THEN IF Sound(c, t, s, lo, CHOOSE i \in Touched(t, lo, hi) : t[i] = p)
                          THEN Fill(s, CHOOSE i \in Touched(t, lo, hi) : t[i] = p, hi) ELSE <<>>
                     ELSE c.rows[p]]

\* The page of an own row is there, is told apart from the others and sound.
MayWrite(c, t, s, lo, hi) ==
    /\ \A i, j \in Touched(t, lo, hi) : t[i] = t[j] => i = j
    /\ \A i \in Touched(t, lo, hi) : t[i] \in Pages /\ Sound(c, t, s, lo, i)

Rewrites(c, t, s, lo, hi, d) ==
    /\ IsCache(d) /\ d.free = c.free /\ d.nodes = c.nodes /\ d.older = c.older
    /\ d.told = c.told /\ d.lost = c.lost
    /\ \A i \in Touched(t, lo, hi) : d.rows[t[i]] = Fill(s, i, hi)
    /\ \A p \in Pages : p \notin {t[i] : i \in Touched(t, lo, hi)} => d.rows[p] = c.rows[p]

\* WriteRows writes the rows lo..hi of s and no other page.
LEMMA WriteFacts ==
  ASSUME NEW c, IsCache(c), NEW t, NEW s, NEW lo, NEW hi, MayWrite(c, t, s, lo, hi),
         NEW d, d = WriteRows(c, t, s, lo, hi)
  PROVE  Rewrites(c, t, s, lo, hi, d)
<1>1. PICK w : w = WrittenRows(c, t, s, lo, hi)
  OBVIOUS
<1>2. d = [c EXCEPT !.rows = w]
  BY <1>1, Zenon DEF WriteRows, WrittenRows, Touched, Sound
<1>3. d = [free |-> c.free, nodes |-> c.nodes, older |-> c.older, host |-> c.host,
           told |-> c.told, lost |-> c.lost, rows |-> w]
  BY <1>2 DEF IsCache
<1>4. /\ IsCache(d) /\ d.free = c.free /\ d.nodes = c.nodes /\ d.older = c.older
      /\ d.told = c.told /\ d.lost = c.lost /\ d.rows = w
  BY ONLY <1>3, Zenon DEF IsCache
<1>5. ASSUME NEW i \in Touched(t, lo, hi) PROVE w[t[i]] = Fill(s, i, hi)
  <2>1. PICK j : j = CHOOSE k \in Touched(t, lo, hi) : t[k] = t[i]
    OBVIOUS
  <2>2. j \in Touched(t, lo, hi) /\ t[j] = t[i]
    BY <2>1, Zenon
  <2>3. j = i /\ t[i] \in Pages /\ Sound(c, t, s, lo, i)
    BY <2>2, Zenon DEF MayWrite
  <2> QED BY <1>1, <2>1, <2>3, Zenon DEF WrittenRows
<1>6. ASSUME NEW p \in Pages, p \notin {t[i] : i \in Touched(t, lo, hi)} PROVE w[p] = c.rows[p]
  BY <1>1, <1>6, Zenon DEF WrittenRows
<1> QED BY <1>4, <1>5, <1>6, Zenon DEF Rewrites

\* The pages that change are neither a computed node's nor another request's.
Elsewhere(c, PR, r, T) ==
    /\ \A q \in DOMAIN c.nodes : c.nodes[q].computed => Range(c.nodes[q].pages) \cap T = {}
    /\ \A o \in Requests : o # r => PR[o] \cap T = {}

\* Rows that are neither cached nor another request's may be written.
LEMMA RewriteOK ==
  ASSUME NEW c, NEW RL, NEW SL, NEW PR, NEW PF, CacheOK(c, RL, SL, PR, PF),
         NEW d, IsCache(d), d.free = c.free, d.nodes = c.nodes, d.older = c.older,
         d.told = c.told, d.lost = c.lost, NEW r, NEW T, Elsewhere(c, PR, r, T),
         \A p \in Pages : p \notin T => d.rows[p] = c.rows[p]
  PROVE  CacheOK(d, RL, SL, PR, PF) /\ Steady(c, d, r, RL, PR)
<1>1. Tree(c.nodes) /\ Owned(c, PR) /\ Written(c)
  BY Zenon DEF CacheOK
<1>2. OwnedX(d.free, d.lost, NodePages(c.nodes), PR)
  BY <1>1, OwnedView, Zenon
<1>3. Written(d)
  <2> SUFFICES ASSUME NEW x, NEW q \in Holder(c.nodes, x), c.nodes[q].computed
               PROVE  d.rows[c.nodes[q].pages[FullPages(x)]] = x
    BY <1>1, WrittenX, ZenonT(30)
  <2>1. c.rows[c.nodes[q].pages[FullPages(x)]] = x
    BY <1>1, WrittenX, Zenon
  <2>2. /\ q \in DOMAIN c.nodes /\ c.nodes[q].pages[FullPages(x)] \in Range(c.nodes[q].pages)
        /\ c.nodes[q].pages[FullPages(x)] \in Pages
    BY <1>1, HolderPage, Zenon
  <2> QED BY <2>1, <2>2, Zenon DEF Elsewhere
<1>4. CacheOK(d, RL, SL, PR, PF)
  BY <1>2, <1>3, Repage, Zenon
<1>5. Steady(c, d, r, RL, PR)
  <2> SUFFICES ASSUME NEW o \in Requests, o # r, NEW h \in RL[o] PROVE Keeps(c, d, h, PR[o])
    BY Zenon DEF Steady
  <2>1. \A p \in PR[o] : p \in Pages /\ p \notin T
    BY <1>1, Zenon DEF Owned, Elsewhere
  <2> QED BY <2>1, KeepsRefl, Zenon
<1> QED BY <1>4, <1>5

\* b is allocation a with outputs o.
IsMore(a, o, b) ==
    /\ b \in Allocation /\ AllocShape(b) /\ b.out = o
    /\ b.tokens = a.tokens /\ b.table = a.table /\ b.matched = a.matched
    /\ b.node = a.node /\ b.inserted = a.inserted
    /\ PrivateFrom(b) = PrivateFrom(a)
    /\ LockOf(b) = LockOf(a) /\ OwnOf(b) = OwnOf(a) /\ PrefillOf(b) = PrefillOf(a)

\* One more output keeps the shape while the table has room for it.
LEMMA MoreAlloc ==
  ASSUME NEW a \in Allocation, AllocShape(a), NEW o \in Seq(Tokens),
         Len(a.table) * PageSize >= Len(a.tokens) + Len(o) - 1,
         NEW b, b = MoreOut(a, o)
  PROVE  IsMore(a, o, b)
<1>1. /\ b \in Allocation /\ b.table = a.table /\ b.tokens = a.tokens /\ b.matched = a.matched
      /\ b.node = a.node /\ b.inserted = a.inserted /\ b.out = o
  <2>1. a.table \in Seq(Pages)
    BY AllocParts
  <2> QED BY <2>1, MoreFields
<1>2. PrivateFrom(b) = PrivateFrom(a)
  BY <1>1, Zenon DEF PrivateFrom
<1>3. Len(Sequence(b)) = Len(a.tokens) + Len(o)
  BY <1>1, AllocParts DEF Sequence
<1>4. AllocShape(b)
  <2>1. /\ Len(b.tokens) > 0 /\ b.matched \in 0..FullPages(b.tokens)
        /\ (b.inserted \/ b.matched < FullPages(b.tokens))
        /\ b.node = PagePrefix(b.tokens, PrivateFrom(b))
        /\ Len(b.table) >= TablePages(b.tokens)
    BY <1>1, <1>2, Zenon DEF AllocShape
  <2>2. Len(b.table) * PageSize >= Len(Sequence(b)) - 1
    BY <1>1, <1>3
  <2>3. \A i, j \in (PrivateFrom(b) + 1)..Len(b.table) : b.table[i] = b.table[j] => i = j
    <3>1. (PrivateFrom(b) + 1)..Len(b.table) = (PrivateFrom(a) + 1)..Len(a.table)
      BY <1>1, <1>2
    <3>2. \A i, j \in (PrivateFrom(a) + 1)..Len(a.table) : a.table[i] = a.table[j] => i = j
      BY Zenon DEF AllocShape
    <3>3. PICK I, t : I = (PrivateFrom(a) + 1)..Len(a.table) /\ t = a.table
      BY Zenon
    <3>4. \A i, j \in I : t[i] = t[j] => i = j
      BY <3>2, <3>3, Zenon
    <3>5. (PrivateFrom(b) + 1)..Len(b.table) = I /\ b.table = t
      BY <1>1, <3>1, <3>3, Zenon
    <3> QED BY <3>4, <3>5, ZenonT(30)
  <2> QED BY <2>1, <2>2, <2>3, Zenon DEF AllocShape
<1>5. a # None /\ b # None
  BY <1>1, NotNone, Zenon
<1>6. PrivatePages(b) = PrivatePages(a)
  BY <1>1, <1>2, Zenon DEF PrivatePages
<1>7. LockOf(b) = LockOf(a) /\ OwnOf(b) = OwnOf(a) /\ PrefillOf(b) = PrefillOf(a)
  BY <1>1, <1>5, <1>6, Zenon DEF LockOf, OwnOf, PrefillOf
<1> QED BY <1>1, <1>2, <1>4, <1>7, Zenon DEF IsMore

\* More outputs leave the prompt's pages.
LEMMA MorePrompt ==
  ASSUME NEW d, NEW a, NEW o, NEW b, IsMore(a, o, b), PromptPages(d, a)
  PROVE  PromptPages(d, b)
<1>1. /\ b.tokens = a.tokens /\ b.table = a.table /\ PrivateFrom(b) = PrivateFrom(a)
  BY Zenon DEF IsMore
<1> SUFFICES ASSUME NEW i \in 1..PrivateFrom(a)
             PROVE  \E q \in Holder(d.nodes, PagePrefix(b.tokens, i)) :
                        d.nodes[q].pages[i] = b.table[i]
  BY <1>1, Zenon DEF PromptPages
<1>2. PICK q \in Holder(d.nodes, PagePrefix(a.tokens, i)) : d.nodes[q].pages[i] = a.table[i]
  BY Zenon DEF PromptPages
<1> QED BY <1>1, <1>2, Zenon

\* A step that leaves request r with more outputs, its locks and pages the same.
LEMMA MoreStep ==
  ASSUME RadixInv, NEW r \in Requests, alloc[r] # None, NEW a, a = alloc[r], NEW o,
         NEW b, IsMore(a, o, b), alloc' = [alloc EXCEPT ![r] = b], pins' = pins,
         CacheOK(cache', RequestLocks, SessionLocks, RequestPages, Prefills),
         Steady(cache, cache', r, RequestLocks, RequestPages),
         InTree(cache', b), OwnRows(cache', b)
  PROVE  RadixInv'
<1>1. /\ b \in Allocation /\ AllocOK(cache', b)
      /\ LockOf(b) = LockOf(a) /\ OwnOf(b) = OwnOf(a) /\ PrefillOf(b) = PrefillOf(a)
  BY Zenon DEF IsMore, AllocOK
<1>2. /\ RequestLocks = With(RequestLocks, r, LockOf(a))
      /\ RequestPages = With(RequestPages, r, OwnOf(a))
      /\ Prefills = With(Prefills, r, PrefillOf(a))
  BY OwnView, Zenon
<1>3. SessionLocks' = SessionLocks /\ pins' \in [Sessions -> PinEntry \cup {None}]
  BY SamePins, Zenon
<1>4. CacheOK(cache', With(RequestLocks, r, LockOf(b)), SessionLocks',
              With(RequestPages, r, OwnOf(b)), With(Prefills, r, PrefillOf(b)))
  BY <1>1, <1>2, <1>3, Zenon
<1> QED BY <1>1, <1>3, <1>4, StepRequest, Zenon

\* A decode step: the newest token's row is written to the request's own page.
LEMMA DecodeStep ==
  \A r :
      /\ RadixInv /\ r \in Requests /\ Decode(r)
    =>   RadixInv'
\* The row of the newest token falls in a page of the request, which holds the
\* rows before it.
<1>DecodeMay.
  ASSUME NEW c, NEW a \in Allocation, AllocShape(a), OwnRows(c, a), a.out # <<>>,
         NEW S, S = Sequence(a), NEW L, L = Len(S)
  PROVE  /\ MayWrite(c, a.table, S, L, L)
         /\ Touched(a.table, L, L) \subseteq (PrivateFrom(a) + 1)..Len(a.table)
  <2> USE <1>DecodeMay
  <2>0. PICK N, F, P, K, M : /\ N = Len(a.table) /\ F = FullPages(a.tokens) /\ P = PrivateFrom(a)
                            /\ K = Len(a.tokens) /\ M = Len(a.out)
    BY Zenon
  <2>1. /\ N = Len(a.table) /\ F = FullPages(a.tokens) /\ P = PrivateFrom(a) /\ K = Len(a.tokens)
        /\ N \in Nat /\ F \in Nat /\ P \in Nat /\ K \in Nat /\ M \in Nat
        /\ P <= F /\ F <= N /\ L \in Nat /\ L = K + M
    <3>1. /\ N \in Nat /\ F \in Nat /\ P \in Nat /\ K \in Nat /\ M \in Nat
          /\ P <= F /\ F <= N /\ L = K + M
      BY <2>0, AllocSizes, Zenon
    <3>2. L \in Nat
      BY ONLY <3>1
    <3> QED BY <2>0, <3>1, <3>2, Zenon
  <2>2. F * PageSize <= K /\ K < L
    <3>1. a.tokens \in Seq(Tokens) /\ a.out \in Seq(Tokens)
      BY AllocParts
    <3>2. M > 0
      BY <2>0, <3>1
    <3>3. F * PageSize <= K
      BY <2>1, <3>1, DivMul, Zenon DEF FullPages
    <3>4. K < L
      BY ONLY <2>1, <3>2
    <3> QED BY <3>3, <3>4
  <2>3. ASSUME NEW i \in Touched(a.table, L, L)
        PROVE  /\ i \in (P + 1)..N /\ a.table[i] \in Pages
               /\ Sound(c, a.table, S, L, i)
    <3>1. i \in 1..N /\ L <= i * PageSize /\ (i - 1) * PageSize < L
      BY <2>1, Zenon DEF Touched
    <3>2. i \in Nat /\ F * PageSize \in Nat /\ i * PageSize \in Nat /\ (i <= F <=> i * PageSize <= F * PageSize)
      <4>1. i \in Nat
        BY <2>1, <3>1
      <4> QED BY <2>1, <4>1, MulMono, Zenon
    <3>3. i \in (P + 1)..N
      <4>1. PICK x, y : x = i * PageSize /\ y = F * PageSize
        BY Zenon
      <4>2. /\ i \in Nat /\ x \in Nat /\ y \in Nat /\ (i <= F <=> x <= y) /\ L <= x /\ y <= K
            /\ K < L /\ i \in 1..N
        BY <2>2, <3>1, <3>2, <4>1, Zenon
      <4> QED BY ONLY <2>1, <4>2
    <3>4. a.table[i] \in Pages
      BY <2>1, <3>1, AllocParts
    <3>5. CASE (i - 1) * PageSize < L - 1
      <4>1. c.rows[a.table[i]] = Fill(S, i, L - 1)
        BY <2>1, <3>3, <3>5, Zenon DEF OwnRows
      <4> QED BY <4>1, <3>3, <3>4 DEF Sound
    <3>6. CASE ~((i - 1) * PageSize < L - 1)
      <4>1. i - 1 \in Nat
        BY <3>1
      <4>2. (i - 1) * PageSize \in Nat
        BY <4>1, MulMono
      <4>3. L <= (i - 1) * PageSize + 1
        <5>1. PICK x : x = (i - 1) * PageSize
          BY Zenon
        <5>2. x \in Nat /\ ~(x < L - 1) /\ L \in Nat
          BY <2>1, <3>6, <4>2, <5>1, Zenon
        <5>3. L <= x + 1
          BY ONLY <5>2
        <5> QED BY <5>1, <5>3, Zenon
      <4> QED BY <4>3, <3>3, <3>4 DEF Sound
    <3> QED BY <3>5, <3>6
  <2>4. \A i, j \in (P + 1)..N : a.table[i] = a.table[j] => i = j
    BY <2>1, Zenon DEF AllocShape
  <2>5. \A i, j \in Touched(a.table, L, L) : a.table[i] = a.table[j] => i = j
    BY <2>3, <2>4, Zenon
  <2>6. MayWrite(c, a.table, S, L, L)
    BY <2>3, <2>5, Zenon DEF MayWrite
  <2>7. Touched(a.table, L, L) \subseteq (P + 1)..N
    BY <2>3, Zenon
  <2> QED BY <2>1, <2>6, <2>7, Zenon
\* A sampled token is the last of the sequence.
<1>AppendLast.
  ASSUME NEW s \in Seq(Tokens), NEW t \in Seq(Tokens), NEW x \in Tokens
  PROVE  s \o Append(t, x) = (s \o t) \o <<x>>
  <2> USE <1>AppendLast
  <2>1. PICK u : u = <<x>>
    BY Zenon
  <2>2. u \in Seq(Tokens) /\ Append(t, x) = t \o u
    BY <2>1
  <2>3. (s \o t) \o u = s \o (t \o u)
    BY <2>2
  <2> QED BY <2>1, <2>2, <2>3, Zenon
\* Afterwards the pages hold the rows up to the newest token.
<1>DecodeOwn.
  ASSUME NEW c, NEW a \in Allocation, AllocShape(a), OwnRows(c, a), a.out # <<>>,
         NEW S, S = Sequence(a), NEW L, L = Len(S), NEW d,
         Rewrites(c, a.table, S, L, L, d), NEW tok \in Tokens, NEW o, o = Append(a.out, tok),
         NEW b, IsMore(a, o, b)
  PROVE  OwnRows(d, b)
  <2> USE <1>DecodeOwn
  <2>0. PICK N, P, K, M : /\ N = Len(a.table) /\ P = PrivateFrom(a)
                         /\ K = Len(a.tokens) /\ M = Len(a.out)
    BY Zenon
  <2>1. /\ N = Len(a.table) /\ P = PrivateFrom(a) /\ N \in Nat /\ P \in Nat /\ L \in Nat /\ L > 0
    <3>1. /\ N \in Nat /\ P \in Nat /\ K \in Nat /\ M \in Nat /\ L = K + M
      BY <2>0, AllocSizes, Zenon
    <3>2. K > 0
      BY <2>0, Zenon DEF AllocShape
    <3>3. L \in Nat /\ L > 0
      BY ONLY <3>1, <3>2
    <3> QED BY <2>0, <3>1, <3>3, Zenon
  <2>2. S \in Seq(Tokens) /\ Sequence(b) = S \o <<tok>> /\ Len(Sequence(b)) - 1 = L
    <3>1. a.tokens \in Seq(Tokens) /\ a.out \in Seq(Tokens) /\ b.tokens = a.tokens /\ b.out = Append(a.out, tok)
      BY AllocParts, Zenon DEF IsMore
    <3>2. S = a.tokens \o a.out /\ Sequence(b) = a.tokens \o Append(a.out, tok)
      BY <3>1, Zenon DEF Sequence
    <3>3. a.tokens \o Append(a.out, tok) = (a.tokens \o a.out) \o <<tok>>
      BY <3>1, <1>AppendLast, Zenon
    <3>4. S \in Seq(Tokens)
      BY <3>1, <3>2
    <3>5. Len(S \o <<tok>>) = L + 1
      BY <3>4
    <3> QED BY <2>1, <3>2, <3>3, <3>4, <3>5
  <2>3. \A i \in Nat : Fill(Sequence(b), i, L) = Fill(S, i, L)
    <3>1. PICK u : u = <<tok>>
      BY Zenon
    <3>2. u \in Seq(Tokens) /\ L \in 0..Len(S)
      BY <2>1, <3>1
    <3>3. \A i \in Nat : Fill(S \o u, i, L) = Fill(S, i, L)
      BY <2>2, <3>2, FillPrefix
    <3> QED BY <2>2, <3>1, <3>3, Zenon
  <2>4. ASSUME NEW i \in (P + 1)..N, (i - 1) * PageSize < L
        PROVE  d.rows[a.table[i]] = Fill(S, i, L)
    <3>1. i \in Nat /\ i - 1 \in Nat /\ i \in 1..N /\ i * PageSize \in Nat /\ (i - 1) * PageSize \in Nat
      <4>1. i \in Nat /\ i - 1 \in Nat /\ i \in 1..N
        BY <2>1
      <4> QED BY <4>1, MulMono
    <3>2. CASE L <= i * PageSize
      <4>1. i \in Touched(a.table, L, L)
        BY <2>1, <2>4, <3>1, <3>2 DEF Touched
      <4> QED BY <4>1, Zenon DEF Rewrites
    <3>3. CASE ~(L <= i * PageSize)
      <4>1. i * PageSize <= L - 1 /\ i * PageSize <= L /\ L - 1 \in Nat
        BY <2>1, <3>1, <3>3
      <4>2. (i - 1) * PageSize < L - 1
        <5>1. ~(i <= i - 1)
          BY <3>1
        <5>2. ~(i * PageSize <= (i - 1) * PageSize)
          BY <3>1, <5>1, MulMono
        <5> QED BY <2>1, <3>1, <4>1, <5>2
      <4>3. c.rows[a.table[i]] = Fill(S, i, L - 1)
        BY <2>1, <4>2, Zenon DEF OwnRows
      <4>4. Fill(S, i, L - 1) = PagePrefix(S, i) /\ Fill(S, i, L) = PagePrefix(S, i)
        BY <2>1, <3>1, <4>1, FillFull
      <4>5. a.table[i] \in Pages
        BY <2>1, <3>1, AllocParts
      <4>6. ASSUME NEW j \in Touched(a.table, L, L), a.table[i] = a.table[j] PROVE FALSE
        <5>1. L <= j * PageSize
          BY Zenon DEF Touched
        <5>2. j \in (P + 1)..N
          BY <2>1, <1>DecodeMay, Zenon
        <5>3. i = j
          BY <2>1, <4>6, <5>2, Zenon DEF AllocShape
        <5> QED BY <3>3, <5>1, <5>3, Zenon
      <4>7. d.rows[a.table[i]] = c.rows[a.table[i]]
        BY <4>5, <4>6, Zenon DEF Rewrites
      <4> QED BY <4>3, <4>4, <4>7, Zenon
    <3> QED BY <3>2, <3>3
  <2>5. \A i \in (P + 1)..N : i \in Nat
    BY <2>1
  <2>6. b.table = a.table /\ PrivateFrom(b) = P /\ Len(b.table) = N
    BY <2>1, Zenon DEF IsMore
  <2> QED BY <2>2, <2>3, <2>4, <2>5, <2>6, Zenon DEF OwnRows
\* More outputs leave the allocation in the tree.
<1>MoreInTree.
  ASSUME NEW d, NEW a, NEW o, NEW b, IsMore(a, o, b), PromptPages(d, a), NodeNow(d, a),
         a.out # <<>>, o # <<>>
  PROVE  InTree(d, b)
  <2> USE <1>MoreInTree
  <2>1. PromptPages(d, b)
    BY MorePrompt, Zenon
  <2>2. /\ b.tokens = a.tokens /\ b.matched = a.matched /\ b.node = a.node
        /\ b.inserted = a.inserted /\ b.out = o
    BY Zenon DEF IsMore
  <2>3. NodeNow(d, b)
    BY <2>2, Zenon DEF NodeNow
  <2> QED BY <2>1, <2>3, TreeParts, Zenon
<1> SUFFICES
  ASSUME RadixInv, NEW r \in Requests, Decode(r)
  PROVE  RadixInv'
  OBVIOUS
<1>1. PICK a, S : a = alloc[r] /\ S = Sequence(a)
  BY Zenon
<1>2. PICK L : L = Len(S)
  BY Zenon
<1>3. /\ alloc[r] # None /\ a.out # <<>> /\ Len(a.table) * PageSize >= L /\ pins' = pins
      /\ cache' = WriteRows(cache, a.table, S, L, L)
  BY <1>1, <1>2, Zenon DEF Decode
<1>4. PICK tok \in Sampled : alloc' = [alloc EXCEPT ![r].out = Append(@, tok)]
  BY Zenon DEF Decode
<1>5. /\ a \in Allocation /\ AllocShape(a) /\ InTree(cache, a) /\ OwnRows(cache, a)
      /\ RequestPages[r] = PrivatePages(a)
  BY <1>1, <1>3, OwnView, Zenon DEF AllocOK
<1>6. PICK o, d, t, b : o = Append(a.out, tok) /\ d = cache' /\ t = a.table /\ b = MoreOut(a, o)
  BY Zenon
<1>7. /\ a.tokens \in Seq(Tokens) /\ t \in Seq(Pages) /\ a.out \in Seq(Tokens)
      /\ tok \in Tokens /\ o \in Seq(Tokens) /\ o # <<>>
  BY <1>5, <1>6, AllocParts, RadixAssumption
<1>8. IsMore(a, o, b)
  <2>1. L = Len(a.tokens) + Len(o) - 1
    <3>1. PICK k, m : k = Len(a.tokens) /\ m = Len(a.out)
      BY Zenon
    <3>2. k \in Nat /\ m \in Nat /\ L = k + m
      BY <1>1, <1>2, <1>5, <3>1, AllocSizes, Zenon
    <3>3. Len(o) = m + 1
      BY ONLY <1>6, <1>7, <3>1
    <3> QED BY ONLY <3>1, <3>2, <3>3
  <2>2. Len(a.table) * PageSize >= Len(a.tokens) + Len(o) - 1
    BY <1>3, <2>1, Zenon
  <2> QED BY ONLY <1>5, <1>6, <1>7, <2>2, MoreAlloc, Zenon
<1>9. /\ MayWrite(cache, t, S, L, L)
      /\ Touched(t, L, L) \subseteq (PrivateFrom(a) + 1)..Len(t)
  BY <1>1, <1>2, <1>3, <1>5, <1>6, <1>DecodeMay, Zenon
<1>10. PICK T : T = {t[i] : i \in Touched(t, L, L)}
  BY Zenon
<1>11. T \subseteq RequestPages[r]
  BY <1>5, <1>6, <1>9, <1>10, Zenon DEF PrivatePages
<1>12. CacheOK(cache, RequestLocks, SessionLocks, RequestPages, Prefills)
  BY InvView, Zenon
<1>13. Rewrites(cache, t, S, L, L, d)
  <2>1. IsCache(cache)
    BY <1>12, Zenon DEF CacheOK
  <2> QED BY <1>3, <1>6, <1>9, <2>1, WriteFacts, Zenon
<1>14. Elsewhere(cache, RequestPages, r, T)
  <2>1. Owned(cache, RequestPages)
    BY <1>12, Zenon DEF CacheOK
  <2>2. \A q \in DOMAIN cache.nodes : Range(cache.nodes[q].pages) \cap T = {}
    BY <1>11, <2>1, Zenon DEF Owned, NodePages
  <2>3. \A o2 \in Requests : o2 # r => RequestPages[o2] \cap T = {}
    BY <1>11, <2>1, Zenon DEF Owned
  <2> QED BY <2>2, <2>3, Zenon DEF Elsewhere
<1>15. /\ CacheOK(d, RequestLocks, SessionLocks, RequestPages, Prefills)
       /\ Steady(cache, d, r, RequestLocks, RequestPages)
  BY <1>10, <1>12, <1>13, <1>14, RewriteOK, Zenon DEF Rewrites
<1>16. OwnRows(d, b)
  BY ONLY <1>1, <1>2, <1>3, <1>5, <1>6, <1>7, <1>8, <1>13, <1>DecodeOwn, Zenon
<1>17. InTree(d, b)
  <2>1. d.nodes = cache.nodes
    BY <1>13, Zenon DEF Rewrites
  <2>2. PromptPages(d, a) /\ NodeNow(d, a)
    BY <1>5, <2>1, TreeParts, Zenon DEF PromptPages, NodeNow
  <2> QED BY <1>3, <1>7, <1>8, <2>2, <1>MoreInTree, Zenon
<1>18. alloc' = [alloc EXCEPT ![r] = b]
  <2>1. alloc \in [Requests -> Allocation \cup {None}]
    BY InvView, Zenon
  <2> QED BY <1>1, <1>4, <1>6, <2>1 DEF MoreOut
<1> QED BY <1>1, <1>3, <1>6, <1>8, <1>15, <1>16, <1>17, <1>18, MoreStep, Zenon

Marked(c, h) ==
    [c EXCEPT !.told = @ \cup SegmentPrefixes(c.nodes, h), !.nodes[h].computed = TRUE]

IsMark(nodes, h, new) ==
    /\ DOMAIN new = DOMAIN nodes
    /\ \A q \in DOMAIN nodes :
           /\ NodeOK(q, new[q]) /\ new[q].start = nodes[q].start
           /\ new[q].pages = nodes[q].pages /\ new[q].ref = nodes[q].ref
           /\ q # h => new[q].computed = nodes[q].computed
    /\ new[h].computed

IsMarked(c, h, d) ==
    /\ IsCache(d) /\ d.free = c.free /\ d.older = c.older /\ d.lost = c.lost /\ d.rows = c.rows
    /\ d.told = c.told \cup SegmentPrefixes(c.nodes, h) /\ IsMark(c.nodes, h, d.nodes)

\* mark_computed, field by field: its prefixes are announced.
LEMMA MarkShape ==
  \A c, h, d :
      /\ IsCache(c) /\ Tree(c.nodes) /\ h \in DOMAIN c.nodes /\ d = Marked(c, h)
    =>   IsMarked(c, h, d)
\* A node marked as computed.
<1>NodeMark.
  ASSUME NEW q, NEW node, NodeOK(q, node), NEW new, new = [node EXCEPT !.computed = TRUE]
  PROVE  /\ NodeOK(q, new) /\ new.start = node.start /\ new.pages = node.pages
         /\ new.ref = node.ref /\ new.computed
  <2> USE <1>NodeMark
  <2>1. PICK s, p, f, b : s = node.start /\ p = node.pages /\ f = node.ref /\ b = node.computed
    BY Zenon
  <2>2. node = [start |-> s, pages |-> p, ref |-> f, computed |-> b]
    BY <2>1, Zenon DEF NodeOK
  <2>3. new = [start |-> s, pages |-> p, ref |-> f, computed |-> TRUE]
    BY ONLY <2>2, new = [node EXCEPT !.computed = TRUE], Zenon
  <2>4. new.start = s /\ new.pages = p /\ new.ref = f /\ new.computed = TRUE
    BY ONLY <2>3
  <2>5. /\ q \in Paths /\ s \in Nat /\ s < FullPages(q) /\ p \in [(s + 1)..FullPages(q) -> Pages]
        /\ IsInjective(p) /\ f \in Nat
    BY <2>1, Zenon DEF NodeOK
  <2>6. NodeOK(q, new)
    BY <2>3, <2>4, <2>5, Zenon DEF NodeOK
  <2> QED BY <2>1, <2>4, <2>6, Zenon
<1> SUFFICES
  ASSUME NEW c, IsCache(c), Tree(c.nodes), NEW h \in DOMAIN c.nodes, NEW d, d = Marked(c, h)
  PROVE  IsMarked(c, h, d)
  OBVIOUS
<1>1. PICK n, t : /\ n = [c.nodes EXCEPT ![h] = [@ EXCEPT !.computed = TRUE]]
                  /\ t = c.told \cup SegmentPrefixes(c.nodes, h)
  BY Zenon
<1>2. PICK f, m, o, k, u, l, w :
         /\ f = c.free /\ m = c.nodes /\ o = c.older /\ k = c.host /\ u = c.told /\ l = c.lost
         /\ w = c.rows
  BY Zenon
<1>3. c = [free |-> f, nodes |-> m, older |-> o, host |-> k, told |-> u, lost |-> l, rows |-> w]
  BY <1>2, Zenon DEF IsCache
<1>4. d = [free |-> f, nodes |-> n, older |-> o, host |-> k, told |-> t, lost |-> l, rows |-> w]
  BY <1>1, <1>3, Zenon DEF Marked
<1>5. /\ IsCache(d) /\ d.free = f /\ d.nodes = n /\ d.older = o /\ d.lost = l /\ d.rows = w
      /\ d.told = t
  BY ONLY <1>4, Zenon DEF IsCache
<1>6. IsMark(c.nodes, h, n)
  <2>1. /\ DOMAIN n = DOMAIN c.nodes /\ n[h] = [c.nodes[h] EXCEPT !.computed = TRUE]
        /\ \A q \in DOMAIN c.nodes : q # h => n[q] = c.nodes[q]
    <3>1. PICK v : v = [c.nodes[h] EXCEPT !.computed = TRUE]
      BY Zenon
    <3>2. n = [c.nodes EXCEPT ![h] = v]
      BY <1>1, <3>1, Zenon
    <3> QED BY <3>1, <3>2, Zenon
  <2>2. \A q \in DOMAIN c.nodes : NodeOK(q, c.nodes[q])
    BY Zenon DEF Tree
  <2>3. PICK v, z : v = c.nodes[h] /\ z = n[h]
    BY Zenon
  <2>4. NodeOK(h, v) /\ z = [v EXCEPT !.computed = TRUE]
    BY <2>1, <2>2, <2>3, Zenon
  <2>5. /\ NodeOK(h, z) /\ z.start = v.start /\ z.pages = v.pages
        /\ z.ref = v.ref /\ z.computed
    BY ONLY <2>4, <1>NodeMark
  <2> QED BY <2>1, <2>2, <2>3, <2>5, Zenon DEF IsMark
<1> QED BY <1>1, <1>2, <1>5, <1>6, Zenon DEF IsMarked

\* Marking a node leaves the tree as it was.
LEMMA MarkTree ==
  ASSUME NEW nodes, Tree(nodes), NEW h, NEW new, IsMark(nodes, h, new)
  PROVE  /\ Tree(new) /\ \A x : Holder(new, x) = Holder(nodes, x)
         /\ \A q : Children(new, q) = Children(nodes, q)
<1>1. \A q \in DOMAIN nodes : SegmentPrefixes(new, q) = SegmentPrefixes(nodes, q)
  BY Zenon DEF IsMark, SegmentPrefixes
<1>2. \A x : Holder(new, x) = Holder(nodes, x)
  BY <1>1, Zenon DEF IsMark, Holder
<1>3. \A q : Children(new, q) = Children(nodes, q)
  BY Zenon DEF IsMark, Children
<1>4. Tree(new)
  BY <1>1, <1>2, Zenon DEF IsMark, Tree
<1> QED BY <1>2, <1>3, <1>4, Zenon

\* The node's pages hold the rows of its prefixes.
RowsOf(c, h) ==
    \A i \in (c.nodes[h].start + 1)..FullPages(h) :
        c.rows[c.nodes[h].pages[i]] = PagePrefix(h, i)

\* The pages that the prefill of a writes are its own: private, or of its node.
MayPrefill(c, PR, r, a, lo, K) ==
    /\ MayWrite(c, a.table, a.tokens, lo, K)
    /\ Elsewhere(c, PR, r, {a.table[i] : i \in Touched(a.table, lo, K)})

\* The prompt's rows after the prefill.
IsPrefilled(d, a, K) ==
    /\ \A i \in (a.matched + 1)..Len(a.table) :
           (i - 1) * PageSize < K => d.rows[a.table[i]] = Fill(a.tokens, i, K)
    /\ \A i \in (a.matched + 1)..FullPages(a.tokens) :
           d.rows[a.table[i]] = PagePrefix(a.tokens, i)

\* The end of a prefill: rows, first token, and the announcement of its node,
\* or the rows alone when the announcement is refused.
LEMMA PrefilledStep ==
  \A r :
      /\ LibraryFacts /\ RadixInv /\ r \in Requests
      /\ Prefilled(r) \/ PublishRefused(r)
    =>   RadixInv'
\* Where the prefill's rows go: the pages after the matched ones.
<1>PrefillTouched.
  ASSUME NEW a \in Allocation, AllocShape(a), NEW lo, lo = a.matched * PageSize + 1, NEW K,
         K = Len(a.tokens), NEW i
  PROVE  /\ i \in Touched(a.table, lo, K) =>
                /\ i \in (a.matched + 1)..Len(a.table) /\ i \in Nat
                /\ lo <= (i - 1) * PageSize + 1
         /\ i \in (a.matched + 1)..Len(a.table) /\ (i - 1) * PageSize < K =>
                i \in Touched(a.table, lo, K)
  <2> USE <1>PrefillTouched
  <2>1. PICK N, m : N = Len(a.table) /\ m = a.matched
    BY Zenon
  <2>2. N \in Nat /\ m \in Nat /\ K \in Nat
    BY <2>1, AllocSizes, Zenon
  <2>3. m * PageSize \in Nat
    BY <2>2, MulMono
  <2>4. lo \in Nat /\ lo = m * PageSize + 1
    BY <2>1, <2>3
  <2>5. ASSUME i \in Touched(a.table, lo, K)
        PROVE  i \in (m + 1)..N /\ i \in Nat /\ lo <= (i - 1) * PageSize + 1
    <3>1. i \in 1..N /\ lo <= i * PageSize
      BY <2>1, <2>5, Zenon DEF Touched
    <3>2. i \in Nat /\ i - 1 \in Nat /\ i \in 1..N
      BY <2>2, <3>1
    <3>3. PICK x, y, z : x = i * PageSize /\ y = m * PageSize /\ z = (i - 1) * PageSize
      BY Zenon
    <3>4. /\ x \in Nat /\ y \in Nat /\ z \in Nat /\ (i <= m <=> x <= y) /\ (m <= i - 1 <=> y <= z)
          /\ y + 1 <= x
      <4>1. i * PageSize \in Nat /\ (i - 1) * PageSize \in Nat
        BY <3>2, MulMono
      <4>2. i <= m <=> i * PageSize <= m * PageSize
        BY <2>2, <3>2, MulMono
      <4>3. m <= i - 1 <=> m * PageSize <= (i - 1) * PageSize
        BY <2>2, <3>2, MulMono
      <4> QED BY <2>3, <2>4, <3>1, <3>3, <4>1, <4>2, <4>3, Zenon
    <3>5. i \in (m + 1)..N /\ y + 1 <= z + 1
      BY ONLY <2>2, <3>2, <3>4
    <3> QED BY <2>4, <3>2, <3>3, <3>5, Zenon
  <2>6. ASSUME i \in (m + 1)..N, (i - 1) * PageSize < K PROVE i \in Touched(a.table, lo, K)
    <3>2. i \in Nat /\ i - 1 \in Nat /\ i \in 1..N /\ m <= i - 1 /\ ~(i <= m)
      BY <2>2, <2>6
    <3>3. PICK x, y, z : x = i * PageSize /\ y = m * PageSize /\ z = (i - 1) * PageSize
      BY Zenon
    <3>4. /\ x \in Nat /\ y \in Nat /\ z \in Nat /\ (i <= m <=> x <= y) /\ (m <= i - 1 <=> y <= z)
          /\ z < K
      <4>1. i * PageSize \in Nat /\ (i - 1) * PageSize \in Nat
        BY <3>2, MulMono
      <4>2. i <= m <=> i * PageSize <= m * PageSize
        BY <2>2, <3>2, MulMono
      <4>3. m <= i - 1 <=> m * PageSize <= (i - 1) * PageSize
        BY <2>2, <3>2, MulMono
      <4> QED BY <2>3, <2>6, <3>3, <4>1, <4>2, <4>3, Zenon
    <3>5. y + 1 <= x /\ y + 1 <= K
      BY ONLY <2>2, <3>2, <3>4
    <3>6. lo <= i * PageSize /\ lo <= K
      BY <2>4, <3>3, <3>5, Zenon
    <3> QED BY <2>1, <2>6, <3>2, <3>6, Zenon DEF Touched
  <2> QED BY <2>1, <2>5, <2>6, Zenon
\* A prefill writes its own node and its private pages, and no one else's.
<1>PrefillPages.
  ASSUME NEW c, NEW PR, Tree(c.nodes), Owned(c, PR), NEW r \in Requests,
         NEW a \in Allocation, PR[r] = PrivatePages(a), AllocOK(c, a), a.out = <<>>,
         a.node = Root \/ a.node \in DOMAIN c.nodes,
         NEW lo, lo = a.matched * PageSize + 1, NEW K, K = Len(a.tokens)
  PROVE  MayPrefill(c, PR, r, a, lo, K)
  <2> USE <1>PrefillPages
  <2>1. AllocShape(a)
    BY Zenon DEF AllocOK
  <2>2. PICK N, F, m, P, t : /\ N = Len(a.table) /\ F = FullPages(a.tokens) /\ m = a.matched
                             /\ P = PrivateFrom(a) /\ t = a.table
    BY Zenon
  <2>3. /\ N \in Nat /\ F \in Nat /\ m \in Nat /\ P \in Nat /\ m <= P /\ P <= F /\ F <= N
    BY <2>1, <2>2, AllocSizes, Zenon
  <2>4. \A i \in (P + 1)..N : t[i] \in PR[r]
    BY <2>2, Zenon DEF PrivatePages
  <2>5. \A i, j \in (P + 1)..N : t[i] = t[j] => i = j
    BY <2>1, <2>2, Zenon DEF AllocShape
  <2>6. PICK D : D = IF OwnNode(a) THEN Range(c.nodes[a.node].pages) ELSE {}
    BY Zenon
  <2>7. /\ D \cap PR[r] = {}
        /\ \A q \in DOMAIN c.nodes : c.nodes[q].computed => Range(c.nodes[q].pages) \cap D = {}
        /\ \A o \in Requests : PR[o] \cap D = {}
    <3>1. CASE OwnNode(a)
      <4>1. a.node \in DOMAIN c.nodes /\ ~c.nodes[a.node].computed
        BY <3>1, OwnNodeFacts, Zenon DEF IsOwnNode
      <4>2. D = Range(c.nodes[a.node].pages) /\ D \subseteq NodePages(c.nodes)
        BY <2>6, <3>1, <4>1, Zenon DEF NodePages
      <4> QED BY <4>1, <4>2, Zenon DEF Owned
    <3>2. CASE ~OwnNode(a)
      BY <2>6, <3>2, Zenon
    <3> QED BY <3>1, <3>2
  <2>8. ASSUME NEW i \in (m + 1)..N
        PROVE  \/ i \in (P + 1)..N
               \/ OwnNode(a) /\ i \in (m + 1)..F
    <3>1. CASE OwnNode(a)
      <4>1. P = F
        BY <2>2, <3>1, Zenon DEF OwnNode, PrivateFrom
      <4> QED BY <2>3, <3>1, <4>1
    <3>2. CASE ~OwnNode(a)
      <4>1. P = m
        <5>1. P = F \/ P = m
          BY <2>2, Zenon DEF PrivateFrom
        <5>2. a.inserted => ~(m < F)
          BY <2>2, <3>2, Zenon DEF OwnNode
        <5>3. ~a.inserted => P = m
          BY <2>2, Zenon DEF PrivateFrom
        <5> QED BY <2>3, <5>1, <5>2, <5>3
      <4> QED BY <4>1
    <3> QED BY <3>1, <3>2
  <2>9. OwnNode(a) => /\ \A i \in (m + 1)..F : t[i] \in D
                      /\ \A i, j \in (m + 1)..F : t[i] = t[j] => i = j
    <3> SUFFICES ASSUME OwnNode(a)
                 PROVE  /\ \A i \in (m + 1)..F : t[i] \in D
                        /\ \A i, j \in (m + 1)..F : t[i] = t[j] => i = j
      BY Zenon
    <3>1. IsOwnNode(c, a)
      BY OwnNodeFacts, Zenon
    <3>2. /\ \A i \in (m + 1)..F : t[i] \in Range(c.nodes[a.node].pages)
          /\ \A i, j \in (m + 1)..F : t[i] = t[j] => i = j
      BY <2>2, <3>1, Zenon DEF IsOwnNode
    <3> QED BY <2>6, <3>2, Zenon
  <2>10. \A i \in (m + 1)..N : t[i] \in PR[r] \cup D /\ t[i] \in Pages
    <3>1. \A i \in (m + 1)..N : i \in 1..N
      BY <2>3
    <3>2. \A i \in 1..N : t[i] \in Pages
      BY <2>2, AllocParts
    <3> QED BY <2>4, <2>8, <2>9, <3>1, <3>2, Zenon
  <2>11. \A i, j \in (m + 1)..N : t[i] = t[j] => i = j
    BY <2>4, <2>5, <2>7, <2>8, <2>9, Zenon
  <2>12. \A i \in Touched(t, lo, K) : i \in (m + 1)..N /\ Sound(c, t, a.tokens, lo, i)
    BY <2>1, <2>2, <1>PrefillTouched, Zenon DEF Sound
  <2>13. MayWrite(c, t, a.tokens, lo, K)
    BY <2>10, <2>11, <2>12, Zenon DEF MayWrite
  <2>14. {t[i] : i \in Touched(t, lo, K)} \subseteq PR[r] \cup D
    BY <2>10, <2>12, Zenon
  <2>15. Elsewhere(c, PR, r, {t[i] : i \in Touched(t, lo, K)})
    <3>1. \A q \in DOMAIN c.nodes : c.nodes[q].computed => Range(c.nodes[q].pages) \cap (PR[r] \cup D) = {}
      <4>1. \A q \in DOMAIN c.nodes : Range(c.nodes[q].pages) \cap PR[r] = {}
        <5>1. PR[r] \cap NodePages(c.nodes) = {}
          BY Zenon DEF Owned
        <5>2. \A q \in DOMAIN c.nodes : Range(c.nodes[q].pages) \subseteq NodePages(c.nodes)
          BY Zenon DEF NodePages
        <5> QED BY <5>1, <5>2, Zenon
      <4> QED BY <2>7, <4>1, Zenon
    <3>2. \A o \in Requests : o # r => PR[o] \cap (PR[r] \cup D) = {}
      <4>1. \A o \in Requests : o # r => PR[o] \cap PR[r] = {}
        BY Zenon DEF Owned
      <4> QED BY <2>7, <4>1, Zenon
    <3> QED BY <2>14, <3>1, <3>2, Zenon DEF Elsewhere
  <2> QED BY <2>2, <2>13, <2>15, Zenon DEF MayPrefill
\* After the prefill, each page of the prompt holds its rows.
<1>PrefillRows.
  ASSUME NEW c, NEW a \in Allocation, AllocShape(a), a.out = <<>>,
         NEW lo, lo = a.matched * PageSize + 1, NEW K, K = Len(a.tokens),
         NEW d, Rewrites(c, a.table, a.tokens, lo, K, d)
  PROVE  IsPrefilled(d, a, K)
  <2> USE <1>PrefillRows
  <2>1. \A i \in (a.matched + 1)..Len(a.table) :
            (i - 1) * PageSize < K => d.rows[a.table[i]] = Fill(a.tokens, i, K)
    BY <1>PrefillTouched, Zenon DEF Rewrites
  <2>2. PICK N, F, m, s : /\ N = Len(a.table) /\ F = FullPages(a.tokens) /\ m = a.matched
                          /\ s = a.tokens
    BY Zenon
  <2>3. /\ N \in Nat /\ F \in Nat /\ m \in Nat /\ F <= N /\ K \in Nat
    BY <2>2, AllocSizes, Zenon
  <2>4. F * PageSize <= K /\ F * PageSize \in Nat
    BY <2>2, <2>3, DivMul, MulMono, Zenon DEF FullPages
  <2>5. ASSUME NEW i \in (m + 1)..F PROVE d.rows[a.table[i]] = PagePrefix(a.tokens, i)
    <3>1. i \in (m + 1)..N /\ i \in Nat /\ i - 1 \in Nat /\ i <= F /\ ~(i <= i - 1)
      BY <2>3
    <3>2. PICK x, y, z : x = i * PageSize /\ y = F * PageSize /\ z = (i - 1) * PageSize
      BY Zenon
    <3>3. /\ x \in Nat /\ y \in Nat /\ z \in Nat /\ x <= y /\ ~(x <= z) /\ y <= K
      <4>1. /\ i * PageSize \in Nat /\ (i - 1) * PageSize \in Nat
            /\ i * PageSize <= F * PageSize
        BY <2>3, <3>1, MulMono
      <4>2. ~(i * PageSize <= (i - 1) * PageSize)
        BY <3>1, MulMono
      <4> QED BY <2>4, <3>2, <4>1, <4>2, Zenon
    <3>4. z < K /\ x <= K
      BY ONLY <2>3, <3>3
    <3>5. d.rows[a.table[i]] = Fill(a.tokens, i, K)
      BY <2>1, <2>2, <3>1, <3>2, <3>4, Zenon
    <3>6. Fill(a.tokens, i, K) = PagePrefix(a.tokens, i)
      BY <2>3, <3>1, <3>2, <3>4, FillFull, Zenon
    <3> QED BY <3>5, <3>6, Zenon
  <2> QED BY <2>1, <2>2, <2>5, Zenon DEF IsPrefilled
\* The first token is sampled: the request's own pages hold the prompt.
<1>PrefillOwn.
  ASSUME NEW c, NEW a \in Allocation, AllocShape(a), a.out = <<>>,
         NEW lo, lo = a.matched * PageSize + 1, NEW K, K = Len(a.tokens),
         NEW d, Rewrites(c, a.table, a.tokens, lo, K, d), NEW e, e.rows = d.rows,
         NEW tok \in Tokens, NEW o, o = <<tok>>, NEW b, IsMore(a, o, b)
  PROVE  OwnRows(e, b)
  <2> USE <1>PrefillOwn
  <2>1. PICK N, m, P, s : /\ N = Len(a.table) /\ m = a.matched /\ P = PrivateFrom(a)
                          /\ s = a.tokens
    BY Zenon
  <2>2. /\ N \in Nat /\ m \in Nat /\ P \in Nat /\ m <= P /\ K \in Nat
    BY <2>1, AllocSizes, Zenon
  <2>3. b.tokens = s /\ b.out = o /\ b.table = a.table /\ PrivateFrom(b) = P /\ Len(b.table) = N
    BY <2>1, Zenon DEF IsMore
  <2>4. s \in Seq(Tokens) /\ o \in Seq(Tokens) /\ Len(s) = K /\ Len(o) = 1
    BY <2>1, AllocParts
  <2>5. Sequence(b) = s \o o /\ Len(Sequence(b)) - 1 = K
    <3>1. Sequence(b) = s \o o
      BY <2>3, Zenon DEF Sequence
    <3>2. Len(s \o o) = Len(s) + Len(o)
      BY <2>4
    <3>3. Len(Sequence(b)) = K + 1
      BY <2>4, <3>1, <3>2, Zenon
    <3> QED BY <2>2, <3>1, <3>3
  <2>6. ASSUME NEW i \in (P + 1)..N, (i - 1) * PageSize < K
        PROVE  e.rows[a.table[i]] = Fill(s \o o, i, K)
    <3>1. i \in (m + 1)..N /\ i \in Nat
      BY <2>2
    <3>2. d.rows[a.table[i]] = Fill(s, i, K)
      <4>1. \A k \in (a.matched + 1)..Len(a.table) :
                (k - 1) * PageSize < K => d.rows[a.table[k]] = Fill(a.tokens, k, K)
        <5>1. IsPrefilled(d, a, K)
          BY <1>PrefillRows, Zenon
        <5> QED BY <5>1, Zenon DEF IsPrefilled
      <4> QED BY <2>1, <2>6, <3>1, <4>1, Zenon
    <3>3. K \in 0..Len(s)
      BY ONLY <2>2, <2>4
    <3>4. Fill(s \o o, i, K) = Fill(s, i, K)
      BY <2>4, <3>1, <3>3, FillPrefix, Zenon
    <3> QED BY <3>2, <3>4, Zenon
  <2> QED BY <2>3, <2>5, <2>6, Zenon DEF OwnRows
\* A node that is being prefilled is locked by one request.
<1>OneLocker.
  ASSUME LibraryFacts, NEW nodes, Tree(nodes), NEW RL, NEW SL, Locked(nodes, RL, SL),
         NEW h \in DOMAIN nodes, nodes[h].ref = 1,
         NEW r \in Requests, h \in RL[r], NEW o \in Requests, h \in RL[o]
  PROVE  o = r
  <2> USE <1>OneLocker
  <2>1. h \in Paths
    BY TreeNode, Zenon
  <2>2. OnPath(h, h)
    BY <2>1, OnPathRefl, Zenon
  <2>3. PICK A, B : A = Lockers(Requests, RL, h) /\ B = Lockers(Sessions, SL, h)
    BY Zenon
  <2>4. /\ IsFiniteSet(A) /\ IsFiniteSet(B) /\ Cardinality(A) \in Nat /\ Cardinality(B) \in Nat
        /\ Cardinality(A) + Cardinality(B) = 1
    <3>1. nodes[h].ref = Cardinality(A) + Cardinality(B)
      BY <2>3, Zenon DEF Locked
    <3> QED BY <2>3, <3>1, LockersFinite, RadixAssumption, Zenon
  <2>5. r \in A /\ o \in A
    BY <2>2, <2>3, Zenon DEF Lockers
  <2>6. Cardinality(A) # 0
    BY <2>4, <2>5, CardEmpty
  <2>7. Cardinality(A) = 1
    BY ONLY <2>4, <2>6
  <2>8. PICK x : A = {x}
    BY <2>4, <2>7, CardSingle, Zenon
  <2> QED BY <2>5, <2>8, Zenon
\* A node whose rows are written may be announced; only its own request had locked it.
<1>MarkOK.
  ASSUME LibraryFacts, NEW c, NEW RL, NEW SL, NEW PR, NEW PF, CacheOK(c, RL, SL, PR, PF),
         NEW h \in DOMAIN c.nodes, ~c.nodes[h].computed, RowsOf(c, h),
         NEW r \in Requests, h \in RL[r], NEW d, d = Marked(c, h)
  PROVE  CacheOK(d, RL, SL, PR, PF) /\ Steady(c, d, r, RL, PR)
  <2> USE <1>MarkOK
  <2>1. /\ IsCache(c) /\ Tree(c.nodes) /\ Stamps(c) /\ Locked(c.nodes, RL, SL) /\ Owned(c, PR)
        /\ Prefilling(c.nodes, RL, PF) /\ Announced(c) /\ Written(c)
    BY Zenon DEF CacheOK
  <2>2. IsMarked(c, h, d)
    BY <2>1, MarkShape, Zenon
  <2>3. /\ IsCache(d) /\ d.free = c.free /\ d.older = c.older /\ d.lost = c.lost /\ d.rows = c.rows
        /\ d.told = c.told \cup SegmentPrefixes(c.nodes, h) /\ IsMark(c.nodes, h, d.nodes)
    BY <2>2, Zenon DEF IsMarked
  <2>4. /\ Tree(d.nodes) /\ \A x : Holder(d.nodes, x) = Holder(c.nodes, x)
        /\ \A q : Children(d.nodes, q) = Children(c.nodes, q)
    <3>1. PICK m, n : m = c.nodes /\ n = d.nodes
      BY Zenon
    <3>2. Tree(m) /\ IsMark(m, h, n)
      BY <2>1, <2>3, <3>1, Zenon
    <3>3. /\ Tree(n) /\ \A x : Holder(n, x) = Holder(m, x)
          /\ \A q : Children(n, q) = Children(m, q)
      BY ONLY <3>2, MarkTree
    <3> QED BY <3>1, <3>3, Zenon
  <2>5. Stamps(d)
    BY <2>1, <2>3, Zenon DEF Stamps, IsMark
  <2>6. Locked(d.nodes, RL, SL)
    BY <2>1, <2>3, ZenonT(30) DEF Locked, IsMark
  <2>7. Owned(d, PR)
    <3>1. \A q \in DOMAIN c.nodes : Range(d.nodes[q].pages) = Range(c.nodes[q].pages)
      BY <2>3, Zenon DEF IsMark
    <3>2. DOMAIN d.nodes = DOMAIN c.nodes
      BY <2>3, Zenon DEF IsMark
    <3>3. NodePages(d.nodes) = NodePages(c.nodes)
      BY <3>1, <3>2, Zenon DEF NodePages
    <3>4. \A q, g \in DOMAIN d.nodes :
              q # g => Range(d.nodes[q].pages) \cap Range(d.nodes[g].pages) = {}
      BY <2>1, <3>1, <3>2, ZenonT(30) DEF Owned
    <3> QED BY <2>1, <2>3, <3>3, <3>4, Zenon DEF Owned
  <2>8. Prefilling(d.nodes, RL, PF)
    <3> SUFFICES ASSUME NEW q \in DOMAIN d.nodes, ~d.nodes[q].computed
                 PROVE  /\ Children(d.nodes, q) = {} /\ d.nodes[q].ref = 1
                        /\ \E o \in Requests : q \in RL[o] /\ <<q, d.nodes[q].start>> \in PF[o]
      BY Zenon DEF Prefilling
    <3>1. /\ q \in DOMAIN c.nodes /\ ~c.nodes[q].computed /\ d.nodes[q].start = c.nodes[q].start
          /\ d.nodes[q].ref = c.nodes[q].ref
      BY <2>3, Zenon DEF IsMark
    <3> QED BY <2>1, <2>4, <3>1, Zenon DEF Prefilling
  <2>9. Announced(d)
    <3> SUFFICES ASSUME NEW x PROVE x \in d.told <=> Matches(d.nodes, x)
      BY AnnouncedX, Zenon
    <3>1. x \in c.told <=> Matches(c.nodes, x)
      BY <2>1, AnnouncedX, Zenon
    <3>2. x \in SegmentPrefixes(c.nodes, h) <=> h \in Holder(c.nodes, x)
      BY Zenon DEF Holder
    <3>3. Holder(c.nodes, x) \subseteq DOMAIN c.nodes
      BY Zenon DEF Holder
    <3>4. Matches(d.nodes, x) <=> Matches(c.nodes, x) \/ h \in Holder(c.nodes, x)
      BY <2>3, <2>4, <3>3, ZenonT(30) DEF Matches, IsMark
    <3> QED BY <2>3, <3>1, <3>2, <3>4, Zenon
  <2>10. Written(d)
    <3> SUFFICES ASSUME NEW q \in DOMAIN d.nodes, d.nodes[q].computed,
                        NEW i \in (d.nodes[q].start + 1)..FullPages(q)
                 PROVE  d.rows[d.nodes[q].pages[i]] = PagePrefix(q, i)
      BY Zenon DEF Written
    <3>1. /\ q \in DOMAIN c.nodes /\ d.nodes[q].start = c.nodes[q].start
          /\ d.nodes[q].pages = c.nodes[q].pages /\ (q # h => c.nodes[q].computed)
      BY <2>3, Zenon DEF IsMark
    <3>2. i \in (c.nodes[q].start + 1)..FullPages(q)
      BY <3>1, Zenon
    <3>3. c.rows[c.nodes[q].pages[i]] = PagePrefix(q, i)
      BY <2>1, <3>1, <3>2, Zenon DEF Written, RowsOf
    <3> QED BY <2>3, <3>1, <3>3, Zenon
  <2>11. CacheOK(d, RL, SL, PR, PF)
    BY <2>3, <2>4, <2>5, <2>6, <2>7, <2>8, <2>9, <2>10, Zenon DEF CacheOK
  <2>12. Steady(c, d, r, RL, PR)
    <3> SUFFICES ASSUME NEW o \in Requests, o # r, NEW g \in RL[o] PROVE Keeps(c, d, g, PR[o])
      BY Zenon DEF Steady
    <3>1. g # h
      <4>1. c.nodes[h].ref = 1
        BY <2>1, Zenon DEF Prefilling
      <4> SUFFICES ASSUME g = h PROVE FALSE
        OBVIOUS
      <4>2. h \in RL[o]
        BY Zenon
      <4>3. o = r
        BY <2>1, <4>1, <4>2, <1>OneLocker
      <4> QED BY <4>3, Zenon
    <3>2. \A x : \A q \in Holder(c.nodes, x) : /\ q \in Holder(d.nodes, x)
              /\ d.nodes[q].pages[FullPages(x)] = c.nodes[q].pages[FullPages(x)]
      <4>1. \A x : Holder(c.nodes, x) \subseteq DOMAIN c.nodes
        BY Zenon DEF Holder
      <4> QED BY <2>3, <2>4, <4>1, Zenon DEF IsMark
    <3>3. g \in DOMAIN c.nodes => /\ g \in DOMAIN d.nodes /\ d.nodes[g].computed = c.nodes[g].computed
                                  /\ d.nodes[g].start = c.nodes[g].start
      BY <2>3, <3>1, Zenon DEF IsMark
    <3> QED BY <2>3, <3>2, <3>3, Zenon DEF Keeps
  <2> QED BY <2>11, <2>12
<1> SUFFICES
  ASSUME LibraryFacts, RadixInv, NEW r \in Requests, Prefilled(r) \/ PublishRefused(r)
  PROVE  RadixInv'
  OBVIOUS
<1>1. PICK a : a = alloc[r]
  OBVIOUS
<1>2. PICK lo, K : lo = a.matched * PageSize + 1 /\ K = Len(a.tokens)
  BY Zenon
<1>3. PICK d : d = WriteRows(cache, a.table, a.tokens, lo, K)
  OBVIOUS
<1>4. PICK e : e = cache'
  OBVIOUS
<1>5. alloc[r] # None /\ a.out = <<>> /\ pins' = pins
  BY <1>1, Zenon DEF Prefilled, PublishRefused
<1>6. \/ e = d /\ alloc' = alloc
      \/ e = MarkComputed(d, a) /\ \E tok \in Sampled : alloc' = [alloc EXCEPT ![r].out = <<tok>>]
  BY <1>1, <1>2, <1>3, <1>4, Zenon DEF Prefilled, PublishRefused, PromptWritten
<1>7. PICK RL, SL, PR, PF : RL = RequestLocks /\ SL = SessionLocks /\ PR = RequestPages /\ PF = Prefills
  BY Zenon
<1>8. /\ a \in Allocation /\ AllocOK(cache, a) /\ PR[r] = PrivatePages(a) /\ RL[r] = {a.node}
      /\ a.node = Root \/ a.node \in DOMAIN cache.nodes
  BY <1>1, <1>5, <1>7, OwnView, Zenon
<1>9. CacheOK(cache, RL, SL, PR, PF)
  BY <1>7, InvView, Zenon
<1>10. AllocShape(a) /\ PromptPages(cache, a) /\ NodeNow(cache, a)
  BY <1>8, TreeParts, Zenon DEF AllocOK
<1>11. IsCache(cache) /\ Tree(cache.nodes) /\ Owned(cache, PR)
  BY <1>9, Zenon DEF CacheOK
<1>12. /\ MayWrite(cache, a.table, a.tokens, lo, K)
       /\ Elsewhere(cache, PR, r, {a.table[i] : i \in Touched(a.table, lo, K)})
  <2>1. MayPrefill(cache, PR, r, a, lo, K)
    BY ONLY <1>2, <1>5, <1>8, <1>11, <1>PrefillPages, r \in Requests
  <2> QED BY <2>1, Zenon DEF MayPrefill
<1>13. Rewrites(cache, a.table, a.tokens, lo, K, d)
  BY <1>3, <1>11, <1>12, WriteFacts, Zenon
<1>14. PICK T : T = {a.table[i] : i \in Touched(a.table, lo, K)}
  BY Zenon
<1>15. CacheOK(d, RL, SL, PR, PF) /\ Steady(cache, d, r, RL, PR) /\ d.nodes = cache.nodes
  BY <1>9, <1>12, <1>13, <1>14, RewriteOK, Zenon DEF Rewrites
<1>Unheard. CASE e = d /\ alloc' = alloc
  <2>1. AllocOK(e, a)
    <3>1. PromptPages(e, a) /\ NodeNow(e, a)
      BY <1>10, <1>15, <1>Unheard, Zenon DEF PromptPages, NodeNow
    <3>2. OwnRows(e, a)
      BY <1>5, Zenon DEF OwnRows
    <3> QED BY <1>10, <3>1, <3>2, TreeParts, Zenon DEF AllocOK
  <2>2. /\ RL = With(RL, r, LockOf(a)) /\ PR = With(PR, r, OwnOf(a))
        /\ PF = With(PF, r, PrefillOf(a))
    BY <1>1, <1>5, <1>7, OwnView, Zenon
  <2>3. SL = SessionLocks' /\ pins' \in [Sessions -> PinEntry \cup {None}]
    BY <1>5, <1>7, SamePins, Zenon
  <2>4. CacheOK(cache', With(RL, r, LockOf(a)), SessionLocks', With(PR, r, OwnOf(a)),
                With(PF, r, PrefillOf(a)))
    BY <1>4, <1>15, <1>Unheard, <2>2, <2>3, Zenon
  <2>5. alloc' = [alloc EXCEPT ![r] = a]
    <3>1. alloc \in [Requests -> Allocation \cup {None}]
      BY InvView, Zenon
    <3> QED BY <1>1, <1>Unheard, <3>1
  <2> QED BY <1>4, <1>7, <1>8, <1>15, <1>Unheard, <2>1, <2>3, <2>4, <2>5, StepRequest, Zenon
<1> SUFFICES ASSUME e = MarkComputed(d, a), NEW tok \in Sampled,
                    alloc' = [alloc EXCEPT ![r].out = <<tok>>]
             PROVE  RadixInv'
  BY <1>6, <1>Unheard, Zenon
<1>16. PICK o, b : o = <<tok>> /\ b = MoreOut(a, o)
  BY Zenon
<1>17. tok \in Tokens /\ o \in Seq(Tokens) /\ o # <<>> /\ Len(o) = 1
  BY <1>16, RadixAssumption
<1>18. IsMore(a, o, b)
  <2>1. PICK x : x = Len(a.table) * PageSize
    OBVIOUS
  <2>2. K \in Nat /\ x \in Nat /\ K <= x
    BY <1>2, <1>8, <1>10, <2>1, AllocSizes, Zenon
  <2>3. x >= K + Len(o) - 1
    BY ONLY <1>17, <2>2
  <2>4. Len(a.table) * PageSize >= Len(a.tokens) + Len(o) - 1
    BY <1>2, <2>1, <2>3, Zenon
  <2> QED BY ONLY <1>8, <1>10, <1>16, <1>17, <2>4, MoreAlloc, Zenon
<1>19. /\ b.tokens = a.tokens /\ b.matched = a.matched /\ b.node = a.node
       /\ b.inserted = a.inserted /\ b.out # <<>>
  BY <1>17, <1>18, Zenon DEF IsMore
<1>20. alloc' = [alloc EXCEPT ![r] = b]
  <2>1. alloc \in [Requests -> Allocation \cup {None}]
    BY InvView, Zenon
  <2> QED BY <1>1, <1>16, <2>1 DEF MoreOut
<1>21. CASE OwnNode(a)
  <2>1. IsOwnNode(cache, a)
    BY <1>5, <1>8, <1>11, <1>21, OwnNodeFacts, Zenon
  <2>2. /\ a.node \in DOMAIN d.nodes /\ ~d.nodes[a.node].computed /\ a.node \in RL[r]
    BY <1>8, <1>15, <2>1, Zenon DEF IsOwnNode
  <2>3. e = Marked(d, a.node)
    BY <1>5, <1>21, <2>2, Zenon DEF MarkComputed, Marked, OwnNode
  <2>4. RowsOf(d, a.node)
    <3>1. \A i \in (a.matched + 1)..FullPages(a.tokens) :
              d.rows[a.table[i]] = PagePrefix(a.tokens, i)
      <4>1. IsPrefilled(d, a, K)
        BY <1>2, <1>5, <1>8, <1>10, <1>13, <1>PrefillRows, Zenon
      <4> QED BY <4>1, Zenon DEF IsPrefilled
    <3> QED BY <1>15, <2>1, <3>1, Zenon DEF IsOwnNode, RowsOf
  <2>5. CacheOK(e, RL, SL, PR, PF) /\ Steady(d, e, r, RL, PR)
    BY <1>15, <2>2, <2>3, <2>4, <1>MarkOK, Zenon
  <2>6. IsMarked(d, a.node, e)
    BY <1>15, <2>2, <2>3, MarkShape, Zenon DEF CacheOK
  <2>7. /\ e.rows = d.rows /\ IsMark(cache.nodes, a.node, e.nodes) /\ e.nodes[a.node].computed
    <3>1. e.rows = d.rows /\ IsMark(d.nodes, a.node, e.nodes)
      BY <2>6, Zenon DEF IsMarked
    <3>2. e.nodes[a.node].computed
      BY <3>1, Zenon DEF IsMark
    <3> QED BY <1>15, <3>1, <3>2, Zenon
  <2>8. PromptPages(e, a)
    <3>1. \A x : Holder(e.nodes, x) = Holder(cache.nodes, x)
      BY <1>11, <2>7, MarkTree, Zenon
    <3>2. \A x : \A q \in Holder(cache.nodes, x) : e.nodes[q].pages = cache.nodes[q].pages
      BY <2>7, Zenon DEF Holder, IsMark
    <3> QED BY <1>10, <3>1, <3>2, Zenon DEF PromptPages
  <2>9. InTree(e, b)
    <3>1. PromptPages(e, b)
      BY <1>18, <2>8, MorePrompt, Zenon
    <3>2. NodeNow(e, b)
      BY <1>19, <2>7, Zenon DEF NodeNow
    <3> QED BY <3>1, <3>2, TreeParts, Zenon
  <2>10. OwnRows(e, b)
    BY ONLY <1>2, <1>5, <1>8, <1>10, <1>13, <1>16, <1>17, <1>18, <2>7, <1>PrefillOwn, Zenon
  <2>11. Steady(cache, e, r, RL, PR)
    BY <1>15, <2>5, SteadyTrans, Zenon
  <2> QED BY <1>1, <1>4, <1>5, <1>7, <1>18, <1>20, <2>5, <2>9, <2>10, <2>11, MoreStep, Zenon
<1>22. CASE ~OwnNode(a)
  <2>1. e = d
    BY <1>5, <1>22, Zenon DEF MarkComputed, OwnNode
  <2>2. InTree(e, b)
    <3>1. PromptPages(e, a)
      BY <1>10, <1>15, <2>1, Zenon DEF PromptPages
    <3>2. PromptPages(e, b)
      BY <1>18, <3>1, MorePrompt, Zenon
    <3>3. ~a.inserted \/ a.matched = FullPages(a.tokens)
      <4>1. a.matched \in 0..FullPages(a.tokens) /\ FullPages(a.tokens) \in Nat
        BY <1>8, <1>10, AllocNode, Zenon DEF AllocShape
      <4> QED BY <1>22, <4>1 DEF OwnNode
    <3>4. a.node # Root => cache.nodes[a.node].computed
      BY <1>10, <3>3, Zenon DEF NodeNow
    <3>5. NodeNow(e, b)
      BY <1>15, <1>19, <2>1, <3>4, Zenon DEF NodeNow
    <3> QED BY <3>2, <3>5, TreeParts, Zenon
  <2>3. OwnRows(e, b)
    BY ONLY <1>2, <1>5, <1>8, <1>10, <1>13, <1>16, <1>17, <1>18, <2>1, <1>PrefillOwn, Zenon
  <2> QED BY <1>1, <1>4, <1>5, <1>7, <1>15, <1>18, <1>20, <2>1, <2>2, <2>3, MoreStep, Zenon
<1> QED BY <1>21, <1>22

\* What is left of a request that has ended, in cache d after cache c.
Ended(c, d, r, RL, SL, PR, PF) ==
    /\ CacheOK(d, With(RL, r, {}), SL, With(PR, r, {}), With(PF, r, {}))
    /\ Steady(c, d, r, RL, PR)

\* Its pages go back to the pool.
LEMMA EndPages ==
  \A c, RL, SL, PR, PF, r, T, d :
      /\ r \in Requests
      /\ CacheOK(c, With(RL, r, {}), SL, With(PR, r, T), PF)
      /\ d = PoolFree(c, T)
    =>   Ended(c, d, r, RL, SL, PR, PF)
\* Steady looks at the other requests' locks and pages only.
<1>SteadyOthers.
  ASSUME NEW c, NEW d, NEW r, NEW RL, NEW PR, NEW RM, NEW PM,
         \A o \in Requests : o # r => RM[o] = RL[o] /\ PM[o] = PR[o],
         Steady(c, d, r, RM, PM)
  PROVE  Steady(c, d, r, RL, PR)
  BY <1>SteadyOthers, Zenon DEF Steady
\* PagePool.free of pages of request r.
<1>FreeOK.
  ASSUME NEW c, NEW RL, NEW SL, NEW PR, NEW PF, CacheOK(c, RL, SL, PR, PF),
         NEW T, NEW r, NEW PM, Drops(PR, PM, r, T), NEW d, d = PoolFree(c, T)
  PROVE  CacheOK(d, RL, SL, PM, PF) /\ Steady(c, d, r, RL, PR)
  <2> USE <1>FreeOK
  <2>1. IsCache(c) /\ Tree(c.nodes) /\ Owned(c, PR) /\ Written(c)
    BY Zenon DEF CacheOK
  <2> DEFINE w == [p \in Pages |-> IF p \in T THEN <<>> ELSE c.rows[p]]
  <2>2. d = [free |-> c.free \cup T, nodes |-> c.nodes, older |-> c.older, host |-> c.host,
             told |-> c.told, lost |-> c.lost, rows |-> w]
    <3>1. d = [c EXCEPT !.free = c.free \cup T, !.rows = w]
      BY Zenon DEF PoolFree
    <3> HIDE DEF w
    <3> QED BY <2>1, <3>1, Zenon DEF IsCache
  <2>3. \A p \in Pages : p \notin T => w[p] = c.rows[p]
    BY Zenon
  <2> HIDE DEF w
  <2>4. /\ IsCache(d) /\ d.free = c.free \cup T /\ d.nodes = c.nodes /\ d.older = c.older
        /\ d.told = c.told /\ d.lost = c.lost /\ d.rows = w
    BY ONLY <2>2, Zenon DEF IsCache
  <2>5. OwnedX(c.free, c.lost, NodePages(c.nodes), PR) /\ T \subseteq PR[r] /\ r \in Requests
    BY <2>1, OwnedView, Zenon DEF Drops
  <2>6. /\ T \cap (c.free \cup c.lost \cup NodePages(c.nodes)) = {}
        /\ NodePages(c.nodes) \subseteq Pages
        /\ c.free \cap c.lost = {} /\ (c.free \cup c.lost) \cap NodePages(c.nodes) = {}
    BY <2>5, Zenon DEF OwnedX
  <2>7. OwnedX(d.free, d.lost, NodePages(c.nodes), PM)
    <3> DEFINE N == NodePages(c.nodes)
               g == c.free \cup T
    <3>1. g \cup N = c.free \cup N \cup T /\ (g \cup c.lost) \cap N = {} /\ g \cap c.lost = {}
      BY <2>6, Zenon
    <3>2. OwnedX(g, c.lost, N, PM)
      <4> HIDE DEF g, N
      <4> QED BY <2>5, <3>1, DropsOwned, Zenon DEF N
    <3> QED BY <2>4, <3>2, Zenon
  <2>8. Written(d)
    <3>1. \A p \in NodePages(c.nodes) : d.rows[p] = c.rows[p]
      BY <2>3, <2>4, <2>6, Zenon
    <3> QED BY <2>1, <2>4, <3>1, RowsKept, Zenon
  <2>9. CacheOK(d, RL, SL, PM, PF)
    BY ONLY CacheOK(c, RL, SL, PR, PF), <2>4, <2>7, <2>8, Repage, Zenon
  <2>10. ASSUME NEW o \in Requests, o # r, NEW h \in RL[o] PROVE Keeps(c, d, h, PR[o])
    <3>1. \A p \in PR[o] : p \in Pages /\ p \notin T
      BY <2>5, <2>10, Zenon DEF OwnedX
    <3>2. \A p \in PR[o] : d.rows[p] = c.rows[p]
      BY <2>3, <2>4, <3>1, Zenon
    <3> QED BY <2>4, <3>2, KeepsRefl, Zenon
  <2> QED BY <2>9, <2>10, Zenon DEF Steady
\* A request without a lock prefills nothing.
<1>PrefillsDrop.
  ASSUME NEW c, NEW RL, NEW SL, NEW PR, NEW PF, NEW r \in Requests,
         CacheOK(c, With(RL, r, {}), SL, PR, PF)
  PROVE  CacheOK(c, With(RL, r, {}), SL, PR, With(PF, r, {}))
  <2> USE <1>PrefillsDrop
  <2>1. PICK RM, PG : RM = With(RL, r, {}) /\ PG = With(PF, r, {})
    BY Zenon
  <2>2. RM[r] = {} /\ \A o \in Requests : o # r => PG[o] = PF[o]
    BY <2>1, Zenon DEF With
  <2>3. Prefilling(c.nodes, RM, PF)
    BY <2>1, Zenon DEF CacheOK
  <2>4. Prefilling(c.nodes, RM, PG)
    <3> SUFFICES ASSUME NEW q \in DOMAIN c.nodes, ~c.nodes[q].computed
                 PROVE  /\ Children(c.nodes, q) = {} /\ c.nodes[q].ref = 1
                        /\ \E o \in Requests : q \in RM[o] /\ <<q, c.nodes[q].start>> \in PG[o]
      BY Zenon DEF Prefilling
    <3>1. /\ Children(c.nodes, q) = {} /\ c.nodes[q].ref = 1
          /\ \E o \in Requests : q \in RM[o] /\ <<q, c.nodes[q].start>> \in PF[o]
      BY <2>3, Zenon DEF Prefilling
    <3> QED BY <2>2, <3>1, Zenon
  <2> QED BY <2>1, <2>4, Zenon DEF CacheOK
<1> SUFFICES
  ASSUME NEW c, NEW RL, NEW SL, NEW PR, NEW PF, NEW r \in Requests, NEW T,
         CacheOK(c, With(RL, r, {}), SL, With(PR, r, T), PF), NEW d, d = PoolFree(c, T)
  PROVE  Ended(c, d, r, RL, SL, PR, PF)
  OBVIOUS
<1>1. PICK RM, PM, PN : RM = With(RL, r, {}) /\ PM = With(PR, r, T) /\ PN = With(PR, r, {})
  BY Zenon
<1>2. Drops(PM, PN, r, T)
  <2>1. \A X, U, Y : U \subseteq X /\ Y = X \ U => Drops(With(PR, r, X), With(PR, r, Y), r, U)
    BY WithChanges, Zenon
  <2>2. {} = T \ T
    BY Zenon
  <2> QED BY <1>1, <2>1, <2>2, Zenon
<1>3. CacheOK(c, RM, SL, PM, PF)
  BY <1>1, Zenon
<1>4. CacheOK(d, RM, SL, PN, PF) /\ Steady(c, d, r, RM, PM)
  BY ONLY <1>2, <1>3, <1>FreeOK, d = PoolFree(c, T)
<1>5. CacheOK(d, With(RL, r, {}), SL, PN, With(PF, r, {}))
  BY <1>1, <1>4, <1>PrefillsDrop, Zenon
<1>6. \A o \in Requests : o # r => RM[o] = RL[o] /\ PM[o] = PR[o]
  BY <1>1, Zenon DEF With
<1>7. Steady(c, d, r, RL, PR)
  BY ONLY <1>4, <1>6, <1>SteadyOthers
<1> QED BY <1>1, <1>5, <1>7, Zenon DEF Ended

\* Its path is unlocked and its pages go back to the pool.
LEMMA ReleaseOK ==
  ASSUME LibraryFacts, NEW c, NEW RL, NEW SL, NEW PR, NEW PF, NEW r \in Requests, NEW T, NEW h,
         CacheOK(c, RL, SL, With(PR, r, T), PF), RL = With(RL, r, {h}), Anchored(c, h),
         NEW d, d = PoolFree(UnlockPath(c, h), T)
  PROVE  Ended(c, d, r, RL, SL, PR, PF)
<1>1. PICK RM, PM, e : RM = With(RL, r, {}) /\ PM = With(PR, r, T) /\ e = UnlockPath(c, h)
  BY Zenon
<1>2. AddsLock(Requests, RM, RL, r, h)
  <2>1. AddsLock(Requests, With(RL, r, {}), With(RL, r, {h}), r, h)
    BY WithChanges, Zenon
  <2> QED BY <1>1, <2>1, Zenon
<1>3. h = Root \/ (h \in DOMAIN c.nodes /\ c.nodes[h].computed)
  BY Zenon DEF Anchored
<1>4. CacheOK(c, RL, SL, PM, PF) /\ d = PoolFree(e, T)
  BY <1>1, Zenon
<1>5. CacheOK(e, RM, SL, PM, PF) /\ \A g, P : Keeps(c, e, g, P)
  BY ONLY LibraryFacts, <1>1, <1>2, <1>3, <1>4, UnlockRequest
<1>6. Ended(e, d, r, RL, SL, PR, PF)
  BY <1>1, <1>4, <1>5, EndPages, Zenon
<1>7. Steady(c, e, r, RL, PR)
  BY <1>5, KeepsSteady, Zenon
<1> QED BY <1>6, <1>7, SteadyTrans, Zenon DEF Ended

\* A step that ends request r.
LEMMA EndStep ==
  ASSUME RadixInv, NEW r \in Requests, alloc' = [alloc EXCEPT ![r] = None], pins' = pins,
         NEW RL, NEW SL, NEW PR, NEW PF, RL = RequestLocks, SL = SessionLocks,
         PR = RequestPages, PF = Prefills, NEW d, d = cache',
         Ended(cache, d, r, RL, SL, PR, PF)
  PROVE  RadixInv'
<1>1. LockOf(None) = {} /\ OwnOf(None) = {} /\ PrefillOf(None) = {}
  BY Zenon DEF LockOf, OwnOf, PrefillOf
<1>2. SessionLocks' = SessionLocks /\ pins' \in [Sessions -> PinEntry \cup {None}]
  BY SamePins, Zenon
<1>3. CacheOK(cache', With(RequestLocks, r, LockOf(None)), SessionLocks',
              With(RequestPages, r, OwnOf(None)), With(Prefills, r, PrefillOf(None)))
  BY <1>1, <1>2, Zenon DEF Ended
<1>4. Steady(cache, cache', r, RequestLocks, RequestPages)
  BY Zenon DEF Ended
<1>5. PICK a : a = None
  OBVIOUS
<1>6. /\ a \in Allocation \cup {None} /\ alloc' = [alloc EXCEPT ![r] = a]
      /\ a # None => AllocOK(cache', a)
      /\ CacheOK(cache', With(RequestLocks, r, LockOf(a)), SessionLocks',
                 With(RequestPages, r, OwnOf(a)), With(Prefills, r, PrefillOf(a)))
  BY <1>3, <1>5, Zenon
<1> QED BY <1>2, <1>4, <1>6, StepRequest, Zenon

\* Pages F + 1 .. k of sequence S are written and belong to a alone.
FoldReady(c, a, S, F, k) ==
    /\ S \in Seq(Tokens) /\ k \in 0..FullPages(S) /\ F \in 0..k /\ F < k
    /\ a.node = PagePrefix(S, F)
    /\ \A i \in (F + 1)..k : /\ i \in (PrivateFrom(a) + 1)..Len(a.table)
                             /\ a.table[i] \in Pages
                             /\ c.rows[a.table[i]] = PagePrefix(S, i)

FoldPages(a, F, k) == [i \in (F + 1)..k |-> a.table[i]]

FoldNode(a, F, k) == [start |-> F, pages |-> FoldPages(a, F, k), ref |-> 0, computed |-> TRUE]

\* The pages of the new node are the request's own.
IsFold(c, a, S, F, k, g) ==
    /\ g \in [(F + 1)..k -> Pages] /\ IsInjective(g) /\ Range(g) \subseteq PrivatePages(a)
    /\ Range(g) = {a.table[i] : i \in (F + 1)..k}
    /\ \A i \in (F + 1)..k : c.rows[g[i]] = PagePrefix(S, i)

\* The new node joins the tree with the pages it takes from the request.
FoldDone(c, d, a, r, RL, SL, PR, PF, T) ==
    /\ CacheOK(d, RL, SL, With(PR, r, T), PF)
    /\ \A h, P : h = Root \/ h \in DOMAIN c.nodes => Keeps(c, d, h, P)

\* commit_and_release: fold what is written, unlock, free the rest.
LEMMA CommitStep ==
  \A r :
      /\ LibraryFacts /\ RadixInv /\ r \in Requests /\ CommitAndRelease(r)
    =>   RadixInv'
\* The full pages of a finished sequence beyond the prompt are written and private.
<1>FoldFacts.
  ASSUME NEW c, NEW a \in Allocation, AllocOK(c, a), a.out # <<>>, a.inserted,
         NEW S, S = Sequence(a), NEW F, F = FullPages(a.tokens),
         NEW k, k = WrittenLen(a) \div PageSize, F < k
  PROVE  FoldReady(c, a, S, F, k)
  <2> USE <1>FoldFacts
  <2>1. AllocShape(a) /\ OwnRows(c, a)
    BY Zenon DEF AllocOK
  <2>2. PICK N, K, M, w, s : /\ N = Len(a.table) /\ K = Len(a.tokens) /\ M = Len(a.out)
                             /\ w = WrittenLen(a) /\ s = a.tokens
    BY Zenon
  <2>3. /\ N \in Nat /\ K \in Nat /\ M \in Nat /\ F \in Nat /\ F <= N /\ N * PageSize \in Nat
        /\ S \in Seq(Tokens) /\ Len(S) = K + M
    BY <2>1, <2>2, AllocSizes, Zenon
  <2>4. M # 0
    BY <2>2, AllocParts
  <2>5. w \in Nat /\ Len(S) = w + 1
    <3>1. w = Len(S) - 1
      BY <2>2, Zenon DEF WrittenLen
    <3> QED BY ONLY <2>3, <2>4, <3>1
  <2>6. k \in Nat /\ k * PageSize <= w /\ k * PageSize \in Nat
    BY <2>2, <2>5, DivMul, MulMono
  <2>7. k <= FullPages(S) /\ FullPages(S) \in Nat
    <3>1. PICK f : f = FullPages(S)
      OBVIOUS
    <3>2. f \in Nat /\ Len(S) < (f + 1) * PageSize
      BY <2>3, <3>1, DivMul DEF FullPages
    <3>3. f + 1 \in Nat /\ (f + 1) * PageSize \in Nat
      BY <3>2, MulMono
    <3>4. f + 1 <= k <=> (f + 1) * PageSize <= k * PageSize
      BY <2>6, <3>3, MulMono
    <3>5. PICK x, y : x = (f + 1) * PageSize /\ y = k * PageSize
      BY Zenon
    <3>6. /\ x \in Nat /\ y \in Nat /\ (f + 1 <= k <=> x <= y) /\ y <= w /\ Len(S) < x
      BY <2>6, <3>2, <3>3, <3>4, <3>5, Zenon
    <3>7. k <= f
      BY ONLY <2>5, <2>6, <3>2, <3>6
    <3> QED BY <3>1, <3>2, <3>7, Zenon
  <2>8. k <= N
    <3>1. N * PageSize >= w
      BY <2>1, <2>2, Zenon DEF AllocShape, WrittenLen
    <3>2. PICK x, y : x = N * PageSize /\ y = k * PageSize
      BY Zenon
    <3>3. N + 1 \in Nat
      BY <2>3
    <3>4. k <= N <=> k * PageSize <= N * PageSize
      BY <2>3, <2>6, MulMono
    <3>5. x \in Nat /\ y \in Nat /\ (k <= N <=> y <= x) /\ y <= w /\ x >= w
      BY <2>3, <2>6, <3>1, <3>2, <3>4, Zenon
    <3> QED BY ONLY <2>5, <3>5
  <2>9. PrivateFrom(a) = F /\ a.node = PagePrefix(s, F)
    BY <2>1, <2>2, Zenon DEF AllocShape, PrivateFrom
  <2>10. PagePrefix(S, F) = PagePrefix(s, F)
    <3>1. S = s \o a.out /\ s \in Seq(Tokens) /\ a.out \in Seq(Tokens)
      BY <2>2, AllocParts, Zenon DEF Sequence
    <3>2. PICK n : n = F * PageSize
      OBVIOUS
    <3>3. n \in 0..Len(s)
      <4>1. n <= K /\ n \in Nat
        BY <2>2, <2>3, <3>2, DivMul, MulMono, Zenon DEF FullPages
      <4> QED BY <2>2, <2>3, <4>1
    <3>4. SubSeq(s \o a.out, 1, n) = SubSeq(s, 1, n)
      BY ONLY <3>1, <3>3
    <3> QED BY <3>1, <3>2, <3>4, Zenon DEF PagePrefix
  <2>11. ASSUME NEW i \in (F + 1)..k
         PROVE  /\ i \in (PrivateFrom(a) + 1)..Len(a.table) /\ a.table[i] \in Pages
                /\ c.rows[a.table[i]] = PagePrefix(S, i)
    <3>1. i \in (F + 1)..N /\ i \in 1..N /\ i \in Nat /\ i - 1 \in Nat /\ i <= k /\ ~(i <= i - 1)
      BY <2>3, <2>6, <2>8
    <3>2. PICK x, y, z : x = i * PageSize /\ y = k * PageSize /\ z = (i - 1) * PageSize
      BY Zenon
    <3>3. /\ x \in Nat /\ y \in Nat /\ z \in Nat /\ x <= y /\ ~(x <= z) /\ y <= w
      <4>1. /\ i * PageSize \in Nat /\ (i - 1) * PageSize \in Nat
            /\ i * PageSize <= k * PageSize
        BY <2>6, <3>1, MulMono
      <4>2. ~(i * PageSize <= (i - 1) * PageSize)
        BY <3>1, MulMono
      <4> QED BY <2>6, <3>2, <4>1, <4>2, Zenon
    <3>4. z < w /\ x <= w
      BY ONLY <2>5, <3>3
    <3>5. i \in (PrivateFrom(a) + 1)..Len(a.table)
      BY <2>2, <2>9, <3>1, Zenon
    <3>6. c.rows[a.table[i]] = Fill(S, i, w)
      <4>1. w = Len(Sequence(a)) - 1
        BY <2>2, Zenon DEF WrittenLen
      <4> QED BY <2>1, <3>2, <3>4, <3>5, <4>1, Zenon DEF OwnRows
    <3>7. Fill(S, i, w) = PagePrefix(S, i)
      BY <2>5, <3>1, <3>2, <3>4, FillFull, Zenon
    <3>8. a.table[i] \in Pages
      BY <2>2, <3>1, AllocParts
    <3> QED BY <3>5, <3>6, <3>7, <3>8, Zenon
  <2>12. k \in 0..FullPages(S) /\ F \in 0..k
    BY <2>3, <2>6, <2>7
  <2> QED BY <2>3, <2>9, <2>10, <2>11, <2>12, Zenon DEF FoldReady
\* The lock counts when a node joins that nobody locks.
<1>InsertLocksNone.
  ASSUME LibraryFacts, NEW nodes, Tree(nodes), NEW p, NEW node, Fits(nodes, p, node), NEW new,
         IsInsert(nodes, p, node, new), NEW RL, NEW SL, Locked(nodes, RL, SL), node.ref = 0
  PROVE  Locked(new, RL, SL)
  <2> USE <1>InsertLocksNone
  <2>1. /\ DOMAIN new = DOMAIN nodes \cup {p} /\ new[p] = node /\ p \notin DOMAIN nodes
        /\ \A d \in DOMAIN nodes : new[d] = nodes[d]
    BY FitsNew, Zenon DEF IsInsert
  <2>2. \A h : h = Root \/ h \in DOMAIN nodes => ~OnPath(p, h)
    BY InsertAnchor, Zenon
  <2>3. 0 = Cardinality(Lockers(Requests, RL, p)) + Cardinality(Lockers(Sessions, SL, p))
    <3>1. Lockers(Requests, RL, p) = {} /\ Lockers(Sessions, SL, p) = {}
      BY <2>2, Zenon DEF Lockers, Locked
    <3>2. Cardinality({}) = 0
      BY CardEmpty
    <3> QED BY <3>1, <3>2
  <2> QED BY <2>1, <2>3, Zenon DEF Locked
\* A computed leaf that nobody locks.
<1>InsertFreeOK.
  ASSUME LibraryFacts, NEW c, NEW RL, NEW SL, NEW PR, NEW PF, CacheOK(c, RL, SL, PR, PF),
         NEW p, NEW node, MayInsert(c, p, node), node.ref = 0, node.computed,
         NEW d, IsInsertion(c, p, node, d),
         NEW r, NEW PM, Drops(PR, PM, r, Range(node.pages))
  PROVE  /\ CacheOK(d, RL, SL, PM, PF)
         /\ \A h, P : h = Root \/ h \in DOMAIN c.nodes => Keeps(c, d, h, P)
  <2> USE <1>InsertFreeOK
  <2>1. Tree(c.nodes) /\ Locked(c.nodes, RL, SL)
    BY Zenon DEF CacheOK
  <2>2. Fits(c.nodes, p, node) /\ IsInsert(c.nodes, p, node, d.nodes)
    BY Zenon DEF MayInsert, IsInsertion
  <2>3. Locked(d.nodes, RL, SL)
    BY <2>1, <2>2, <1>InsertLocksNone, Zenon
  <2>4. InsertPrefills(c, p, node, RL, RL, PF, PF)
    BY Zenon DEF InsertPrefills
  <2> QED BY <2>3, <2>4, InsertOK, Zenon
\* The pages a commit folds into the tree are the request's own, each once.
<1>FoldSegment.
  ASSUME NEW c, NEW a \in Allocation, AllocShape(a), NEW S, NEW F, NEW k, FoldReady(c, a, S, F, k),
         NEW g, g = FoldPages(a, F, k)
  PROVE  IsFold(c, a, S, F, k, g)
  <2> USE <1>FoldSegment
  <2>1. DOMAIN g = (F + 1)..k /\ \A i \in (F + 1)..k : g[i] = a.table[i]
    BY Zenon DEF FoldPages
  <2>2. \A i \in (F + 1)..k : /\ i \in (PrivateFrom(a) + 1)..Len(a.table)
                              /\ a.table[i] \in Pages
                              /\ c.rows[a.table[i]] = PagePrefix(S, i)
    BY Zenon DEF FoldReady
  <2>3. g \in [(F + 1)..k -> Pages]
    <3>1. g = [i \in (F + 1)..k |-> a.table[i]]
      BY Zenon DEF FoldPages
    <3> QED BY <2>2, <3>1, Zenon
  <2>4. IsInjective(g)
    <3>1. \A i, j \in (PrivateFrom(a) + 1)..Len(a.table) : a.table[i] = a.table[j] => i = j
      BY Zenon DEF AllocShape
    <3> SUFFICES ASSUME NEW i \in (F + 1)..k, NEW j \in (F + 1)..k, g[i] = g[j] PROVE i = j
      BY <2>1, Zenon DEF IsInjective
    <3>2. a.table[i] = a.table[j]
      BY <2>1, Zenon
    <3> QED BY <2>2, <3>1, <3>2, Zenon
  <2>5. Range(g) = {a.table[i] : i \in (F + 1)..k}
    BY <2>1, Zenon DEF Range
  <2>6. Range(g) \subseteq PrivatePages(a)
    BY <2>2, <2>5, Zenon DEF PrivatePages
  <2> QED BY <2>1, <2>2, <2>3, <2>4, <2>5, <2>6, Zenon DEF IsFold
\* The insertion of commit_and_release, field by field.
<1>FoldedShape.
  ASSUME NEW c, IsCache(c), NEW a, NEW S, S = Sequence(a), NEW F, F = FullPages(a.tokens), NEW k,
         S \in Seq(Tokens), k \in 0..FullPages(S), F \in 0..k,
         NEW p, p = PagePrefix(S, k), NEW node, node = FoldNode(a, F, k),
         NEW d, d = Folded(c, a, k)
  PROVE  IsInsertion(c, p, node, d)
  <2> USE <1>FoldedShape
  <2>1. PICK b, t : b = InsertNode(c, p, node) /\ t = c.told \cup {PagePrefix(S, i) : i \in (F + 1)..k}
    BY Zenon
  <2>2. /\ IsCache(b) /\ b.free = c.free /\ b.host = c.host /\ b.told = c.told
        /\ b.lost = c.lost /\ b.rows = c.rows
        /\ IsInsert(c.nodes, p, node, b.nodes)
        /\ b.older = c.older \cup {<<q, p>> : q \in DOMAIN c.nodes}
    BY ONLY <2>1, InsertNodeShape, IsCache(c)
  <2>3. d = [b EXCEPT !.told = t]
    BY <2>1, <2>2, ZenonT(30) DEF Folded, FoldNode, FoldPages
  <2>4. d = [free |-> b.free, nodes |-> b.nodes, older |-> b.older, host |-> b.host,
             told |-> t, lost |-> b.lost, rows |-> b.rows]
    BY <2>2, <2>3, Zenon DEF IsCache
  <2>5. /\ IsCache(d) /\ d.free = b.free /\ d.nodes = b.nodes /\ d.older = b.older
        /\ d.told = t /\ d.lost = b.lost /\ d.rows = b.rows
    BY ONLY <2>4, Zenon DEF IsCache
  <2>6. node.computed = TRUE /\ node.start = F
    BY DEF FoldNode
  <2>7. FullPages(p) = k /\ \A i \in (F + 1)..k : PagePrefix(p, i) = PagePrefix(S, i)
    <3>1. FullPages(p) = k /\ \A i \in 0..k : PagePrefix(p, i) = PagePrefix(S, i)
      BY StagePath
    <3>2. \A i \in (F + 1)..k : i \in 0..k
      OBVIOUS
    <3> QED BY <3>1, <3>2, Zenon
  <2>8. t = c.told \cup {PagePrefix(p, i) : i \in (node.start + 1)..FullPages(p)}
    <3>1. (node.start + 1)..FullPages(p) = (F + 1)..k
      BY <2>6, <2>7, Zenon
    <3>2. {PagePrefix(p, i) : i \in (F + 1)..k} = {PagePrefix(S, i) : i \in (F + 1)..k}
      BY <2>7, Zenon
    <3> QED BY <2>1, <3>1, <3>2, Zenon
  <2> QED BY <2>2, <2>5, <2>6, <2>8, Zenon DEF IsInsertion
\* Folding a finished sequence's pages into the tree keeps the invariant.
<1>FoldOK.
  ASSUME LibraryFacts,
         NEW c, NEW RL, NEW SL, NEW PR, NEW PF, CacheOK(c, RL, SL, PR, PF), NEW r \in Requests,
         NEW a \in Allocation, AllocShape(a), PR = With(PR, r, PrivatePages(a)), Anchored(c, a.node),
         NEW S, S = Sequence(a), NEW F, F = FullPages(a.tokens), NEW k, FoldReady(c, a, S, F, k),
         Holder(c.nodes, PagePrefix(S, F + 1)) = {}, NEW d, d = Folded(c, a, k),
         NEW T, T = PrivatePages(a) \ {a.table[i] : i \in (F + 1)..k}
  PROVE  FoldDone(c, d, a, r, RL, SL, PR, PF, T)
  <2> USE <1>FoldOK
  <2>1. PICK p, node, g : p = PagePrefix(S, k) /\ node = FoldNode(a, F, k) /\ g = FoldPages(a, F, k)
    BY Zenon
  <2>2. /\ S \in Seq(Tokens) /\ k \in 0..FullPages(S) /\ F \in 0..k /\ F < k
        /\ a.node = PagePrefix(S, F)
    BY Zenon DEF FoldReady
  <2>3. /\ g \in [(F + 1)..k -> Pages] /\ IsInjective(g) /\ Range(g) \subseteq PrivatePages(a)
        /\ Range(g) = {a.table[i] : i \in (F + 1)..k}
        /\ \A i \in (F + 1)..k : c.rows[g[i]] = PagePrefix(S, i)
    <3>1. IsFold(c, a, S, F, k, g)
      BY <2>1, <1>FoldSegment, Zenon
    <3> QED BY <3>1, Zenon DEF IsFold
  <2>4. PICK z, t : z = 0 /\ t = TRUE /\ z \in Nat /\ t \in BOOLEAN
    BY Zenon
  <2>5. node = [start |-> F, pages |-> g, ref |-> z, computed |-> t]
    BY <2>1, <2>4, Zenon DEF FoldNode
  <2>6. MayInsert(c, p, node)
    <3>1. Anchored(c, PagePrefix(S, F))
      BY <2>2, Zenon
    <3>2. t => \A i \in (F + 1)..k : c.rows[g[i]] = PagePrefix(S, i)
      BY <2>3, Zenon
    <3>3. MayInsert(c, PagePrefix(S, k), node)
      BY ONLY <2>2, <2>3, <2>4, <2>5, <3>1, <3>2, StageFits, Holder(c.nodes, PagePrefix(S, F + 1)) = {}, Zenon
    <3> QED BY <2>1, <3>3, Zenon
  <2>7. node.ref = 0 /\ node.computed /\ node.pages = g
    BY ONLY <2>4, <2>5
  <2>8. IsInsertion(c, p, node, d)
    <3>1. IsCache(c)
      BY Zenon DEF CacheOK
    <3> QED BY <2>1, <2>2, <3>1, <1>FoldedShape, Zenon
  <2>9. PICK PM : PM = With(PR, r, T)
    OBVIOUS
  <2>10. Drops(PR, PM, r, Range(node.pages))
    <3>1. \A X, U, Y : U \subseteq X /\ Y = X \ U => Drops(With(PR, r, X), With(PR, r, Y), r, U)
      BY WithChanges, Zenon
    <3>2. Range(node.pages) \subseteq PrivatePages(a) /\ T = PrivatePages(a) \ Range(node.pages)
      BY <2>3, <2>7, Zenon
    <3>3. Drops(With(PR, r, PrivatePages(a)), With(PR, r, T), r, Range(node.pages))
      BY <3>1, <3>2, Zenon
    <3> QED BY <2>9, <3>3, Zenon
  <2>11. /\ CacheOK(d, RL, SL, PM, PF)
         /\ \A h, P : h = Root \/ h \in DOMAIN c.nodes => Keeps(c, d, h, P)
    BY ONLY LibraryFacts, <2>6, <2>7, <2>8, <2>10, <1>InsertFreeOK, CacheOK(c, RL, SL, PR, PF), Zenon
  <2> QED BY <2>9, <2>11, Zenon DEF FoldDone
<1> SUFFICES
  ASSUME LibraryFacts, RadixInv, NEW r \in Requests, CommitAndRelease(r)
  PROVE  RadixInv'
  OBVIOUS
<1>1. PICK a, S, F : a = alloc[r] /\ S = Sequence(a) /\ F = FullPages(a.tokens)
  BY Zenon
<1>2. PICK k : k = CommittedPages(cache, a)
  OBVIOUS
<1>3. PICK d : d = IF k > F THEN Folded(cache, a, k) ELSE cache
  OBVIOUS
<1>4. PICK T : T = PrivatePages(a) \ {a.table[i] : i \in (F + 1)..k}
  BY Zenon
<1>5. /\ alloc[r] # None /\ a.out # <<>> /\ alloc' = [alloc EXCEPT ![r] = None] /\ pins' = pins
      /\ cache' = PoolFree(UnlockPath(MarkComputed(d, a), a.node), T)
  BY <1>1, <1>2, <1>3, <1>4, Zenon DEF CommitAndRelease
<1>6. PICK RL, SL, PR, PF, h, e :
         /\ RL = RequestLocks /\ SL = SessionLocks /\ PR = RequestPages /\ PF = Prefills
         /\ h = a.node /\ e = cache'
  BY Zenon
<1>7. /\ a \in Allocation /\ AllocOK(cache, a) /\ RL = With(RL, r, {h})
      /\ PR = With(PR, r, PrivatePages(a)) /\ (h = Root \/ h \in DOMAIN cache.nodes)
  <2>1. /\ a \in Allocation /\ AllocOK(cache, a) /\ RL = With(RL, r, LockOf(a))
        /\ PR = With(PR, r, OwnOf(a)) /\ LockOf(a) = {a.node} /\ OwnOf(a) = PrivatePages(a)
        /\ (h = Root \/ h \in DOMAIN cache.nodes)
    BY <1>1, <1>5, <1>6, OwnView, Zenon
  <2> QED BY <1>6, <2>1, Zenon
<1>8. CacheOK(cache, RL, SL, PR, PF)
  BY <1>6, InvView, Zenon
<1>9. AllocShape(a) /\ NodeNow(cache, a)
  BY <1>7, TreeParts, Zenon DEF AllocOK
<1>10. Anchored(cache, h)
  BY <1>5, <1>6, <1>7, <1>9, Zenon DEF NodeNow, Anchored
<1>11. FoldDone(cache, d, a, r, RL, SL, PR, PF, T)
  <2>1. CASE k > F
    <3>1. /\ a.inserted /\ k = WrittenLen(a) \div PageSize /\ WrittenLen(a) \div PageSize > F
          /\ Holder(cache.nodes, PagePrefix(S, F + 1)) = {}
      <4>1. F \in Nat
        BY <1>1, <1>7, <1>9, AllocSizes, Zenon
      <4>2. k # F
        BY <2>1, <4>1
      <4> QED BY <1>1, <1>2, <4>2, Zenon DEF CommittedPages
    <3>2. F < k
      <4>1. F \in Nat
        BY <1>1, <1>7, <1>9, AllocSizes, Zenon
      <4> QED BY <2>1
    <3>3. FoldReady(cache, a, S, F, k)
      BY <1>1, <1>5, <1>7, <3>1, <3>2, <1>FoldFacts, Zenon
    <3>4. d = Folded(cache, a, k) /\ Anchored(cache, a.node)
      BY <1>3, <1>6, <1>10, <2>1, Zenon
    <3> QED BY ONLY LibraryFacts, <1>1, <1>4, <1>7, <1>8, <1>9, <3>1, <3>3, <3>4, <1>FoldOK, r \in Requests, ZenonT(30)
  <2>2. CASE ~(k > F)
    <3>1. d = cache
      BY <1>3, <2>2, Zenon
    <3>2. T = PrivatePages(a)
      <4>1. F \in Nat
        BY <1>1, <1>7, <1>9, AllocSizes, Zenon
      <4>2. k = F
        <5>1. k = F \/ (WrittenLen(a) \div PageSize > F /\ k = WrittenLen(a) \div PageSize)
          BY <1>1, <1>2, Zenon DEF CommittedPages
        <5> QED BY <2>2, <5>1
      <4>3. (F + 1)..k = {}
        BY <4>1, <4>2
      <4> QED BY <1>4, <4>3, Zenon
    <3>3. \A g, P : Keeps(cache, d, g, P)
      BY <3>1, KeepsRefl, Zenon
    <3> QED BY <1>7, <1>8, <3>1, <3>2, <3>3, Zenon DEF FoldDone
  <2> QED BY <2>1, <2>2
<1>12. /\ CacheOK(d, RL, SL, With(PR, r, T), PF)
       /\ \A g, P : g = Root \/ g \in DOMAIN cache.nodes => Keeps(cache, d, g, P)
  BY <1>11, Zenon DEF FoldDone
<1>13. Anchored(d, h)
  <2>1. Keeps(cache, d, h, {})
    BY <1>7, <1>12, Zenon
  <2> QED BY <1>10, <2>1, KeepsAnchored, Zenon
<1>14. MarkComputed(d, a) = d
  <2>1. CASE OwnNode(a)
    <3>1. h # Root
      <4>1. PrivateFrom(a) = F /\ F # 0
        <5>1. a.inserted /\ a.matched < F /\ a.matched \in Nat /\ F \in Nat
          BY <1>1, <1>7, <1>9, <2>1, AllocSizes, Zenon DEF OwnNode
        <5>2. F # 0
          BY ONLY <5>1
        <5> QED BY <1>1, <5>1, <5>2, Zenon DEF PrivateFrom
      <4>2. h \in Paths /\ FullPages(h) = F
        BY <1>6, <1>7, <1>9, <4>1, AllocNode, Zenon
      <4> QED BY <4>1, <4>2, RootPath, Zenon
    <3> QED BY <1>6, <1>13, <3>1, Zenon DEF MarkComputed, Anchored
  <2>2. CASE ~OwnNode(a)
    BY <2>2, Zenon DEF MarkComputed, OwnNode
  <2> QED BY <2>1, <2>2
<1>15. e = PoolFree(UnlockPath(d, h), T)
  BY <1>5, <1>6, <1>14, Zenon
<1>16. Ended(d, e, r, RL, SL, PR, PF)
  BY <1>7, <1>12, <1>13, <1>15, ReleaseOK, Zenon
<1>17. Steady(cache, d, r, RL, PR)
  <2>1. Locked(cache.nodes, RL, SL)
    BY <1>8, Zenon DEF CacheOK
  <2> QED BY <1>12, <2>1, Zenon DEF Steady, Locked
<1>18. Ended(cache, e, r, RL, SL, PR, PF)
  BY <1>16, <1>17, SteadyTrans, Zenon DEF Ended
<1> QED BY <1>5, <1>6, <1>18, EndStep, Zenon

\* release_preempted: the uncomputed node leaves the tree, the lock and the pages go back.
LEMMA PreemptStep ==
  \A r :
      /\ LibraryFacts /\ RadixInv /\ r \in Requests /\ ReleasePreempted(r)
    =>   RadixInv'
\* Unlocking, when the node locked may still be prefilling.
<1>UnlockCore.
  ASSUME LibraryFacts, NEW c, NEW RL, NEW SL, NEW PR, NEW PF, CacheOK(c, RL, SL, PR, PF),
         NEW r, NEW h, NEW RM, AddsLock(Requests, RM, RL, r, h), NEW d, d = UnlockPath(c, h)
  PROVE  /\ CoreOK(d, RM, SL, PR) /\ IsUnlocked(c, h, d)
         /\ \A g, P : Keeps(c, d, g, P)
  <2> USE <1>UnlockCore
  <2>1. /\ IsCache(c) /\ Tree(c.nodes) /\ Stamps(c) /\ Locked(c.nodes, RL, SL) /\ Owned(c, PR)
        /\ Announced(c) /\ Written(c)
    BY Zenon DEF CacheOK
  <2>2. IsFiniteSet(Requests) /\ IsFiniteSet(Sessions)
    BY RadixAssumption
  <2>3. ASSUME NEW q \in DOMAIN c.nodes
        PROVE  /\ c.nodes[q].ref = Cardinality(Lockers(Requests, RL, q))
                                   + Cardinality(Lockers(Sessions, SL, q))
               /\ OnPath(q, h) => Cardinality(Lockers(Requests, RL, q))
                                      = Cardinality(Lockers(Requests, RM, q)) + 1
               /\ ~OnPath(q, h) => Cardinality(Lockers(Requests, RL, q))
                                       = Cardinality(Lockers(Requests, RM, q))
               /\ Cardinality(Lockers(Requests, RM, q)) \in Nat
               /\ Cardinality(Lockers(Sessions, SL, q)) \in Nat
    <3>1. /\ OnPath(q, h) => Cardinality(Lockers(Requests, RL, q))
                                 = Cardinality(Lockers(Requests, RM, q)) + 1
          /\ ~OnPath(q, h) => Lockers(Requests, RL, q) = Lockers(Requests, RM, q)
      BY <2>2, LockersAdd
    <3> QED BY <2>1, <2>2, <3>1, LockersFinite, Zenon DEF Locked
  <2>4. \A q \in DOMAIN c.nodes : OnPath(q, h) => c.nodes[q].ref # 0
    BY <2>3
  <2>4a. IsUnlocked(c, h, d)
    BY <2>1, <2>4, UnlockShape, Zenon
  <2>5. /\ IsCache(d) /\ d.free = c.free /\ d.older = c.older
        /\ d.told = c.told /\ d.lost = c.lost /\ d.rows = c.rows
        /\ SameShape(c.nodes, d.nodes)
        /\ \A q \in DOMAIN c.nodes :
               /\ OnPath(q, h) => d.nodes[q].ref = c.nodes[q].ref - 1
               /\ ~OnPath(q, h) => d.nodes[q].ref = c.nodes[q].ref
    BY <2>4a, Zenon DEF IsUnlocked
  <2>6. /\ DOMAIN d.nodes = DOMAIN c.nodes
        /\ \A q \in DOMAIN c.nodes :
               d.nodes[q].computed = c.nodes[q].computed /\ d.nodes[q].start = c.nodes[q].start
    BY <2>5, Zenon DEF SameShape
  <2>7. Locked(d.nodes, RM, SL)
    <3>1. ASSUME NEW q \in DOMAIN d.nodes
          PROVE  d.nodes[q].ref = Cardinality(Lockers(Requests, RM, q))
                                  + Cardinality(Lockers(Sessions, SL, q))
      <4>1. q \in DOMAIN c.nodes
        BY <2>6
      <4>2. /\ OnPath(q, h) => d.nodes[q].ref = c.nodes[q].ref - 1
            /\ ~OnPath(q, h) => d.nodes[q].ref = c.nodes[q].ref
        BY <2>5, <4>1, Zenon
      <4> QED BY ONLY <2>3, <4>1, <4>2
    <3>2. /\ \A o \in Requests : RM[o] \subseteq (DOMAIN d.nodes) \cup {Root}
          /\ \A x \in Sessions : SL[x] \subseteq (DOMAIN d.nodes) \cup {Root}
      BY <2>1, <2>6, Zenon DEF Locked, AddsLock
    <3> QED BY <3>1, <3>2, Zenon DEF Locked
  <2>8. /\ Tree(d.nodes) /\ SameView(c.nodes, d.nodes)
        /\ \A x : Holder(d.nodes, x) = Holder(c.nodes, x)
    BY <2>1, <2>5, ShapeTree, Zenon
  <2>9. Owned(d, PR) /\ Announced(d) /\ Written(d)
    BY <2>1, <2>5, <2>8, ViewKeeps, Zenon
  <2>10. Stamps(d)
    BY <2>1, <2>5, <2>6, Zenon DEF Stamps
  <2>11. ASSUME NEW g, NEW P PROVE Keeps(c, d, g, P)
    BY <2>5, <2>6, <2>8, Zenon DEF Keeps, SameView
  <2> QED BY <2>5, <2>7, <2>8, <2>9, <2>10, <2>11, Zenon DEF CoreOK, IsUnlocked
\* The prefixes of a node that is being prefilled were never announced.
<1>UncomputedUntold.
  ASSUME NEW c, Tree(c.nodes), Announced(c), NEW h \in DOMAIN c.nodes, ~c.nodes[h].computed
  PROVE  c.told \cap SegmentPrefixes(c.nodes, h) = {}
  <2> USE <1>UncomputedUntold
  <2> SUFFICES ASSUME NEW x \in c.told, x \in SegmentPrefixes(c.nodes, h) PROVE FALSE
    BY Zenon
  <2>1. PICK q \in Holder(c.nodes, x) : c.nodes[q].computed
    BY AnnouncedX, Zenon DEF Matches
  <2>2. h \in Holder(c.nodes, x)
    BY Zenon DEF Holder
  <2>3. q = h
    BY <2>1, <2>2, HolderUnique, Zenon
  <2> QED BY <2>1, <2>3, Zenon
\* The node that a preempted request never finished leaves the tree.
<1>AbandonOK.
  ASSUME LibraryFacts,
         NEW c, NEW RL, NEW SL, NEW PR, NEW PF, CacheOK(c, RL, SL, PR, PF), NEW r \in Requests,
         NEW h \in DOMAIN c.nodes, ~c.nodes[h].computed, RL = With(RL, r, {h}),
         NEW RM, RM = With(RL, r, {}), NEW d, d = RemoveNodes(UnlockPath(c, h), {h})
  PROVE  CacheOK(d, RM, SL, PR, PF) /\ Steady(c, d, r, RL, PR)
  <2> USE <1>AbandonOK
  <2>1. PICK u, V : u = UnlockPath(c, h) /\ V = {h}
    BY Zenon
  <2>2. AddsLock(Requests, RM, RL, r, h)
    <3>1. AddsLock(Requests, With(RL, r, {}), With(RL, r, {h}), r, h)
      BY WithChanges, Zenon
    <3> QED BY <3>1, Zenon
  <2>3. CoreOK(u, RM, SL, PR) /\ IsUnlocked(c, h, u) /\ \A g, P : Keeps(c, u, g, P)
    BY ONLY LibraryFacts, <2>1, <2>2, <1>UnlockCore, CacheOK(c, RL, SL, PR, PF)
  <2>4. /\ Tree(c.nodes) /\ Prefilling(c.nodes, RL, PF)
    BY Zenon DEF CacheOK
  <2>5. Children(c.nodes, h) = {} /\ c.nodes[h].ref = 1
    BY <2>4, Zenon DEF Prefilling
  <2>6. /\ DOMAIN u.nodes = DOMAIN c.nodes
        /\ \A q \in DOMAIN c.nodes : /\ u.nodes[q].computed = c.nodes[q].computed
                                     /\ u.nodes[q].start = c.nodes[q].start
        /\ \A q \in DOMAIN c.nodes : ~OnPath(q, h) => u.nodes[q].ref = c.nodes[q].ref
    BY <2>3, Zenon DEF IsUnlocked, SameShape
  <2>7. u.nodes[h].ref = 0
    <3>1. OnPath(h, h)
      BY <2>4, TreeNode, OnPathRefl, Zenon
    <3>2. u.nodes[h].ref = c.nodes[h].ref - 1
      BY <2>3, <3>1, Zenon DEF IsUnlocked
    <3> QED BY <2>5, <3>2
  <2>8. \A q : Children(u.nodes, q) = Children(c.nodes, q)
    BY <2>6, Zenon DEF Children
  <2>9. Unused(u.nodes, V)
    BY <2>1, <2>5, <2>6, <2>7, <2>8, Zenon DEF Unused
  <2>10. IsRemoved(u, V, d)
    BY <2>1, <2>3, RemovedShape, Zenon DEF CoreOK
  <2>11. IsRemoval(u, V, d)
    <3>1. u.told = u.told \ UNION {SegmentPrefixes(u.nodes, q) : q \in V}
      <4>1. Tree(u.nodes) /\ Announced(u) /\ h \in DOMAIN u.nodes /\ ~u.nodes[h].computed
        BY <2>3, <2>6, Zenon DEF CoreOK
      <4>2. u.told \cap SegmentPrefixes(u.nodes, h) = {}
        BY <4>1, <1>UncomputedUntold, Zenon
      <4> QED BY <2>1, <4>2, Zenon
    <3> QED BY <2>10, <3>1, Zenon DEF IsRemoved, IsRemoval
  <2>12. CoreOK(d, RM, SL, PR) /\ Safe(u, d, RM, PR)
    BY <2>3, <2>9, <2>11, RemovalOK, Zenon
  <2>13. /\ DOMAIN d.nodes = DOMAIN c.nodes \ {h}
         /\ \A q \in DOMAIN d.nodes : d.nodes[q] = u.nodes[q]
    BY <2>1, <2>6, <2>11, Zenon DEF IsRemoval, IsRemove
  <2>14. \A o \in Requests : o # r => RM[o] = RL[o]
    BY Zenon DEF With
  <2>15. Prefilling(d.nodes, RM, PF)
    <3> SUFFICES ASSUME NEW q \in DOMAIN d.nodes, ~d.nodes[q].computed
                 PROVE  /\ Children(d.nodes, q) = {} /\ d.nodes[q].ref = 1
                        /\ \E o \in Requests : q \in RM[o] /\ <<q, d.nodes[q].start>> \in PF[o]
      BY Zenon DEF Prefilling
    <3>1. /\ q \in DOMAIN c.nodes /\ q # h /\ ~c.nodes[q].computed
          /\ d.nodes[q].start = c.nodes[q].start /\ d.nodes[q].ref = u.nodes[q].ref
      BY <2>6, <2>13, Zenon
    <3>2. /\ Children(c.nodes, q) = {} /\ c.nodes[q].ref = 1
          /\ \E o \in Requests : q \in RL[o] /\ <<q, c.nodes[q].start>> \in PF[o]
      BY <2>4, <3>1, Zenon DEF Prefilling
    <3>3. ~OnPath(q, h)
      BY <3>1, <3>2, Zenon DEF Children
    <3>4. d.nodes[q].ref = 1
      BY <2>6, <3>1, <3>2, <3>3, Zenon
    <3>5. Children(d.nodes, q) = {}
      BY <2>13, <3>2, Zenon DEF Children
    <3>6. RL[r] = {h}
      <4>1. With(RL, r, {h})[r] = {h}
        BY Zenon DEF With
      <4> QED BY <4>1, Zenon
    <3>7. PICK o \in Requests : q \in RL[o] /\ <<q, c.nodes[q].start>> \in PF[o]
      BY <3>2
    <3>8. q \in RM[o]
      BY <2>14, <3>1, <3>6, <3>7, Zenon
    <3> QED BY <3>1, <3>4, <3>5, <3>7, <3>8, Zenon
  <2>16. CacheOK(d, RM, SL, PR, PF)
    BY <2>12, <2>15, Zenon DEF CacheOK, CoreOK
  <2>17. Steady(c, d, r, RL, PR)
    <3>1. Steady(c, u, r, RL, PR)
      BY <2>3, KeepsSteady, Zenon
    <3>2. Steady(u, d, r, RL, PR)
      BY <2>12, <2>14, Zenon DEF Safe, Steady
    <3> QED BY <3>1, <3>2, SteadyTrans, Zenon
  <2> QED BY <2>16, <2>17
<1> SUFFICES
  ASSUME LibraryFacts, RadixInv, NEW r \in Requests, ReleasePreempted(r)
  PROVE  RadixInv'
  OBVIOUS
<1>1. PICK a : a = alloc[r]
  OBVIOUS
<1>2. PICK h, T : h = a.node /\ T = PrivatePages(a)
  BY Zenon
<1>3. PICK d : d = IF OwnNode(a) /\ ~cache.nodes[h].computed
                   THEN RemoveNodes(UnlockPath(cache, h), {h}) ELSE UnlockPath(cache, h)
  OBVIOUS
<1>4. /\ alloc[r] # None /\ alloc' = [alloc EXCEPT ![r] = None] /\ pins' = pins
      /\ cache' = PoolFree(d, T)
  <2>1. /\ alloc[r] # None /\ alloc' = [alloc EXCEPT ![r] = None] /\ pins' = pins
    BY Zenon DEF ReleasePreempted
  <2>2. cache' = PoolFree(IF /\ a.matched < FullPages(a.tokens) /\ a.inserted
                             /\ ~cache.nodes[h].computed
                          THEN RemoveNodes(UnlockPath(cache, h), {h})
                          ELSE UnlockPath(cache, h), T)
    BY <1>1, <1>2, Zenon DEF ReleasePreempted
  <2> QED BY <1>3, <2>1, <2>2, Zenon DEF OwnNode
<1>5. PICK RL, SL, PR, PF, e :
         /\ RL = RequestLocks /\ SL = SessionLocks /\ PR = RequestPages /\ PF = Prefills
         /\ e = cache'
  BY Zenon
<1>6. /\ a \in Allocation /\ AllocOK(cache, a) /\ RL = With(RL, r, {h})
      /\ PR = With(PR, r, T) /\ (h = Root \/ h \in DOMAIN cache.nodes)
  <2>1. /\ a \in Allocation /\ AllocOK(cache, a) /\ RL = With(RL, r, LockOf(a))
        /\ PR = With(PR, r, OwnOf(a)) /\ LockOf(a) = {a.node} /\ OwnOf(a) = PrivatePages(a)
        /\ (h = Root \/ h \in DOMAIN cache.nodes)
    BY <1>1, <1>2, <1>4, <1>5, OwnView, Zenon
  <2> QED BY <1>2, <2>1, Zenon
<1>7. CacheOK(cache, RL, SL, PR, PF)
  BY <1>5, InvView, Zenon
<1>8. AllocShape(a) /\ NodeNow(cache, a)
  BY <1>6, TreeParts, Zenon DEF AllocOK
<1>9. a.matched \in 0..FullPages(a.tokens) /\ FullPages(a.tokens) \in Nat
  BY <1>6, <1>8, AllocNode, Zenon DEF AllocShape
<1>10. CASE OwnNode(a) /\ ~cache.nodes[h].computed
  <2>1. h # Root
    <3>1. PrivateFrom(a) # 0
      <4>1. PrivateFrom(a) = FullPages(a.tokens) /\ a.matched < FullPages(a.tokens)
        BY <1>10, Zenon DEF OwnNode, PrivateFrom
      <4> QED BY <1>9, <4>1
    <3>2. h \in Paths /\ FullPages(h) = PrivateFrom(a)
      BY <1>2, <1>6, <1>8, AllocNode, Zenon
    <3> QED BY <3>1, <3>2, RootPath, Zenon
  <2>2. h \in DOMAIN cache.nodes
    BY <1>6, <2>1, Zenon
  <2>3. PICK RM : RM = With(RL, r, {})
    OBVIOUS
  <2>4. d = RemoveNodes(UnlockPath(cache, h), {h}) /\ ~cache.nodes[h].computed
    BY <1>3, <1>10, Zenon
  <2>5. CacheOK(d, RM, SL, PR, PF) /\ Steady(cache, d, r, RL, PR)
    BY ONLY LibraryFacts, <1>6, <1>7, <2>2, <2>3, <2>4, <1>AbandonOK, r \in Requests
  <2>6. Ended(d, e, r, RL, SL, PR, PF)
    BY <1>4, <1>5, <1>6, <2>3, <2>5, EndPages, Zenon
  <2>7. Ended(cache, e, r, RL, SL, PR, PF)
    BY <2>5, <2>6, SteadyTrans, Zenon DEF Ended
  <2> QED BY <1>4, <1>5, <2>7, EndStep, Zenon
<1>11. CASE ~(OwnNode(a) /\ ~cache.nodes[h].computed)
  <2>1. Anchored(cache, h)
    <3>1. CASE OwnNode(a)
      BY <1>6, <1>11, <3>1, Zenon DEF Anchored
    <3>2. CASE ~OwnNode(a)
      <4>1. ~a.inserted \/ a.matched = FullPages(a.tokens)
        BY <1>9, <3>2 DEF OwnNode
      <4> QED BY <1>2, <1>6, <1>8, <4>1, Zenon DEF Anchored, NodeNow
    <3> QED BY <3>1, <3>2
  <2>2. e = PoolFree(UnlockPath(cache, h), T)
    BY <1>3, <1>4, <1>5, <1>11, Zenon
  <2>3. Ended(cache, e, r, RL, SL, PR, PF)
    BY <1>6, <1>7, <2>1, <2>2, ReleaseOK, Zenon
  <2> QED BY <1>4, <1>5, <2>3, EndStep, Zenon
<1> QED BY <1>10, <1>11
=============================================================================
