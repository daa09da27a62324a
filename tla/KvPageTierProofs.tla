-------------------------- MODULE KvPageTierProofs --------------------------
(***************************************************************************)
(* Proofs about the pinned host page tier, for any number of keys, slots,  *)
(* device pages and transfer handles: the initial state, what the invariant *)
(* says about two handles or a handle and a published entry, one lemma per *)
(* step of the tier, and the theorems.                                     *)
(***************************************************************************)
EXTENDS KvPageTier, TLAPS

\* The initial tier is empty and satisfies the invariant.
LEMMA InitTier == Init => TierInv
<1> SUFFICES ASSUME Init PROVE TierInv
  OBVIOUS
<1>1. TypeOK
  BY TierAssumption, ZenonT(60) DEF Init, TypeOK, EntryRef, NoEntry
<1>2. \A t \in Transfers : KeysOf(t) = {}
  BY ZenonT(60) DEF Init, KeysOf
<1>3. HandleInv
  BY <1>2, ZenonT(60) DEF Init, HandleInv
<1>4. DisjointInv /\ RetentionInv /\ ResidentHoldsItsKey
  BY <1>2, ZenonT(60) DEF Init, DisjointInv, RetentionInv, ResidentHoldsItsKey, Resident
<1> QED
  BY <1>1, <1>3, <1>4, ZenonT(60) DEF TierInv

----------------------------------------------------------------------------
(* Handles, and handles and published entries.                             *)

\* The slot an active handle targets is no other handle's target and is
\* published, if at all, under the handle's own key.
LEMMA ActiveApart ==
    ASSUME TierInv, NEW t \in Transfers, phase[t] = "active", NEW j \in KeysOf(t)
    PROVE  /\ j \in Keys /\ Target(t, j) \in Slots /\ page[t][j] \in DevicePages
           /\ ActiveKey(t, j)
           /\ \A k \in Keys : published[k] = Target(t, j) => k = j
           /\ \A u \in Transfers : \A k \in KeysOf(u) :
                  /\ phase[u] = "active" /\ Target(u, k) = Target(t, j)
                         => u = t /\ k = j
                  /\ running[u] /\ phase[u] # "active"
                         => Target(u, k) # Target(t, j) /\ page[u][k] # page[t][j]
                  /\ phase[u] = "active" /\ page[u][k] = page[t][j]
                         => u = t /\ k = j
<1>1. j \in Keys /\ page[t][j] \in DevicePages
  BY DEF KeysOf, TierInv, TypeOK
<1>2. ActiveKey(t, j)
  BY ZenonT(60) DEF TierInv, HandleInv
<1>3. Target(t, j) \in Slots /\ Target(t, j) \notin quarantined /\ Owns(t, j)
      /\ owner[page[t][j]] = t
  BY <1>2, ZenonT(60) DEF ActiveKey
<1>4. \A k \in Keys : published[k] = Target(t, j) => k = j
  BY <1>3, TierAssumption, ZenonT(60) DEF TierInv, TypeOK, Owns
<1>5. ASSUME NEW u \in Transfers, NEW k \in KeysOf(u), phase[u] = "active",
             Target(u, k) = Target(t, j)
      PROVE  u = t /\ k = j
  <2>1. k \in Keys /\ ActiveKey(u, k)
    BY <1>5, ZenonT(60) DEF KeysOf, TierInv, HandleInv
  <2>2. k = j
    BY <2>1, <1>3, <1>5, ZenonT(60) DEF ActiveKey, Owns
  <2> QED
    BY <2>1, <2>2, <1>1, <1>5, ZenonT(60) DEF TierInv, DisjointInv
<1>6. ASSUME NEW u \in Transfers, NEW k \in KeysOf(u), running[u],
             phase[u] # "active"
      PROVE  Target(u, k) # Target(t, j) /\ page[u][k] # page[t][j]
  <2>1. Target(u, k) \in quarantined /\ page[u][k] \in quarantinedPages
    BY <1>6, ZenonT(60) DEF TierInv, HandleInv, StrayKey
  <2> QED
    BY <2>1, <1>1, <1>3, TierAssumption, ZenonT(60) DEF TierInv, RetentionInv
<1>7. ASSUME NEW u \in Transfers, NEW k \in KeysOf(u), phase[u] = "active",
             page[u][k] = page[t][j]
      PROVE  u = t /\ k = j
  <2>1. ActiveKey(u, k)
    BY <1>7, ZenonT(60) DEF TierInv, HandleInv
  <2>2. u = t
    BY <2>1, <1>3, <1>7, ZenonT(60) DEF ActiveKey
  <2> QED
    BY <2>2, <1>7, ZenonT(60) DEF TierInv, HandleInv
<1> QED
  BY <1>1, <1>2, <1>3, <1>4, <1>5, <1>6, <1>7, ZenonT(60)

\* A stray copy's target is quarantined, hence published under no key.
LEMMA StrayApart ==
    ASSUME TierInv, NEW t \in Transfers, running[t], phase[t] # "active",
           NEW j \in KeysOf(t)
    PROVE  /\ j \in Keys /\ Target(t, j) \in Slots /\ page[t][j] \in DevicePages
           /\ StrayKey(t, j) /\ slots[Target(t, j)] # None
           /\ \A k \in Keys : published[k] # Target(t, j)
           /\ owner[page[t][j]] = None
<1>1. j \in Keys /\ page[t][j] \in DevicePages
  BY DEF KeysOf, TierInv, TypeOK
<1>2. StrayKey(t, j)
  BY ZenonT(60) DEF TierInv, HandleInv
<1>3. Target(t, j) \in quarantined /\ Target(t, j) \in Slots
      /\ page[t][j] \in quarantinedPages
  BY <1>2, ZenonT(60) DEF StrayKey, TierInv, TypeOK
<1>4. \A k \in Keys : published[k] # Target(t, j)
  BY <1>3, TierAssumption, ZenonT(60) DEF TierInv, RetentionInv
<1> QED
  BY <1>1, <1>2, <1>3, <1>4, ZenonT(60) DEF TierInv, RetentionInv

\* Two keys are never published under the same slot.
LEMMA PublishedApart ==
    ASSUME TierInv, NEW j \in Keys, NEW k \in Keys, published[j] # None,
           published[j] = published[k]
    PROVE  j = k
BY ZenonT(60) DEF TierInv, TypeOK

\* A step that touches nothing key j of active handle t depends on.
LEMMA ActiveFrame ==
    ASSUME NEW t, NEW j, ActiveKey(t, j),
           slots'[Target(t, j)] = slots[Target(t, j)],
           Target(t, j) \notin quarantined', j \in inFlight',
           owner'[page[t][j]] = t, published'[j] = published[j],
           slots'[published[j]] = slots[published[j]],
           host'[Target(t, j)] = host[Target(t, j)],
           device'[page[t][j]] = device[page[t][j]],
           offload'[t] = offload[t], entry'[t] = entry[t], old'[t] = old[t],
           page'[t] = page[t], running'[t] = running[t]
    PROVE  ActiveKey(t, j)'
BY DEF ActiveKey, Target, Owns, Resident

\* The same for a stray copy.
LEMMA StrayFrame ==
    ASSUME NEW t, NEW j, StrayKey(t, j),
           slots'[Target(t, j)] = slots[Target(t, j)],
           Target(t, j) \in quarantined', page[t][j] \in quarantinedPages',
           entry'[t] = entry[t], page'[t] = page[t]
    PROVE  StrayKey(t, j)'
BY ZenonT(60) DEF StrayKey, Target, Owns

\* A handle whose record does not change keeps its part of the invariant when
\* each of its keys does.
LEMMA HandleFrame ==
    ASSUME TierInv, NEW t \in Transfers,
           phase'[t] = phase[t], page'[t] = page[t],
           phase[t] = "idle" => ~running'[t],
           phase[t] = "active" => \A j \in KeysOf(t) : ActiveKey(t, j)',
           running'[t] /\ phase[t] # "active" => \A j \in KeysOf(t) : StrayKey(t, j)'
    PROVE  /\ phase'[t] = "idle" => ~running'[t] /\ KeysOf(t)' = {}
           /\ phase'[t] = "active" => \A k \in KeysOf(t)' : ActiveKey(t, k)'
           /\ running'[t] /\ phase'[t] # "active" => \A k \in KeysOf(t)' : StrayKey(t, k)'
           /\ \A j, k \in KeysOf(t)' : page'[t][j] = page'[t][k] => j = k
<1>1. KeysOf(t)' = KeysOf(t)
  BY ZenonT(60) DEF KeysOf
<1> QED
  BY <1>1, ZenonT(60) DEF TierInv, HandleInv

\* The entry published under an active handle's key is its target or, while
\* it is being replaced, a resident one.
LEMMA ActivePublished ==
    ASSUME TierInv, NEW t \in Transfers, phase[t] = "active", NEW j \in KeysOf(t)
    PROVE  /\ published[j] \in Slots /\ slots[published[j]] # None
           /\ slots[published[j]].key = j
<1>1. ActiveKey(t, j) /\ j \in Keys /\ Target(t, j) \in Slots
  BY ActiveApart, ZenonT(60)
<1>2. published[j] # None
  BY <1>1, TierAssumption DEF ActiveKey, TierInv, TypeOK
<1> QED
  BY <1>1, <1>2, ZenonT(60) DEF TierInv, TypeOK

----------------------------------------------------------------------------
(* Steps that start or end no transfer.                                    *)

\* Dropping a resident key that no handle works on keeps the invariant.
LEMMA DiscardInv ==
    ASSUME NEW k \in Keys, TierInv, Discard(k)
    PROVE  TierInv'
<1>0. TypeOK /\ RetentionInv /\ ResidentHoldsItsKey
  BY ZenonT(60) DEF TierInv
<1>1. published[k] \in Slots /\ published[k] \notin quarantined /\ k \notin inFlight
  BY <1>0 DEF Discard, Resident, TypeOK, RetentionInv
<1>2. \A j \in Keys \ {k} : /\ published'[j] = published[j]
                            /\ published[j] # None => published[j] # published[k]
  BY <1>0, <1>1, TierAssumption, ZenonT(60) DEF Discard, TypeOK
<1>3. published'[k] = None /\ \A s \in Slots \ {published[k]} : slots'[s] = slots[s]
  BY <1>0, ZenonT(60) DEF Discard, TypeOK
<1>4. TypeOK'
  <2>1. \A j \in Keys : published'[j] # None =>
            slots'[published'[j]] # None /\ slots'[published'[j]].key = j
    BY <1>0, <1>2, <1>3, SMTT(60) DEF TypeOK
  <2> QED
    BY <2>1, <1>0, <1>1, ZenonT(60) DEF TypeOK, Discard, handleVars
<1>5. ASSUME NEW t \in Transfers, phase[t] = "active", NEW j \in KeysOf(t)
      PROVE  ActiveKey(t, j)'
  <2>1. /\ j \in Keys /\ Target(t, j) \in Slots /\ ActiveKey(t, j)
        /\ published[j] \in Slots
    BY <1>5, ActiveApart, ActivePublished, ZenonT(60)
  <2>2. j # k /\ Target(t, j) # published[k]
    BY <2>1, <1>1, <1>5, ActiveApart DEF ActiveKey
  <2>3. published[j] # published[k]
    BY <2>1, <2>2, <1>2, TierAssumption, ZenonT(60)
  <2>4. /\ slots'[Target(t, j)] = slots[Target(t, j)] /\ published'[j] = published[j]
        /\ slots'[published[j]] = slots[published[j]]
    BY <2>1, <2>2, <2>3, <1>2, <1>3, ZenonT(60)
  <2>5. Target(t, j) \notin quarantined /\ j \in inFlight /\ owner[page[t][j]] = t
    BY <2>1, ZenonT(60) DEF ActiveKey
  <2> QED
    BY <2>1, <2>4, <2>5, ActiveFrame, ZenonT(60) DEF Discard, handleVars
<1>6. ASSUME NEW t \in Transfers, running[t], phase[t] # "active", NEW j \in KeysOf(t)
      PROVE  StrayKey(t, j)'
  <2>1. StrayKey(t, j) /\ Target(t, j) \in Slots /\ Target(t, j) # published[k]
    BY <1>6, StrayApart, ZenonT(60)
  <2> QED
    BY <2>1, <1>3, StrayFrame, ZenonT(60) DEF Discard, handleVars, StrayKey
<1>7. HandleInv'
  BY <1>5, <1>6, HandleFrame, ZenonT(60) DEF HandleInv, TierInv, Discard, handleVars
<1>8. DisjointInv'
  BY ZenonT(60) DEF TierInv, DisjointInv, Discard, handleVars, KeysOf
<1>9. RetentionInv'
  <2>1. \A s \in quarantined' : slots'[s] # None
    BY <1>0, <1>1, <1>3, ZenonT(60) DEF RetentionInv, Discard, TypeOK
  <2>2. \A j \in Keys : published'[j] # None =>
            /\ published'[j] \notin quarantined'
            /\ slots'[published'[j]].state = "resident" \/ j \in inFlight'
    BY <1>0, <1>2, <1>3 DEF RetentionInv, Discard, TypeOK
  <2> QED
    BY <2>1, <2>2, <1>0, ZenonT(60) DEF RetentionInv, Discard
<1>10. ResidentHoldsItsKey'
  BY <1>0, <1>2, <1>3 DEF ResidentHoldsItsKey, Resident, Discard, TypeOK
<1> QED
  BY <1>4, <1>7, <1>8, <1>9, <1>10, ZenonT(60) DEF TierInv

\* Decay of an entry at rest is not visible to any handle.
LEMMA CorruptInv ==
    ASSUME NEW k \in Keys, TierInv, Corrupt(k)
    PROVE  TierInv'
<1>0. TypeOK /\ RetentionInv /\ ResidentHoldsItsKey
  BY ZenonT(60) DEF TierInv
<1>1. published[k] \in Slots /\ k \notin inFlight
  BY <1>0 DEF Corrupt, Resident, TypeOK
<1>2. \A s \in Slots \ {published[k]} : host'[s] = host[s]
  BY <1>0, ZenonT(60) DEF Corrupt, TypeOK
<1>3. TypeOK'
  BY <1>0, <1>1, ZenonT(60) DEF TypeOK, Corrupt, tierVars, handleVars
<1>4. ASSUME NEW t \in Transfers, phase[t] = "active", NEW j \in KeysOf(t)
      PROVE  ActiveKey(t, j)'
  <2>1. j \in Keys /\ Target(t, j) \in Slots /\ ActiveKey(t, j)
    BY <1>4, ActiveApart, ZenonT(60)
  <2>2. Target(t, j) # published[k]
    BY <2>1, <1>1, <1>4, ActiveApart DEF ActiveKey
  <2>3. host'[Target(t, j)] = host[Target(t, j)]
    BY <2>1, <2>2, <1>2, ZenonT(60)
  <2>4. /\ Target(t, j) \notin quarantined' /\ j \in inFlight'
        /\ owner'[page[t][j]] = t
    BY <2>1, ZenonT(60) DEF Corrupt, tierVars, ActiveKey
  <2> QED
    BY <2>1, <2>3, <2>4, ActiveFrame, ZenonT(60) DEF Corrupt, tierVars, handleVars
<1>5. ASSUME NEW t \in Transfers, running[t], phase[t] # "active", NEW j \in KeysOf(t)
      PROVE  StrayKey(t, j)'
  BY <1>5, StrayApart, StrayFrame, ZenonT(60) DEF Corrupt, tierVars, handleVars, StrayKey
<1>6. HandleInv'
  BY <1>4, <1>5, HandleFrame, ZenonT(60) DEF HandleInv, TierInv, Corrupt, handleVars
<1>7. DisjointInv' /\ RetentionInv'
  BY ZenonT(60) DEF TierInv, DisjointInv, RetentionInv, Corrupt, tierVars, handleVars, KeysOf
<1>8. ResidentHoldsItsKey'
  <2> SUFFICES ASSUME NEW j \in Keys, Resident(j)
               PROVE  host'[published[j]] \in {slots[published[j]].sum, None}
    BY <1>0, ZenonT(60) DEF ResidentHoldsItsKey, Resident, Corrupt, tierVars
  <2>1. CASE published[j] = published[k]
    BY <2>1, <1>0, <1>1, ZenonT(60) DEF Corrupt, TypeOK
  <2>2. CASE published[j] # published[k]
    BY <2>2, <1>0, <1>2 DEF ResidentHoldsItsKey, Resident, TypeOK
  <2> QED
    BY <2>1, <2>2, ZenonT(60)
<1> QED
  BY <1>3, <1>6, <1>7, <1>8, ZenonT(60) DEF TierInv

\* Quarantining corrupted residents takes them out of publication only.
LEMMA RestoreRefusedInv ==
    ASSUME NEW K \in SUBSET Keys, TierInv, RestoreRefused(K)
    PROVE  TierInv'
<1>0. TypeOK /\ RetentionInv /\ ResidentHoldsItsKey
  BY ZenonT(60) DEF TierInv
<1> DEFINE bad == {k \in K : host[published[k]] # slots[published[k]].sum}
<1>1. \A k \in bad : k \in Keys /\ Resident(k) /\ k \notin inFlight
                     /\ published[k] \in Slots
  BY <1>0 DEF RestoreRefused, Resident, TypeOK
<1>2. /\ \A k \in bad : published'[k] = None
      /\ \A k \in Keys \ bad : published'[k] = published[k]
      /\ quarantined' = quarantined \cup {published[k] : k \in bad}
  BY ZenonT(60) DEF RestoreRefused
<1>3. TypeOK'
  <2>1. \A j \in Keys : published'[j] = None \/ published'[j] = published[j]
    BY <1>2, ZenonT(60)
  <2>2. published' \in [Keys -> Slots \cup {None}]
    BY <2>1, <1>0, ZenonT(60) DEF TypeOK, RestoreRefused
  <2>3. quarantined' \subseteq Slots /\ quarantinedKeys' \subseteq Keys
    BY <1>0, <1>1, <1>2 DEF TypeOK, RestoreRefused
  <2>4. \A j \in Keys : published'[j] # None =>
            slots'[published'[j]] # None /\ slots'[published'[j]].key = j
    BY <2>1, <1>0, ZenonT(60) DEF TypeOK, RestoreRefused
  <2> QED
    BY <2>2, <2>3, <2>4, <1>0, ZenonT(60) DEF TypeOK, RestoreRefused, handleVars
<1>4. ASSUME NEW t \in Transfers, phase[t] = "active", NEW j \in KeysOf(t)
      PROVE  ActiveKey(t, j)'
  <2>1. /\ j \in Keys /\ ActiveKey(t, j)
        /\ \A k \in Keys : published[k] = Target(t, j) => k = j
    BY <1>4, ActiveApart, ZenonT(60)
  <2>a. Target(t, j) \notin quarantined /\ j \in inFlight
    BY <2>1, ZenonT(60) DEF ActiveKey
  <2>b. j \notin bad
    BY <2>a, <1>1, ZenonT(60)
  <2>2. Target(t, j) \notin quarantined'
    BY <2>1, <2>a, <2>b, <1>1, <1>2, ZenonT(60)
  <2> QED
    BY <2>1, <2>2, <2>b, <1>2, ActiveFrame, ZenonT(60) DEF RestoreRefused, handleVars, ActiveKey
<1>5. ASSUME NEW t \in Transfers, running[t], phase[t] # "active", NEW j \in KeysOf(t)
      PROVE  StrayKey(t, j)'
  BY <1>5, <1>2, StrayApart, StrayFrame, ZenonT(60) DEF RestoreRefused, handleVars, StrayKey
<1>6. HandleInv'
  BY <1>4, <1>5, HandleFrame, ZenonT(60) DEF HandleInv, TierInv, RestoreRefused, handleVars
<1>7. DisjointInv'
  BY ZenonT(60) DEF TierInv, DisjointInv, RestoreRefused, handleVars, KeysOf
<1>8. RetentionInv'
  <2>1. \A s \in quarantined' : slots'[s] # None
    BY <1>0, <1>1, <1>2, SMTT(60) DEF RetentionInv, RestoreRefused, Resident, TypeOK
  <2>2. ASSUME NEW j \in Keys, published'[j] # None
        PROVE  published'[j] \notin quarantined'
    <3>1. j \notin bad /\ published'[j] = published[j]
      BY <2>2, <1>2, ZenonT(60)
    <3>2. \A k \in bad : published[k] # published[j]
      BY <3>1, <2>2, <1>1, PublishedApart, ZenonT(60)
    <3> QED
      BY <3>1, <3>2, <2>2, <1>0, <1>2, ZenonT(60) DEF RetentionInv
  <2>3. \A j \in Keys : published'[j] # None =>
            slots'[published'[j]].state = "resident" \/ j \in inFlight'
    BY <1>0, <1>2, ZenonT(60) DEF RetentionInv, RestoreRefused
  <2> QED
    BY <2>1, <2>2, <2>3, <1>0, ZenonT(60) DEF RetentionInv, RestoreRefused
<1>9. ResidentHoldsItsKey'
  BY <1>0, <1>2, ZenonT(60) DEF ResidentHoldsItsKey, Resident, RestoreRefused
<1> QED
  BY <1>3, <1>6, <1>7, <1>8, <1>9, ZenonT(60) DEF TierInv

\* Forgetting a handle whose copy is over changes nothing in the tier.
LEMMA RetireInv ==
    ASSUME NEW t \in Transfers, TierInv, Retire(t)
    PROVE  TierInv'
<1>0. TypeOK
  BY ZenonT(60) DEF TierInv
<1>1. phase[t] # "active" /\ ~running[t] /\ UNCHANGED <<tierVars, offload, running, host, device>>
  BY ZenonT(60) DEF Retire
<1>2. \A u \in Transfers \ {t} : /\ phase'[u] = phase[u] /\ entry'[u] = entry[u]
                                 /\ old'[u] = old[u] /\ page'[u] = page[u]
  BY <1>0, ZenonT(60) DEF Retire, TypeOK
<1>3. phase'[t] = "idle" /\ KeysOf(t)' = {} /\ ~running'[t]
  BY <1>0, <1>1, ZenonT(60) DEF Retire, TypeOK, KeysOf
<1>4. TypeOK'
  <2>1. [k \in Keys |-> NoEntry] \in [Keys -> EntryRef]
    BY ZenonT(60) DEF EntryRef
  <2>2. entry' \in [Transfers -> [Keys -> EntryRef]]
    BY <2>1, <1>0, ZenonT(60) DEF Retire, TypeOK
  <2>3. /\ old' \in [Transfers -> [Keys -> Slots \cup {None}]]
        /\ page' \in [Transfers -> [Keys -> DevicePages \cup {None}]]
        /\ phase' \in [Transfers -> {"idle", "active", "finalized", "failed", "cancelled"}]
    BY <1>0, ZenonT(60) DEF Retire, TypeOK
  <2> QED
    BY <2>2, <2>3, <1>0, <1>1, ZenonT(60) DEF TypeOK, tierVars
<1>5. ASSUME NEW u \in Transfers \ {t}, phase[u] = "active", NEW j \in KeysOf(u)
      PROVE  ActiveKey(u, j)'
  BY <1>1, <1>2, <1>5, ActiveApart, ActiveFrame, ZenonT(60) DEF tierVars, ActiveKey
<1>6. ASSUME NEW u \in Transfers \ {t}, running[u], phase[u] # "active", NEW j \in KeysOf(u)
      PROVE  StrayKey(u, j)'
  BY <1>1, <1>2, <1>6, StrayApart, StrayFrame, ZenonT(60) DEF tierVars, StrayKey
<1>7. HandleInv'
  <2>1. \A u \in Transfers \ {t} : phase[u] = "idle" => ~running'[u]
    BY <1>1, ZenonT(60) DEF TierInv, HandleInv
  <2> QED
    BY <2>1, <1>1, <1>2, <1>3, <1>5, <1>6, HandleFrame, ZenonT(60) DEF HandleInv
<1>8. DisjointInv'
  <2>1. \A u \in Transfers \ {t} : KeysOf(u)' = KeysOf(u)
    BY <1>2, ZenonT(60) DEF KeysOf
  <2> QED
    BY <2>1, <1>2, <1>3 DEF TierInv, DisjointInv
<1>9. RetentionInv' /\ ResidentHoldsItsKey'
  BY <1>1, ZenonT(60) DEF TierInv, RetentionInv, ResidentHoldsItsKey, Resident, tierVars
<1> QED
  BY <1>4, <1>7, <1>8, <1>9, ZenonT(60) DEF TierInv

----------------------------------------------------------------------------
(* The end of a transfer.                                                  *)

\* What _quarantine does to an active handle: every one of its slots is kept
\* back, and no other key loses its entry.
LEMMA Quarantining ==
    ASSUME TierInv, NEW t \in Transfers, phase[t] = "active",
           NEW retain \in BOOLEAN, QuarantineEntries(t, retain)
    PROVE  /\ quarantined' = quarantined \cup SlotsOf(t)
           /\ inFlight' = inFlight \ KeysOf(t)
           /\ quarantinedKeys' \subseteq quarantinedKeys \cup KeysOf(t)
           /\ \A k \in Keys \ KeysOf(t) : published'[k] = published[k]
           /\ \A k \in KeysOf(t) : published'[k] = IF published[k] = Target(t, k)
                                                   THEN None ELSE published[k]
           /\ SlotsOf(t) \subseteq Slots
           /\ published' \in [Keys -> Slots \cup {None}]
<1>1. \A k \in KeysOf(t) : k \in Keys /\ ActiveKey(t, k) /\ Owns(t, k)
                           /\ Target(t, k) \in Slots
  BY ActiveApart, ZenonT(60) DEF ActiveKey
<1>2. {k \in KeysOf(t) : Owns(t, k)} = KeysOf(t)
  BY <1>1, ZenonT(60)
<1>3. published' = [k \in Keys |-> IF k \in KeysOf(t) /\ published[k] = Target(t, k)
                                   THEN None ELSE published[k]]
  BY <1>2, ZenonT(60) DEF QuarantineEntries
<1>4. published' \in [Keys -> Slots \cup {None}]
  BY <1>3, ZenonT(60) DEF TierInv, TypeOK
<1> QED
  BY <1>1, <1>2, <1>3, <1>4, ZenonT(60) DEF QuarantineEntries, SlotsOf

\* What is left of the entries after a handle's own were quarantined.
LEMMA QuarantinedRest ==
    ASSUME TierInv, NEW t \in Transfers, phase[t] = "active",
           NEW retain \in BOOLEAN, QuarantineEntries(t, retain),
           UNCHANGED <<slots, host>>
    PROVE  /\ \A k \in Keys : published'[k] # None =>
                  /\ published'[k] = published[k]
                  /\ published'[k] \notin quarantined'
                  /\ slots'[published'[k]].state = "resident" \/ k \in inFlight'
           /\ \A s \in quarantined' : slots'[s] # None
           /\ ResidentHoldsItsKey'
<1>0. TypeOK /\ RetentionInv /\ ResidentHoldsItsKey
  BY ZenonT(60) DEF TierInv
<1>1. ASSUME NEW k \in Keys, published'[k] # None
      PROVE  /\ published'[k] = published[k]
             /\ published'[k] \notin quarantined'
             /\ slots'[published'[k]].state = "resident" \/ k \in inFlight'
  <2>1. published'[k] = published[k]
    BY <1>1, Quarantining, ZenonT(60)
  <2>2. \A j \in KeysOf(t) : Target(t, j) # published[k]
    BY <1>1, <2>1, Quarantining, ActiveApart
  <2>3. published[k] \notin quarantined'
    BY <1>1, <2>1, <2>2, <1>0, Quarantining DEF RetentionInv, SlotsOf
  <2>4. CASE k \notin KeysOf(t)
    BY <2>4, <1>1, <2>1, <2>3, <1>0, Quarantining, ZenonT(60) DEF RetentionInv
  <2>5. CASE k \in KeysOf(t)
    <3>1. ActiveKey(t, k)
      BY <2>5, ActiveApart, ZenonT(60)
    <3>2. published[k] # Target(t, k)
      BY <2>5, <2>2, ZenonT(60)
    <3> QED
      BY <3>1, <3>2, <2>1, <2>3, ZenonT(60) DEF ActiveKey, Resident
  <2> QED
    BY <2>1, <2>3, <2>4, <2>5, ZenonT(60)
<1>2. \A s \in quarantined' : slots'[s] # None
  <2>1. ASSUME NEW k \in KeysOf(t) PROVE slots[Target(t, k)] # None
    <3>1. Owns(t, k)
      BY ActiveApart, ZenonT(60) DEF ActiveKey
    <3> QED
      BY <3>1, ZenonT(60) DEF Owns
  <2> QED
    BY <2>1, <1>0, Quarantining DEF RetentionInv, SlotsOf
<1>3. ResidentHoldsItsKey'
  BY <1>0, <1>1, ZenonT(60) DEF ResidentHoldsItsKey, Resident
<1> QED
  BY <1>1, <1>2, <1>3, ZenonT(60)

\* The other active handles and the stray copies are untouched by a
\* quarantine of handle t.
LEMMA QuarantinedOthers ==
    ASSUME TierInv, NEW t \in Transfers, phase[t] = "active",
           NEW retain \in BOOLEAN, QuarantineEntries(t, retain),
           UNCHANGED <<slots, host, offload, entry, old, page, running>>,
           quarantinedPages \subseteq quarantinedPages',
           \A p \in DevicePages : owner[p] # t =>
               owner'[p] = owner[p] /\ device'[p] = device[p],
           NEW u \in Transfers, u # t, NEW j \in KeysOf(u)
    PROVE  /\ phase[u] = "active" => ActiveKey(u, j)'
           /\ running[u] /\ phase[u] # "active" => StrayKey(u, j)'
<1>1. ASSUME phase[u] = "active" PROVE ActiveKey(u, j)'
  <2>1. /\ j \in Keys /\ page[u][j] \in DevicePages /\ ActiveKey(u, j)
        /\ j \notin KeysOf(t)
    BY <1>1, ActiveApart, ZenonT(60) DEF TierInv, DisjointInv
  <2>2. Target(u, j) \notin SlotsOf(t) /\ owner[page[u][j]] = u
    BY <2>1, <1>1, ActiveApart DEF SlotsOf, ActiveKey
  <2>3. /\ Target(u, j) \notin quarantined' /\ j \in inFlight'
        /\ published'[j] = published[j]
    BY <2>1, <2>2, Quarantining, ZenonT(60) DEF ActiveKey
  <2> QED
    BY <2>1, <2>2, <2>3, ActiveFrame, ZenonT(60)
<1>2. ASSUME running[u], phase[u] # "active" PROVE StrayKey(u, j)'
  BY <1>2, StrayApart, StrayFrame, Quarantining, ZenonT(60) DEF StrayKey
<1> QED
  BY <1>1, <1>2, ZenonT(60)

\* An abandoned transfer keeps everything it touched out of circulation.
LEMMA AbandonInv ==
    ASSUME NEW t \in Transfers, NEW outcome \in {"failed", "cancelled"},
           TierInv, Abandon(t, outcome)
    PROVE  TierInv'
<1>0. TypeOK /\ RetentionInv
  BY ZenonT(60) DEF TierInv
<1>1. phase[t] = "active" /\ offload[t] \in BOOLEAN /\ QuarantineEntries(t, offload[t])
  BY <1>0, ZenonT(60) DEF Abandon, TypeOK
<1>2. \A p \in PagesOf(t) : p \in DevicePages /\ owner[p] = t
  <2>1. ASSUME NEW k \in KeysOf(t) PROVE page[t][k] \in DevicePages /\ owner[page[t][k]] = t
    BY <1>1, ActiveApart DEF ActiveKey
  <2> QED
    BY <2>1, ZenonT(60) DEF PagesOf
<1>3. /\ quarantinedPages' = quarantinedPages \cup PagesOf(t)
      /\ owner' = [p \in DevicePages |-> IF p \in PagesOf(t) THEN None ELSE owner[p]]
  BY <1>2, ZenonT(60) DEF Abandon
<1>4. TypeOK'
  <2>1. \A k \in Keys : published'[k] # None =>
            slots'[published'[k]] # None /\ slots'[published'[k]].key = k
    BY <1>0, <1>1, QuarantinedRest, ZenonT(60) DEF TypeOK, Abandon
  <2>2. inFlight' \subseteq Keys /\ quarantined' \subseteq Slots
        /\ quarantinedKeys' \subseteq Keys /\ quarantinedPages' \subseteq DevicePages
    BY <1>0, <1>1, <1>2, <1>3, Quarantining DEF TypeOK, KeysOf
  <2>3. owner' \in [DevicePages -> Transfers \cup {None}]
    BY <1>0, <1>3, ZenonT(60) DEF TypeOK
  <2>4. phase' \in [Transfers -> {"idle", "active", "finalized", "failed", "cancelled"}]
    BY <1>0, ZenonT(60) DEF TypeOK, Abandon
  <2>5. published' \in [Keys -> Slots \cup {None}]
    BY <1>1, Quarantining, ZenonT(60)
  <2> QED
    BY <2>1, <2>2, <2>3, <2>4, <2>5, <1>0, ZenonT(60) DEF TypeOK, Abandon
<1>5. ASSUME NEW u \in Transfers, u # t, NEW j \in KeysOf(u)
      PROVE  /\ phase[u] = "active" => ActiveKey(u, j)'
             /\ running[u] /\ phase[u] # "active" => StrayKey(u, j)'
  <2>1. \A p \in DevicePages : owner[p] # t =>
            owner'[p] = owner[p] /\ device'[p] = device[p]
    BY <1>2, <1>3, ZenonT(60) DEF Abandon
  <2> QED
    BY <2>1, <1>1, <1>3, <1>5, QuarantinedOthers, ZenonT(60) DEF Abandon
<1>6. HandleInv'
  <2>1. ASSUME NEW j \in KeysOf(t) PROVE StrayKey(t, j)'
    <3>1. Owns(t, j) /\ Target(t, j) \in SlotsOf(t) /\ page[t][j] \in PagesOf(t)
      BY <2>1, <1>1, ActiveApart, ZenonT(60) DEF ActiveKey, SlotsOf, PagesOf
    <3> QED
      BY <3>1, <1>1, <1>3, Quarantining, ZenonT(60) DEF StrayKey, Owns, Target, Abandon
  <2>2. \A u \in Transfers : KeysOf(u)' = KeysOf(u)
    BY ZenonT(60) DEF KeysOf, Abandon
  <2>3. phase'[t] = outcome /\ \A u \in Transfers \ {t} : phase'[u] = phase[u]
    BY <1>0, ZenonT(60) DEF Abandon, TypeOK
  <2> QED
    BY <2>1, <2>2, <2>3, <1>5, ZenonT(60) DEF HandleInv, TierInv, Abandon
<1>7. DisjointInv'
  BY <1>0, SMTT(60) DEF TierInv, DisjointInv, Abandon, KeysOf, TypeOK
<1>8. RetentionInv' /\ ResidentHoldsItsKey'
  <2>1. \A p \in DevicePages : owner'[p] # None => p \notin quarantinedPages'
    BY <1>0, <1>3, ZenonT(60) DEF RetentionInv
  <2> QED
    BY <2>1, <1>1, QuarantinedRest, ZenonT(60) DEF RetentionInv, Abandon
<1> QED
  BY <1>4, <1>6, <1>7, <1>8, ZenonT(60) DEF TierInv

\* The device pages of an active handle are its own, and going back to the
\* caller they leave every other handle's pages alone.
LEMMA PagesGoBack ==
    ASSUME TierInv, NEW t \in Transfers, phase[t] = "active", ReleasePages(t)
    PROVE  /\ owner' \in [DevicePages -> Transfers \cup {None}]
           /\ device' \in [DevicePages -> Data \cup {None}]
           /\ quarantinedPages' = quarantinedPages
           /\ \A p \in DevicePages : owner[p] # t =>
                  owner'[p] = owner[p] /\ device'[p] = device[p]
           /\ \A p \in DevicePages : owner'[p] # None => p \notin quarantinedPages'
<1>1. TypeOK /\ RetentionInv
  BY ZenonT(60) DEF TierInv
<1> QED
  BY <1>1, ZenonT(60) DEF ReleasePages, TypeOK, RetentionInv

\* A failed host commit retains the host entries and returns the pages.
LEMMA FinalizeFailsInv ==
    ASSUME NEW t \in Transfers, TierInv, FinalizeFails(t)
    PROVE  TierInv'
<1>0. TypeOK /\ RetentionInv
  BY ZenonT(60) DEF TierInv
<1>1. phase[t] = "active" /\ QuarantineEntries(t, FALSE) /\ ReleasePages(t)
  BY ZenonT(60) DEF FinalizeFails
<1>2. TypeOK'
  <2>1. \A k \in Keys : published'[k] # None =>
            slots'[published'[k]] # None /\ slots'[published'[k]].key = k
    BY <1>0, <1>1, QuarantinedRest, ZenonT(60) DEF TypeOK, FinalizeFails
  <2>2. inFlight' \subseteq Keys /\ quarantined' \subseteq Slots
        /\ quarantinedKeys' \subseteq Keys /\ quarantinedPages' \subseteq DevicePages
    BY <1>0, <1>1, Quarantining, PagesGoBack, ZenonT(60) DEF TypeOK, KeysOf
  <2>3. phase' \in [Transfers -> {"idle", "active", "finalized", "failed", "cancelled"}]
    BY <1>0, ZenonT(60) DEF TypeOK, FinalizeFails
  <2>4. published' \in [Keys -> Slots \cup {None}]
    BY <1>1, Quarantining, ZenonT(60)
  <2> QED
    BY <2>1, <2>2, <2>3, <2>4, <1>0, <1>1, PagesGoBack, ZenonT(60) DEF TypeOK, FinalizeFails
<1>3. ASSUME NEW u \in Transfers, u # t, NEW j \in KeysOf(u)
      PROVE  /\ phase[u] = "active" => ActiveKey(u, j)'
             /\ running[u] /\ phase[u] # "active" => StrayKey(u, j)'
  <2>1. \A p \in DevicePages : owner[p] # t =>
            owner'[p] = owner[p] /\ device'[p] = device[p]
    BY <1>1, PagesGoBack, ZenonT(60)
  <2>2. quarantinedPages' = quarantinedPages
    BY <1>1, PagesGoBack, ZenonT(60)
  <2> QED
    BY <2>1, <2>2, <1>1, <1>3, QuarantinedOthers, ZenonT(60) DEF FinalizeFails
<1>4. HandleInv'
  <2>1. \A u \in Transfers : KeysOf(u)' = KeysOf(u)
    BY ZenonT(60) DEF KeysOf, FinalizeFails
  <2>2. phase'[t] = "failed" /\ \A u \in Transfers \ {t} : phase'[u] = phase[u]
    BY <1>0, ZenonT(60) DEF FinalizeFails, TypeOK
  <2>3. ~running'[t]
    BY ZenonT(60) DEF FinalizeFails
  <2> QED
    BY <2>1, <2>2, <2>3, <1>3, ZenonT(60) DEF HandleInv, TierInv, FinalizeFails
<1>5. DisjointInv'
  BY <1>0 DEF TierInv, DisjointInv, FinalizeFails, KeysOf, TypeOK
<1>6. RetentionInv' /\ ResidentHoldsItsKey'
  BY <1>1, PagesGoBack, QuarantinedRest, ZenonT(60) DEF RetentionInv, FinalizeFails
<1> QED
  BY <1>2, <1>4, <1>5, <1>6, ZenonT(60) DEF TierInv

(***************************************************************************)
(* A transfer ends well, and the device pages it takes.                    *)
(***************************************************************************)
\* A finished restore frees its host slots and publishes nothing.
LEMMA FinalizeRestoreInv ==
    ASSUME NEW t \in Transfers, TierInv,
           NEW outcome \in {"finalized", "failed"}, FinalizeRestore(t, outcome)
    PROVE  TierInv'
<1>0. TypeOK /\ RetentionInv /\ ResidentHoldsItsKey
  BY ZenonT(60) DEF TierInv
<1>1. phase[t] = "active" /\ ReleasePages(t) /\ ~offload[t]
  BY ZenonT(60) DEF FinalizeRestore
<1>2. \A k \in KeysOf(t) : published[k] = Target(t, k) /\ k \in Keys
  BY <1>1, ActiveApart, SMTT(60) DEF ActiveKey
<1>3. /\ \A k \in KeysOf(t) : published'[k] = None
      /\ \A k \in Keys \ KeysOf(t) : published'[k] = published[k]
                                     /\ published[k] \notin SlotsOf(t)
  BY <1>1, <1>2, ActiveApart DEF FinalizeRestore, SlotsOf
<1>4. \A s \in Slots \ SlotsOf(t) : slots'[s] = slots[s]
  BY ZenonT(60) DEF FinalizeRestore
<1>5. \A k \in Keys : published'[k] # None =>
          /\ k \notin KeysOf(t) /\ published'[k] = published[k]
          /\ slots'[published'[k]] = slots[published[k]]
  BY <1>0, <1>3, <1>4, SMTT(60) DEF TypeOK
<1>6. TypeOK'
  <2>1. \A k \in Keys : published'[k] # None =>
            slots'[published'[k]] # None /\ slots'[published'[k]].key = k
    BY <1>0, <1>5, ZenonT(60) DEF TypeOK
  <2>2. slots' \in [Slots -> Entry \cup {None}] /\ published' \in [Keys -> Slots \cup {None}]
    BY <1>0, ZenonT(60) DEF TypeOK, FinalizeRestore
  <2>3. phase' \in [Transfers -> {"idle", "active", "finalized", "failed", "cancelled"}]
    BY <1>0, ZenonT(60) DEF TypeOK, FinalizeRestore
  <2> QED
    BY <2>1, <2>2, <2>3, <1>0, <1>1, PagesGoBack, ZenonT(60) DEF TypeOK, FinalizeRestore
<1>7. ASSUME NEW u \in Transfers, u # t, phase[u] = "active", NEW j \in KeysOf(u)
      PROVE  ActiveKey(u, j)'
  <2>1. /\ j \in Keys /\ page[u][j] \in DevicePages /\ ActiveKey(u, j)
        /\ Target(u, j) \in Slots /\ published[j] \in Slots /\ j \notin KeysOf(t)
    BY <1>1, <1>7, ActiveApart, ActivePublished, ZenonT(60) DEF TierInv, DisjointInv
  <2>2. Target(u, j) \notin SlotsOf(t) /\ owner[page[u][j]] = u
    BY <2>1, <1>1, <1>7, ActiveApart, SMTT(60) DEF SlotsOf, ActiveKey
  <2>3. /\ slots'[Target(u, j)] = slots[Target(u, j)]
        /\ published'[j] = published[j]
        /\ slots'[published[j]] = slots[published[j]]
    BY <2>1, <2>2, <1>3, <1>4, ZenonT(60)
  <2>4. /\ owner'[page[u][j]] = u
        /\ device'[page[u][j]] = device[page[u][j]]
    BY <2>1, <2>2, <1>1, <1>7, PagesGoBack, ZenonT(60)
  <2>5. Target(u, j) \notin quarantined' /\ j \in inFlight'
    BY <2>1, ZenonT(60) DEF FinalizeRestore, ActiveKey
  <2> QED
    BY <2>1, <2>3, <2>4, <2>5, ActiveFrame, ZenonT(60) DEF FinalizeRestore
<1>8. ASSUME NEW u \in Transfers, running[u], phase[u] # "active", NEW j \in KeysOf(u)
      PROVE  StrayKey(u, j)'
  <2>1. StrayKey(u, j) /\ Target(u, j) \in Slots /\ Target(u, j) \notin SlotsOf(t)
    BY <1>1, <1>8, StrayApart, ActiveApart DEF SlotsOf
  <2> QED
    BY <2>1, <1>1, <1>4, StrayFrame, PagesGoBack, ZenonT(60) DEF FinalizeRestore, StrayKey
<1>9. HandleInv'
  <2>1. \A u \in Transfers : KeysOf(u)' = KeysOf(u)
    BY ZenonT(60) DEF KeysOf, FinalizeRestore
  <2>2. phase'[t] = outcome /\ \A u \in Transfers \ {t} : phase'[u] = phase[u]
    BY <1>0, ZenonT(60) DEF FinalizeRestore, TypeOK
  <2>3. ~running'[t]
    BY ZenonT(60) DEF FinalizeRestore
  <2> QED
    BY <2>1, <2>2, <2>3, <1>7, <1>8, ZenonT(60) DEF HandleInv, TierInv, FinalizeRestore
<1>10. DisjointInv'
  BY <1>0, SMTT(60) DEF TierInv, DisjointInv, FinalizeRestore, KeysOf, TypeOK
<1>11. RetentionInv'
  <2>1. \A s \in quarantined : s \notin SlotsOf(t)
    BY <1>1, ActiveApart DEF SlotsOf, ActiveKey
  <2>2. \A s \in quarantined' : slots'[s] # None
    BY <2>1, <1>0, <1>4, ZenonT(60) DEF RetentionInv, FinalizeRestore, TypeOK
  <2>3. \A k \in Keys : published'[k] # None =>
            /\ published'[k] \notin quarantined'
            /\ slots'[published'[k]].state = "resident" \/ k \in inFlight'
    BY <1>0, <1>5, ZenonT(60) DEF RetentionInv, FinalizeRestore
  <2> QED
    BY <2>2, <2>3, <1>1, PagesGoBack, ZenonT(60) DEF RetentionInv
<1>12. ResidentHoldsItsKey'
  BY <1>0, <1>5, ZenonT(60) DEF ResidentHoldsItsKey, Resident, FinalizeRestore
<1> QED
  BY <1>6, <1>9, <1>10, <1>11, <1>12, ZenonT(60) DEF TierInv

\* Where the copy of a running handle may write: nowhere but its own targets,
\* and key by key.
LEMMA LandingSites ==
    ASSUME NEW t \in Transfers, TierInv, Land(t)
    PROVE  /\ \A s \in Slots \ SlotsOf(t) : host'[s] = host[s]
           /\ \A p \in DevicePages \ PagesOf(t) : device'[p] = device[p]
           /\ \A k \in KeysOf(t) :
                  /\ Target(t, k) \in Slots /\ page[t][k] \in DevicePages
                  /\ offload[t] => host'[Target(t, k)] = device[page[t][k]]
                  /\ ~offload[t] => /\ host'[Target(t, k)] = host[Target(t, k)]
                                    /\ device'[page[t][k]] = host[Target(t, k)]
<1>1. running[t] /\ TypeOK /\ HandleInv
  BY ZenonT(60) DEF Land, TierInv
<1>2. \A k \in KeysOf(t) : /\ k \in Keys /\ Target(t, k) \in Slots
                           /\ page[t][k] \in DevicePages /\ Owns(t, k)
  BY <1>1, ActiveApart, StrayApart, ZenonT(60) DEF ActiveKey, StrayKey
<1>3. \A j, k \in KeysOf(t) : Target(t, j) = Target(t, k) => j = k
  BY <1>2, ZenonT(60) DEF Owns
<1>4. \A j, k \in KeysOf(t) : page[t][j] = page[t][k] => j = k
  BY <1>1, ZenonT(60) DEF HandleInv
<1>5. ASSUME NEW k \in KeysOf(t), offload[t]
      PROVE  host'[Target(t, k)] = device[page[t][k]]
  <2>1. (CHOOSE j \in KeysOf(t) : Target(t, j) = Target(t, k)) = k
    BY <1>3, ZenonT(60)
  <2>2. Target(t, k) \in SlotsOf(t)
    BY ZenonT(60) DEF SlotsOf
  <2> QED
    BY <2>1, <2>2, <1>2, <1>5, ZenonT(60) DEF Land
<1>6. ASSUME NEW k \in KeysOf(t), ~offload[t]
      PROVE  device'[page[t][k]] = host[Target(t, k)] /\ host' = host
  <2>1. (CHOOSE j \in KeysOf(t) : page[t][j] = page[t][k]) = k
    BY <1>4, ZenonT(60)
  <2>2. page[t][k] \in PagesOf(t)
    BY ZenonT(60) DEF PagesOf
  <2> QED
    BY <2>1, <2>2, <1>2, <1>6, ZenonT(60) DEF Land
<1> QED
  BY <1>2, <1>5, <1>6, ZenonT(60) DEF Land

\* A copy that lands, however late, changes only what its handle holds.
LEMMA LandInv ==
    ASSUME NEW t \in Transfers, TierInv, Land(t)
    PROVE  TierInv'
<1>0. TypeOK /\ RetentionInv /\ ResidentHoldsItsKey /\ running[t]
  BY ZenonT(60) DEF TierInv, Land
<1>1. /\ tierVars' = tierVars /\ handleVars' = handleVars
      /\ running' = [running EXCEPT ![t] = FALSE]
  BY ZenonT(60) DEF Land
<1>2. /\ \A s \in SlotsOf(t) : s \in Slots /\ \E k \in KeysOf(t) : s = Target(t, k)
      /\ \A p \in PagesOf(t) : p \in DevicePages /\ \E k \in KeysOf(t) : p = page[t][k]
  BY LandingSites, ZenonT(60) DEF SlotsOf, PagesOf
<1>3. TypeOK'
  <2>1. ASSUME NEW s \in Slots PROVE host'[s] \in Data \cup {None}
    <3>1. CASE s \in SlotsOf(t)
      BY <3>1, <1>0, <1>2, LandingSites, SMTT(60) DEF TypeOK
    <3>2. CASE s \notin SlotsOf(t)
      BY <3>2, <1>0, LandingSites DEF TypeOK
    <3> QED
      BY <3>1, <3>2, ZenonT(60)
  <2>2. ASSUME NEW p \in DevicePages PROVE device'[p] \in Data \cup {None}
    <3>1. CASE p \in PagesOf(t) /\ ~offload[t]
      BY <3>1, <1>0, <1>2, LandingSites, SMTT(60) DEF TypeOK
    <3>2. CASE p \notin PagesOf(t)
      BY <3>2, <1>0, LandingSites DEF TypeOK
    <3>3. CASE offload[t]
      BY <3>3, <1>0, ZenonT(60) DEF TypeOK, Land
    <3> QED
      BY <3>1, <3>2, <3>3, ZenonT(60)
  <2>3. host' \in [Slots -> Data \cup {None}]
    BY <2>1, <1>0, ZenonT(60) DEF Land, TypeOK
  <2>4. device' \in [DevicePages -> Data \cup {None}]
    BY <2>2, <1>0, ZenonT(60) DEF Land, TypeOK
  <2> QED
    BY <2>3, <2>4, <1>0, <1>1, ZenonT(60) DEF TypeOK, tierVars, handleVars
<1>4. ASSUME NEW u \in Transfers, u # t, phase[u] = "active", NEW j \in KeysOf(u)
      PROVE  ActiveKey(u, j)'
  <2>1. /\ ActiveKey(u, j) /\ Target(u, j) \in Slots /\ page[u][j] \in DevicePages
    BY <1>4, ActiveApart, ZenonT(60)
  <2>2. Target(u, j) \notin SlotsOf(t) /\ page[u][j] \notin PagesOf(t)
    BY <1>0, <1>2, <1>4, ActiveApart
  <2>3. host'[Target(u, j)] = host[Target(u, j)]
        /\ device'[page[u][j]] = device[page[u][j]]
    BY <2>1, <2>2, LandingSites, ZenonT(60)
  <2>4. /\ Target(u, j) \notin quarantined' /\ j \in inFlight'
        /\ owner'[page[u][j]] = u /\ running'[u] = running[u]
    BY <2>1, <1>0, <1>1, <1>4, ZenonT(60) DEF tierVars, ActiveKey, TypeOK
  <2> QED
    BY <2>1, <2>3, <2>4, <1>1, ActiveFrame, ZenonT(60) DEF tierVars, handleVars
<1>5. ASSUME phase[t] = "active", NEW j \in KeysOf(t)
      PROVE  ActiveKey(t, j)'
  <2>1. ActiveKey(t, j) /\ Target(t, j) \in Slots /\ page[t][j] \in DevicePages
    BY <1>5, ActiveApart, ZenonT(60)
  <2>2. ~running'[t]
    BY <1>0, <1>1, ZenonT(60) DEF TypeOK
  <2>3. CASE offload[t]
    <3>1. host'[Target(t, j)] \in {j} \X Versions
      BY <2>1, <2>3, <1>0, LandingSites, ZenonT(60) DEF ActiveKey
    <3> QED
      BY <2>1, <2>2, <2>3, <3>1, <1>1, ZenonT(60)
      DEF ActiveKey, Target, Owns, Resident, tierVars, handleVars
  <2>4. CASE ~offload[t]
    <3>1. device'[page[t][j]] \in {j} \X Versions
          /\ host'[Target(t, j)] = host[Target(t, j)]
      BY <2>1, <2>4, LandingSites, ZenonT(60) DEF ActiveKey
    <3> QED
      BY <2>1, <2>2, <2>4, <3>1, <1>1, ZenonT(60)
      DEF ActiveKey, Target, Owns, Resident, tierVars, handleVars
  <2> QED
    BY <2>3, <2>4, ZenonT(60)
<1>6. ASSUME NEW u \in Transfers, running[u], phase[u] # "active", NEW j \in KeysOf(u)
      PROVE  StrayKey(u, j)'
  BY <1>1, <1>6, StrayApart, StrayFrame, ZenonT(60) DEF tierVars, handleVars, StrayKey
<1>7. HandleInv'
  <2>1. \A u \in Transfers : running'[u] => running[u]
    BY <1>0, <1>1, ZenonT(60) DEF TypeOK
  <2>2. \A u \in Transfers : phase[u] = "idle" => ~running'[u]
    BY <2>1, ZenonT(60) DEF TierInv, HandleInv
  <2>3. phase' = phase /\ page' = page
    BY <1>1, ZenonT(60) DEF handleVars
  <2>4. \A u \in Transfers : phase[u] = "active" => \A j \in KeysOf(u) : ActiveKey(u, j)'
    BY <1>4, <1>5, ZenonT(60)
  <2>5. \A u \in Transfers : running'[u] /\ phase[u] # "active"
            => \A j \in KeysOf(u) : StrayKey(u, j)'
    BY <1>6, <2>1, ZenonT(60)
  <2> QED
    BY <2>2, <2>3, <2>4, <2>5, HandleFrame, ZenonT(60) DEF HandleInv
<1>8. DisjointInv' /\ RetentionInv'
  BY <1>1 DEF TierInv, DisjointInv, RetentionInv, tierVars, handleVars, KeysOf
<1>9. ASSUME NEW k \in Keys, Resident(k)
      PROVE  published[k] \in Slots \ SlotsOf(t)
  <2>1. published[k] \in Slots
    BY <1>0, <1>9, SMTT(60) DEF Resident, TypeOK
  <2>2. CASE phase[t] = "active"
    BY <2>1, <2>2, <1>2, <1>9, ActiveApart, SMTT(60) DEF ActiveKey, Resident
  <2>3. CASE phase[t] # "active"
    BY <2>1, <2>3, <1>0, <1>2, StrayApart
  <2> QED
    BY <2>2, <2>3, ZenonT(60)
<1>10. ResidentHoldsItsKey'
  BY <1>0, <1>1, <1>9, LandingSites DEF ResidentHoldsItsKey, Resident, tierVars
<1> QED
  BY <1>3, <1>7, <1>8, <1>10, ZenonT(60) DEF TierInv

\* A finished offload leaves each of its keys with one resident copy, or, when
\* recording it fails, retains the copies it has just published.
LEMMA FinalizeOffloadInv ==
    ASSUME NEW t \in Transfers, TierInv,
           NEW outcome \in {"finalized", "failed"}, FinalizeOffload(t, outcome)
    PROVE  TierInv'
<1>0. TypeOK /\ RetentionInv /\ ResidentHoldsItsKey
  BY ZenonT(60) DEF TierInv
<1> DEFINE K == KeysOf(t)
           stale == {Target(t, k) : k \in {j \in K : Unchanged(t, j)}}
           replaced == {old[t][k] : k \in {j \in K : ~Unchanged(t, j)}} \ {None}
           lost == {k \in K : outcome = "failed" /\ ~Unchanged(t, k)}
           Fresh(s) == [key |-> slots[s].key, gen |-> slots[s].gen,
                        state |-> "resident", sum |-> host[s]]
<1>1. /\ phase[t] = "active" /\ ReleasePages(t) /\ offload[t] /\ ~running[t]
      /\ slots' = [s \in Slots |-> IF s \in stale \cup replaced THEN None
                                   ELSE IF s \in SlotsOf(t) THEN Fresh(s) ELSE slots[s]]
      /\ published' = [k \in Keys |->
                          IF k \in lost THEN None
                          ELSE IF k \in K /\ ~Unchanged(t, k)
                          THEN Target(t, k) ELSE published[k]]
      /\ inFlight' = inFlight \ K
  BY ZenonT(60) DEF FinalizeOffload
<1>a. /\ quarantined' = quarantined \cup {Target(t, k) : k \in lost}
      /\ quarantinedKeys' = quarantinedKeys \cup lost
      /\ generation' = generation /\ offload' = offload /\ entry' = entry /\ old' = old
      /\ page' = page /\ running' = running /\ host' = host
      /\ phase' = [phase EXCEPT ![t] = outcome]
  BY Zenon DEF FinalizeOffload
<1>b. /\ \A s \in stale : \E k \in K : Unchanged(t, k) /\ s = Target(t, k)
      /\ \A s \in replaced : s # None /\ \E k \in K : ~Unchanged(t, k) /\ s = old[t][k]
  OBVIOUS
<1>c. /\ lost \subseteq K /\ \A k \in lost : ~Unchanged(t, k)
      /\ \A k \in K : ~Unchanged(t, k) /\ k \notin lost => lost = {}
  OBVIOUS
<1> HIDE DEF stale, replaced, lost, Fresh
<1>d. /\ quarantined \subseteq quarantined'
      /\ \A s \in quarantined' : s \in quarantined \/ \E k \in lost : s = Target(t, k)
      /\ \A s \in quarantined' : s \in quarantined \/ s \in SlotsOf(t)
  BY <1>a, <1>c, ZenonT(60) DEF SlotsOf
<1>2. \A k \in K : /\ k \in Keys /\ ActiveKey(t, k) /\ Target(t, k) \in Slots
                   /\ published[k] \in Slots
                   /\ \A j \in Keys : published[j] = Target(t, k) => j = k
                   /\ \A j \in K : Target(t, j) = Target(t, k) => j = k
  BY <1>1, ActiveApart, ActivePublished, SMTT(60)
<1>3. \A k \in K : /\ Owns(t, k) /\ slots[Target(t, k)].key = k
                   /\ host[Target(t, k)] \in {k} \X Versions
                   /\ old[t][k] # None => /\ published[k] = old[t][k]
                                          /\ Resident(k) /\ old[t][k] # Target(t, k)
                   /\ old[t][k] = None => published[k] = Target(t, k)
  BY <1>1, <1>2, ZenonT(60) DEF ActiveKey, Owns
<1>4. ASSUME NEW k \in Keys \ K, published[k] # None
      PROVE  /\ published'[k] = published[k] /\ published[k] \in Slots
             /\ published[k] \notin SlotsOf(t) \cup stale \cup replaced
             /\ slots'[published[k]] = slots[published[k]]
  <2>1. published'[k] = published[k] /\ published[k] \in Slots
    BY <1>0, <1>1, <1>4, <1>c, SMTT(60) DEF TypeOK
  <2>2. published[k] \notin SlotsOf(t) \cup stale
    BY <1>2, <1>b DEF SlotsOf
  <2>3. \A j \in K : published[j] # published[k]
    BY <1>2, <1>4, PublishedApart, ZenonT(60)
  <2>4. published[k] \notin replaced
    BY <2>3, <1>3, <1>b
  <2> QED
    BY <2>1, <2>2, <2>4, <1>1, ZenonT(60)
<1>5. ASSUME NEW k \in K, Unchanged(t, k)
      PROVE  /\ published'[k] = published[k] /\ published[k] \in Slots
             /\ published[k] \notin SlotsOf(t) \cup stale \cup replaced
             /\ slots'[published[k]] = slots[published[k]] /\ Resident(k)
  <2>1. old[t][k] # None /\ published[k] = old[t][k] /\ Resident(k)
        /\ published[k] # Target(t, k)
    BY <1>3, <1>5, ZenonT(60) DEF Unchanged
  <2>2. published'[k] = published[k] /\ published[k] \in Slots
    BY <1>1, <1>2, <1>5, <1>c, ZenonT(60)
  <2>3. published[k] \notin SlotsOf(t) \cup stale
    BY <1>2, <1>b, <2>1, ZenonT(60) DEF SlotsOf
  <2>4. \A j \in K : published[j] = published[k] => j = k
    BY <1>2, PublishedApart, TierAssumption
  <2>5. published[k] \notin replaced
    BY <2>4, <1>3, <1>5, <1>b
  <2> QED
    BY <2>1, <2>2, <2>3, <2>5, <1>1, ZenonT(60)
<1>6. ASSUME NEW k \in K, ~Unchanged(t, k)
      PROVE  /\ published'[k] = IF k \in lost THEN None ELSE Target(t, k)
             /\ Target(t, k) \in Slots
             /\ slots'[Target(t, k)] = Fresh(Target(t, k))
  <2>1. Target(t, k) \in Slots /\ Target(t, k) \in SlotsOf(t)
    BY <1>2, ZenonT(60) DEF SlotsOf
  <2>2. Target(t, k) \notin stale
    BY <1>2, <1>6, <1>b
  <2>3. ASSUME NEW j \in K PROVE old[t][j] # Target(t, k)
    <3>1. CASE old[t][j] = None
      BY <3>1, <2>1, TierAssumption, ZenonT(60)
    <3>2. CASE old[t][j] # None
      <4>1. published[j] = old[t][j] /\ old[t][j] # Target(t, j) /\ j \in Keys
        BY <3>2, <1>2, <1>3, ZenonT(60)
      <4> QED
        BY <4>1, <1>2, ZenonT(60)
    <3> QED
      BY <3>1, <3>2, ZenonT(60)
  <2>4. Target(t, k) \notin replaced
    BY <2>3, <1>b, ZenonT(60)
  <2> QED
    BY <2>1, <2>2, <2>4, <1>1, <1>2, <1>6, ZenonT(60)
<1>7. \A s \in SlotsOf(t) : slots[s] \in Entry /\ host[s] \in Data
  <2> SUFFICES ASSUME NEW k \in K
               PROVE  slots[Target(t, k)] \in Entry /\ host[Target(t, k)] \in Data
    BY ZenonT(60) DEF SlotsOf
  <2> QED
    BY <1>0, <1>2, <1>3 DEF TypeOK, Owns, Data
<1>8. TypeOK'
  <2>1. \A s \in SlotsOf(t) : Fresh(s) \in Entry
    BY <1>7, ZenonT(60) DEF Fresh, Entry, EntryState
  <2>2. slots' \in [Slots -> Entry \cup {None}]
    BY <2>1, <1>0, <1>1, ZenonT(60) DEF TypeOK
  <2>3. published' \in [Keys -> Slots \cup {None}]
    BY <1>0, <1>1, <1>2, ZenonT(60) DEF TypeOK
  <2>4. ASSUME NEW k \in Keys, published'[k] # None
        PROVE  slots'[published'[k]] # None /\ slots'[published'[k]].key = k
    <3>1. CASE k \in K /\ ~Unchanged(t, k)
      <4>1. Fresh(Target(t, k)) \in Entry
        BY <3>1, <2>1, ZenonT(60) DEF SlotsOf
      <4>2. None \notin Entry
        BY TierAssumption, ZenonT(60) DEF Entry, EntryState
      <4>3. published'[k] = Target(t, k) /\ slots'[Target(t, k)] = Fresh(Target(t, k))
        BY <3>1, <2>4, <1>6, ZenonT(60)
      <4>4. slots[Target(t, k)].key = k
        BY <3>1, <1>3, ZenonT(60)
      <4>5. Fresh(Target(t, k)).key = slots[Target(t, k)].key
        BY ZenonT(60) DEF Fresh
      <4> QED
        BY <4>1, <4>2, <4>3, <4>4, <4>5, ZenonT(60)
    <3>2. CASE k \in K /\ Unchanged(t, k)
      BY <3>2, <2>4, <1>0, <1>5, ZenonT(60) DEF TypeOK
    <3>3. CASE k \notin K
      <4>1. published[k] # None
        BY <3>3, <2>4, <1>1, ZenonT(60)
      <4> QED
        BY <3>3, <4>1, <1>0, <1>4, ZenonT(60) DEF TypeOK
    <3> QED
      BY <3>1, <3>2, <3>3, ZenonT(60)
  <2>5. phase' \in [Transfers -> {"idle", "active", "finalized", "failed", "cancelled"}]
    BY <1>0, <1>a, ZenonT(60) DEF TypeOK
  <2>6. inFlight' \subseteq Keys /\ quarantinedKeys' \subseteq Keys
    BY <1>0, <1>1, <1>2, <1>a, <1>c, ZenonT(60) DEF TypeOK
  <2>7. quarantined' \subseteq Slots
    <3>1. quarantined \subseteq Slots
      BY <1>0, ZenonT(60) DEF TypeOK
    <3>2. \A s \in SlotsOf(t) : s \in Slots
      BY <1>2, ZenonT(60) DEF SlotsOf
    <3> QED
      BY <3>1, <3>2, <1>d, ZenonT(60)
  <2> QED
    BY <2>2, <2>3, <2>4, <2>5, <2>6, <2>7, <1>0, <1>1, <1>a,
       PagesGoBack, ZenonT(60) DEF TypeOK
<1>9. ASSUME NEW u \in Transfers, u # t, phase[u] = "active", NEW j \in KeysOf(u)
      PROVE  ActiveKey(u, j)'
  <2>1. /\ j \in Keys /\ page[u][j] \in DevicePages /\ ActiveKey(u, j)
        /\ Target(u, j) \in Slots /\ published[j] \in Slots /\ j \notin K
    BY <1>1, <1>9, ActiveApart, ActivePublished, ZenonT(60) DEF TierInv, DisjointInv
  <2>2. Target(u, j) \notin SlotsOf(t) /\ owner[page[u][j]] = u
    BY <2>1, <1>1, <1>9, ActiveApart DEF SlotsOf, ActiveKey
  <2>3. Target(u, j) \notin stale
    BY <2>2, <1>b, ZenonT(60) DEF SlotsOf
  <2>4. \A k \in K : published[k] # Target(u, j)
    BY <2>1, <1>2, <1>9, ActiveApart, ZenonT(60)
  <2>5. Target(u, j) \notin replaced
    <3>1. ASSUME NEW k \in K, old[t][k] # None PROVE Target(u, j) # old[t][k]
      BY <3>1, <2>4, <1>3, ZenonT(60)
    <3> QED
      BY <3>1, <1>b, ZenonT(60)
  <2>6. /\ slots'[Target(u, j)] = slots[Target(u, j)]
        /\ published'[j] = published[j]
        /\ slots'[published[j]] = slots[published[j]]
    BY <2>1, <2>2, <2>3, <2>5, <1>1, <1>4, TierAssumption, ZenonT(60)
  <2>7. /\ owner'[page[u][j]] = u
        /\ device'[page[u][j]] = device[page[u][j]]
    BY <2>1, <2>2, <1>1, <1>9, PagesGoBack, ZenonT(60)
  <2>8. Target(u, j) \notin quarantined' /\ j \in inFlight'
    BY <2>1, <2>2, <1>1, <1>d, ZenonT(60) DEF ActiveKey
  <2> QED
    BY <2>1, <2>6, <2>7, <2>8, <1>a, ActiveFrame, ZenonT(60)
<1>10. ASSUME NEW s \in quarantined
       PROVE  /\ s \in Slots /\ s \notin SlotsOf(t) \cup stale \cup replaced
              /\ slots'[s] = slots[s]
  <2>1. s \in Slots /\ s \notin SlotsOf(t) /\ s \notin stale
    BY <1>0, <1>2, <1>b, SMTT(60) DEF SlotsOf, ActiveKey, TypeOK
  <2>2. s \notin replaced
    <3>1. ASSUME NEW k \in K, old[t][k] # None PROVE s # old[t][k]
      <4>1. k \in Keys /\ published[k] \in Slots /\ published[k] = old[t][k]
        BY <3>1, <1>2, <1>3, ZenonT(60)
      <4> QED
        BY <4>1, <1>0, TierAssumption, ZenonT(60) DEF RetentionInv
    <3> QED
      BY <3>1, <1>b, ZenonT(60)
  <2> QED
    BY <2>1, <2>2, <1>1, ZenonT(60)
<1>11. ASSUME NEW u \in Transfers, running[u], phase[u] # "active", NEW j \in KeysOf(u)
       PROVE  StrayKey(u, j)'
  <2>1. StrayKey(u, j) /\ Target(u, j) \in quarantined
    BY <1>11, StrayApart, ZenonT(60) DEF StrayKey
  <2> QED
    BY <2>1, <1>1, <1>a, <1>d, <1>10, StrayFrame, PagesGoBack, ZenonT(60) DEF StrayKey
<1>12. HandleInv'
  <2>1. \A u \in Transfers : KeysOf(u)' = KeysOf(u)
    BY <1>a, ZenonT(60) DEF KeysOf
  <2>2. phase'[t] = outcome /\ \A u \in Transfers \ {t} : phase'[u] = phase[u]
    BY <1>0, <1>a, ZenonT(60) DEF TypeOK
  <2>3. ~running'[t]
    BY <1>1, <1>a, ZenonT(60)
  <2> QED
    BY <2>1, <2>2, <2>3, <1>a, <1>9, <1>11, ZenonT(60) DEF HandleInv, TierInv
<1>13. DisjointInv'
  BY <1>0, <1>a DEF TierInv, DisjointInv, KeysOf, TypeOK
<1>14. ASSUME NEW k \in Keys, published'[k] # None
       PROVE  /\ published'[k] \notin quarantined'
              /\ slots'[published'[k]].state = "resident" \/ k \in inFlight'
              /\ slots'[published'[k]].state = "resident" =>
                     /\ slots'[published'[k]].sum \in {k} \X Versions
                     /\ host'[published'[k]] \in {slots'[published'[k]].sum, None}
  <2>1. CASE k \in K /\ ~Unchanged(t, k)
    <3>1. /\ published'[k] = Target(t, k) /\ slots'[Target(t, k)] = Fresh(Target(t, k))
          /\ Target(t, k) \notin quarantined /\ k \notin lost
      BY <2>1, <1>14, <1>2, <1>6, ZenonT(60) DEF ActiveKey
    <3>2. host[Target(t, k)] \in {k} \X Versions
      BY <2>1, <1>3, ZenonT(60)
    <3>3. host' = host /\ Target(t, k) \notin quarantined'
      BY <2>1, <3>1, <1>a, <1>c, <1>d, ZenonT(60)
    <3> QED
      BY <3>1, <3>2, <3>3, SMTT(60) DEF Fresh
  <2>2. CASE k \in K /\ Unchanged(t, k)
    <3>1. /\ published'[k] = published[k] /\ slots'[published[k]] = slots[published[k]]
          /\ Resident(k) /\ published[k] \notin SlotsOf(t)
      BY <2>2, <1>5, ZenonT(60)
    <3> QED
      BY <3>1, <1>0, <1>a, <1>d, ZenonT(60) DEF RetentionInv, ResidentHoldsItsKey, Resident
  <2>3. CASE k \notin K
    <3>1. published[k] # None
      BY <2>3, <1>14, <1>1, ZenonT(60)
    <3>2. /\ published'[k] = published[k] /\ slots'[published[k]] = slots[published[k]]
          /\ published[k] \notin SlotsOf(t)
      BY <2>3, <3>1, <1>4, ZenonT(60)
    <3>3. published[k] \notin quarantined'
          /\ (slots[published[k]].state = "resident" \/ k \in inFlight')
      <4>1. published[k] \notin quarantined
            /\ (slots[published[k]].state = "resident" \/ k \in inFlight)
        BY <3>1, <1>0, Zenon DEF RetentionInv
      <4>2. k \in inFlight => k \in inFlight'
        BY <2>3, <1>1, ZenonT(60)
      <4> QED
        BY <4>1, <4>2, <3>2, <1>d, Zenon
    <3>4. slots[published[k]].state = "resident" =>
              /\ slots[published[k]].sum \in {k} \X Versions
              /\ host[published[k]] \in {slots[published[k]].sum, None}
      BY <3>1, <1>0, ZenonT(60) DEF ResidentHoldsItsKey, Resident
    <3> QED
      BY <3>2, <3>3, <3>4, <1>a, ZenonT(60)
  <2> QED
    BY <2>1, <2>2, <2>3, ZenonT(60)
<1>15. RetentionInv'
  <2>1. ASSUME NEW s \in quarantined' PROVE slots'[s] # None
    <3>1. CASE s \in quarantined
      BY <3>1, <1>0, <1>10, ZenonT(60) DEF RetentionInv
    <3>2. ASSUME NEW k \in lost, s = Target(t, k) PROVE slots'[s] # None
      <4>1. slots'[s] = Fresh(s) /\ s \in Slots
        BY <3>2, <1>c, <1>6, ZenonT(60)
      <4>2. slots[s] \in Entry /\ host[s] \in Data
        BY <3>2, <1>c, <1>7, ZenonT(60) DEF SlotsOf
      <4>3. Fresh(s) \in Entry
        BY <4>2, ZenonT(60) DEF Fresh, Entry, EntryState
      <4>4. None \notin Entry
        BY TierAssumption, ZenonT(60) DEF Entry, EntryState
      <4> QED
        BY <4>1, <4>3, <4>4, ZenonT(60)
    <3> QED
      BY <3>1, <3>2, <1>d, ZenonT(60)
  <2> QED
    BY <2>1, <1>1, <1>a, <1>14, PagesGoBack, ZenonT(60) DEF RetentionInv
<1>16. ResidentHoldsItsKey'
  BY <1>14, ZenonT(60) DEF ResidentHoldsItsKey, Resident
<1> QED
  BY <1>8, <1>12, <1>13, <1>15, <1>16, ZenonT(60) DEF TierInv

----------------------------------------------------------------------------
(* The begin of a transfer.                                                *)

\* The device pages of a new batch were nobody's; once reserved or quarantined
\* they are nobody else's.
LEMMA PagesTaken ==
    ASSUME TierInv, NEW t \in Transfers, NEW K \in SUBSET Keys, NEW pg,
           NEW outcome \in {"active", "failed"}, Batch(K, pg),
           NEW P, P = {pg[k] : k \in K}, ReservePages(t, P, outcome)
    PROVE  /\ owner' \in [DevicePages -> Transfers \cup {None}]
           /\ quarantinedPages' \subseteq DevicePages
           /\ \A p \in DevicePages : owner'[p] # None => p \notin quarantinedPages'
<1>1. TypeOK /\ RetentionInv
  BY ZenonT(60) DEF TierInv
<1>2. \A k \in K : /\ pg[k] \in DevicePages /\ owner[pg[k]] = None
                   /\ pg[k] \notin quarantinedPages
  BY ZenonT(60) DEF Batch
<1>3. CASE outcome = "active"
  BY <1>1, <1>2, <1>3, TierAssumption DEF ReservePages, TypeOK, RetentionInv
<1>4. CASE outcome = "failed"
  BY <1>1, <1>2, <1>4 DEF ReservePages, TypeOK, RetentionInv
<1> QED
  BY <1>3, <1>4, ZenonT(60)

\* The handles' part of the invariant after a batch was started: what each
\* other handle and the new one must satisfy key by key.
LEMMA HandlesAfterBegin ==
    ASSUME TierInv, NEW t \in Transfers, NEW K \in SUBSET Keys, NEW pg,
           NEW outcome \in {"active", "failed"}, Batch(K, pg),
           \A k \in K : k \notin inFlight,
           phase'[t] = outcome, KeysOf(t)' = K, page'[t] = pg,
           \A u \in Transfers \ {t} : /\ phase'[u] = phase[u] /\ page'[u] = page[u]
                                      /\ running'[u] = running[u],
           \A u \in Transfers \ {t} : phase[u] = "active" =>
               \A j \in KeysOf(u) : ActiveKey(u, j)',
           \A u \in Transfers \ {t} : running[u] /\ phase[u] # "active" =>
               \A j \in KeysOf(u) : StrayKey(u, j)',
           outcome = "active" => \A k \in K : ActiveKey(t, k)',
           outcome = "failed" => \A k \in K : StrayKey(t, k)'
    PROVE  HandleInv' /\ DisjointInv'
<1>1. HandleInv'
  <2> SUFFICES ASSUME NEW u \in Transfers
               PROVE  /\ phase'[u] = "idle" => ~running'[u] /\ KeysOf(u)' = {}
                      /\ phase'[u] = "active" => \A k \in KeysOf(u)' : ActiveKey(u, k)'
                      /\ running'[u] /\ phase'[u] # "active"
                             => \A k \in KeysOf(u)' : StrayKey(u, k)'
                      /\ \A j, k \in KeysOf(u)' : page'[u][j] = page'[u][k] => j = k
    BY ZenonT(60) DEF HandleInv
  <2>1. CASE u = t
    <3>1. \A j, k \in K : pg[j] = pg[k] => j = k
      BY ZenonT(60) DEF Batch
    <3> QED
      BY <2>1, <3>1, ZenonT(60)
  <2>2. CASE u # t
    <3>1. phase[u] = "idle" => ~running'[u]
      BY <2>2, ZenonT(60) DEF TierInv, HandleInv
    <3> QED
      BY <2>2, <3>1, HandleFrame, ZenonT(60)
  <2> QED
    BY <2>1, <2>2, ZenonT(60)
<1>2. DisjointInv'
  <2>1. \A u \in Transfers \ {t} : KeysOf(u)' = KeysOf(u)
    BY ZenonT(60) DEF KeysOf
  <2>2. \A u \in Transfers \ {t} : phase[u] = "active" =>
            \A k \in KeysOf(u) : k \in inFlight
    BY ZenonT(60) DEF TierInv, HandleInv, ActiveKey
  <2> QED
    BY <2>1, <2>2 DEF TierInv, DisjointInv
<1> QED
  BY <1>1, <1>2, ZenonT(60)

(***************************************************************************)
(* The begin of a restore and of an offload, and the theorems.             *)
(***************************************************************************)
\* Starting a restore turns resident entries over to the new handle.
LEMMA BeginRestoreInv ==
    ASSUME TierInv, NEW t \in Transfers, NEW K \in SUBSET Keys, NEW pg,
           NEW outcome \in {"active", "failed"}, Batch(K, pg), BeginRestore(t, K, pg, outcome)
    PROVE  TierInv'
<1>0. TypeOK /\ RetentionInv /\ ResidentHoldsItsKey
  BY ZenonT(60) DEF TierInv
<1>1. \A k \in K : /\ Resident(k) /\ k \notin inFlight /\ k \in Keys
                   /\ host[published[k]] = slots[published[k]].sum
                   /\ published[k] \in Slots /\ published[k] \notin quarantined
                   /\ slots[published[k]] \in Entry /\ slots[published[k]].key = k
                   /\ slots[published[k]].sum \in {k} \X Versions
  BY <1>0, SMTT(60) DEF BeginRestore, Resident, TypeOK, RetentionInv, ResidentHoldsItsKey
<1>2. PICK P, ref, prev :
          /\ P = {pg[k] : k \in K} /\ ReservePages(t, P, outcome)
          /\ ref = [k \in Keys |-> IF k \in K
                                   THEN [slot |-> published[k],
                                         gen |-> slots[published[k]].gen]
                                   ELSE NoEntry]
          /\ prev = [k \in Keys |-> None]
          /\ Hold(t, pg, ref, prev, outcome)
  BY ZenonT(60) DEF BeginRestore
<1>3. /\ generation' = generation /\ host' = host /\ device' = device
      /\ offload' = [offload EXCEPT ![t] = FALSE]
  BY ZenonT(60) DEF BeginRestore
<1>4. /\ phase'[t] = outcome /\ offload'[t] = FALSE /\ running'[t] = TRUE
      /\ entry'[t] = ref /\ old'[t] = prev /\ page'[t] = pg
  BY <1>0, <1>2, <1>3, ZenonT(60) DEF Hold, TypeOK
<1>5. KeysOf(t)' = K
  BY <1>4, ZenonT(60) DEF KeysOf, Batch
<1>6. \A u \in Transfers \ {t} :
          /\ phase'[u] = phase[u] /\ running'[u] = running[u] /\ offload'[u] = offload[u]
          /\ entry'[u] = entry[u] /\ old'[u] = old[u] /\ page'[u] = page[u]
  BY <1>0, <1>2, <1>3, ZenonT(60) DEF Hold, TypeOK
<1>7. /\ \A k \in K : /\ outcome = "active" => owner'[pg[k]] = t
                      /\ outcome = "failed" => pg[k] \in quarantinedPages'
      /\ \A p \in DevicePages : owner[p] # None => owner'[p] = owner[p]
      /\ quarantinedPages \subseteq quarantinedPages'
  <2>1. \A k \in K : pg[k] \in DevicePages /\ owner[pg[k]] = None
    BY ZenonT(60) DEF Batch
  <2> QED
    BY <2>1, <1>2, ZenonT(60) DEF ReservePages
<1>8. ASSUME NEW k \in K
      PROVE  /\ slots'[published[k]].key = k
             /\ slots'[published[k]].gen = slots[published[k]].gen
             /\ slots'[published[k]].state = "restoring"
             /\ slots'[published[k]] \in Entry
  <2>1. /\ published[k] \in Slots /\ slots[published[k]].key = k /\ k \in Keys
        /\ slots[published[k]].gen \in Nat /\ slots[published[k]].sum \in Data \cup {None}
    BY <1>1, ZenonT(60) DEF Entry
  <2>2. slots'[published[k]] =
            [key |-> slots[published[k]].key, gen |-> slots[published[k]].gen,
             state |-> "restoring", sum |-> slots[published[k]].sum]
    BY <2>1, ZenonT(60) DEF BeginRestore
  <2> QED
    BY <2>1, <2>2, SMTT(60) DEF Entry, EntryState
<1>9. \A s \in Slots : (\A k \in K : published[k] # s) => slots'[s] = slots[s]
  BY ZenonT(60) DEF BeginRestore
<1>10. /\ \A k \in Keys \ K : published'[k] = published[k]
       /\ \A k \in K : published'[k] = IF outcome = "active" THEN published[k] ELSE None
       /\ inFlight' = IF outcome = "active" THEN inFlight \cup K ELSE inFlight
       /\ quarantined' = IF outcome = "active" THEN quarantined
                         ELSE quarantined \cup {published[k] : k \in K}
       /\ published' \in [Keys -> Slots \cup {None}]
  BY <1>0, ZenonT(60) DEF BeginRestore, TypeOK
<1>11. \A k \in K : \A j \in Keys : published[j] = published[k] => j = k
  BY <1>1, PublishedApart, ZenonT(60) DEF Resident
<1>12. \A k \in Keys : (k \notin K /\ published[k] # None) =>
           /\ published[k] \in Slots /\ slots'[published[k]] = slots[published[k]]
  BY <1>0, <1>9, <1>11 DEF TypeOK
<1>13. None \notin Entry
  BY TierAssumption, ZenonT(60) DEF Entry, EntryState
<1>14. TypeOK'
  <2>1. slots' \in [Slots -> Entry \cup {None}]
    <3>1. \A s \in Slots : slots'[s] \in Entry \cup {None}
      BY <1>0, <1>8, <1>9, ZenonT(60) DEF TypeOK
    <3> QED
      BY <3>1, ZenonT(60) DEF BeginRestore
  <2>2. ASSUME NEW k \in Keys, published'[k] # None
        PROVE  slots'[published'[k]] # None /\ slots'[published'[k]].key = k
    <3>1. CASE k \in K
      <4>1. published'[k] = published[k]
        BY <3>1, <2>2, <1>10, ZenonT(60)
      <4> QED
        BY <3>1, <4>1, <1>8, <1>13
    <3>2. CASE k \notin K
      BY <3>2, <2>2, <1>0, <1>10, <1>12 DEF TypeOK
    <3> QED
      BY <3>1, <3>2, ZenonT(60)
  <2>3. inFlight' \subseteq Keys /\ quarantined' \subseteq Slots
    BY <1>0, <1>1, <1>10 DEF TypeOK
  <2>4. quarantinedKeys' \subseteq Keys
    BY <1>0, ZenonT(60) DEF TypeOK, BeginRestore
  <2>5. ref \in [Keys -> EntryRef] /\ prev \in [Keys -> Slots \cup {None}]
    <3>1. \A k \in K : [slot |-> published[k], gen |-> slots[published[k]].gen] \in EntryRef
      BY <1>1, ZenonT(60) DEF EntryRef, Entry
    <3> QED
      BY <3>1, <1>2, ZenonT(60) DEF EntryRef
  <2>6. /\ phase' \in [Transfers -> {"idle", "active", "finalized", "failed", "cancelled"}]
        /\ offload' \in [Transfers -> BOOLEAN] /\ running' \in [Transfers -> BOOLEAN]
    BY <1>0, <1>2, <1>3, ZenonT(60) DEF Hold, TypeOK
  <2>6a. /\ entry' \in [Transfers -> [Keys -> EntryRef]]
         /\ old' \in [Transfers -> [Keys -> Slots \cup {None}]]
    BY <2>5, <1>0, <1>2, ZenonT(60) DEF Hold, TypeOK
  <2>6b. page' \in [Transfers -> [Keys -> DevicePages \cup {None}]]
    BY <1>0, <1>2, ZenonT(60) DEF Hold, TypeOK, Batch
  <2>7. /\ owner' \in [DevicePages -> Transfers \cup {None}]
        /\ quarantinedPages' \subseteq DevicePages
    BY <1>2, PagesTaken, ZenonT(60)
  <2> QED
    BY <2>1, <2>2, <2>3, <2>4, <2>6, <2>6a, <2>6b, <2>7, <1>0, <1>3, <1>10, ZenonT(60) DEF TypeOK
<1>15. ASSUME NEW u \in Transfers \ {t}, phase[u] = "active", NEW j \in KeysOf(u)
       PROVE  ActiveKey(u, j)'
  <2>1. /\ j \in Keys /\ Target(u, j) \in Slots /\ page[u][j] \in DevicePages
        /\ ActiveKey(u, j) /\ published[j] \in Slots
        /\ \A k \in Keys : published[k] = Target(u, j) => k = j
    BY <1>15, ActiveApart, ActivePublished, ZenonT(60)
  <2>2. j \in inFlight /\ j \notin K /\ owner[page[u][j]] = u
        /\ Target(u, j) \notin quarantined
    BY <2>1, <1>1, ZenonT(60) DEF ActiveKey
  <2>3. \A k \in K : published[k] # Target(u, j)
    BY <2>1, <2>2, ZenonT(60)
  <2>4. /\ slots'[Target(u, j)] = slots[Target(u, j)]
        /\ published'[j] = published[j] /\ slots'[published[j]] = slots[published[j]]
    BY <2>1, <2>2, <2>3, <1>9, <1>10, <1>12, TierAssumption, ZenonT(60)
  <2>5. Target(u, j) \notin quarantined' /\ j \in inFlight'
    BY <2>2, <2>3, <1>10, ZenonT(60)
  <2>6. owner'[page[u][j]] = u
    BY <2>1, <2>2, <1>7, TierAssumption, ZenonT(60)
  <2> QED
    BY <2>1, <2>4, <2>5, <2>6, <1>3, <1>6, ActiveFrame, ZenonT(60)
<1>16. ASSUME NEW u \in Transfers \ {t}, running[u], phase[u] # "active", NEW j \in KeysOf(u)
       PROVE  StrayKey(u, j)'
  <2>1. StrayKey(u, j) /\ Target(u, j) \in Slots /\ \A k \in Keys : published[k] # Target(u, j)
    BY <1>16, StrayApart, ZenonT(60)
  <2>2. slots'[Target(u, j)] = slots[Target(u, j)] /\ Target(u, j) \in quarantined'
    BY <2>1, <1>9, <1>10, ZenonT(60) DEF StrayKey
  <2>3. page[u][j] \in quarantinedPages' /\ entry'[u] = entry[u] /\ page'[u] = page[u]
    BY <2>1, <1>6, <1>7, ZenonT(60) DEF StrayKey
  <2> QED
    BY <2>1, <2>2, <2>3, StrayFrame, ZenonT(60)
<1>17. ASSUME NEW k \in K
       PROVE  /\ Target(t, k)' = published[k] /\ Owns(t, k)' /\ page'[t][k] = pg[k]
              /\ old'[t][k] = None
  <2>1. entry'[t][k] = [slot |-> published[k], gen |-> slots[published[k]].gen]
    BY <1>1, <1>2, <1>4, ZenonT(60)
  <2>2. old'[t][k] = None
    BY <1>1, <1>2, <1>4, SMTT(60)
  <2> QED
    BY <2>1, <2>2, <1>4, <1>8, <1>13, SMTT(60) DEF Target, Owns
<1>18. ASSUME outcome = "active", NEW k \in K PROVE ActiveKey(t, k)'
  <2>1. owner'[pg[k]] = t /\ published'[k] = published[k] /\ k \in inFlight'
        /\ quarantined' = quarantined
    BY <1>7, <1>10, <1>18, ZenonT(60)
  <2>2. host'[published[k]] \in {k} \X Versions
    BY <1>1, <1>3, ZenonT(60)
  <2>3. offload'[t] = FALSE /\ running'[t] = TRUE
    BY <1>4, ZenonT(60)
  <2>4. published[k] \in Slots /\ published[k] \notin quarantined
        /\ slots'[published[k]].state = "restoring"
    BY <1>1, <1>8, ZenonT(60)
  <2>5. /\ Target(t, k)' = published[k] /\ Owns(t, k)' /\ page'[t][k] = pg[k]
        /\ old'[t][k] = None
    BY <1>17, ZenonT(60)
  <2> QED
    BY <2>1, <2>2, <2>3, <2>4, <2>5, ZenonT(60) DEF ActiveKey
<1>19. ASSUME outcome = "failed", NEW k \in K PROVE StrayKey(t, k)'
  BY <1>7, <1>10, <1>17, <1>19, ZenonT(60) DEF StrayKey
<1>20. HandleInv' /\ DisjointInv'
  BY <1>1, <1>4, <1>5, <1>6, <1>15, <1>16, <1>18, <1>19, HandlesAfterBegin, SMTT(60)
<1>21. RetentionInv'
  <2>1. \A p \in DevicePages : owner'[p] # None => p \notin quarantinedPages'
    BY <1>2, PagesTaken, ZenonT(60)
  <2>2. ASSUME NEW s \in quarantined' PROVE slots'[s] # None
    <3>1. CASE \E k \in K : published[k] = s
      BY <3>1, <1>8, <1>13
    <3>2. CASE \A k \in K : published[k] # s
      BY <3>2, <2>2, <1>0, <1>9, <1>10, ZenonT(60) DEF RetentionInv, TypeOK
    <3> QED
      BY <3>1, <3>2, ZenonT(60)
  <2>3. ASSUME NEW k \in Keys, published'[k] # None
        PROVE  /\ published'[k] \notin quarantined'
               /\ slots'[published'[k]].state = "resident" \/ k \in inFlight'
    <3>1. CASE k \in K
      BY <3>1, <2>3, <1>1, <1>10, ZenonT(60)
    <3>2. CASE k \notin K
      <4>1. published'[k] = published[k] /\ published[k] \notin quarantined
            /\ slots'[published[k]] = slots[published[k]]
        BY <3>2, <2>3, <1>0, <1>10, <1>12, ZenonT(60) DEF RetentionInv
      <4>2. published[k] \notin quarantined'
        BY <4>1, <3>2, <1>10, <1>11, SMTT(60)
      <4> QED
        BY <4>1, <4>2, <2>3, <1>0, <1>10, ZenonT(60) DEF RetentionInv
    <3> QED
      BY <3>1, <3>2, ZenonT(60)
  <2> QED
    BY <2>1, <2>2, <2>3, ZenonT(60) DEF RetentionInv
<1>22. ResidentHoldsItsKey'
  <2> SUFFICES ASSUME NEW k \in Keys, Resident(k)'
               PROVE  /\ slots'[published'[k]].sum \in {k} \X Versions
                      /\ host'[published'[k]] \in {slots'[published'[k]].sum, None}
    BY ZenonT(60) DEF ResidentHoldsItsKey
  <2>1. published'[k] # None /\ slots'[published'[k]].state = "resident"
    BY ZenonT(60) DEF Resident
  <2>2. k \notin K
    <3> SUFFICES ASSUME k \in K PROVE FALSE
      BY ZenonT(60)
    <3>1. published'[k] = published[k]
      BY <2>1, <1>10, ZenonT(60)
    <3> QED
      BY <2>1, <3>1, <1>8, ZenonT(60)
  <2>3. published'[k] = published[k] /\ slots'[published[k]] = slots[published[k]]
    BY <2>1, <2>2, <1>10, <1>12, ZenonT(60)
  <2> QED
    BY <2>1, <2>3, <1>0, <1>3, ZenonT(60) DEF ResidentHoldsItsKey, Resident
<1> QED
  BY <1>14, <1>20, <1>21, <1>22, ZenonT(60) DEF TierInv

\* A payload of k in some version.
LEMMA Stamped ==
    ASSUME NEW k, NEW v \in Versions
    PROVE  <<k, v>> \in {k} \X Versions
OBVIOUS

\* Starting an offload takes free slots and those of resident victims; no
\* handle and no other published entry uses them.
LEMMA BeginOffloadInv ==
    ASSUME TierInv, NEW t \in Transfers, NEW K \in SUBSET Keys, NEW pg, NEW sl,
           NEW victims, NEW ver \in Versions, NEW outcome \in {"active", "failed"},
           Batch(K, pg), BeginOffload(t, K, pg, sl, victims, ver, outcome)
    PROVE  TierInv'
<1>0. TypeOK /\ RetentionInv /\ ResidentHoldsItsKey
  BY ZenonT(60) DEF TierInv
<1> DEFINE N == {sl[k] : k \in K}
           V == {published[v] : v \in victims}
<1>1. \A v \in victims : /\ v \in Keys /\ v \notin K /\ Resident(v) /\ v \notin inFlight
                         /\ published[v] \in Slots /\ slots[published[v]] # None
                         /\ slots[published[v]].key = v
                         /\ published[v] \notin quarantined
  BY <1>0 DEF BeginOffload, Candidates, Resident, TypeOK, RetentionInv
<1>2. \A k \in K : /\ k \in Keys /\ k \notin inFlight
                   /\ published[k] = None \/ Resident(k)
                   /\ sl[k] \in Slots
                   /\ slots[sl[k]] = None \/ sl[k] \in V
                   /\ \A j \in K : sl[j] = sl[k] => j = k
  <2>1. Assignment(K, victims, sl)
    BY ZenonT(60) DEF BeginOffload
  <2> QED
    BY <2>1, <1>1, ZenonT(60) DEF BeginOffload, Assignment, Free
<1>3. PICK P, ref, prev :
          /\ P = {pg[k] : k \in K} /\ ReservePages(t, P, outcome)
          /\ ref = [k \in Keys |-> IF k \in K
                                   THEN [slot |-> sl[k], gen |-> generation[sl[k]] + 1]
                                   ELSE NoEntry]
          /\ prev = [k \in Keys |-> IF k \in K THEN published[k] ELSE None]
          /\ Hold(t, pg, ref, prev, outcome)
  BY ZenonT(60) DEF BeginOffload
<1>4. host' = host /\ offload' = [offload EXCEPT ![t] = TRUE]
  BY ZenonT(60) DEF BeginOffload
<1>5. /\ phase'[t] = outcome /\ offload'[t] = TRUE /\ running'[t] = TRUE
      /\ entry'[t] = ref /\ old'[t] = prev /\ page'[t] = pg
  BY <1>0, <1>3, <1>4, ZenonT(60) DEF Hold, TypeOK
<1>6. KeysOf(t)' = K
  BY <1>5, ZenonT(60) DEF KeysOf, Batch
<1>7. \A u \in Transfers \ {t} :
          /\ phase'[u] = phase[u] /\ running'[u] = running[u] /\ offload'[u] = offload[u]
          /\ entry'[u] = entry[u] /\ old'[u] = old[u] /\ page'[u] = page[u]
  BY <1>0, <1>3, <1>4, ZenonT(60) DEF Hold, TypeOK
<1>8. \A k \in K : /\ pg[k] \in DevicePages /\ owner[pg[k]] = None
                   /\ \A j \in K : pg[j] = pg[k] => j = k
  BY ZenonT(60) DEF Batch
<1>9. /\ \A k \in K : /\ outcome = "active" => owner'[pg[k]] = t
                      /\ outcome = "failed" => pg[k] \in quarantinedPages'
      /\ \A p \in DevicePages : owner[p] # None => owner'[p] = owner[p]
      /\ quarantinedPages \subseteq quarantinedPages'
  BY <1>8, <1>3, ZenonT(60) DEF ReservePages
<1>10. None \notin Entry
  BY TierAssumption, ZenonT(60) DEF Entry, EntryState
<1>11. ASSUME NEW k \in K
       PROVE  /\ slots'[sl[k]].key = k /\ slots'[sl[k]].state = "offloading"
              /\ slots'[sl[k]].gen = generation[sl[k]] + 1
              /\ slots'[sl[k]] \in Entry
  <2>1. (CHOOSE j \in K : sl[j] = sl[k]) = k
    BY <1>2, ZenonT(60)
  <2>2. slots'[sl[k]] = [key |-> CHOOSE j \in K : sl[j] = sl[k],
                         gen |-> generation[sl[k]] + 1,
                         state |-> "offloading", sum |-> None]
    BY <1>2, ZenonT(60) DEF BeginOffload
  <2>3. generation[sl[k]] + 1 \in Nat
    BY <1>0, <1>2 DEF TypeOK
  <2>4. slots'[sl[k]] = [key |-> k, gen |-> generation[sl[k]] + 1,
                         state |-> "offloading", sum |-> None]
    BY <2>1, <2>2, ZenonT(60)
  <2>5. k \in Keys
    BY <1>2, ZenonT(60)
  <2>6. [key |-> k, gen |-> generation[sl[k]] + 1, state |-> "offloading", sum |-> None]
            \in Entry
    BY <2>3, <2>5, SMTT(30) DEF Entry, EntryState
  <2> QED
    BY <2>4, <2>6, SMTT(30)
<1>12. ASSUME NEW s \in Slots, s \notin N, s \notin V PROVE slots'[s] = slots[s]
  <2>1. ~(\E k \in K : sl[k] = s) /\ ~(\E v \in victims : published[v] = s)
    BY <1>12, ZenonT(60)
  <2> QED
    BY <2>1, ZenonT(60) DEF BeginOffload
<1>13. /\ \A k \in victims : published'[k] = None
       /\ \A k \in K : published'[k] = IF published[k] = None /\ outcome = "active"
                                       THEN sl[k] ELSE published[k]
       /\ \A k \in Keys : (k \notin K /\ k \notin victims) => published'[k] = published[k]
       /\ published' \in [Keys -> Slots \cup {None}]
  BY <1>0, <1>1, <1>2, ZenonT(60) DEF BeginOffload, TypeOK
<1>14. /\ inFlight' = IF outcome = "active" THEN inFlight \cup K ELSE inFlight
       /\ quarantined' = IF outcome = "active" THEN quarantined ELSE quarantined \cup N
  BY ZenonT(60) DEF BeginOffload
<1>15. ASSUME NEW s \in Slots, slots[s] # None,
              \A v \in victims : slots[s].key # v
       PROVE  s \notin N /\ s \notin V
  BY <1>1, <1>2, <1>15
<1>16. ASSUME NEW k \in Keys, k \notin victims, published[k] # None
       PROVE  /\ published[k] \in Slots /\ published[k] \notin N
              /\ slots'[published[k]] = slots[published[k]]
  <2>1. published[k] \in Slots /\ slots[published[k]] # None /\ slots[published[k]].key = k
    BY <1>0, <1>16, ZenonT(60) DEF TypeOK
  <2> QED
    BY <2>1, <1>12, <1>15, <1>16, ZenonT(60)
<1>17. ASSUME NEW s \in quarantined
       PROVE  s \in Slots /\ s \notin N /\ slots'[s] = slots[s] /\ slots[s] # None
  <2>1. s \in Slots /\ slots[s] # None
    BY <1>0, ZenonT(60) DEF TypeOK, RetentionInv
  <2>2. s \notin V
    BY <1>1, ZenonT(60)
  <2>3. s \notin N
    BY <2>1, <2>2, <1>2, ZenonT(60)
  <2> QED
    BY <2>1, <2>2, <2>3, <1>12, ZenonT(60)
<1>18. TypeOK'
  <2>1. slots' \in [Slots -> Entry \cup {None}]
    <3>1. ASSUME NEW s \in Slots PROVE slots'[s] \in Entry \cup {None}
      <4>1. CASE s \in N
        BY <4>1, <1>11, ZenonT(60)
      <4>2. CASE s \notin N /\ s \notin V
        BY <4>2, <1>0, <1>12, ZenonT(60) DEF TypeOK
      <4>3. CASE s \notin N /\ s \in V
        <5>1. ~(\E k \in K : sl[k] = s) /\ \E v \in victims : published[v] = s
          BY <4>3, ZenonT(60)
        <5> QED
          BY <5>1, ZenonT(60) DEF BeginOffload
      <4> QED
        BY <4>1, <4>2, <4>3, ZenonT(60)
    <3> QED
      BY <3>1, ZenonT(60) DEF BeginOffload
  <2>2. ASSUME NEW k \in Keys, published'[k] # None
        PROVE  slots'[published'[k]] # None /\ slots'[published'[k]].key = k
    <3>1. k \notin victims
      BY <2>2, <1>13, ZenonT(60)
    <3>2. CASE published[k] # None
      <4>1. published'[k] = published[k]
        BY <3>1, <3>2, <1>13, ZenonT(60)
      <4> QED
        BY <3>1, <3>2, <4>1, <1>0, <1>16, ZenonT(60) DEF TypeOK
    <3>3. CASE published[k] = None
      <4>1. k \in K /\ published'[k] = sl[k]
        BY <2>2, <3>1, <3>3, <1>13, ZenonT(60)
      <4> QED
        BY <4>1, <1>10, <1>11, ZenonT(60)
    <3> QED
      BY <3>2, <3>3, ZenonT(60)
  <2>3. inFlight' \subseteq Keys /\ quarantined' \subseteq Slots
    BY <1>0, <1>2, <1>14 DEF TypeOK
  <2>4. quarantinedKeys' \subseteq Keys
    BY <1>0, ZenonT(60) DEF TypeOK, BeginOffload
  <2>5. ref \in [Keys -> EntryRef] /\ prev \in [Keys -> Slots \cup {None}]
    <3>1. \A k \in K : [slot |-> sl[k], gen |-> generation[sl[k]] + 1] \in EntryRef
      BY <1>0, <1>2, SMTT(60) DEF EntryRef, TypeOK
    <3> QED
      BY <3>1, <1>0, <1>3, ZenonT(60) DEF EntryRef, TypeOK
  <2>6. /\ phase' \in [Transfers -> {"idle", "active", "finalized", "failed", "cancelled"}]
        /\ offload' \in [Transfers -> BOOLEAN] /\ running' \in [Transfers -> BOOLEAN]
    BY <1>0, <1>3, <1>4, ZenonT(60) DEF Hold, TypeOK
  <2>7. /\ entry' \in [Transfers -> [Keys -> EntryRef]]
        /\ old' \in [Transfers -> [Keys -> Slots \cup {None}]]
    <3>1. entry' = [entry EXCEPT ![t] = ref] /\ old' = [old EXCEPT ![t] = prev]
      BY <1>3, ZenonT(60) DEF Hold
    <3>2. /\ entry \in [Transfers -> [Keys -> EntryRef]]
          /\ old \in [Transfers -> [Keys -> Slots \cup {None}]]
      BY <1>0, ZenonT(60) DEF TypeOK
    <3> QED
      BY <2>5, <3>1, <3>2, ZenonT(60)
  <2>8. page' \in [Transfers -> [Keys -> DevicePages \cup {None}]]
    <3>1. page' = [page EXCEPT ![t] = pg]
      BY <1>3, ZenonT(60) DEF Hold
    <3>2. /\ page \in [Transfers -> [Keys -> DevicePages \cup {None}]]
          /\ pg \in [Keys -> DevicePages \cup {None}]
      BY <1>0, ZenonT(60) DEF TypeOK, Batch
    <3> QED
      BY <3>1, <3>2, ZenonT(60)
  <2>9. /\ owner' \in [DevicePages -> Transfers \cup {None}]
        /\ quarantinedPages' \subseteq DevicePages
    BY <1>3, PagesTaken, ZenonT(60)
  <2>10. generation' \in [Slots -> Nat]
    BY <1>0 DEF BeginOffload, TypeOK
  <2>11. device' \in [DevicePages -> Data \cup {None}]
    <3>1. ASSUME NEW p \in DevicePages, \E k \in K : pg[k] = p
          PROVE  <<CHOOSE k \in K : pg[k] = p, ver>> \in Data
      <4>1. (CHOOSE k \in K : pg[k] = p) \in K
        BY <3>1, ZenonT(60)
      <4>2. \A k \in K : <<k, ver>> \in Data
        BY <1>2, ZenonT(60) DEF Data
      <4> QED
        BY <4>1, <4>2, Zenon
    <3> QED
      BY <3>1, <1>0, ZenonT(60) DEF BeginOffload, TypeOK
  <2> QED
    BY <2>1, <2>2, <2>3, <2>4, <2>6, <2>7, <2>8, <2>9, <2>10, <2>11, <1>0, <1>4, <1>13, ZenonT(60)
    DEF TypeOK
<1>19. ASSUME NEW u \in Transfers \ {t}, phase[u] = "active", NEW j \in KeysOf(u)
       PROVE  ActiveKey(u, j)'
  <2>1. /\ j \in Keys /\ Target(u, j) \in Slots /\ page[u][j] \in DevicePages
        /\ ActiveKey(u, j) /\ published[j] \in Slots
    BY <1>19, ActiveApart, ActivePublished, ZenonT(60)
  <2>2. /\ j \in inFlight /\ j \notin K /\ j \notin victims /\ owner[page[u][j]] = u
        /\ Target(u, j) \notin quarantined
        /\ slots[Target(u, j)] # None /\ slots[Target(u, j)].key = j
    BY <2>1, <1>1, <1>2, ZenonT(60) DEF ActiveKey, Owns
  <2>3. Target(u, j) \notin N /\ Target(u, j) \notin V
    BY <2>1, <2>2, <1>15, ZenonT(60)
  <2>4. /\ slots'[Target(u, j)] = slots[Target(u, j)]
        /\ published'[j] = published[j] /\ slots'[published[j]] = slots[published[j]]
    BY <2>1, <2>2, <2>3, <1>12, <1>13, <1>16, TierAssumption, ZenonT(60)
  <2>5. Target(u, j) \notin quarantined' /\ j \in inFlight'
    BY <2>2, <2>3, <1>14, ZenonT(60)
  <2>6. owner'[page[u][j]] = u
    BY <2>1, <2>2, <1>9, TierAssumption, ZenonT(60)
  <2>7. device'[page[u][j]] = device[page[u][j]]
    <3>1. ~ \E k \in K : pg[k] = page[u][j]
      BY <2>2, <1>8, TierAssumption, ZenonT(60)
    <3> QED
      BY <3>1, <2>1, ZenonT(60) DEF BeginOffload
  <2> QED
    BY <2>1, <2>4, <2>5, <2>6, <2>7, <1>4, <1>7, ActiveFrame, ZenonT(60)
<1>20. ASSUME NEW u \in Transfers \ {t}, running[u], phase[u] # "active", NEW j \in KeysOf(u)
       PROVE  StrayKey(u, j)'
  <2>1. StrayKey(u, j) /\ Target(u, j) \in quarantined
    BY <1>20, StrayApart, ZenonT(60) DEF StrayKey
  <2>2. slots'[Target(u, j)] = slots[Target(u, j)] /\ Target(u, j) \in quarantined'
    BY <2>1, <1>14, <1>17, ZenonT(60)
  <2>3. page[u][j] \in quarantinedPages' /\ entry'[u] = entry[u] /\ page'[u] = page[u]
    BY <2>1, <1>7, <1>9, ZenonT(60) DEF StrayKey
  <2> QED
    BY <2>1, <2>2, <2>3, StrayFrame, ZenonT(60)
<1>21. ASSUME NEW k \in K
       PROVE  /\ Target(t, k)' = sl[k] /\ Owns(t, k)' /\ page'[t][k] = pg[k]
              /\ old'[t][k] = published[k]
  <2>1. entry'[t][k] = [slot |-> sl[k], gen |-> generation[sl[k]] + 1]
    BY <1>2, <1>3, <1>5, ZenonT(60)
  <2>2. old'[t][k] = published[k]
    BY <1>2, <1>3, <1>5, ZenonT(60)
  <2>3. entry'[t][k].slot = sl[k] /\ entry'[t][k].gen = generation[sl[k]] + 1
    BY <2>1, SMTT(30)
  <2>4. Target(t, k)' = sl[k] /\ page'[t][k] = pg[k]
    BY <2>3, <1>5, ZenonT(60) DEF Target
  <2>5. slots'[sl[k]] # None
    BY <1>10, <1>11, ZenonT(60)
  <2>6. Owns(t, k)'
    BY <2>3, <2>4, <2>5, <1>11, ZenonT(60) DEF Owns, Target
  <2> QED
    BY <2>2, <2>4, <2>6, ZenonT(60)
<1>22. ASSUME outcome = "active", NEW k \in K PROVE ActiveKey(t, k)'
  <2>1. owner'[pg[k]] = t /\ k \in inFlight' /\ quarantined' = quarantined
    BY <1>9, <1>14, <1>22, ZenonT(60)
  <2>2. sl[k] \in Slots /\ sl[k] \notin quarantined
    BY <1>2, <1>17, ZenonT(60)
  <2>3. device'[pg[k]] \in {k} \X Versions
    <3>1. (CHOOSE j \in K : pg[j] = pg[k]) = k
      BY <1>8, ZenonT(60)
    <3>2. device'[pg[k]] = <<CHOOSE j \in K : pg[j] = pg[k], ver>>
      BY <1>8, ZenonT(60) DEF BeginOffload
    <3>3. device'[pg[k]] = <<k, ver>>
      BY <3>1, <3>2, Zenon
    <3> QED
      BY <3>3, Stamped, ZenonT(60)
  <2>4. published[k] = None => published'[k] = sl[k]
    BY <1>13, <1>22, ZenonT(60)
  <2>5. ASSUME published[k] # None
        PROVE  published'[k] = published[k] /\ Resident(k)' /\ published[k] # sl[k]
    <3>1. k \in Keys /\ k \notin victims /\ Resident(k)
      BY <2>5, <1>1, <1>2, ZenonT(60)
    <3>2. published'[k] = published[k]
      BY <2>5, <1>13, ZenonT(60)
    <3> QED
      BY <2>5, <3>1, <3>2, <1>16, ZenonT(60) DEF Resident
  <2>6. offload'[t] = TRUE /\ running'[t] = TRUE
    BY <1>5, ZenonT(60)
  <2> QED
    BY <2>1, <2>2, <2>3, <2>4, <2>5, <2>6, <1>11, <1>21, ZenonT(60) DEF ActiveKey
<1>23. ASSUME outcome = "failed", NEW k \in K PROVE StrayKey(t, k)'
  BY <1>9, <1>14, <1>21, <1>23, ZenonT(60) DEF StrayKey
<1>24. HandleInv' /\ DisjointInv'
  BY <1>2, <1>5, <1>6, <1>7, <1>19, <1>20, <1>22, <1>23, HandlesAfterBegin, ZenonT(60)
<1>25. RetentionInv'
  <2>1. \A p \in DevicePages : owner'[p] # None => p \notin quarantinedPages'
    BY <1>3, PagesTaken, ZenonT(60)
  <2>2. \A s \in quarantined' : slots'[s] # None
    BY <1>10, <1>11, <1>14, <1>17
  <2>3. ASSUME NEW k \in Keys, published'[k] # None
        PROVE  /\ published'[k] \notin quarantined'
               /\ slots'[published'[k]].state = "resident" \/ k \in inFlight'
    <3>1. k \notin victims
      BY <2>3, <1>13, ZenonT(60)
    <3>2. CASE published[k] # None
      <4>1. /\ published'[k] = published[k] /\ published[k] \notin N
            /\ slots'[published[k]] = slots[published[k]]
        BY <3>1, <3>2, <1>13, <1>16, ZenonT(60)
      <4> QED
        BY <3>2, <4>1, <1>0, <1>14, ZenonT(60) DEF RetentionInv
    <3>3. CASE published[k] = None
      <4>1. k \in K /\ published'[k] = sl[k] /\ outcome = "active"
        BY <2>3, <3>1, <3>3, <1>13, ZenonT(60)
      <4> QED
        BY <4>1, <1>14, <1>17, ZenonT(60)
    <3> QED
      BY <3>2, <3>3, ZenonT(60)
  <2> QED
    BY <2>1, <2>2, <2>3, ZenonT(60) DEF RetentionInv
<1>26. ResidentHoldsItsKey'
  <2> SUFFICES ASSUME NEW k \in Keys, Resident(k)'
               PROVE  /\ slots'[published'[k]].sum \in {k} \X Versions
                      /\ host'[published'[k]] \in {slots'[published'[k]].sum, None}
    BY ZenonT(60) DEF ResidentHoldsItsKey
  <2>1. published'[k] # None /\ slots'[published'[k]].state = "resident"
    BY ZenonT(60) DEF Resident
  <2>2. k \notin victims
    BY <2>1, <1>13, ZenonT(60)
  <2>3. published[k] # None
    <3> SUFFICES ASSUME published[k] = None PROVE FALSE
      OBVIOUS
    <3>1. k \in K /\ published'[k] = sl[k]
      BY <2>1, <2>2, <1>13, ZenonT(60)
    <3> QED
      BY <2>1, <3>1, <1>11, ZenonT(60)
  <2>4. published'[k] = published[k] /\ slots'[published[k]] = slots[published[k]]
    BY <2>2, <2>3, <1>13, <1>16, ZenonT(60)
  <2> QED
    BY <2>1, <2>4, <1>0, <1>4, ZenonT(60) DEF ResidentHoldsItsKey, Resident
<1> QED
  BY <1>18, <1>24, <1>25, <1>26, ZenonT(60) DEF TierInv

----------------------------------------------------------------------------
(* Host slots are accounted for.                                           *)

\* A handle with the same keys and entries works on the same slots.
LEMMA SameSlots ==
    ASSUME NEW u, page'[u] = page[u], entry'[u] = entry[u]
    PROVE  SlotsOf(u)' = SlotsOf(u)
BY ZenonT(60) DEF SlotsOf, KeysOf, Target

\* A slot whose entry keeps its key stays accounted for when a step takes back
\* neither its quarantine nor its publication nor its handle.
LEMMA StillHeld ==
    ASSUME NoSlotLeaks, NEW s \in Slots, slots[s] # None, slots'[s].key = slots[s].key,
           s \in quarantined => s \in quarantined',
           published[slots[s].key] = s =>
               s \in quarantined' \/ published'[slots[s].key] = s,
           \A u \in Transfers : phase[u] = "active" /\ s \in SlotsOf(u) =>
               \/ s \in quarantined'
               \/ phase'[u] = "active" /\ page'[u] = page[u] /\ entry'[u] = entry[u]
    PROVE  \/ s \in quarantined'
           \/ published'[slots'[s].key] = s
           \/ \E u \in Transfers : phase'[u] = "active" /\ s \in SlotsOf(u)'
<1>1. CASE s \in quarantined \/ published[slots[s].key] = s
  BY <1>1, ZenonT(60)
<1>2. ASSUME NEW u \in Transfers, phase[u] = "active", s \in SlotsOf(u)
      PROVE  s \in quarantined' \/ (phase'[u] = "active" /\ s \in SlotsOf(u)')
  BY <1>2, SameSlots, ZenonT(60)
<1> QED
  BY <1>1, <1>2, ZenonT(60) DEF NoSlotLeaks

\* Copies that land, memory that decays and steps outside the tier move no slot.
LEMMA QuietSlots ==
    ASSUME NoSlotLeaks, UNCHANGED <<tierVars, handleVars>>
    PROVE  NoSlotLeaks'
<1>1. /\ slots' = slots /\ published' = published /\ quarantined' = quarantined
      /\ phase' = phase /\ page' = page /\ entry' = entry
  BY ZenonT(60) DEF tierVars, handleVars
<1> SUFFICES ASSUME NEW s \in Slots, slots'[s] # None
             PROVE  \/ s \in quarantined'
                    \/ published'[slots'[s].key] = s
                    \/ \E u \in Transfers : phase'[u] = "active" /\ s \in SlotsOf(u)'
  BY ZenonT(60) DEF NoSlotLeaks
<1> QED
  BY <1>1, StillHeld, ZenonT(60)

\* Only a handle that is no longer active is forgotten.
LEMMA RetireSlots ==
    ASSUME TierInv, NoSlotLeaks, NEW t \in Transfers, Retire(t)
    PROVE  NoSlotLeaks'
<1>1. TypeOK /\ phase[t] # "active" /\ slots' = slots /\ published' = published
      /\ quarantined' = quarantined
  BY ZenonT(60) DEF Retire, TierInv, tierVars
<1>2. \A u \in Transfers \ {t} : /\ phase'[u] = phase[u] /\ page'[u] = page[u]
                                 /\ entry'[u] = entry[u]
  BY <1>1, ZenonT(60) DEF Retire, TypeOK
<1> SUFFICES ASSUME NEW s \in Slots, slots'[s] # None
             PROVE  \/ s \in quarantined'
                    \/ published'[slots'[s].key] = s
                    \/ \E u \in Transfers : phase'[u] = "active" /\ s \in SlotsOf(u)'
  BY ZenonT(60) DEF NoSlotLeaks
<1> QED
  BY <1>1, <1>2, StillHeld, ZenonT(60)

\* A corrupted entry that loses its publication is quarantined.
LEMMA RestoreRefusedSlots ==
    ASSUME TierInv, NoSlotLeaks, NEW K \in SUBSET Keys, RestoreRefused(K)
    PROVE  NoSlotLeaks'
<1> DEFINE bad == {k \in K : host[published[k]] # slots[published[k]].sum}
<1>1. /\ slots' = slots /\ phase' = phase /\ page' = page /\ entry' = entry
      /\ published' = [k \in Keys |-> IF k \in bad THEN None ELSE published[k]]
      /\ quarantined' = quarantined \cup {published[k] : k \in bad}
  BY ZenonT(60) DEF RestoreRefused, handleVars
<1> SUFFICES ASSUME NEW s \in Slots, slots'[s] # None
             PROVE  \/ s \in quarantined'
                    \/ published'[slots'[s].key] = s
                    \/ \E u \in Transfers : phase'[u] = "active" /\ s \in SlotsOf(u)'
  BY ZenonT(60) DEF NoSlotLeaks
<1>2. slots[s].key \in Keys
  BY <1>1 DEF TierInv, TypeOK, Entry
<1> HIDE DEF bad
<1>3. published[slots[s].key] = s => s \in quarantined' \/ published'[slots[s].key] = s
  BY <1>1, <1>2, ZenonT(60)
<1> QED
  BY <1>1, <1>3, StillHeld, ZenonT(60)

\* A transfer that is abandoned or whose host commit fails leaves every slot it
\* worked on to the quarantine.
LEMMA QuarantinedSlots ==
    ASSUME TierInv, NoSlotLeaks, NEW t \in Transfers, phase[t] = "active",
           NEW retain \in BOOLEAN, QuarantineEntries(t, retain),
           NEW outcome, phase' = [phase EXCEPT ![t] = outcome],
           UNCHANGED <<slots, page, entry>>
    PROVE  NoSlotLeaks'
<1>1. /\ quarantined' = quarantined \cup SlotsOf(t)
      /\ \A k \in Keys \ KeysOf(t) : published'[k] = published[k]
      /\ \A k \in KeysOf(t) : published'[k] = IF published[k] = Target(t, k)
                                              THEN None ELSE published[k]
  BY Quarantining, ZenonT(60)
<1>2. \A u \in Transfers \ {t} : phase'[u] = phase[u]
  BY ZenonT(60) DEF TierInv, TypeOK
<1> SUFFICES ASSUME NEW s \in Slots, slots'[s] # None
             PROVE  \/ s \in quarantined'
                    \/ published'[slots'[s].key] = s
                    \/ \E u \in Transfers : phase'[u] = "active" /\ s \in SlotsOf(u)'
  BY ZenonT(60) DEF NoSlotLeaks
<1>3. slots[s].key \in Keys
  BY DEF TierInv, TypeOK, Entry
<1>4. published[slots[s].key] = s => s \in quarantined' \/ published'[slots[s].key] = s
  BY <1>1, <1>3, ZenonT(60) DEF SlotsOf
<1>5. s \in SlotsOf(t) => s \in quarantined'
  BY <1>1, ZenonT(60)
<1> QED
  BY <1>1, <1>2, <1>4, <1>5, StillHeld, ZenonT(60)

\* A finished restore frees the slots it worked on and no publication of
\* another slot.
LEMMA FinalizeRestoreSlots ==
    ASSUME TierInv, NoSlotLeaks, NEW t \in Transfers, NEW outcome,
           FinalizeRestore(t, outcome)
    PROVE  NoSlotLeaks'
<1>1. /\ slots' = [s \in Slots |-> IF s \in SlotsOf(t) THEN None ELSE slots[s]]
      /\ published' = [k \in Keys |->
                          IF k \in KeysOf(t) /\ published[k] = Target(t, k)
                          THEN None ELSE published[k]]
      /\ phase' = [phase EXCEPT ![t] = outcome]
      /\ quarantined' = quarantined /\ page' = page /\ entry' = entry
  BY ZenonT(60) DEF FinalizeRestore
<1>2. \A u \in Transfers \ {t} : phase'[u] = phase[u]
  BY <1>1, ZenonT(60) DEF TierInv, TypeOK
<1> SUFFICES ASSUME NEW s \in Slots, slots'[s] # None
             PROVE  \/ s \in quarantined'
                    \/ published'[slots'[s].key] = s
                    \/ \E u \in Transfers : phase'[u] = "active" /\ s \in SlotsOf(u)'
  BY ZenonT(60) DEF NoSlotLeaks
<1>3. s \notin SlotsOf(t) /\ slots'[s] = slots[s]
  BY <1>1, ZenonT(60)
<1>4. slots[s].key \in Keys
  BY <1>3 DEF TierInv, TypeOK, Entry
<1>5. published[slots[s].key] = s => published'[slots[s].key] = s
  BY <1>1, <1>3, <1>4, ZenonT(60) DEF SlotsOf
<1> QED
  BY <1>1, <1>2, <1>3, <1>5, StillHeld, ZenonT(60)

\* A discarded key gives up exactly the slot it was published under.
LEMMA DiscardSlots ==
    ASSUME TierInv, NoSlotLeaks, NEW k \in Keys, Discard(k)
    PROVE  NoSlotLeaks'
<1>1. /\ slots' = [slots EXCEPT ![published[k]] = None]
      /\ published' = [published EXCEPT ![k] = None]
      /\ quarantined' = quarantined /\ phase' = phase /\ page' = page /\ entry' = entry
  BY ZenonT(60) DEF Discard, handleVars
<1>2. TypeOK
  BY ZenonT(60) DEF TierInv
<1> SUFFICES ASSUME NEW s \in Slots, slots'[s] # None
             PROVE  \/ s \in quarantined'
                    \/ published'[slots'[s].key] = s
                    \/ \E u \in Transfers : phase'[u] = "active" /\ s \in SlotsOf(u)'
  BY ZenonT(60) DEF NoSlotLeaks
<1>3. s # published[k] /\ slots'[s] = slots[s]
  BY <1>1, <1>2, ZenonT(60) DEF TypeOK
<1>4. published[slots[s].key] = s => published'[slots[s].key] = s
  BY <1>1, <1>2, <1>3 DEF TypeOK, Entry
<1> QED
  BY <1>1, <1>3, <1>4, StillHeld, ZenonT(60)

\* Of the two copies of a key a finished offload keeps one, published or, when
\* recording it fails, quarantined.
LEMMA FinalizeOffloadSlots ==
    ASSUME TierInv, NoSlotLeaks, NEW t \in Transfers, NEW outcome,
           FinalizeOffload(t, outcome)
    PROVE  NoSlotLeaks'
<1> DEFINE K == KeysOf(t)
           stale == {Target(t, k) : k \in {j \in K : Unchanged(t, j)}}
           replaced == {old[t][k] : k \in {j \in K : ~Unchanged(t, j)}} \ {None}
           lost == {k \in K : outcome = "failed" /\ ~Unchanged(t, k)}
<1>1. /\ slots' = [s \in Slots |->
             IF s \in stale \cup replaced THEN None
             ELSE IF s \in SlotsOf(t)
             THEN [key |-> slots[s].key, gen |-> slots[s].gen,
                   state |-> "resident", sum |-> host[s]]
             ELSE slots[s]]
      /\ published' = [k \in Keys |->
             IF k \in lost THEN None
             ELSE IF k \in K /\ ~Unchanged(t, k) THEN Target(t, k) ELSE published[k]]
      /\ phase' = [phase EXCEPT ![t] = outcome]
      /\ quarantined' = quarantined \cup {Target(t, k) : k \in lost} /\ page' = page /\ entry' = entry
  BY ZenonT(60) DEF FinalizeOffload
<1>2. TypeOK /\ phase[t] = "active" /\ offload[t]
  BY ZenonT(60) DEF FinalizeOffload, TierInv
<1>3. \A u \in Transfers \ {t} : phase'[u] = phase[u]
  BY <1>1, <1>2, ZenonT(60) DEF TypeOK
<1>4. \A k \in K : /\ k \in Keys /\ Target(t, k) \in Slots
                   /\ slots[Target(t, k)].key = k
                   /\ published[k] = Target(t, k) \/ published[k] = old[t][k]
  <2> SUFFICES ASSUME NEW k \in K
               PROVE  /\ k \in Keys /\ Target(t, k) \in Slots
                      /\ slots[Target(t, k)].key = k
                      /\ published[k] = Target(t, k) \/ published[k] = old[t][k]
    BY ZenonT(60)
  <2>1. k \in Keys /\ Target(t, k) \in Slots /\ ActiveKey(t, k)
    BY <1>2, ActiveApart, ZenonT(60)
  <2> QED
    BY <1>2, <2>1, ZenonT(60) DEF ActiveKey, Owns
<1> SUFFICES ASSUME NEW s \in Slots, slots'[s] # None
             PROVE  \/ s \in quarantined'
                    \/ published'[slots'[s].key] = s
                    \/ \E u \in Transfers : phase'[u] = "active" /\ s \in SlotsOf(u)'
  BY ZenonT(60) DEF NoSlotLeaks
<1>5. s \notin stale /\ s \notin replaced
  BY <1>1, ZenonT(60)
<1>6. CASE s \in SlotsOf(t)
  <2>1. PICK k \in K : s = Target(t, k)
    BY <1>6, ZenonT(60) DEF SlotsOf
  <2>2. ~Unchanged(t, k)
    BY <1>5, <2>1, ZenonT(60)
  <2>3. published'[k] = s \/ s \in quarantined'
    BY <1>1, <1>4, <2>1, <2>2, ZenonT(60)
  <2>4. slots'[s] = [key |-> slots[s].key, gen |-> slots[s].gen,
                     state |-> "resident", sum |-> host[s]]
    BY <1>1, <1>5, <1>6, ZenonT(60)
  <2> QED
    BY <2>1, <2>3, <2>4, <1>4
<1>7. CASE s \notin SlotsOf(t)
  <2>1. slots'[s] = slots[s]
    BY <1>1, <1>5, <1>7, ZenonT(60)
  <2>2. slots[s].key \in Keys
    BY <1>2, <2>1 DEF TypeOK, Entry
  <2>3. ASSUME published[slots[s].key] = s PROVE published'[slots[s].key] = s
    <3>1. CASE slots[s].key \in K /\ ~Unchanged(t, slots[s].key)
      <4>1. s # Target(t, slots[s].key)
        BY <3>1, <1>7, ZenonT(60) DEF SlotsOf
      <4>2. s # old[t][slots[s].key]
        BY <3>1, <1>5, TierAssumption, ZenonT(60)
      <4> QED
        BY <4>1, <4>2, <3>1, <2>3, <1>4, ZenonT(60)
    <3>2. CASE ~(slots[s].key \in K /\ ~Unchanged(t, slots[s].key))
      BY <3>2, <2>2, <2>3, <1>1, ZenonT(60)
    <3> QED
      BY <3>1, <3>2, ZenonT(60)
  <2> QED
    BY <1>1, <1>3, <1>7, <2>1, <2>3, StillHeld, ZenonT(60)
<1> QED
  BY <1>6, <1>7, ZenonT(60)

\* Entries turned over to a restore stay published, or are quarantined when
\* its submission fails.
LEMMA BeginRestoreSlots ==
    ASSUME TierInv, NoSlotLeaks, NEW t \in Transfers, NEW K \in SUBSET Keys, NEW pg,
           NEW outcome \in {"active", "failed"}, BeginRestore(t, K, pg, outcome)
    PROVE  NoSlotLeaks'
<1>1. /\ slots' = [s \in Slots |->
             IF \E k \in K : published[k] = s
             THEN [key |-> slots[s].key, gen |-> slots[s].gen,
                   state |-> "restoring", sum |-> slots[s].sum]
             ELSE slots[s]]
      /\ published' = IF outcome = "active" THEN published
                      ELSE [k \in Keys |-> IF k \in K THEN None ELSE published[k]]
      /\ quarantined' = IF outcome = "active" THEN quarantined
                        ELSE quarantined \cup {published[k] : k \in K}
      /\ phase[t] = "idle"
  BY ZenonT(60) DEF BeginRestore
<1>2. TypeOK
  BY ZenonT(60) DEF TierInv
<1>3. \A u \in Transfers \ {t} : /\ phase'[u] = phase[u] /\ page'[u] = page[u]
                                 /\ entry'[u] = entry[u]
  BY <1>2, ZenonT(60) DEF BeginRestore, Hold, TypeOK
<1> SUFFICES ASSUME NEW s \in Slots, slots'[s] # None
             PROVE  \/ s \in quarantined'
                    \/ published'[slots'[s].key] = s
                    \/ \E u \in Transfers : phase'[u] = "active" /\ s \in SlotsOf(u)'
  BY ZenonT(60) DEF NoSlotLeaks
<1>4. slots[s] # None
  BY <1>1, <1>2, TierAssumption, ZenonT(60) DEF TypeOK
<1>5. slots'[s].key = slots[s].key
  BY <1>1
<1>6. slots[s].key \in Keys
  BY <1>2, <1>4 DEF TypeOK, Entry
<1>7. s \in quarantined => s \in quarantined'
  BY <1>1, ZenonT(60)
<1>8. published[slots[s].key] = s => s \in quarantined' \/ published'[slots[s].key] = s
  BY <1>1, <1>6, ZenonT(60)
<1> QED
  BY <1>1, <1>3, <1>4, <1>5, <1>7, <1>8, StillHeld, ZenonT(60)

\* The slots a new offload reserves are its handle's, or quarantined when its
\* submission fails; only the victims' slots are taken from anyone.
LEMMA BeginOffloadSlots ==
    ASSUME TierInv, NoSlotLeaks, NEW t \in Transfers, NEW K \in SUBSET Keys, NEW pg,
           NEW sl, NEW victims, NEW ver, NEW outcome \in {"active", "failed"},
           Batch(K, pg), BeginOffload(t, K, pg, sl, victims, ver, outcome)
    PROVE  NoSlotLeaks'
<1> DEFINE ref == [k \in Keys |-> IF k \in K
                                  THEN [slot |-> sl[k], gen |-> generation[sl[k]] + 1]
                                  ELSE NoEntry]
<1>1. /\ slots' = [s \in Slots |->
             IF \E k \in K : sl[k] = s
             THEN [key |-> CHOOSE k \in K : sl[k] = s, gen |-> generation[s] + 1,
                   state |-> "offloading", sum |-> None]
             ELSE IF \E v \in victims : published[v] = s THEN None
             ELSE slots[s]]
      /\ published' = [k \in Keys |->
             IF k \in victims THEN None
             ELSE IF k \in K /\ published[k] = None /\ outcome = "active"
             THEN sl[k] ELSE published[k]]
      /\ quarantined' = IF outcome = "active" THEN quarantined
                        ELSE quarantined \cup {sl[k] : k \in K}
      /\ phase[t] = "idle"
  BY ZenonT(60) DEF BeginOffload
<1>2. TypeOK
  BY ZenonT(60) DEF TierInv
<1>3. \A u \in Transfers \ {t} : /\ phase'[u] = phase[u] /\ page'[u] = page[u]
                                 /\ entry'[u] = entry[u]
  BY <1>2, ZenonT(60) DEF BeginOffload, Hold, TypeOK
<1>4. phase'[t] = outcome /\ page'[t] = pg /\ entry'[t] = ref
  BY <1>2, ZenonT(60) DEF BeginOffload, Hold, TypeOK
<1> SUFFICES ASSUME NEW s \in Slots, slots'[s] # None
             PROVE  \/ s \in quarantined'
                    \/ published'[slots'[s].key] = s
                    \/ \E u \in Transfers : phase'[u] = "active" /\ s \in SlotsOf(u)'
  BY ZenonT(60) DEF NoSlotLeaks
<1>5. ASSUME NEW k \in K, sl[k] = s
      PROVE  s \in quarantined' \/ (phase'[t] = "active" /\ s \in SlotsOf(t)')
  <2>1. k \in Keys /\ k \in KeysOf(t)'
    BY <1>4, ZenonT(60) DEF KeysOf, Batch
  <2>2. Target(t, k)' = s
    BY <1>4, <1>5, <2>1 DEF Target
  <2>3. s \in SlotsOf(t)'
    BY <2>1, <2>2, ZenonT(60) DEF SlotsOf
  <2> QED
    BY <1>1, <1>4, <1>5, <2>3, ZenonT(60)
<1>6. CASE ~ \E k \in K : sl[k] = s
  <2>1. slots'[s] = slots[s] /\ ~ \E v \in victims : published[v] = s
    BY <1>1, <1>6, ZenonT(60)
  <2>2. slots[s].key \in Keys
    BY <1>2, <2>1, ZenonT(30) DEF TypeOK, Entry
  <2>3. published[slots[s].key] = s => published'[slots[s].key] = s
    BY <1>1, <2>1, <2>2, TierAssumption, ZenonT(60)
  <2>4. s \in quarantined => s \in quarantined'
    BY <1>1, ZenonT(60)
  <2> QED
    BY <1>1, <1>3, <2>1, <2>3, <2>4, StillHeld, ZenonT(60)
<1> QED
  BY <1>5, <1>6, ZenonT(60)

----------------------------------------------------------------------------
(* The theorems.                                                           *)

\* Every step of the tier, of its device or of its callers keeps the
\* invariant.
LEMMA NextInv == TierInv /\ [Next]_vars => TierInv'
<1> SUFFICES ASSUME TierInv, [Next]_vars PROVE TierInv'
  OBVIOUS
<1>1. ASSUME NEW t \in Transfers, NEW K \in SUBSET Keys,
             NEW pg \in [Keys -> DevicePages \cup {None}],
             NEW outcome \in {"active", "failed"}, Batch(K, pg),
             NEW victims \in SUBSET Keys, NEW ver \in Versions,
             NEW sl \in [Keys -> Slots \cup {None}],
             BeginOffload(t, K, pg, sl, victims, ver, outcome)
      PROVE  TierInv'
  BY <1>1, BeginOffloadInv, ZenonT(60)
<1>2. ASSUME NEW t \in Transfers, NEW K \in SUBSET Keys,
             NEW pg \in [Keys -> DevicePages \cup {None}],
             NEW outcome \in {"active", "failed"}, Batch(K, pg),
             BeginRestore(t, K, pg, outcome)
      PROVE  TierInv'
  BY <1>2, BeginRestoreInv, ZenonT(60)
<1>3. ASSUME NEW K \in SUBSET Keys, RestoreRefused(K) PROVE TierInv'
  BY <1>3, RestoreRefusedInv, ZenonT(60)
<1>4. ASSUME NEW t \in Transfers, Fail(t) \/ Cancel(t) PROVE TierInv'
  BY <1>4, AbandonInv, ZenonT(60) DEF Fail, Cancel
<1>5. ASSUME NEW t \in Transfers, NEW outcome \in {"finalized", "failed"},
             FinalizeOffload(t, outcome) \/ FinalizeFails(t) \/ FinalizeRestore(t, outcome)
      PROVE  TierInv'
  BY <1>5, FinalizeOffloadInv, FinalizeFailsInv, FinalizeRestoreInv, ZenonT(60)
<1>6. ASSUME NEW t \in Transfers, Land(t) \/ Retire(t) PROVE TierInv'
  BY <1>6, LandInv, RetireInv, ZenonT(60)
<1>7. ASSUME NEW k \in Keys, Discard(k) \/ Corrupt(k) PROVE TierInv'
  BY <1>7, DiscardInv, CorruptInv, ZenonT(60)
<1>8. CASE UNCHANGED vars
  <2> USE <1>8 DEF vars, tierVars, handleVars
  <2>1. TypeOK' /\ RetentionInv' /\ ResidentHoldsItsKey'
    BY ZenonT(60) DEF TierInv, TypeOK, RetentionInv, ResidentHoldsItsKey, Resident
  <2>2. ASSUME NEW t \in Transfers, NEW k \in Keys
        PROVE  /\ ActiveKey(t, k) => ActiveKey(t, k)'
               /\ StrayKey(t, k) => StrayKey(t, k)'
    <3>1. ASSUME ActiveKey(t, k) PROVE ActiveKey(t, k)'
      <4>1. Target(t, k) \notin quarantined' /\ k \in inFlight' /\ owner'[page[t][k]] = t
        BY <3>1, ZenonT(60) DEF ActiveKey
      <4> QED
        BY <3>1, <4>1, ActiveFrame, ZenonT(60)
    <3>2. ASSUME StrayKey(t, k) PROVE StrayKey(t, k)'
      BY <3>2, StrayFrame, ZenonT(60) DEF StrayKey
    <3> QED
      BY <3>1, <3>2, ZenonT(60)
  <2>3. \A t \in Transfers : KeysOf(t)' = KeysOf(t) /\ KeysOf(t) \subseteq Keys
    BY ZenonT(60) DEF KeysOf
  <2>0. phase' = phase /\ running' = running /\ page' = page
    BY Zenon
  <2> HIDE <1>8 DEF vars, tierVars, handleVars
  <2>4. HandleInv'
    <3>1. ASSUME NEW t \in Transfers
          PROVE  /\ phase'[t] = "idle" => ~running'[t] /\ KeysOf(t)' = {}
                 /\ \A j, k \in KeysOf(t)' : page'[t][j] = page'[t][k] => j = k
      <4>1. HandleInv
        BY ZenonT(60) DEF TierInv
      <4>2. KeysOf(t)' = KeysOf(t)
        BY <2>3, ZenonT(60)
      <4> QED BY <2>0, <4>1, <4>2, SMTT(30) DEF HandleInv
    <3>2. ASSUME NEW t \in Transfers, phase'[t] = "active", NEW k \in KeysOf(t)'
          PROVE  ActiveKey(t, k)'
      BY <3>2, <2>0, <2>2, <2>3, SMTT(60) DEF TierInv, HandleInv
    <3>3. ASSUME NEW t \in Transfers, running'[t], phase'[t] # "active", NEW k \in KeysOf(t)'
          PROVE  StrayKey(t, k)'
      BY <3>3, <2>0, <2>2, <2>3, SMTT(60) DEF TierInv, HandleInv
    <3> QED
      BY <3>1, <3>2, <3>3, ZenonT(60) DEF HandleInv
  <2>5. DisjointInv'
    BY <2>0, <2>3, SMTT(60) DEF TierInv, DisjointInv
  <2> QED
    BY <2>1, <2>4, <2>5, ZenonT(60) DEF TierInv
<1> QED
  BY <1>1, <1>2, <1>3, <1>4, <1>5, <1>6, <1>7, <1>8, ZenonT(60) DEF Next

\* The invariant of the tier: every handle's entries, pages and data are where
\* TierTransfer expects them, and what is published is resident or in flight.
THEOREM TierInvariant == Spec => []TierInv
BY InitTier, NextInv, PTL DEF Spec

\* A key that available_prefix reports holds that key's KV.
THEOREM ResidentsAreIntact == Spec => []ResidentHoldsItsKey
<1>1. TierInv => ResidentHoldsItsKey
  BY ZenonT(60) DEF TierInv
<1> QED
  BY <1>1, TierInvariant, PTL

\* No slot or device page a running copy touches is given to anyone else, also
\* after its handle failed or was cancelled.
THEOREM RunningCopiesAreIsolated == Spec => []RunningCopyIsIsolated
<1>1. TierInv => RunningCopyIsIsolated
  <2> SUFFICES ASSUME TierInv, NEW t \in Transfers, running[t], NEW k \in KeysOf(t)
               PROVE  Owns(t, k) /\ (owner[page[t][k]] = t \/ page[t][k] \in quarantinedPages)
    BY ZenonT(60) DEF RunningCopyIsIsolated
  <2>1. CASE phase[t] = "active"
    BY <2>1, ZenonT(60) DEF TierInv, HandleInv, ActiveKey
  <2>2. CASE phase[t] # "active"
    BY <2>2, ZenonT(60) DEF TierInv, HandleInv, StrayKey
  <2> QED
    BY <2>1, <2>2, ZenonT(60)
<1> QED
  BY <1>1, TierInvariant, PTL

\* finalize() never meets a stale handle: the entries an active transfer
\* reserved, and the ones it replaces, are still the current ones.
THEOREM ActiveHandlesAreCurrent == Spec => []ActiveHandleIsCurrent
<1>1. TierInv => ActiveHandleIsCurrent
  <2> SUFFICES ASSUME TierInv, NEW t \in Transfers, phase[t] = "active", NEW k \in KeysOf(t)
               PROVE  /\ Owns(t, k) /\ k \in inFlight
                      /\ slots[Target(t, k)].state =
                             IF offload[t] THEN "offloading" ELSE "restoring"
                      /\ published[k] = IF old[t][k] = None THEN Target(t, k)
                                                            ELSE old[t][k]
    BY ZenonT(60) DEF ActiveHandleIsCurrent
  <2>1. ActiveKey(t, k)
    BY ZenonT(60) DEF TierInv, HandleInv
  <2> QED
    BY <2>1, ZenonT(60) DEF ActiveKey
<1> QED
  BY <1>1, TierInvariant, PTL

\* A restore that can be finalized has filled every destination page with the
\* KV of its key.
THEOREM RestoredPagesAreIntact == Spec => []RestoredPageHoldsItsKey
<1>1. TierInv => RestoredPageHoldsItsKey
  BY ZenonT(60) DEF TierInv, HandleInv, ActiveKey, RestoredPageHoldsItsKey
<1> QED
  BY <1>1, TierInvariant, PTL

\* Each variable of the tier keeps its type and a published key names an
\* occupied slot whose entry is its own.
THEOREM TypeCorrect == Spec => []TypeOK
<1>1. TierInv => TypeOK
  BY ZenonT(60) DEF TierInv
<1> QED
  BY <1>1, TierInvariant, PTL

\* No host slot leaks: whatever fails or is cancelled, an occupied slot is
\* published under its key, held by an active handle or quarantined.
THEOREM SlotsNeverLeak == Spec => []NoSlotLeaks
<1>1. Init => NoSlotLeaks
  BY ZenonT(60) DEF Init, NoSlotLeaks
<1>2. TierInv /\ NoSlotLeaks /\ [Next]_vars => NoSlotLeaks'
  <2> SUFFICES ASSUME TierInv, NoSlotLeaks, [Next]_vars PROVE NoSlotLeaks'
    OBVIOUS
  <2>1. ASSUME NEW t \in Transfers, NEW K \in SUBSET Keys,
               NEW pg \in [Keys -> DevicePages \cup {None}],
               NEW outcome \in {"active", "failed"}, Batch(K, pg),
               NEW victims \in SUBSET Keys, NEW ver \in Versions,
               NEW sl \in [Keys -> Slots \cup {None}],
               BeginOffload(t, K, pg, sl, victims, ver, outcome)
        PROVE  NoSlotLeaks'
    BY <2>1, BeginOffloadSlots, ZenonT(60)
  <2>2. ASSUME NEW t \in Transfers, NEW K \in SUBSET Keys,
               NEW pg \in [Keys -> DevicePages \cup {None}],
               NEW outcome \in {"active", "failed"}, BeginRestore(t, K, pg, outcome)
        PROVE  NoSlotLeaks'
    BY <2>2, BeginRestoreSlots, ZenonT(60)
  <2>3. ASSUME NEW K \in SUBSET Keys, RestoreRefused(K) PROVE NoSlotLeaks'
    BY <2>3, RestoreRefusedSlots, ZenonT(60)
  <2>4. ASSUME NEW t \in Transfers, NEW outcome, Abandon(t, outcome) PROVE NoSlotLeaks'
    <3>1. offload[t] \in BOOLEAN
      BY ZenonT(60) DEF TierInv, TypeOK
    <3> QED
      BY <2>4, <3>1, QuarantinedSlots, ZenonT(60) DEF Abandon
  <2>5. ASSUME NEW t \in Transfers, FinalizeFails(t) PROVE NoSlotLeaks'
    BY <2>5, QuarantinedSlots, ZenonT(60) DEF FinalizeFails
  <2>6. ASSUME NEW t \in Transfers, NEW outcome,
               FinalizeOffload(t, outcome) \/ FinalizeRestore(t, outcome) \/ Retire(t)
        PROVE  NoSlotLeaks'
    BY <2>6, FinalizeOffloadSlots, FinalizeRestoreSlots, RetireSlots, ZenonT(60)
  <2>7. ASSUME NEW k \in Keys, Discard(k) PROVE NoSlotLeaks'
    BY <2>7, DiscardSlots, ZenonT(60)
  <2>8. CASE UNCHANGED <<tierVars, handleVars>>
    BY <2>8, QuietSlots, ZenonT(60)
  <2>9. (\E t \in Transfers : Land(t)) \/ (\E k \in Keys : Corrupt(k)) \/ UNCHANGED vars
            => UNCHANGED <<tierVars, handleVars>>
    BY ZenonT(60) DEF Land, Corrupt, vars
  <2> QED
    BY <2>1, <2>2, <2>3, <2>4, <2>5, <2>6, <2>7, <2>8, <2>9, ZenonT(60)
       DEF Next, Fail, Cancel
<1> QED
  BY <1>1, <1>2, TierInvariant, PTL DEF Spec
=============================================================================
