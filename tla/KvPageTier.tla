----------------------------- MODULE KvPageTier -----------------------------
(***************************************************************************)
(* The pinned host page tier of kairyu/engine/core/kv_tier.py: KV pages     *)
(* move between device pages and host slots by asynchronous copies, each    *)
(* owned by a TierTransfer handle.  Every public method runs under the      *)
(* tier's lock (and the handle's), so each is one action; the copy itself   *)
(* runs on the device and may land at any time after it was submitted, even *)
(* after the handle was cancelled or its completion query failed.           *)
(***************************************************************************)
EXTENDS Integers, FiniteSets

CONSTANTS
    Keys,           \* page identities (prefix digests)
    Versions,       \* bit patterns a recomputation of one page may produce
    Slots,          \* host slots, capacity_pages of them
    DevicePages,    \* page ids of the device pool
    Transfers,      \* TierTransfer handles
    MaxGeneration,  \* bound: reservations of one slot
    MaxBatch,       \* bound: keys in one transfer
    None

Data == Keys \X Versions

ASSUME TierAssumption ==
    /\ MaxGeneration \in Nat /\ MaxBatch \in Nat
    /\ None \notin Keys /\ None \notin Slots /\ None \notin DevicePages
    /\ None \notin Transfers /\ None \notin Data
    /\ None \notin [key : Keys, gen : Nat,
                   state : {"offloading", "resident", "restoring"},
                   sum : Data \cup {None}]

VARIABLES
    slots,        \* _slots: the _SlotEntry of each slot, or None when free
    generation,   \* _slot_generations
    published,    \* _published: the slot of each key's entry, or None
    inFlight,     \* _in_flight
    quarantined,  \* _quarantined slots
    quarantinedKeys,
    owner,        \* _device_page_owners: the handle that reserved a page
    quarantinedPages,
    phase,        \* _terminal of each handle; "idle" when unused
    offload,      \* direction is OFFLOAD
    entry,        \* _entries: slot and generation of each key of the handle
    old,          \* _previous: slot of the entry being replaced, or None
    page,         \* page_ids: the device page of each key, or None
    running,      \* ghost: the copy has been submitted and has not landed
    host,         \* ghost: contents of each host slot
    device        \* ghost: contents of each device page

tierVars == <<slots, generation, published, inFlight, quarantined,
              quarantinedKeys, owner, quarantinedPages>>
handleVars == <<phase, offload, entry, old, page>>
vars == <<tierVars, handleVars, running, host, device>>

EntryState == {"offloading", "resident", "restoring"}
Entry == [key : Keys, gen : Nat, state : EntryState, sum : Data \cup {None}]
NoEntry == [slot |-> None, gen |-> 0]
EntryRef == [slot : Slots, gen : Nat] \cup {NoEntry}

----------------------------------------------------------------------------
(* What the handles hold.                                                  *)

\* The keys of handle t.
KeysOf(t) == {k \in Keys : page[t][k] # None}

Target(t, k) == entry[t][k].slot

\* The slots and device pages handle t works on.
SlotsOf(t) == {Target(t, k) : k \in KeysOf(t)}
PagesOf(t) == {page[t][k] : k \in KeysOf(t)}

\* _slots[entry.slot] is entry
Owns(t, k) ==
    /\ slots[Target(t, k)] # None
    /\ slots[Target(t, k)].key = k
    /\ slots[Target(t, k)].gen = entry[t][k].gen

Resident(k) == published[k] # None /\ slots[published[k]].state = "resident"

Free == {s \in Slots : slots[s] = None}

\* Mutant: the copy an offload is about to replace may be evicted.
CandidatesInFlight(K) ==
    {k \in Keys \ K : Resident(k)}

\* Residents that _evict_lru_for may drop to make room for keys K.
Candidates(K) ==
    {k \in Keys \ K : Resident(k) /\ k \notin inFlight \cup quarantinedKeys}

\* A batch of keys K over device pages, one page each, none of them reserved.
Batch(K, pg) ==
    /\ K # {} /\ Cardinality(K) <= MaxBatch
    /\ pg \in [Keys -> DevicePages \cup {None}]
    /\ \A k \in Keys : (k \in K) <=> (pg[k] # None)
    /\ \A j, k \in K : pg[j] = pg[k] => j = k
    /\ \A k \in K : owner[pg[k]] = None /\ pg[k] \notin quarantinedPages

\* Fresh slots for keys K once the victims' slots are free again.
Assignment(K, victims, sl) ==
    /\ sl \in [Keys -> Slots \cup {None}]
    /\ \A k \in Keys : (k \in K) <=> (sl[k] # None)
    /\ \A j, k \in K : sl[j] = sl[k] => j = k
    /\ \A k \in K : /\ sl[k] \in Free \cup {published[v] : v \in victims}
                    /\ generation[sl[k]] < MaxGeneration

\* The handle of one batch: "active", or "failed" when the submission raised,
\* which leaves no handle to the caller; its copy may run all the same.
Hold(t, pg, ref, prev, outcome) ==
    /\ phase' = [phase EXCEPT ![t] = outcome]
    /\ entry' = [entry EXCEPT ![t] = ref]
    /\ old' = [old EXCEPT ![t] = prev]
    /\ page' = [page EXCEPT ![t] = pg]
    /\ running' = [running EXCEPT ![t] = TRUE]

\* _reserve_device_pages, or _quarantine_device_pages when submission failed.
ReservePages(t, P, outcome) ==
    /\ owner' = IF outcome = "active"
                THEN [p \in DevicePages |-> IF p \in P THEN t ELSE owner[p]]
                ELSE owner
    /\ quarantinedPages' = IF outcome = "active" THEN quarantinedPages
                           ELSE quarantinedPages \cup P

\* begin_offload.  Old copies stay published until the new ones are complete;
\* victims are dropped only when there are enough of them.  The caller offers
\* a page under the key whose KV the engine has computed into it.
BeginOffload(t, K, pg, sl, victims, ver, outcome) ==
    /\ phase[t] = "idle"
    /\ \A k \in K : /\ k \notin inFlight \cup quarantinedKeys
                    /\ published[k] = None \/ Resident(k)
    /\ victims \subseteq Candidates(K)
    /\ Cardinality(victims) = IF Cardinality(K) > Cardinality(Free)
                              THEN Cardinality(K) - Cardinality(Free) ELSE 0
    /\ Assignment(K, victims, sl)
    /\ generation' = [s \in Slots |-> IF \E k \in K : sl[k] = s
                                      THEN generation[s] + 1 ELSE generation[s]]
    /\ slots' = [s \in Slots |->
                    IF \E k \in K : sl[k] = s
                    THEN [key |-> CHOOSE k \in K : sl[k] = s,
                          gen |-> generation[s] + 1,
                          state |-> "offloading", sum |-> None]
                    ELSE IF \E v \in victims : published[v] = s THEN None
                    ELSE slots[s]]
    /\ published' = [k \in Keys |->
                        IF k \in victims THEN None
                        ELSE IF k \in K /\ published[k] = None /\ outcome = "active"
                        THEN sl[k] ELSE published[k]]
    /\ inFlight' = IF outcome = "active" THEN inFlight \cup K ELSE inFlight
    /\ quarantined' = IF outcome = "active" THEN quarantined
                      ELSE quarantined \cup {sl[k] : k \in K}
    /\ quarantinedKeys' = IF outcome = "active" THEN quarantinedKeys
                          ELSE quarantinedKeys \cup K
    /\ ReservePages(t, {pg[k] : k \in K}, outcome)
    /\ Hold(t, pg,
            [k \in Keys |-> IF k \in K
                            THEN [slot |-> sl[k], gen |-> generation[sl[k]] + 1]
                            ELSE NoEntry],
            [k \in Keys |-> IF k \in K THEN published[k] ELSE None],
            outcome)
    /\ device' = [p \in DevicePages |->
                     IF \E k \in K : pg[k] = p
                     THEN <<CHOOSE k \in K : pg[k] = p, ver>> ELSE device[p]]
    /\ offload' = [offload EXCEPT ![t] = TRUE]
    /\ UNCHANGED host

\* Mutant: checksums are not compared before the copy.
BeginRestoreUnchecked(t, K, pg, outcome) ==
    /\ phase[t] = "idle"
    /\ \A k \in K : Resident(k) /\ k \notin inFlight
    /\ slots' = [s \in Slots |->
                    IF \E k \in K : published[k] = s
                    THEN [key |-> slots[s].key, gen |-> slots[s].gen,
                          state |-> "restoring", sum |-> slots[s].sum]
                    ELSE slots[s]]
    /\ published' = IF outcome = "active" THEN published
                    ELSE [k \in Keys |-> IF k \in K THEN None ELSE published[k]]
    /\ inFlight' = IF outcome = "active" THEN inFlight \cup K ELSE inFlight
    /\ quarantined' = IF outcome = "active" THEN quarantined
                      ELSE quarantined \cup {published[k] : k \in K}
    /\ quarantinedKeys' = IF outcome = "active" THEN quarantinedKeys
                          ELSE quarantinedKeys \cup K
    /\ ReservePages(t, {pg[k] : k \in K}, outcome)
    /\ Hold(t, pg,
            [k \in Keys |-> IF k \in K
                            THEN [slot |-> published[k],
                                  gen |-> slots[published[k]].gen]
                            ELSE NoEntry],
            [k \in Keys |-> None], outcome)
    /\ offload' = [offload EXCEPT ![t] = FALSE]
    /\ UNCHANGED <<generation, host, device>>

\* begin_restore on resident entries whose checksums match.
BeginRestore(t, K, pg, outcome) ==
    /\ phase[t] = "idle"
    /\ \A k \in K : /\ Resident(k) /\ k \notin inFlight
                    /\ host[published[k]] = slots[published[k]].sum
    /\ slots' = [s \in Slots |->
                    IF \E k \in K : published[k] = s
                    THEN [key |-> slots[s].key, gen |-> slots[s].gen,
                          state |-> "restoring", sum |-> slots[s].sum]
                    ELSE slots[s]]
    /\ published' = IF outcome = "active" THEN published
                    ELSE [k \in Keys |-> IF k \in K THEN None ELSE published[k]]
    /\ inFlight' = IF outcome = "active" THEN inFlight \cup K ELSE inFlight
    /\ quarantined' = IF outcome = "active" THEN quarantined
                      ELSE quarantined \cup {published[k] : k \in K}
    /\ quarantinedKeys' = IF outcome = "active" THEN quarantinedKeys
                          ELSE quarantinedKeys \cup K
    /\ ReservePages(t, {pg[k] : k \in K}, outcome)
    /\ Hold(t, pg,
            [k \in Keys |-> IF k \in K
                            THEN [slot |-> published[k],
                                  gen |-> slots[published[k]].gen]
                            ELSE NoEntry],
            [k \in Keys |-> None], outcome)
    /\ offload' = [offload EXCEPT ![t] = FALSE]
    /\ UNCHANGED <<generation, host, device>>

\* begin_restore that finds corrupted entries: they are quarantined, nothing
\* is transferred.
RestoreRefused(K) ==
    /\ K # {} /\ Cardinality(K) <= MaxBatch
    /\ \A k \in K : Resident(k) /\ k \notin inFlight
    /\ LET bad == {k \in K : host[published[k]] # slots[published[k]].sum}
       IN  /\ bad # {}
           /\ published' = [k \in Keys |-> IF k \in bad THEN None ELSE published[k]]
           /\ quarantined' = quarantined \cup {published[k] : k \in bad}
           /\ quarantinedKeys' = quarantinedKeys \cup bad
    /\ UNCHANGED <<slots, generation, inFlight, owner, quarantinedPages,
                   handleVars, running, host, device>>

----------------------------------------------------------------------------
(* The end of a transfer.                                                  *)

\* _quarantine of the entries that are still this handle's.
QuarantineEntries(t, retain) ==
    LET mine == {k \in KeysOf(t) : Owns(t, k)}
        kept == [k \in Keys |-> IF k \in mine /\ published[k] = Target(t, k)
                                THEN None ELSE published[k]]
    IN  /\ published' = kept
        /\ quarantined' = quarantined \cup {Target(t, k) : k \in mine}
        /\ quarantinedKeys' = quarantinedKeys
                \cup {k \in mine : retain \/ kept[k] = None}
        /\ inFlight' = inFlight \ mine

\* Mutant: an abandoned transfer gives its device pages back.
AbandonReleases(t, outcome) ==
    /\ phase[t] = "active"
    /\ QuarantineEntries(t, offload[t])
    /\ LET mine == {p \in PagesOf(t) : owner[p] = t}
       IN  /\ owner' = [p \in DevicePages |-> IF p \in mine THEN None ELSE owner[p]]
           /\ quarantinedPages' = quarantinedPages
    /\ phase' = [phase EXCEPT ![t] = outcome]
    /\ UNCHANGED <<slots, generation, offload, entry, old, page,
                   running, host, device>>

\* _fail_transfer and _cancel_transfer: nobody knows whether the copy is still
\* running, so slots, keys and device pages are all retained.
Abandon(t, outcome) ==
    /\ phase[t] = "active"
    /\ QuarantineEntries(t, offload[t])
    /\ LET mine == {p \in PagesOf(t) : owner[p] = t}
       IN  /\ owner' = [p \in DevicePages |-> IF p \in mine THEN None ELSE owner[p]]
           /\ quarantinedPages' = quarantinedPages \cup mine
    /\ phase' = [phase EXCEPT ![t] = outcome]
    /\ UNCHANGED <<slots, generation, offload, entry, old, page,
                   running, host, device>>

\* ready() or wait() whose completion query raises.
Fail(t) == Abandon(t, "failed")

Cancel(t) == Abandon(t, "cancelled")

\* _release_device_pages: from here on the contents are the caller's business.
ReleasePages(t) ==
    LET mine == {p \in PagesOf(t) : owner[p] = t}
    IN  /\ owner' = [p \in DevicePages |-> IF p \in mine THEN None ELSE owner[p]]
        /\ device' = [p \in DevicePages |-> IF p \in mine THEN None ELSE device[p]]
        /\ UNCHANGED quarantinedPages

\* The fresh copy of k turns out identical to the one it would replace.
Unchanged(t, k) ==
    old[t][k] # None /\ slots[old[t][k]].sum = host[Target(t, k)]

\* Mutant: finalize() does not wait for the copy.
FinalizeOffloadEarly(t, outcome) ==
    /\ phase[t] = "active" /\ offload[t]
    /\ \A k \in KeysOf(t) : Owns(t, k)
    /\ LET K == KeysOf(t)
           stale == {Target(t, k) : k \in {j \in K : Unchanged(t, j)}}
           replaced == {old[t][k] : k \in {j \in K : ~Unchanged(t, j)}} \ {None}
           lost == {k \in K : outcome = "failed" /\ ~Unchanged(t, k)}
       IN  /\ slots' = [s \in Slots |->
                  IF s \in stale \cup replaced THEN None
                  ELSE IF s \in SlotsOf(t)
                  THEN [key |-> slots[s].key, gen |-> slots[s].gen,
                        state |-> "resident", sum |-> host[s]]
                  ELSE slots[s]]
           /\ published' = [k \in Keys |->
                  IF k \in lost THEN None
                  ELSE IF k \in K /\ ~Unchanged(t, k) THEN Target(t, k) ELSE published[k]]
           /\ quarantined' = quarantined \cup {Target(t, k) : k \in lost}
           /\ quarantinedKeys' = quarantinedKeys \cup lost
           /\ inFlight' = inFlight \ K
    /\ ReleasePages(t)
    /\ phase' = [phase EXCEPT ![t] = outcome]
    /\ UNCHANGED <<generation, offload, entry, old, page, running, host>>

\* Mutant: the redundant fresh copy is not freed.
FinalizeOffloadLeaks(t, outcome) ==
    /\ phase[t] = "active" /\ offload[t] /\ ~running[t]
    /\ \A k \in KeysOf(t) : Owns(t, k)
    /\ LET K == KeysOf(t)
           stale == {Target(t, k) : k \in {j \in K : Unchanged(t, j)}}
           replaced == {old[t][k] : k \in {j \in K : ~Unchanged(t, j)}} \ {None}
           lost == {k \in K : outcome = "failed" /\ ~Unchanged(t, k)}
       IN  /\ slots' = [s \in Slots |->
                  IF s \in replaced \ stale THEN None
                  ELSE IF s \in SlotsOf(t)
                  THEN [key |-> slots[s].key, gen |-> slots[s].gen,
                        state |-> "resident", sum |-> host[s]]
                  ELSE slots[s]]
           /\ published' = [k \in Keys |->
                  IF k \in lost THEN None
                  ELSE IF k \in K /\ ~Unchanged(t, k) THEN Target(t, k) ELSE published[k]]
           /\ quarantined' = quarantined \cup {Target(t, k) : k \in lost}
           /\ quarantinedKeys' = quarantinedKeys \cup lost
           /\ inFlight' = inFlight \ K
    /\ ReleasePages(t)
    /\ phase' = [phase EXCEPT ![t] = outcome]
    /\ UNCHANGED <<generation, offload, entry, old, page, running, host>>

\* finalize() of a completed offload: publish the new copy of each key, or
\* keep the old one when their checksums agree, and free the other.  It ends
\* "failed" when _record_completed_transfer, which asks the backend how long
\* the copy took, raises after that: the copies just published are quarantined.
FinalizeOffload(t, outcome) ==
    /\ phase[t] = "active" /\ offload[t] /\ ~running[t]
    /\ \A k \in KeysOf(t) : Owns(t, k)
    /\ LET K == KeysOf(t)
           stale == {Target(t, k) : k \in {j \in K : Unchanged(t, j)}}
           replaced == {old[t][k] : k \in {j \in K : ~Unchanged(t, j)}} \ {None}
           lost == {k \in K : outcome = "failed" /\ ~Unchanged(t, k)}
       IN  /\ slots' = [s \in Slots |->
                  IF s \in stale \cup replaced THEN None
                  ELSE IF s \in SlotsOf(t)
                  THEN [key |-> slots[s].key, gen |-> slots[s].gen,
                        state |-> "resident", sum |-> host[s]]
                  ELSE slots[s]]
           /\ published' = [k \in Keys |->
                  IF k \in lost THEN None
                  ELSE IF k \in K /\ ~Unchanged(t, k) THEN Target(t, k) ELSE published[k]]
           /\ quarantined' = quarantined \cup {Target(t, k) : k \in lost}
           /\ quarantinedKeys' = quarantinedKeys \cup lost
           /\ inFlight' = inFlight \ K
    /\ ReleasePages(t)
    /\ phase' = [phase EXCEPT ![t] = outcome]
    /\ UNCHANGED <<generation, offload, entry, old, page, running, host>>

\* finalize() of a completed offload whose checksums cannot be computed, so that
\* nothing is committed: the copy is over and the device pages go back, the host
\* entries do not.  A restore computes none: it fails only once committed.
FinalizeFails(t) ==
    /\ phase[t] = "active" /\ offload[t] /\ ~running[t]
    /\ QuarantineEntries(t, FALSE)
    /\ ReleasePages(t)
    /\ phase' = [phase EXCEPT ![t] = "failed"]
    /\ UNCHANGED <<slots, generation, offload, entry, old, page,
                   running, host>>

\* Mutant: a restored key stays published.
FinalizeRestoreStale(t, outcome) ==
    /\ phase[t] = "active" /\ ~offload[t] /\ ~running[t]
    /\ \A k \in KeysOf(t) : Owns(t, k)
    /\ slots' = [s \in Slots |-> IF s \in SlotsOf(t) THEN None ELSE slots[s]]
    /\ UNCHANGED published
    /\ inFlight' = inFlight \ KeysOf(t)
    /\ ReleasePages(t)
    /\ phase' = [phase EXCEPT ![t] = outcome]
    /\ UNCHANGED <<generation, quarantined, quarantinedKeys, offload, entry, old,
                   page, running, host>>

\* finalize() of a completed restore: the host entries are given up.  When it
\* ends "failed", as above, _fail_finalization finds no entry left to quarantine.
FinalizeRestore(t, outcome) ==
    /\ phase[t] = "active" /\ ~offload[t] /\ ~running[t]
    /\ \A k \in KeysOf(t) : Owns(t, k)
    /\ slots' = [s \in Slots |-> IF s \in SlotsOf(t) THEN None ELSE slots[s]]
    /\ published' = [k \in Keys |->
                        IF k \in KeysOf(t) /\ published[k] = Target(t, k)
                        THEN None ELSE published[k]]
    /\ inFlight' = inFlight \ KeysOf(t)
    /\ ReleasePages(t)
    /\ phase' = [phase EXCEPT ![t] = outcome]
    /\ UNCHANGED <<generation, quarantined, quarantinedKeys, offload, entry, old,
                   page, running, host>>

\* discard of one resident key.
Discard(k) ==
    /\ k \notin inFlight /\ Resident(k)
    /\ slots' = [slots EXCEPT ![published[k]] = None]
    /\ published' = [published EXCEPT ![k] = None]
    /\ UNCHANGED <<generation, inFlight, quarantined, quarantinedKeys, owner,
                   quarantinedPages, handleVars, running, host, device>>

----------------------------------------------------------------------------
(* The device, the memory and the callers.                                 *)

\* The copy of handle t lands, whatever became of the handle.
Land(t) ==
    /\ running[t]
    /\ running' = [running EXCEPT ![t] = FALSE]
    /\ IF offload[t]
       THEN /\ host' = [s \in Slots |->
                  IF s \in SlotsOf(t)
                  THEN device[page[t][CHOOSE k \in KeysOf(t) : Target(t, k) = s]]
                  ELSE host[s]]
            /\ UNCHANGED device
       ELSE /\ device' = [p \in DevicePages |->
                  IF p \in PagesOf(t)
                  THEN host[Target(t, CHOOSE k \in KeysOf(t) : page[t][k] = p)]
                  ELSE device[p]]
            /\ UNCHANGED host
    /\ UNCHANGED <<tierVars, handleVars>>

\* The caller forgets a handle that reached its end.
Retire(t) ==
    /\ phase[t] \in {"finalized", "failed", "cancelled"} /\ ~running[t]
    /\ phase' = [phase EXCEPT ![t] = "idle"]
    /\ entry' = [entry EXCEPT ![t] = [k \in Keys |-> NoEntry]]
    /\ old' = [old EXCEPT ![t] = [k \in Keys |-> None]]
    /\ page' = [page EXCEPT ![t] = [k \in Keys |-> None]]
    /\ UNCHANGED <<tierVars, offload, running, host, device>>

\* Host memory of a resident entry at rest decays.
Corrupt(k) ==
    /\ Resident(k) /\ k \notin inFlight
    /\ host' = [host EXCEPT ![published[k]] = None]
    /\ UNCHANGED <<tierVars, handleVars, running, device>>

Init ==
    /\ slots = [s \in Slots |-> None] /\ generation = [s \in Slots |-> 0]
    /\ published = [k \in Keys |-> None]
    /\ inFlight = {} /\ quarantined = {} /\ quarantinedKeys = {}
    /\ owner = [p \in DevicePages |-> None] /\ quarantinedPages = {}
    /\ phase = [t \in Transfers |-> "idle"]
    /\ offload = [t \in Transfers |-> TRUE]
    /\ entry = [t \in Transfers |-> [k \in Keys |-> NoEntry]]
    /\ old = [t \in Transfers |-> [k \in Keys |-> None]]
    /\ page = [t \in Transfers |-> [k \in Keys |-> None]]
    /\ running = [t \in Transfers |-> FALSE]
    /\ host = [s \in Slots |-> None]
    /\ device = [p \in DevicePages |-> None]

Next ==
    \/ \E t \in Transfers, K \in SUBSET Keys :
           \E pg \in [Keys -> DevicePages \cup {None}], outcome \in {"active", "failed"} :
               /\ Batch(K, pg)
               /\ \/ \E victims \in SUBSET Keys, ver \in Versions,
                        sl \in [Keys -> Slots \cup {None}] :
                         BeginOffload(t, K, pg, sl, victims, ver, outcome)
                  \/ BeginRestore(t, K, pg, outcome)
    \/ \E K \in SUBSET Keys : RestoreRefused(K)
    \/ \E t \in Transfers :
           \/ Fail(t) \/ Cancel(t) \/ FinalizeFails(t) \/ Land(t) \/ Retire(t)
           \/ \E outcome \in {"finalized", "failed"} :
                  FinalizeOffload(t, outcome) \/ FinalizeRestore(t, outcome)
    \/ \E k \in Keys : Discard(k) \/ Corrupt(k)

Spec == Init /\ [][Next]_vars

----------------------------------------------------------------------------
(* Properties.                                                             *)

\* Each variable has its type, and a published key names an occupied slot
\* whose entry is its own.
TypeOK ==
    /\ slots \in [Slots -> Entry \cup {None}]
    /\ generation \in [Slots -> Nat]
    /\ published \in [Keys -> Slots \cup {None}]
    /\ inFlight \subseteq Keys /\ quarantined \subseteq Slots
    /\ quarantinedKeys \subseteq Keys /\ quarantinedPages \subseteq DevicePages
    /\ owner \in [DevicePages -> Transfers \cup {None}]
    /\ phase \in [Transfers -> {"idle", "active", "finalized", "failed", "cancelled"}]
    /\ offload \in [Transfers -> BOOLEAN]
    /\ entry \in [Transfers -> [Keys -> EntryRef]]
    /\ old \in [Transfers -> [Keys -> Slots \cup {None}]]
    /\ page \in [Transfers -> [Keys -> DevicePages \cup {None}]]
    /\ running \in [Transfers -> BOOLEAN]
    /\ host \in [Slots -> Data \cup {None}]
    /\ device \in [DevicePages -> Data \cup {None}]
    /\ \A k \in Keys : published[k] # None =>
           slots[published[k]] # None /\ slots[published[k]].key = k

\* While a copy may still be running, also after its handle failed or was
\* cancelled, its host slots keep their entries, so they are neither free nor
\* reused, and its device pages stay reserved or quarantined.
RunningCopyIsIsolated ==
    \A t \in Transfers : running[t] =>
        \A k \in KeysOf(t) :
            /\ Owns(t, k)
            /\ owner[page[t][k]] = t \/ page[t][k] \in quarantinedPages

\* The stale-completion check of _finalize_transfer can never fail: an active
\* handle still owns every slot it reserved, and the entry it would replace
\* is still the published one.
ActiveHandleIsCurrent ==
    \A t \in Transfers : phase[t] = "active" =>
        \A k \in KeysOf(t) :
            /\ Owns(t, k) /\ k \in inFlight
            /\ slots[Target(t, k)].state = IF offload[t] THEN "offloading" ELSE "restoring"
            /\ published[k] = IF old[t][k] = None THEN Target(t, k) ELSE old[t][k]

\* A key that available_prefix reports holds that key's own KV, as its
\* checksum records it, whichever copies failed, raced or landed late.
ResidentHoldsItsKey ==
    \A k \in Keys : Resident(k) =>
        /\ slots[published[k]].sum \in {k} \X Versions
        /\ host[published[k]] \in {slots[published[k]].sum, None}

\* When finalize() declares a restore publishable, every destination page
\* holds the KV of its key.
RestoredPageHoldsItsKey ==
    \A t \in Transfers : (phase[t] = "active" /\ ~offload[t] /\ ~running[t]) =>
        \A k \in KeysOf(t) : device[page[t][k]] \in {k} \X Versions

\* No host slot leaks: an occupied slot is published under its key,
\* belongs to an active handle, or is on the quarantine list.
NoSlotLeaks ==
    \A s \in Slots : slots[s] # None =>
        \/ s \in quarantined
        \/ published[slots[s].key] = s
        \/ \E t \in Transfers : phase[t] = "active" /\ s \in SlotsOf(t)

----------------------------------------------------------------------------
(* The inductive invariant.                                                *)

\* Key k of an active handle t: where its entry, its page and its data are.
ActiveKey(t, k) ==
    /\ Target(t, k) \in Slots \ quarantined /\ Owns(t, k) /\ k \in inFlight
    /\ owner[page[t][k]] = t
    /\ offload[t] =>
        /\ slots[Target(t, k)].state = "offloading"
        /\ old[t][k] = None => published[k] = Target(t, k)
        /\ old[t][k] # None => /\ published[k] = old[t][k] /\ Resident(k)
                               /\ old[t][k] # Target(t, k)
        /\ running[t] => device[page[t][k]] \in {k} \X Versions
        /\ ~running[t] => host[Target(t, k)] \in {k} \X Versions
    /\ ~offload[t] =>
        /\ slots[Target(t, k)].state = "restoring"
        /\ old[t][k] = None /\ published[k] = Target(t, k)
        /\ host[Target(t, k)] \in {k} \X Versions
        /\ ~running[t] => device[page[t][k]] \in {k} \X Versions

\* Key k of a handle that ended while its copy was running.
StrayKey(t, k) ==
    /\ Target(t, k) \in quarantined /\ Owns(t, k)
    /\ page[t][k] \in quarantinedPages

HandleInv ==
    \A t \in Transfers :
        /\ phase[t] = "idle" => ~running[t] /\ KeysOf(t) = {}
        /\ phase[t] = "active" => \A k \in KeysOf(t) : ActiveKey(t, k)
        /\ running[t] /\ phase[t] # "active" => \A k \in KeysOf(t) : StrayKey(t, k)
        /\ \A j, k \in KeysOf(t) : page[t][j] = page[t][k] => j = k

\* Active handles share no key.
DisjointInv ==
    \A t, u \in Transfers : \A k \in Keys :
        (phase[t] = "active" /\ phase[u] = "active"
         /\ k \in KeysOf(t) /\ k \in KeysOf(u)) => t = u

RetentionInv ==
    /\ \A p \in DevicePages : owner[p] # None => p \notin quarantinedPages
    /\ \A s \in quarantined : slots[s] # None
    /\ \A k \in Keys : published[k] # None =>
           /\ published[k] \notin quarantined
           /\ slots[published[k]].state = "resident" \/ k \in inFlight

TierInv ==
    TypeOK /\ HandleInv /\ DisjointInv /\ RetentionInv /\ ResidentHoldsItsKey
=============================================================================
