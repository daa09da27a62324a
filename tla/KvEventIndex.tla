---------------------------- MODULE KvEventIndex ----------------------------
(***************************************************************************)
(* The exact block index of the gateway and the event stream that feeds    *)
(* it: src/kairyu/orchestration/kv_index.py, for one replica.              *)
(*                                                                         *)
(* Four actors run concurrently.  The publisher (ZmqKvEventPublisher, in   *)
(* the engine) numbers the block events of the current cache, keeps a      *)
(* bounded journal and a mirror of the cache, and sends events and         *)
(* heartbeats.  The subscriber (ZmqKvEventSubscriber, one thread of the    *)
(* gateway) applies frames to the index and recovers from gaps with a      *)
(* request to the publisher.  Membership forgets and registers the         *)
(* replica.  The router scores a prompt against the index without holding  *)
(* its lock.  Every action below is one critical section of the code.      *)
(*                                                                         *)
(* Three abstractions.  The uuid of a cache lifetime is its number, and    *)
(* also the generation of its callback.  A frame carries its epoch and     *)
(* sequence; its event is looked up in the log, which only grows.  The     *)
(* clock is the state "stale", which is what the code shows for a live     *)
(* entry whose lease has run out.  In the code "trusted" is TRUE exactly   *)
(* in the state live (or stale), and the replica is in the inactive set    *)
(* exactly in the state inactive, so neither is a variable here.           *)
(***************************************************************************)
EXTENDS Integers, Sequences, FiniteSets

CONSTANTS
  Blocks,        \* block hashes
  Announced,     \* Announced[n]: what the n-th event of a cache may be
  Prompt,        \* the block hashes of the prompt that is routed
  MaxEpochs,     \* bound: cache lifetimes of the replica
  MaxEvents,     \* bound: events of one cache lifetime
  MaxForgets,    \* bound: removals of the replica from the pool
  BufferEvents,  \* capacity of the journal
  QueueSize,     \* capacity of the queue of the sender thread
  WireSize       \* capacity of the subscriber's socket

Epochs == 1 .. MaxEpochs
NoEpoch == 0
EventTypes == {"BlockStored", "BlockRemoved", "AllBlocksCleared"}
FrameKinds == {"event", "heartbeat"}
States == {"unknown", "syncing", "gap", "live", "stale", "inactive"}
Steps == {"ready", "unrefreshed", "recover", "asked", "events", "snapshot"}

Frame == [kind : FrameKinds, epoch : Epochs, sequence : Int]

Event == [type : EventTypes, hashes : SUBSET Blocks]

ASSUME AnnouncedAssumption == Announced \in [1 .. MaxEvents -> SUBSET Event]
ASSUME PromptAssumption == Prompt \in Seq(Blocks)
ASSUME BoundsAssumption ==
  /\ MaxEpochs \in Nat \ {0} /\ MaxEvents \in Nat /\ MaxForgets \in Nat
  /\ BufferEvents \in Nat \ {0} /\ QueueSize \in Nat \ {0} /\ WireSize \in Nat

VARIABLES
  epoch,         \* publisher: the current cache lifetime
  mirror,        \* publisher: its copy of the cache's block hashes
  log,           \* publisher: events of each epoch; the journal is the end of it
  queue,         \* publisher: events handed to the sender thread
  truth,         \* history: the block hashes of each cache after each event
  wire,          \* frames in the subscriber's socket
  feed,          \* index: epoch, last sequence and hashes of the entry
  retired,       \* index: epochs the entry has left
  state,         \* index: the entry's state
  synchronized,  \* index: the high-water mark was confirmed
  known,         \* history: highest sequence of feed.epoch received so far
  sub,           \* subscriber: where its thread is
  route,         \* router: the scoring in progress
  forgets        \* number of removals so far

pubVars == <<epoch, mirror, log, queue, truth>>
idxVars == <<feed, retired, state, synchronized>>
vars == <<epoch, mirror, log, queue, truth, wire, feed, retired, state,
          synchronized, known, sub, route, forgets>>

Empty == [epoch |-> NoEpoch, sequence |-> -1, hashes |-> {}]
Ready == [pc |-> "ready", epoch |-> NoEpoch, next |-> 0, high |-> -1, hashes |-> {}]
NoRoute == [pc |-> "idle", epoch |-> NoEpoch, sequence |-> -1, count |-> 0]

\* The sequence of the last event of the current cache.
HighSequence == Len(log[epoch]) - 1

\* The block hashes of cache e after its event with sequence s.
TruthAt(e, s) == truth[e][s + 2]

Init ==
  /\ epoch = 1
  /\ mirror = {}
  /\ log = [e \in Epochs |-> <<>>]
  /\ queue = <<>>
  /\ truth = [e \in Epochs |-> <<{}>>]
  /\ wire = <<>>
  /\ feed = Empty
  /\ retired = {}
  /\ state = "unknown"
  /\ synchronized = FALSE
  /\ known = -1
  /\ sub = Ready
  /\ route = NoRoute
  /\ forgets = 0

-----------------------------------------------------------------------------
(* The publisher. *)

\* What an event does to a set of block hashes, on either side.
Applied(event, hashes) ==
  CASE event.type = "BlockStored" -> hashes \cup event.hashes
    [] event.type = "BlockRemoved" -> hashes \ event.hashes
    [] OTHER -> {}

\* The callback of generation g may publish.
Publishes(g) == g = epoch

\* A cache changes and calls its sink.  The callback of a replaced cache
\* raises before anything is recorded; a full queue drops the live copy only.
Publish(g, event) ==
  /\ Len(log[epoch]) < MaxEvents /\ event \in Announced[Len(log[epoch]) + 1]
  /\ Publishes(g)
  /\ mirror' = Applied(event, mirror)
  /\ log' = [log EXCEPT ![epoch] = Append(@, event)]
  /\ truth' = IF g = epoch
              THEN [truth EXCEPT ![g] = Append(@, Applied(event, @[Len(@)]))]
              ELSE truth
  /\ queue' = IF Len(queue) < QueueSize
              THEN Append(queue, [kind |-> "event", epoch |-> epoch,
                                  sequence |-> Len(log[epoch])])
              ELSE queue
  /\ UNCHANGED <<epoch, wire, idxVars, known, sub, route, forgets>>

\* A new cache behind the same replica id.
RotateEpoch ==
  /\ epoch < MaxEpochs
  /\ epoch' = epoch + 1
  /\ mirror' = {}
  /\ queue' = <<>>
  /\ UNCHANGED <<log, truth, wire, idxVars, known, sub, route, forgets>>

\* The sender thread puts the next event on the wire, or it is lost there.
SendEvent ==
  /\ queue # <<>>
  /\ queue' = Tail(queue)
  /\ \/ Len(wire) < WireSize /\ wire' = Append(wire, Head(queue))
     \/ wire' = wire
  /\ UNCHANGED <<epoch, mirror, log, truth, idxVars, known, sub, route, forgets>>

\* A heartbeat that reaches the subscriber's socket.  It carries the sequence
\* of the last event published, which may still be in the queue.
SendHeartbeat ==
  /\ Len(wire) < WireSize
  /\ wire' = Append(wire, [kind |-> "heartbeat", epoch |-> epoch,
                           sequence |-> HighSequence])
  /\ UNCHANGED <<pubVars, idxVars, known, sub, route, forgets>>

\* The subscriber closes its socket and opens a new one (pause, resume):
\* unread frames are gone, but for one the sender thread still has in hand.
Reconnect ==
  /\ sub.pc = "ready"
  /\ wire # <<>>
  /\ wire' \in {<<>>, <<wire[Len(wire)]>>}
  /\ UNCHANGED <<pubVars, idxVars, known, sub, route, forgets>>

-----------------------------------------------------------------------------
(* The index. *)

\* Mutant: the hashes of the epoch before are not cleared.
AdoptedUncleared(e) == IF feed.epoch = e THEN feed
                       ELSE [epoch |-> e, sequence |-> -1, hashes |-> feed.hashes]

\* The entry once it follows epoch e.
Adopted(e) == IF feed.epoch = e THEN feed
              ELSE [epoch |-> e, sequence |-> -1, hashes |-> {}]

\* The epochs given up when the entry follows e.
RetiredFor(e) == retired \cup ({feed.epoch} \ {NoEpoch, e})

\* Mutant: no tombstones.
RefusedInactive(e) == state = "inactive"

\* No frame of e changes the entry.
Refused(e) == state = "inactive" \/ e \in retired

\* What apply_sequenced returns: "applied", "gap", or else "duplicate".
IsNext(e, s) == ~Refused(e) /\ s = Adopted(e).sequence + 1
IsGap(e, s) == ~Refused(e) /\ s > Adopted(e).sequence + 1

\* apply_sequenced when it finds the next event: a delta after a gap or an
\* expired lease is staged, not trusted.
ApplyNext(e, s) ==
  LET changed == feed.epoch # e
      wasLive == ~changed /\ state = "live"
  IN /\ feed' = [epoch |-> e, sequence |-> s,
                 hashes |-> Applied(log[e][s + 1], Adopted(e).hashes)]
     /\ retired' = RetiredFor(e)
     /\ state' = IF wasLive \/ (changed /\ s = 0) THEN "live" ELSE "syncing"
     /\ synchronized' = (synchronized /\ wasLive)

\* The entry follows e, or stays on its epoch, and is not to be used.
Quarantine(e) ==
  /\ feed' = Adopted(e)
  /\ retired' = RetiredFor(e)
  /\ state' = "gap"
  /\ synchronized' = FALSE

ApplySequenced(e, s) ==
  \/ IsNext(e, s) /\ ApplyNext(e, s)
  \/ IsGap(e, s) /\ Quarantine(e)
  \/ ~IsNext(e, s) /\ ~IsGap(e, s) /\ UNCHANGED idxVars

MarkGap(e) ==
  \/ ~Refused(e) /\ Quarantine(e)
  \/ Refused(e) /\ UNCHANGED idxVars

\* The entry holds the hashes h of epoch e up to sequence s, confirmed.
Confirm(e, s, h) ==
  /\ feed' = [epoch |-> e, sequence |-> s, hashes |-> h]
  /\ retired' = RetiredFor(e)
  /\ state' = "live"
  /\ synchronized' = TRUE

InstallSnapshot(e, s, h) ==
  \/ ~Refused(e) /\ Confirm(e, s, h)
  \/ Refused(e) /\ UNCHANGED idxVars

IsComplete(e, high) == ~Refused(e) /\ feed.epoch = e /\ feed.sequence = high

MarkSynchronized(e, high) ==
  \/ IsComplete(e, high) /\ Confirm(e, feed.sequence, feed.hashes)
  \/ ~IsComplete(e, high) /\ ~Refused(e) /\ Quarantine(feed.epoch)
  \/ Refused(e) /\ UNCHANGED idxVars

\* Mutant: the high-water mark of a known epoch is not compared.
RefreshesAlive(e, high) ==
  /\ ~Refused(e)
  /\ feed.epoch = e => state \in {"live", "stale"}
  /\ feed.epoch # e => high = -1

\* A heartbeat confirms a trusted entry that has everything up to high, and
\* an empty one of a new epoch.
Refreshes(e, high) ==
  /\ ~Refused(e)
  /\ high = Adopted(e).sequence
  /\ feed.epoch = e => state \in {"live", "stale"}

Heartbeat(e, high) ==
  \/ Refreshes(e, high) /\ Confirm(e, Adopted(e).sequence, Adopted(e).hashes)
  \/ ~Refreshes(e, high) /\ ~Refused(e) /\ Quarantine(e)
  \/ Refused(e) /\ UNCHANGED idxVars

\* Where the entry stands: the sequence a recovery of epoch e starts from.
ExpectedSequence(e) ==
  IF state # "inactive" /\ feed.epoch = e THEN feed.sequence + 1 ELSE 0

\* The highest sequence seen of the entry's epoch, after s of epoch e is seen.
Learn(e, s) ==
  LET before == IF feed'.epoch = feed.epoch THEN known ELSE -1
  IN known' = IF feed'.epoch = e /\ s > before THEN s ELSE before

\* The freshness lease of a live entry runs out.
Expire ==
  /\ state = "live"
  /\ state' = "stale"
  /\ UNCHANGED <<pubVars, wire, feed, retired, synchronized, known, sub, route,
                 forgets>>

\* Membership removes the replica, and brings it back.
ForgetReplica ==
  /\ state # "inactive"
  /\ forgets < MaxForgets
  /\ forgets' = forgets + 1
  /\ retired' = RetiredFor(NoEpoch)
  /\ feed' = Empty
  /\ known' = -1
  /\ state' = "inactive"
  /\ synchronized' = FALSE
  /\ UNCHANGED <<pubVars, wire, sub, route>>

RegisterReplica ==
  /\ state = "inactive"
  /\ feed' = Empty
  /\ known' = -1
  /\ state' = "unknown"
  /\ synchronized' = FALSE
  /\ UNCHANGED <<pubVars, wire, retired, sub, route, forgets>>

-----------------------------------------------------------------------------
(* The subscriber. *)

At(pc, e) == [pc |-> pc, epoch |-> e, next |-> 0, high |-> -1, hashes |-> {}]

ReceiveEvent ==
  /\ sub.pc = "ready" /\ wire # <<>> /\ Head(wire).kind = "event"
  /\ LET e == Head(wire).epoch
         s == Head(wire).sequence
     IN /\ ApplySequenced(e, s)
        /\ Learn(e, s)
        /\ sub' = IF IsGap(e, s) THEN At("recover", e) ELSE Ready
  /\ wire' = Tail(wire)
  /\ UNCHANGED <<pubVars, route, forgets>>

ReceiveHeartbeat ==
  /\ sub.pc = "ready" /\ wire # <<>> /\ Head(wire).kind = "heartbeat"
  /\ LET e == Head(wire).epoch
         high == Head(wire).sequence
     IN /\ Heartbeat(e, high)
        /\ Learn(e, high)
        /\ sub' = IF Refreshes(e, high) THEN Ready ELSE At("unrefreshed", e)
  /\ wire' = Tail(wire)
  /\ UNCHANGED <<pubVars, route, forgets>>

\* A frame that cannot be decoded.
ReceiveMalformed ==
  /\ sub.pc = "ready"
  /\ MarkGap(feed.epoch)
  /\ UNCHANGED <<pubVars, wire, known, sub, route, forgets>>

\* Mutant: a heartbeat that did not refresh starts no recovery.
MarkUnrefreshedOnly ==
  /\ sub.pc = "unrefreshed"
  /\ MarkGap(sub.epoch)
  /\ Learn(sub.epoch, -1)
  /\ sub' = Ready
  /\ UNCHANGED <<pubVars, wire, route, forgets>>

\* After a heartbeat that did not refresh, under the lock once more.
MarkUnrefreshed ==
  /\ sub.pc = "unrefreshed"
  /\ MarkGap(sub.epoch)
  /\ Learn(sub.epoch, -1)
  /\ sub' = IF Refused(sub.epoch) THEN Ready ELSE At("recover", sub.epoch)
  /\ UNCHANGED <<pubVars, wire, route, forgets>>

\* _recover asks the publisher for everything from the expected sequence on.
Ask ==
  /\ sub.pc = "recover"
  /\ sub' = [pc |-> "asked", epoch |-> sub.epoch,
             next |-> ExpectedSequence(sub.epoch), high |-> -1, hashes |-> {}]
  /\ UNCHANGED <<pubVars, wire, idxVars, known, route, forgets>>

\* The first sequence in the journal, which keeps the last BufferEvents events.
FirstAvailable == IF Len(log[epoch]) > BufferEvents
                  THEN Len(log[epoch]) - BufferEvents ELSE 0

\* The publisher answers with the events asked for when the journal still has
\* all of them, and with a snapshot of the current cache otherwise.
Answer ==
  /\ sub.pc = "asked"
  /\ sub' = IF sub.epoch = epoch /\ sub.next >= FirstAvailable
            THEN [pc |-> "events", epoch |-> epoch, next |-> sub.next,
                  high |-> HighSequence, hashes |-> {}]
            ELSE [pc |-> "snapshot", epoch |-> epoch, next |-> sub.next,
                  high |-> HighSequence, hashes |-> mirror]
  /\ UNCHANGED <<pubVars, wire, idxVars, known, route, forgets>>

\* No answer within the replay timeout.
GiveUp ==
  /\ sub.pc = "asked"
  /\ sub' = Ready
  /\ UNCHANGED <<pubVars, wire, idxVars, known, route, forgets>>

\* The next replayed event, in a critical section of its own.
ReplayEvent ==
  /\ sub.pc = "events" /\ sub.next <= sub.high
  /\ ApplySequenced(sub.epoch, sub.next)
  /\ Learn(sub.epoch, sub.next)
  /\ sub' = IF ~Refused(sub.epoch) /\ ~IsGap(sub.epoch, sub.next)
            THEN [pc |-> "events", epoch |-> sub.epoch, next |-> sub.next + 1,
                  high |-> sub.high, hashes |-> {}]
            ELSE Ready
  /\ UNCHANGED <<pubVars, wire, route, forgets>>

\* All replayed: the high-water mark of the answer is compared.
EndReplay ==
  /\ sub.pc = "events" /\ sub.next = sub.high + 1
  /\ MarkSynchronized(sub.epoch, sub.high)
  /\ Learn(sub.epoch, sub.high)
  /\ sub' = Ready
  /\ UNCHANGED <<pubVars, wire, route, forgets>>

ReplaceBySnapshot ==
  /\ sub.pc = "snapshot"
  /\ InstallSnapshot(sub.epoch, sub.high, sub.hashes)
  /\ Learn(sub.epoch, sub.high)
  /\ sub' = Ready
  /\ UNCHANGED <<pubVars, wire, route, forgets>>

-----------------------------------------------------------------------------
(* The router: route_overlaps. *)

Routable == state = "live" /\ synchronized

RouteCapture ==
  /\ route.pc = "idle"
  /\ Routable
  /\ route' = [pc |-> "scan", epoch |-> feed.epoch, sequence |-> feed.sequence,
               count |-> 0]
  /\ UNCHANGED <<pubVars, wire, idxVars, known, sub, forgets>>

\* One membership test, without the lock, on the set as it is now.
RouteScan ==
  /\ route.pc = "scan"
  /\ route' = IF route.count < Len(Prompt) /\ Prompt[route.count + 1] \in feed.hashes
              THEN [pc |-> "scan", epoch |-> route.epoch,
                    sequence |-> route.sequence, count |-> route.count + 1]
              ELSE [pc |-> "check", epoch |-> route.epoch,
                    sequence |-> route.sequence, count |-> route.count]
  /\ UNCHANGED <<pubVars, wire, idxVars, known, sub, forgets>>

\* Mutant: the sequence is not compared.
UnchangedEpoch == feed.epoch = route.epoch /\ Routable

\* The feed is as it was captured.  The code also refuses a result when the
\* set itself was replaced, which only a snapshot does; the overlap is exact
\* without that test too, so it is left out.
Unchanged == /\ feed.epoch = route.epoch
             /\ feed.sequence = route.sequence
             /\ Routable

RouteCheck ==
  /\ route.pc = "check"
  /\ route' = NoRoute
  /\ UNCHANGED <<pubVars, wire, idxVars, known, sub, forgets>>

-----------------------------------------------------------------------------
Publisher == \/ \E g \in 1 .. epoch, event \in Event : Publish(g, event)
             \/ RotateEpoch \/ SendEvent \/ SendHeartbeat
Subscriber == \/ ReceiveEvent \/ ReceiveHeartbeat \/ ReceiveMalformed
              \/ MarkUnrefreshed \/ Ask \/ Answer \/ GiveUp \/ ReplayEvent
              \/ EndReplay \/ ReplaceBySnapshot \/ Reconnect
Membership == ForgetReplica \/ RegisterReplica
Router == RouteCapture \/ RouteScan \/ RouteCheck

Next == Publisher \/ Subscriber \/ Membership \/ Router \/ Expire

Spec == Init /\ [][Next]_vars

\* Both threads keep running, and of the heartbeats, reads and answers that
\* are possible again and again not all are lost.
FairSpec ==
  /\ Spec
  /\ WF_vars(SendEvent) /\ SF_vars(SendHeartbeat)
  /\ SF_vars(ReceiveEvent \/ ReceiveHeartbeat) /\ SF_vars(Answer)
  /\ WF_vars(MarkUnrefreshed \/ Ask \/ ReplayEvent \/ EndReplay \/ ReplaceBySnapshot)
-----------------------------------------------------------------------------
TypeOK ==
  /\ epoch \in Epochs
  /\ mirror \in SUBSET Blocks
  /\ log \in [Epochs -> Seq(Event)]
  /\ truth \in [Epochs -> Seq(SUBSET Blocks)]
  /\ queue \in Seq(Frame)
  /\ wire \in Seq(Frame)
  /\ feed \in [epoch : Epochs \cup {NoEpoch}, sequence : Int, hashes : SUBSET Blocks]
  /\ retired \in SUBSET Epochs
  /\ state \in States
  /\ synchronized \in BOOLEAN
  /\ known \in Int
  /\ sub \in [pc : Steps, epoch : Epochs \cup {NoEpoch}, next : Nat, high : Int,
              hashes : SUBSET Blocks]
  /\ route \in [pc : {"idle", "scan", "check"}, epoch : Epochs \cup {NoEpoch},
                sequence : Int, count : Nat]
  /\ forgets \in 0 .. MaxForgets

\* Whatever the entry has been through, trusted or not, its hashes are those
\* the cache of its epoch had right after the event with its last sequence
\* (apply_sequenced, install_snapshot): a wrong base cannot be repaired by
\* later deltas.
IndexIsTrue ==
  feed.epoch # NoEpoch =>
    /\ feed.sequence + 2 \in 1 .. Len(truth[feed.epoch])
    /\ feed.hashes = TruthAt(feed.epoch, feed.sequence)

\* A synchronized entry lacks nothing that the subscriber has been told of, by
\* an event, a heartbeat or an answer (mark_synchronized, heartbeat).
SynchronizedIsCaughtUp == synchronized => feed.sequence >= known

IsOverlap(n, hashes) ==
  /\ n \in 0 .. Len(Prompt)
  /\ \A k \in 1 .. n : Prompt[k] \in hashes
  /\ n < Len(Prompt) => Prompt[n + 1] \notin hashes

\* An overlap that route_overlaps returns is the overlap with the cache at one
\* point of its life, although the set was read block by block while events
\* and snapshots changed it.
RoutesAreExact ==
  route.pc = "check" /\ Unchanged =>
    IsOverlap(route.count, TruthAt(route.epoch, route.sequence))

\* Once left, an epoch is never followed again, and within an epoch the entry
\* never goes back ("sequence reset cannot revive an old index").
NeverReturns ==
  [][/\ retired \subseteq retired'
     /\ feed'.epoch = feed.epoch => feed'.sequence >= feed.sequence
     /\ feed'.epoch # feed.epoch => /\ feed.epoch \in retired' \cup {NoEpoch}
                                    /\ feed'.epoch \notin retired']_vars

\* The entry is exact: usable, and equal to the cache.
Exact == Routable /\ feed = [epoch |-> epoch, sequence |-> HighSequence,
                             hashes |-> mirror]

\* Whatever was lost, the entry becomes exact again, unless the replica was
\* removed or its current epoch has been retired (_recover, heartbeat).
Converges == []<>(Exact \/ state = "inactive" \/ epoch \in retired)

=============================================================================
