------------------------- MODULE KvEventIndexProofs -------------------------
(***************************************************************************)
(* Proofs about KvEventIndex, for any blocks, events, prompt and bounds: the *)
(* inductive invariant, what the operations of the index do to the entry and *)
(* to what the subscriber has heard of, that the steps of the publisher, the *)
(* lease, membership, the router and the subscriber keep the invariant, and *)
(* the theorems.                                                           *)
(*                                                                         *)
(* The entry's hashes are the cache's because every way to change them     *)
(* starts from something true: an event from the log at the next sequence, *)
(* a snapshot of the mirror, or the empty set of a new epoch.  IInv keeps  *)
(* those sources true while they are in flight (LogInv, FramesInv, SubInv), *)
(* and adds what the torn read of the router rests on: the entry never     *)
(* returns to a point it has left (RouteInv).                              *)
(***************************************************************************)
EXTENDS KvEventIndex, TLAPS

FeedType == [epoch : Epochs \cup {NoEpoch}, sequence : Int, hashes : SUBSET Blocks]
SubType == [pc : Steps, epoch : Epochs \cup {NoEpoch}, next : Nat, high : Int,
            hashes : SUBSET Blocks]
RouteType == [pc : {"idle", "scan", "check"}, epoch : Epochs \cup {NoEpoch},
              sequence : Int, count : Nat]

PubType ==
  /\ epoch \in Epochs
  /\ mirror \in SUBSET Blocks
  /\ log \in [Epochs -> Seq(Event)]
  /\ truth \in [Epochs -> Seq(SUBSET Blocks)]
  /\ forgets \in 0 .. MaxForgets

\* The cache's history is the log replayed, and the mirror is its end.
LogInv ==
  /\ PubType
  /\ \A e \in Epochs :
       /\ Len(truth[e]) = Len(log[e]) + 1
       /\ truth[e][1] = {}
       /\ \A n \in 1 .. Len(log[e]) : truth[e][n + 1] = Applied(log[e][n], truth[e][n])
       /\ e > epoch => Len(log[e]) = 0
  /\ mirror = truth[epoch][Len(truth[epoch])]

\* A frame names something its epoch has published.
Genuine(f, events) ==
  /\ f.sequence + 1 \in 0 .. Len(events[f.epoch])
  /\ f.kind = "event" => f.sequence >= 0

AllGenuine(q, events) ==
  q \in Seq(Frame) /\ \A i \in 1 .. Len(q) : Genuine(q[i], events)

FramesInv == AllGenuine(queue, log) /\ AllGenuine(wire, log)

Trusted == {"live", "stale"}

FeedInv ==
  /\ feed \in FeedType /\ retired \in SUBSET Epochs /\ state \in States
  /\ IndexIsTrue
  /\ feed.epoch \notin retired
  /\ state \in Trusted => feed.epoch # NoEpoch
  /\ state = "inactive" => feed.epoch = NoEpoch
  /\ feed.epoch = NoEpoch => feed = Empty

KnownRange ==
  /\ known \in Int /\ known >= -1
  /\ feed.epoch = NoEpoch => known = -1
  /\ feed.epoch # NoEpoch => known + 1 <= Len(log[feed.epoch])

\* A trusted entry, synchronized or not, has all that was heard of.
TrustInv ==
  /\ synchronized \in BOOLEAN
  /\ state \in Trusted => feed.sequence >= known
  /\ synchronized => state \in Trusted

KnownInv == KnownRange /\ TrustInv

\* What the subscriber carries between two critical sections.
SubInv ==
  /\ sub \in SubType
  /\ sub.pc # "ready" => sub.epoch # NoEpoch
  /\ sub.pc = "asked" => sub.next <= Len(log[sub.epoch])
  /\ sub.pc \in {"events", "snapshot"} =>
       /\ sub.high + 1 \in 0 .. Len(log[sub.epoch])
       /\ feed.epoch = sub.epoch => known <= sub.high
  /\ sub.pc = "events" => sub.next <= sub.high + 1
  /\ sub.pc = "snapshot" =>
       /\ sub.hashes = TruthAt(sub.epoch, sub.high)
       /\ feed.epoch = sub.epoch => feed.sequence <= sub.high

\* While the entry is where the router captured it, the blocks counted so far
\* are in its set; once it has moved on it cannot come back.
Counted ==
  /\ \A k \in 1 .. route.count : Prompt[k] \in feed.hashes
  /\ route.pc = "check" /\ route.count < Len(Prompt) =>
       Prompt[route.count + 1] \notin feed.hashes

RouteInv ==
  /\ route \in RouteType
  /\ route.pc # "idle" =>
       /\ route.epoch # NoEpoch
       /\ route.count <= Len(Prompt)
       /\ \/ route.epoch \in retired
          \/ feed.epoch = route.epoch /\ route.sequence <= feed.sequence
       /\ feed.epoch = route.epoch /\ feed.sequence = route.sequence => Counted

IInv == LogInv /\ FramesInv /\ FeedInv /\ KnownInv /\ SubInv /\ RouteInv

USE BoundsAssumption, PromptAssumption, AnnouncedAssumption

(***************************************************************************)
(* The operations of the index.  Moves is what each of them may do to the  *)
(* entry.                                                                  *)
(***************************************************************************)
Moves ==
  /\ retired \subseteq retired'
  /\ feed'.epoch = feed.epoch =>
       /\ feed'.sequence >= feed.sequence
       /\ feed'.sequence = feed.sequence => feed'.hashes = feed.hashes
  /\ feed'.epoch # feed.epoch =>
       /\ feed.epoch \in retired' \cup {NoEpoch}
       /\ feed'.epoch \notin retired'

Steady == UNCHANGED <<epoch, mirror, log, truth, forgets>>

\* No epoch is told apart from every epoch.
LEMMA EpochsFacts == NoEpoch \notin Epochs /\ Epochs \subseteq Nat
BY DEF NoEpoch, Epochs

\* An event keeps a set of block hashes a set of block hashes.
LEMMA AppliedType ==
  ASSUME NEW event \in Event, NEW hashes \in SUBSET Blocks
  PROVE  Applied(event, hashes) \in SUBSET Blocks
BY ZenonT(60) DEF Applied, Event

\* The entry after it follows e is true, empty if e is new.
LEMMA AdoptedIsTrue ==
  ASSUME LogInv, FeedInv, NEW e \in Epochs
  PROVE  /\ Adopted(e) \in FeedType
         /\ Adopted(e).epoch = e
         /\ Adopted(e).sequence + 2 \in 1 .. Len(truth[e])
         /\ Adopted(e).hashes = truth[e][Adopted(e).sequence + 2]
         /\ feed.epoch = e => Adopted(e) = feed
         /\ feed.epoch # e => Adopted(e).sequence = -1
<1>1. Len(truth[e]) = Len(log[e]) + 1 /\ truth[e][1] = {} /\ Len(log[e]) \in Nat
  BY DEF LogInv, PubType
<1>2. CASE feed.epoch = e
  BY <1>2, EpochsFacts, ZenonT(60) DEF FeedInv, IndexIsTrue, TruthAt, Adopted, FeedType
<1>3. CASE feed.epoch # e
  <2>1. Adopted(e) = [epoch |-> e, sequence |-> -1, hashes |-> {}]
    BY <1>3, ZenonT(60) DEF Adopted
  <2> QED BY <2>1, <1>1, <1>3 DEF FeedType
<1> QED BY <1>2, <1>3, ZenonT(60)

\* The entry moves forward to a true point of an epoch it has not left.
LEMMA EntryStep ==
  ASSUME LogInv, FeedInv, UNCHANGED truth, NEW e \in Epochs, ~Refused(e),
         NEW s \in Int, NEW h \in SUBSET Blocks,
         s + 2 \in 1 .. Len(truth[e]), h = truth[e][s + 2],
         feed.epoch = e => s >= feed.sequence,
         feed' = [epoch |-> e, sequence |-> s, hashes |-> h],
         retired' = RetiredFor(e), state' \in States \ {"inactive"}
  PROVE  FeedInv' /\ Moves
<1>1. feed'.epoch = e /\ feed'.sequence = s /\ feed'.hashes = h /\ feed' \in FeedType
  BY ZenonT(60) DEF FeedType
<1>2. e # NoEpoch /\ e \notin retired
  BY EpochsFacts, ZenonT(60) DEF Refused
<1>3. retired' \in SUBSET Epochs /\ e \notin retired' /\ retired \subseteq retired'
  BY <1>2, ZenonT(60) DEF RetiredFor, FeedInv, FeedType
<1>4. feed.epoch # e => feed.epoch \in retired' \cup {NoEpoch}
  BY <1>2, ZenonT(60) DEF RetiredFor
<1>5. feed.epoch = e /\ s = feed.sequence => h = feed.hashes
  BY <1>2, ZenonT(60) DEF FeedInv, IndexIsTrue, TruthAt
<1>6. IndexIsTrue'
  BY <1>1, ZenonT(60) DEF IndexIsTrue, TruthAt
<1>7. FeedInv'
  BY <1>1, <1>2, <1>3, <1>6, ZenonT(60) DEF FeedInv
<1> QED BY <1>1, <1>3, <1>4, <1>5, <1>7, ZenonT(60) DEF Moves

\* Quarantining the entry keeps its hashes true.
LEMMA QuarantineStep ==
  ASSUME LogInv, FeedInv, UNCHANGED truth, NEW e \in Epochs, ~Refused(e), Quarantine(e)
  PROVE  FeedInv' /\ Moves /\ feed'.epoch = e
<1> DEFINE f == Adopted(e)
<1>1. /\ f \in FeedType /\ f.epoch = e /\ f.sequence + 2 \in 1 .. Len(truth[e])
      /\ f.hashes = truth[e][f.sequence + 2]
      /\ feed.epoch = e => f = feed
  BY AdoptedIsTrue, ZenonT(60)
<1>2. f = [epoch |-> e, sequence |-> f.sequence, hashes |-> f.hashes]
      /\ f.sequence \in Int /\ f.hashes \in SUBSET Blocks
  BY <1>1, ZenonT(60) DEF FeedType
<1>3. feed' = f /\ retired' = RetiredFor(e) /\ state' \in States \ {"inactive"}
  BY ZenonT(60) DEF Quarantine, States
<1>4. feed.epoch = e => f.sequence >= feed.sequence
  BY <1>1, <1>2
<1> HIDE DEF f
<1> QED BY <1>1, <1>2, <1>3, <1>4, EntryStep, ZenonT(60)

\* A gap that follows no frame: the entry stays where it is.
LEMMA QuarantineHere ==
  ASSUME LogInv, FeedInv, UNCHANGED truth, state # "inactive", Quarantine(feed.epoch)
  PROVE  FeedInv' /\ Moves /\ feed' = feed /\ retired' = retired
<1>1. feed' = feed /\ retired' = retired /\ state' = "gap"
  BY ZenonT(60) DEF Quarantine, Adopted, RetiredFor
<1>2. IndexIsTrue'
  BY <1>1, ZenonT(60) DEF FeedInv, IndexIsTrue, TruthAt
<1>3. FeedInv'
  BY <1>1, <1>2, ZenonT(60) DEF FeedInv, States, Trusted
<1>4. feed.sequence \in Int
  BY ZenonT(60) DEF FeedInv, FeedType
<1>5. Moves
  BY <1>1, <1>4 DEF Moves
<1> QED BY <1>1, <1>3, <1>5, ZenonT(60)

\* Applying the next event of the log keeps the hashes true.
LEMMA ApplyNextStep ==
  ASSUME LogInv, FeedInv, UNCHANGED truth, NEW e \in Epochs, NEW s \in Int,
         IsNext(e, s), s + 1 \in 0 .. Len(log[e]), ApplyNext(e, s)
  PROVE  FeedInv' /\ Moves /\ feed'.epoch = e /\ feed'.sequence = s
<1> DEFINE f == Adopted(e)
           h == Applied(log[e][s + 1], f.hashes)
<1>1. /\ f \in FeedType /\ f.epoch = e /\ f.sequence + 2 \in 1 .. Len(truth[e])
      /\ f.hashes = truth[e][f.sequence + 2]
      /\ feed.epoch = e => f = feed
  BY AdoptedIsTrue, ZenonT(60)
<1>2. f.sequence \in Int /\ f.hashes \in SUBSET Blocks
  BY <1>1, ZenonT(60) DEF FeedType
<1>3. ~Refused(e) /\ s = f.sequence + 1
  BY ZenonT(60) DEF IsNext
<1>4. s + 1 \in 1 .. Len(log[e]) /\ log[e] \in Seq(Event) /\ Len(truth[e]) = Len(log[e]) + 1
      /\ \A n \in 1 .. Len(log[e]) : truth[e][n + 1] = Applied(log[e][n], truth[e][n])
  <2>1. log[e] \in Seq(Event) /\ Len(log[e]) \in Nat
    BY DEF LogInv, PubType
  <2>2. Len(truth[e]) = Len(log[e]) + 1
        /\ \A n \in 1 .. Len(log[e]) : truth[e][n + 1] = Applied(log[e][n], truth[e][n])
    BY ZenonT(60) DEF LogInv
  <2>3. s + 1 \in 1 .. Len(log[e])
    BY <1>1, <1>2, <1>3, <2>1, <2>2
  <2> QED BY <2>1, <2>2, <2>3, ZenonT(60)
<1>5. s + 2 \in 1 .. Len(truth[e]) /\ truth[e][s + 2] = h
  <2>1. truth[e][(s + 1) + 1] = Applied(log[e][s + 1], truth[e][s + 1])
    BY <1>4, ZenonT(60)
  <2>2. f.sequence + 2 = s + 1 /\ (s + 1) + 1 = s + 2
    BY <1>2, <1>3
  <2> QED BY <2>1, <2>2, <1>1, <1>4, SMTT(60)
<1>6. h \in SUBSET Blocks
  <2>1. log[e][s + 1] \in Event
    BY <1>4
  <2> QED BY <2>1, <1>2, AppliedType, ZenonT(60)
<1>7. /\ feed' = [epoch |-> e, sequence |-> s, hashes |-> h] /\ retired' = RetiredFor(e)
      /\ state' \in States \ {"inactive"}
  BY ZenonT(60) DEF ApplyNext, States
<1>8. feed.epoch = e => s >= feed.sequence
  BY <1>1, <1>2, <1>3
<1> HIDE DEF f, h
<1> QED BY <1>3, <1>5, <1>6, <1>7, <1>8, EntryStep, ZenonT(60)

\* Confirming true hashes keeps them true.
LEMMA ConfirmStep ==
  ASSUME LogInv, FeedInv, UNCHANGED truth, NEW e \in Epochs, ~Refused(e),
         NEW s \in Int, NEW h \in SUBSET Blocks,
         s + 2 \in 1 .. Len(truth[e]), h = truth[e][s + 2],
         feed.epoch = e => s >= feed.sequence, Confirm(e, s, h)
  PROVE  FeedInv' /\ Moves /\ feed'.epoch = e /\ feed'.sequence = s
<1>1. feed' = [epoch |-> e, sequence |-> s, hashes |-> h] /\ retired' = RetiredFor(e)
      /\ state' \in States \ {"inactive"}
  BY ZenonT(60) DEF Confirm, States
<1> QED BY <1>1, EntryStep, ZenonT(60)

\* An operation that changes nothing.
LEMMA SameIndex ==
  ASSUME LogInv, FeedInv, UNCHANGED truth, UNCHANGED idxVars
  PROVE  FeedInv' /\ Moves
<1>1. feed' = feed /\ retired' = retired /\ state' = state
  BY ZenonT(60) DEF idxVars
<1>2. IndexIsTrue'
  BY <1>1, ZenonT(60) DEF FeedInv, IndexIsTrue, TruthAt
<1>3. FeedInv'
  BY <1>1, <1>2, ZenonT(60) DEF FeedInv
<1>4. feed.sequence \in Int
  BY ZenonT(60) DEF FeedInv, FeedType
<1> QED BY <1>1, <1>3, <1>4 DEF Moves

\* apply_sequenced keeps the hashes true and moves forward.
LEMMA ApplySequencedStep ==
  ASSUME LogInv, FeedInv, UNCHANGED truth, NEW e \in Epochs, NEW s \in Int,
         s + 1 \in 0 .. Len(log[e]), ApplySequenced(e, s)
  PROVE  FeedInv' /\ Moves
<1>1. CASE IsNext(e, s) /\ ApplyNext(e, s)
  BY <1>1, ApplyNextStep, ZenonT(60)
<1>2. CASE IsGap(e, s) /\ Quarantine(e)
  BY <1>2, QuarantineStep, ZenonT(60) DEF IsGap
<1>3. CASE UNCHANGED idxVars
  BY <1>3, SameIndex, ZenonT(60)
<1> QED BY <1>1, <1>2, <1>3, ZenonT(60) DEF ApplySequenced

\* So does mark_gap.
LEMMA MarkGapStep ==
  ASSUME LogInv, FeedInv, UNCHANGED truth, NEW e \in Epochs, MarkGap(e)
  PROVE  FeedInv' /\ Moves
BY QuarantineStep, SameIndex, ZenonT(60) DEF MarkGap

\* So does install_snapshot, for a true snapshot that is not older.
LEMMA InstallSnapshotStep ==
  ASSUME LogInv, FeedInv, UNCHANGED truth, NEW e \in Epochs, NEW s \in Int,
         NEW h \in SUBSET Blocks, s + 2 \in 1 .. Len(truth[e]), h = truth[e][s + 2],
         feed.epoch = e => s >= feed.sequence, InstallSnapshot(e, s, h)
  PROVE  FeedInv' /\ Moves
BY ConfirmStep, SameIndex, ZenonT(60) DEF InstallSnapshot

\* So does mark_synchronized.
LEMMA MarkSynchronizedStep ==
  ASSUME LogInv, FeedInv, UNCHANGED truth, NEW e \in Epochs, NEW high \in Int,
         MarkSynchronized(e, high)
  PROVE  FeedInv' /\ Moves
<1>1. CASE IsComplete(e, high) /\ Confirm(e, high, feed.hashes)
  <2>1. ~Refused(e) /\ feed.epoch = e /\ feed.sequence = high
    BY <1>1, ZenonT(60) DEF IsComplete
  <2>2. feed.hashes \in SUBSET Blocks /\ feed.sequence \in Int
        /\ high + 2 \in 1 .. Len(truth[e]) /\ feed.hashes = truth[e][high + 2]
    BY <2>1, EpochsFacts, ZenonT(60) DEF FeedInv, FeedType, IndexIsTrue, TruthAt
  <2> QED BY <1>1, <2>1, <2>2, ConfirmStep
<1>2. CASE ~Refused(e) /\ Quarantine(feed.epoch)
  BY <1>2, QuarantineHere, ZenonT(60) DEF Refused
<1>3. CASE UNCHANGED idxVars
  BY <1>3, SameIndex, ZenonT(60)
<1> QED BY <1>1, <1>2, <1>3, ZenonT(60) DEF MarkSynchronized, IsComplete

\* So does heartbeat.
LEMMA HeartbeatStep ==
  ASSUME LogInv, FeedInv, UNCHANGED truth, NEW e \in Epochs, NEW high \in Int,
         Heartbeat(e, high)
  PROVE  FeedInv' /\ Moves
<1>1. CASE Refreshes(e, high) /\ Confirm(e, high, Adopted(e).hashes)
  <2>1. ~Refused(e) /\ high = Adopted(e).sequence
    BY <1>1, ZenonT(60) DEF Refreshes
  <2>2. /\ Adopted(e) \in FeedType /\ Adopted(e).sequence + 2 \in 1 .. Len(truth[e])
        /\ Adopted(e).hashes = truth[e][Adopted(e).sequence + 2]
        /\ feed.epoch = e => Adopted(e) = feed
    BY AdoptedIsTrue, ZenonT(60)
  <2>3. Adopted(e).hashes \in SUBSET Blocks
    BY <2>2, ZenonT(60) DEF FeedType
  <2>4. feed.epoch = e => high >= feed.sequence
    BY <2>1, <2>2
  <2> QED BY <1>1, <2>1, <2>2, <2>3, <2>4, ConfirmStep, ZenonT(60)
<1>2. CASE ~Refused(e) /\ Quarantine(e)
  BY <1>2, QuarantineStep, ZenonT(60)
<1>3. CASE UNCHANGED idxVars
  BY <1>3, SameIndex, ZenonT(60)
<1> QED BY <1>1, <1>2, <1>3, ZenonT(60) DEF Heartbeat, Refreshes

\* Membership leaves an empty entry and retires its epoch.
LEMMA ForgetStep ==
  ASSUME LogInv, FeedInv, UNCHANGED truth, ForgetReplica \/ RegisterReplica
  PROVE  FeedInv' /\ Moves /\ feed'.epoch = NoEpoch
<1>1. feed' = Empty /\ state' \in {"inactive", "unknown"}
  BY ZenonT(60) DEF ForgetReplica, RegisterReplica
<1>2. feed'.epoch = NoEpoch /\ feed'.sequence = -1 /\ feed'.hashes = {} /\ feed' \in FeedType
  BY <1>1 DEF Empty, FeedType
<1>3. retired' \in SUBSET Epochs /\ retired \subseteq retired'
      /\ feed.epoch \in retired' \cup {NoEpoch}
  BY EpochsFacts, ZenonT(60) DEF ForgetReplica, RegisterReplica, RetiredFor, FeedInv, FeedType
<1>4. NoEpoch \notin retired'
  BY <1>3, EpochsFacts, ZenonT(60)
<1>5. feed.epoch = NoEpoch => feed.sequence = -1 /\ feed.hashes = {}
  BY DEF FeedInv, Empty
<1>6. FeedInv'
  BY <1>1, <1>2, <1>3, <1>4, ZenonT(60) DEF FeedInv, IndexIsTrue, States, Trusted
<1> QED BY <1>2, <1>3, <1>4, <1>5, <1>6 DEF Moves

\* The router's count stays good: the entry is where it was, or gone for good.
LEMMA RouteKept ==
  ASSUME FeedInv, FeedInv', RouteInv, Moves, UNCHANGED route
  PROVE  RouteInv'
<1>1. feed.sequence \in Int /\ feed'.sequence \in Int /\ feed'.epoch \notin retired'
  BY ZenonT(60) DEF FeedInv, FeedType
<1>2. route.sequence \in Int
  BY ZenonT(60) DEF RouteInv, RouteType
<1>3. ASSUME route.pc # "idle"
      PROVE  /\ route.epoch # NoEpoch
             /\ route.count <= Len(Prompt)
             /\ \/ route.epoch \in retired'
                \/ feed'.epoch = route.epoch /\ route.sequence <= feed'.sequence
             /\ feed'.epoch = route.epoch /\ feed'.sequence = route.sequence => Counted'
  <2>1. CASE route.epoch \in retired
    BY <1>1, <1>3, <2>1, ZenonT(60) DEF RouteInv, Moves
  <2>2. CASE feed.epoch = route.epoch /\ route.sequence <= feed.sequence
    <3>1. CASE feed'.epoch = feed.epoch
      <4>1. feed'.sequence = route.sequence =>
              feed.sequence = route.sequence /\ feed'.hashes = feed.hashes
        BY <1>1, <1>2, <2>2, <3>1 DEF Moves
      <4>2. feed'.sequence = route.sequence => Counted'
        BY <4>1, <1>3, <2>2, ZenonT(60) DEF RouteInv, Counted
      <4>3. route.sequence <= feed'.sequence
        BY <1>1, <1>2, <2>2, <3>1 DEF Moves
      <4> QED BY <4>2, <4>3, <1>3, <2>2, <3>1, ZenonT(60) DEF RouteInv
    <3>2. CASE feed'.epoch # feed.epoch
      BY <1>1, <1>3, <2>2, <3>2, ZenonT(60) DEF RouteInv, Moves
    <3> QED BY <3>1, <3>2, ZenonT(60)
  <2> QED BY <1>3, <2>1, <2>2, ZenonT(60) DEF RouteInv
<1> QED BY <1>3, ZenonT(60) DEF RouteInv

(***************************************************************************)
(* What the subscriber has heard of.                                       *)
(***************************************************************************)
LEMMA LearnRange ==
  ASSUME KnownRange, UNCHANGED log, NEW e \in Epochs, NEW s \in Int,
         LogInv, FeedInv', s + 1 \in 0 .. Len(log[e]), Learn(e, s)
  PROVE  KnownRange'
<1>1. /\ feed'.epoch \in Epochs \cup {NoEpoch}
      /\ \A x \in Epochs : Len(log[x]) \in Nat
  BY DEF FeedInv, FeedType, LogInv, PubType
<1>2. e # NoEpoch
  BY EpochsFacts, ZenonT(60)
<1> QED BY <1>1, <1>2 DEF KnownRange, Learn

\* An operation that confirms the entry up to s, after t <= s was heard of.
LEMMA KnownConfirmed ==
  ASSUME KnownRange, NEW e \in Epochs, NEW s \in Int, NEW t \in Int, t <= s, s >= -1,
         feed.epoch = e => known <= s, Learn(e, t),
         feed'.epoch = e, feed'.sequence = s, state' \in Trusted, synchronized' \in BOOLEAN
  PROVE  TrustInv'
BY ZenonT(60) DEF KnownRange, Learn, TrustInv

\* An operation that changes nothing, after a t that says nothing new.
LEMMA KnownSame ==
  ASSUME KnownInv, NEW e \in Epochs, NEW t \in Int, Learn(e, t), UNCHANGED idxVars,
         feed.epoch = e => t <= feed.sequence \/ state \notin Trusted
  PROVE  TrustInv'
BY ZenonT(60) DEF KnownInv, KnownRange, Learn, TrustInv, idxVars

\* A quarantined entry is not trusted, so nothing is claimed of it.
LEMMA KnownQuarantined ==
  ASSUME NEW e, Quarantine(e)
  PROVE  TrustInv'
BY ZenonT(60) DEF Quarantine, TrustInv, Trusted

\* No frame of an epoch that is refused is one of the entry's epoch.
LEMMA RefusedIsOther ==
  ASSUME FeedInv, NEW e \in Epochs, Refused(e)
  PROVE  feed.epoch # e
BY EpochsFacts, ZenonT(60) DEF FeedInv, Refused

\* After apply_sequenced a trusted entry has all that was heard of.
LEMMA KnownApplied ==
  ASSUME LogInv, FeedInv, KnownInv, UNCHANGED truth, NEW e \in Epochs, NEW s \in Int,
         s + 1 \in 0 .. Len(log[e]), ApplySequenced(e, s), Learn(e, s)
  PROVE  TrustInv'
<1>0. feed.epoch = e => Adopted(e) = feed
  BY ZenonT(60) DEF Adopted
<1>1. CASE IsNext(e, s) /\ ApplyNext(e, s)
  <2>1. feed'.epoch = e /\ feed'.sequence = s
    BY <1>1, ApplyNextStep, ZenonT(60)
  <2>2. feed.epoch = e => s = feed.sequence + 1
    BY <1>0, <1>1, ZenonT(60) DEF IsNext
  <2>3. feed.sequence \in Int /\ s >= -1
    BY DEF FeedInv, FeedType
  <2>4. CASE feed.epoch # e \/ state = "live"
    <3>1. feed.epoch = e => known <= s
      BY <2>2, <2>3, <2>4 DEF KnownInv, TrustInv, KnownRange, Trusted
    <3>2. CASE state' \in Trusted
      <4>1. synchronized' \in BOOLEAN
        BY <1>1, ZenonT(60) DEF ApplyNext
      <4>2. s <= s /\ KnownRange
        BY DEF KnownInv
      <4> QED BY <2>1, <2>3, <3>1, <3>2, <4>1, <4>2, KnownConfirmed, ZenonT(60)
    <3>3. CASE state' \notin Trusted
      <4>1. synchronized' = FALSE
        BY <1>1, <3>3, ZenonT(60) DEF ApplyNext, Trusted
      <4> QED BY <3>3, <4>1, ZenonT(60) DEF TrustInv
    <3> QED BY <3>2, <3>3, ZenonT(60)
  <2>5. CASE feed.epoch = e /\ state # "live"
    <3>1. state' = "syncing" /\ synchronized' = FALSE
      BY <1>1, <2>5, ZenonT(60) DEF ApplyNext
    <3> QED BY <3>1, ZenonT(60) DEF TrustInv, Trusted
  <2> QED BY <2>4, <2>5, ZenonT(60)
<1>2. CASE IsGap(e, s) /\ Quarantine(e)
  BY <1>2, KnownQuarantined, ZenonT(60)
<1>3. CASE ~IsNext(e, s) /\ ~IsGap(e, s) /\ UNCHANGED idxVars
  <2>1. feed.sequence \in Int
    BY ZenonT(60) DEF FeedInv, FeedType
  <2>2. feed.epoch = e => s <= feed.sequence
    BY <1>0, <1>3, <2>1, RefusedIsOther DEF IsNext, IsGap
  <2> QED BY <1>3, <2>2, KnownSame, ZenonT(60)
<1> QED BY <1>1, <1>2, <1>3, ZenonT(60) DEF ApplySequenced

\* So it has after heartbeat,
LEMMA KnownHeartbeat ==
  ASSUME LogInv, FeedInv, KnownInv, UNCHANGED truth, NEW e \in Epochs, NEW high \in Int,
         high + 1 \in 0 .. Len(log[e]), Heartbeat(e, high), Learn(e, high)
  PROVE  TrustInv'
<1>1. CASE Refreshes(e, high) /\ Confirm(e, high, Adopted(e).hashes)
  <2>1. feed.epoch = e => high = feed.sequence /\ state \in Trusted
    BY <1>1, ZenonT(60) DEF Refreshes, Adopted, Trusted
  <2>2. feed'.epoch = e /\ feed'.sequence = high /\ state' \in Trusted
        /\ synchronized' \in BOOLEAN
    BY <1>1, ZenonT(60) DEF Confirm, Trusted
  <2>3. feed.epoch = e => known <= high
    BY <2>1, ZenonT(60) DEF KnownInv, KnownRange, TrustInv
  <2> QED BY <2>2, <2>3, KnownConfirmed DEF KnownInv
<1>2. CASE Quarantine(e)
  BY <1>2, KnownQuarantined, ZenonT(60)
<1>3. CASE Refused(e) /\ UNCHANGED idxVars
  BY <1>3, RefusedIsOther, KnownSame, ZenonT(60)
<1> QED BY <1>1, <1>2, <1>3, ZenonT(60) DEF Heartbeat, Refreshes

\* after mark_gap,
LEMMA KnownMarked ==
  ASSUME LogInv, FeedInv, KnownInv, UNCHANGED truth, NEW e \in Epochs,
         MarkGap(e), Learn(e, -1)
  PROVE  TrustInv'
BY KnownQuarantined, RefusedIsOther, KnownSame DEF MarkGap

\* after mark_synchronized,
LEMMA KnownEnded ==
  ASSUME LogInv, FeedInv, KnownInv, NEW e \in Epochs, NEW high \in Int, high >= -1,
         feed.epoch = e => known <= high, MarkSynchronized(e, high), Learn(e, high)
  PROVE  TrustInv'
<1>1. CASE IsComplete(e, high) /\ Confirm(e, high, feed.hashes)
  <2>1. feed'.epoch = e /\ feed'.sequence = high /\ state' \in Trusted
        /\ synchronized' \in BOOLEAN
    BY <1>1, ZenonT(60) DEF Confirm, Trusted
  <2>2. KnownRange /\ high <= high
    BY DEF KnownInv
  <2> QED BY <2>1, <2>2, KnownConfirmed, ZenonT(60)
<1>2. CASE Quarantine(feed.epoch)
  BY <1>2, KnownQuarantined, ZenonT(60)
<1>3. CASE Refused(e) /\ UNCHANGED idxVars
  BY <1>3, RefusedIsOther, KnownSame, ZenonT(60)
<1> QED BY <1>1, <1>2, <1>3, ZenonT(60) DEF MarkSynchronized, IsComplete

\* and after install_snapshot.
LEMMA KnownInstalled ==
  ASSUME LogInv, FeedInv, KnownInv, NEW e \in Epochs, NEW high \in Int, high >= -1,
         feed.epoch = e => known <= high, NEW h, InstallSnapshot(e, high, h), Learn(e, high)
  PROVE  TrustInv'
<1>1. CASE Confirm(e, high, h)
  <2>1. feed'.epoch = e /\ feed'.sequence = high /\ state' \in Trusted
        /\ synchronized' \in BOOLEAN
    BY <1>1, ZenonT(60) DEF Confirm, Trusted
  <2> QED BY <2>1, KnownConfirmed DEF KnownInv
<1>2. CASE Refused(e) /\ UNCHANGED idxVars
  BY <1>2, RefusedIsOther, KnownSame, ZenonT(60)
<1> QED BY <1>1, <1>2, ZenonT(60) DEF InstallSnapshot

(***************************************************************************)
(* What is left alone.                                                     *)
(***************************************************************************)
LEMMA SteadyLog ==
  ASSUME LogInv, Steady
  PROVE  LogInv'
BY ZenonT(60) DEF LogInv, PubType, Steady

\* Frames stay genuine when nothing is sent.
LEMMA SteadyFrames ==
  ASSUME FramesInv, UNCHANGED <<queue, wire, log>>
  PROVE  FramesInv'
BY ZenonT(60) DEF FramesInv

\* A scoring in progress is not disturbed when the entry stays.
LEMMA SteadyRoute ==
  ASSUME RouteInv, UNCHANGED <<feed, retired, route>>
  PROVE  RouteInv'
BY ZenonT(60) DEF RouteInv, Counted

\* The subscriber starts over, or will ask for epoch e.
LEMMA FreshSub ==
  ASSUME NEW e \in Epochs, sub' \in {Ready, At("recover", e), At("unrefreshed", e)}
  PROVE  SubInv'
<1>1. sub' \in SubType /\ sub'.pc \in {"ready", "recover", "unrefreshed"}
      /\ (sub'.pc # "ready" => sub'.epoch = e)
  BY DEF SubType, Ready, At, Steps
<1> QED BY <1>1, EpochsFacts, ZenonT(60) DEF SubInv

\* The parts of a sequence of genuine frames are genuine.
LEMMA HeadFrame ==
  ASSUME NEW q, NEW events, AllGenuine(q, events), q # <<>>
  PROVE  Head(q) \in Frame /\ Genuine(Head(q), events)
<1>1. q \in Seq(Frame) /\ Head(q) = q[1] /\ 1 \in 1 .. Len(q)
  BY DEF AllGenuine
<1> QED BY <1>1 DEF AllGenuine

\* The other frames of a queue.
LEMMA TailFrames ==
  ASSUME NEW q, NEW events, AllGenuine(q, events), q # <<>>
  PROVE  AllGenuine(Tail(q), events)
<1>1. /\ Tail(q) \in Seq(Frame) /\ Len(Tail(q)) = Len(q) - 1 /\ Len(q) \in Nat
      /\ \A i \in 1 .. Len(Tail(q)) : Tail(q)[i] = q[i + 1]
  BY DEF AllGenuine
<1>2. ASSUME NEW i \in 1 .. Len(Tail(q)) PROVE Genuine(Tail(q)[i], events)
  <2>1. i + 1 \in 1 .. Len(q)
    BY <1>1
  <2> QED BY <1>1, <2>1, ZenonT(60) DEF AllGenuine
<1> QED BY <1>1, <1>2, ZenonT(60) DEF AllGenuine

(***************************************************************************)
(* The publisher.                                                          *)
(***************************************************************************)
\* Logs and histories only get longer.
Grows ==
  \A e \in Epochs :
    /\ log'[e] \in Seq(Event) /\ Len(log'[e]) >= Len(log[e])
    /\ Len(truth'[e]) >= Len(truth[e]) /\ Len(truth'[e]) \in Nat
    /\ \A n \in 1 .. Len(truth[e]) : truth'[e][n] = truth[e][n]

\* A log that grows leaves everything said about its beginning.
LEMMA GrowKeeps ==
  ASSUME LogInv, FramesInv, FeedInv, KnownInv, SubInv, RouteInv, Grows,
         UNCHANGED <<idxVars, known, sub, route>>
  PROVE  /\ FeedInv' /\ KnownInv' /\ SubInv' /\ RouteInv'
         /\ \A f \in Frame : Genuine(f, log) => Genuine(f, log')
<1> USE DEF idxVars
<1>1. \A e \in Epochs : /\ Len(log[e]) \in Nat /\ Len(log'[e]) \in Nat
                        /\ Len(truth[e]) = Len(log[e]) + 1
  BY DEF Grows, LogInv, PubType
<1>2. feed.epoch \in Epochs \cup {NoEpoch} /\ feed.sequence \in Int
  BY ZenonT(60) DEF FeedInv, FeedType
<1>3. IndexIsTrue'
  <2>1. ASSUME feed.epoch # NoEpoch
        PROVE  /\ feed.sequence + 2 \in 1 .. Len(truth'[feed.epoch])
               /\ feed.hashes = truth'[feed.epoch][feed.sequence + 2]
    <3>1. feed.epoch \in Epochs
      BY <2>1, <1>2, ZenonT(60)
    <3>2. feed.sequence + 2 \in 1 .. Len(truth[feed.epoch])
          /\ feed.hashes = truth[feed.epoch][feed.sequence + 2]
      BY <2>1, ZenonT(60) DEF FeedInv, IndexIsTrue, TruthAt
    <3>3. /\ Len(truth'[feed.epoch]) >= Len(truth[feed.epoch])
          /\ \A n \in 1 .. Len(truth[feed.epoch]) : truth'[feed.epoch][n] = truth[feed.epoch][n]
      BY <3>1, ZenonT(60) DEF Grows
    <3>4. Len(truth[feed.epoch]) \in Nat /\ Len(truth'[feed.epoch]) \in Nat
      BY <3>1, <1>1 DEF Grows
    <3>5. feed.sequence + 2 \in 1 .. Len(truth'[feed.epoch])
      BY <3>2, <3>3, <3>4, <1>2
    <3> QED BY <3>2, <3>3, <3>5, ZenonT(60)
  <2> QED BY <2>1, ZenonT(60) DEF IndexIsTrue, TruthAt
<1>4. FeedInv'
  BY <1>3, ZenonT(60) DEF FeedInv
<1>5. KnownInv'
  <2>1. KnownRange'
    BY <1>1, <1>2 DEF KnownInv, KnownRange, Grows
  <2>2. TrustInv'
    BY ZenonT(60) DEF KnownInv, TrustInv
  <2> QED BY <2>1, <2>2, ZenonT(60) DEF KnownInv
<1>6. SubInv'
  <2>1. sub.epoch \in Epochs \cup {NoEpoch} /\ sub.high \in Int /\ sub.next \in Nat
        /\ sub.pc \in Steps
    BY ZenonT(60) DEF SubInv, SubType
  <2>2. ASSUME sub.pc # "ready"
        PROVE  /\ sub.epoch \in Epochs
               /\ Len(log'[sub.epoch]) >= Len(log[sub.epoch])
               /\ Len(log'[sub.epoch]) \in Nat /\ Len(log[sub.epoch]) \in Nat
    BY <1>1, <2>1, <2>2, ZenonT(60) DEF SubInv, Grows
  <2>3. sub.pc = "snapshot" => sub.hashes = truth'[sub.epoch][sub.high + 2]
    <3> SUFFICES ASSUME sub.pc = "snapshot"
                 PROVE  sub.hashes = truth'[sub.epoch][sub.high + 2]
      OBVIOUS
    <3>1. sub.epoch \in Epochs /\ sub.high + 2 \in 1 .. Len(truth[sub.epoch])
      BY <1>1, <2>1, <2>2, SMTT(60) DEF SubInv
    <3>2. truth'[sub.epoch][sub.high + 2] = truth[sub.epoch][sub.high + 2]
      BY <3>1, ZenonT(60) DEF Grows
    <3> QED BY <3>2, ZenonT(60) DEF SubInv, TruthAt
  <2>4. sub.pc = "asked" => sub.next <= Len(log'[sub.epoch])
    BY <2>1, <2>2 DEF SubInv
  <2>5. sub.pc \in {"events", "snapshot"} => sub.high + 1 \in 0 .. Len(log'[sub.epoch])
    BY <2>1, <2>2 DEF SubInv
  <2> QED BY <2>3, <2>4, <2>5, ZenonT(60) DEF SubInv, TruthAt
<1>7. RouteInv'
  BY SteadyRoute, ZenonT(60)
<1>8. \A f \in Frame : Genuine(f, log) => Genuine(f, log')
  BY <1>1 DEF Grows, Genuine, Frame
<1> QED BY <1>4, <1>5, <1>6, <1>7, <1>8, ZenonT(60)

\* What Append does.
LEMMA AppendFacts ==
  ASSUME NEW S, NEW q \in Seq(S), NEW x \in S
  PROVE  /\ Len(Append(q, x)) = Len(q) + 1 /\ Append(q, x) \in Seq(S) /\ Len(q) \in Nat
         /\ \A n \in 1 .. Len(q) : Append(q, x)[n] = q[n]
         /\ Append(q, x)[Len(q) + 1] = x
OBVIOUS

\* Publishing extends the log and its history alike.
LEMMA PublishGrows ==
  ASSUME LogInv, NEW g \in 1 .. epoch, NEW event \in Event, Publish(g, event)
  PROVE  LogInv' /\ Grows /\ Len(log'[epoch]) = Len(log[epoch]) + 1
<1> DEFINE old == log[epoch]
           past == truth[epoch]
<1>1. /\ epoch \in Epochs /\ g = epoch /\ epoch' = epoch /\ forgets' = forgets
      /\ old \in Seq(Event) /\ past \in Seq(SUBSET Blocks) /\ mirror \in SUBSET Blocks
      /\ Len(past) = Len(old) + 1 /\ Len(old) \in Nat /\ mirror = past[Len(past)]
  BY DEF Publish, Publishes, LogInv, PubType
<1>2. /\ log' = [log EXCEPT ![epoch] = Append(old, event)]
      /\ truth' = [truth EXCEPT ![epoch] = Append(past, Applied(event, past[Len(past)]))]
      /\ mirror' = Applied(event, past[Len(past)])
  BY <1>1, ZenonT(60) DEF Publish
<1>3. Applied(event, past[Len(past)]) \in SUBSET Blocks
  BY <1>1, AppliedType, ZenonT(60)
<1>4. /\ log'[epoch] = Append(old, event)
      /\ truth'[epoch] = Append(past, Applied(event, past[Len(past)]))
      /\ \A e \in Epochs \ {epoch} : log'[e] = log[e] /\ truth'[e] = truth[e]
  BY <1>1, <1>2, ZenonT(60) DEF LogInv, PubType
<1>5. PubType'
  BY <1>1, <1>2, <1>3 DEF LogInv, PubType
<1>6. /\ Len(log'[epoch]) = Len(old) + 1 /\ Len(truth'[epoch]) = Len(past) + 1
      /\ \A n \in 1 .. Len(old) : log'[epoch][n] = old[n]
      /\ log'[epoch][Len(old) + 1] = event
      /\ \A n \in 1 .. Len(past) : truth'[epoch][n] = past[n]
      /\ truth'[epoch][Len(past) + 1] = Applied(event, past[Len(past)])
  <2>1. past[Len(past)] \in SUBSET Blocks
    BY <1>1, ZenonT(60)
  <2>2. Len(log'[epoch]) = Len(old) + 1 /\ log'[epoch][Len(old) + 1] = event
        /\ \A n \in 1 .. Len(old) : log'[epoch][n] = old[n]
    BY <1>1, <1>4, AppendFacts
  <2>3. Len(truth'[epoch]) = Len(past) + 1
        /\ truth'[epoch][Len(past) + 1] = Applied(event, past[Len(past)])
        /\ \A n \in 1 .. Len(past) : truth'[epoch][n] = past[n]
    <3> HIDE DEF past
    <3> QED BY <1>1, <1>3, <1>4, AppendFacts
  <2> QED BY <2>2, <2>3, ZenonT(60)
<1>7. Grows
  <2>1. \A e \in Epochs : log[e] \in Seq(Event) /\ truth[e] \in Seq(SUBSET Blocks)
                          /\ log'[e] \in Seq(Event) /\ truth'[e] \in Seq(SUBSET Blocks)
    BY <1>5, ZenonT(60) DEF LogInv, PubType
  <2>2. ASSUME NEW e \in Epochs
        PROVE  /\ Len(log'[e]) >= Len(log[e]) /\ Len(truth'[e]) >= Len(truth[e])
               /\ \A n \in 1 .. Len(truth[e]) : truth'[e][n] = truth[e][n]
    <3>1. CASE e = epoch
      BY <1>1, <1>6, <3>1
    <3>2. CASE e # epoch
      BY <1>4, <2>1, <3>2
    <3> QED BY <3>1, <3>2, ZenonT(60)
  <2> QED BY <2>1, <2>2 DEF Grows
<1>8. ASSUME NEW e \in Epochs
      PROVE  /\ Len(truth'[e]) = Len(log'[e]) + 1
             /\ truth'[e][1] = {}
             /\ \A n \in 1 .. Len(log'[e]) : truth'[e][n + 1] = Applied(log'[e][n], truth'[e][n])
             /\ e > epoch' => Len(log'[e]) = 0
  <2>1. CASE e = epoch
    <3>1. past[1] = {} /\ \A n \in 1 .. Len(old) : past[n + 1] = Applied(old[n], past[n])
      BY <1>1, ZenonT(60) DEF LogInv
    <3>2. truth'[epoch][1] = {}
      <4>1. 1 \in 1 .. Len(past)
        BY <1>1
      <4> QED BY <1>6, <3>1, <4>1, ZenonT(60)
    <3>3. ASSUME NEW n \in 1 .. Len(old) + 1
          PROVE  truth'[epoch][n + 1] = Applied(log'[epoch][n], truth'[epoch][n])
      <4>1. CASE n = Len(old) + 1
        BY <1>1, <1>6, <4>1, ZenonT(60)
      <4>2. CASE n # Len(old) + 1
        <5>1. n \in 1 .. Len(old) /\ n \in 1 .. Len(past) /\ n + 1 \in 1 .. Len(past)
          BY <1>1, <4>2
        <5> QED BY <1>6, <3>1, <5>1, ZenonT(60)
      <4> QED BY <4>1, <4>2, ZenonT(60)
    <3>4. ~(e > epoch')
      BY <1>1, <2>1 DEF Epochs
    <3>5. Len(truth'[epoch]) = Len(log'[epoch]) + 1
      BY <1>1, <1>6, ZenonT(60)
    <3>6. Len(log'[epoch]) = Len(old) + 1
      BY <1>6, ZenonT(60)
    <3> HIDE DEF old, past
    <3> QED BY <2>1, <3>2, <3>3, <3>4, <3>5, <3>6, ZenonT(60)
  <2>2. CASE e # epoch
    <3>1. log'[e] = log[e] /\ truth'[e] = truth[e] /\ epoch' = epoch
      BY <1>1, <1>4, <2>2, ZenonT(60)
    <3>2. /\ Len(truth[e]) = Len(log[e]) + 1
          /\ truth[e][1] = {}
          /\ \A n \in 1 .. Len(log[e]) : truth[e][n + 1] = Applied(log[e][n], truth[e][n])
          /\ e > epoch => Len(log[e]) = 0
      BY ZenonT(60) DEF LogInv
    <3> QED BY <3>1, <3>2, ZenonT(60)
  <2> QED BY <2>1, <2>2, ZenonT(60)
<1>9. mirror' = truth'[epoch'][Len(truth'[epoch'])]
  BY <1>1, <1>2, <1>6, ZenonT(60)
<1> QED BY <1>5, <1>6, <1>7, <1>8, <1>9, ZenonT(60) DEF LogInv

\* A queue of genuine frames with one more.
LEMMA AppendFrame ==
  ASSUME NEW q, NEW events, AllGenuine(q, events), NEW f \in Frame, Genuine(f, events)
  PROVE  AllGenuine(Append(q, f), events)
<1>1. /\ Len(Append(q, f)) = Len(q) + 1 /\ Append(q, f) \in Seq(Frame) /\ Len(q) \in Nat
      /\ \A n \in 1 .. Len(q) : Append(q, f)[n] = q[n]
      /\ Append(q, f)[Len(q) + 1] = f
  BY AppendFacts DEF AllGenuine
<1>2. ASSUME NEW i \in 1 .. Len(q) + 1
      PROVE  Genuine(Append(q, f)[i], events)
  <2>1. CASE i = Len(q) + 1
    BY <1>1, <2>1, ZenonT(60)
  <2>2. CASE i # Len(q) + 1
    <3>1. i \in 1 .. Len(q)
      BY <1>1, <2>2
    <3> QED BY <1>1, <3>1, ZenonT(60) DEF AllGenuine
  <2> QED BY <2>1, <2>2, ZenonT(60)
<1> QED BY <1>1, <1>2, ZenonT(60) DEF AllGenuine

\* Frames stay genuine while the log grows.
LEMMA GrowFrames ==
  ASSUME NEW q, AllGenuine(q, log), \A f \in Frame : Genuine(f, log) => Genuine(f, log')
  PROVE  AllGenuine(q, log')
BY DEF AllGenuine

\* _publish keeps the invariant.
LEMMA PublishKeeps ==
  ASSUME IInv, NEW g \in 1 .. epoch, NEW event \in Event, Publish(g, event)
  PROVE  IInv'
<1>1. LogInv' /\ Grows /\ Len(log'[epoch]) = Len(log[epoch]) + 1
  BY PublishGrows, ZenonT(60) DEF IInv
<1>2. FeedInv' /\ KnownInv' /\ SubInv' /\ RouteInv'
      /\ \A f \in Frame : Genuine(f, log) => Genuine(f, log')
  BY <1>1, GrowKeeps, ZenonT(60) DEF IInv, Publish
<1>3. AllGenuine(queue, log') /\ AllGenuine(wire, log')
  BY <1>2, GrowFrames, ZenonT(60) DEF IInv, FramesInv
<1>4. AllGenuine(queue', log')
  <2> DEFINE f == [kind |-> "event", epoch |-> epoch, sequence |-> Len(log[epoch])]
  <2>1. epoch \in Epochs /\ Len(log[epoch]) \in Nat
    BY DEF IInv, LogInv, PubType
  <2>2. f \in Frame /\ Genuine(f, log')
    BY <1>1, <2>1 DEF Frame, FrameKinds, Genuine
  <2>3. queue' = queue \/ queue' = Append(queue, f)
    BY ZenonT(60) DEF Publish
  <2> HIDE DEF f
  <2> QED BY <1>3, <2>2, <2>3, AppendFrame, ZenonT(60)
<1>5. wire' = wire
  BY ZenonT(60) DEF Publish
<1> QED BY <1>1, <1>2, <1>3, <1>4, <1>5, ZenonT(60) DEF IInv, FramesInv

\* rotate_epoch keeps the invariant: the log of the new epoch is empty.
LEMMA RotateKeeps ==
  ASSUME IInv, RotateEpoch
  PROVE  IInv'
<1>1. /\ epoch \in Epochs /\ epoch' = epoch + 1 /\ epoch' \in Epochs /\ mirror' = {}
      /\ queue' = <<>> /\ log' = log /\ truth' = truth /\ wire' = wire /\ forgets' = forgets
      /\ UNCHANGED <<idxVars, known, sub, route>>
  BY DEF IInv, LogInv, PubType, RotateEpoch, Epochs
<1>2. LogInv'
  <2>1. PubType'
    BY <1>1, ZenonT(60) DEF IInv, LogInv, PubType
  <2>2. ASSUME NEW e \in Epochs
        PROVE  /\ Len(truth[e]) = Len(log[e]) + 1
               /\ truth[e][1] = {}
               /\ \A n \in 1 .. Len(log[e]) : truth[e][n + 1] = Applied(log[e][n], truth[e][n])
               /\ e > epoch' => Len(log[e]) = 0
    BY <1>1 DEF IInv, LogInv, Epochs
  <2>3. Len(truth[epoch']) = 1 /\ truth[epoch'][1] = {}
    <3>1. epoch' > epoch
      BY <1>1 DEF Epochs
    <3>2. Len(truth[epoch']) = Len(log[epoch']) + 1 /\ truth[epoch'][1] = {}
          /\ Len(log[epoch']) = 0
      BY <1>1, <3>1, ZenonT(60) DEF IInv, LogInv
    <3> QED BY <3>2
  <2> QED BY <1>1, <2>1, <2>2, <2>3, ZenonT(60) DEF LogInv
<1>3. Grows
  BY <1>1 DEF IInv, LogInv, PubType, Grows
<1>4. FeedInv' /\ KnownInv' /\ SubInv' /\ RouteInv'
  BY <1>1, <1>3, GrowKeeps, ZenonT(60) DEF IInv
<1>5. FramesInv'
  BY <1>1 DEF IInv, FramesInv, AllGenuine
<1> QED BY <1>2, <1>4, <1>5, ZenonT(60) DEF IInv

\* Steps that move frames only.
LEMMA WireKeeps ==
  ASSUME IInv, FramesInv', UNCHANGED <<epoch, mirror, log, truth, forgets>>,
         UNCHANGED <<idxVars, known, sub, route>>
  PROVE  IInv'
<1>1. LogInv'
  BY SteadyLog, ZenonT(60) DEF IInv, Steady
<1>2. Grows
  BY DEF IInv, LogInv, PubType, Grows
<1>3. FeedInv' /\ KnownInv' /\ SubInv' /\ RouteInv'
  BY <1>2, GrowKeeps, ZenonT(60) DEF IInv
<1> QED BY <1>1, <1>3, ZenonT(60) DEF IInv

\* The sender thread and a reconnection keep the invariant.
LEMMA SendKeeps ==
  ASSUME IInv, SendEvent \/ SendHeartbeat \/ Reconnect
  PROVE  IInv'
<1>0. AllGenuine(queue, log) /\ AllGenuine(wire, log)
  BY ZenonT(60) DEF IInv, FramesInv
<1>1. CASE SendEvent
  <2>1. AllGenuine(Tail(queue), log) /\ Head(queue) \in Frame /\ Genuine(Head(queue), log)
    BY <1>0, <1>1, TailFrames, HeadFrame, ZenonT(60) DEF SendEvent
  <2>2. AllGenuine(Append(wire, Head(queue)), log)
    BY <1>0, <2>1, AppendFrame, ZenonT(60)
  <2>3. queue' = Tail(queue) /\ (wire' = wire \/ wire' = Append(wire, Head(queue)))
        /\ log' = log
    BY <1>1, ZenonT(60) DEF SendEvent
  <2>4. FramesInv'
    BY <1>0, <2>1, <2>2, <2>3, ZenonT(60) DEF FramesInv
  <2> QED BY <1>1, <2>4, WireKeeps, ZenonT(60) DEF SendEvent
<1>2. CASE SendHeartbeat
  <2> DEFINE f == [kind |-> "heartbeat", epoch |-> epoch, sequence |-> HighSequence]
  <2>1. f \in Frame /\ Genuine(f, log)
    BY DEF IInv, LogInv, PubType, Frame, FrameKinds, Genuine, HighSequence
  <2>2. wire' = Append(wire, f) /\ UNCHANGED <<queue, log>>
    BY <1>2, ZenonT(60) DEF SendHeartbeat, pubVars
  <2> HIDE DEF f
  <2>3. AllGenuine(wire', log)
    BY <1>0, <2>1, <2>2, AppendFrame, ZenonT(60)
  <2>4. FramesInv'
    BY <1>0, <2>2, <2>3, ZenonT(60) DEF FramesInv
  <2> QED BY <1>2, <2>4, WireKeeps, ZenonT(60) DEF SendHeartbeat, pubVars
<1>3. CASE Reconnect
  <2> DEFINE f == wire[Len(wire)]
  <2>1. f \in Frame /\ Genuine(f, log)
    <3>1. wire \in Seq(Frame) /\ Len(wire) \in 1 .. Len(wire)
      BY <1>0, <1>3 DEF Reconnect, AllGenuine
    <3> QED BY <1>0, <3>1 DEF AllGenuine
  <2>2. wire' \in {<<>>, <<f>>} /\ UNCHANGED <<queue, log>>
    BY <1>3, ZenonT(60) DEF Reconnect, pubVars
  <2> HIDE DEF f
  <2>3. AllGenuine(<<>>, log) /\ AllGenuine(<<f>>, log)
    <3>1. <<f>> \in Seq(Frame) /\ \A k \in 1 .. Len(<<f>>) : <<f>>[k] = f
      BY <2>1
    <3> QED BY <2>1, <3>1 DEF AllGenuine
  <2>4. FramesInv'
    BY <1>0, <2>2, <2>3, ZenonT(60) DEF FramesInv
  <2> QED BY <1>3, <2>4, WireKeeps, ZenonT(60) DEF Reconnect, pubVars
<1> QED BY <1>1, <1>2, <1>3, ZenonT(60)

(***************************************************************************)
(* The lease, membership and the router.                                   *)
(***************************************************************************)
LEMMA ExpireKeeps ==
  ASSUME IInv, Expire
  PROVE  IInv' /\ Moves
<1>1. state' = "stale" /\ state = "live"
      /\ UNCHANGED <<pubVars, wire, feed, retired, synchronized, known, sub, route, forgets>>
  BY ZenonT(60) DEF Expire
<1>2. LogInv' /\ FramesInv'
  BY <1>1, SteadyLog, SteadyFrames, ZenonT(60) DEF IInv, Steady, pubVars
<1>3. FeedInv'
  <2>1. IndexIsTrue'
    BY <1>1, ZenonT(60) DEF IInv, FeedInv, IndexIsTrue, TruthAt, pubVars
  <2> QED BY <1>1, <2>1, ZenonT(60) DEF IInv, FeedInv, States, Trusted
<1>4. KnownInv'
  BY <1>1, ZenonT(60) DEF IInv, KnownInv, KnownRange, TrustInv, Trusted, pubVars
<1>5. SubInv' /\ RouteInv'
  BY <1>1, SteadyRoute, ZenonT(60) DEF IInv, SubInv, TruthAt, pubVars
<1>6. Moves
  BY <1>1 DEF Moves, IInv, FeedInv, FeedType
<1> QED BY <1>2, <1>3, <1>4, <1>5, <1>6, ZenonT(60) DEF IInv

\* Removing and adding the replica keep the invariant.
LEMMA MembershipKeeps ==
  ASSUME IInv, Membership
  PROVE  IInv' /\ Moves
<1>1. /\ UNCHANGED <<pubVars, wire, sub, route>> /\ known' = -1 /\ synchronized' = FALSE
      /\ state' \in {"inactive", "unknown"} /\ forgets' \in 0 .. MaxForgets
  BY DEF Membership, ForgetReplica, RegisterReplica, IInv, LogInv, PubType
<1>2. FeedInv' /\ Moves /\ feed'.epoch = NoEpoch
  BY <1>1, ForgetStep, ZenonT(60) DEF IInv, Membership, pubVars
<1>3. LogInv' /\ FramesInv'
  <2>1. LogInv'
    BY <1>1, ZenonT(60) DEF IInv, LogInv, PubType, pubVars
  <2> QED BY <1>1, <2>1, SteadyFrames, ZenonT(60) DEF IInv, pubVars
<1>4. KnownInv'
  <2>1. KnownRange'
    BY <1>1, <1>2 DEF KnownRange
  <2>2. TrustInv'
    BY <1>1, ZenonT(60) DEF TrustInv, Trusted
  <2> QED BY <2>1, <2>2, ZenonT(60) DEF KnownInv
<1>5. SubInv'
  BY <1>1, <1>2, ZenonT(60) DEF IInv, SubInv, SubType, TruthAt, pubVars
<1>6. RouteInv'
  BY <1>1, <1>2, RouteKept, ZenonT(60) DEF IInv
<1> QED BY <1>2, <1>3, <1>4, <1>5, <1>6, ZenonT(60) DEF IInv

\* The three steps of route_overlaps keep the invariant.
LEMMA RouterKeeps ==
  ASSUME IInv, Router
  PROVE  IInv'
<1>1. UNCHANGED <<pubVars, wire, idxVars, known, sub, forgets>>
  BY ZenonT(60) DEF Router, RouteCapture, RouteScan, RouteCheck
<1>2. LogInv' /\ FramesInv' /\ FeedInv' /\ KnownInv' /\ SubInv'
  <2>1. LogInv' /\ FramesInv'
    BY <1>1, SteadyLog, SteadyFrames, ZenonT(60) DEF IInv, Steady, pubVars
  <2>2. FeedInv'
    BY <1>1, SameIndex, ZenonT(60) DEF IInv, pubVars
  <2>3. KnownInv' /\ SubInv'
    BY <1>1, ZenonT(60) DEF IInv, KnownInv, KnownRange, TrustInv, SubInv, TruthAt, idxVars, pubVars
  <2> QED BY <2>1, <2>2, <2>3, ZenonT(60)
<1>3. feed' = feed /\ retired' = retired
  BY <1>1, ZenonT(60) DEF idxVars
<1>4. feed \in FeedType /\ Len(Prompt) \in Nat
  BY DEF IInv, FeedInv
<1>5. CASE RouteCapture
  <2>1. route' = [pc |-> "scan", epoch |-> feed.epoch, sequence |-> feed.sequence,
                  count |-> 0]
    BY <1>5, ZenonT(60) DEF RouteCapture
  <2>2. route' \in RouteType /\ route'.pc = "scan" /\ route'.epoch = feed.epoch
        /\ route'.sequence = feed.sequence /\ route'.count = 0 /\ feed.sequence \in Int
    BY <2>1, <1>4, ZenonT(60) DEF RouteType, FeedType
  <2>3. feed.epoch # NoEpoch
    BY <1>5, ZenonT(60) DEF RouteCapture, Routable, IInv, FeedInv, Trusted
  <2>4. RouteInv'
    BY <1>3, <1>4, <2>2, <2>3 DEF RouteInv, Counted
  <2> QED BY <1>2, <2>4, ZenonT(60) DEF IInv
<1>6. CASE RouteScan
  <2>1. route \in RouteType /\ route.pc = "scan" /\ route.count \in Nat
        /\ route.epoch # NoEpoch /\ route.count <= Len(Prompt)
        /\ (route.epoch \in retired
              \/ (feed.epoch = route.epoch /\ route.sequence <= feed.sequence))
        /\ (feed.epoch = route.epoch /\ feed.sequence = route.sequence => Counted)
    <3>1. route.pc = "scan" /\ RouteInv
      BY <1>6, ZenonT(60) DEF RouteScan, IInv
    <3>2. route \in RouteType
      BY <3>1, ZenonT(60) DEF RouteInv
    <3>3. route.count \in Nat
      BY <3>2, ZenonT(60) DEF RouteType
    <3> QED BY <3>1, <3>2, <3>3, ZenonT(60) DEF RouteInv
  <2>2. CASE route.count < Len(Prompt) /\ Prompt[route.count + 1] \in feed.hashes
    <3>1. route' = [pc |-> "scan", epoch |-> route.epoch, sequence |-> route.sequence,
                    count |-> route.count + 1]
      BY <1>6, <2>2, ZenonT(60) DEF RouteScan
    <3>2. route' \in RouteType /\ route'.pc = "scan" /\ route'.epoch = route.epoch
          /\ route'.sequence = route.sequence /\ route'.count = route.count + 1
      BY <2>1, <3>1 DEF RouteType
    <3>3. Counted => Counted'
      BY <1>3, <2>1, <2>2, <3>2 DEF Counted
    <3>4. RouteInv'
      BY <1>3, <1>4, <2>1, <2>2, <3>2, <3>3 DEF RouteInv
    <3> QED BY <1>2, <3>4, ZenonT(60) DEF IInv
  <2>3. CASE ~(route.count < Len(Prompt) /\ Prompt[route.count + 1] \in feed.hashes)
    <3>1. route' = [pc |-> "check", epoch |-> route.epoch, sequence |-> route.sequence,
                    count |-> route.count]
      BY <1>6, <2>3, ZenonT(60) DEF RouteScan
    <3>2. route' \in RouteType /\ route'.pc = "check" /\ route'.epoch = route.epoch
          /\ route'.sequence = route.sequence /\ route'.count = route.count
      BY <2>1, <3>1, ZenonT(60) DEF RouteType
    <3>3. Counted => Counted'
      BY <1>3, <2>1, <2>3, <3>2, ZenonT(60) DEF Counted
    <3>4. RouteInv'
      BY <1>3, <1>4, <2>1, <3>2, <3>3, ZenonT(60) DEF RouteInv
    <3> QED BY <1>2, <3>4, ZenonT(60) DEF IInv
  <2> QED BY <2>2, <2>3, ZenonT(60)
<1>7. CASE RouteCheck
  <2>1. route' = NoRoute
    BY <1>7, ZenonT(60) DEF RouteCheck
  <2>2. route' \in RouteType /\ route'.pc = "idle"
    BY <2>1 DEF NoRoute, RouteType
  <2>3. RouteInv'
    BY <2>2, ZenonT(60) DEF RouteInv
  <2> QED BY <1>2, <2>3, ZenonT(60) DEF IInv
<1> QED BY <1>5, <1>6, <1>7, ZenonT(60) DEF Router

(***************************************************************************)
(* The subscriber.                                                         *)
(***************************************************************************)
\* A step of the subscriber keeps the invariant if it keeps these parts.
LEMMA SubscriberKeeps ==
  ASSUME IInv, UNCHANGED <<pubVars, route, forgets>>, AllGenuine(wire', log),
         FeedInv', Moves, KnownInv', SubInv'
  PROVE  IInv'
<1>1. LogInv'
  BY SteadyLog, ZenonT(60) DEF IInv, Steady, pubVars
<1>2. FramesInv'
  BY ZenonT(60) DEF IInv, FramesInv, pubVars
<1>3. RouteInv'
  BY RouteKept, ZenonT(60) DEF IInv
<1> QED BY <1>1, <1>2, <1>3, ZenonT(60) DEF IInv

\* The next frame is genuine, and so are the ones behind it.
LEMMA NextFrame ==
  ASSUME IInv, wire # <<>>
  PROVE  /\ Head(wire).epoch \in Epochs /\ Head(wire).sequence \in Int
         /\ Head(wire).sequence + 1 \in 0 .. Len(log[Head(wire).epoch])
         /\ AllGenuine(Tail(wire), log)
<1>1. AllGenuine(wire, log)
  BY ZenonT(60) DEF IInv, FramesInv
<1>2. Head(wire) \in Frame /\ Genuine(Head(wire), log) /\ AllGenuine(Tail(wire), log)
  BY <1>1, HeadFrame, TailFrames, ZenonT(60)
<1> QED BY <1>2, ZenonT(60) DEF Frame, Genuine

\* An event from the wire keeps the invariant.
LEMMA ReceiveEventKeeps ==
  ASSUME IInv, ReceiveEvent
  PROVE  IInv' /\ Moves
<1> DEFINE e == Head(wire).epoch
           s == Head(wire).sequence
<1>1. e \in Epochs /\ s \in Int /\ s + 1 \in 0 .. Len(log[e]) /\ AllGenuine(wire', log)
  BY NextFrame, ZenonT(60) DEF ReceiveEvent
<1>2. ApplySequenced(e, s) /\ Learn(e, s) /\ sub' \in {Ready, At("recover", e)}
      /\ UNCHANGED <<pubVars, route, forgets>>
  BY ZenonT(60) DEF ReceiveEvent
<1>3. LogInv /\ FeedInv /\ KnownInv /\ truth' = truth /\ log' = log
  BY <1>2, ZenonT(60) DEF IInv, pubVars
<1> HIDE DEF e, s
<1>4. FeedInv' /\ Moves
  BY <1>1, <1>2, <1>3, ApplySequencedStep, ZenonT(60)
<1>5. KnownInv'
  BY <1>1, <1>2, <1>3, <1>4, LearnRange, KnownApplied, ZenonT(60) DEF KnownInv
<1>6. SubInv'
  BY <1>1, <1>2, FreshSub, ZenonT(60)
<1> QED BY <1>1, <1>2, <1>4, <1>5, <1>6, SubscriberKeeps, ZenonT(60)

\* So does a heartbeat.
LEMMA ReceiveHeartbeatKeeps ==
  ASSUME IInv, ReceiveHeartbeat
  PROVE  IInv' /\ Moves
<1> DEFINE e == Head(wire).epoch
           s == Head(wire).sequence
<1>1. e \in Epochs /\ s \in Int /\ s + 1 \in 0 .. Len(log[e]) /\ AllGenuine(wire', log)
  BY NextFrame, ZenonT(60) DEF ReceiveHeartbeat
<1>2. Heartbeat(e, s) /\ Learn(e, s) /\ sub' \in {Ready, At("unrefreshed", e)}
      /\ UNCHANGED <<pubVars, route, forgets>>
  BY ZenonT(60) DEF ReceiveHeartbeat
<1>3. LogInv /\ FeedInv /\ KnownInv /\ truth' = truth /\ log' = log
  BY <1>2, ZenonT(60) DEF IInv, pubVars
<1> HIDE DEF e, s
<1>4. FeedInv' /\ Moves
  BY <1>1, <1>2, <1>3, HeartbeatStep, ZenonT(60)
<1>5. KnownInv'
  BY <1>1, <1>2, <1>3, <1>4, LearnRange, KnownHeartbeat, ZenonT(60) DEF KnownInv
<1>6. SubInv'
  BY <1>1, <1>2, FreshSub, ZenonT(60)
<1> QED BY <1>1, <1>2, <1>4, <1>5, <1>6, SubscriberKeeps, ZenonT(60)

\* So does a frame that cannot be decoded.
LEMMA ReceiveMalformedKeeps ==
  ASSUME IInv, ReceiveMalformed
  PROVE  IInv' /\ Moves
<1>1. UNCHANGED <<pubVars, wire, known, sub, route, forgets>> /\ MarkGap(feed.epoch)
      /\ sub.pc = "ready"
  BY ZenonT(60) DEF ReceiveMalformed
<1>2. LogInv /\ FeedInv /\ KnownInv /\ SubInv /\ AllGenuine(wire, log)
      /\ truth' = truth /\ log' = log
  BY <1>1, ZenonT(60) DEF IInv, FramesInv, pubVars
<1>3. CASE ~Refused(feed.epoch) /\ Quarantine(feed.epoch)
  <2>1. FeedInv' /\ Moves /\ feed' = feed
    BY <1>2, <1>3, QuarantineHere, ZenonT(60) DEF Refused
  <2>2. KnownRange'
    BY <1>1, <1>2, <2>1, ZenonT(60) DEF KnownInv, KnownRange
  <2>3. TrustInv'
    BY <1>3, KnownQuarantined, ZenonT(60)
  <2>4. SubInv'
    BY <1>1, <1>2, ZenonT(60) DEF SubInv
  <2> QED BY <1>1, <1>2, <2>1, <2>2, <2>3, <2>4, SubscriberKeeps, ZenonT(60) DEF KnownInv
<1>4. CASE UNCHANGED idxVars
  <2>1. FeedInv' /\ Moves
    BY <1>2, <1>4, SameIndex, ZenonT(60)
  <2>2. KnownInv'
    BY <1>1, <1>2, <1>4, ZenonT(60) DEF KnownInv, KnownRange, TrustInv, idxVars
  <2>3. SubInv'
    BY <1>1, <1>2, ZenonT(60) DEF SubInv
  <2> QED BY <1>1, <1>2, <2>1, <2>2, <2>3, SubscriberKeeps, ZenonT(60)
<1> QED BY <1>1, <1>3, <1>4, ZenonT(60) DEF MarkGap

\* So does the second critical section after a heartbeat.
LEMMA MarkUnrefreshedKeeps ==
  ASSUME IInv, MarkUnrefreshed
  PROVE  IInv' /\ Moves
<1> DEFINE e == sub.epoch
<1>1. e \in Epochs
  BY ZenonT(60) DEF IInv, SubInv, SubType, MarkUnrefreshed
<1>2. MarkGap(e) /\ Learn(e, -1) /\ sub' \in {Ready, At("recover", e)}
      /\ UNCHANGED <<pubVars, wire, route, forgets>>
  BY ZenonT(60) DEF MarkUnrefreshed
<1>3. LogInv /\ FeedInv /\ KnownInv /\ truth' = truth /\ log' = log /\ wire' = wire
      /\ AllGenuine(wire, log) /\ (-1) + 1 \in 0 .. Len(log[e]) /\ -1 \in Int
  <2>1. Len(log[e]) \in Nat
    BY <1>1, SMTT(60) DEF IInv, LogInv, PubType
  <2>2. (-1) + 1 \in 0 .. Len(log[e]) /\ -1 \in Int
    BY <2>1
  <2> QED BY <1>2, <2>2, ZenonT(60) DEF IInv, FramesInv, pubVars
<1> HIDE DEF e
<1>4. FeedInv' /\ Moves
  BY <1>1, <1>2, <1>3, MarkGapStep, ZenonT(60)
<1>5. KnownInv'
  BY <1>1, <1>2, <1>3, <1>4, LearnRange, KnownMarked, ZenonT(60) DEF KnownInv
<1>6. SubInv'
  BY <1>1, <1>2, FreshSub, ZenonT(60)
<1> QED BY <1>2, <1>3, <1>4, <1>5, <1>6, SubscriberKeeps, ZenonT(60)

\* A step of the subscriber that leaves the index alone.
LEMMA AsideKeeps ==
  ASSUME IInv, UNCHANGED <<pubVars, wire, idxVars, known, route, forgets>>, SubInv'
  PROVE  IInv' /\ Moves
<1>1. LogInv /\ FeedInv /\ KnownInv /\ AllGenuine(wire', log) /\ truth' = truth /\ log' = log
  BY ZenonT(60) DEF IInv, FramesInv, pubVars
<1>2. FeedInv' /\ Moves
  BY <1>1, SameIndex, ZenonT(60)
<1>3. KnownInv'
  BY <1>1, ZenonT(60) DEF KnownInv, KnownRange, TrustInv, idxVars
<1> QED BY <1>1, <1>2, <1>3, SubscriberKeeps, ZenonT(60)

\* The sizes of a log and a history.
LEMMA LogSizes ==
  ASSUME LogInv, NEW e \in Epochs
  PROVE  Len(log[e]) \in Nat /\ Len(truth[e]) = Len(log[e]) + 1
<1>1. Len(log[e]) \in Nat
  BY DEF LogInv, PubType
<1> QED BY <1>1, ZenonT(60) DEF LogInv

\* A recovery asks for a sequence that is no further than the log.
LEMMA AskKeeps ==
  ASSUME IInv, Ask
  PROVE  IInv' /\ Moves
<1> DEFINE e == sub.epoch
           n == ExpectedSequence(e)
<1>1. e \in Epochs /\ sub' = [pc |-> "asked", epoch |-> e, next |-> n, high |-> -1,
                              hashes |-> {}]
      /\ UNCHANGED <<pubVars, wire, idxVars, known, route, forgets>>
  BY ZenonT(60) DEF IInv, SubInv, SubType, Ask
<1>2. Len(log[e]) \in Nat /\ Len(truth[e]) = Len(log[e]) + 1
  BY <1>1, LogSizes, ZenonT(60) DEF IInv
<1>3. n \in Nat /\ n <= Len(log[e])
  <2>1. CASE feed.epoch = e
    <3>1. feed.sequence + 2 \in 1 .. Len(truth[e]) /\ feed.sequence \in Int
      BY <1>1, <2>1, EpochsFacts, ZenonT(60) DEF IInv, FeedInv, FeedType, IndexIsTrue
    <3> QED BY <1>2, <3>1, SMTT(30) DEF ExpectedSequence
  <2>2. CASE feed.epoch # e
    BY <1>2, <2>2 DEF ExpectedSequence
  <2> QED BY <2>1, <2>2, ZenonT(60)
<1> HIDE DEF n
<1>4. sub' \in SubType /\ sub'.pc = "asked" /\ sub'.epoch = e /\ sub'.next = n
  BY <1>1, <1>3, SMTT(60) DEF SubType, Steps
<1>5. log' = log
  BY <1>1, ZenonT(60) DEF pubVars
<1>6. SubInv'
  BY <1>1, <1>3, <1>4, <1>5, EpochsFacts, ZenonT(60) DEF SubInv
<1> QED BY <1>1, <1>6, AsideKeeps, ZenonT(60)

\* The answer is true of the epoch it names, and at least as new as the entry.
LEMMA AnswerKeeps ==
  ASSUME IInv, Answer
  PROVE  IInv' /\ Moves
<1> DEFINE high == HighSequence
<1>1. /\ epoch \in Epochs /\ sub.next \in Nat /\ sub.pc = "asked"
      /\ sub.next <= Len(log[sub.epoch]) /\ mirror \in SUBSET Blocks
      /\ UNCHANGED <<pubVars, wire, idxVars, known, route, forgets>>
  BY ZenonT(60) DEF IInv, SubInv, SubType, Answer, LogInv, PubType
<1>2. log' = log /\ truth' = truth /\ feed' = feed /\ known' = known
  BY <1>1, ZenonT(60) DEF pubVars, idxVars
<1>3. /\ Len(log[epoch]) \in Nat /\ Len(truth[epoch]) = Len(log[epoch]) + 1
      /\ mirror = truth[epoch][Len(truth[epoch])]
  BY <1>1, SMTT(60) DEF IInv, LogInv, PubType
<1>4. high \in Int /\ high + 1 \in 0 .. Len(log[epoch]) /\ mirror = truth[epoch][high + 2]
      /\ high + 1 = Len(log[epoch])
  BY <1>3 DEF HighSequence
<1>5. feed.epoch = epoch => known <= high /\ feed.sequence <= high
  <2>1. ASSUME feed.epoch = epoch
        PROVE  known <= high /\ feed.sequence <= high
    <3>1. feed.epoch # NoEpoch
      BY <1>1, <2>1, EpochsFacts, ZenonT(60)
    <3>2. known + 1 <= Len(log[epoch]) /\ known \in Int
      BY <2>1, <3>1, ZenonT(60) DEF IInv, KnownInv, KnownRange
    <3>3. feed.sequence + 2 \in 1 .. Len(truth[epoch]) /\ feed.sequence \in Int
      BY <2>1, <3>1, ZenonT(60) DEF IInv, FeedInv, FeedType, IndexIsTrue
    <3> QED BY <1>3, <1>4, <3>2, <3>3
  <2> QED BY <2>1, ZenonT(60)
<1> HIDE DEF high
<1>6. CASE sub.epoch = epoch /\ sub.next >= FirstAvailable
  <2>1. sub' = [pc |-> "events", epoch |-> epoch, next |-> sub.next, high |-> high,
                hashes |-> {}]
    BY <1>6, ZenonT(60) DEF Answer, high
  <2>2. sub' \in SubType /\ sub'.pc = "events" /\ sub'.epoch = epoch
        /\ sub'.next = sub.next /\ sub'.high = high
    BY <1>1, <1>4, <2>1, ZenonT(60) DEF SubType, Steps
  <2>3. SubInv'
    BY <1>1, <1>2, <1>3, <1>4, <1>5, <1>6, <2>2, EpochsFacts, ZenonT(60) DEF SubInv
  <2> QED BY <1>1, <2>3, AsideKeeps, ZenonT(60)
<1>7. CASE ~(sub.epoch = epoch /\ sub.next >= FirstAvailable)
  <2>1. sub' = [pc |-> "snapshot", epoch |-> epoch, next |-> sub.next, high |-> high,
                hashes |-> mirror]
    BY <1>7, ZenonT(60) DEF Answer, high
  <2>2. sub' \in SubType /\ sub'.pc = "snapshot" /\ sub'.epoch = epoch
        /\ sub'.hashes = mirror /\ sub'.high = high
    BY <1>1, <1>4, <2>1, ZenonT(60) DEF SubType, Steps
  <2>3. SubInv'
    BY <1>1, <1>2, <1>4, <1>5, <2>2, EpochsFacts, ZenonT(60) DEF SubInv, TruthAt
  <2> QED BY <1>1, <2>3, AsideKeeps, ZenonT(60)
<1> QED BY <1>6, <1>7, ZenonT(60)

\* A timeout leaves the entry alone.
LEMMA GiveUpKeeps ==
  ASSUME IInv, GiveUp
  PROVE  IInv' /\ Moves
<1>1. sub' = Ready /\ UNCHANGED <<pubVars, wire, idxVars, known, route, forgets>>
  BY ZenonT(60) DEF GiveUp
<1>2. epoch \in Epochs
  BY ZenonT(60) DEF IInv, LogInv, PubType
<1>3. SubInv'
  BY <1>1, <1>2, FreshSub, ZenonT(60)
<1> QED BY <1>1, <1>3, AsideKeeps, ZenonT(60)

\* A replayed event keeps the invariant.
LEMMA ReplayEventKeeps ==
  ASSUME IInv, ReplayEvent
  PROVE  IInv' /\ Moves
<1> DEFINE e == sub.epoch
           s == sub.next
<1>1. /\ sub.pc = "events" /\ s <= sub.high /\ e \in Epochs /\ s \in Nat
      /\ sub.high \in Int /\ sub.high + 1 \in 0 .. Len(log[e])
  BY ZenonT(60) DEF IInv, SubInv, SubType, ReplayEvent
<1>2. Len(log[e]) \in Nat /\ s \in Int /\ s + 1 \in 0 .. Len(log[e])
  <2>1. Len(log[e]) \in Nat
    BY <1>1 DEF IInv, LogInv, PubType
  <2> QED BY <1>1, <2>1
<1>3. ApplySequenced(e, s) /\ Learn(e, s) /\ UNCHANGED <<pubVars, wire, route, forgets>>
  BY ZenonT(60) DEF ReplayEvent
<1>4. LogInv /\ FeedInv /\ KnownInv /\ truth' = truth /\ log' = log /\ wire' = wire
      /\ AllGenuine(wire, log)
  BY <1>3, ZenonT(60) DEF IInv, FramesInv, pubVars
<1>5. FeedInv' /\ Moves
  BY <1>1, <1>2, <1>3, <1>4, ApplySequencedStep, ZenonT(60)
<1>6. KnownInv'
  BY <1>1, <1>2, <1>3, <1>4, <1>5, LearnRange, KnownApplied, ZenonT(60) DEF KnownInv
<1>7. SubInv'
  <2>1. CASE sub' = Ready
    BY <1>1, <2>1, FreshSub, ZenonT(60)
  <2>2. CASE sub' = [pc |-> "events", epoch |-> e, next |-> s + 1, high |-> sub.high,
                     hashes |-> {}]
    <3>1. sub' \in SubType /\ sub'.pc = "events" /\ sub'.epoch = e
          /\ sub'.next = s + 1 /\ sub'.high = sub.high
      BY <1>1, <2>2, SMTT(60) DEF SubType, Steps
    <3>2. feed'.epoch = e => known' <= sub.high
      <4>1. feed.epoch = e => known <= sub.high
        BY <1>1, ZenonT(60) DEF IInv, SubInv
      <4>2. known \in Int
        BY ZenonT(60) DEF IInv, KnownInv, KnownRange
      <4> QED BY <1>1, <1>3, <4>1, <4>2 DEF Learn
    <3> QED BY <1>1, <1>4, <3>1, <3>2, EpochsFacts DEF SubInv
  <2> QED BY <2>1, <2>2, ZenonT(60) DEF ReplayEvent
<1> QED BY <1>3, <1>4, <1>5, <1>6, <1>7, SubscriberKeeps, ZenonT(60)

\* The end of a replay keeps the invariant.
LEMMA EndReplayKeeps ==
  ASSUME IInv, EndReplay
  PROVE  IInv' /\ Moves
<1> DEFINE e == sub.epoch
           high == sub.high
<1>1. /\ sub.pc = "events" /\ e \in Epochs /\ high \in Int /\ high + 1 \in 0 .. Len(log[e])
      /\ feed.epoch = e => known <= high
  BY ZenonT(60) DEF IInv, SubInv, SubType, EndReplay
<1>2. MarkSynchronized(e, high) /\ Learn(e, high) /\ sub' = Ready
      /\ UNCHANGED <<pubVars, wire, route, forgets>>
  BY ZenonT(60) DEF EndReplay
<1>3. LogInv /\ FeedInv /\ KnownInv /\ truth' = truth /\ log' = log /\ wire' = wire
      /\ AllGenuine(wire, log)
  BY <1>2, ZenonT(60) DEF IInv, FramesInv, pubVars
<1> HIDE DEF e, high
<1>4. FeedInv' /\ Moves
  BY <1>1, <1>2, <1>3, MarkSynchronizedStep, ZenonT(60)
<1>5. high >= -1
  BY <1>1
<1>6. KnownInv'
  BY <1>1, <1>2, <1>3, <1>4, <1>5, LearnRange, KnownEnded, ZenonT(60) DEF KnownInv
<1>7. SubInv'
  BY <1>1, <1>2, FreshSub, ZenonT(60)
<1> QED BY <1>2, <1>3, <1>4, <1>6, <1>7, SubscriberKeeps, ZenonT(60)

\* A snapshot keeps the invariant: the entry has not overtaken it.
LEMMA ReplaceBySnapshotKeeps ==
  ASSUME IInv, ReplaceBySnapshot
  PROVE  IInv' /\ Moves
<1> DEFINE e == sub.epoch
           high == sub.high
           h == sub.hashes
<1>1. /\ sub.pc = "snapshot" /\ e \in Epochs /\ high \in Int
      /\ high + 1 \in 0 .. Len(log[e]) /\ h \in SUBSET Blocks
  BY ZenonT(60) DEF IInv, SubInv, SubType, ReplaceBySnapshot
<1>2. h = truth[e][high + 2] /\ (feed.epoch = e => known <= high /\ feed.sequence <= high)
  BY <1>1, ZenonT(60) DEF IInv, SubInv, TruthAt
<1>3. InstallSnapshot(e, high, h) /\ Learn(e, high) /\ sub' = Ready
      /\ UNCHANGED <<pubVars, wire, route, forgets>>
  BY ZenonT(60) DEF ReplaceBySnapshot
<1>4. LogInv /\ FeedInv /\ KnownInv /\ truth' = truth /\ log' = log /\ wire' = wire
      /\ AllGenuine(wire, log)
  BY <1>3, ZenonT(60) DEF IInv, FramesInv, pubVars
<1>5. high + 2 \in 1 .. Len(truth[e]) /\ high >= -1 /\ (feed.epoch = e => high >= feed.sequence)
  <2>1. Len(truth[e]) = Len(log[e]) + 1 /\ Len(log[e]) \in Nat
    BY <1>1, <1>4, LogSizes, ZenonT(60)
  <2>2. feed.sequence \in Int
    BY <1>4, ZenonT(60) DEF FeedInv, FeedType
  <2> HIDE DEF e, high
  <2>3. high + 2 \in 1 .. Len(truth[e]) /\ high >= -1
    BY <1>1, <2>1
  <2>4. feed.epoch = e => high >= feed.sequence
    BY <1>1, <1>2, <2>2, ZenonT(60)
  <2> QED BY <2>3, <2>4, ZenonT(60)
<1> HIDE DEF e, high, h
<1>6. FeedInv' /\ Moves
  BY <1>1, <1>2, <1>3, <1>4, <1>5, InstallSnapshotStep, ZenonT(60)
<1>7. KnownInv'
  BY <1>1, <1>2, <1>3, <1>4, <1>5, <1>6, LearnRange, KnownInstalled, ZenonT(60) DEF KnownInv
<1>8. SubInv'
  BY <1>1, <1>3, FreshSub, ZenonT(60)
<1> QED BY <1>3, <1>4, <1>6, <1>7, <1>8, SubscriberKeeps, ZenonT(60)

(***************************************************************************)
(* The theorems.                                                           *)
(***************************************************************************)
\* The invariant holds at the start.
LEMMA InitInv == Init => IInv
<1> SUFFICES ASSUME Init PROVE IInv
  OBVIOUS
<1>1. 1 \in Epochs /\ NoEpoch \notin Epochs
  BY DEF Epochs, NoEpoch
<1>2. LogInv
  <2>1. /\ \A e \in Epochs : log[e] = <<>> /\ truth[e] = <<{}>>
        /\ epoch = 1 /\ mirror = {}
    BY ZenonT(60) DEF Init
  <2>2. PubType
    BY <1>1 DEF Init, PubType
  <2>3. ASSUME NEW e \in Epochs
        PROVE  Len(log[e]) = 0 /\ Len(truth[e]) = 1 /\ truth[e][1] = {}
    <3>1. Len(<<>>) = 0
      OBVIOUS
    <3>2. \A h : Len(<<h>>) = 1 /\ <<h>>[1] = h
      OBVIOUS
    <3> QED BY <2>1, <3>1, <3>2, Zenon
  <2>4. ASSUME NEW e \in Epochs
        PROVE  /\ Len(truth[e]) = Len(log[e]) + 1
               /\ \A n \in 1 .. Len(log[e]) : truth[e][n + 1] = Applied(log[e][n], truth[e][n])
    <3>1. Len(truth[e]) = Len(log[e]) + 1
      <4>1. 1 = 0 + 1
        OBVIOUS
      <4> QED BY <2>3, <4>1, Zenon
    <3>2. 1 .. Len(log[e]) = {}
      BY <2>3
    <3> QED BY <3>1, <3>2, ZenonT(60)
  <2>5. mirror = truth[epoch][Len(truth[epoch])]
    BY <1>1, <2>1, <2>3, ZenonT(60)
  <2>6. \A e \in Epochs :
          /\ Len(truth[e]) = Len(log[e]) + 1
          /\ truth[e][1] = {}
          /\ \A n \in 1 .. Len(log[e]) : truth[e][n + 1] = Applied(log[e][n], truth[e][n])
          /\ e > epoch => Len(log[e]) = 0
    BY <2>3, <2>4, ZenonT(60)
  <2> QED BY <2>2, <2>5, <2>6, Zenon DEF LogInv
<1>3. FramesInv
  BY DEF Init, FramesInv, AllGenuine
<1>4. feed = Empty /\ feed.epoch = NoEpoch /\ feed \in FeedType
  BY DEF Init, Empty, FeedType
<1>5. FeedInv
  BY <1>1, <1>4, ZenonT(60) DEF Init, FeedInv, IndexIsTrue, States, Trusted
<1>6. KnownInv
  <2>1. known = -1 /\ state = "unknown" /\ synchronized = FALSE
    BY ZenonT(60) DEF Init
  <2>2. KnownRange
    BY <1>1, <1>4, <2>1 DEF KnownRange
  <2>3. TrustInv
    BY <2>1, ZenonT(60) DEF TrustInv, Trusted
  <2> QED BY <2>2, <2>3, ZenonT(60) DEF KnownInv
<1>7. SubInv
  <2>1. sub = Ready
    BY ZenonT(60) DEF Init
  <2>2. Ready \in SubType /\ Ready.pc = "ready"
    BY DEF Ready, SubType, Steps
  <2> QED BY <2>1, <2>2, ZenonT(60) DEF SubInv
<1>8. RouteInv
  BY DEF Init, NoRoute, RouteInv, RouteType
<1> QED BY <1>2, <1>3, <1>5, <1>6, <1>7, <1>8, ZenonT(60) DEF IInv

\* Every step keeps the invariant and moves the entry forward only.
LEMMA NextInv ==
  ASSUME IInv, [Next]_vars
  PROVE  IInv' /\ Moves
<1>0. \A e \in {feed.sequence} : e \in Int
  BY ZenonT(60) DEF IInv, FeedInv, FeedType
<1>1. ASSUME UNCHANGED <<feed, retired>> PROVE Moves
  BY <1>0, <1>1 DEF Moves
<1>2. CASE Publisher
  <2>1. ASSUME NEW g \in 1 .. epoch, NEW event \in Event, Publish(g, event)
        PROVE  IInv' /\ UNCHANGED <<feed, retired>>
    BY <2>1, PublishKeeps, ZenonT(60) DEF Publish, idxVars
  <2>2. CASE RotateEpoch
    BY <2>2, <1>1, RotateKeeps, ZenonT(60) DEF RotateEpoch, idxVars
  <2>3. CASE SendEvent \/ SendHeartbeat
    BY <2>3, <1>1, SendKeeps, ZenonT(60) DEF SendEvent, SendHeartbeat, idxVars
  <2> QED BY <1>1, <1>2, <2>1, <2>2, <2>3, ZenonT(60) DEF Publisher
<1>3. CASE Subscriber
  <2>1. CASE Reconnect
    BY <2>1, <1>1, SendKeeps, ZenonT(60) DEF Reconnect, idxVars
  <2> QED BY <1>3, <2>1, ReceiveEventKeeps, ReceiveHeartbeatKeeps, ReceiveMalformedKeeps,
             MarkUnrefreshedKeeps, AskKeeps, AnswerKeeps, GiveUpKeeps, ReplayEventKeeps,
             EndReplayKeeps, ReplaceBySnapshotKeeps, ZenonT(60) DEF Subscriber
<1>4. CASE Membership
  BY <1>4, MembershipKeeps, ZenonT(60)
<1>5. CASE Router
  BY <1>5, <1>1, RouterKeeps, ZenonT(60) DEF Router, RouteCapture, RouteScan, RouteCheck, idxVars
<1>6. CASE Expire
  BY <1>6, ExpireKeeps, ZenonT(60)
<1>7. CASE UNCHANGED vars
  <2>1. SubInv'
    BY <1>7, ZenonT(60) DEF IInv, SubInv, TruthAt, vars
  <2> QED BY <1>7, <2>1, AsideKeeps, ZenonT(60) DEF vars, pubVars, idxVars
<1> QED BY <1>2, <1>3, <1>4, <1>5, <1>6, <1>7, ZenonT(60) DEF Next

\* The inductive invariant: history, frames in flight, entry, what was heard of,
\* recovery in progress and scoring in progress.
THEOREM Invariant == Spec => []IInv
<1>1. IInv /\ [Next]_vars => IInv'
  BY NextInv, ZenonT(60)
<1> QED BY InitInv, <1>1, PTL DEF Spec

\* The state of the publisher, the index and the subscriber is well formed.
THEOREM TypeCorrect == Spec => []TypeOK
<1>1. IInv => TypeOK
  BY ZenonT(60) DEF IInv, LogInv, PubType, FramesInv, AllGenuine, FeedInv, FeedType, KnownInv,
         KnownRange, TrustInv, SubInv, SubType, RouteInv, RouteType, TypeOK
<1> QED BY Invariant, <1>1, PTL

\* The index holds the hashes the cache had after its last sequence, for any
\* loss of frames, any rotation and any membership change.
THEOREM IndexTrue == Spec => []IndexIsTrue
<1>1. IInv => IndexIsTrue
  BY ZenonT(60) DEF IInv, FeedInv
<1> QED BY Invariant, <1>1, PTL

\* A synchronized entry lacks nothing the subscriber has heard of.
THEOREM CaughtUp == Spec => []SynchronizedIsCaughtUp
<1>1. IInv => SynchronizedIsCaughtUp
  BY ZenonT(60) DEF IInv, KnownInv, TrustInv, SynchronizedIsCaughtUp
<1> QED BY Invariant, <1>1, PTL

\* The overlap a route is given is exact, although the set is read without
\* the lock.
THEOREM RoutesExact == Spec => []RoutesAreExact
<1>1. IInv => RoutesAreExact
  <2> SUFFICES ASSUME IInv, route.pc = "check", Unchanged
               PROVE  IsOverlap(route.count, TruthAt(route.epoch, route.sequence))
    BY ZenonT(60) DEF RoutesAreExact
  <2>1. route.count \in Nat /\ route.count <= Len(Prompt) /\ Counted
        /\ route.epoch # NoEpoch /\ Len(Prompt) \in Nat
    <3>1. route \in RouteType
      BY ZenonT(60) DEF IInv, RouteInv
    <3>2. route.count \in Nat
      BY <3>1, ZenonT(60) DEF RouteType
    <3> QED BY <3>2 DEF IInv, RouteInv, Unchanged
  <2>2. feed.hashes = TruthAt(route.epoch, route.sequence)
    BY <2>1, ZenonT(60) DEF IInv, FeedInv, IndexIsTrue, Unchanged
  <2> QED BY <2>1, <2>2, SMTT(60) DEF IsOverlap, Counted
<1> QED BY Invariant, <1>1, PTL

\* The entry never returns to an epoch it has left, nor back in its epoch.
THEOREM ForwardOnly == Spec => NeverReturns
<1>1. IInv /\ [Next]_vars =>
        [/\ retired \subseteq retired'
         /\ feed'.epoch = feed.epoch => feed'.sequence >= feed.sequence
         /\ feed'.epoch # feed.epoch => /\ feed.epoch \in retired' \cup {NoEpoch}
                                        /\ feed'.epoch \notin retired']_vars
  BY NextInv, ZenonT(60) DEF Moves
<1> QED BY Invariant, <1>1, PTL DEF Spec, NeverReturns
=============================================================================
