--------------------------- MODULE StreamProcessor ---------------------------
(***************************************************************************)
(* The streaming risk scorer, services/go/internal/stream/processor.go run *)
(* by kafkaio/client.go: pair snapshots of several partitions are gathered *)
(* into hands, a complete hand is scored, its whole output batch is        *)
(* published, and only then do the offsets of its records become           *)
(* committable, each partition up to its first open offset.                *)
(*                                                                         *)
(* Handle runs in one goroutine.  Its in-memory part (Observe, validation, *)
(* AddDetailed, addPending) is one step; each call that leaves the process *)
(* (a publish, a commit) is a step of its own, before which the process    *)
(* may die and during which it may fail halfway.                           *)
(***************************************************************************)
EXTENDS HandAssembler, OffsetTracker, Sequences

CONSTANTS
  Hand,         \* tenant, dataset, split and hand ID
  Partition,    \* of the topic poker.pair-features.v1, keyed by pair_key
  PartitionOf,  \* [Pair -> Partition]
  Whole,        \* the sets of pairs that six players make
  MaxRevision,  \* bound: the highest snapshot revision
  Id,           \* event IDs a revision may carry
  Output,       \* the records of an output batch (score, decision, ...)
  Rewind,       \* how many revisions the producer may step back (at-least-once)
  CommitPartial, \* BOOLEAN: may a failed commit hold for some partitions only?
  Poison,       \* a record that Handle cannot accept at all
  Poisoned,     \* BOOLEAN: do such records occur?
  Ticking,      \* BOOLEAN: does time pass?
  FromBeginning, \* BOOLEAN: the --from-beginning flag; the deployments leave it out
  MaxLog,       \* bound: records per partition
  MaxFailures   \* bound: how often the environment makes the process die

ASSUME ProcessorAssumption ==
  /\ PartitionOf \in [Pair -> Partition]
  /\ Whole \subseteq SUBSET Pair
  /\ \A w \in Whole : Cardinality(w) = Expected
  /\ Output # {}
  /\ MaxRevision \in Nat \ {0}
  /\ Id \subseteq Nat \ {0}
  /\ Rewind \in Nat
  /\ {CommitPartial, Poisoned, Ticking, FromBeginning} \subseteq BOOLEAN
  /\ MaxLog \in Nat
  /\ MaxFailures \in Nat

VARIABLES
  log,        \* [Partition -> Seq(records)]: offset o is element o + 1
  committed,  \* [Partition -> Nat \cup {NoOffset}]
  published,  \* the output records that are durable
  dead,       \* the refs that have a durable dead letter
  running,    \* is the process alive?
  position,   \* [Partition -> Nat]: the next offset it fetches
  start,      \* [Partition -> Nat]: history, where the last process began that
              \* found no group offset: the reset policy skips what lies before
  tracker,    \* [Partition -> tracker state]
  buckets,    \* [Hand -> bucket]: the assembler
  pending,    \* [Hand -> SUBSET refs]: records that wait for their hand
  step,       \* where Handle is: "poll", "deadLetter", "score" or "commit"
  current,    \* the ref of the record Handle works on
  failures    \* how often the process died

broker == <<log, committed, published, dead>>
memory == <<tracker, buckets, pending>>
vars == <<broker, running, position, start, memory, step, current, failures>>

NoOffset == -1

Event == [hand : Hand, pair : Pair, rev : 1 .. MaxRevision, id : Id]

Ref == Partition \X Nat

\* Between two records Handle works on none.
NoRef == <<>>

Offsets(p) == 0 .. (Len(log[p]) - 1)

RecordAt(r) == log[r[1]][r[2] + 1]

Versions == [Pair -> [rev : 0 .. MaxRevision, id : Id \cup {0}]]

BucketType == [pairs : Versions, emitted : Versions, age : 0 .. (TTL + 1)]

TypeOK ==
  /\ log \in [Partition -> Seq(Event \cup {Poison})]
  /\ committed \in [Partition -> Nat \cup {NoOffset}]
  /\ published \subseteq [hand : Hand, versions : Versions, kind : Output]
  /\ dead \subseteq Ref
  /\ running \in BOOLEAN
  /\ position \in [Partition -> Nat]
  /\ start \in [Partition -> Nat]
  /\ tracker \in [Partition -> TrackerState]
  /\ \A p \in Partition : tracker[p].seen \cup tracker[p].done \subseteq Offsets(p)
  /\ buckets \in [Hand -> BucketType]
  /\ pending \in [Hand -> SUBSET Ref]
  /\ step \in {"poll", "deadLetter", "score", "commit"}
  /\ current \in Ref \cup {NoRef}
  /\ failures \in 0 .. MaxFailures

Init ==
  /\ log       = [p \in Partition |-> <<>>]
  /\ committed = [p \in Partition |-> NoOffset]
  /\ published = {}
  /\ dead      = {}
  /\ running   = TRUE
  /\ position  = [p \in Partition |-> 0]
  /\ start     = [p \in Partition |-> 0]
  /\ tracker   = [p \in Partition |-> NoState]
  /\ buckets   = [h \in Hand |-> NoBucket]
  /\ pending   = [h \in Hand |-> {}]
  /\ step      = "poll"
  /\ current   = NoRef
  /\ failures  = 0

-----------------------------------------------------------------------------
(* The pair-feature topic *)

Revisions(h, q) ==
  {RecordAt(<<PartitionOf[q], o>>).rev : o \in
     {x \in Offsets(PartitionOf[q]) : /\ RecordAt(<<PartitionOf[q], x>>) # Poison
                                      /\ RecordAt(<<PartitionOf[q], x>>).hand = h
                                      /\ RecordAt(<<PartitionOf[q], x>>).pair = q}}

\* Flink emits the snapshots of a pair in revision order; its at-least-once sink
\* repeats some after a recovery, up to Rewind revisions back.
Emit(e) ==
  LET p == PartitionOf[e.pair] IN
  /\ Len(log[p]) < MaxLog
  /\ e.rev = 1 \/ (e.rev - 1) \in Revisions(e.hand, e.pair)
  /\ \A r \in Revisions(e.hand, e.pair) : r < e.rev + Rewind
  /\ log' = [log EXCEPT ![p] = Append(@, e)]
  /\ UNCHANGED <<committed, published, dead, running, position, start, memory, step, current, failures>>

EmitPoison(p) ==
  /\ Poisoned
  /\ Len(log[p]) < MaxLog
  /\ log' = [log EXCEPT ![p] = Append(@, Poison)]
  /\ UNCHANGED <<committed, published, dead, running, position, start, memory, step, current, failures>>

\* The wall clock that AddDetailed reads; a bucket past its TTL ages no more.
Tick ==
  /\ Ticking
  /\ running
  /\ \E h \in Hand : Held(buckets[h]) # {} /\ buckets[h].age <= TTL
  /\ buckets' = [h \in Hand |->
                   IF Held(buckets[h]) # {} /\ buckets[h].age <= TTL
                   THEN [buckets[h] EXCEPT !.age = @ + 1] ELSE buckets[h]]
  /\ UNCHANGED <<broker, running, position, start, tracker, pending, step, current, failures>>

-----------------------------------------------------------------------------
(* Handle *)

\* Mutant: only the records of incomplete hands wait, the one that completes
\* a hand is forgotten.
AddPendingIncomplete(h, ref, status) ==
  pending' = [pending EXCEPT ![h] = IF status = "incomplete" THEN @ \cup {ref} ELSE @]

\* addPending, for the record of an incomplete hand and the one that completes it.
AddPending(h, ref, status) ==
  pending' = [pending EXCEPT ![h] = IF status \in {"incomplete", "complete"} THEN @ \cup {ref} ELSE @]

\* Mutant: the switch on the status knows no stale records.
AfterAssemblyUnhandled(status) ==
  CASE status = "complete" -> "score"
    [] status = "rejected" -> "deadLetter"
    [] status = "stale"    -> "unknown"
    [] OTHER               -> "commit"

AfterAssembly(status) ==
  CASE status = "complete" -> "score"
    [] status = "rejected" -> "deadLetter"
    [] OTHER               -> "commit"

\* Mutant: an incomplete hand's record counts as processed.
ForgottenAlways == {"duplicate", "stale", "incomplete"}

\* The statuses that say a record adds nothing: it is processed at once.
Forgotten == {"duplicate", "stale"}

\* A record that passes the checks of Handle goes to the assembler, whose purge
\* walks over every hand.
Assemble(e, ref, seen) ==
  LET purged == [h \in Hand |-> Purge(buckets[h])]
      status == AssemblyStatus(purged[e.hand], e)
  IN  /\ buckets' = [purged EXCEPT ![e.hand] = Added(@, e)]
      /\ AddPending(e.hand, ref, status)
      /\ tracker' = [tracker EXCEPT ![ref[1]] =
                       IF status \in Forgotten THEN MarkProcessed(seen, {ref[2]}) ELSE seen]
      /\ step' = AfterAssembly(status)

\* The head of Handle, for the next record the poll returns.
Receive(p) ==
  LET o    == position[p]
      seen == Observe(tracker[p], o)
      e    == RecordAt(<<p, o>>)
  IN  /\ running
      /\ step = "poll"
      /\ o < Len(log[p])
      /\ position' = [position EXCEPT ![p] = o + 1]
      /\ current' = <<p, o>>
      /\ \/ /\ e # Poison
            /\ Assemble(e, <<p, o>>, seen)
         \/ /\ e = Poison
            /\ step' = "deadLetter"
            /\ tracker' = [tracker EXCEPT ![p] = seen]
            /\ UNCHANGED <<buckets, pending>>
      /\ UNCHANGED <<broker, running, start, failures>>

\* Mutant: only the record that completes the hand is marked.
MarkCurrent(h) ==
  tracker' = [tracker EXCEPT ![current[1]] = MarkProcessed(@, {current[2]})]

\* processor.pending marks all the records that waited for the hand.
MarkHand(h) ==
  tracker' = [p \in Partition |->
                MarkProcessed(tracker[p], {o \in tracker[p].seen : <<p, o>> \in pending[h]})]

CurrentHand == RecordAt(current).hand

\* Mutant: the pairs are not held against the players of the hand.
ScorableAny(h) == TRUE

\* validateCompletePairSet.
Scorable(h) == Held(buckets[h]) \in Whole

\* The batch of outputRecords for the snapshots the bucket emitted.
Batch(h) == {[hand |-> h, versions |-> buckets[h].emitted, kind |-> k] : k \in Output}

\* The hand is scored, its whole batch is acknowledged, its records are processed.
Publish ==
  /\ running
  /\ step = "score"
  /\ Scorable(CurrentHand)
  /\ published' = published \cup Batch(CurrentHand)
  /\ MarkHand(CurrentHand)
  /\ pending' = [pending EXCEPT ![CurrentHand] = {}]
  /\ step' = "commit"
  /\ UNCHANGED <<log, committed, dead, running, position, start, buckets, current, failures>>

\* deadLetter: the dead letter is acknowledged, the record is processed.
DeadLetter ==
  /\ running
  /\ step = "deadLetter"
  /\ dead' = dead \cup {current}
  /\ tracker' = [tracker EXCEPT ![current[1]] = MarkProcessed(@, {current[2]})]
  /\ step' = "commit"
  /\ UNCHANGED <<log, committed, published, running, position, start, buckets, pending, current, failures>>

ReadyPartitions == {p \in Partition : Ready(tracker[p])}

CommitTo(S) ==
  committed' = [p \in Partition |-> IF p \in S THEN Watermark(tracker[p]) ELSE committed[p]]

\* commitReady, which ends every Handle that met no error.
Commit ==
  /\ running
  /\ step = "commit"
  /\ CommitTo(ReadyPartitions)
  /\ tracker' = [p \in Partition |->
                   IF p \in ReadyPartitions THEN Acknowledge(tracker[p]) ELSE tracker[p]]
  /\ step' = "poll"
  /\ current' = NoRef
  /\ UNCHANGED <<log, published, dead, running, position, start, buckets, pending, failures>>

-----------------------------------------------------------------------------
(* Failures: whatever error Handle returns ends the loop and the process *)

Exit ==
  /\ running' = FALSE
  /\ tracker' = [p \in Partition |-> NoState]
  /\ buckets' = [h \in Hand |-> NoBucket]
  /\ pending' = [h \in Hand |-> {}]
  /\ position' = [p \in Partition |-> 0]
  /\ step' = "poll"
  /\ current' = NoRef
  /\ UNCHANGED <<log, start>>

\* The broker, the network or a crash: bounded.
Die ==
  /\ failures < MaxFailures
  /\ failures' = failures + 1
  /\ Exit

\* Mutant: the loop goes on after a failed publish.
PublishErrorIgnored ==
  /\ running
  /\ step = "score"
  /\ step' = "poll"
  /\ UNCHANGED <<broker, running, position, start, memory, current, failures>>

\* ProduceSync fails: any part of the batch may be durable.
PublishFails ==
  /\ running
  /\ step = "score"
  /\ Scorable(CurrentHand)
  /\ \E part \in SUBSET Batch(CurrentHand) : published' = published \cup part
  /\ UNCHANGED <<committed, dead>>
  /\ Die

\* Mutant: the record is processed although its dead letter failed.
DeadLetterErrorIgnored ==
  /\ running
  /\ step = "deadLetter"
  /\ tracker' = [tracker EXCEPT ![current[1]] = MarkProcessed(@, {current[2]})]
  /\ step' = "commit"
  /\ UNCHANGED <<broker, running, position, start, buckets, pending, current, failures>>

\* The dead letter may be durable although its publish fails.
DeadLetterFails ==
  /\ running
  /\ step = "deadLetter"
  /\ dead' \in {dead, dead \cup {current}}
  /\ UNCHANGED <<committed, published>>
  /\ Die

\* The commit request fails; the broker may have applied it to some partitions.
CommitFails ==
  /\ running
  /\ step = "commit"
  /\ ReadyPartitions # {}
  /\ \E S \in SUBSET ReadyPartitions :
       /\ CommitPartial \/ S \in {{}, ReadyPartitions}
       /\ CommitTo(S)
  /\ UNCHANGED <<published, dead>>
  /\ Die

Crash ==
  /\ running
  /\ UNCHANGED <<committed, published, dead>>
  /\ Die

\* ScoreHand refuses pairs that are not those of six players: the error is
\* fatal and comes back with every redelivery.
ScoreFails ==
  /\ running
  /\ step = "score"
  /\ ~ Scorable(CurrentHand)
  /\ UNCHANGED <<committed, published, dead, failures>>
  /\ Exit

\* Where a process begins on p: at the group's offset or, where there is none, at
\* the beginning or the end of the topic.
StartOffset(p) ==
  IF committed[p] # NoOffset THEN committed[p]
  ELSE IF FromBeginning THEN 0 ELSE Len(log[p])

\* The deployment starts a new process.
Restart ==
  /\ ~ running
  /\ running' = TRUE
  /\ position' = [p \in Partition |-> StartOffset(p)]
  /\ start' = [p \in Partition |-> IF committed[p] = NoOffset THEN StartOffset(p) ELSE start[p]]
  /\ UNCHANGED <<broker, memory, step, current, failures>>

-----------------------------------------------------------------------------

Next ==
  \/ \E e \in Event : Emit(e)
  \/ \E p \in Partition : EmitPoison(p) \/ Receive(p)
  \/ Tick
  \/ Publish
  \/ DeadLetter
  \/ Commit
  \/ PublishFails
  \/ DeadLetterFails
  \/ CommitFails
  \/ Crash
  \/ ScoreFails
  \/ Restart

SafetySpec == Init /\ [][Next]_vars

(***************************************************************************)
(* A running process finishes the Handle it is in and polls every          *)
(* partition; the deployment restarts a process that exited.  Producers,   *)
(* time and failures are free to do nothing.                               *)
(***************************************************************************)
Fairness ==
  /\ \A p \in Partition : WF_vars(Receive(p))
  /\ WF_vars(Publish)
  /\ WF_vars(DeadLetter)
  /\ WF_vars(Commit)
  /\ WF_vars(Restart)

LiveSpec == SafetySpec /\ Fairness

-----------------------------------------------------------------------------
(* Properties *)

\* The batches that are durable as a whole.
Batches ==
  {[hand |-> out.hand, versions |-> out.versions] :
     out \in {x \in published : \A k \in Output : [x EXCEPT !.kind = k] \in published}}

\* A whole output batch covers pair q of hand h at revision r or a later one.
Covered(h, q, r) == \E b \in Batches : b.hand = h /\ b.versions[q].rev >= r

\* A dead letter covers the record: its own, or that of the snapshot of which
\* the record is a repetition or a predecessor.
DeadLettered(ref) ==
  \/ ref \in dead
  \/ \E d \in dead :
       /\ RecordAt(ref) # Poison /\ RecordAt(d) # Poison
       /\ RecordAt(d).hand = RecordAt(ref).hand /\ RecordAt(d).pair = RecordAt(ref).pair
       /\ \/ RecordAt(d).rev > RecordAt(ref).rev
          \/ RecordAt(d) = RecordAt(ref)

Answered(ref) ==
  \/ DeadLettered(ref)
  \/ /\ RecordAt(ref) # Poison
     /\ Covered(RecordAt(ref).hand, RecordAt(ref).pair, RecordAt(ref).rev)

\* The records that the group answers for: not those that a start at the end of
\* the topic skipped, which a death before the first commit brings about.
Consumed(p) == {o \in Offsets(p) : start[p] <= o}

\* The group moves past a record it answers for only when a whole batch that
\* covers its revision, or a dead letter, is durable.
CommittedAnswered ==
  \A p \in Partition : \A o \in Consumed(p) : o < committed[p] => Answered(<<p, o>>)

\* Whatever expires, the group moves past a record it answers for only when some
\* revision of its pair was published with its hand, or a dead letter covers it.
CommittedScored ==
  \A p \in Partition : \A o \in Consumed(p) :
    o < committed[p] => \/ DeadLettered(<<p, o>>)
                        \/ /\ RecordAt(<<p, o>>) # Poison
                           /\ Covered(RecordAt(<<p, o>>).hand, RecordAt(<<p, o>>).pair, 1)

\* Between two records the tracker waits for nothing but the records of resident
\* hands, and each hand's list names exactly its own: whatever blocks a commit
\* waits for its hand (which may never come, see EventuallyCommitted).
PendingExact ==
  running /\ step = "poll" =>
    /\ \A p \in Partition : \A o \in tracker[p].seen \ tracker[p].done :
         \E h \in Hand : <<p, o>> \in pending[h]
    /\ \A h \in Hand : \A r \in pending[h] :
         /\ r[2] \in tracker[r[1]].seen \ tracker[r[1]].done
         /\ RecordAt(r).hand = h

\* What a bucket calls emitted is published as a whole batch: a process that
\* could not publish does not live on to call the retry a duplicate.
EmittedPublished ==
  running /\ step # "score" =>
    \A h \in Hand : buckets[h].emitted # NoBucket.emitted =>
      [hand |-> h, versions |-> buckets[h].emitted] \in Batches

\* A batch never mixes in a pair that is not one of the hand's six players.
PublishedWhole ==
  \A out \in published : {q \in Pair : out.versions[q] # NoSnapshot} \in Whole

\* Dead letters are for what is wrong: poison, a second event ID for a revision,
\* or a hand with too many pair identities.
DeadLetterJustified ==
  \A d \in dead :
    \/ RecordAt(d) = Poison
    \/ \E p \in Partition : \E o \in Offsets(p) :
         /\ RecordAt(<<p, o>>) # Poison
         /\ RecordAt(<<p, o>>) # RecordAt(d)
         /\ [RecordAt(<<p, o>>) EXCEPT !.id = RecordAt(d).id] = RecordAt(d)
    \/ Cardinality({q \in Pair : Revisions(RecordAt(d).hand, q) # {}}) > Expected

\* As long as a bucket lives (neither expired nor lost with its process), the
\* revisions its hand is scored with go forward.
RescoredForward ==
  [][\A h \in Hand : \A q \in Pair :
       buckets[h].age <= TTL /\ Held(buckets'[h]) # {}
         => buckets'[h].emitted[q].rev >= buckets[h].emitted[q].rev]_vars

\* With --from-beginning the scorer implements the abstract promise; without it
\* a start that finds no group offset skips records.
Promise == INSTANCE AtLeastOnce WITH
  written <- [p \in Partition |-> Offsets(p)],
  settled <- [p \in Partition |-> {o \in Offsets(p) : Answered(<<p, o>>)}]
ImplementsAtLeastOnce == Promise!Spec

Arrived(h) == \A q \in Pair : Revisions(h, q) # {}

\* Some record of the hand lies where a start at the end skipped it.
Skipped(h) ==
  \E p \in Partition : \E o \in Offsets(p) \ Consumed(p) :
    RecordAt(<<p, o>>) # Poison /\ RecordAt(<<p, o>>).hand = h

\* A hand whose pairs all arrived, none of them skipped by the reset policy, is
\* scored, through crashes, partial publishes and partial commits.
EventuallyScored ==
  \A h \in Hand : Arrived(h) ~> (Skipped(h) \/ \A q \in Pair : Covered(h, q, 1))

\* When the hands of the records up to an offset have all their pairs in the
\* topic, the group gets past that offset: a restart (here with
\* --from-beginning, so that nothing is skipped) rebuilds partial hands.
EventuallyCommitted ==
  \A p \in Partition : \A o \in 0 .. (MaxLog - 1) :
    (/\ o < Len(log[p])
     /\ \A x \in 0 .. o : RecordAt(<<p, x>>) # Poison => Arrived(RecordAt(<<p, x>>).hand))
      ~> (committed[p] > o)

\* A corrected snapshot of a hand whose pairs all arrived is scored.
EventuallyRescored ==
  \A h \in Hand : \A q \in Pair :
    (MaxRevision \in Revisions(h, q) /\ Arrived(h)) ~> Covered(h, q, MaxRevision)
=============================================================================
