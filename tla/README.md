# Verification of the realtime risk pipeline

TLA+ modules, TLC runs and TLAPS proofs about the realtime parts of the
collusion-risk pipeline: the Go services that consume Kafka topics
(`services/go`), the writer that puts their events into Snowflake
(`streaming/snowflake-event-writer`), the temporal context join in Flink and its
Python reference, the Python sinks of the warehouse, the legacy realtime
processor, and the commands that retire it. `PROJECT.json` is the
machine-readable side of this document: components, runs, mutants, the map from
definitions to source lines, findings, hazards, theorems.

    tlc -workers 2 -config MCTrackedConsumer_safety.cfg MCTrackedConsumer
    tlapm EventSinkProofs.tla

## The system

A hand of poker travels through the realtime path like this:

    Postgres --Debezium--> hand-adapter --> raw hand topic
      --> Flink context-enrichment (join with user context) --> enriched players
      --> Flink pair-features (15 pairs of 6 players, rolling history)
      --> poker.pair-features.v1, keyed by pair
      --> risk-kafka (Go): gathers a hand's pairs, scores, publishes
      --> evidence, score, decision, alert topics (+ dead letters)
      --> sink-kafka (Go) --HTTP--> snowflake-event-writer --> ledger + typed tables

Beside it, the canonical sink (Python) loads the same events into the warehouse in
batches, and the legacy service POKER_REALTIME scores raw hands in batches of its
own until it is retired.

Every arrow is at-least-once. Nothing downstream of Flink uses Kafka
transactions: the services order "make the outcome durable" before "commit
the input offset", give every output a deterministic ID, and leave the removal of
duplicates to that ID. The following parts carry logic of their own.

| Component | State | Operations | What is hard | What makes it correct |
|---|---|---|---|---|
| Offset tracker (`stream/offsets.go`) | per partition: base, offset -> processed | Observe, MarkProcessed, Ready, Acknowledge | records finish out of order; redelivery; rebalance | never commits past an open record; never goes back |
| Consumer loop (`kafkaio`) | position, in-flight record, group offset at the broker | poll, handle, publish, commit, exit, restart, rebalance | a death between any two of these; a failed request that was applied; no group offset yet | every record delivered is durable or delivered again |
| Risk stream processor (`stream/processor.go`) | pending hands, tracker, assembler | Handle: validate, assemble, score, publish batch, dead-letter, commitReady | a hand spans partitions, a batch spans topics, a partition interleaves hands | a record is passed only when a whole batch that covers its revision, or a dead letter, is durable |
| Hand assembler (`risk/assembler.go`) | buckets: pairs, emitted, last update | AddDetailed, purge | corrections, repetitions, conflicts, expiry | revisions go forward; what it calls emitted was emitted |
| Scorer (`risk/scorer.go`, `output.go`) | none (model, policy) | ScoreHand, build events | the same hand scored twice | replays can be deduplicated by ID |
| Sink processor (`sink`) | tracker, one request | Handle, markAndCommit, Persist | a time-out while the writer goes on; redeployment between write and commit | an offset is passed only when its record is stored with its own content |
| Event writer (`snowflake-event-writer/server.py`) | one session, one lock, the tables | persist: pre-check, insert, typed insert, COMMIT, one retry | check-then-insert without unique keys; ambiguous COMMIT; collision of contents | at most one row per ID, both rows or none, first content wins |
| CDC hand adapter (`cdc`) | tracker | Handle, deadLetter, markAndCommit | as the consumer loop | as the consumer loop |
| Legacy realtime processor (`pipeline/realtime`) | buffer, position, six tables without keys | poll, flush, statements, commit, shutdown | statement-wise writes; a death between two; a hand twice in a batch | what is committed is in every table, once |
| Canonical sink (`kafka/world_sink.py`, `warehouse/events.py`) | buffer, offset; tables and context history | poll, load in one transaction, rebuild the history, commit | two owners of a partition in turn; ambiguous COMMIT; contexts out of order | one row per event; the history answers as of any time |
| Temporal join (`ContextTemporalJoinFunction`, `context/temporal_join.py`) | per player: contexts, hands, emissions | hands, contexts, watermark and timers | late and corrected contexts around an emitted hand; two implementations | a row that can be corrected is current; both end with one answer |
| Retirement of the legacy service (`ops/realtime_retirement.py`, `scripts/*_r6_*`) | write-once reports, the service, lifecycle timestamps | preflight, replay, parity, start, check, rollback, capture, recovered rollback | commands that take hours, killed in between, while operators act | reports prove what they claim of the suspension |
| Pair-feature HTTP server (`risk/server.go`) | assembler under a mutex | addPairFeature, scoreHand | a hand is marked emitted before it is scored | a failed score can be retried |
| Review policy (`risk/review_policy.go`) | none | decide | precedence, repeated reason codes | one decision per hand |
| Flink context cache (`ActiveContextCacheEntry`, JDBC) | cached context per user | lookup, refresh, retry | stale use, replacement order | never older than what it replaced |
| Flink pair features (`HandPairAssemblyFunction`, `*RollingFunction`) | players of a hand, rolling windows | assemble, roll, timers | order of arrival, corrections, duplicates | 15 pairs per hand, revisions forward |
| Registry (`pipeline/ops`) | files | promote, archive | a step that fails in the middle | one active model |

They interact through topics (append-only partitions with a group offset), one
HTTP call (sink to writer), shared in-process state (processor and assembler;
writer threads and the session lock), the warehouse (transactions of two workers)
and files (the retirement's reports). The offline part of the repository
(generation, features, training, rules evaluation, loaders, admin
pages, infrastructure) is batch code without interleavings and is listed, not
modelled.

## What is modelled

| Module | Models |
|---|---|
| `OffsetTracker` | the tracker's four operations on the state of one partition |
| `OffsetTrackerProofs` | lemmas about them, cited by three of the proofs below |
| `AtLeastOnce` | abstract: records are written, settled, and only then may the group advance; nothing is unsettled, no offset goes back |
| `TrackedConsumer` | the loop around a tracker, with the record's outcome abstract; implements `AtLeastOnce` |
| `TrackedConsumerProofs` | the theorems about it |
| `HandAssembler` | AddDetailed and purge as operators on one bucket |
| `StreamProcessor` | the risk scorer: Handle, its calls and failures; implements `AtLeastOnce` |
| `StreamProcessorProofs` | the theorems about it, along three invariants |
| `EffectivelyOnce` | abstract: a ledger in which each ID gets one content, once, with its typed row |
| `EventSink` | sink consumer, HTTP call and writer threads; implements `EffectivelyOnce` and `AtLeastOnce` |
| `EventSinkProofs` | the theorems about it |
| `ScoreReplay` | the scorer's replays in front of `EventSink` |
| `RealTimeProcessor` | the legacy processor: batches, statements, commits, failures |
| `RealTimeProcessorProofs` | the theorems about it |
| `CanonicalSink` | the canonical sink: workers that take turns, one transaction per batch, the rebuilt history |
| `CanonicalSinkProofs` | the theorems about it |
| `TemporalContextJoin` | the Python reference of the temporal join, one player |
| `ContextTemporalJoin` | the Flink operator, one key |
| `JoinMirror` | both, fed with the same inputs |
| `JoinMirrorProofs` | the theorems about the three |
| `RealtimeRetirement` | the commands of the retirement among operators and failures |
| `RealtimeRetirementProofs` | the theorems about it |
| `MC*` | instances for TLC |

How state and actions correspond to the code:

* *Partitions.* A topic partition is a sequence (or, in `TrackedConsumer`, a set
  of offsets with possible gaps); `committed` is the group's offset at the broker,
  `NoOffset` where the group never committed. What lives in the process
  (`position`, `tracker`, `buckets`, `pending`) is lost when it dies.
* *Start offset.* A process begins at the group's offset; where there is none, at the
  beginning of the topic with `--from-beginning` and at its end without. The flag is the constant
  `FromBeginning` of `TrackedConsumer`, `StreamProcessor` and `RealTimeProcessor`; the sink's
  deployment sets it, those of risk-kafka, hand-adapter and the legacy processor do not. A start at the end
  skips records, also some that a process before it was handed and had not finished, and a
  later commit passes them. `start` in `StreamProcessor` is history: it tells the skipped
  records from the `Consumed` ones, which the scorer answers for.
* *Tracker.* The Go map `offset -> bool` is the pair of sets `seen` (keys) and
  `done` (keys that map to true). `Watermark` is where the scan of `Ready` stops.
* *Steps of Handle.* The code runs in one goroutine. What it does in memory is
  one step; every call that leaves the process is a step of its own, with a
  failure action beside it that lets any part of the call have happened:
  `Publish`/`PublishFails` (any subset of the batch), `DeadLetter`/`DeadLetterFails`,
  `Commit`/`CommitFails` (any subset of the partitions), `Crash`. Any error that
  Handle returns ends the process, as `Client.Run` does.
* *Assembler.* A bucket maps each pair to a snapshot (revision and event ID) and
  remembers the snapshots it last emitted. Time is counted in ticks without an
  update; purge runs inside AddDetailed over all hands, as in the code, and does
  not touch `pending`, as in the code. An emptied bucket and a missing one behave
  alike, so one value stands for both.
* *Size of a hand.* `Expected` is 15 in the code and 2 in the runs; `Whole` says
  which sets of pairs six players make, and `Scorable` is
  validateCompletePairSet's verdict.
* *Writer.* A request thread goes through acquire, check, insert, typed, commit.
  An open transaction has no effect on the tables before its COMMIT is applied;
  a failed COMMIT was applied or not. The thread outlives the consumer's request. What
  validate_request refuses (`Refused`: contents that the sink itself accepts) is answered with 400
  before the lock is taken; that is fatal for the consumer, at every replay.
* *Legacy processor.* A flush scores the whole batch in memory, then executes its
  statements one by one (`Write`): deletes in the order of the tables, inserts, the
  alerts last. Snowflake commits each of them by itself. `Scorable` is the pandas
  reindexing that refuses a hand ID twice. A statement or a commit that raises after
  being applied is the step followed by `Die`.
* *Canonical sink.* `Begin`, `Write`, `Rebuild` and `CommitTransaction` are the
  statements of load_canonical_events by what they see: the transaction works on a
  copy of the tables. Of several open transactions one at a time has deleted from a
  table; that comes from the warehouse, is an operator of its own (`LockEnvelopes`) and is marked external. The tables keyed by
  event ID change together, so one row stands for them; RAW_HANDS is keyed by hand
  and kept apart.
* *Temporal join.* The state is that of one player, as no player's state reads
  another's. The arrival sequence of the reference serves one comparison, so a hand
  remembers the contexts known at its arrival instead. A timer of the operator is a
  mark (`due`, `cleanup`) that the watermark sets; `rows` collects what is emitted and
  is history. A hand that is delivered again after its state was released begins a
  new `life`.
* *Retirement.* A command is its control state, with what it has read so far. Its steps are
  its snapshots, its readings of the clock and of the lifecycle, its ALTER SERVICE statements,
  its waits and its report: `start` takes its snapshot, then `started_at`, then suspends, verifies
  and reports; `check` takes its snapshot first and the clock later; `capture` reads the
  clock, the lifecycle, the snapshot, in that order, and the recovered rollback the
  lifecycle, the snapshot, the clock. One snapshot, though it makes several queries, is one
  step. An ALTER that raises inside `start` leads to the except clause, whose own ALTER may
  raise too (`stranded` is history: the service was left as it was); elsewhere a call that raises ends the
  command like a kill. A report is a record, and the
  digest that binds a report to another is that report itself. `ran`, the ticks in
  which the service ran, is history: the reports are held against it.
* *External parts*, modelled as the source uses them and marked so in the map:
  the Kafka broker (append, group offset, assignment), the Flink producer of pair snapshots
  (revisions in order, repeated up to `Rewind` back after a recovery), the clock,
  the watermark, the warehouse's locks and COMMIT, operators, the restart of a dead process.

Where the two joins differ. The operator closes a hand when the watermark reaches its
horizon, the reference when it passes it; the operator answers a hand that comes behind
the watermark at once, the reference at the next watermark; only the operator has the
bootstrap wait; a repeated conflicting context is dropped silently by the reference
and reported again by the operator; a hand delivered after its state was released is
emitted as revision 1 once more by both. `FinalsAgree` therefore leaves out the
hands for which an input came at or behind the horizon (`apart`). `IdAssumption` says that a
context ID names one version: build_event makes the ID of a context event of its
player and version. That an event of one version comes under two IDs, or with two contents, stays
possible; those are the duplicates and conflicts that both sides have to handle.

What the canonical sink's model assumes: the group already has an offset; an
event ID and a version of a context name each other, because build_event makes the ID of the player and the
version, and other events have other IDs (`EventAssumption`; select_context_as_of raises if it
meets two IDs of one version); the
write_pandas loads are part of the open transaction; with `consumer_timeout_ms`
the loop returns when the topic is read, flushes and is run again (with -1 it would never flush a partial batch). A
poison record or a collision within a batch ends the process at every restart, as in
the code, so the run has no liveness property. Two hand events of one hand ID in a batch leave
two rows in RAW_HANDS; no property claims otherwise.

## The runs

| Run | Question | Result |
|---|---|---|
| `consumer` | Does the tracked loop lose, skip or rewind anything, with out-of-order outcomes, offset gaps, redelivery, rebalance, a death; is everything no gap precedes committed in the end? | holds, and implements `AtLeastOnce` |
| `scorer_corrections` | With `--from-beginning`, corrections, repetitions and older snapshots of one hand across two partitions, with partial publishes and commits: is the promise kept, do revisions go forward, is a complete hand scored in the end? | holds, and implements `AtLeastOnce` |
| `scorer_hands` | Starting at the end of the topic, two hands interleaved on two partitions with poison records, a foreign pair identity and a second event ID for a revision: is what is published whole, what is dead-lettered wrong, what is committed answered, where it was not skipped? | holds |
| `scorer_expiry` | Starting at the end of the topic, with the TTL running out anywhere: was every committed record's pair, where it was not skipped, published with its hand, in some revision? | holds (the pair identities are the hand's own: see below) |
| `scorer_stalled` | Does the group get past hands whose pairs all arrived? | violated (finding) |
| `sink` | Two contents of one ID, a content that the writer refuses, dead letters across a redeployment, abandoned requests, writer crashes, ambiguous COMMITs: one row per ID and build, no collision or refusal passed over, everything stored and committed where contents agree and are accepted? | holds, and implements both abstract specifications |
| `score_replay` | Can a replayed score be deduplicated by its ID? | violated (finding) |
| `realtime` | With `--from-beginning`, shutdowns, rebalances and a death between any two statements: is what is committed in all six tables, once, and does every alert have its history; is a topic without repetitions committed in the end? | holds |
| `realtime_duplicate` | Does a restart get past any failure by replaying? | violated (finding) |
| `retirement` | Commands interleaved with operators, redeployments, purged reports, a kill or a call that raises: what do the reports prove, and does a failed start resume the service, unless its own RESUME raises? | holds |
| `join` | Reference and operator under any order of hand, contexts and watermarks, with a version conflict, a redelivery and a bootstrap wait: current while correctable, forward only, one final answer, every hand answered? | holds |
| `canonical_sink` | Two workers in turn, duplicates, collisions, poison, ambiguous COMMITs: offsets behind the warehouse, one row per event ID, the history right as of every time? | holds |

Bounds, all named constants. Consumers and scorer: two partitions (commits are partial, hands span
partitions; a third adds nothing the tracker distinguishes, since its operations
are per partition), two or three records per partition (one open, one done above
it, one gap), one or two hands, two pairs plus one foreign pair. `scorer_corrections` and `scorer_expiry` have
two revisions (a correction) with up to two steps back; `scorer_hands` has one revision with two
event IDs, and the producer may send it again, so the conflict occurs, on two records per partition.
A TTL is one tick; there are one to three failures (one
to lose the memory, a second during the recovery from the first). The sink's
writer has two threads, an abandoned request and its replay, and three contents of one event
ID, one of them refused, on two records. Legacy processor: two
hands, one of them alerting, batches of two, three records (a batch and the
beginning of the next, or a repetition), two faults. Canonical sink: two workers,
batches of two, three records out of a context, a later version that is in force
before it, two contents of one hand event and a poison record, two failures. Join:
one hand; a context before it, its correction, one that is in force after it, a second event
of a version; lateness and window of one tick, watermarks up to one past the
horizon, two deliveries. Retirement: a window of two ticks and a clock up to two, so
that a suspension can be as long as the window or interrupted inside it, and a sample can be
older than the clock reading behind it; one hand, one
outside deed, one kill or call that raises, seven reports (the longest chain and one spare).

`CHECK_DEADLOCK FALSE` in all runs but the consumer's: producers and clocks are
bounded and optional, so a system in which all has been produced and committed stops, as
the real one idles. The consumer run checks deadlock (a rebalance is always possible
while nothing waits).

Every property of a passing run has a mutant in `PROJECT.json`: a plausible bug
in the definition it names, defined beside the right definition, under which
TLC refutes the property.

### Fairness

Weak fairness of the process's own steps only. Consumers: while it runs, the loop polls
each partition with records (PollRecords returns what the broker has for every
assigned partition), finishes the Handle it is in, and commits; a process that
exited is started again (the deployments restart containers); a writer thread
finishes what it began, and one that waits for the lock gets it (each request
holds it for a bounded time, and the callers are at most the abandoned request and
its replay). The legacy processor likewise: poll, flush (its interval runs out),
statements, commit, close, restart. The retirement: a command that runs goes on, unless it is
killed. The join: watermarks advance and the bootstrap wait ends; no input has
fairness. Producers, operators, rebalances and failures have none, and
failures are finitely many. A RESUME of the except clause that raises is such a failure.

## Findings

1. `scorer_stalled` (code bug). Offsets are committed partition by partition. When a
   hand's records are committed on one partition and the process dies before the
   other partition's, the rest of the hand is redelivered to an empty assembler,
   never completes, stays pending, and stops all commits of its partition.
2. `score_replay` (documentation and code disagree). A replayed score has its old ID
   and a new time stamp, which the
   writer answers with 409: the sink stops at that record.
3. `realtime_duplicate` (code bug). A hand that is twice in one batch of the legacy
   processor makes the feature computation raise; every restart polls the same batch.

Known behaviour that no document denies, kept as hazards:

* purge forgets a bucket but not its pending records: an older snapshot that is
  repeated then releases the newer one's offset (`CommittedAnswered` fails with
  `Ticking`; `CommittedScored` is what remains). It remains only while every pair
  identity is the hand's own: a foreign one that waited for the expired bucket is marked
  processed with the hand's next batch, which does not hold it, and is committed with neither
  output nor dead letter;
* a correction that arrives after a restart is not scored: the other pairs
  of the hand are already committed (`EventuallyRescored` fails);
* with the default flags a group without an offset resets to the end of the topic, so a
  process that dies before its first commit does not replay what it was handed. `NothingSkipped` fails
  with `FromBeginning = FALSE`; the scorer's properties are stated of the records that were not
  skipped (`Consumed`) and hold for both values of the flag, its refinement of `AtLeastOnce` with the flag
  only; the legacy processor's `CommittedPersisted` and `EventuallyCommitted` are stated with the flag, and
  TLC refutes the former without it;
* a content that the sink accepts and the writer's validate_request refuses ends the sink at every
  replay: the partition stops there (`EventuallyCommitted` of `EventSink` names it as an exception);
* check reads the clock after the world, so a sample taken shortly before the end of the window can
  make a completed check; `DrillAfterWindow` claims no more than that.

## Proofs

TLC's instances are small; these theorems hold for every set of partitions, hands,
events and threads and every value of the bounds.

### `TrackedConsumerProofs`

* `TypeCorrect`, `NothingIsLost`, `TrackerStaysAbove`, `NothingIsSkipped`: the state invariants;
* `CommitsGoForward`: the committed offset of a partition never decreases;
* `ConsumerImplementsPromise`: the loop implements `AtLeastOnce`.

All assume `FromBeginning` (without it a restart may skip) and the assumptions on
the constants in `ConsumerAssumption`, and nothing else.

The argument. None of the properties is inductive: that a commit loses nothing
depends on what the tracker calls done being durable, on base lying at or above
the committed offset, and on no record between base and the position being
missing from `seen`. The inductive invariant `IInv` is the conjunction of
`TypeOK`, `NoLoss`, an empty tracker while the process is down, `Bounded` (nothing
lies beyond the end of the log), `TrackerExact` (what is done is seen and
settled, what is seen is in the log at or above base, nothing uncommitted lies below base, and
every record between base and the highest one seen is seen) and `PositionExact`
(while the process runs, every record between the group's offset and its position
is seen, and the position is not behind the group's offset). A separate invariant, `History`, relates `delivered` to these. The watermark is a
CHOOSE over a finite range; that it exists is proved from the least natural
number outside a set that is bounded, which the well-foundedness of < on Nat gives
(`WatermarkStops` in `OffsetTrackerProofs`).
Each action has its own step; actions that only fail share the lemma about `Die`.

### `EventSinkProofs`

* `TypesKept`; `DeadLettersUnique`: one dead-letter row per build and record;
* `CommitsAreDurable`: what the group has passed is in the warehouse with its own content;
* `LedgerImplemented`: the concurrent writer implements `EffectivelyOnce`;
* `PromiseImplemented`: sink, HTTP call and writer implement `AtLeastOnce`.

Assumed are `SinkAssumption` and `ThreadAssumption` only: any number of partitions,
threads, builds and failures, and no fairness.

The argument has two halves. The writer (`WriterInv`): whoever is past acquire holds
the lock (`LockHeld`), and what its check found absent is absent until its own COMMIT
(`StillAbsent`). As the lock has one holder, nobody else can change the tables in between,
and a COMMIT, even one whose answer is lost, adds the first row of its identity: that is
one step of the ledger or none. `WriterStep` proves this for each action through one
lemma about a thread that moves. The consumer (`ConsumerInv`): it works on one record
at a time, so its tracker holds that record alone, which is the first uncommitted one
(`TrackedExactly`); the thread whose answer it awaits works on that record (`AnswerComes`),
even though abandoned threads of earlier requests are still running; and what it was
told is stored is durable (`AnsweredStored`). Rows are never removed and the log only
grows (`DurableKept`), so what was durable at a commit remains so.

### `StreamProcessorProofs`

* `TypesKept`; `PendingExactHolds`: what blocks a commit waits for a resident hand, which may
  never be completed (the first finding);
* `EmittedPublishedHolds`, `PublishedWholeHolds`: what a bucket calls emitted is durable as
  a whole batch, and a batch covers the pairs of six players;
* `DeadLetterJustifiedHolds`: a dead-lettered snapshot is contradicted by the log, or its
  hand has too many pair identities;
* `RescoredForwardHolds`: while a bucket lives, revisions go forward;
* `CommittedAnsweredHolds`, `ImplementsAtLeastOnceHolds`: without expiry, the group passes only
  what a whole batch covers at its revision, a dead letter answers, or a start at the end skipped, and with
  `--from-beginning` the scorer implements `AtLeastOnce`;
* `CommittedScoredHolds`: with expiry, what the group passes was scored in some
  revision, dead-lettered, or skipped by such a start.

Assumed are `AssemblerAssumption` and `ProcessorAssumption`; by the two theorems without
expiry also `~ Ticking`, by `ImplementsAtLeastOnceHolds` `FromBeginning` as well, and by `CommittedScoredHolds`
`Whole = {Pair}` (no foreign pair identity). The
premises are needed: TLC refutes the properties without them. `CommittedAnsweredHolds` and
`CommittedScoredHolds` hold for both values of `FromBeginning` and speak of the records that
no start at the end of the topic skipped.

Three invariants, each resting on the ones before it. `LoopInv` says how the parts of the process
agree: a tracker holds exactly the offsets from the group's to the position
(`TrackerInv`); an open offset is in `pending` or is the record about to be dead-lettered
(`OpenWaiting`), and what is in `pending` is open (`WaitingOpen`); what a bucket emitted
is not newer than what it holds (`BucketsInv`), which is why the emitted set can never
repeat and a stored snapshot is never called a duplicate. `BatchInv` relates memory and topics: a snapshot in a
bucket is that of a record (`SnapshotsLogged`), its emitted set is whole in the output
topic or is the one that step "score" is about to publish (`EmittedInv`), and what has become or is
about to become a dead letter is wrong in a way that the log shows (`DeadInv`). `AnswerInv`
is about what was forgotten. Handle marks a stale or repeated record at once, though what it
repeats may not be published yet. That is safe because the record it repeats waits in
`pending`, at a lower offset of the same partition (records are keyed by pair), and so holds the
watermark below both: a done record is settled, or such a record waits (`DoneInv`), and a
snapshot in a bucket is published, waits, or has a dead letter (`Backed`). `WatermarkSettled`
then shows that everything below a watermark is settled.
Expiry breaks the step from a waiting record to the batch that answers it:
the batch may hold an older revision of the pair, or, for a foreign pair, none.

### `RealtimeRetirementProofs`

* `TypesKept`: reports and the command under way included;
* `RecoveryProvesSuspension`: a recovery report proves that the service did not run
  in the whole window before its observation;
* `DrillsRestOnEvidence`: a rollback drill rests on a check of its own start, sampled after it and
  reported a window after it.

Assumed is `RetirementAssumption`. For the first, the lifecycle timestamps that a capture reads are true when they are read
(`SuspendedSince`: a suspended service has not run since `suspended_on`), stay true
of the ticks before the reading however the service is altered afterwards
(`ObservationTrue`), and a report is never ahead of the clock (`TypeOK`), so that later
ticks cannot be added to its window. For the second, starts, checks and drills are chained:
checks are sampled after their start and reported a window after it (`ChecksBound`), a drill under way and a drill on record
have an elapsed start with such a check (`DrillBacked`, `DrillsBacked`), and a start that
begins after a drill cannot produce the report that the drill rested on
(`StartsAfterDrills`), which matters when the reports have been purged.

### `RealTimeProcessorProofs`

* `TypesKept`;
* `RowsOnceHolds`, `AlertsBackedHolds`: between any two statements, after any replays, no
  table holds a hand twice and no alert lacks its history;
* `CommittedPersistedHolds`: what the committed offset passed is in every table or yet to
  be rewritten. This one assumes `FromBeginning`: otherwise a restart before the first commit skips
  records, and the first commit then passes them.

Assumed besides is `RealTimeAssumption`. Each statement has a place (`DeletedAt`,
`InsertedAt`): the six deletes come first, the alerts' first of all, then the appends, the
alerts' last (`StatementOrder`). The first invariant, `WriteInv`, says how far the
statements got: a table has no row of the batch's hands between its delete and its append,
and the rows they should leave after it (`Progress`), so a batch that is about
to be committed is in every table (`BatchWritten`). `OffsetInv` adds that the buffer holds every
record between the committed offset and the position (`Fetched`) and only hands that are in the log
at or above that offset (`Buffered`): a delete that is not followed by its
append therefore only ever hits hands that are yet to be replayed.

### `CanonicalSinkProofs`

* `TypesKept`: of the tables and the open transactions too; no buffer outgrows a batch, and
  exactly the worker between its first DELETE and its COMMIT holds the lock;
* `CommittedLoadedHolds`: no offset is committed before its event is in the warehouse;
* `OneRowPerEventHolds`: one row per event and one content per event ID, after any replays
  (nothing is claimed of RAW_HANDS);
* `HistoryAnswersAsOfHolds`: the committed history answers, at every time, with the
  context that the temporal join would select.

Assumed are `SinkAssumption` and `EventAssumption`: any number of workers, events and
failures, batches of any size.

The argument. What a transaction holds is determined by the committed tables and
its batch: they are `Deleted`, `Inserted` or `Rebuilt` of them, according to its step
(`Good`). This is inductive because of the lock: after the first DELETE nobody else
commits, so that the tables a transaction started from are still the committed ones when it
commits (`WorkersInv`). The tables themselves have each event at most once and each ID
with one content (`OnceIn`), and their history is exactly the one rebuilt of their
contexts (`ExactIn`); a COMMIT preserves both (`RebuiltOnce`, `RebuiltExact`), the second because a
batch without a context leaves the contexts alone: its IDs are not theirs. A worker whose partition was
taken away still has its buffer, but `Fetched` is claimed of the owner alone: that is all
the commit of offsets needs.
A batch is deduplicated into a sequence over a bijection with its set (`DeduplicatedOnce`),
so rows are counted as the cardinality of a set of positions (`Occurrences`), with no
induction over the sequence.

### `JoinMirrorProofs`

* `TypesKept`: both know the same contexts, though the reference raises on a conflict
  and the operator sends it to the dead letters;
* `SelectionCurrentHolds`: while a row can still be corrected, the last thing said of it
  is the best context known;
* `RevisionsImproveHolds`: no revision of a row goes back to an earlier context, or to none;
* `FinalsBestHolds`: the final row of a hand past its horizon has the best context known;
* `FinalsAgreeHolds`: so the reference and the operator agree there;
* `HandsAnsweredHolds`: a delivered hand has a row, or is held and waits for the next
  watermark; in the operator it has one once it is due and the bootstrap wait is over. This
  is the safe half of `EveryHandAnswered`.

Assumed are `JoinAssumption` and `IdAssumption`; contexts and hands may be infinitely many.
The two theorems about finals leave out the hands in `apart`: what comes for a hand at its
horizon is one of the differences listed above.

The argument. Both sides select by CHOOSE the last candidate in the order of effective
time and version. That it exists is part of the invariant instead of following from
finiteness (`HasBest`): a new context either becomes the best candidate of a hand or
changes nothing for it (`KnownOK` gives that versions are not shared, without which two
contexts could be equal in the order). From this, a correction always goes forward in the
order. `RowsInv` relates the rows of the life a hand is in to its state; for the hands not in
`apart`, the last row of a held hand says what its state says (`Tops`), and what a
released hand left is settled (`Settled`). For the latter the horizon matters: the
reference releases a hand when the watermark passes it, the operator's cleanup mark tells it
exactly (`FlinkOK`), and a context that would still change the selection comes before it or
puts the hand in `apart`. The steps of the two sides are proved apart, each with what it
leaves of the other (`CoreKept`, `FlinkKept`); what they have in common, one step of the state of a hand
(`HandStep`) and its rows (`StepKeepsRows`, `StepKeepsTops`), is proved once, with rows and
states as parameters.

### Only model-checked

Liveness under the fairness stated above, for which there is no prover:
`EventuallyCommitted`, `EventuallyScored`, `FailedStartResumes` and `EveryHandAnswered`. Every
other property of a passing run is stated by one of the theorems.

## Not modelled

Probabilities, calibration, features and rule arithmetic; field validation; HTTP
and JSON layouts; metrics. franz-go's blocking of rebalances while a poll's
records are handled. A COMMIT that the warehouse applies after the retry has
already looked (the tables enforce no unique key), and a second instance of the
writer (the service runs as one). State TTL and checkpoint recovery of the Flink join.
The rolling memory of the legacy processor (read only by the optional pattern
search). The row-by-row comparison behind the parity report, which is one verdict.

Most of the repository's lines are in its offline part: generators of synthetic
hands, acceptance reports, training and evaluation of models, SQL deployment, event
contracts. They compute data from data in one process, without interleaving, retry
or recovery; a model of them would restate their arithmetic and field lists.

## Plan

What is left, in this order:

1. `ActiveContextCache` - the enrichment of a hand with its player's context
   (JdbcContextEnrichmentFunction, ActiveContextCacheEntry, the proxy repository's
   retry): one key's context rows, the cached entry, the checkpoint and what was
   emitted since. Properties: no hand gets a context that was not yet effective when it was
   played; the cache goes forward between restores; how stale a served row may be;
   an outage never dead-letters a hand.
2. `PairFeatures` - HandPairAssemblyFunction, UserRolling, PairRolling: six players
   to fifteen pairs, revisions, timers; composed with `StreamProcessor` in place of
   its external producer.
3. `PairFeatureServer` - the HTTP path over the same `HandAssembler`.
4. `StatefulFoldRule` and `ReviewPolicy` - pure operators against reference
   definitions.
5. `ModelRegistry` - promotion and archive of candidates.
6. Proofs: with each of these modules, its invariants. Of the modules there are, what no
   run checks yet: that the rows of the operator are those of the reference up to
   repetition, as a refinement, once the lives of a hand are matched.
