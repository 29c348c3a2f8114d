--------------------------- MODULE TrackedConsumer ---------------------------
(***************************************************************************)
(* The consumer loop the three Go services share (risk-kafka, sink-kafka,  *)
(* hand-adapter): one process of a consumer group polls its partitions,    *)
(* observes every record in the OffsetTracker, makes the record's outcome  *)
(* durable, marks it processed and commits the contiguous prefix.          *)
(*                                                                         *)
(* What "durable" means (a published batch, a warehouse row, a dead letter)*)
(* belongs to the services' own modules; here a record is settled at some  *)
(* point after its delivery, in any order, as the hand assembly of the     *)
(* risk scorer does settle records out of order.                           *)
(***************************************************************************)
EXTENDS OffsetTracker, FiniteSets

CONSTANTS
  Partition,      \* the input partitions assigned to the process
  MaxOffset,      \* bound: no offset at or above it is assigned
  MaxFailures,    \* bound: how often the process dies
  Gaps,           \* BOOLEAN: may an offset hold no record (control batches,
                  \* compaction)?
  FromBeginning   \* BOOLEAN: the --from-beginning flag of the services

ASSUME ConsumerAssumption ==
  /\ MaxOffset \in Nat
  /\ MaxFailures \in Nat
  /\ Gaps \in BOOLEAN
  /\ FromBeginning \in BOOLEAN

VARIABLES
  log,        \* [Partition -> SUBSET Nat]: the offsets that hold a record
  logEnd,     \* [Partition -> Nat]: the next offset the broker assigns
  committed,  \* [Partition -> Nat \cup {NoOffset}]: the group's offsets
  settled,    \* [Partition -> SUBSET Nat]: records whose outcome is durable
  running,    \* is the process alive?
  position,   \* [Partition -> Nat]: the next offset the process fetches
  tracker,    \* [Partition -> tracker state]
  delivered,  \* [Partition -> SUBSET Nat]: history, records handed to some process
  failures    \* how often the process died

broker == <<log, logEnd, committed>>
process == <<running, position, tracker>>
vars == <<log, logEnd, committed, settled, running, position, tracker, delivered, failures>>

\* A group that never committed on a partition has no offset there.
NoOffset == -1

Offset == Nat

TypeOK ==
  /\ log \in [Partition -> SUBSET Offset]
  /\ logEnd \in [Partition -> Offset]
  /\ committed \in [Partition -> Offset \cup {NoOffset}]
  /\ settled \in [Partition -> SUBSET Offset]
  /\ running \in BOOLEAN
  /\ position \in [Partition -> Offset]
  /\ tracker \in [Partition -> TrackerState]
  /\ delivered \in [Partition -> SUBSET Offset]
  /\ failures \in Nat

Init ==
  /\ log       = [p \in Partition |-> {}]
  /\ logEnd    = [p \in Partition |-> 0]
  /\ committed = [p \in Partition |-> NoOffset]
  /\ settled   = [p \in Partition |-> {}]
  /\ running   = TRUE
  /\ position  = [p \in Partition |-> 0]
  /\ tracker   = [p \in Partition |-> NoState]
  /\ delivered = [p \in Partition |-> {}]
  /\ failures  = 0

-----------------------------------------------------------------------------
(* The broker *)

Append(p) ==
  /\ logEnd[p] < MaxOffset
  /\ log' = [log EXCEPT ![p] = @ \cup {logEnd[p]}]
  /\ logEnd' = [logEnd EXCEPT ![p] = @ + 1]
  /\ UNCHANGED <<committed, settled, process, delivered, failures>>

\* An offset that no consumer ever sees.
SkipOffset(p) ==
  /\ Gaps
  /\ logEnd[p] < MaxOffset
  /\ logEnd' = [logEnd EXCEPT ![p] = @ + 1]
  /\ UNCHANGED <<log, committed, settled, process, delivered, failures>>

\* Where the group resumes on p: its committed offset, or what the reset
\* policy says when there is none (ConsumeResetOffset AtStart or AtEnd).
StartOffset(p) ==
  IF committed[p] # NoOffset THEN committed[p]
  ELSE IF FromBeginning THEN 0 ELSE logEnd[p]

-----------------------------------------------------------------------------
(* The process *)

ReadyPartitions == {p \in Partition : Ready(tracker[p])}

\* Handle returns after commitReady, so neither the next record nor a
\* rebalance finds an offset that could be committed.
BetweenRecords == running /\ ReadyPartitions = {}

\* PollRecords and the Observe at the head of Handle: the records of a
\* partition arrive in offset order.
Deliver(p, o) ==
  /\ BetweenRecords
  /\ o \in log[p]
  /\ position[p] <= o
  /\ \A q \in log[p] : position[p] <= q => o <= q
  /\ position' = [position EXCEPT ![p] = o + 1]
  /\ tracker' = [tracker EXCEPT ![p] = Observe(@, o)]
  /\ delivered' = [delivered EXCEPT ![p] = @ \cup {o}]
  /\ UNCHANGED <<broker, settled, running, failures>>

\* Mutant: a record is marked although nothing of it is durable yet.
MarkUnsettled(p, o) ==
  /\ running
  /\ o \in tracker[p].seen \ tracker[p].done
  /\ tracker' = [tracker EXCEPT ![p] = MarkProcessed(@, {o})]
  /\ UNCHANGED <<broker, settled, running, position, delivered, failures>>

\* Handle makes the record's outcome durable (the output batch is acknowledged,
\* the row is in the warehouse) and then marks it.
Process(p, o) ==
  /\ running
  /\ o \in tracker[p].seen \ tracker[p].done
  /\ settled' = [settled EXCEPT ![p] = @ \cup {o}]
  /\ tracker' = [tracker EXCEPT ![p] = MarkProcessed(@, {o})]
  /\ UNCHANGED <<broker, running, position, delivered, failures>>

CommitTo(S) ==
  committed' = [p \in Partition |-> IF p \in S THEN Watermark(tracker[p]) ELSE committed[p]]

\* commitReady: Ready, Commit, Acknowledge.
Commit ==
  /\ running
  /\ ReadyPartitions # {}
  /\ CommitTo(ReadyPartitions)
  /\ tracker' = [p \in Partition |->
                   IF p \in ReadyPartitions THEN Acknowledge(tracker[p]) ELSE tracker[p]]
  /\ UNCHANGED <<log, logEnd, settled, running, position, delivered, failures>>

Die ==
  /\ failures < MaxFailures
  /\ failures' = failures + 1
  /\ running' = FALSE
  /\ tracker' = [p \in Partition |-> NoState]
  /\ UNCHANGED <<log, logEnd, position, delivered>>

\* The outcome is durable but its acknowledgement is lost: Handle returns the
\* error and the process exits before it marks the record.
ProcessFails(p, o) ==
  /\ running
  /\ o \in tracker[p].seen \ tracker[p].done
  /\ settled' = [settled EXCEPT ![p] = @ \cup {o}]
  /\ UNCHANGED committed
  /\ Die

\* The commit request fails, after the broker applied it to some partitions or
\* to all of them: the error stops the loop and the process exits.
CommitFails(S) ==
  /\ running
  /\ ReadyPartitions # {}
  /\ S \subseteq ReadyPartitions
  /\ CommitTo(S)
  /\ UNCHANGED settled
  /\ Die

\* Any other fatal error, and a crash.
Crash ==
  /\ running
  /\ UNCHANGED <<committed, settled>>
  /\ Die

\* Mutant: the new process goes on where the old one stopped.
RestartAtPosition ==
  /\ ~ running
  /\ running' = TRUE
  /\ UNCHANGED <<broker, settled, position, tracker, delivered, failures>>

Restart ==
  /\ ~ running
  /\ running' = TRUE
  /\ position' = [p \in Partition |-> StartOffset(p)]
  /\ UNCHANGED <<broker, settled, tracker, delivered, failures>>

\* Mutant: the rebalance may find records that are not processed yet.
RejoinAnytime(p) ==
  /\ BetweenRecords
  /\ position' = [position EXCEPT ![p] = StartOffset(p)]
  /\ UNCHANGED <<broker, settled, running, tracker, delivered, failures>>

\* The partition is lost and assigned again to the same process: fetching
\* resumes at the group's offset while the tracker keeps its state.  The loop
\* allows a rebalance only when no record waits for others (PendingHands is 0).
Rejoin(p) ==
  /\ BetweenRecords
  /\ \A q \in Partition : tracker[q].seen = tracker[q].done
  /\ position' = [position EXCEPT ![p] = StartOffset(p)]
  /\ UNCHANGED <<broker, settled, running, tracker, delivered, failures>>

Next ==
  \/ \E p \in Partition :
       \/ Append(p)
       \/ SkipOffset(p)
       \/ Rejoin(p)
       \/ \E o \in log[p] : Deliver(p, o)
       \/ \E o \in tracker[p].seen : Process(p, o) \/ ProcessFails(p, o)
  \/ Commit
  \/ \E S \in SUBSET Partition : CommitFails(S)
  \/ Crash
  \/ Restart

SafetySpec == Init /\ [][Next]_vars

(***************************************************************************)
(* The loop polls, handles and commits as long as it runs, and the         *)
(* deployment restarts a process that exited; nothing makes producers,     *)
(* rebalances or failures happen.  Failures are finitely many              *)
(* (MaxFailures).                                                          *)
(***************************************************************************)
Fairness ==
  /\ \A p \in Partition :
       /\ WF_vars(\E o \in log[p] : Deliver(p, o))
       /\ \A o \in 0 .. MaxOffset : WF_vars(Process(p, o))
  /\ WF_vars(Commit)
  /\ WF_vars(Restart)

LiveSpec == SafetySpec /\ Fairness

-----------------------------------------------------------------------------
(* Properties *)

\* No record is lost: whatever lies below the group's committed offset has a
\* durable outcome, through every crash, failed commit and redelivery.
\* (commitReady commits only what Ready returns.)
NoLoss ==
  \A p \in Partition : \A o \in log[p] : o < committed[p] => o \in settled[p]

\* A record the process has moved past is durable or still tracked: whoever
\* restarts from the committed offset sees again every delivered record that is
\* not durable yet.
NothingSkipped ==
  running => \A p \in Partition : \A o \in delivered[p] :
               o < position[p] => o \in settled[p] \cup tracker[p].seen

\* The tracker never reaches back below what the group committed, so no commit
\* can move the group backwards.
TrackerAboveCommitted ==
  \A p \in Partition : Tracked(tracker[p]) => committed[p] <= tracker[p].base

\* The committed offset of a partition never decreases.
CommittedMonotone == [][\A p \in Partition : committed'[p] >= committed[p]]_vars

\* The consumer implements the abstract promise: settle before moving on.
Promise == INSTANCE AtLeastOnce WITH written <- log
ImplementsAtLeastOnce == Promise!Spec

\* Every record that no offset gap precedes is eventually committed.
EventuallyCommitted ==
  \A p \in Partition : \A o \in 0 .. (MaxOffset - 1) :
    (0 .. o \subseteq log[p]) ~> (committed[p] > o)
=============================================================================
