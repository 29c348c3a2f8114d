------------------------------ MODULE EventSink ------------------------------
(***************************************************************************)
(* The warehouse sink: the Go consumer (services/go/internal/sink run by   *)
(* kafkaio/sink.go) persists every record of the event topics through an   *)
(* HTTP request to the writer (streaming/snowflake-event-writer/server.py) *)
(* and commits its offset when the writer answers inserted or duplicate.   *)
(*                                                                         *)
(* The writer serves each request in a thread of its own; one lock guards  *)
(* its only warehouse session.  A request outlives the consumer that sent  *)
(* it: a timed-out or dead consumer does not stop the thread.  The rows of *)
(* an open transaction are implied by the thread's place in _transaction.  *)
(***************************************************************************)
EXTENDS OffsetTracker, Sequences, FiniteSets

CONSTANTS
  Partition,  \* topic partitions of the sink's routes
  EventId,    \* event_id of the envelope
  Content,    \* the compact JSON of an event (its event_sha256)
  Refused,    \* contents that validateEvent accepts and validate_request does not
  Invalid,    \* a record that validateEvent refuses, or an upstream dead letter
  Thread,     \* bound: requests the writer serves at a time
  MaxLog,     \* bound: records per partition
  MaxBuild,   \* bound: the last build version deployed
  MaxFaults   \* bound: failures of processes, requests and the warehouse

ASSUME SinkAssumption ==
  /\ Refused \subseteq Content
  /\ MaxLog \in Nat
  /\ MaxBuild \in Nat
  /\ MaxFaults \in Nat

VARIABLES
  log,        \* [Partition -> Seq(records)]
  committed,  \* [Partition -> Nat \cup {NoOffset}]
  running,    \* is the consumer alive?
  position,   \* [Partition -> Nat]
  tracker,    \* [Partition -> tracker state]
  stage,      \* of Handle: "poll", "waiting" or "commit"
  current,    \* [ref, thread]: the record in Handle and the thread it waits for
  build,      \* the sink build version of the deployed consumer
  threads,    \* [Thread -> [pc, req, attempt]]: the writer's request threads
  lock,       \* the thread that holds EventStore._lock, or NoThread
  envelopes,  \* [EventId \X Content -> Nat]: committed ledger rows
  typed,      \* [EventId \X Content -> Nat]: committed typed rows
  letters,    \* [Build \X Ref -> Nat]: committed dead-letter rows
  faults      \* failures so far

consumer == <<running, position, tracker, stage, current>>
writer == <<threads, lock>>
tables == <<envelopes, typed, letters>>
vars == <<log, committed, consumer, build, writer, tables, faults>>

NoOffset == -1
NoThread == 0
NoRef == <<>>

ASSUME ThreadAssumption == NoThread \notin Thread

Build == 0 .. MaxBuild

\* Refs are bounded so that the dead-letter table is a function on a finite set.
Ref == Partition \X (0 .. (MaxLog - 1))

Event == [id : EventId, content : Content]

Offsets(p) == 0 .. (Len(log[p]) - 1)

RecordAt(r) == log[r[1]][r[2] + 1]

\* The writer request for a record: the event, or the dead letter of its ref
\* whose ID the build version is part of.
Request(r) == [ref |-> r, build |-> build]

Idle == [pc |-> "idle", req |-> NoRef, attempt |-> 0]

TypeOK ==
  /\ log \in [Partition -> Seq(Event \cup {Invalid})]
  /\ \A p \in Partition : Len(log[p]) <= MaxLog
  /\ committed \in [Partition -> Nat \cup {NoOffset}]
  /\ running \in BOOLEAN
  /\ position \in [Partition -> Nat]
  /\ \A p \in Partition : position[p] <= Len(log[p])
  /\ tracker \in [Partition -> TrackerState]
  /\ stage \in {"poll", "waiting", "commit"}
  /\ current \in [ref : Ref \cup {NoRef}, thread : Thread \cup {NoThread}]
  /\ build \in Build
  /\ threads \in [Thread -> [pc : {"idle", "acquire", "check", "insert", "typed", "commit"},
                             req : [ref : Ref, build : Build] \cup {NoRef}, attempt : 0 .. 2]]
  /\ lock \in Thread \cup {NoThread}
  /\ envelopes \in [EventId \X Content -> Nat]
  /\ typed \in [EventId \X Content -> Nat]
  /\ letters \in [Build \X Ref -> Nat]
  /\ faults \in 0 .. MaxFaults

Init ==
  /\ log       = [p \in Partition |-> <<>>]
  /\ committed = [p \in Partition |-> NoOffset]
  /\ running   = TRUE
  /\ position  = [p \in Partition |-> 0]
  /\ tracker   = [p \in Partition |-> NoState]
  /\ stage     = "poll"
  /\ current   = [ref |-> NoRef, thread |-> NoThread]
  /\ build     = 0
  /\ threads   = [t \in Thread |-> Idle]
  /\ lock      = NoThread
  /\ envelopes = [k \in EventId \X Content |-> 0]
  /\ typed     = [k \in EventId \X Content |-> 0]
  /\ letters   = [k \in Build \X Ref |-> 0]
  /\ faults    = 0

Fault == faults < MaxFaults /\ faults' = faults + 1

-----------------------------------------------------------------------------
(* Upstream *)

Produce(p, r) ==
  /\ Len(log[p]) < MaxLog
  /\ log' = [log EXCEPT ![p] = Append(@, r)]
  /\ UNCHANGED <<committed, consumer, build, writer, tables, faults>>

-----------------------------------------------------------------------------
(* The consumer *)

\* Handle observes the next record, validates it and posts the request for its
\* event or its dead letter to the writer, which starts a thread for it.
Send(p, t) ==
  LET r == <<p, position[p]>> IN
  /\ running
  /\ stage = "poll"
  /\ position[p] < Len(log[p])
  /\ threads[t].pc = "idle"
  /\ position' = [position EXCEPT ![p] = @ + 1]
  /\ tracker' = [tracker EXCEPT ![p] = Observe(@, position[p])]
  /\ stage' = "waiting"
  /\ current' = [ref |-> r, thread |-> t]
  /\ threads' = [threads EXCEPT ![t] = [pc |-> "acquire", req |-> Request(r), attempt |-> 1]]
  /\ UNCHANGED <<log, committed, running, build, lock, tables, faults>>

\* Whatever error Handle returns ends the loop and the process.
Exit ==
  /\ running' = FALSE
  /\ position' = [p \in Partition |-> 0]
  /\ tracker' = [p \in Partition |-> NoState]
  /\ stage' = "poll"
  /\ current' = [ref |-> NoRef, thread |-> NoThread]

\* Mutant: a record that the writer refuses is skipped.
AnsweredSkipping(status) ==
  /\ tracker' = [tracker EXCEPT ![current.ref[1]] = MarkProcessed(@, {current.ref[2]})]
  /\ stage' = "commit"
  /\ UNCHANGED <<running, position, current>>

\* The consumer gets the answer of the writer: it marks the record on inserted
\* and duplicate; whatever else it gets is fatal.
Answered(status) ==
  \/ /\ status \in {"inserted", "duplicate"}
     /\ tracker' = [tracker EXCEPT ![current.ref[1]] = MarkProcessed(@, {current.ref[2]})]
     /\ stage' = "commit"
     /\ UNCHANGED <<running, position, current>>
  \/ /\ status \in {"refused", "collision", "error"}
     /\ Exit

ReadyPartitions == {p \in Partition : Ready(tracker[p])}

CommitTo(S) ==
  committed' = [p \in Partition |-> IF p \in S THEN Watermark(tracker[p]) ELSE committed[p]]

\* markAndCommit: Ready, Commit, Acknowledge.
Commit ==
  /\ running
  /\ stage = "commit"
  /\ CommitTo(ReadyPartitions)
  /\ tracker' = [p \in Partition |->
                   IF p \in ReadyPartitions THEN Acknowledge(tracker[p]) ELSE tracker[p]]
  /\ stage' = "poll"
  /\ current' = [ref |-> NoRef, thread |-> NoThread]
  /\ UNCHANGED <<log, running, position, build, writer, tables, faults>>

\* The commit request fails; the broker may have applied it.
CommitFails ==
  /\ running
  /\ stage = "commit"
  /\ \E S \in {{}, ReadyPartitions} : CommitTo(S)
  /\ Fault
  /\ Exit
  /\ UNCHANGED <<log, build, writer, tables>>

\* The request times out (--request-timeout), or the consumer crashes: the
\* writer's thread goes on.
Abandon ==
  /\ running
  /\ Fault
  /\ Exit
  /\ UNCHANGED <<log, committed, build, writer, tables>>

\* A new consumer starts at the group's offsets, perhaps of a newer build; its
\* deployment sets --from-beginning, for a group without offsets.
Restart ==
  /\ ~ running
  /\ running' = TRUE
  /\ position' = [p \in Partition |-> IF committed[p] = NoOffset THEN 0 ELSE committed[p]]
  /\ build' \in {build, build + 1} \cap Build
  /\ UNCHANGED <<log, committed, tracker, stage, current, writer, tables, faults>>

-----------------------------------------------------------------------------
(* The writer *)

\* Mutants: persist does not take the lock, or does not give it back.
AcquireUnlocked(t) ==
  /\ threads[t].pc = "acquire"
  /\ threads' = [threads EXCEPT ![t].pc = "check"]
  /\ UNCHANGED <<log, committed, consumer, build, lock, tables, faults>>

\* validate_request: what it refuses reaches neither the lock nor the warehouse.
Accepted(req) == RecordAt(req.ref) # Invalid => RecordAt(req.ref).content \notin Refused

Acquire(t) ==
  /\ threads[t].pc = "acquire"
  /\ Accepted(threads[t].req)
  /\ lock = NoThread
  /\ lock' = t
  /\ threads' = [threads EXCEPT ![t].pc = "check"]
  /\ UNCHANGED <<log, committed, consumer, build, tables, faults>>

RespondKeepingLock(t, status) ==
  /\ threads' = [threads EXCEPT ![t] = Idle]
  /\ lock' = lock
  /\ IF stage = "waiting" /\ current.thread = t THEN Answered(status) ELSE UNCHANGED consumer

\* The thread leaves the lock and answers; nobody may be waiting any more.
Respond(t, status) ==
  /\ threads' = [threads EXCEPT ![t] = Idle]
  /\ lock' = IF lock = t THEN NoThread ELSE lock
  /\ IF stage = "waiting" /\ current.thread = t THEN Answered(status) ELSE UNCHANGED consumer

\* The writer's answer to what validate_request refuses: 400, at every replay.
Refuse(t) ==
  /\ threads[t].pc = "acquire"
  /\ ~ Accepted(threads[t].req)
  /\ Respond(t, "refused")
  /\ UNCHANGED <<log, committed, build, tables, faults>>

\* The request's mode, which Handle chose.
IsEvent(req) == RecordAt(req.ref) # Invalid

Key(req) == <<RecordAt(req.ref).id, RecordAt(req.ref).content>>

Existing(i) == {c \in Content : envelopes[<<i, c>>] > 0}

\* Mutant: dead letters are inserted unchecked.
StatusUnchecked(req) ==
  IF IsEvent(req) /\ Existing(Key(req)[1]) # {}
  THEN IF Key(req)[2] \in Existing(Key(req)[1]) THEN "duplicate" ELSE "collision"
  ELSE "absent"

\* What the pre-check of _persist_locked finds under the request's identity.
\* The hash of a dead letter is that of the record, so it never differs.
Status(req) ==
  IF IsEvent(req)
  THEN IF Existing(Key(req)[1]) = {} THEN "absent"
       ELSE IF Key(req)[2] \in Existing(Key(req)[1]) THEN "duplicate" ELSE "collision"
  ELSE IF letters[<<req.build, req.ref>>] > 0 THEN "duplicate" ELSE "absent"

Check(t) ==
  /\ threads[t].pc = "check"
  /\ LET status == Status(threads[t].req) IN
     \/ /\ status = "absent"
        /\ threads' = [threads EXCEPT ![t].pc = "insert"]
        /\ UNCHANGED <<consumer, lock>>
     \/ /\ status # "absent"
        /\ Respond(t, status)
  /\ UNCHANGED <<log, committed, build, tables, faults>>

\* Mutant: no transaction, each statement commits itself.
InsertAutocommit(t) ==
  /\ threads[t].pc = "insert"
  /\ threads' = [threads EXCEPT ![t].pc = "typed"]
  /\ IF IsEvent(threads[t].req)
     THEN envelopes' = [envelopes EXCEPT ![Key(threads[t].req)] = @ + 1]
     ELSE envelopes' = envelopes
  /\ UNCHANGED <<log, committed, consumer, build, lock, typed, letters, faults>>

\* BEGIN and the first INSERT: the ledger row, or the whole dead letter.
Insert(t) ==
  /\ threads[t].pc = "insert"
  /\ threads' = [threads EXCEPT ![t].pc = IF IsEvent(threads[t].req) THEN "typed" ELSE "commit"]
  /\ UNCHANGED <<log, committed, consumer, build, lock, tables, faults>>

\* The second INSERT, into the table of the event's kind.
InsertTyped(t) ==
  /\ threads[t].pc = "typed"
  /\ threads' = [threads EXCEPT ![t].pc = "commit"]
  /\ UNCHANGED <<log, committed, consumer, build, lock, tables, faults>>

\* The warehouse makes the transaction of request req durable.
Apply(req) ==
  IF IsEvent(req)
  THEN /\ envelopes' = [envelopes EXCEPT ![Key(req)] = @ + 1]
       /\ typed' = [typed EXCEPT ![Key(req)] = @ + 1]
       /\ UNCHANGED letters
  ELSE /\ letters' = [letters EXCEPT ![<<req.build, req.ref>>] = @ + 1]
       /\ UNCHANGED <<envelopes, typed>>

CommitTransaction(t) ==
  /\ threads[t].pc = "commit"
  /\ Apply(threads[t].req)
  /\ Respond(t, "inserted")
  /\ UNCHANGED <<log, committed, build, faults>>

\* Mutant: persist tries again without end.
StatementFailsRetrying(t) ==
  /\ threads[t].pc \in {"check", "insert", "typed", "commit"}
  /\ Fault
  /\ threads' = [threads EXCEPT ![t].pc = "check", ![t].attempt = @ + 1]
  /\ UNCHANGED <<log, committed, consumer, build, lock, tables>>

\* A statement raises: the session is closed, the transaction rolled back unless
\* it was the COMMIT and the warehouse had applied it.  persist tries once more.
StatementFails(t) ==
  /\ threads[t].pc \in {"check", "insert", "typed", "commit"}
  /\ Fault
  /\ \/ UNCHANGED tables
     \/ threads[t].pc = "commit" /\ Apply(threads[t].req)
  /\ \/ /\ threads[t].attempt = 1
        /\ threads' = [threads EXCEPT ![t].pc = "check", ![t].attempt = 2]
        /\ UNCHANGED <<consumer, lock>>
     \/ /\ threads[t].attempt = 2
        /\ Respond(t, "error")
  /\ UNCHANGED <<log, committed, build>>

\* The writer's container restarts: its threads are gone, the consumer's request
\* breaks off; a COMMIT on its way may or may not be applied.
WriterCrash ==
  /\ \E t \in Thread : threads[t].pc # "idle"
  /\ Fault
  /\ \/ UNCHANGED tables
     \/ \E t \in Thread : threads[t].pc = "commit" /\ Apply(threads[t].req)
  /\ threads' = [t \in Thread |-> Idle]
  /\ lock' = NoThread
  /\ IF stage = "waiting" THEN Answered("error") ELSE UNCHANGED consumer
  /\ UNCHANGED <<log, committed, build>>

-----------------------------------------------------------------------------

ConsumerNext ==
  \/ \E p \in Partition, t \in Thread : Send(p, t)
  \/ Commit
  \/ CommitFails
  \/ Abandon
  \/ Restart

WriterNext ==
  \/ \E t \in Thread :
       Acquire(t) \/ Refuse(t) \/ Check(t) \/ Insert(t) \/ InsertTyped(t) \/ CommitTransaction(t)
         \/ StatementFails(t)
  \/ WriterCrash

Next ==
  \/ \E p \in Partition : \E r \in Event \cup {Invalid} : Produce(p, r)
  \/ ConsumerNext
  \/ WriterNext

SafetySpec == Init /\ [][Next]_vars

(***************************************************************************)
(* The consumer polls and commits, is restarted when it exits, and the     *)
(* writer's threads finish what they began.                                *)
(***************************************************************************)
Fairness ==
  /\ \A p \in Partition : WF_vars(\E t \in Thread : Send(p, t))
  /\ WF_vars(Commit)
  /\ WF_vars(Restart)
  /\ \A t \in Thread :
       /\ WF_vars(Acquire(t))
       /\ WF_vars(Refuse(t))
       /\ WF_vars(Check(t))
       /\ WF_vars(Insert(t))
       /\ WF_vars(InsertTyped(t))
       /\ WF_vars(CommitTransaction(t))

LiveSpec == SafetySpec /\ Fairness

-----------------------------------------------------------------------------
(* Properties *)

\* What is durable of the record at r: its event in both tables, or a dead
\* letter of some build.
Durable(r) ==
  IF RecordAt(r) = Invalid
  THEN \E b \in Build : letters[<<b, r>>] > 0
  ELSE LET k == <<RecordAt(r).id, RecordAt(r).content>> IN envelopes[k] > 0 /\ typed[k] > 0

\* A record whose offset is committed is in the warehouse with its own content:
\* one that collides with another content of its ID, or that the writer refuses,
\* is never passed over.
CommittedDurable ==
  \A p \in Partition : \A o \in Offsets(p) : o < committed[p] => Durable(<<p, o>>)

\* A build writes at most one dead letter of a record, however often the record
\* is delivered and the transaction retried.
OneDeadLetterPerBuild == \A k \in Build \X Ref : letters[k] <= 1

\* The sink implements the abstract ledger.
Ledger == INSTANCE EffectivelyOnce
ImplementsLedger == Ledger!Spec

\* The sink implements the abstract promise.
Promise == INSTANCE AtLeastOnce WITH
  written <- [p \in Partition |-> Offsets(p)],
  settled <- [p \in Partition |-> {o \in Offsets(p) : Durable(<<p, o>>)}]
ImplementsAtLeastOnce == Promise!Spec

\* Two records carry one event ID and different contents.
Disagreement ==
  \E r, q \in Ref :
    /\ r[2] \in Offsets(r[1]) /\ q[2] \in Offsets(q[1])
    /\ RecordAt(r) # Invalid /\ RecordAt(q) # Invalid
    /\ RecordAt(r).id = RecordAt(q).id /\ RecordAt(r) # RecordAt(q)

\* A record passed the consumer's validation and fails the writer's.
Refusal ==
  \E r \in Ref : r[2] \in Offsets(r[1]) /\ RecordAt(r) # Invalid /\ RecordAt(r).content \in Refused

\* Every record is eventually stored and committed, unless contents disagree or
\* the writer refuses one: both end the process at every replay.
EventuallyCommitted ==
  \A p \in Partition : \A o \in 0 .. (MaxLog - 1) :
    (o < Len(log[p])) ~> (committed[p] > o \/ Disagreement \/ Refusal)
=============================================================================
