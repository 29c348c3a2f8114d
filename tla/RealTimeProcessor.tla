-------------------------- MODULE RealTimeProcessor --------------------------
(***************************************************************************)
(* The batch processor behind POKER_REALTIME (pipeline/realtime): it polls *)
(* hands into a buffer, scores the whole batch from memory, replaces the   *)
(* rows of its hands in six warehouse tables one statement at a time, and  *)
(* only then commits its position.  The warehouse commits every statement  *)
(* by itself and enforces no key, so a failure between two statements      *)
(* leaves what was done so far.                                            *)
(*                                                                         *)
(* One partition.  What a row holds is a function of its hand, so a table  *)
(* is the number of copies it has of every hand; the alert threshold is    *)
(* the set Alerting.  RollingPairMemory is left out: it feeds only the     *)
(* pattern search, which is off unless asked for.                          *)
(***************************************************************************)
EXTENDS Integers, Sequences, SequencesExt

CONSTANTS
  Hand,           \* hand_ids
  Alerting,       \* the hands of which some player scores above the threshold
  BatchSize,      \* --batch-size
  FromBeginning,  \* --from-beginning: auto_offset_reset=earliest
  MaxLog,         \* bound: records of the topic
  MaxFaults       \* bound: shutdowns, crashes, failed statements or commits, rejoins

ASSUME RealTimeAssumption ==
  /\ Alerting \subseteq Hand
  /\ BatchSize \in Nat \ {0}
  /\ FromBeginning \in BOOLEAN
  /\ MaxLog \in Nat /\ MaxFaults \in Nat

VARIABLES
  log,        \* the topic hands.raw, a sequence of hands
  committed,  \* the group's offset, NoOffset before its first commit
  position,   \* the consumer's next offset
  buffer,     \* the batch being collected, or written
  phase,      \* "poll", "write", "commit", or "down"
  stopping,   \* the shutdown request broke the loop: this flush is the last
  todo,       \* the statements of the batch that are still to be executed
  rows,       \* table -> hand -> copies
  faults

vars == <<log, committed, position, buffer, phase, stopping, todo, rows, faults>>

NoOffset == -1

Written == <<"RAW_HANDS", "RAW_ACTIONS", "RAW_PLAYERS", "FEATURES", "RULE_FLAGS">>
Deleted == <<"ALERTS", "RULE_FLAGS", "FEATURES", "RAW_ACTIONS", "RAW_PLAYERS", "RAW_HANDS">>
Table   == Range(Deleted)

Statement == [op : {"delete", "insert"}, table : Table]

\* Mutants: batches are only appended; the alerts are deleted last.
NoDeletes == << >>
DeletesAlertsLast ==
  [i \in DOMAIN Deleted |-> [op |-> "delete", table |-> Reverse(Deleted)[i]]]

Deletes == [i \in DOMAIN Deleted |-> [op |-> "delete", table |-> Deleted[i]]]

\* Deletes by hand_id first, then the appends; no ALERTS append for an empty frame.
Statements(batch) ==
  Deletes
  \o [i \in DOMAIN Written |-> [op |-> "insert", table |-> Written[i]]]
  \o IF Range(batch) \cap Alerting = {} THEN << >>
     ELSE <<[op |-> "insert", table |-> "ALERTS"]>>

\* compute_features indexes the big blind by hand_id and reindexes it for every
\* player: pandas refuses an index with duplicate labels.
Scorable(batch) == IsInjective(batch)

Init ==
  /\ log = << >> /\ buffer = << >> /\ todo = << >>
  /\ committed = NoOffset /\ position = 0
  /\ phase = "poll" /\ stopping = FALSE
  /\ rows = [t \in Table |-> [h \in Hand |-> 0]]
  /\ faults = 0

-----------------------------------------------------------------------------
(* The topic.  The producer waits for all replicas but is not idempotent, and *)
(* a replay may be started again: a hand can be there twice.                  *)
Produce(h) ==
  /\ Len(log) < MaxLog
  /\ log' = Append(log, h)
  /\ UNCHANGED <<committed, position, buffer, phase, stopping, todo, rows, faults>>

-----------------------------------------------------------------------------
(* The loop. *)

\* Mutant: max_records forgets what the buffer already holds.
RoomIgnoringBuffer == BatchSize

\* max_records
Room == BatchSize - Len(buffer)

Poll(n) ==
  /\ phase = "poll" /\ ~stopping
  /\ n \in 1 .. Room
  /\ position + n <= Len(log)
  /\ buffer' = buffer \o SubSeq(log, position + 1, position + n)
  /\ position' = position + n
  /\ UNCHANGED <<log, committed, phase, stopping, todo, rows, faults>>

\* KeyboardInterrupt in poll.
Shutdown ==
  /\ phase = "poll" /\ ~stopping /\ faults < MaxFaults
  /\ stopping' = TRUE
  /\ faults' = faults + 1
  /\ UNCHANGED <<log, committed, position, buffer, phase, todo, rows>>

\* Mutant: with enable_auto_commit the consumer commits its position as it closes.
DownCommitting ==
  /\ phase' = "down"
  /\ committed' = position
  /\ buffer' = << >> /\ todo' = << >> /\ stopping' = FALSE
  /\ UNCHANGED <<log, position, rows>>

\* The consumer is closed; what the process held is gone.
Down ==
  /\ phase' = "down"
  /\ buffer' = << >> /\ todo' = << >> /\ stopping' = FALSE
  /\ UNCHANGED <<log, committed, position, rows>>

\* Mutant: nobody looks at the flush interval.
FlushFull ==
  /\ phase = "poll" /\ buffer # << >>
  /\ Len(buffer) = BatchSize \/ stopping
  /\ IF Scorable(buffer)
     THEN /\ phase' = "write"
          /\ todo' = Statements(buffer)
          /\ UNCHANGED <<log, committed, position, buffer, stopping, rows>>
     ELSE Down
  /\ UNCHANGED faults

\* The batch is full, its flush interval is over, or the loop was left: the
\* batch is scored, and a batch that cannot be scored ends the process.
Flush ==
  /\ phase = "poll" /\ buffer # << >>
  /\ IF Scorable(buffer)
     THEN /\ phase' = "write"
          /\ todo' = Statements(buffer)
          /\ UNCHANGED <<log, committed, position, buffer, stopping, rows>>
     ELSE Down
  /\ UNCHANGED faults

Apply(s, copies) ==
  [h \in Hand |-> IF h \notin Range(buffer) THEN copies[h]
                  ELSE IF s.op = "delete" THEN 0
                  ELSE IF s.table = "ALERTS" /\ h \notin Alerting THEN copies[h]
                  ELSE copies[h] + 1]

Write ==
  /\ phase = "write"
  /\ rows' = [rows EXCEPT ![Head(todo).table] = Apply(Head(todo), @)]
  /\ todo' = Tail(todo)
  /\ phase' = IF Len(todo) = 1 THEN "commit" ELSE "write"
  /\ UNCHANGED <<log, committed, position, buffer, stopping, faults>>

\* consumer.commit() commits the position; the buffer is cleared.
Commit ==
  /\ phase = "commit"
  /\ committed' = position
  /\ buffer' = << >>
  /\ phase' = "poll"
  /\ UNCHANGED <<log, position, stopping, todo, rows, faults>>

\* The loop was left with nothing to flush: the consumer is closed.
Stop ==
  /\ phase = "poll" /\ stopping /\ buffer = << >>
  /\ Down
  /\ UNCHANGED faults

-----------------------------------------------------------------------------
(* Failures.  A statement or commit that raises may have been applied: that is *)
(* the step followed by Die.                                                   *)

Die ==
  /\ phase # "down" /\ faults < MaxFaults
  /\ Down
  /\ faults' = faults + 1

\* auto_offset_reset is "latest" unless --from-beginning is given.
StartOffset == IF committed # NoOffset THEN committed
               ELSE IF FromBeginning THEN 0 ELSE Len(log)

\* A rebalance puts the position back to the group's offset; the buffer stays.
Rejoin ==
  /\ phase = "poll" /\ buffer # << >> /\ faults < MaxFaults
  /\ position' = StartOffset
  /\ faults' = faults + 1
  /\ UNCHANGED <<log, committed, buffer, phase, stopping, todo, rows>>

Restart ==
  /\ phase = "down"
  /\ phase' = "poll"
  /\ position' = StartOffset
  /\ UNCHANGED <<log, committed, buffer, stopping, todo, rows, faults>>

Next ==
  \/ \E h \in Hand : Produce(h)
  \/ \E n \in 1 .. BatchSize : Poll(n)
  \/ Shutdown \/ Flush \/ Write \/ Commit \/ Stop
  \/ Die \/ Rejoin \/ Restart

\* The loop polls, flushes and commits by itself and the service restarts its
\* container; nothing forces the producer, a shutdown or a failure.
Fairness ==
  /\ WF_vars(\E n \in 1 .. BatchSize : Poll(n))
  /\ WF_vars(Flush) /\ WF_vars(Write) /\ WF_vars(Commit)
  /\ WF_vars(Stop) /\ WF_vars(Restart)

Spec == Init /\ [][Next]_vars /\ Fairness
-----------------------------------------------------------------------------
(* Properties. *)

TypeOK ==
  /\ log \in Seq(Hand) /\ Len(log) <= MaxLog
  /\ committed \in {NoOffset} \cup 0 .. Len(log)
  /\ position \in 0 .. Len(log)
  /\ buffer \in Seq(Hand) /\ Len(buffer) <= BatchSize
  /\ phase \in {"poll", "write", "commit", "down"}
  /\ stopping \in BOOLEAN
  /\ todo \in Seq(Statement) /\ (todo # << >> <=> phase = "write")
  /\ rows \in [Table -> [Hand -> Nat]]
  /\ faults \in 0 .. MaxFaults

Persisted(h) ==
  /\ \A t \in Range(Written) : rows[t][h] = 1
  /\ rows["ALERTS"][h] = (IF h \in Alerting THEN 1 ELSE 0)

\* With --from-beginning (the default starts a group without an offset at the end
\* of the topic, past records that the next commit then passes unwritten), a
\* hand below the committed offset has its row in every table, unless a copy of
\* it at or above that offset is yet to rewrite them (a rewrite that a failure
\* interrupted has deleted rows of a committed hand): whatever statement the
\* process died in, the offsets it committed lose no row for good.
CommittedPersisted ==
  \A o \in 1 .. committed :
    \/ Persisted(log[o])
    \/ \E q \in committed + 1 .. Len(log) : log[q] = log[o]

\* The tables have no keys, yet no replay, after whatever failure, leaves a second
\* row for a hand.
RowsOnce == \A t \in Table, h \in Hand : rows[t][h] <= 1

\* Alerts are deleted first and appended last: at no point between two statements
\* does an alert refer to a hand that the history tables do not hold in full.
AlertsBacked ==
  \A h \in Hand : rows["ALERTS"][h] > 0 => \A t \in Range(Written) : rows[t][h] > 0

\* With --from-beginning, and while no hand is in the topic twice, every record is
\* committed in the end, through shutdowns, rebalances and failures.  Without the
\* flag a group that has not committed yet may start behind a record for good.
EventuallyCommitted ==
  \A o \in 1 .. MaxLog :
    Len(log) >= o ~> (committed >= o \/ ~FromBeginning \/ ~IsInjective(log))

\* What processor.py:139-141 says of any failure: a restart replays the same
\* records and gets past them, the writes being idempotent by hand_id.
ReplayConverges == \A o \in 1 .. MaxLog : Len(log) >= o ~> committed >= o
=============================================================================
