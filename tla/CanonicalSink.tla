----------------------------- MODULE CanonicalSink -----------------------------
(***************************************************************************)
(* WorldWarehouseSink: a consumer buffers the canonical events, loads a    *)
(* full buffer in one warehouse transaction (load_canonical_events) and    *)
(* commits its offsets afterwards.  The transaction replaces the rows of   *)
(* the batch's event IDs and rebuilds the history of the users whose       *)
(* contexts are in it.  Workers of one consumer group, an old and a new    *)
(* one say, take turns on a partition; a worker that lost it still flushes *)
(* what it has buffered.                                                   *)
(*                                                                         *)
(* One partition, and the contexts of one user, who is its key.  The       *)
(* envelope of an event and the rows normalised from it are written and    *)
(* deleted together: one row stands for them.  Only RAW_HANDS is keyed by  *)
(* something else.  PairFeatureWarehouseSink is this module without        *)
(* contexts and hands.                                                     *)
(***************************************************************************)
EXTENDS Naturals, Sequences, FiniteSets, Functions, SequencesExt

CONSTANTS
  Worker, Nobody,
  Event,       \* records [id, hand, version, effective]; hand or version is 0
  Poison,      \* a record that _record refuses
  BatchSize,
  MaxLog,      \* bound on the records of the topic
  MaxFailures  \* bound: failures, crashes and rebalances

ASSUME SinkAssumption ==
  /\ BatchSize \in Nat \ {0} /\ MaxLog \in Nat /\ MaxFailures \in Nat
  /\ Poison \notin Event /\ Nobody \notin Worker

VARIABLES
  log,        \* the topic
  committed,  \* the group's offset
  owner,      \* the worker the partition is assigned to
  worker,     \* worker -> its control state, position, buffer and transaction
  locked,     \* the worker whose transaction has deleted from RAW_EVENT_ENVELOPES
  tables,     \* what is committed in the warehouse
  failures

vars == <<log, committed, owner, worker, locked, tables, failures>>

IsContext(e) == e.version > 0
IsHand(e)    == e.hand > 0
HandIds      == {e.hand : e \in {x \in Event : IsHand(x)}}

\* build_event derives an event ID from the type and the aggregate of the event, which of
\* a context is its user and version; so of one version there is one event ID.
ASSUME EventAssumption ==
  /\ \A e \in Event : {e.id, e.hand, e.version, e.effective} \subseteq Nat
  /\ \A c, e \in Event : IsContext(c) => (e.id = c.id <=> e.version = c.version)

NoTables == [rows  |-> [e \in Event |-> 0],      \* RAW_EVENT_ENVELOPES and the event tables
             hands |-> [h \in HandIds |-> 0],    \* RAW_HANDS, RAW_ACTIONS, RAW_PLAYERS
             history |-> {}]                     \* USER_CONTEXT_HISTORY
Down == [pc |-> "down", position |-> 0, buffer |-> <<>>, tx |-> NoTables]

Init ==
  /\ log = <<>> /\ committed = 0
  /\ owner = Nobody
  /\ worker = [w \in Worker |-> Down]
  /\ locked = Nobody /\ tables = NoTables
  /\ failures = 0

Set(w, st) == worker' = [worker EXCEPT ![w] = st]
Fails      == failures < MaxFailures /\ failures' = failures + 1
Unlocked(w) == IF locked = w THEN Nobody ELSE locked

\* Producers retry: an event can be in the topic more than once.
Produce(r) ==
  /\ Len(log) < MaxLog
  /\ log' = Append(log, r)
  /\ UNCHANGED <<committed, owner, worker, locked, tables, failures>>

-----------------------------------------------------------------------------
(* The consumer. *)

Start(w) ==
  /\ worker[w].pc = "down"
  /\ Set(w, [Down EXCEPT !.pc = "poll"])
  /\ UNCHANGED <<log, committed, owner, locked, tables, failures>>

\* The new owner reads from the committed offset; the old one keeps its buffer.
Assign(w) ==
  /\ worker[w].pc # "down" /\ owner # w
  /\ \/ owner = Nobody /\ UNCHANGED failures
     \/ owner # Nobody /\ Fails
  /\ owner' = w
  /\ Set(w, [worker[w] EXCEPT !.position = committed])
  /\ UNCHANGED <<log, committed, locked, tables>>

Exit(w) ==
  /\ Set(w, Down)
  /\ locked' = Unlocked(w)
  /\ owner' = IF owner = w THEN Nobody ELSE owner

\* One message of the loop of run; a record that is refused ends the process.
Take(w) ==
  LET st == worker[w] IN
  /\ st.pc = "poll" /\ owner = w /\ st.position < Len(log)
  /\ IF log[st.position + 1] = Poison
     THEN Exit(w)
     ELSE /\ Set(w, [st EXCEPT !.position = @ + 1,
                               !.buffer = Append(@, log[st.position + 1])])
          /\ UNCHANGED <<owner, locked>>
  /\ UNCHANGED <<log, committed, tables, failures>>
\* Mutant: a buffer is flushed when it is beyond the size of a batch.
PollBeyond(w) == Len(worker[w].buffer) <= BatchSize /\ Take(w)
Poll(w) == Len(worker[w].buffer) < BatchSize /\ Take(w)

-----------------------------------------------------------------------------
(* load_canonical_events *)

\* Mutant: every record of the buffer is written.
Everything(buffer) == buffer
\* _deduplicate_records: one record per event ID.
Deduplicated(buffer) == SetToSeq(ToSet(buffer))

Collision(buffer) == \E e, f \in ToSet(buffer) : e.id = f.id /\ e # f

DeleteByValues(t, ids) == [t EXCEPT !.rows = [e \in Event |-> IF e.id \in ids THEN 0 ELSE @[e]]]

Occurrences(seq, S) == Cardinality({i \in DOMAIN seq : seq[i] \in S})

\* load_hands deletes by hand ID and inserts a row for every hand of the batch.
LoadHands(t, batch) ==
  [t EXCEPT !.hands = [h \in HandIds |->
     LET new == Occurrences(batch, {e \in Event : e.hand = h})
     IN IF new > 0 THEN new ELSE @[h]]]

WriteRows(t, batch) ==
  [t EXCEPT !.rows = [e \in Event |-> @[e] + Occurrences(batch, {e})]]

Contexts(t) == {e \in Event : IsContext(e) /\ t.rows[e] > 0}

Order(c, d) ==
  \/ c.effective < d.effective
  \/ c.effective = d.effective /\ c.version < d.version
  \/ c.effective = d.effective /\ c.version = d.version /\ c.id < d.id

\* Mutant: intervals follow the versions.
HistoryByVersion(cs) ==
  {[event |-> c, from |-> c.effective,
    to |-> {d.effective : d \in {x \in cs : x.version = c.version + 1}}] : c \in cs}
\* _rebuild_context_history: of each version the last event, in the order of their
\* effective times; an interval ends where the next begins, the last one is current.
History(cs) ==
  LET last == {c \in cs : \A d \in cs : d.version = c.version /\ d # c => Order(d, c)}
      next(c) == {d \in last : Order(c, d) /\ ~ \E x \in last : Order(c, x) /\ Order(x, d)}
  IN {[event |-> c, from |-> c.effective, to |-> {d.effective : d \in next(c)}] : c \in last}

\* A full batch; or what there is when the consumer has waited consumer_timeout_ms for
\* more, or has read max_messages, where run returns and is run again.
Flushes(st) ==
  /\ st.pc = "poll"
  /\ Len(st.buffer) >= BatchSize \/ (st.buffer # <<>> /\ st.position = Len(log))

\* Snowflake lets one transaction at a time delete from a table.
LockEnvelopes(w) == locked = Nobody /\ locked' = w

\* BEGIN and the first DELETE, which every load has, of RAW_EVENT_ENVELOPES.
Begin(w) ==
  LET st == worker[w] IN
  /\ Flushes(st)
  /\ ~ Collision(st.buffer)
  /\ LockEnvelopes(w)
  /\ Set(w, [st EXCEPT !.pc = "write",
                       !.tx = DeleteByValues(tables, {e.id : e \in ToSet(st.buffer)})])
  /\ UNCHANGED <<log, committed, owner, tables, failures>>

\* Two contents for one event ID in a batch end the process before BEGIN.
Refuse(w) ==
  /\ Flushes(worker[w])
  /\ Collision(worker[w].buffer)
  /\ Exit(w)
  /\ UNCHANGED <<log, committed, tables, failures>>

Write(w) ==
  LET st == worker[w]
      batch == Deduplicated(st.buffer)
  IN /\ st.pc = "write"
     /\ Set(w, [st EXCEPT !.pc = "rebuild", !.tx = LoadHands(WriteRows(@, batch), batch)])
     /\ UNCHANGED <<log, committed, owner, locked, tables, failures>>

\* Only if the batch has a context of the user.
Rebuild(w) ==
  LET st == worker[w] IN
  /\ st.pc = "rebuild"
  /\ Set(w, [st EXCEPT !.pc = "commit",
       !.tx.history = IF \E e \in ToSet(st.buffer) : IsContext(e)
                      THEN History(Contexts(st.tx)) ELSE @])
  /\ UNCHANGED <<log, committed, owner, locked, tables, failures>>

CommitTransaction(w) ==
  /\ worker[w].pc = "commit"
  /\ tables' = worker[w].tx
  /\ locked' = Unlocked(w)
  /\ Set(w, [worker[w] EXCEPT !.pc = "offset", !.tx = NoTables])
  /\ UNCHANGED <<log, committed, owner, failures>>

\* The COMMIT is applied and its answer lost: ROLLBACK finds no transaction.
CommitUnanswered(w) ==
  /\ worker[w].pc = "commit" /\ Fails
  /\ tables' = worker[w].tx
  /\ Exit(w)
  /\ UNCHANGED <<log, committed>>

\* A statement fails and is rolled back, or the process dies.
Die(w) ==
  /\ worker[w].pc # "down" /\ Fails
  /\ Exit(w)
  /\ UNCHANGED <<log, committed, tables>>

-----------------------------------------------------------------------------
(* _flush, after the load. *)

\* Mutant: what was read is committed before it is loaded.
CommitOffsetsEarly(w) ==
  /\ worker[w].pc \in {"write", "offset"} /\ owner = w
  /\ committed' = worker[w].position
  /\ Set(w, [worker[w] EXCEPT !.pc = IF @ = "offset" THEN "poll" ELSE @,
                              !.buffer = IF worker[w].pc = "offset" THEN <<>> ELSE @])
  /\ UNCHANGED <<log, owner, locked, tables, failures>>
CommitOffsets(w) ==
  /\ worker[w].pc = "offset" /\ owner = w
  /\ committed' = worker[w].position
  /\ Set(w, [worker[w] EXCEPT !.pc = "poll", !.buffer = <<>>])
  /\ UNCHANGED <<log, owner, locked, tables, failures>>

\* A worker that lost the partition commits nothing of it, or is told that it is no
\* member any more (CommitFailedError) and ends.
CommitNothing(w) ==
  /\ worker[w].pc = "offset" /\ owner # w
  /\ \/ Set(w, [worker[w] EXCEPT !.pc = "poll", !.buffer = <<>>]) /\ UNCHANGED <<owner, locked>>
     \/ Exit(w)
  /\ UNCHANGED <<log, committed, tables, failures>>

Next ==
  \/ \E r \in Event \cup {Poison} : Produce(r)
  \/ \E w \in Worker :
       \/ Start(w) \/ Assign(w) \/ Poll(w)
       \/ Begin(w) \/ Refuse(w) \/ Write(w) \/ Rebuild(w) \/ CommitTransaction(w)
       \/ CommitUnanswered(w) \/ Die(w)
       \/ CommitOffsets(w) \/ CommitNothing(w)

Spec == Init /\ [][Next]_vars

-----------------------------------------------------------------------------

Tables == [rows : [Event -> Nat], hands : [HandIds -> Nat],
           history : SUBSET [event : Event, from : Nat, to : SUBSET Nat]]
State  == [pc : {"down", "poll", "write", "rebuild", "commit", "offset"},
           position : Nat, buffer : Seq(Event), tx : Tables]

\* Every variable keeps its type, the committed tables and every transaction among them; no
\* buffer outgrows a batch (run flushes at batch_size), and who is between the first DELETE
\* and COMMIT holds the lock.
TypeOK ==
  /\ log \in Seq(Event \cup {Poison}) /\ committed \in 0..Len(log)
  /\ owner \in Worker \cup {Nobody} /\ locked \in Worker \cup {Nobody}
  /\ worker \in [Worker -> State] /\ tables \in Tables
  /\ \A w \in Worker :
       /\ worker[w].position <= Len(log)
       /\ Len(worker[w].buffer) <= BatchSize
       /\ worker[w].pc \in {"write", "rebuild", "commit"} <=> locked = w
  /\ failures \in 0..MaxFailures

\* No offset is committed before its event is in the warehouse, whoever owned the
\* partition and wherever a process died (_flush: "Offset commits deliberately follow the
\* warehouse transaction").  An event ID that came again with another content counts as
\* the event.
CommittedLoaded ==
  \A o \in 1..committed :
    \E e \in Event : e.id = log[o].id /\ tables.rows[e] > 0

\* However often an event is produced, replayed, or loaded by two workers at once, its ID
\* has one row, with one content (load_canonical_events: "Atomically replace replayed event
\* IDs").  It says nothing of RAW_HANDS, where two events of one hand in a batch leave two
\* rows.
OneRowPerEvent ==
  /\ \A e \in Event : tables.rows[e] <= 1
  /\ \A e, f \in Event : e.id = f.id /\ tables.rows[e] > 0 /\ tables.rows[f] > 0 => e = f

\* The latest context of the warehouse's events at time t, as the temporal join would
\* select it.
AsOf(t) ==
  LET candidates == {c \in Contexts(tables) : c.effective <= t}
  IN {c \in candidates : \A d \in candidates \ {c} : Order(d, c)}

\* In every committed state, whatever the order of the batches, the history answers at
\* every time with the context the temporal join would select, and one interval at most
\* covers it (_rebuild_context_history, context/temporal_join.py).
HistoryAnswersAsOf ==
  \A t \in {e.effective : e \in {x \in Event : IsContext(x)}} :
    {i.event : i \in {j \in tables.history : j.from <= t /\ \A u \in j.to : t < u}} = AsOf(t)
=============================================================================
