---------------------------- MODULE EventSinkProofs ----------------------------
(***************************************************************************)
(* Theorems of EventSink, for any partitions, event IDs, contents, request *)
(* threads, builds and number of failures: the lock makes check and insert *)
(* one step, and the sequential consumer passes nothing that is not stored.*)
(***************************************************************************)
EXTENDS EventSink, OffsetTrackerProofs

-----------------------------------------------------------------------------
(* The inductive invariant of the writer. *)

Working == {"check", "insert", "typed", "commit"}
Writing == {"insert", "typed", "commit"}

\* A record that the log holds.
Delivered(r) == r \in Ref /\ r[2] < Len(log[r[1]])

\* Every request is about a record, and an event's transaction has two statements.
RequestsOK ==
  \A t \in Thread :
    threads[t].pc # "idle" =>
      /\ threads[t].req \in [ref : Ref, build : Build]
      /\ Delivered(threads[t].req.ref)
      /\ threads[t].pc = "typed" => IsEvent(threads[t].req)

\* Who is past acquire holds the lock.
LockHeld == \A t \in Thread : threads[t].pc \in Working => lock = t

\* What the check found absent stays absent until its COMMIT.
StillAbsent == \A t \in Thread : threads[t].pc \in Writing => Status(threads[t].req) = "absent"

WriterInv ==
  /\ TypeOK /\ RequestsOK /\ LockHeld /\ StillAbsent
  /\ envelopes = typed
  /\ OneDeadLetterPerBuild

-----------------------------------------------------------------------------
(* The inductive invariant of the consumer. *)

From(c) == IF c = NoOffset THEN 0 ELSE c

\* The record in Handle is the first one that is not committed.
InHandle(p) == stage # "poll" /\ p = current.ref[1]

Entry(o) == [base |-> o, seen |-> {o}, done |-> IF stage = "commit" THEN {o} ELSE {}]

TrackedExactly ==
  /\ stage # "poll" => running /\ Delivered(current.ref)
  /\ \A p \in Partition :
       /\ committed[p] <= Len(log[p])
       /\ tracker[p] = IF InHandle(p) THEN Entry(current.ref[2]) ELSE NoState
       /\ InHandle(p) => current.ref[2] = From(committed[p])
       /\ running => position[p] = From(committed[p]) + (IF InHandle(p) THEN 1 ELSE 0)

\* The thread that is to answer works on the record in Handle.
AnswerComes ==
  stage = "waiting" =>
    /\ current.thread \in Thread
    /\ threads[current.thread].pc # "idle" /\ threads[current.thread].req.ref = current.ref

AnsweredStored == stage = "commit" => Durable(current.ref)

ConsumerInv == TrackedExactly /\ AnswerComes /\ AnsweredStored

IInv == WriterInv /\ ConsumerInv /\ CommittedDurable

-----------------------------------------------------------------------------
(* TypeOK in parts that a step changes together. *)

LogTypes ==
  /\ log \in [Partition -> Seq(Event \cup {Invalid})]
  /\ \A p \in Partition : Len(log[p]) <= MaxLog

ConsumerTypes ==
  /\ committed \in [Partition -> Nat \cup {NoOffset}]
  /\ running \in BOOLEAN
  /\ position \in [Partition -> Nat]
  /\ \A p \in Partition : position[p] <= Len(log[p])
  /\ tracker \in [Partition -> TrackerState]
  /\ stage \in {"poll", "waiting", "commit"}
  /\ current \in [ref : Ref \cup {NoRef}, thread : Thread \cup {NoThread}]

ThreadState == [pc : {"idle", "acquire", "check", "insert", "typed", "commit"},
                req : [ref : Ref, build : Build] \cup {NoRef}, attempt : 0 .. 2]

WriterTypes == threads \in [Thread -> ThreadState] /\ lock \in Thread \cup {NoThread}

TableTypes ==
  /\ envelopes \in [EventId \X Content -> Nat]
  /\ typed \in [EventId \X Content -> Nat]
  /\ letters \in [Build \X Ref -> Nat]

CountTypes == build \in Build /\ faults \in 0 .. MaxFaults

\* TypeOK is the conjunction of the parts.
LEMMA TypeParts ==
  TypeOK <=> LogTypes /\ ConsumerTypes /\ WriterTypes /\ TableTypes /\ CountTypes
BY DEF TypeOK, LogTypes, ConsumerTypes, WriterTypes, ThreadState, TableTypes, CountTypes

\* The log only grows, and nobody but the producers writes it.
LEMMA LogStep ==
  ASSUME LogTypes, [Next]_vars
  PROVE  /\ LogTypes'
         /\ \A p \in Partition : Len(log'[p]) \in Nat /\ Len(log[p]) <= Len(log'[p])
         /\ \A r : Delivered(r) => Delivered(r)' /\ RecordAt(r)' = RecordAt(r)
<1>1. CASE log' = log
  BY <1>1 DEF LogTypes, Delivered, Ref, RecordAt
<1>2. ASSUME NEW p \in Partition, NEW r \in Event \cup {Invalid}, Produce(p, r)
      PROVE  /\ LogTypes'
             /\ \A q \in Partition : Len(log'[q]) \in Nat /\ Len(log[q]) <= Len(log'[q])
             /\ \A x : Delivered(x) => Delivered(x)' /\ RecordAt(x)' = RecordAt(x)
  <2>1. log[p] \in Seq(Event \cup {Invalid}) /\ Len(log[p]) \in Nat /\ MaxLog \in Nat
    BY SinkAssumption DEF SinkAssumption, LogTypes
  <2>2. /\ log'[p] = Append(log[p], r) /\ Len(log[p]) < MaxLog
        /\ \A q \in Partition \ {p} : log'[q] = log[q]
        /\ log' \in [Partition -> Seq(Event \cup {Invalid})]
    BY <1>2, <2>1 DEF Produce, LogTypes
  <2>3. /\ Len(log'[p]) = Len(log[p]) + 1
        /\ \A i \in 1 .. Len(log[p]) : log'[p][i] = log[p][i]
    BY <2>1, <2>2
  <2>4. \A q \in Partition : Len(log[q]) \in Nat
    BY DEF LogTypes
  <2>5. LogTypes'
    <3>1. ASSUME NEW q \in Partition PROVE Len(log'[q]) <= MaxLog
      <4>1. CASE q = p
        BY <2>1, <2>2, <2>3, <4>1
      <4>2. CASE q # p
        BY <2>2, <4>2 DEF LogTypes
      <4> QED
        BY <4>1, <4>2
    <3> QED
      BY <2>2, <3>1 DEF LogTypes
  <2>6. ASSUME NEW x, Delivered(x) PROVE Delivered(x)' /\ RecordAt(x)' = RecordAt(x)
    <3>1. x[1] \in Partition /\ x[2] \in Nat /\ x[2] + 1 \in 1 .. Len(log[x[1]])
      BY <2>1, <2>4, <2>6 DEF Delivered, Ref
    <3>2. CASE x[1] = p
      <4>1. log'[x[1]][x[2] + 1] = log[x[1]][x[2] + 1] /\ Len(log'[x[1]]) = Len(log[x[1]]) + 1
        BY <2>3, <3>1, <3>2
      <4> QED
        BY <2>4, <2>6, <3>1, <4>1 DEF Delivered, RecordAt
    <3>3. CASE x[1] # p
      <4>1. log'[x[1]] = log[x[1]]
        BY <2>2, <3>1, <3>3
      <4> QED
        BY <2>6, <4>1 DEF Delivered, RecordAt
    <3> QED
      BY <3>2, <3>3
  <2> QED
    BY <2>1, <2>2, <2>3, <2>4, <2>5, <2>6
<1>3. log' = log \/ \E p \in Partition, r \in Event \cup {Invalid} : Produce(p, r)
  BY DEF Next, vars, ConsumerNext, WriterNext, Send, Commit, CommitFails, Abandon, Restart,
         Acquire, Refuse, Check, Insert, InsertTyped, CommitTransaction, StatementFails, WriterCrash
<1> QED
  BY <1>1, <1>2, <1>3

-----------------------------------------------------------------------------
(* The transaction. *)

\* What a request leaves in the tables.
Stored(req) ==
  IF IsEvent(req) THEN envelopes[Key(req)] > 0 /\ typed[Key(req)] > 0
  ELSE letters[<<req.build, req.ref>>] > 0

\* Tables only grow.
TablesGrow ==
  /\ \A k \in EventId \X Content : envelopes[k] <= envelopes'[k] /\ typed[k] <= typed'[k]
  /\ \A k \in Build \X Ref : letters[k] <= letters'[k]

\* The COMMIT of a request that was found absent adds its first and only rows.
LEMMA ApplyStep ==
  ASSUME TypeOK, envelopes = typed, OneDeadLetterPerBuild,
         NEW req \in [ref : Ref, build : Build], Delivered(req.ref), Status(req) = "absent",
         Apply(req)
  PROVE  /\ TableTypes' /\ envelopes' = typed' /\ OneDeadLetterPerBuild'
         /\ TablesGrow /\ [Ledger!Next]_(Ledger!vars)
         /\ log' = log => Stored(req)'
<1>1. TableTypes
  BY TypeParts
<1>2. CASE IsEvent(req)
  <2> DEFINE i == Key(req)[1]
             c == Key(req)[2]
  <2>1. Key(req) = <<i, c>> /\ i \in EventId /\ c \in Content
    <3>1. RecordAt(req.ref) \in Event
      <4>1. req.ref[1] \in Partition /\ req.ref[2] \in Nat
        BY DEF Delivered, Ref
      <4>2. /\ log[req.ref[1]] \in Seq(Event \cup {Invalid})
            /\ req.ref[2] + 1 \in 1 .. Len(log[req.ref[1]])
        BY <4>1 DEF TypeOK, Delivered
      <4> QED
        BY <1>2, <4>2 DEF RecordAt, IsEvent
    <3> QED
      BY <3>1 DEF Key, Event
  <2>2. \A d \in Content : envelopes[<<i, d>>] = 0
    <3>1. Existing(i) = {}
      BY <1>2 DEF Status
    <3> QED
      BY <1>1, <2>1, <3>1 DEF Existing, TableTypes
  <2>3. /\ envelopes' = [envelopes EXCEPT ![<<i, c>>] = 1]
        /\ typed' = [typed EXCEPT ![<<i, c>>] = 1]
        /\ letters' = letters
    <3> HIDE DEF i, c
    <3>1. envelopes[<<i, c>>] = 0 /\ typed[<<i, c>>] = 0
      BY <2>1, <2>2
    <3> QED
      BY <1>2, <2>1, <3>1 DEF Apply
  <2>4. Ledger!Store(i, c)
    BY <2>2, <2>3 DEF Ledger!Store
  <2> HIDE DEF i, c
  <2>5. TableTypes' /\ TablesGrow /\ envelopes'[<<i, c>>] = 1 /\ typed'[<<i, c>>] = 1
    BY <1>1, <2>1, <2>2, <2>3 DEF TableTypes, TablesGrow
  <2>6. log' = log => Stored(req)'
    <3>1. log' = log => Key(req)' = <<i, c>> /\ IsEvent(req)'
      BY <1>2, <2>1 DEF Key, IsEvent, RecordAt
    <3> QED
      BY <2>5, <3>1 DEF Stored
  <2>7. OneDeadLetterPerBuild'
    BY <2>3 DEF OneDeadLetterPerBuild
  <2> QED
    BY <2>1, <2>3, <2>4, <2>5, <2>6, <2>7 DEF Ledger!Next
<1>3. CASE ~ IsEvent(req)
  <2> DEFINE k == <<req.build, req.ref>>
  <2>1. k \in Build \X Ref /\ letters[k] = 0
    BY <1>1, <1>3 DEF Status, TableTypes
  <2>2. letters' = [letters EXCEPT ![k] = 1] /\ UNCHANGED <<envelopes, typed>>
    BY <1>3, <2>1 DEF Apply
  <2> HIDE DEF k
  <2>3. TableTypes' /\ TablesGrow /\ OneDeadLetterPerBuild' /\ letters'[k] = 1
    BY <1>1, <2>1, <2>2 DEF TableTypes, TablesGrow, OneDeadLetterPerBuild
  <2>4. log' = log => Stored(req)'
    BY <1>3, <2>3 DEF Stored, IsEvent, RecordAt, k
  <2> QED
    BY <2>2, <2>3, <2>4 DEF Ledger!vars
<1> QED
  BY <1>2, <1>3

-----------------------------------------------------------------------------
(* The writer's steps. *)

\* What a check finds of a record depends on the tables only.
LEMMA StatusKept ==
  ASSUME LogTypes, [Next]_vars, UNCHANGED tables,
         NEW req \in [ref : Ref, build : Build], Delivered(req.ref)
  PROVE  Status(req)' = Status(req)
<1>1. RecordAt(req.ref)' = RecordAt(req.ref)
  BY LogStep
<1> QED
  BY <1>1 DEF Status, IsEvent, Key, Existing, tables

ThreadsOK == WriterTypes /\ RequestsOK /\ LockHeld /\ StillAbsent

\* One thread goes on to state st, and the others neither move nor lose the lock.
LEMMA ThreadMoves ==
  ASSUME WriterInv, [Next]_vars, NEW t \in Thread, NEW st \in ThreadState,
         threads' = [threads EXCEPT ![t] = st], lock' \in Thread \cup {NoThread},
         st.pc # "idle" => /\ st.req \in [ref : Ref, build : Build] /\ Delivered(st.req.ref)
                           /\ st.pc = "typed" => IsEvent(st.req),
         st.pc \in Working => lock' = t,
         \A u \in Thread \ {t} : threads[u].pc \in Working => lock' = u,
         \/ UNCHANGED tables /\ (st.pc \in Writing => Status(st.req) = "absent")
         \/ st.pc \notin Writing /\ lock = t
  PROVE  ThreadsOK'
<1>1. LogTypes /\ WriterTypes
  BY TypeParts DEF WriterInv
<1>2. WriterTypes'
  BY <1>1 DEF WriterTypes
<1>3. \A u \in Thread \ {t} : threads'[u] = threads[u]
  BY <1>1 DEF WriterTypes
<1>4. threads'[t] = st
  BY <1>1 DEF WriterTypes
<1>5. ASSUME NEW u \in Thread, threads'[u].pc # "idle"
      PROVE  /\ threads'[u].req \in [ref : Ref, build : Build]
             /\ Delivered(threads'[u].req.ref)
             /\ threads'[u].pc = "typed" => IsEvent(threads'[u].req)
  <2>1. CASE u = t
    BY <1>4, <1>5, <2>1
  <2>2. CASE u # t
    BY <1>3, <1>5, <2>2 DEF WriterInv, RequestsOK
  <2> QED
    BY <2>1, <2>2
<1>6. RequestsOK'
  BY <1>1, <1>5, LogStep DEF RequestsOK, IsEvent
<1>7. LockHeld'
  BY <1>3, <1>4 DEF LockHeld
<1>8. ASSUME NEW u \in Thread, threads'[u].pc \in Writing, NEW req, req = threads'[u].req
      PROVE  Status(req)' = "absent"
  <2>1. req \in [ref : Ref, build : Build] /\ Delivered(req.ref)
    BY <1>5, <1>8 DEF Writing
  <2>2. UNCHANGED tables /\ (u # t => Status(req) = "absent")
    <3>1. CASE u = t
      BY <1>4, <1>8, <3>1
    <3>2. CASE u # t
      <4>1. threads[u].pc \in Working /\ Status(req) = "absent"
        BY <1>3, <1>8, <3>2 DEF WriterInv, StillAbsent, Working, Writing
      <4>2. lock = u
        BY <4>1 DEF WriterInv, LockHeld
      <4> QED
        BY <1>3, <3>2, <4>1, <4>2
    <3> QED
      BY <3>1, <3>2
  <2>3. Status(req) = "absent"
    BY <1>4, <1>8, <2>2
  <2> QED
    BY <1>1, <2>1, <2>2, <2>3, StatusKept
<1>9. StillAbsent'
  BY <1>8 DEF StillAbsent
<1> QED
  BY <1>2, <1>6, <1>7, <1>9 DEF ThreadsOK

\* The threads do not move.
LEMMA ThreadsRest ==
  ASSUME WriterInv, [Next]_vars, UNCHANGED <<writer, tables>>
  PROVE  ThreadsOK'
<1>1. LogTypes /\ WriterTypes
  BY TypeParts DEF WriterInv
<1>2. WriterTypes' /\ LockHeld'
  BY <1>1 DEF WriterInv, writer, WriterTypes, LockHeld
<1>3. RequestsOK'
  BY <1>1, LogStep DEF WriterInv, writer, RequestsOK, IsEvent
<1>4. StillAbsent'
  <2>1. SUFFICES ASSUME NEW u \in Thread, threads[u].pc \in Writing
                 PROVE  Status(threads[u].req)' = "absent"
    BY DEF writer, StillAbsent
  <2>2. /\ threads[u].req \in [ref : Ref, build : Build] /\ Delivered(threads[u].req.ref)
        /\ Status(threads[u].req) = "absent"
    BY <2>1 DEF WriterInv, RequestsOK, StillAbsent, Writing
  <2>3. threads' = threads
    BY DEF writer
  <2> QED
    BY <1>1, <2>2, <2>3, StatusKept
<1> QED
  BY <1>2, <1>3, <1>4 DEF ThreadsOK

\* What a step does to the tables.
TablesOK ==
  /\ TableTypes' /\ envelopes' = typed' /\ OneDeadLetterPerBuild'
  /\ TablesGrow /\ [Ledger!Next]_(Ledger!vars)

\* A step that leaves the tables alone.
LEMMA TablesRest == ASSUME WriterInv, UNCHANGED tables PROVE TablesOK
BY TypeParts
   DEF WriterInv, tables, TablesOK, TableTypes, OneDeadLetterPerBuild, TablesGrow, Ledger!vars

\* The consumer's request starts a thread.
LEMMA SendStep ==
  ASSUME WriterInv, [Next]_vars, NEW p \in Partition, NEW t \in Thread, Send(p, t)
  PROVE  ThreadsOK' /\ TablesOK
<1> DEFINE r == <<p, position[p]>>
           st == [pc |-> "acquire", req |-> Request(r), attempt |-> 1]
<1>1. r \in Ref /\ Delivered(r)
  <2>1. position[p] \in Nat /\ position[p] < Len(log[p]) /\ Len(log[p]) <= MaxLog
        /\ Len(log[p]) \in Nat /\ MaxLog \in Nat
    BY SinkAssumption DEF SinkAssumption, Send, WriterInv, TypeOK
  <2> QED
    BY <2>1 DEF Delivered, Ref
<1>2. st.req \in [ref : Ref, build : Build] /\ st.req.ref = r /\ st.pc = "acquire"
  BY <1>1 DEF Request, WriterInv, TypeOK
<1>3. st \in ThreadState
  BY <1>2 DEF ThreadState
<1>4. /\ threads' = [threads EXCEPT ![t] = st] /\ lock' = lock /\ UNCHANGED tables
      /\ threads[t].pc = "idle"
  BY DEF Send
<1> HIDE DEF st, r
<1>5. lock \in Thread \cup {NoThread} /\ \A u \in Thread : threads[u].pc \in Working => lock = u
  BY DEF WriterInv, TypeOK, LockHeld
<1>6. ThreadsOK'
  BY <1>1, <1>2, <1>3, <1>4, <1>5, ThreadMoves DEF Working, Writing
<1> QED
  BY <1>4, <1>6, TablesRest

\* A thread answers, whatever it did to the tables before.
LEMMA RespondStep ==
  ASSUME WriterInv, [Next]_vars, NEW t \in Thread, NEW status, Respond(t, status),
         UNCHANGED tables \/ lock = t
  PROVE  ThreadsOK'
<1>1. Idle \in ThreadState /\ Idle.pc = "idle"
  BY DEF Idle, ThreadState
<1>2. /\ threads' = [threads EXCEPT ![t] = Idle]
      /\ lock' = IF lock = t THEN NoThread ELSE lock
  BY DEF Respond
<1>3. lock \in Thread \cup {NoThread} /\ \A u \in Thread : threads[u].pc \in Working => lock = u
  BY DEF WriterInv, TypeOK, LockHeld
<1> QED
  BY <1>1, <1>2, <1>3, ThreadMoves DEF Working, Writing

\* A thread goes to another of its program points.
LEMMA MoveStep ==
  ASSUME WriterInv, [Next]_vars, NEW t \in Thread, threads[t].pc # "idle",
         NEW pc \in Working, NEW attempt \in 0 .. 2,
         threads' = [threads EXCEPT ![t].pc = pc, ![t].attempt = attempt],
         lock' = t, lock \in {t, NoThread}, pc = "typed" => IsEvent(threads[t].req),
         \/ UNCHANGED tables /\ (pc \in Writing => Status(threads[t].req) = "absent")
         \/ pc \notin Writing /\ lock = t
  PROVE  ThreadsOK'
<1> DEFINE st == [threads[t] EXCEPT !.pc = pc, !.attempt = attempt]
<1>1. threads \in [Thread -> ThreadState]
  BY TypeParts DEF WriterInv, WriterTypes
<1>2. st \in ThreadState /\ st.pc = pc /\ st.req = threads[t].req
  BY <1>1 DEF ThreadState, Working
<1>3. threads' = [threads EXCEPT ![t] = st]
  BY <1>1
<1>4. threads[t].req \in [ref : Ref, build : Build] /\ Delivered(threads[t].req.ref)
  BY DEF WriterInv, RequestsOK
<1>5. \A u \in Thread \ {t} : threads[u].pc \notin Working
  BY ThreadAssumption DEF WriterInv, LockHeld, ThreadAssumption
<1>6. /\ lock' \in Thread \cup {NoThread} /\ lock' = t
      /\ pc = "typed" => IsEvent(threads[t].req)
      /\ \/ UNCHANGED tables /\ (pc \in Writing => Status(threads[t].req) = "absent")
         \/ pc \notin Writing /\ lock = t
  OBVIOUS
<1> HIDE DEF st
<1> QED
  BY ONLY TypeParts, WriterInv, [Next]_vars, t \in Thread,
     <1>2, <1>3, <1>4, <1>5, <1>6, ThreadMoves

\* What is known of a thread that holds the lock.
LEMMA Holder ==
  ASSUME WriterInv, NEW t \in Thread, threads[t].pc \in Working
  PROVE  /\ lock = t
         /\ threads[t].req \in [ref : Ref, build : Build] /\ Delivered(threads[t].req.ref)
         /\ threads[t].pc \in Writing => Status(threads[t].req) = "absent"
         /\ threads[t].attempt \in 0 .. 2
         /\ threads = [threads EXCEPT ![t].attempt = threads[t].attempt]
<1>1. threads \in [Thread -> ThreadState]
  BY TypeParts DEF WriterInv, WriterTypes
<1>2. threads[t].attempt \in 0 .. 2
  BY <1>1 DEF ThreadState
<1>3. threads = [threads EXCEPT ![t].attempt = threads[t].attempt]
  BY <1>1 DEF ThreadState
<1> QED
  BY <1>2, <1>3 DEF WriterInv, LockHeld, RequestsOK, StillAbsent, Working

\* Steps that move a thread and leave its attempt.
LEMMA PcStep ==
  ASSUME WriterInv, [Next]_vars, NEW t \in Thread, threads[t].pc # "idle",
         NEW pc \in Working, threads' = [threads EXCEPT ![t].pc = pc],
         lock' = t, lock \in {t, NoThread}, pc = "typed" => IsEvent(threads[t].req),
         UNCHANGED tables, pc \in Writing => Status(threads[t].req) = "absent"
  PROVE  ThreadsOK' /\ TablesOK
<1> DEFINE attempt == threads[t].attempt
<1>1. threads \in [Thread -> ThreadState]
  BY TypeParts DEF WriterInv, WriterTypes
<1>2. attempt \in 0 .. 2
  BY <1>1 DEF ThreadState
<1>3. threads' = [threads EXCEPT ![t].pc = pc, ![t].attempt = attempt]
  BY <1>1 DEF ThreadState
<1>4. /\ pc = "typed" => IsEvent(threads[t].req)
      /\ \/ UNCHANGED tables /\ (pc \in Writing => Status(threads[t].req) = "absent")
         \/ pc \notin Writing /\ lock = t
  OBVIOUS
<1> HIDE DEF attempt
<1>5. ThreadsOK'
  BY <1>2, <1>3, <1>4, MoveStep
<1> QED
  BY <1>5, TablesRest

\* Every step keeps the invariant of the threads and changes the tables as the ledger may.
LEMMA WriterStep == ASSUME WriterInv, [Next]_vars PROVE ThreadsOK' /\ TablesOK
<1>1. ASSUME NEW t \in Thread, Acquire(t) PROVE ThreadsOK' /\ TablesOK
  BY <1>1, PcStep DEF Acquire, Working, Writing
<1>8. ASSUME NEW t \in Thread, Refuse(t) PROVE ThreadsOK' /\ TablesOK
  BY <1>8, RespondStep, TablesRest DEF Refuse
<1>2. ASSUME NEW t \in Thread, Check(t) PROVE ThreadsOK' /\ TablesOK
  <2>1. lock = t /\ UNCHANGED tables
    BY <1>2, Holder DEF Check, Working
  <2>2. CASE Status(threads[t].req) = "absent"
    <3>1. threads' = [threads EXCEPT ![t].pc = "insert"] /\ lock' = lock
          /\ threads[t].pc = "check"
      BY <1>2, <2>2 DEF Check
    <3> QED
      BY <2>1, <2>2, <3>1, PcStep DEF Working, Writing
  <2>3. CASE Status(threads[t].req) # "absent"
    BY <1>2, <2>1, <2>3, RespondStep, TablesRest DEF Check
  <2> QED
    BY <2>2, <2>3
<1>3. ASSUME NEW t \in Thread, Insert(t) \/ InsertTyped(t) PROVE ThreadsOK' /\ TablesOK
  <2>1. threads[t].pc \in Writing /\ threads[t].pc \in Working /\ lock' = lock /\ UNCHANGED tables
    BY <1>3 DEF Insert, InsertTyped, Writing, Working
  <2>2. lock = t /\ Status(threads[t].req) = "absent" /\ threads[t].pc # "idle"
    BY <2>1, Holder DEF Working
  <2>3. \E pc \in Working : /\ threads' = [threads EXCEPT ![t].pc = pc]
                            /\ pc = "typed" => IsEvent(threads[t].req)
    BY <1>3 DEF Insert, InsertTyped, Working
  <2> QED
    BY <2>1, <2>2, <2>3, PcStep
<1>4. ASSUME NEW t \in Thread, CommitTransaction(t) PROVE ThreadsOK' /\ TablesOK
  <2>1. threads[t].pc \in Working /\ threads[t].pc \in Writing
    BY <1>4 DEF CommitTransaction, Working, Writing
  <2>2. /\ lock = t /\ Status(threads[t].req) = "absent" /\ Delivered(threads[t].req.ref)
        /\ threads[t].req \in [ref : Ref, build : Build]
    BY <2>1, Holder
  <2>3. TablesOK
    BY <1>4, <2>2, ApplyStep DEF CommitTransaction, TablesOK, WriterInv
  <2> QED
    BY <1>4, <2>2, <2>3, RespondStep DEF CommitTransaction
<1>5. ASSUME NEW t \in Thread, StatementFails(t) PROVE ThreadsOK' /\ TablesOK
  <2>1. /\ threads[t].pc \in Working
        /\ UNCHANGED tables \/ (threads[t].pc = "commit" /\ Apply(threads[t].req))
    BY <1>5 DEF StatementFails, Working
  <2>2. /\ lock = t /\ Delivered(threads[t].req.ref)
        /\ threads[t].req \in [ref : Ref, build : Build]
        /\ threads[t].pc = "commit" => Status(threads[t].req) = "absent"
    BY <2>1, Holder DEF Writing
  <2>3. TablesOK
    BY <2>1, <2>2, ApplyStep, TablesRest DEF TablesOK, WriterInv
  <2>4. CASE threads[t].attempt = 1
    <3>1. threads' = [threads EXCEPT ![t].pc = "check", ![t].attempt = 2] /\ lock' = lock
      BY <1>5, <2>4 DEF StatementFails
    <3>2. /\ threads[t].pc # "idle" /\ "check" \in Working /\ "check" \notin Writing
          /\ 2 \in 0 .. 2 /\ lock' = t
      BY <2>1, <2>2, <3>1 DEF Working, Writing
    <3>3. ThreadsOK'
      BY <2>2, <3>1, <3>2, MoveStep
    <3> QED
      BY <2>3, <3>3
  <2>5. CASE threads[t].attempt # 1
    BY <1>5, <2>2, <2>3, <2>5, RespondStep DEF StatementFails
  <2> QED
    BY <2>4, <2>5
<1>6. CASE WriterCrash
  <2>1. TablesOK
    <3>1. CASE UNCHANGED tables
      BY <3>1, TablesRest
    <3>2. ASSUME NEW t \in Thread, threads[t].pc = "commit", Apply(threads[t].req)
          PROVE  TablesOK
      <4>1. Status(threads[t].req) = "absent" /\ Delivered(threads[t].req.ref)
            /\ threads[t].req \in [ref : Ref, build : Build]
        BY <3>2, Holder DEF Working, Writing
      <4> QED
        BY <3>2, <4>1, ApplyStep DEF TablesOK, WriterInv
    <3> QED
      BY <1>6, <3>1, <3>2 DEF WriterCrash
  <2>2. ThreadsOK'
    BY <1>6 DEF WriterCrash, ThreadsOK, WriterTypes, ThreadState, RequestsOK, LockHeld,
                StillAbsent, Idle, Working, Writing
  <2> QED
    BY <2>1, <2>2
<1>7. CASE UNCHANGED <<writer, tables>>
  BY <1>7, ThreadsRest, TablesRest
<1> QED
  BY <1>1, <1>2, <1>3, <1>4, <1>5, <1>6, <1>7, <1>8, SendStep
     DEF Next, vars, ConsumerNext, WriterNext, Produce, Commit, CommitFails, Abandon, Restart

-----------------------------------------------------------------------------
(* What is stored stays stored. *)

\* A record that the log holds has a type, a partition and an offset.
LEMMA DeliveredRecord ==
  ASSUME LogTypes, NEW r, Delivered(r)
  PROVE  /\ RecordAt(r) \in Event \cup {Invalid} /\ r = <<r[1], r[2]>>
         /\ r[1] \in Partition /\ r[2] \in Offsets(r[1]) /\ r[2] \in Nat /\ r \in Ref
<1>1. r[1] \in Partition /\ r[2] \in Nat /\ r[2] < Len(log[r[1]]) /\ r = <<r[1], r[2]>>
  BY DEF Delivered, Ref
<1>2. log[r[1]] \in Seq(Event \cup {Invalid}) /\ Len(log[r[1]]) \in Nat
  BY <1>1 DEF LogTypes
<1>3. RecordAt(r) \in Event \cup {Invalid}
  BY <1>1, <1>2 DEF RecordAt
<1> QED
  BY <1>1, <1>2, <1>3 DEF Offsets, Delivered

\* An offset of the log is that of a delivered record.
LEMMA CommittedDelivered ==
  ASSUME LogTypes, NEW p \in Partition, NEW o \in Offsets(p)
  PROVE  Delivered(<<p, o>>)
<1>1. Len(log[p]) \in Nat /\ Len(log[p]) <= MaxLog /\ MaxLog \in Nat
  BY SinkAssumption DEF SinkAssumption, LogTypes
<1> QED
  BY <1>1 DEF Offsets, Delivered, Ref

\* No step makes a durable record undurable.
LEMMA DurableKept ==
  ASSUME WriterInv, [Next]_vars, NEW r, Delivered(r), Durable(r)
  PROVE  Durable(r)'
<1>1. RecordAt(r)' = RecordAt(r) /\ RecordAt(r) \in Event \cup {Invalid} /\ r \in Ref
  BY LogStep, DeliveredRecord, TypeParts DEF WriterInv
<1>2. TablesGrow /\ TableTypes /\ TableTypes'
  BY WriterStep, TypeParts DEF TablesOK, WriterInv
<1>3. CASE RecordAt(r) = Invalid
  <2>1. PICK b \in Build : letters[<<b, r>>] > 0
    BY <1>3 DEF Durable
  <2>2. <<b, r>> \in Build \X Ref
    BY <1>1
  <2>3. letters[<<b, r>>] \in Nat /\ letters'[<<b, r>>] \in Nat
        /\ letters[<<b, r>>] <= letters'[<<b, r>>]
    BY <1>2, <2>2 DEF TablesGrow, TableTypes
  <2>4. letters'[<<b, r>>] > 0
    BY <2>1, <2>3
  <2> QED
    BY <1>1, <1>3, <2>4 DEF Durable
<1>4. CASE RecordAt(r) # Invalid
  <2> DEFINE k == <<RecordAt(r).id, RecordAt(r).content>>
  <2>1. k \in EventId \X Content /\ envelopes[k] > 0 /\ typed[k] > 0
    BY <1>1, <1>4 DEF Durable, Event
  <2>2. /\ envelopes[k] \in Nat /\ envelopes'[k] \in Nat /\ envelopes[k] <= envelopes'[k]
        /\ typed[k] \in Nat /\ typed'[k] \in Nat /\ typed[k] <= typed'[k]
    BY <1>2, <2>1 DEF TablesGrow, TableTypes
  <2>3. envelopes'[k] > 0 /\ typed'[k] > 0
    BY <2>1, <2>2
  <2> QED
    BY <1>1, <1>4, <2>3 DEF Durable
<1> QED
  BY <1>3, <1>4

\* The answers inserted and duplicate are true.
LEMMA StoredDurable ==
  ASSUME NEW req \in [ref : Ref, build : Build], Stored(req)
  PROVE  Durable(req.ref)
BY DEF Stored, Durable, IsEvent, Key

\* What the check calls a duplicate has rows in all its tables.
LEMMA DuplicateStored ==
  ASSUME TypeOK, envelopes = typed, NEW req \in [ref : Ref, build : Build],
         Status(req) = "duplicate"
  PROVE  Stored(req)
BY DEF Status, Existing, Stored, Key

-----------------------------------------------------------------------------
(* The consumer's steps. *)

ConsumerOK == ConsumerTypes /\ ConsumerInv

\* Types and lengths that every step about the consumer needs.
LEMMA LogFacts ==
  ASSUME WriterInv, [Next]_vars
  PROVE  /\ LogTypes /\ LogTypes' /\ ConsumerTypes /\ WriterTypes
         /\ \A p \in Partition : Len(log[p]) \in Nat /\ Len(log'[p]) \in Nat
                                 /\ Len(log[p]) <= Len(log'[p])
         /\ NoState \in TrackerState
<1>1. LogTypes /\ ConsumerTypes /\ WriterTypes
  BY TypeParts DEF WriterInv
<1>2. \A p \in Partition : Len(log[p]) \in Nat
  BY <1>1 DEF LogTypes
<1>3. NoState \in TrackerState
  BY DEF NoState, TrackerState
<1> QED
  BY <1>1, <1>2, <1>3, LogStep

\* The process ends: what it held is gone.
LEMMA ExitStep ==
  ASSUME WriterInv, [Next]_vars, Exit, committed' \in [Partition -> Nat \cup {NoOffset}],
         \A p \in Partition : committed'[p] <= Len(log'[p])
  PROVE  ConsumerOK'
<1>1. /\ \A p \in Partition : Len(log'[p]) \in Nat
      /\ NoState \in TrackerState
  BY LogFacts
<1>2. /\ running' = FALSE /\ stage' = "poll"
      /\ position' = [p \in Partition |-> 0] /\ tracker' = [p \in Partition |-> NoState]
      /\ current' = [ref |-> NoRef, thread |-> NoThread]
  BY DEF Exit
<1>3. ConsumerTypes'
  <2>1. position' \in [Partition -> Nat] /\ \A p \in Partition : position'[p] <= Len(log'[p])
    BY <1>1, <1>2
  <2>2. tracker' \in [Partition -> TrackerState]
    BY <1>1, <1>2
  <2>3. current' \in [ref : Ref \cup {NoRef}, thread : Thread \cup {NoThread}]
    BY <1>2
  <2> QED
    BY <1>2, <2>1, <2>2, <2>3 DEF ConsumerTypes, TrackerState
<1>4. TrackedExactly'
  BY <1>2 DEF TrackedExactly, InHandle
<1> QED
  BY <1>2, <1>3, <1>4 DEF ConsumerOK, ConsumerInv, AnswerComes, AnsweredStored

\* Nothing of the consumer changes; the thread it waits for does not answer.
LEMMA ConsumerRests ==
  ASSUME IInv, [Next]_vars, UNCHANGED <<consumer, committed>>,
         stage = "waiting" =>
           /\ threads'[current.thread].pc # "idle"
           /\ threads'[current.thread].req = threads[current.thread].req
  PROVE  ConsumerOK'
<1>1. /\ LogTypes /\ ConsumerTypes
      /\ \A p \in Partition : Len(log[p]) \in Nat /\ Len(log'[p]) \in Nat
                              /\ Len(log[p]) <= Len(log'[p])
  BY LogFacts DEF IInv
<1>2. /\ UNCHANGED <<running, position, tracker, stage, current, committed>>
      /\ TrackedExactly /\ AnswerComes /\ AnsweredStored
  BY DEF consumer, IInv, ConsumerInv
<1>3. ConsumerTypes'
  BY <1>1, <1>2 DEF ConsumerTypes
<1>4. TrackedExactly'
  <2>1. stage' # "poll" => running' /\ Delivered(current.ref)'
    BY <1>1, <1>2, LogStep DEF TrackedExactly
  <2>2. ASSUME NEW p \in Partition PROVE committed'[p] <= Len(log'[p])
    <3>1. committed[p] \in Int
      BY <1>1 DEF ConsumerTypes, NoOffset
    <3>2. committed[p] <= Len(log[p])
      BY <1>2 DEF TrackedExactly
    <3> QED
      BY <1>1, <1>2, <3>1, <3>2
  <2> QED
    BY <1>2, <2>1, <2>2 DEF TrackedExactly, InHandle, Entry
<1>5. AnswerComes'
  BY <1>2 DEF AnswerComes
<1>6. AnsweredStored'
  BY <1>2, DurableKept DEF AnsweredStored, TrackedExactly, IInv
<1> QED
  BY <1>3, <1>4, <1>5, <1>6 DEF ConsumerOK, ConsumerInv

\* The consumer gets a true answer.
LEMMA AnsweredStep ==
  ASSUME IInv, [Next]_vars, stage = "waiting", UNCHANGED <<committed, log>>,
         NEW status \in {"inserted", "duplicate", "refused", "collision", "error"}, Answered(status),
         status \in {"inserted", "duplicate"} => Durable(current.ref)'
  PROVE  ConsumerOK'
<1>1. /\ LogTypes /\ ConsumerTypes /\ NoState \in TrackerState
      /\ \A p \in Partition : Len(log[p]) \in Nat
  BY LogFacts DEF IInv
<1>2. TrackedExactly
  BY DEF IInv, ConsumerInv
<1>3. CASE Exit
  <2>1. committed' \in [Partition -> Nat \cup {NoOffset}]
        /\ \A p \in Partition : committed'[p] <= Len(log'[p])
    BY <1>1, <1>2 DEF ConsumerTypes, TrackedExactly
  <2> QED
    BY <1>3, <2>1, ExitStep DEF IInv
<1>4. CASE /\ status \in {"inserted", "duplicate"} /\ stage' = "commit"
           /\ UNCHANGED <<running, position, current>>
           /\ tracker' = [tracker EXCEPT
                ![current.ref[1]] = MarkProcessed(@, {current.ref[2]})]
  <2> DEFINE p == current.ref[1]
             o == current.ref[2]
             st == [base |-> o, seen |-> {o}, done |-> {o}]
  <2>1. p \in Partition /\ o \in Nat /\ Delivered(current.ref)
    BY <1>1, <1>2, DeliveredRecord DEF TrackedExactly
  <2>2. tracker[p] = [base |-> o, seen |-> {o}, done |-> {}]
    BY <1>2, <2>1 DEF TrackedExactly, InHandle, Entry
  <2>3. MarkProcessed(tracker[p], {o}) = st
    BY <2>2 DEF MarkProcessed
  <2>4. tracker \in [Partition -> TrackerState] /\ st \in TrackerState
    BY <1>1, <2>1 DEF ConsumerTypes, TrackerState
  <2>5. tracker' = [tracker EXCEPT ![p] = st]
    BY <1>4, <2>3
  <2>6. \A q \in Partition : tracker'[q] = IF q = p THEN st ELSE NoState
    <3> HIDE DEF st
    <3> QED
      BY <1>2, <2>1, <2>4, <2>5 DEF TrackedExactly, InHandle
  <2>7. ConsumerTypes'
    <3>1. tracker' \in [Partition -> TrackerState]
      <4> HIDE DEF st, p
      <4> QED
        BY <2>1, <2>4, <2>5
    <3> QED
      BY <1>1, <1>4, <3>1 DEF ConsumerTypes, TrackerState
  <2>8. TrackedExactly'
    <3>1. Delivered(current.ref)' /\ running'
      BY <1>2, <1>4, <2>1 DEF Delivered, TrackedExactly
    <3>2. \A q \in Partition :
            tracker'[q] = IF InHandle(q)' THEN Entry(current.ref[2])' ELSE NoState
      BY <1>4, <2>6 DEF InHandle, Entry
    <3>3. \A q \in Partition : InHandle(q)' <=> InHandle(q)
      BY <1>4 DEF InHandle
    <3> QED
      BY <1>2, <1>4, <3>1, <3>2, <3>3 DEF TrackedExactly
  <2>9. AnswerComes' /\ AnsweredStored'
    BY <1>4 DEF AnswerComes, AnsweredStored, Durable, RecordAt
  <2> QED
    BY <2>7, <2>8, <2>9 DEF ConsumerOK, ConsumerInv
<1> QED
  BY <1>3, <1>4 DEF Answered

\* The record that Handle takes up is the first one that is not committed.
LEMMA SendConsumer ==
  ASSUME IInv, [Next]_vars, NEW p \in Partition, NEW t \in Thread, Send(p, t)
  PROVE  ConsumerOK'
<1> DEFINE o == position[p]
           r == <<p, o>>
           st == [base |-> o, seen |-> {o}, done |-> {}]
<1>1. /\ LogTypes /\ ConsumerTypes /\ WriterTypes /\ TrackedExactly
      /\ \A q \in Partition : Len(log[q]) \in Nat
  BY LogFacts DEF IInv, ConsumerInv
<1>2. /\ o \in Nat /\ o < Len(log[p]) /\ UNCHANGED <<log, committed, running>>
      /\ running /\ stage = "poll" /\ stage' = "waiting"
      /\ position' = [position EXCEPT ![p] = o + 1]
      /\ current' = [ref |-> r, thread |-> t]
      /\ threads' = [threads EXCEPT ![t] = [pc |-> "acquire", req |-> Request(r), attempt |-> 1]]
  BY <1>1 DEF Send, ConsumerTypes
<1>3. Delivered(r)
  BY <1>1, <1>2, CommittedDelivered DEF Offsets
<1>4. r \in Ref
  BY <1>3 DEF Delivered
<1>5. tracker' = [tracker EXCEPT ![p] = st]
  <2>1. tracker[p] = NoState
    BY <1>1, <1>2 DEF TrackedExactly, InHandle
  <2>2. Observe(tracker[p], o) = st
    BY <2>1 DEF Observe, Tracked, NoState
  <2> QED
    BY <2>2 DEF Send
<1>6. st \in TrackerState /\ tracker \in [Partition -> TrackerState]
  BY <1>1, <1>2 DEF TrackerState, ConsumerTypes
<1>7. ConsumerTypes'
  <2>1. position' \in [Partition -> Nat] /\ \A q \in Partition : position'[q] <= Len(log'[q])
    BY <1>1, <1>2 DEF ConsumerTypes
  <2>2. tracker' \in [Partition -> TrackerState]
    <3> HIDE DEF st
    <3> QED
      BY <1>5, <1>6
  <2>3. current' \in [ref : Ref \cup {NoRef}, thread : Thread \cup {NoThread}]
    <3> HIDE DEF r
    <3> QED
      BY <1>2, <1>4
  <2> QED
    BY <1>1, <1>2, <2>1, <2>2, <2>3 DEF ConsumerTypes, TrackerState
<1>8. TrackedExactly'
  <2>1. \A q \in Partition : InHandle(q)' <=> q = p
    BY <1>2 DEF InHandle
  <2>2. \A q \in Partition : tracker'[q] = IF q = p THEN st ELSE NoState
    <3> HIDE DEF st
    <3> QED
      BY <1>1, <1>2, <1>5, <1>6 DEF TrackedExactly, InHandle
  <2>3. current'.ref[2] = o /\ current'.ref = r
    BY <1>2
  <2>4. o = From(committed[p])
    BY <1>1, <1>2 DEF TrackedExactly, InHandle, From, NoOffset, ConsumerTypes
  <2>5. \A q \in Partition :
          position'[q] = From(committed[q]) + (IF q = p THEN 1 ELSE 0)
    <3>1. \A q \in Partition : position[q] = From(committed[q]) /\ position[q] \in Nat
      BY <1>1, <1>2 DEF TrackedExactly, InHandle, ConsumerTypes, From, NoOffset
    <3>2. \A q \in Partition : position'[q] = IF q = p THEN position[q] + 1 ELSE position[q]
      BY <1>1, <1>2 DEF ConsumerTypes
    <3> HIDE DEF o
    <3> QED
      BY <3>1, <3>2
  <2>6. Delivered(current.ref)'
    BY <1>2, <1>3, <2>3 DEF Delivered
  <2>7. \A q \in Partition : committed'[q] <= Len(log'[q])
    BY <1>1, <1>2 DEF TrackedExactly
  <2>8. \A q \in Partition : tracker'[q] = IF InHandle(q)' THEN Entry(current.ref[2])' ELSE NoState
    <3>1. Entry(current.ref[2])' = st
      BY <1>2, <2>3 DEF Entry
    <3> HIDE DEF st
    <3> QED
      BY <2>1, <2>2, <3>1
  <2>9. \A q \in Partition : InHandle(q)' => current'.ref[2] = From(committed[q])'
    BY <1>2, <2>1, <2>3, <2>4 DEF From
  <2> QED
    BY <1>2, <2>1, <2>5, <2>6, <2>7, <2>8, <2>9 DEF TrackedExactly, From
<1>9. AnswerComes'
  <2>1. threads'[t].pc = "acquire" /\ threads'[t].req.ref = r
    BY <1>1, <1>2 DEF WriterTypes, Request
  <2> QED
    BY <1>2, <2>1 DEF AnswerComes
<1> QED
  BY <1>2, <1>7, <1>8, <1>9 DEF ConsumerOK, ConsumerInv, AnsweredStored

\* What the commit request asks for: the record in Handle is done, nothing else is.
LEMMA CommitAsks ==
  ASSUME IInv, stage = "commit"
  PROVE  /\ Delivered(current.ref) /\ Durable(current.ref)
         /\ current.ref[1] \in Partition /\ current.ref[2] \in Nat
         /\ current.ref[2] < Len(log[current.ref[1]])
         /\ ReadyPartitions = {current.ref[1]}
         /\ Watermark(tracker[current.ref[1]]) = current.ref[2] + 1
         /\ Acknowledge(tracker[current.ref[1]]) = NoState
         /\ \A p \in Partition \ {current.ref[1]} : tracker[p] = NoState
<1>1. LogTypes /\ TrackedExactly /\ AnsweredStored
  BY TypeParts DEF IInv, WriterInv, ConsumerInv
<1>2. /\ Delivered(current.ref) /\ Durable(current.ref)
      /\ current.ref[1] \in Partition /\ current.ref[2] \in Nat
      /\ current.ref[2] < Len(log[current.ref[1]])
  BY <1>1, DeliveredRecord DEF TrackedExactly, AnsweredStored, Delivered
<1>3. /\ tracker[current.ref[1]]
           = [base |-> current.ref[2], seen |-> {current.ref[2]}, done |-> {current.ref[2]}]
      /\ \A p \in Partition \ {current.ref[1]} : tracker[p] = NoState
  BY <1>1, <1>2 DEF TrackedExactly, InHandle, Entry
<1>4. /\ Watermark(tracker[current.ref[1]]) = current.ref[2] + 1
      /\ Acknowledge(tracker[current.ref[1]]) = NoState
      /\ Ready(tracker[current.ref[1]])
  BY <1>2, <1>3, OneReady
<1>5. ReadyPartitions = {current.ref[1]}
  BY <1>2, <1>3, <1>4, NothingReady DEF ReadyPartitions
<1> QED
  BY <1>2, <1>3, <1>4, <1>5

\* A commit request moves one partition past one record that is stored.
LEMMA CommitMoves ==
  ASSUME IInv, stage = "commit", NEW S \in SUBSET ReadyPartitions, CommitTo(S),
         UNCHANGED <<log, tables>>
  PROVE  /\ committed' \in [Partition -> Nat \cup {NoOffset}]
         /\ \A p \in Partition : committed'[p] <= Len(log'[p])
         /\ CommittedDurable'
         /\ \A p \in Partition :
              \/ committed'[p] = committed[p]
              \/ committed'[p] = current.ref[2] + 1 /\ committed[p] < committed'[p]
                 /\ p = current.ref[1]
<1>1. /\ LogTypes /\ ConsumerTypes /\ TrackedExactly /\ CommittedDurable
      /\ \A p \in Partition : Len(log[p]) \in Nat
  BY TypeParts DEF IInv, WriterInv, ConsumerInv, LogTypes
<1> DEFINE c == current.ref[1]
           o == current.ref[2]
<1>2. /\ Durable(current.ref) /\ c \in Partition /\ o \in Nat /\ o < Len(log[c])
      /\ current.ref = <<c, o>>
      /\ S \subseteq {c} /\ Watermark(tracker[c]) = o + 1 /\ o = From(committed[c])
  BY <1>1, CommitAsks, DeliveredRecord DEF TrackedExactly, InHandle
<1>3. \A p \in Partition : committed[p] \in Int /\ committed[p] <= Len(log[p])
                           /\ committed[p] \in Nat \cup {-1}
  BY <1>1 DEF ConsumerTypes, TrackedExactly, NoOffset
<1>4. \A p \in Partition : committed'[p] = IF p \in S THEN o + 1 ELSE committed[p]
  BY <1>2 DEF CommitTo
<1>5. committed' \in [Partition -> Nat \cup {NoOffset}]
  <2>1. DOMAIN committed' = Partition /\ committed' = [p \in Partition |-> committed'[p]]
    BY DEF CommitTo
  <2> QED
    BY <1>2, <1>3, <1>4, <2>1 DEF NoOffset
<1> HIDE DEF c, o
<1>6. committed[c] < o + 1
  BY <1>2, <1>3 DEF From, NoOffset
<1>7. \A p \in Partition : committed'[p] <= Len(log'[p])
  BY <1>1, <1>2, <1>3, <1>4
<1>8. ASSUME NEW p \in Partition, NEW x \in Offsets(p), x < committed'[p]
      PROVE  Durable(<<p, x>>)
  <2>1. x \in Nat
    BY DEF Offsets
  <2>2. CASE x < committed[p]
    BY <1>1, <2>2 DEF CommittedDurable
  <2>3. CASE ~ (x < committed[p])
    <3>1. p = c /\ x < o + 1
      BY <1>2, <1>4, <1>8, <2>3
    <3>2. x = o
      BY <1>2, <1>3, <2>1, <2>3, <3>1 DEF From, NoOffset
    <3> QED
      BY <1>2, <3>1, <3>2
  <2> QED
    BY <2>2, <2>3
<1>9. CommittedDurable'
  BY <1>8 DEF CommittedDurable, Durable, RecordAt, Offsets, tables
<1>10. \A p \in Partition :
         \/ committed'[p] = committed[p]
         \/ committed'[p] = o + 1 /\ committed[p] < committed'[p] /\ p = c
  BY <1>2, <1>4, <1>6
<1> QED
  BY <1>5, <1>7, <1>9, <1>10 DEF c, o

\* The commit moves the group past the record in Handle.
LEMMA CommitStep ==
  ASSUME IInv, [Next]_vars, Commit
  PROVE  ConsumerOK' /\ CommittedDurable'
<1> DEFINE c == current.ref[1]
           o == current.ref[2]
<1>1. /\ ConsumerTypes /\ TrackedExactly /\ NoState \in TrackerState
      /\ \A p \in Partition : Len(log[p]) \in Nat
  BY LogFacts DEF IInv, ConsumerInv
<1>2. /\ stage = "commit" /\ running /\ CommitTo(ReadyPartitions)
      /\ UNCHANGED <<log, tables, running, position>>
      /\ stage' = "poll" /\ current' = [ref |-> NoRef, thread |-> NoThread]
      /\ tracker' = [p \in Partition |->
                       IF p \in ReadyPartitions THEN Acknowledge(tracker[p]) ELSE tracker[p]]
  BY DEF Commit
<1>3. /\ ReadyPartitions = {c} /\ Acknowledge(tracker[c]) = NoState
      /\ \A p \in Partition \ {c} : tracker[p] = NoState
      /\ c \in Partition /\ o \in Nat /\ Watermark(tracker[c]) = o + 1
  BY <1>2, CommitAsks
<1>4. /\ committed' \in [Partition -> Nat \cup {NoOffset}] /\ CommittedDurable'
      /\ \A p \in Partition : committed'[p] <= Len(log'[p])
  BY <1>2, CommitMoves
<1>5. tracker' = [p \in Partition |-> NoState]
  BY <1>2, <1>3
<1>6. ConsumerTypes'
  <2>1. tracker' \in [Partition -> TrackerState]
    BY <1>1, <1>5
  <2>2. current' \in [ref : Ref \cup {NoRef}, thread : Thread \cup {NoThread}]
    BY <1>2
  <2> QED
    BY <1>1, <1>2, <1>4, <2>1, <2>2 DEF ConsumerTypes, TrackerState
<1>7. ASSUME NEW p \in Partition PROVE position'[p] = From(committed'[p])
  <2>1. CASE p = c
    <3>1. committed'[p] = o + 1
      BY <1>2, <1>3, <2>1 DEF CommitTo
    <3>2. position[p] = From(committed[p]) + 1 /\ o = From(committed[p])
      BY <1>1, <1>2, <1>3, <2>1 DEF TrackedExactly, InHandle
    <3> HIDE DEF o
    <3> QED
      BY <1>2, <1>3, <3>1, <3>2 DEF From, NoOffset
  <2>2. CASE p # c
    <3>1. committed'[p] = committed[p]
      BY <1>2, <1>3, <2>2 DEF CommitTo
    <3>2. position[p] = From(committed[p]) + 0
      BY <1>1, <1>2, <2>2 DEF TrackedExactly, InHandle
    <3>3. position[p] \in Nat /\ committed[p] \in Int
      BY <1>1 DEF ConsumerTypes, NoOffset
    <3> QED
      BY <1>2, <3>1, <3>2, <3>3 DEF From, NoOffset
  <2> QED
    BY <2>1, <2>2
<1>8. TrackedExactly'
  <2>1. \A p \in Partition : From(committed'[p]) + 0 = From(committed'[p])
    BY <1>4 DEF From, NoOffset
  <2>2. \A p \in Partition : ~ InHandle(p)' /\ tracker'[p] = NoState
    BY <1>2, <1>5 DEF InHandle
  <2>3. \A p \in Partition : position'[p] = From(committed'[p]) + 0
    BY <1>7, <2>1
  <2> QED
    BY <1>2, <1>4, <2>2, <2>3 DEF TrackedExactly, From
<1> QED
  BY <1>2, <1>4, <1>6, <1>8 DEF ConsumerOK, ConsumerInv, AnswerComes, AnsweredStored

\* A new consumer takes up the work at the offset of the group.
LEMMA RestartStep ==
  ASSUME IInv, [Next]_vars, Restart
  PROVE  ConsumerOK'
<1>1. /\ ConsumerTypes /\ TrackedExactly
      /\ \A p \in Partition : Len(log[p]) \in Nat
  BY LogFacts DEF IInv, ConsumerInv
<1>2. /\ ~ running /\ running' = TRUE /\ stage = "poll"
      /\ UNCHANGED <<log, committed, tracker, stage, current>>
      /\ \A p \in Partition : position'[p] = From(committed[p])
      /\ position' = [p \in Partition |-> From(committed[p])]
  BY <1>1 DEF Restart, TrackedExactly, From
<1>3. \A p \in Partition : /\ From(committed[p]) \in Nat /\ From(committed[p]) + 0 = From(committed[p])
                           /\ From(committed[p]) <= Len(log[p])
  BY <1>1 DEF From, NoOffset, ConsumerTypes, TrackedExactly
<1>4. ConsumerTypes'
  <2>1. position' \in [Partition -> Nat]
    BY <1>2, <1>3
  <2> QED
    BY <1>1, <1>2, <1>3, <2>1 DEF ConsumerTypes
<1>5. TrackedExactly'
  <2>1. \A p \in Partition : ~ InHandle(p) /\ ~ InHandle(p)'
    BY <1>2 DEF InHandle
  <2> QED
    BY <1>1, <1>2, <1>3, <2>1 DEF TrackedExactly, From
<1> QED
  BY <1>2, <1>4, <1>5 DEF ConsumerOK, ConsumerInv, AnswerComes, AnsweredStored

\* The answer of a thread reaches the consumer, if it still waits for it.
LEMMA RespondConsumer ==
  ASSUME IInv, [Next]_vars, NEW t \in Thread,
         NEW status \in {"inserted", "duplicate", "refused", "collision", "error"}, Respond(t, status),
         UNCHANGED <<committed, log>>,
         NEW req \in [ref : Ref, build : Build], req = threads[t].req,
         status \in {"inserted", "duplicate"} => Stored(req)'
  PROVE  ConsumerOK'
<1>1. WriterTypes /\ AnswerComes
  BY LogFacts DEF IInv, ConsumerInv
<1>2. threads' = [threads EXCEPT ![t] = Idle]
  BY DEF Respond
<1>3. CASE stage = "waiting" /\ current.thread = t
  <2>1. Answered(status) /\ req.ref = current.ref
    BY <1>1, <1>3 DEF Respond, AnswerComes
  <2>2. ASSUME status \in {"inserted", "duplicate"} PROVE Durable(current.ref)'
    <3>1. Durable(req.ref)'
      BY <2>2 DEF Stored, Durable, IsEvent, Key
    <3>2. current' = current
      BY <2>1, <2>2 DEF Answered
    <3> QED
      BY <2>1, <3>1, <3>2 DEF Durable, RecordAt
  <2> QED
    BY <1>3, <2>1, <2>2, AnsweredStep
<1>4. CASE ~ (stage = "waiting" /\ current.thread = t)
  <2>1. UNCHANGED <<consumer, committed>>
    BY <1>4 DEF Respond
  <2>2. stage = "waiting" => threads'[current.thread] = threads[current.thread]
                             /\ threads[current.thread].pc # "idle"
    BY <1>1, <1>2, <1>4 DEF WriterTypes, AnswerComes
  <2> QED
    BY <2>1, <2>2, ConsumerRests
<1> QED
  BY <1>3, <1>4

\* A check answers duplicate when the request is stored, an insertion stores it.
LEMMA ThreadConsumer ==
  ASSUME IInv, [Next]_vars, NEW t \in Thread,
         Check(t) \/ CommitTransaction(t) \/ StatementFails(t)
  PROVE  ConsumerOK'
<1>1. threads[t].pc \in Working /\ UNCHANGED <<log, committed>>
  BY DEF Check, CommitTransaction, StatementFails, Working
<1>2. /\ TypeOK /\ WriterInv /\ AnswerComes /\ threads \in [Thread -> ThreadState]
      /\ envelopes = typed
  BY LogFacts DEF IInv, WriterInv, ConsumerInv, WriterTypes
<1>3. PICK req \in [ref : Ref, build : Build] :
        /\ req = threads[t].req /\ Delivered(req.ref)
        /\ threads[t].pc \in Writing => Status(req) = "absent"
  BY <1>1, <1>2, Holder
<1>4. ASSUME UNCHANGED consumer, threads'[t].pc # "idle", threads'[t].req = threads[t].req,
             \A u \in Thread \ {t} : threads'[u] = threads[u]
      PROVE  ConsumerOK'
  <2>1. stage = "waiting" =>
          /\ threads'[current.thread].pc # "idle"
          /\ threads'[current.thread].req = threads[current.thread].req
    BY <1>2, <1>4 DEF AnswerComes
  <2> QED
    BY <1>1, <1>4, <2>1, ConsumerRests
<1>5. CASE Check(t)
  <2>1. CASE Status(req) = "absent"
    <3>1. threads' = [threads EXCEPT ![t].pc = "insert"] /\ UNCHANGED consumer
      BY <1>3, <1>5, <2>1 DEF Check
    <3> QED
      BY <1>2, <1>4, <3>1 DEF ThreadState
  <2>2. CASE Status(req) # "absent"
    <3>1. Respond(t, Status(req)) /\ Status(req) \in {"duplicate", "collision"}
      BY <1>3, <1>5, <2>2 DEF Check, Status
    <3>2. Status(req) = "duplicate" => Stored(req)
      BY <1>2, DuplicateStored
    <3>3. Stored(req)' = Stored(req)
      BY <1>5 DEF Check, tables, Stored, IsEvent, Key, RecordAt
    <3>4. \E status \in {"duplicate", "collision"} :
            Respond(t, status) /\ (status = "duplicate" => Stored(req)')
      BY <3>1, <3>2, <3>3
    <3> QED
      BY <1>1, <1>3, <3>4, RespondConsumer
  <2> QED
    BY <2>1, <2>2
<1>6. CASE CommitTransaction(t)
  <2>1. Apply(req) /\ Status(req) = "absent" /\ Respond(t, "inserted")
    BY <1>3, <1>6 DEF CommitTransaction, Writing
  <2>2. Stored(req)'
    BY <1>1, <1>2, <1>3, <2>1, ApplyStep DEF WriterInv
  <2> QED
    BY <1>1, <1>3, <2>1, <2>2, RespondConsumer
<1>7. CASE StatementFails(t)
  <2>1. CASE Respond(t, "error")
    BY <1>1, <1>3, <2>1, RespondConsumer
  <2>2. CASE /\ threads' = [threads EXCEPT ![t].pc = "check", ![t].attempt = 2]
             /\ UNCHANGED consumer
    BY <1>2, <1>4, <2>2 DEF ThreadState
  <2> QED
    BY <1>7, <2>1, <2>2 DEF StatementFails
<1> QED
  BY <1>5, <1>6, <1>7

\* What the writer refuses ends the consumer that waits for it.
LEMMA RefuseConsumer ==
  ASSUME IInv, [Next]_vars, NEW t \in Thread, Refuse(t)
  PROVE  ConsumerOK'
<1>1. threads[t].pc = "acquire" /\ Respond(t, "refused") /\ UNCHANGED <<log, committed>>
  BY DEF Refuse
<1>2. PICK req \in [ref : Ref, build : Build] : req = threads[t].req
  BY <1>1 DEF IInv, WriterInv, RequestsOK
<1> QED
  BY <1>1, <1>2, RespondConsumer

\* Every step keeps the invariant of the consumer.
LEMMA ConsumerStep == ASSUME IInv, [Next]_vars PROVE ConsumerOK'
<1>1. /\ WriterInv /\ ConsumerTypes /\ TrackedExactly /\ AnswerComes
      /\ threads \in [Thread -> ThreadState]
      /\ \A p \in Partition : Len(log[p]) \in Nat /\ Len(log'[p]) \in Nat
                              /\ Len(log[p]) <= Len(log'[p])
  BY LogFacts DEF IInv, ConsumerInv, WriterTypes
<1>2. \A p \in Partition : committed[p] \in Nat \cup {NoOffset} /\ committed[p] <= Len(log'[p])
  <2>1. \A p \in Partition : committed[p] \in Nat \cup {-1} /\ committed[p] <= Len(log[p])
    BY <1>1 DEF ConsumerTypes, TrackedExactly, NoOffset
  <2> QED
    BY <1>1, <2>1 DEF NoOffset
<1>3. ASSUME Exit, UNCHANGED committed PROVE ConsumerOK'
  BY <1>1, <1>2, <1>3, ExitStep DEF ConsumerTypes
<1>4. ASSUME UNCHANGED <<consumer, committed>>, NEW t \in Thread,
             threads[t].pc # "idle", NEW pc \in Working, threads' = [threads EXCEPT ![t].pc = pc]
      PROVE  ConsumerOK'
  <2>1. /\ threads'[t].pc # "idle" /\ threads'[t].req = threads[t].req
        /\ \A u \in Thread \ {t} : threads'[u] = threads[u]
    BY <1>1, <1>4 DEF Working, ThreadState
  <2>2. stage = "waiting" =>
          /\ threads'[current.thread].pc # "idle"
          /\ threads'[current.thread].req = threads[current.thread].req
    BY <1>1, <2>1 DEF AnswerComes
  <2> QED
    BY <1>4, <2>2, ConsumerRests
<1>5. ASSUME NEW t \in Thread, Acquire(t) \/ Insert(t) \/ InsertTyped(t) PROVE ConsumerOK'
  <2>1. /\ UNCHANGED <<consumer, committed>> /\ threads[t].pc # "idle"
        /\ \E pc \in Working : threads' = [threads EXCEPT ![t].pc = pc]
    BY <1>5 DEF Acquire, Insert, InsertTyped, Working
  <2> QED
    BY <1>4, <2>1
<1>6. CASE UNCHANGED <<consumer, committed, threads>>
  BY <1>1, <1>6, ConsumerRests DEF AnswerComes
<1>7. CASE CommitFails
  <2>1. stage = "commit" /\ UNCHANGED <<log, tables>> /\ Exit
        /\ \E S \in SUBSET ReadyPartitions : CommitTo(S)
    BY <1>7 DEF CommitFails
  <2>2. committed' \in [Partition -> Nat \cup {NoOffset}]
        /\ \A p \in Partition : committed'[p] <= Len(log'[p])
    BY <2>1, CommitMoves
  <2> QED
    BY <1>1, <2>1, <2>2, ExitStep
<1>8. CASE WriterCrash
  <2>1. CASE stage = "waiting"
    <3>1. Exit /\ UNCHANGED committed
      BY <1>8, <2>1 DEF WriterCrash, Answered
    <3> QED
      BY <1>3, <3>1
  <2>2. CASE stage # "waiting"
    BY <1>8, <2>2, ConsumerRests DEF WriterCrash
  <2> QED
    BY <2>1, <2>2
<1>9. CASE Abandon
  BY <1>3, <1>9 DEF Abandon
<1>10. \/ \E p \in Partition, t \in Thread : Send(p, t)
       \/ Commit \/ Restart \/ CommitFails \/ Abandon \/ WriterCrash
       \/ \E t \in Thread : Check(t) \/ CommitTransaction(t) \/ StatementFails(t)
       \/ \E t \in Thread : Acquire(t) \/ Insert(t) \/ InsertTyped(t)
       \/ \E t \in Thread : Refuse(t)
       \/ UNCHANGED <<consumer, committed, threads>>
  BY DEF Next, ConsumerNext, WriterNext, Produce, vars, writer
<1> QED
  BY <1>5, <1>6, <1>7, <1>8, <1>9, <1>10, SendConsumer, CommitStep, RestartStep, ThreadConsumer,
     RefuseConsumer

-----------------------------------------------------------------------------
(* The inductive invariant. *)

\* What is committed stays durable, and the group moves past stored records only.
LEMMA CommittedStep ==
  ASSUME IInv, [Next]_vars
  PROVE  /\ CommittedDurable'
         /\ \/ UNCHANGED committed
            \/ /\ UNCHANGED <<log, tables>>
               /\ \A p \in Partition :
                    committed'[p] = committed[p] \/ committed[p] < committed'[p]
<1>1. CASE UNCHANGED committed
  <2>1. LogTypes /\ LogTypes' /\ ConsumerTypes
        /\ \A p \in Partition : Len(log[p]) \in Nat /\ Len(log'[p]) \in Nat
    BY LogFacts DEF IInv
  <2>2. ASSUME NEW p \in Partition, NEW o \in Offsets(p)', o < committed[p]
        PROVE  Durable(<<p, o>>)'
    <3>1. committed[p] \in Int /\ committed[p] <= Len(log[p])
      BY <2>1 DEF IInv, ConsumerInv, TrackedExactly, ConsumerTypes, NoOffset
    <3>2. o \in Offsets(p)
      BY <2>1, <2>2, <3>1 DEF Offsets
    <3>3. Delivered(<<p, o>>) /\ Durable(<<p, o>>)
      BY <2>1, <2>2, <3>2, CommittedDelivered DEF IInv, CommittedDurable
    <3> QED
      BY <3>3, DurableKept DEF IInv
  <2> QED
    BY <1>1, <2>2 DEF CommittedDurable
<1>2. CASE Commit \/ CommitFails
  <2>1. stage = "commit" /\ UNCHANGED <<log, tables>>
        /\ \E S \in SUBSET ReadyPartitions : CommitTo(S)
    BY <1>2 DEF Commit, CommitFails
  <2> QED
    BY <2>1, CommitMoves
<1>3. UNCHANGED committed \/ Commit \/ CommitFails
  BY DEF Next, ConsumerNext, WriterNext, Produce, vars, Send, Abandon, Restart,
         Acquire, Refuse, Check, Insert, InsertTyped, CommitTransaction, StatementFails, WriterCrash
<1> QED
  BY <1>1, <1>2, <1>3

\* The build and the failures stay within their bounds.
LEMMA CountStep == ASSUME CountTypes, [Next]_vars PROVE CountTypes'
<1>1. build' \in {build, build + 1} \cap Build \/ build' = build
  BY DEF Next, ConsumerNext, WriterNext, Produce, vars, Send, Commit, CommitFails, Abandon,
         Restart, Acquire, Refuse, Check, Insert, InsertTyped, CommitTransaction, StatementFails,
         WriterCrash
<1>2. Fault \/ faults' = faults
  BY DEF Next, ConsumerNext, WriterNext, Produce, vars, Send, Commit, CommitFails, Abandon,
         Restart, Acquire, Refuse, Check, Insert, InsertTyped, CommitTransaction, StatementFails,
         WriterCrash
<1> QED
  BY <1>1, <1>2, SinkAssumption DEF SinkAssumption, CountTypes, Fault

\* Initially the invariant holds.
LEMMA IInvInit == Init => IInv
<1> SUFFICES ASSUME Init PROVE IInv
  OBVIOUS
<1>1. 0 \in Build /\ 0 \in 0 .. MaxFaults /\ \A p \in Partition : log[p] = <<>>
  BY SinkAssumption DEF SinkAssumption, Init, Build
<1>2. LogTypes
  BY <1>1, SinkAssumption DEF SinkAssumption, Init, LogTypes
<1>3. ConsumerTypes
  <2>1. NoState \in TrackerState
    BY DEF NoState, TrackerState
  <2> QED
    BY <1>1, <2>1 DEF Init, ConsumerTypes, TrackerState
<1>4. WriterTypes
  BY DEF Init, WriterTypes, ThreadState, Idle
<1>5. TypeOK
  BY <1>1, <1>2, <1>3, <1>4, TypeParts DEF Init, TableTypes, CountTypes
<1>6. RequestsOK /\ LockHeld /\ StillAbsent
  BY DEF Init, RequestsOK, LockHeld, StillAbsent, Idle, Working, Writing
<1>7. envelopes = typed /\ OneDeadLetterPerBuild
  BY DEF Init, OneDeadLetterPerBuild
<1>8. ConsumerInv
  BY <1>1 DEF Init, ConsumerInv, TrackedExactly, AnswerComes, AnsweredStored, InHandle, From,
              NoOffset
<1>9. CommittedDurable
  BY <1>1 DEF Init, CommittedDurable, Offsets
<1> QED
  BY <1>5, <1>6, <1>7, <1>8, <1>9 DEF IInv, WriterInv

\* Every step keeps the invariant.
LEMMA IInvStep == ASSUME IInv, [Next]_vars PROVE IInv'
<1>1. ThreadsOK' /\ TablesOK
  BY WriterStep DEF IInv
<1>2. ConsumerOK' /\ CommittedDurable'
  BY ConsumerStep, CommittedStep
<1>3. LogTypes' /\ CountTypes'
  BY LogFacts, CountStep, TypeParts DEF IInv, WriterInv
<1>4. TypeOK'
  <2>1. LogTypes' /\ ConsumerTypes' /\ WriterTypes' /\ TableTypes' /\ CountTypes'
    BY <1>1, <1>2, <1>3 DEF ThreadsOK, TablesOK, ConsumerOK
  <2> QED
    BY <2>1
       DEF TypeOK, LogTypes, ConsumerTypes, WriterTypes, ThreadState, TableTypes, CountTypes
<1> QED
  BY <1>1, <1>2, <1>4 DEF IInv, WriterInv, ThreadsOK, TablesOK, ConsumerOK

\* The invariant holds in every reachable state.
LEMMA IInvAlways == SafetySpec => []IInv
<1>1. IInv /\ [Next]_vars => IInv'
  BY IInvStep
<1> QED
  BY IInvInit, <1>1, PTL DEF SafetySpec

-----------------------------------------------------------------------------
(* Theorems *)

\* Every variable keeps its type, however requests, retries, crashes of the
\* writer and restarts of the consumer interleave; a request is tried twice.
THEOREM TypesKept == SafetySpec => []TypeOK
<1>1. IInv => TypeOK
  BY DEF IInv, WriterInv
<1> QED
  BY <1>1, IInvAlways, PTL

\* A build leaves one dead-letter row of a record at most, although the record
\* is delivered again and a COMMIT whose answer was lost is retried.
THEOREM DeadLettersUnique == SafetySpec => []OneDeadLetterPerBuild
<1>1. IInv => OneDeadLetterPerBuild
  BY DEF IInv, WriterInv
<1> QED
  BY <1>1, IInvAlways, PTL

\* The offset of a record is committed when the record is in the warehouse with
\* its own content, and stays there.
THEOREM CommitsAreDurable == SafetySpec => []CommittedDurable
<1>1. IInv => CommittedDurable
  BY DEF IInv
<1> QED
  BY <1>1, IInvAlways, PTL

\* The tables of the writer are the abstract ledger: an event ID gets one row in
\* each table, of one content, in one step.
THEOREM LedgerImplemented == SafetySpec => ImplementsLedger
<1>1. Init => Ledger!Init
  BY DEF Init, Ledger!Init
<1>2. IInv /\ [Next]_vars => [Ledger!Next]_(Ledger!vars)
  BY WriterStep DEF IInv, TablesOK
<1> QED
  BY <1>1, <1>2, IInvAlways, PTL DEF SafetySpec, ImplementsLedger, Ledger!Spec

\* The offset moves forward only, past durable records only, and what is durable
\* stays so: the promise of at-least-once delivery.
THEOREM PromiseImplemented == SafetySpec => ImplementsAtLeastOnce
<1>1. Init => Promise!Init
  <2> SUFFICES ASSUME Init PROVE Promise!Init
    OBVIOUS
  <2>1. \A p \in Partition : Offsets(p) = {}
    BY DEF Init, Offsets
  <2> QED
    BY <2>1 DEF Init, Promise!Init, NoOffset, Promise!NoOffset
<1>2. ASSUME IInv, [Next]_vars PROVE [Promise!Next]_(Promise!vars)
  <2>1. /\ IInv' /\ WriterInv
        /\ \A p \in Partition : Len(log[p]) \in Nat /\ Len(log'[p]) \in Nat
                                /\ Len(log[p]) <= Len(log'[p])
        /\ LogTypes /\ ConsumerTypes /\ TrackedExactly
    BY <1>2, IInvStep, LogFacts DEF IInv, ConsumerInv
  <2>2. CASE UNCHANGED committed
    <3>1. ASSUME NEW p \in Partition
          PROVE  /\ Offsets(p) \subseteq Offsets(p)'
                 /\ \A o \in Offsets(p)' \ Offsets(p) : committed[p] <= o
                 /\ {o \in Offsets(p) : Durable(<<p, o>>)}
                      \subseteq {o \in Offsets(p) : Durable(<<p, o>>)}'
      <4>1. committed[p] \in Int /\ committed[p] <= Len(log[p])
        BY <2>1 DEF TrackedExactly, ConsumerTypes, NoOffset
      <4>2. Offsets(p) \subseteq Offsets(p)'
            /\ \A o \in Offsets(p)' \ Offsets(p) : committed[p] <= o
        BY <2>1, <4>1 DEF Offsets
      <4>3. ASSUME NEW o \in Offsets(p), Durable(<<p, o>>) PROVE Durable(<<p, o>>)'
        BY <1>2, <2>1, <4>3, CommittedDelivered, DurableKept
      <4> QED
        BY <4>2, <4>3
    <3>2. Promise!Extend
      BY <2>2, <3>1 DEF Promise!Extend
    <3> QED
      BY <3>2 DEF Promise!Next
  <2>3. CASE /\ UNCHANGED <<log, tables>>
             /\ \A p \in Partition :
                  committed'[p] = committed[p] \/ committed[p] < committed'[p]
    <3>1. \A p \in Partition : Offsets(p)' = Offsets(p)
      BY <2>3 DEF Offsets
    <3>2. \A r : Durable(r)' = Durable(r)
      BY <2>3 DEF Durable, RecordAt, tables
    <3>3. ASSUME NEW p \in Partition, NEW o \in Offsets(p), o < committed'[p]
          PROVE  Durable(<<p, o>>)
      BY <2>1, <3>1, <3>2, <3>3 DEF IInv, CommittedDurable
    <3>4. Promise!Advance
      BY <2>3, <3>1, <3>2, <3>3 DEF Promise!Advance, Promise!SettledBelow
    <3> QED
      BY <3>4 DEF Promise!Next
  <2> QED
    BY <1>2, <2>2, <2>3, CommittedStep
<1> QED
  BY <1>1, <1>2, IInvAlways, PTL DEF SafetySpec, ImplementsAtLeastOnce, Promise!Spec
=============================================================================
