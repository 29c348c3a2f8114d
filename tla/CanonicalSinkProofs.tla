-------------------------- MODULE CanonicalSinkProofs --------------------------
(***************************************************************************)
(* Theorems of CanonicalSink, for any workers, events, batch size, topic   *)
(* and number of failures: offsets stay behind the warehouse, an event has *)
(* one row, and the history answers as of any time.                        *)
(***************************************************************************)
EXTENDS CanonicalSink, FiniteSetTheorems, SequenceTheorems, TLAPS

-----------------------------------------------------------------------------
(* What a batch writes. *)

\* The number of events of a buffer is finite.
LEMMA BufferFinite ==
  ASSUME NEW b \in Seq(Event)
  PROVE  IsFiniteSet(ToSet(b)) /\ ToSet(b) \subseteq Event
<1>1. b \in Surjection(1 .. Len(b), ToSet(b))
  BY LenProperties DEF Surjection, ToSet
<1>2. IsFiniteSet(1 .. Len(b))
  BY FS_Interval, LenProperties
<1>3. IsFiniteSet(ToSet(b))
  BY <1>1, <1>2, FS_Surjection
<1> QED
  BY <1>3, LenProperties DEF ToSet

\* A buffer with a record more.
LEMMA BufferGrows ==
  ASSUME NEW b \in Seq(Event), NEW e \in Event
  PROVE  /\ Append(b, e) \in Seq(Event) /\ Len(Append(b, e)) = Len(b) + 1
         /\ ToSet(Append(b, e)) = ToSet(b) \cup {e}
BY AppendProperties, LenProperties DEF ToSet

\* _deduplicate_records keeps each event of the buffer, once.
LEMMA DeduplicatedOnce ==
  ASSUME NEW b \in Seq(Event)
  PROVE  /\ IsFiniteSet(DOMAIN Deduplicated(b))
         /\ \A e \in ToSet(b) : \E i \in DOMAIN Deduplicated(b) : Deduplicated(b)[i] = e
         /\ \A i \in DOMAIN Deduplicated(b) : Deduplicated(b)[i] \in ToSet(b)
         /\ IsInjective(Deduplicated(b))
<1> DEFINE S == ToSet(b)
           n == Cardinality(S)
           d == Deduplicated(b)
<1>1. IsFiniteSet(S)
  BY BufferFinite
<1>2. n \in Nat /\ ExistsBijection(1 .. n, S)
  BY <1>1, FS_CardinalityType
<1>3. \E f \in [1 .. n -> S] : IsInjective(f)
  BY <1>2 DEF ExistsBijection, Bijection, Injection
<1>4. d \in [1 .. n -> S] /\ IsInjective(d)
  BY <1>3 DEF Deduplicated, SetToSeq
<1>5. IsFiniteSet(1 .. n) /\ Cardinality(1 .. n) = n
  BY <1>2, FS_Interval
<1>6. d \in Surjection(1 .. n, S)
  BY <1>1, <1>4, <1>5, FS_Injection DEF Injection
<1> QED
  BY <1>4, <1>5, <1>6 DEF Surjection

\* An event is written once if the batch has it, otherwise not at all.
LEMMA WrittenOnce ==
  ASSUME NEW b \in Seq(Event), NEW e
  PROVE  Occurrences(Deduplicated(b), {e}) = IF e \in ToSet(b) THEN 1 ELSE 0
<1> DEFINE d == Deduplicated(b)
           I == {i \in DOMAIN d : d[i] \in {e}}
<1>1. CASE e \in ToSet(b)
  <2>1. PICK i \in DOMAIN d : d[i] = e
    BY <1>1, DeduplicatedOnce
  <2>2. I = {i}
    BY <2>1, DeduplicatedOnce DEF IsInjective
  <2> QED
    BY <1>1, <2>2, FS_Singleton DEF Occurrences
<1>2. CASE e \notin ToSet(b)
  <2>1. I = {}
    BY <1>2, DeduplicatedOnce
  <2> QED
    BY <1>2, <2>1, FS_EmptySet DEF Occurrences
<1> QED
  BY <1>1, <1>2

\* A count is a number.
LEMMA OccurrencesType ==
  ASSUME NEW b \in Seq(Event), NEW S
  PROVE  Occurrences(Deduplicated(b), S) \in Nat
BY DeduplicatedOnce, FS_Subset, FS_CardinalityType DEF Occurrences

\* The tables after the deletes of a batch, after its inserts, and at its COMMIT.
Deleted(t, b)  == DeleteByValues(t, {e.id : e \in ToSet(b)})
Inserted(t, b) == LoadHands(WriteRows(Deleted(t, b), Deduplicated(b)), Deduplicated(b))
Rebuilt(t, b)  == [Inserted(t, b) EXCEPT !.history =
                     IF \E e \in ToSet(b) : IsContext(e)
                     THEN History(Contexts(Inserted(t, b))) ELSE @]

\* A history is one of intervals between contexts.
LEMMA HistoryType ==
  ASSUME NEW cs \in SUBSET Event
  PROVE  History(cs) \in SUBSET [event : Event, from : Nat, to : SUBSET Nat]
BY EventAssumption DEF History

\* The rows of an event ID in the batch are those of the batch, the others stay.
LEMMA DeletedRows ==
  ASSUME NEW t \in Tables, NEW b \in Seq(Event)
  PROVE  /\ Deleted(t, b) \in Tables
         /\ Deleted(t, b).history = t.history
         /\ \A e \in Event : Deleted(t, b).rows[e] =
              IF \E f \in ToSet(b) : f.id = e.id THEN 0 ELSE t.rows[e]
BY DEF Tables, Deleted, DeleteByValues

\* load_hands touches nothing but the hands.
LEMMA LoadHandsRows ==
  ASSUME NEW t \in Tables, NEW d,
         \A h \in HandIds : Occurrences(d, {e \in Event : e.hand = h}) \in Nat
  PROVE  /\ LoadHands(t, d) \in Tables
         /\ LoadHands(t, d).rows = t.rows
         /\ LoadHands(t, d).history = t.history
<1>1. t = [rows |-> t.rows, hands |-> t.hands, history |-> t.history]
  BY DEF Tables
<1>2. PICK f : f = [h \in HandIds |->
                 IF Occurrences(d, {e \in Event : e.hand = h}) > 0
                 THEN Occurrences(d, {e \in Event : e.hand = h}) ELSE t.hands[h]]
  OBVIOUS
<1>3. LoadHands(t, d) = [t EXCEPT !.hands = f]
  BY <1>2 DEF LoadHands
<1>4. t.hands \in [HandIds -> Nat]
  BY DEF Tables
<1>5. f \in [HandIds -> Nat]
  BY <1>2, <1>4
<1>6. LoadHands(t, d) = [rows |-> t.rows, hands |-> f, history |-> t.history]
  BY <1>1, <1>3
<1> QED
  BY <1>5, <1>6 DEF Tables

\* The rows of an inserted batch: one per event.
LEMMA InsertedRows ==
  ASSUME NEW t \in Tables, NEW b \in Seq(Event)
  PROVE  /\ Inserted(t, b) \in Tables
         /\ Inserted(t, b).history = t.history
         /\ \A e \in Event : Inserted(t, b).rows[e] =
              IF e \in ToSet(b) THEN 1
              ELSE IF \E f \in ToSet(b) : f.id = e.id THEN 0 ELSE t.rows[e]
<1> DEFINE u == Deleted(t, b)
           v == WriteRows(u, Deduplicated(b))
<1>1. /\ u \in Tables /\ u.history = t.history
      /\ \A e \in Event : u.rows[e] = IF \E f \in ToSet(b) : f.id = e.id THEN 0 ELSE t.rows[e]
  BY DeletedRows
<1> HIDE DEF u
<1>2. \A e \in Event : Occurrences(Deduplicated(b), {e}) = IF e \in ToSet(b) THEN 1 ELSE 0
  BY WrittenOnce
<1>3. /\ v \in Tables /\ v.history = t.history
      /\ \A e \in Event : v.rows[e] =
           IF e \in ToSet(b) THEN 1
           ELSE IF \E f \in ToSet(b) : f.id = e.id THEN 0 ELSE t.rows[e]
  <2>0. u = [rows |-> u.rows, hands |-> u.hands, history |-> u.history]
    BY <1>1 DEF Tables
  <2>a. v = [u EXCEPT !.rows = [e \in Event |-> u.rows[e] + Occurrences(Deduplicated(b), {e})]]
    BY DEF WriteRows
  <2>1. v = [rows |-> [e \in Event |-> u.rows[e] + Occurrences(Deduplicated(b), {e})],
             hands |-> u.hands, history |-> u.history]
    BY <2>0, <2>a
  <2>2. u.rows \in [Event -> Nat]
    BY <1>1 DEF Tables
  <2>3. \A e \in Event : v.rows[e] = IF e \in ToSet(b) THEN u.rows[e] + 1 ELSE u.rows[e]
    BY <1>2, <2>1, <2>2
  <2>4. \A e \in Event : v.rows[e] \in Nat
    BY <2>2, <2>3
  <2>5. v \in Tables
    BY <1>1, <2>1, <2>4 DEF Tables
  <2>6. \A e \in ToSet(b) : e \in Event /\ u.rows[e] = 0
    BY <1>1, BufferFinite
  <2>7. v.history = t.history
    BY <1>1, <2>1
  <2> HIDE DEF v
  <2>8. ASSUME NEW e \in Event
        PROVE  v.rows[e] = IF e \in ToSet(b) THEN 1
                           ELSE IF \E f \in ToSet(b) : f.id = e.id THEN 0 ELSE t.rows[e]
    <3>1. CASE e \in ToSet(b)
      BY <2>3, <2>6, <3>1
    <3>2. CASE e \notin ToSet(b)
      BY <1>1, <2>3, <3>2
    <3> QED
      BY <3>1, <3>2
  <2> QED
    BY <2>5, <2>7, <2>8
<1>4. Inserted(t, b) = LoadHands(v, Deduplicated(b))
  BY DEF Inserted, u
<1> HIDE DEF v
<1>5. \A h \in HandIds : Occurrences(Deduplicated(b), {e \in Event : e.hand = h}) \in Nat
  BY OccurrencesType
<1>6. /\ Inserted(t, b).rows = v.rows /\ Inserted(t, b).history = v.history
      /\ Inserted(t, b) \in Tables
  BY <1>3, <1>4, <1>5, LoadHandsRows
<1> QED
  BY <1>3, <1>6

\* The rebuild touches nothing but the history.
LEMMA RebuiltRows ==
  ASSUME NEW t \in Tables, NEW b \in Seq(Event)
  PROVE  /\ Rebuilt(t, b) \in Tables
         /\ Rebuilt(t, b).rows = Inserted(t, b).rows
         /\ Rebuilt(t, b).history = IF \E e \in ToSet(b) : IsContext(e)
                                    THEN History(Contexts(Inserted(t, b))) ELSE t.history
<1>1. Inserted(t, b) \in Tables /\ Inserted(t, b).history = t.history
  BY InsertedRows
<1>2. History(Contexts(Inserted(t, b))) \in SUBSET [event : Event, from : Nat, to : SUBSET Nat]
  BY HistoryType DEF Contexts
<1> QED
  BY <1>1, <1>2 DEF Rebuilt, Tables

-----------------------------------------------------------------------------
(* What a transaction makes of sound tables. *)

OnceIn(t)     == /\ \A e \in Event : t.rows[e] <= 1
                 /\ \A e, f \in Event :
                      e.id = f.id /\ t.rows[e] > 0 /\ t.rows[f] > 0 => e = f
ExactIn(t)    == t.history = History(Contexts(t))
HasId(t, id)  == \E e \in Event : e.id = id /\ t.rows[e] > 0

\* A batch without a collision leaves one row per event and one content per event ID.
LEMMA RebuiltOnce ==
  ASSUME NEW t \in Tables, NEW b \in Seq(Event), OnceIn(t), ~ Collision(b)
  PROVE  OnceIn(Rebuilt(t, b))
<1> DEFINE r == Rebuilt(t, b).rows
<1>1. \A e \in Event : r[e] = IF e \in ToSet(b) THEN 1
                              ELSE IF \E f \in ToSet(b) : f.id = e.id THEN 0 ELSE t.rows[e]
  BY InsertedRows, RebuiltRows
<1>2. t.rows \in [Event -> Nat]
  BY DEF Tables
<1> HIDE DEF r
<1>3. \A e \in Event : r[e] <= 1
  BY <1>1, <1>2 DEF OnceIn
<1>4. ASSUME NEW e \in Event, NEW f \in Event, e.id = f.id, r[e] > 0, r[f] > 0
      PROVE  e = f
  <2>1. CASE \E g \in ToSet(b) : g.id = e.id
    <3>1. e \in ToSet(b) /\ f \in ToSet(b)
      BY <1>1, <1>4, <2>1
    <3> QED
      BY <1>4, <3>1 DEF Collision
  <2>2. CASE ~ \E g \in ToSet(b) : g.id = e.id
    BY <1>1, <1>4, <2>2 DEF OnceIn
  <2> QED
    BY <2>1, <2>2
<1> QED
  BY <1>3, <1>4 DEF OnceIn, r

\* No event ID is lost, and those of the batch are there.
LEMMA RebuiltIds ==
  ASSUME NEW t \in Tables, NEW b \in Seq(Event)
  PROVE  /\ \A id : HasId(t, id) => HasId(Rebuilt(t, b), id)
         /\ \A e \in ToSet(b) : HasId(Rebuilt(t, b), e.id)
<1> DEFINE r == Rebuilt(t, b).rows
<1>1. \A e \in Event : r[e] = IF e \in ToSet(b) THEN 1
                              ELSE IF \E f \in ToSet(b) : f.id = e.id THEN 0 ELSE t.rows[e]
  BY InsertedRows, RebuiltRows
<1>2. ToSet(b) \subseteq Event
  BY BufferFinite
<1> HIDE DEF r
<1>3. \A e \in ToSet(b) : r[e] > 0
  BY <1>1, <1>2
<1>4. \A e \in ToSet(b) : HasId(Rebuilt(t, b), e.id)
  BY <1>2, <1>3 DEF HasId, r
<1>5. ASSUME NEW id, HasId(t, id)
      PROVE  HasId(Rebuilt(t, b), id)
  <2>1. PICK e \in Event : e.id = id /\ t.rows[e] > 0
    BY <1>5 DEF HasId
  <2>2. CASE \E f \in ToSet(b) : f.id = id
    BY <1>4, <2>2
  <2>3. CASE ~ \E f \in ToSet(b) : f.id = id
    BY <1>1, <2>1, <2>3 DEF HasId, r
  <2> QED
    BY <2>2, <2>3
<1> QED
  BY <1>4, <1>5

\* A batch without a context leaves the contexts alone, since an event ID is of a context
\* or not; a batch with one has the history rebuilt.
LEMMA RebuiltExact ==
  ASSUME NEW t \in Tables, NEW b \in Seq(Event), ExactIn(t)
  PROVE  ExactIn(Rebuilt(t, b))
<1> DEFINE u == Inserted(t, b)
           v == Rebuilt(t, b)
<1>1. v.rows = u.rows
  BY RebuiltRows
<1>2. Contexts(v) = Contexts(u)
  BY <1>1 DEF Contexts
<1>3. CASE \E e \in ToSet(b) : IsContext(e)
  BY <1>2, <1>3, RebuiltRows DEF ExactIn
<1>4. CASE ~ \E e \in ToSet(b) : IsContext(e)
  <2>1. ToSet(b) \subseteq Event
    BY BufferFinite
  <2>2. ASSUME NEW e \in Event, IsContext(e)
        PROVE  u.rows[e] = t.rows[e]
    <3>1. ~ \E f \in ToSet(b) : f.id = e.id
      BY <1>4, <2>1, <2>2, EventAssumption DEF IsContext
    <3> QED
      BY <3>1, InsertedRows
  <2>3. Contexts(u) = Contexts(t)
    BY <2>2 DEF Contexts
  <2>4. v.history = t.history
    BY <1>4, RebuiltRows
  <2> QED
    BY <1>2, <2>3, <2>4 DEF ExactIn
<1> QED
  BY <1>3, <1>4

-----------------------------------------------------------------------------
(* The inductive invariant. *)

InLoad == {"write", "rebuild", "commit"}

\* Every variable keeps its type.
Typed ==
  /\ log \in Seq(Event \cup {Poison}) /\ committed \in Nat
  /\ owner \in Worker \cup {Nobody} /\ locked \in Worker \cup {Nobody}
  /\ worker \in [Worker -> State] /\ tables \in Tables
  /\ failures \in 0 .. MaxFailures

\* Where a worker is: its transaction is what the statements so far make of the committed
\* tables, which nobody else can change; what it has loaded is in them.
Good(st) ==
  /\ st.position <= Len(log) /\ Len(st.buffer) <= BatchSize
  /\ st.pc = "write"   => st.tx = Deleted(tables, st.buffer)
  /\ st.pc = "rebuild" => st.tx = Inserted(tables, st.buffer)
  /\ st.pc = "commit"  => st.tx = Rebuilt(tables, st.buffer)
  /\ st.pc \in InLoad  => ~ Collision(st.buffer)
  /\ st.pc = "offset"  => \A e \in ToSet(st.buffer) : HasId(tables, e.id)

\* The owner has what lies between the group's offset and its position in its buffer.
Fetched(st) ==
  /\ st.pc # "down" /\ committed <= st.position
  /\ \A o \in committed + 1 .. st.position : log[o] \in ToSet(st.buffer)

WorkersInv ==
  /\ \A w \in Worker : Good(worker[w])
  /\ \A w \in Worker : worker[w].pc \in InLoad <=> locked = w
  /\ \A w \in Worker : owner = w => Fetched(worker[w])

\* The committed tables are sound, and no offset is ahead of them.
TablesInv ==
  /\ OnceIn(tables) /\ ExactIn(tables)
  /\ committed <= Len(log)
  /\ \A o \in 1 .. committed : HasId(tables, log[o].id)

IInv == Typed /\ WorkersInv /\ TablesInv

\* A process that does not run holds nothing.
LEMMA DownState == Down \in State
<1>1. <<>> \in Seq(Event)
  BY EmptySeq
<1>2. NoTables \in Tables
  BY DEF NoTables, Tables
<1> QED
  BY <1>1, <1>2 DEF Down, State

\* An empty warehouse, and workers that do not run.
LEMMA InitInv == Init => IInv
<1> SUFFICES ASSUME Init
             PROVE  IInv
  OBVIOUS
<1>1. NoTables \in Tables
  BY DEF NoTables, Tables
<1>2. Down \in State
  BY DownState
<1>3. Typed
  BY <1>1, <1>2, EmptySeq, SinkAssumption DEF Init, Typed
<1>4. Len(<<>>) = 0
  BY EmptySeq
<1>5. WorkersInv
  BY <1>4, SinkAssumption DEF Init, WorkersInv, Good, Down, InLoad
<1>6. Contexts(NoTables) = {}
  BY DEF Contexts, NoTables
<1>7. History({}) = {}
  BY DEF History
<1>8. OnceIn(NoTables) /\ ExactIn(NoTables)
  BY <1>6, <1>7 DEF OnceIn, ExactIn, NoTables
<1>9. TablesInv
  BY <1>4, <1>8 DEF Init, TablesInv
<1> QED
  BY <1>3, <1>5, <1>9 DEF IInv

\* A step of one worker that commits nothing: what matters is that its own new state is
\* good, and that it takes neither the lock nor the partition from another unseen.
LEMMA MoveKeeps ==
  ASSUME IInv, NEW w \in Worker, NEW st \in State, Set(w, st), Good(st),
         UNCHANGED <<log, committed, tables>>, failures' \in 0 .. MaxFailures,
         locked' \in Worker \cup {Nobody}, st.pc \in InLoad <=> locked' = w,
         \A v \in Worker \ {w} : locked' = v <=> locked = v,
         owner' \in Worker \cup {Nobody}, owner' = w => Fetched(st),
         \A v \in Worker \ {w} : owner' = v => owner = v
  PROVE  IInv'
<1>1. worker' \in [Worker -> State]
  BY DEF IInv, Typed, Set
<1>2. worker'[w] = st /\ \A v \in Worker \ {w} : worker'[v] = worker[v]
  BY DEF IInv, Typed, Set
<1>3. Typed'
  BY <1>1 DEF IInv, Typed
<1>4. TablesInv'
  BY DEF IInv, TablesInv
<1>5. \A v \in Worker : Good(worker[v])'
  BY <1>2 DEF IInv, WorkersInv, Good
<1>6. \A v \in Worker : (worker[v].pc \in InLoad <=> locked = v)'
  BY <1>2 DEF IInv, WorkersInv
<1>7. \A v \in Worker : (owner = v => Fetched(worker[v]))'
  BY <1>2 DEF IInv, WorkersInv, Fetched
<1> QED
  BY <1>3, <1>4, <1>5, <1>6, <1>7 DEF IInv, WorkersInv

\* A process that ends leaves no transaction and no lock.
LEMMA ExitKeeps ==
  ASSUME IInv, NEW w \in Worker, Exit(w),
         UNCHANGED <<log, committed, tables>>, failures' \in 0 .. MaxFailures
  PROVE  IInv'
<1>1. Down \in State
  BY DownState
<1>2. PICK st \in State : st = Down
  BY <1>1
<1>3. Len(<<>>) = 0
  BY EmptySeq
<1>4. Len(log) \in Nat
  BY LenProperties DEF IInv, Typed
<1>5. Good(st) /\ st.pc = "down"
  BY <1>2, <1>3, <1>4, SinkAssumption DEF Good, Down, InLoad
<1>6. /\ locked' \in Worker \cup {Nobody} /\ locked' # w
      /\ \A v \in Worker \ {w} : locked' = v <=> locked = v
  BY SinkAssumption DEF Exit, Unlocked, IInv, Typed
<1>7. /\ owner' \in Worker \cup {Nobody} /\ owner' # w
      /\ \A v \in Worker \ {w} : owner' = v => owner = v
  BY SinkAssumption DEF Exit, IInv, Typed
<1>8. Set(w, st)
  BY <1>2 DEF Exit
<1> QED
  BY <1>5, <1>6, <1>7, <1>8, MoveKeeps DEF InLoad

\* A new process has read nothing and loaded nothing.
LEMMA StartKeeps ==
  ASSUME IInv, NEW w \in Worker, Start(w)
  PROVE  IInv'
<1>1. PICK st : st = [Down EXCEPT !.pc = "poll"]
  OBVIOUS
<1>2. Down \in State
  BY DownState
<1>3. /\ st \in State /\ st.pc = "poll" /\ st.position = 0 /\ st.buffer = <<>>
  BY <1>1, <1>2 DEF State, Down
<1>4. Good(st)
  BY <1>3, LenProperties, EmptySeq, SinkAssumption DEF Good, InLoad, IInv, Typed
<1>5. locked # w /\ owner # w
  BY DEF Start, IInv, WorkersInv, Fetched, InLoad
<1> QED
  BY <1>1, <1>3, <1>4, <1>5, MoveKeeps DEF Start, IInv, Typed, InLoad

\* The new owner begins at the committed offset, with whatever it has buffered.
LEMMA AssignKeeps ==
  ASSUME IInv, NEW w \in Worker, Assign(w)
  PROVE  IInv'
<1>1. PICK st : st = [worker[w] EXCEPT !.position = committed]
  OBVIOUS
<1>2. worker[w] \in State /\ Good(worker[w])
  BY DEF IInv, Typed, WorkersInv
<1>3. /\ st \in State /\ st.pc = worker[w].pc /\ st.position = committed
      /\ st.buffer = worker[w].buffer /\ st.tx = worker[w].tx
  BY <1>1, <1>2 DEF State, IInv, Typed
<1>4. Good(st) /\ Fetched(st)
  BY <1>2, <1>3 DEF Good, Fetched, Assign, IInv, TablesInv, Typed
<1>5. failures' \in 0 .. MaxFailures
  BY SinkAssumption DEF Assign, Fails, IInv, Typed
<1>6. st.pc \in InLoad <=> locked = w
  BY <1>3 DEF IInv, WorkersInv
<1>7. UNCHANGED <<log, committed, tables, locked>> /\ owner' = w /\ Set(w, st)
  BY <1>1 DEF Assign
<1>8. locked \in Worker \cup {Nobody}
  BY DEF IInv, Typed
<1> QED
  BY <1>3, <1>4, <1>5, <1>6, <1>7, <1>8, MoveKeeps

\* A record more in the buffer, or the end of the process.
LEMMA PollKeeps ==
  ASSUME IInv, NEW w \in Worker, Poll(w)
  PROVE  IInv'
<1> DEFINE st0 == worker[w]
<1>1. st0 \in State /\ Good(st0) /\ Fetched(st0) /\ st0.pc = "poll"
  BY DEF IInv, Typed, WorkersInv, Poll, Take
<1>2. failures' \in 0 .. MaxFailures /\ UNCHANGED <<log, committed, tables>>
  BY DEF Poll, Take, IInv, Typed
<1>3. CASE log[st0.position + 1] = Poison
  BY <1>2, <1>3, ExitKeeps DEF Poll, Take
<1>4. CASE log[st0.position + 1] # Poison
  <2>1. PICK e : e = log[st0.position + 1]
    OBVIOUS
  <2>2. st0.position \in Nat /\ st0.position < Len(log) /\ Len(log) \in Nat
    BY <1>1, LenProperties DEF Poll, Take, State, IInv, Typed
  <2>3. e \in Event
    <3>1. st0.position + 1 \in 1 .. Len(log)
      BY <2>2
    <3>2. e \in Event \cup {Poison}
      BY <2>1, <3>1, ElementOfSeq DEF IInv, Typed
    <3> QED
      BY <1>4, <2>1, <3>2
  <2>4. PICK b : b = Append(st0.buffer, e)
    OBVIOUS
  <2>5. /\ b \in Seq(Event) /\ Len(b) = Len(st0.buffer) + 1
        /\ ToSet(b) = ToSet(st0.buffer) \cup {e}
    <3>1. st0.buffer \in Seq(Event)
      BY <1>1 DEF State
    <3> QED
      BY <2>3, <2>4, <3>1, BufferGrows
  <2>6. PICK st : st = [st0 EXCEPT !.position = @ + 1, !.buffer = b]
    OBVIOUS
  <2>7. /\ st \in State /\ st.pc = "poll" /\ st.position = st0.position + 1
        /\ st.buffer = b
    <3>1. st0 = [pc |-> st0.pc, position |-> st0.position, buffer |-> st0.buffer, tx |-> st0.tx]
      BY <1>1 DEF State
    <3>2. st = [pc |-> "poll", position |-> st0.position + 1, buffer |-> b, tx |-> st0.tx]
      BY <1>1, <2>6, <3>1
    <3>3. st0.tx \in Tables /\ st0.position + 1 \in Nat
      BY <1>1 DEF State
    <3> QED
      BY <2>5, <3>2, <3>3 DEF State
  <2>8. Len(st0.buffer) < BatchSize /\ Len(st0.buffer) \in Nat
    BY <1>1, LenProperties DEF Poll, Take, State
  <2>9. Good(st)
    BY <2>2, <2>5, <2>7, <2>8, SinkAssumption DEF Good, InLoad
  <2>10. Fetched(st)
    <3>1. committed \in Nat /\ committed <= st0.position
      BY <1>1 DEF Fetched, IInv, Typed
    <3>2. ASSUME NEW o \in committed + 1 .. st0.position + 1
          PROVE  log[o] \in ToSet(b)
      <4>1. CASE o = st0.position + 1
        BY <2>1, <2>5, <4>1
      <4>2. CASE o # st0.position + 1
        <5>1. o \in committed + 1 .. st0.position
          BY <2>2, <3>1, <4>2
        <5> QED
          BY <1>1, <2>5, <5>1 DEF Fetched
      <4> QED
        BY <4>1, <4>2
    <3> QED
      BY <2>2, <2>7, <3>1, <3>2 DEF Fetched
  <2>11. Set(w, st) /\ UNCHANGED <<owner, locked>>
    BY <1>4, <2>1, <2>4, <2>6 DEF Poll, Take
  <2>12. locked # w /\ locked \in Worker \cup {Nobody} /\ owner \in Worker \cup {Nobody}
    BY <1>1 DEF IInv, Typed, WorkersInv, InLoad
  <2> QED
    BY <1>2, <2>7, <2>9, <2>10, <2>11, <2>12, MoveKeeps DEF InLoad
<1> QED
  BY <1>3, <1>4

\* A statement of the transaction moves the control state and the transaction only.
LEMMA StatementKeeps ==
  ASSUME IInv, NEW w \in Worker, NEW p \in InLoad, NEW x \in Tables,
         Set(w, [worker[w] EXCEPT !.pc = p, !.tx = x]),
         UNCHANGED <<log, committed, owner, tables, failures>>,
         locked = w \/ (locked = Nobody /\ worker[w].pc = "poll"), locked' = w,
         ~ Collision(worker[w].buffer),
         p = "write"   => x = Deleted(tables, worker[w].buffer),
         p = "rebuild" => x = Inserted(tables, worker[w].buffer),
         p = "commit"  => x = Rebuilt(tables, worker[w].buffer)
  PROVE  IInv'
<1>1. PICK st : st = [worker[w] EXCEPT !.pc = p, !.tx = x]
  OBVIOUS
<1>2. worker[w] \in State /\ Good(worker[w])
  BY DEF IInv, Typed, WorkersInv
<1>3. /\ st \in State /\ st.pc = p /\ st.tx = x
      /\ st.position = worker[w].position /\ st.buffer = worker[w].buffer
  <2>1. p \in {"down", "poll", "write", "rebuild", "commit", "offset"}
    BY DEF InLoad
  <2> QED
    BY <1>1, <1>2, <2>1 DEF State
<1>4. Good(st)
  BY <1>2, <1>3 DEF Good, InLoad
<1>5. worker[w].pc # "down"
  BY SinkAssumption DEF IInv, WorkersInv, InLoad
<1>6. owner = w => Fetched(st)
  BY <1>3 DEF Fetched, IInv, WorkersInv, InLoad
<1>7. \A v \in Worker \ {w} : w = v <=> locked = v
  BY SinkAssumption
<1> QED
  BY <1>1, <1>3, <1>4, <1>6, <1>7, MoveKeeps DEF IInv, Typed

\* The deletes see the committed tables.
LEMMA BeginKeeps ==
  ASSUME IInv, NEW w \in Worker, Begin(w)
  PROVE  IInv'
<1>1. PICK x : x = Deleted(tables, worker[w].buffer)
  OBVIOUS
<1>2. worker[w].buffer \in Seq(Event) /\ tables \in Tables
  BY DEF IInv, Typed, State
<1>3. x \in Tables
  BY <1>1, <1>2, DeletedRows
<1> QED
  BY <1>1, <1>3, StatementKeeps DEF Begin, LockEnvelopes, Flushes, Deleted, InLoad

\* The inserts follow the deletes of the same tables.
LEMMA WriteKeeps ==
  ASSUME IInv, NEW w \in Worker, Write(w)
  PROVE  IInv'
<1>1. PICK x : x = Inserted(tables, worker[w].buffer)
  OBVIOUS
<1>2. worker[w].buffer \in Seq(Event) /\ tables \in Tables /\ worker[w] \in State
  BY DEF IInv, Typed, State
<1>3. x \in Tables
  BY <1>1, <1>2, InsertedRows
<1>4. /\ worker[w].tx = Deleted(tables, worker[w].buffer)
      /\ ~ Collision(worker[w].buffer) /\ locked = w
  BY DEF Write, IInv, WorkersInv, Good, InLoad
<1>5. LoadHands(WriteRows(worker[w].tx, Deduplicated(worker[w].buffer)),
                Deduplicated(worker[w].buffer)) = x
  BY <1>1, <1>4 DEF Inserted
<1>6. Set(w, [worker[w] EXCEPT !.pc = "rebuild", !.tx = x])
  BY <1>2, <1>5 DEF Write
<1> QED
  BY <1>1, <1>3, <1>4, <1>6, StatementKeeps DEF Write, InLoad

\* The rebuild sees the tables with the batch.
LEMMA RebuildKeeps ==
  ASSUME IInv, NEW w \in Worker, Rebuild(w)
  PROVE  IInv'
<1>1. PICK x : x = Rebuilt(tables, worker[w].buffer)
  OBVIOUS
<1>2. worker[w].buffer \in Seq(Event) /\ tables \in Tables /\ worker[w] \in State
  BY DEF IInv, Typed, State
<1>3. x \in Tables
  BY <1>1, <1>2, RebuiltRows
<1>4. /\ worker[w].tx = Inserted(tables, worker[w].buffer)
      /\ ~ Collision(worker[w].buffer) /\ locked = w
  BY DEF Rebuild, IInv, WorkersInv, Good, InLoad
<1>5. [worker[w].tx EXCEPT !.history =
         IF \E e \in ToSet(worker[w].buffer) : IsContext(e)
         THEN History(Contexts(worker[w].tx)) ELSE @] = x
  BY <1>1, <1>4 DEF Rebuilt
<1>6. Set(w, [worker[w] EXCEPT !.pc = "commit", !.tx = x])
  BY <1>2, <1>5 DEF Rebuild
<1> QED
  BY <1>1, <1>3, <1>4, <1>6, StatementKeeps DEF Rebuild, InLoad

\* A collision ends the process before its transaction.
LEMMA RefuseKeeps ==
  ASSUME IInv, NEW w \in Worker, Refuse(w)
  PROVE  IInv'
BY ExitKeeps DEF Refuse, IInv, Typed

\* A transaction that is rolled back leaves no trace.
LEMMA DieKeeps ==
  ASSUME IInv, NEW w \in Worker, Die(w)
  PROVE  IInv'
BY ExitKeeps, SinkAssumption DEF Die, Fails, IInv, Typed

\* The COMMIT puts the transaction in the place of the tables: they stay sound, and
\* nobody else is in a transaction that began from the old ones.
LEMMA TablesCommitted ==
  ASSUME IInv, NEW w \in Worker, worker[w].pc = "commit", tables' = worker[w].tx,
         UNCHANGED <<log, committed>>
  PROVE  /\ tables' \in Tables /\ TablesInv'
         /\ \A e \in ToSet(worker[w].buffer) : HasId(tables', e.id)
         /\ \A v \in Worker \ {w} : Good(worker[v]) /\ worker[v].pc \notin InLoad
         /\ \A id : HasId(tables, id) => HasId(tables', id)
<1>1. worker[w].buffer \in Seq(Event) /\ tables \in Tables
  BY DEF IInv, Typed, State
<1>2. tables' = Rebuilt(tables, worker[w].buffer) /\ ~ Collision(worker[w].buffer) /\ locked = w
  BY DEF IInv, WorkersInv, Good, InLoad
<1>3. PICK t, b : t = tables /\ b = worker[w].buffer
  OBVIOUS
<1>4. PICK u : u = Rebuilt(t, b)
  OBVIOUS
<1>5. /\ u \in Tables /\ OnceIn(u) /\ ExactIn(u)
      /\ \A id : HasId(t, id) => HasId(u, id)
      /\ \A e \in ToSet(b) : HasId(u, e.id)
  BY <1>1, <1>2, <1>3, <1>4, RebuiltRows, RebuiltOnce, RebuiltExact, RebuiltIds DEF IInv, TablesInv
<1>6. tables' = u
  BY <1>2, <1>3, <1>4
<1>7. \A v \in Worker \ {w} : Good(worker[v]) /\ worker[v].pc \notin InLoad
  BY <1>2 DEF IInv, WorkersInv
<1>8. TablesInv'
  BY <1>3, <1>5, <1>6 DEF IInv, TablesInv
<1> QED
  BY <1>3, <1>5, <1>6, <1>7, <1>8

\* After the COMMIT the batch is in the tables.
LEMMA CommitTransactionKeeps ==
  ASSUME IInv, NEW w \in Worker, CommitTransaction(w)
  PROVE  IInv'
<1>1. /\ tables' \in Tables /\ TablesInv'
      /\ \A e \in ToSet(worker[w].buffer) : HasId(tables', e.id)
      /\ \A v \in Worker \ {w} : Good(worker[v]) /\ worker[v].pc \notin InLoad
      /\ \A id : HasId(tables, id) => HasId(tables', id)
  BY TablesCommitted DEF CommitTransaction
<1>2. PICK st : st = [worker[w] EXCEPT !.pc = "offset", !.tx = NoTables]
  OBVIOUS
<1>3. NoTables \in Tables
  BY DEF NoTables, Tables
<1>4. /\ st \in State /\ st.pc = "offset"
      /\ st.position = worker[w].position /\ st.buffer = worker[w].buffer
  BY <1>2, <1>3 DEF IInv, Typed, State
<1>5. worker'[w] = st /\ worker' \in [Worker -> State]
      /\ \A v \in Worker \ {w} : worker'[v] = worker[v]
  BY <1>2, <1>4 DEF IInv, Typed, CommitTransaction, Set
<1>6. UNCHANGED <<log, committed, owner, failures>> /\ locked = w /\ locked' = Nobody
  BY DEF CommitTransaction, Unlocked, IInv, WorkersInv, InLoad
<1>7. Typed'
  BY <1>1, <1>5, <1>6 DEF IInv, Typed
<1>8. ASSUME NEW v \in Worker
      PROVE  Good(worker[v])'
  <2>1. CASE v = w
    BY <1>1, <1>4, <1>5, <1>6, <2>1 DEF IInv, WorkersInv, Good, InLoad
  <2>2. CASE v # w
    BY <1>1, <1>5, <1>6, <2>2 DEF Good, InLoad
  <2> QED
    BY <2>1, <2>2
<1>9. ASSUME NEW v \in Worker
      PROVE  (worker[v].pc \in InLoad <=> locked = v)'
  BY <1>1, <1>4, <1>5, <1>6, SinkAssumption DEF InLoad
<1>10. ASSUME NEW v \in Worker
       PROVE  (owner = v => Fetched(worker[v]))'
  BY <1>4, <1>5, <1>6 DEF IInv, WorkersInv, Fetched
<1> QED
  BY <1>1, <1>7, <1>8, <1>9, <1>10 DEF IInv, WorkersInv

\* The COMMIT is applied, and the process that does not know it ends.
LEMMA CommitUnansweredKeeps ==
  ASSUME IInv, NEW w \in Worker, CommitUnanswered(w)
  PROVE  IInv'
<1>1. /\ tables' \in Tables /\ TablesInv'
      /\ \A v \in Worker \ {w} : Good(worker[v]) /\ worker[v].pc \notin InLoad
      /\ \A id : HasId(tables, id) => HasId(tables', id)
  BY TablesCommitted DEF CommitUnanswered
<1>2. Down \in State
  BY DownState
<1>3. worker'[w] = Down /\ worker' \in [Worker -> State]
      /\ \A v \in Worker \ {w} : worker'[v] = worker[v]
  BY <1>2 DEF IInv, Typed, CommitUnanswered, Exit, Set
<1>4. UNCHANGED <<log, committed>> /\ locked = w /\ locked' = Nobody
      /\ owner' = IF owner = w THEN Nobody ELSE owner
  BY DEF CommitUnanswered, Exit, Unlocked, IInv, WorkersInv, InLoad
<1>5. Typed'
  BY <1>1, <1>3, <1>4, SinkAssumption DEF IInv, Typed, CommitUnanswered, Fails
<1>6. Len(<<>>) = 0 /\ Len(log) \in Nat
  BY EmptySeq, LenProperties DEF IInv, Typed
<1>7. ASSUME NEW v \in Worker
      PROVE  Good(worker[v])'
  <2>1. CASE v = w
    BY <1>3, <1>4, <1>6, <2>1, SinkAssumption DEF Good, InLoad, Down
  <2>2. CASE v # w
    BY <1>1, <1>3, <1>4, <2>2 DEF Good, InLoad
  <2> QED
    BY <2>1, <2>2
<1>8. ASSUME NEW v \in Worker
      PROVE  (worker[v].pc \in InLoad <=> locked = v)'
  BY <1>1, <1>3, <1>4, SinkAssumption DEF InLoad, Down
<1>9. ASSUME NEW v \in Worker
      PROVE  (owner = v => Fetched(worker[v]))'
  BY <1>3, <1>4, SinkAssumption DEF IInv, WorkersInv, Fetched
<1> QED
  BY <1>1, <1>5, <1>7, <1>8, <1>9 DEF IInv, WorkersInv

\* The owner commits its position: what lies below it was committed or is in its buffer,
\* and its buffer is loaded.
LEMMA CommitOffsetsKeeps ==
  ASSUME IInv, NEW w \in Worker, CommitOffsets(w)
  PROVE  IInv'
<1>1. PICK st : st = [worker[w] EXCEPT !.pc = "poll", !.buffer = <<>>]
  OBVIOUS
<1>2. <<>> \in Seq(Event) /\ Len(<<>>) = 0
  BY EmptySeq
<1>3. worker[w] \in State /\ Good(worker[w]) /\ Fetched(worker[w]) /\ worker[w].pc = "offset"
  BY DEF IInv, Typed, WorkersInv, CommitOffsets
<1>4. /\ st \in State /\ st.pc = "poll"
      /\ st.position = worker[w].position /\ st.buffer = <<>>
  BY <1>1, <1>2, <1>3 DEF State
<1>5. worker'[w] = st /\ worker' \in [Worker -> State]
      /\ \A v \in Worker \ {w} : worker'[v] = worker[v]
  BY <1>1, <1>4 DEF IInv, Typed, CommitOffsets, Set
<1>6. UNCHANGED <<log, owner, locked, tables, failures>> /\ owner = w
      /\ committed' = worker[w].position /\ committed' \in Nat
  BY <1>3 DEF CommitOffsets, State
<1>7. Typed'
  BY <1>5, <1>6 DEF IInv, Typed
<1>8. ASSUME NEW o \in 1 .. committed'
      PROVE  HasId(tables, log[o].id)
  <2>1. committed \in Nat
    BY DEF IInv, Typed
  <2>2. CASE o <= committed
    BY <2>1, <2>2, <1>6 DEF IInv, TablesInv
  <2>3. CASE ~ (o <= committed)
    <3>1. o \in committed + 1 .. worker[w].position
      BY <1>6, <2>1, <2>3
    <3> QED
      BY <1>3, <3>1 DEF Fetched, Good
  <2> QED
    BY <2>2, <2>3
<1>9. TablesInv'
  BY <1>3, <1>6, <1>8 DEF IInv, TablesInv, Good
<1>10. ASSUME NEW v \in Worker
       PROVE  Good(worker[v])'
  <2>1. CASE v = w
    BY <1>2, <1>3, <1>4, <1>5, <1>6, <2>1, SinkAssumption DEF Good, InLoad
  <2>2. CASE v # w
    BY <1>5, <1>6, <2>2 DEF IInv, WorkersInv, Good
  <2> QED
    BY <2>1, <2>2
<1>11. ASSUME NEW v \in Worker
       PROVE  (worker[v].pc \in InLoad <=> locked = v)'
  BY <1>3, <1>4, <1>5, <1>6 DEF IInv, WorkersInv, InLoad
<1>12. ASSUME NEW v \in Worker
       PROVE  (owner = v => Fetched(worker[v]))'
  BY <1>4, <1>5, <1>6 DEF Fetched
<1> QED
  BY <1>7, <1>9, <1>10, <1>11, <1>12 DEF IInv, WorkersInv

\* A worker that lost the partition drops its batch or ends.
LEMMA CommitNothingKeeps ==
  ASSUME IInv, NEW w \in Worker, CommitNothing(w)
  PROVE  IInv'
<1>1. failures' \in 0 .. MaxFailures /\ UNCHANGED <<log, committed, tables>>
  BY DEF CommitNothing, IInv, Typed
<1>2. CASE Exit(w)
  BY <1>1, <1>2, ExitKeeps
<1>3. CASE Set(w, [worker[w] EXCEPT !.pc = "poll", !.buffer = <<>>]) /\ UNCHANGED <<owner, locked>>
  <2>1. PICK st : st = [worker[w] EXCEPT !.pc = "poll", !.buffer = <<>>]
    OBVIOUS
  <2>2. <<>> \in Seq(Event) /\ Len(<<>>) = 0
    BY EmptySeq
  <2>3. /\ worker[w] \in State /\ Good(worker[w]) /\ worker[w].pc = "offset"
        /\ owner # w /\ locked # w
    BY DEF IInv, Typed, WorkersInv, CommitNothing, InLoad
  <2>4. /\ st \in State /\ st.pc = "poll"
        /\ st.position = worker[w].position /\ st.buffer = <<>>
    BY <2>1, <2>2, <2>3 DEF State
  <2>5. Good(st)
    BY <2>2, <2>3, <2>4, SinkAssumption DEF Good, InLoad
  <2> QED
    BY <1>1, <1>3, <2>1, <2>3, <2>4, <2>5, MoveKeeps DEF InLoad, IInv, Typed
<1> QED
  BY <1>2, <1>3 DEF CommitNothing

\* The topic only grows.
LEMMA ProduceKeeps ==
  ASSUME IInv, NEW r \in Event \cup {Poison}, Produce(r)
  PROVE  IInv'
<1>1. PICK l : l = Append(log, r)
  OBVIOUS
<1>2. /\ l \in Seq(Event \cup {Poison}) /\ Len(l) = Len(log) + 1 /\ Len(log) \in Nat
      /\ \A o \in 1 .. Len(log) : l[o] = log[o]
  BY <1>1, AppendProperties, LenProperties DEF IInv, Typed
<1>3. log' = l /\ UNCHANGED <<committed, owner, worker, locked, tables, failures>>
  BY <1>1 DEF Produce
<1>4. Typed'
  BY <1>2, <1>3 DEF IInv, Typed
<1>5. \A w \in Worker : worker[w].position \in Nat
  BY DEF IInv, Typed, State
<1>6. ASSUME NEW w \in Worker
      PROVE  Good(worker[w])'
  BY <1>2, <1>3, <1>5 DEF IInv, WorkersInv, Good
<1>7. ASSUME NEW w \in Worker, owner = w
      PROVE  Fetched(worker[w])'
  <2>1. Fetched(worker[w]) /\ worker[w].position <= Len(log) /\ committed \in Nat
    BY <1>7 DEF IInv, Typed, WorkersInv, Good
  <2>2. \A o \in committed + 1 .. worker[w].position : l[o] = log[o]
    BY <1>2, <1>5, <2>1
  <2> QED
    BY <1>3, <2>1, <2>2 DEF Fetched
<1>8. WorkersInv'
  BY <1>3, <1>6, <1>7 DEF IInv, WorkersInv
<1>9. TablesInv'
  <2>1. committed \in Nat /\ committed <= Len(log)
    BY DEF IInv, Typed, TablesInv
  <2>2. \A o \in 1 .. committed : l[o] = log[o]
    BY <1>2, <2>1
  <2> QED
    BY <1>2, <1>3, <2>1, <2>2 DEF IInv, TablesInv
<1> QED
  BY <1>4, <1>8, <1>9 DEF IInv

\* No step breaks the invariant.
LEMMA StepKeeps == IInv /\ [Next]_vars => IInv'
<1> SUFFICES ASSUME IInv, [Next]_vars
             PROVE  IInv'
  OBVIOUS
<1>1. ASSUME NEW r \in Event \cup {Poison}, Produce(r)
      PROVE  IInv'
  BY <1>1, ProduceKeeps
<1>2. ASSUME NEW w \in Worker,
             Start(w) \/ Assign(w) \/ Poll(w)
      PROVE  IInv'
  BY <1>2, StartKeeps, AssignKeeps, PollKeeps
<1>3. ASSUME NEW w \in Worker,
             Begin(w) \/ Refuse(w) \/ Write(w) \/ Rebuild(w) \/ CommitTransaction(w)
      PROVE  IInv'
  BY <1>3, BeginKeeps, RefuseKeeps, WriteKeeps, RebuildKeeps, CommitTransactionKeeps
<1>4. ASSUME NEW w \in Worker,
             CommitUnanswered(w) \/ Die(w) \/ CommitOffsets(w) \/ CommitNothing(w)
      PROVE  IInv'
  BY <1>4, CommitUnansweredKeeps, DieKeeps, CommitOffsetsKeeps, CommitNothingKeeps
<1>5. CASE UNCHANGED vars
  <2>1. /\ log' = log /\ committed' = committed /\ owner' = owner /\ worker' = worker
        /\ locked' = locked /\ tables' = tables /\ failures' = failures
    BY <1>5 DEF vars
  <2>2. Typed'
    BY <2>1 DEF IInv, Typed
  <2>3. WorkersInv'
    BY <2>1 DEF IInv, WorkersInv, Good, Fetched
  <2>4. TablesInv'
    BY <2>1 DEF IInv, TablesInv
  <2> QED
    BY <2>2, <2>3, <2>4 DEF IInv
<1> QED
  BY <1>1, <1>2, <1>3, <1>4, <1>5 DEF Next

\* The invariant holds in every state.
LEMMA Invariance == Spec => []IInv
BY InitInv, StepKeeps, PTL DEF Spec

-----------------------------------------------------------------------------
(* The history answers as of any time. *)

\* The context that follows c.
Successors(cs, c) ==
  {d \in cs : Order(c, d) /\ ~ \E x \in cs : Order(c, x) /\ Order(x, d)}

Distinct(cs) == \A c, d \in cs : c.version = d.version => c = d

\* Sound tables have one context per version.
LEMMA VersionsDistinct ==
  ASSUME NEW t, OnceIn(t)
  PROVE  Distinct(Contexts(t))
BY EventAssumption DEF Distinct, Contexts, OnceIn

\* Of contexts with distinct versions, the order is strict and total.
LEMMA OrderTotal ==
  ASSUME NEW cs \in SUBSET Event, Distinct(cs)
  PROVE  /\ \A c \in cs : ~ Order(c, c)
         /\ \A c, d \in cs : Order(c, d) => ~ Order(d, c)
         /\ \A c, d \in cs : c # d => Order(c, d) \/ Order(d, c)
         /\ \A c, d, e \in cs : Order(c, d) /\ Order(d, e) => Order(c, e)
         /\ \A c, d \in cs : Order(c, d) => c.effective <= d.effective
<1>1. \A c \in cs : c.effective \in Nat /\ c.version \in Nat /\ c.id \in Nat
  BY EventAssumption
<1>2. \A c, d \in cs : c # d => c.version # d.version
  BY DEF Distinct
<1> QED
  BY <1>1, <1>2 DEF Order

\* A set of natural numbers has a least one.
LEMMA LeastNumber ==
  ASSUME NEW S \in SUBSET Nat, S # {}
  PROVE  \E n \in S : \A m \in S : n <= m
<1>1. IsWellFoundedOn(OpToRel(<, Nat), Nat)
  BY NatLessThanWellFounded
<1>2. PICK n \in S : \A m \in S : <<m, n>> \notin OpToRel(<, Nat)
  BY <1>1, WFMin
<1>3. \A m \in S : ~ (m < n)
  BY <1>2 DEF OpToRel
<1> QED
  BY <1>3

\* What is followed at all has a successor that nothing precedes.
LEMMA SuccessorExists ==
  ASSUME NEW cs \in SUBSET Event, Distinct(cs), NEW c \in cs, NEW d \in cs, Order(c, d)
  PROVE  \E n \in Successors(cs, c) : n = d \/ Order(n, d)
<1> DEFINE After == {x \in cs : Order(c, x)}
           Times == {x.effective : x \in After}
<1>1. \A x \in cs : x.effective \in Nat /\ x.version \in Nat
  BY EventAssumption
<1>2. PICK m \in Times : \A k \in Times : m <= k
  <2>1. Times \in SUBSET Nat /\ Times # {}
    BY <1>1
  <2> QED
    BY <2>1, LeastNumber
<1> DEFINE First == {x \in After : x.effective = m}
           Versions == {x.version : x \in First}
<1>3. PICK v \in Versions : \A k \in Versions : v <= k
  <2>1. Versions \in SUBSET Nat /\ Versions # {}
    BY <1>1, <1>2
  <2> QED
    BY <2>1, LeastNumber
<1>4. PICK n \in First : n.version = v
  BY <1>3
<1>5. \A x \in After : x = n \/ Order(n, x)
  <2> SUFFICES ASSUME NEW x \in After, x # n
               PROVE  Order(n, x)
    OBVIOUS
  <2>1. x \in cs /\ n \in cs /\ n.effective = m /\ n.effective <= x.effective
    BY <1>2, <1>4
  <2>2. CASE x.effective = m
    <3>1. n.version <= x.version
      BY <1>3, <1>4, <2>2
    <3>2. n.version # x.version
      BY <2>1 DEF Distinct
    <3> QED
      BY <1>1, <2>1, <2>2, <3>1, <3>2 DEF Order
  <2>3. CASE x.effective # m
    BY <1>1, <2>1, <2>3 DEF Order
  <2> QED
    BY <2>2, <2>3
<1>6. n \in Successors(cs, c)
  <2>1. n \in cs /\ Order(c, n)
    BY <1>4
  <2>2. ~ \E x \in cs : Order(c, x) /\ Order(x, n)
    BY <1>5, <2>1, OrderTotal
  <2> QED
    BY <2>1, <2>2 DEF Successors
<1> QED
  BY <1>5, <1>6

Intervals(cs) == {[event |-> c, from |-> c.effective,
                   to |-> {d.effective : d \in Successors(cs, c)}] : c \in cs}

\* With distinct versions no context is superseded, and every one has its interval.
LEMMA HistoryIntervals ==
  ASSUME NEW cs \in SUBSET Event, Distinct(cs)
  PROVE  History(cs) = Intervals(cs)
<1>1. {c \in cs : \A d \in cs : d.version = c.version /\ d # c => Order(d, c)} = cs
  BY DEF Distinct
<1> QED
  BY <1>1 DEF History, Successors, Intervals

\* The interval of the latest context in force covers t, and no other does.
LEMMA IntervalsAnswer ==
  ASSUME NEW cs \in SUBSET Event, Distinct(cs), NEW t \in Nat, NEW c \in cs
  PROVE  (c.effective <= t /\ \A d \in Successors(cs, c) : t < d.effective)
         <=> (c.effective <= t /\ \A d \in cs \ {c} : d.effective <= t => Order(d, c))
<1>1. \A x \in cs : x.effective \in Nat
  BY EventAssumption
<1>2. ASSUME \A d \in Successors(cs, c) : t < d.effective,
             NEW d \in cs \ {c}, d.effective <= t
      PROVE  Order(d, c)
  <2> SUFFICES ASSUME Order(c, d)
               PROVE  FALSE
    BY OrderTotal
  <2>1. PICK n \in Successors(cs, c) : n = d \/ Order(n, d)
    BY SuccessorExists
  <2>2. n \in cs /\ n.effective <= d.effective
    BY <1>1, <2>1, OrderTotal DEF Successors
  <2> QED
    BY <1>1, <1>2, <2>2
<1>3. ASSUME \A d \in cs \ {c} : d.effective <= t => Order(d, c),
             NEW d \in Successors(cs, c)
      PROVE  t < d.effective
  <2>1. d \in cs /\ Order(c, d)
    BY DEF Successors
  <2>2. d # c /\ ~ Order(d, c)
    BY <2>1, OrderTotal
  <2> QED
    BY <1>1, <1>3, <2>1, <2>2
<1> QED
  BY <1>2, <1>3

\* An interval covers t from its beginning until the next one begins.
LEMMA CoveringIntervals ==
  ASSUME NEW cs \in SUBSET Event, NEW t
  PROVE  {i.event : i \in {j \in Intervals(cs) : j.from <= t /\ \A u \in j.to : t < u}}
           = {c \in cs : c.effective <= t /\ \A d \in Successors(cs, c) : t < d.effective}
<1> DEFINE L == {i.event : i \in {j \in Intervals(cs) : j.from <= t /\ \A u \in j.to : t < u}}
           R == {c \in cs : c.effective <= t /\ \A d \in Successors(cs, c) : t < d.effective}
           Interval(c) == [event |-> c, from |-> c.effective,
                           to |-> {d.effective : d \in Successors(cs, c)}]
<1>1. \A c : /\ Interval(c).event = c /\ Interval(c).from = c.effective
             /\ Interval(c).to = {d.effective : d \in Successors(cs, c)}
  OBVIOUS
<1>2. \A i : i \in Intervals(cs) <=> \E c \in cs : i = Interval(c)
  BY DEF Intervals
<1> HIDE DEF Interval
<1>3. \A c : (\A u \in Interval(c).to : t < u) <=> \A d \in Successors(cs, c) : t < d.effective
  BY <1>1
<1>4. ASSUME NEW c \in L PROVE c \in R
  <2>1. PICK i \in Intervals(cs) : i.event = c /\ i.from <= t /\ \A u \in i.to : t < u
    OBVIOUS
  <2>2. PICK d \in cs : i = Interval(d)
    BY <1>2
  <2> QED
    BY <1>1, <1>3, <2>1, <2>2
<1>5. ASSUME NEW c \in R PROVE c \in L
  <2>1. Interval(c) \in Intervals(cs) /\ Interval(c).event = c
    BY <1>1, <1>2
  <2>2. Interval(c).from <= t /\ \A u \in Interval(c).to : t < u
    BY <1>1, <1>3
  <2> QED
    BY <2>1, <2>2
<1> QED
  BY <1>4, <1>5

\* The history of sound tables answers at every time with the context in force.
LEMMA HistoryAnswers ==
  ASSUME OnceIn(tables), ExactIn(tables)
  PROVE  HistoryAnswersAsOf
<1> DEFINE cs == Contexts(tables)
<1>1. cs \in SUBSET Event /\ Distinct(cs)
  BY VersionsDistinct DEF Contexts
<1> SUFFICES ASSUME NEW t \in {e.effective : e \in {x \in Event : IsContext(x)}}
             PROVE  {i.event : i \in {j \in tables.history : j.from <= t /\ \A u \in j.to : t < u}}
                      = AsOf(t)
  BY DEF HistoryAnswersAsOf
<1>2. t \in Nat
  BY EventAssumption
<1>3. tables.history = Intervals(cs)
  BY <1>1, HistoryIntervals DEF ExactIn
<1>4. \A c \in cs : (c.effective <= t /\ \A d \in Successors(cs, c) : t < d.effective)
                    <=> (c.effective <= t /\ \A d \in cs \ {c} : d.effective <= t => Order(d, c))
  BY <1>1, <1>2, IntervalsAnswer
<1>5. AsOf(t) = {c \in cs : c.effective <= t /\ \A d \in cs \ {c} : d.effective <= t => Order(d, c)}
  BY DEF AsOf
<1>6. {i.event : i \in {j \in tables.history : j.from <= t /\ \A u \in j.to : t < u}}
        = {c \in cs : c.effective <= t /\ \A d \in Successors(cs, c) : t < d.effective}
  <2>1. {i.event : i \in {j \in Intervals(cs) : j.from <= t /\ \A u \in j.to : t < u}}
          = {c \in cs : c.effective <= t /\ \A d \in Successors(cs, c) : t < d.effective}
    BY <1>1, CoveringIntervals
  <2> QED
    BY <1>3, <2>1
<1> QED
  BY <1>4, <1>5, <1>6

-----------------------------------------------------------------------------
(* The theorems. *)

\* Every variable keeps its type, the warehouse's tables and every transaction among them,
\* and exactly the worker between the first DELETE and COMMIT holds the lock.
THEOREM TypesKept == Spec => []TypeOK
<1>1. IInv => TypeOK
  <2> SUFFICES ASSUME IInv
               PROVE  TypeOK
    OBVIOUS
  <2>1. Len(log) \in Nat
    BY LenProperties DEF IInv, Typed
  <2>2. committed \in 0 .. Len(log)
    BY <2>1 DEF IInv, Typed, TablesInv
  <2>3. ASSUME NEW w \in Worker
        PROVE  /\ worker[w].position <= Len(log)
               /\ Len(worker[w].buffer) <= BatchSize
               /\ worker[w].pc \in {"write", "rebuild", "commit"} <=> locked = w
    <3>1. worker[w] \in State /\ Good(worker[w])
      BY DEF IInv, Typed, WorkersInv
    <3> QED
      BY <3>1 DEF Good, IInv, WorkersInv, InLoad
  <2> QED
    BY <2>2, <2>3 DEF TypeOK, IInv, Typed
<1> QED
  BY <1>1, Invariance, PTL

\* No offset is committed before its event ID is in the warehouse, whoever owned the
\* partition and wherever a process died (_flush).
THEOREM CommittedLoadedHolds == Spec => []CommittedLoaded
<1>1. IInv => CommittedLoaded
  BY DEF IInv, TablesInv, HasId, CommittedLoaded
<1> QED
  BY <1>1, Invariance, PTL

\* However often an event is produced, replayed or loaded by two workers, its event ID has
\* one row, with one content (load_canonical_events).
THEOREM OneRowPerEventHolds == Spec => []OneRowPerEvent
<1>1. IInv => OneRowPerEvent
  BY DEF IInv, TablesInv, OnceIn, OneRowPerEvent
<1> QED
  BY <1>1, Invariance, PTL

\* In every committed state the history answers at every time with the context that the
\* temporal join would select, whatever the order of the batches (_rebuild_context_history).
THEOREM HistoryAnswersAsOfHolds == Spec => []HistoryAnswersAsOf
<1>1. IInv => HistoryAnswersAsOf
  BY HistoryAnswers DEF IInv, TablesInv
<1> QED
  BY <1>1, Invariance, PTL
=============================================================================
