------------------------ MODULE StreamProcessorProofs ------------------------
(***************************************************************************)
(* Theorems of StreamProcessor, for any hands, pairs, partitions, outputs, *)
(* TTL and number of failures, in three parts: what the tracker waits for; *)
(* what a bucket calls emitted, what is published and dead-lettered; what  *)
(* the group has moved past. Each part has an invariant of its own, which  *)
(* rests on those before it.                                               *)
(***************************************************************************)
EXTENDS StreamProcessor, OffsetTrackerProofs, FiniteSetTheorems

-----------------------------------------------------------------------------
(* The first invariant: the tracker, the waiting records and Handle agree. *)

\* A record that the log holds.
Delivered(r) == r \in Ref /\ r[2] < Len(log[r[1]])

\* Where the group would resume, or began, on the partition.
From(p) == IF committed[p] = NoOffset THEN start[p] ELSE committed[p]

Open(st) == st.seen \ st.done

\* Handle works on a record of the log, and knows why.
HandleInv ==
  /\ step # "poll" => running /\ Delivered(current)
  /\ step = "score" => RecordAt(current) # Poison /\ current \in pending[CurrentHand]
  /\ step = "deadLetter" => /\ current[2] \in Open(tracker[current[1]])
                             /\ \A h \in Hand : current \notin pending[h]

\* A tracker holds what its process fetched and the group did not move past.
TrackedFrom(p) ==
  /\ start[p] <= From(p) /\ From(p) <= Len(log[p])
  /\ tracker[p].done \subseteq tracker[p].seen
  /\ ~ running => tracker[p] = NoState
  /\ running => /\ From(p) <= position[p]
                /\ position[p] <= Len(log[p])
                /\ tracker[p].seen = From(p) .. (position[p] - 1)
                /\ Tracked(tracker[p]) => tracker[p].base = From(p)

TrackerInv == \A p \in Partition : TrackedFrom(p)

\* The records that wait are open in the tracker, with the hand they wait for.
WaitingOpen ==
  \A h \in Hand : \A r \in pending[h] :
    /\ Delivered(r)
    /\ RecordAt(r) # Poison /\ RecordAt(r).hand = h
    /\ r[2] \in Open(tracker[r[1]])

\* An open record waits, or is about to be dead-lettered.
OpenWaiting ==
  \A p \in Partition : \A o \in Open(tracker[p]) :
    \/ \E h \in Hand : <<p, o>> \in pending[h]
    \/ step = "deadLetter" /\ current = <<p, o>>

\* What a bucket emitted is not newer than what it holds.
EmittedHeld(b) == \A q \in Pair : b.emitted[q].rev <= b.pairs[q].rev

BucketsInv == \A h \in Hand : EmittedHeld(buckets[h])

LoopInv == TypeOK /\ HandleInv /\ TrackerInv /\ WaitingOpen /\ OpenWaiting /\ BucketsInv

-----------------------------------------------------------------------------
(* The log. *)

LogType == log \in [Partition -> Seq(Event \cup {Poison})]

\* What the log held it still holds.
LogExtends ==
  \A p \in Partition :
    /\ Len(log[p]) \in Nat /\ Len(log'[p]) \in Nat
    /\ Len(log[p]) <= Len(log'[p])
    /\ \A i \in 1 .. Len(log[p]) : log'[p][i] = log[p][i]

\* A producer's append keeps every record.
LEMMA AppendExtends ==
  ASSUME LogType, NEW p \in Partition, NEW e \in Event \cup {Poison},
         log' = [log EXCEPT ![p] = Append(@, e)]
  PROVE  LogType' /\ LogExtends
<1>1. log[p] \in Seq(Event \cup {Poison})
  BY DEF LogType
<1>2. /\ Append(log[p], e) \in Seq(Event \cup {Poison})
      /\ Len(Append(log[p], e)) = Len(log[p]) + 1
      /\ \A i \in 1 .. Len(log[p]) : Append(log[p], e)[i] = log[p][i]
      /\ Len(log[p]) \in Nat
  BY <1>1
<1>3. LogType'
  BY <1>2 DEF LogType
<1>4. ASSUME NEW q \in Partition
      PROVE  /\ Len(log[q]) \in Nat /\ Len(log'[q]) \in Nat
             /\ Len(log[q]) <= Len(log'[q])
             /\ \A i \in 1 .. Len(log[q]) : log'[q][i] = log[q][i]
  <2>1. CASE q = p
    <3>1. log'[q] = Append(log[p], e)
      BY <2>1 DEF LogType
    <3> QED
      BY <1>2, <2>1, <3>1
  <2>2. CASE q # p
    <3>1. log'[q] = log[q] /\ Len(log[q]) \in Nat
      BY <2>2 DEF LogType
    <3> QED
      BY <3>1
  <2> QED
    BY <2>1, <2>2
<1> QED
  BY <1>3, <1>4 DEF LogExtends

\* A step that leaves the log alone keeps every record.
LEMMA SameExtends ==
  ASSUME LogType, log' = log
  PROVE  LogType' /\ LogExtends
<1>1. \A p \in Partition : Len(log[p]) \in Nat
  BY DEF LogType
<1> QED
  BY <1>1 DEF LogType, LogExtends

\* No step takes a record back.
LEMMA LogStep ==
  ASSUME LogType, [Next]_vars
  PROVE  LogType' /\ LogExtends
<1>1. ASSUME NEW e \in Event, Emit(e) PROVE LogType' /\ LogExtends
  <2>1. e \in Event \cup {Poison} /\ PartitionOf[e.pair] \in Partition
    BY ProcessorAssumption DEF ProcessorAssumption, Event
  <2>2. log' = [log EXCEPT ![PartitionOf[e.pair]] = Append(@, e)]
    BY <1>1 DEF Emit
  <2> QED
    BY <2>1, <2>2, AppendExtends
<1>2. ASSUME NEW p \in Partition, EmitPoison(p) PROVE LogType' /\ LogExtends
  BY <1>2, AppendExtends DEF EmitPoison
<1>3. CASE log' = log
  BY <1>3, SameExtends
<1>4. \/ \E e \in Event : Emit(e)
      \/ \E p \in Partition : EmitPoison(p)
      \/ log' = log
  BY DEF Next, vars, broker, Receive, Tick, Publish, DeadLetter, Commit, PublishFails,
         DeadLetterFails, CommitFails, Crash, ScoreFails, Restart, Die, Exit
<1> QED
  BY <1>1, <1>2, <1>3, <1>4

\* A record of the log is poison or an event, and stays what it is.
LEMMA RecordStays ==
  ASSUME LogType, LogExtends, NEW r, Delivered(r)
  PROVE  /\ RecordAt(r) \in Event \cup {Poison}
         /\ Delivered(r)'
         /\ RecordAt(r)' = RecordAt(r)
<1>1. /\ r[1] \in Partition /\ r[2] \in Nat
      /\ Len(log[r[1]]) \in Nat
      /\ r[2] + 1 \in 1 .. Len(log[r[1]])
  BY DEF Delivered, Ref, LogExtends
<1>2. log[r[1]] \in Seq(Event \cup {Poison})
  BY <1>1 DEF LogType
<1>3. log[r[1]][r[2] + 1] \in Event \cup {Poison}
  BY <1>1, <1>2
<1>4. log'[r[1]][r[2] + 1] = log[r[1]][r[2] + 1] /\ Len(log[r[1]]) <= Len(log'[r[1]])
      /\ Len(log'[r[1]]) \in Nat
  BY <1>1 DEF LogExtends
<1> QED
  BY <1>1, <1>3, <1>4 DEF RecordAt, Delivered

-----------------------------------------------------------------------------
(* LoopInv, one lemma per step. *)

\* An empty topic and a new process.
LEMMA InitLoop == Init => LoopInv
<1> SUFFICES ASSUME Init PROVE LoopInv
  OBVIOUS
<1> USE DEF Init
<1>1. NoState \in TrackerState /\ Open(NoState) = {}
  BY DEF NoState, TrackerState, Open
<1>2. NoBucket \in BucketType
  BY AssemblerAssumption, ProcessorAssumption
     DEF NoBucket, BucketType, Versions, NoSnapshot, AssemblerAssumption, ProcessorAssumption
<1>3. \A p \in Partition : Len(log[p]) = 0
  OBVIOUS
<1>4. TypeOK
  <2>1. log \in [Partition -> Seq(Event \cup {Poison})]
    OBVIOUS
  <2>2. \A p \in Partition : tracker[p].seen \cup tracker[p].done \subseteq Offsets(p)
    BY DEF NoState
  <2>3. failures \in 0 .. MaxFailures
    BY ProcessorAssumption DEF ProcessorAssumption
  <2> QED
    BY <1>1, <1>2, <2>1, <2>2, <2>3 DEF TypeOK, NoOffset, NoRef
<1>5. TrackerInv
  BY <1>3 DEF TrackerInv, TrackedFrom, From, NoState, Tracked
<1>6. HandleInv /\ WaitingOpen /\ OpenWaiting
  BY <1>1 DEF HandleInv, WaitingOpen, OpenWaiting
<1>7. BucketsInv
  BY DEF BucketsInv, EmittedHeld, NoBucket, NoSnapshot
<1> QED
  BY <1>4, <1>5, <1>6, <1>7 DEF LoopInv

\* The producers write only the log.
LEMMA LogOnlyLoop ==
  ASSUME LoopInv, LogType', LogExtends,
         UNCHANGED <<committed, published, dead, running, position, start, memory, step, current, failures>>
  PROVE  LoopInv'
<1>1. /\ committed' = committed /\ published' = published /\ dead' = dead
      /\ running' = running /\ position' = position /\ tracker' = tracker
      /\ buckets' = buckets /\ pending' = pending /\ step' = step
      /\ current' = current /\ failures' = failures /\ start' = start
  BY DEF memory
<1>2. LogType
  BY DEF LoopInv, TypeOK, LogType
<1>3. ASSUME NEW r, Delivered(r)
      PROVE  RecordAt(r) \in Event \cup {Poison} /\ Delivered(r)' /\ RecordAt(r)' = RecordAt(r)
  BY <1>2, <1>3, RecordStays
<1>4. \A p \in Partition : Offsets(p) \subseteq Offsets(p)'
  BY DEF Offsets, LogExtends
<1>5. TypeOK'
  BY <1>1, <1>4 DEF LoopInv, TypeOK, LogType
<1>6. TrackerInv'
  <2> SUFFICES ASSUME NEW p \in Partition PROVE TrackedFrom(p)'
    BY DEF TrackerInv
  <2>1. /\ TrackedFrom(p) /\ committed[p] \in Nat \cup {NoOffset} /\ position[p] \in Nat
        /\ start[p] \in Nat
    BY DEF LoopInv, TrackerInv, TypeOK
  <2>2. Len(log[p]) \in Nat /\ Len(log'[p]) \in Nat /\ Len(log[p]) <= Len(log'[p])
    BY DEF LogExtends
  <2> QED
    BY <1>1, <2>1, <2>2 DEF TrackedFrom, From, NoOffset
<1>7. HandleInv'
  <2>1. CASE step = "poll"
    BY <1>1, <2>1 DEF HandleInv
  <2>2. CASE step # "poll"
    <3>1. /\ running /\ Delivered(current)
      BY <2>2 DEF LoopInv, HandleInv
    <3>2. Delivered(current)' /\ RecordAt(current)' = RecordAt(current)
      <4>1. PICK r : r = current
        OBVIOUS
      <4>2. Delivered(r)' /\ RecordAt(r)' = RecordAt(r)
        BY <1>3, <3>1, <4>1
      <4> QED
        BY <1>1, <4>1, <4>2 DEF Delivered, RecordAt
    <3>3. CurrentHand' = CurrentHand
      BY <3>2 DEF CurrentHand
    <3> QED
      BY <1>1, <3>1, <3>2, <3>3 DEF LoopInv, HandleInv
  <2> QED
    BY <2>1, <2>2
<1>8. WaitingOpen'
  <2> SUFFICES ASSUME NEW h \in Hand, NEW r \in pending[h]
               PROVE  /\ Delivered(r)'
                      /\ RecordAt(r)' # Poison /\ RecordAt(r).hand' = h
                      /\ r[2] \in Open(tracker[r[1]])'
    BY <1>1 DEF WaitingOpen
  <2>1. /\ Delivered(r)
        /\ RecordAt(r) # Poison /\ RecordAt(r).hand = h
        /\ r[2] \in Open(tracker[r[1]])
    BY DEF LoopInv, WaitingOpen
  <2> QED
    BY <1>1, <1>3, <2>1
<1>9. OpenWaiting'
  BY <1>1 DEF LoopInv, OpenWaiting
<1> QED
  BY <1>1, <1>5, <1>6, <1>7, <1>8, <1>9 DEF LoopInv, BucketsInv

\* Time touches only the ages of the buckets.
LEMMA TickLoop ==
  ASSUME LoopInv, Tick PROVE LoopInv'
<1>1. /\ committed' = committed /\ published' = published /\ dead' = dead /\ log' = log
      /\ running' = running /\ position' = position /\ tracker' = tracker
      /\ pending' = pending /\ step' = step
      /\ current' = current /\ failures' = failures /\ start' = start
  BY DEF Tick, broker
<1>2. buckets' \in [Hand -> BucketType]
  <2>1. buckets \in [Hand -> BucketType]
    BY DEF LoopInv, TypeOK
  <2> SUFFICES ASSUME NEW h \in Hand, NEW b \in BucketType, b.age <= TTL
               PROVE  [b EXCEPT !.age = @ + 1] \in BucketType
    BY <2>1 DEF Tick
  <2>2. TTL \in Nat
    BY AssemblerAssumption DEF AssemblerAssumption
  <2> QED
    BY <2>2 DEF BucketType
<1>3. TypeOK'
  BY <1>1, <1>2 DEF LoopInv, TypeOK, Offsets
<1>4. BucketsInv'
  <2>1. \A h \in Hand : buckets'[h].pairs = buckets[h].pairs /\ buckets'[h].emitted = buckets[h].emitted
    <3>1. buckets \in [Hand -> BucketType]
      BY DEF LoopInv, TypeOK
    <3> SUFFICES ASSUME NEW b \in BucketType
                 PROVE  [b EXCEPT !.age = @ + 1].pairs = b.pairs /\ [b EXCEPT !.age = @ + 1].emitted = b.emitted
      BY <3>1 DEF Tick
    <3> QED
      BY DEF BucketType
  <2> QED
    BY <2>1 DEF LoopInv, BucketsInv, EmittedHeld
<1> QED
  BY <1>1, <1>3, <1>4 DEF LoopInv, HandleInv, Delivered, CurrentHand, RecordAt, TrackerInv, TrackedFrom, From,
     WaitingOpen, OpenWaiting

-----------------------------------------------------------------------------
(* The assembler. *)

Statuses == {"stale", "duplicate", "rejected", "incomplete", "complete"}

\* Where the bucket stores the snapshot, its versions change at one pair.
LEMMA StoreFields ==
  ASSUME NEW b \in BucketType, NEW e \in Event
  PROVE  /\ Store(b, e) \in BucketType
         /\ Store(b, e).pairs = [b.pairs EXCEPT ![e.pair] = Snapshot(e)]
         /\ Store(b, e).emitted = b.emitted
         /\ Store(b, e).age = 0
<1>1. /\ TTL \in Nat /\ MaxRevision \in Nat /\ Id \subseteq Nat \ {0}
  BY AssemblerAssumption, ProcessorAssumption DEF AssemblerAssumption, ProcessorAssumption
<1>2. Snapshot(e) \in [rev : 0 .. MaxRevision, id : Id \cup {0}] /\ e.pair \in Pair
  BY <1>1 DEF Snapshot, Event
<1>3. /\ b = [pairs |-> b.pairs, emitted |-> b.emitted, age |-> b.age]
      /\ b.pairs \in Versions /\ b.emitted \in Versions
  BY DEF BucketType
<1>4. Store(b, e) = [pairs |-> [b.pairs EXCEPT ![e.pair] = Snapshot(e)],
                     emitted |-> b.emitted, age |-> 0]
  <2> DEFINE v == [b.pairs EXCEPT ![e.pair] = Snapshot(e)]
             now == [b EXCEPT !.pairs = v]
  <2>1. Store(b, e) = [now EXCEPT !.age = 0]
    BY Zenon DEF Store
  <2> HIDE DEF v
  <2>2. now = [pairs |-> v, emitted |-> b.emitted, age |-> b.age]
    BY DEF BucketType
  <2> HIDE DEF now
  <2>3. [now EXCEPT !.age = 0] = [pairs |-> v, emitted |-> b.emitted, age |-> 0]
    BY <2>2
  <2> QED
    BY <2>1, <2>3 DEF v
<1>5. [b.pairs EXCEPT ![e.pair] = Snapshot(e)] \in Versions
  BY <1>2, <1>3 DEF Versions
<1> QED
  BY <1>1, <1>3, <1>4, <1>5 DEF BucketType

\* What AddDetailed answers, and the bucket it leaves.
LEMMA AddedFields ==
  ASSUME NEW b \in BucketType, NEW e \in Event, EmittedHeld(b)
  PROVE  /\ Added(b, e) \in BucketType /\ Added(b, e).age = 0
         /\ \/ /\ AssemblyStatus(b, e) = "stale"
               /\ e.rev < b.pairs[e.pair].rev
               /\ Added(b, e).pairs = b.pairs /\ Added(b, e).emitted = b.emitted
            \/ /\ AssemblyStatus(b, e) = "duplicate"
               /\ Snapshot(e) = b.pairs[e.pair]
               /\ Added(b, e).pairs = b.pairs /\ Added(b, e).emitted = b.emitted
            \/ /\ AssemblyStatus(b, e) = "rejected"
               /\ e.rev = b.pairs[e.pair].rev /\ Snapshot(e) # b.pairs[e.pair]
               /\ Added(b, e).pairs = b.pairs /\ Added(b, e).emitted = b.emitted
            \/ /\ AssemblyStatus(b, e) \in {"rejected", "incomplete", "complete"}
               /\ b.pairs[e.pair].rev < e.rev
               /\ Added(b, e).pairs = [b.pairs EXCEPT ![e.pair] = Snapshot(e)]
               /\ Added(b, e).emitted = IF AssemblyStatus(b, e) = "complete"
                                        THEN Added(b, e).pairs ELSE b.emitted
               /\ AssemblyStatus(b, e) = "rejected" =>
                    Cardinality(Held(Added(b, e))) > Expected
<1>1. /\ TTL \in Nat /\ MaxRevision \in Nat /\ Id \subseteq Nat \ {0} /\ Expected \in Nat
      /\ IsFiniteSet(Pair)
  BY AssemblerAssumption, ProcessorAssumption DEF AssemblerAssumption, ProcessorAssumption
<1>2. /\ b = [pairs |-> b.pairs, emitted |-> b.emitted, age |-> b.age]
      /\ b.pairs \in Versions /\ b.emitted \in Versions
  BY DEF BucketType
<1>3. e.pair \in Pair /\ e.rev \in Nat /\ b.pairs[e.pair].rev \in Nat
      /\ b.emitted[e.pair].rev \in Nat
      /\ Snapshot(e).rev = e.rev
  BY <1>1, <1>2 DEF Event, Versions, Snapshot
<1> DEFINE touched == [b EXCEPT !.age = 0]
           now == Store(b, e)
<1>4. /\ touched \in BucketType /\ touched.age = 0
      /\ touched.pairs = b.pairs /\ touched.emitted = b.emitted
  <2>1. touched = [pairs |-> b.pairs, emitted |-> b.emitted, age |-> 0]
    BY <1>2
  <2> QED
    BY <1>1, <1>2, <2>1 DEF BucketType
<1>5. /\ now \in BucketType
      /\ now.pairs = [b.pairs EXCEPT ![e.pair] = Snapshot(e)]
      /\ now.emitted = b.emitted
      /\ now.age = 0
  BY StoreFields
<1> HIDE DEF touched, now
<1>6. CASE Stale(b, e)
  <2>1. AssemblyStatus(b, e) = "stale"
    BY <1>3, <1>6 DEF AssemblyStatus, Stale, Repeats
  <2>2. Added(b, e) = touched
    BY <1>6 DEF Added, touched
  <2> QED
    BY <1>4, <1>6, <2>1, <2>2 DEF Stale
<1>7. CASE ~ Stale(b, e) /\ Repeats(b, e)
  <2>1. Added(b, e) = touched
    BY <1>7 DEF Added, touched
  <2>2. CASE Snapshot(e) = b.pairs[e.pair]
    <3>1. AssemblyStatus(b, e) = "duplicate"
      BY <1>7, <2>2 DEF AssemblyStatus
    <3> QED
      BY <1>4, <2>1, <2>2, <3>1
  <2>3. CASE Snapshot(e) # b.pairs[e.pair]
    <3>1. AssemblyStatus(b, e) = "rejected"
      BY <1>7, <2>3 DEF AssemblyStatus
    <3> QED
      BY <1>4, <1>7, <2>1, <2>3, <3>1 DEF Repeats
  <2> QED
    BY <2>2, <2>3
<1>8. CASE ~ Stale(b, e) /\ ~ Repeats(b, e)
  <2>1. b.pairs[e.pair].rev < e.rev
    BY <1>3, <1>8 DEF Stale, Repeats
  <2>2. now.pairs # now.emitted
    <3>1. now.pairs[e.pair] = Snapshot(e)
      BY <1>2, <1>3, <1>5 DEF Versions
    <3>2. b.emitted[e.pair].rev <= b.pairs[e.pair].rev
      BY <1>3 DEF EmittedHeld
    <3> QED
      BY <1>3, <1>5, <2>1, <3>1, <3>2
  <2>3. Cardinality(Held(now)) \in Nat
    <3>1. Held(now) \subseteq Pair
      BY DEF Held
    <3> QED
      BY <1>1, <3>1, FS_Subset, FS_CardinalityType
  <2>4. AssemblyStatus(b, e) = IF Cardinality(Held(now)) > Expected THEN "rejected"
                               ELSE IF Cardinality(Held(now)) < Expected THEN "incomplete"
                               ELSE "complete"
    BY <1>8, <2>2 DEF AssemblyStatus, now
  <2>5. Added(b, e) = IF AssemblyStatus(b, e) = "complete"
                      THEN [now EXCEPT !.emitted = now.pairs] ELSE now
    BY <1>8, Zenon DEF Added, now
  <2>6. CASE AssemblyStatus(b, e) = "complete"
    <3>1. now = [pairs |-> now.pairs, emitted |-> now.emitted, age |-> now.age]
          /\ now.pairs \in Versions /\ now.age \in 0 .. (TTL + 1)
      BY <1>5 DEF BucketType
    <3>2. Added(b, e) = [pairs |-> now.pairs, emitted |-> now.pairs, age |-> now.age]
      BY <2>5, <2>6, <3>1
    <3>3. Added(b, e) \in BucketType
      BY <3>1, <3>2 DEF BucketType
    <3> QED
      BY <1>5, <2>1, <2>6, <3>2, <3>3
  <2>7. CASE AssemblyStatus(b, e) # "complete"
    <3>1. Added(b, e) = now
      BY <2>5, <2>7
    <3>2. AssemblyStatus(b, e) \in {"rejected", "incomplete"}
      BY <2>4, <2>7
    <3>3. AssemblyStatus(b, e) = "rejected" => Cardinality(Held(now)) > Expected
      BY <2>4
    <3> QED
      BY <1>5, <2>1, <2>7, <3>1, <3>2, <3>3
  <2> QED
    BY <2>6, <2>7
<1> QED
  BY <1>6, <1>7, <1>8

\* AddDetailed goes forward in the revisions of every pair.
LEMMA AddedOrder ==
  ASSUME NEW b \in BucketType, NEW e \in Event, EmittedHeld(b)
  PROVE  /\ EmittedHeld(Added(b, e))
         /\ \A q \in Pair : b.pairs[q].rev <= Added(b, e).pairs[q].rev
<1>1. /\ b.pairs \in Versions /\ b.emitted \in Versions
      /\ \A q \in Pair : b.pairs[q].rev \in Nat /\ b.emitted[q].rev \in Nat
      /\ e.pair \in Pair /\ e.rev \in Nat /\ Snapshot(e).rev = e.rev
  BY ProcessorAssumption DEF ProcessorAssumption, BucketType, Versions, Event, Snapshot
<1>2. CASE Added(b, e).pairs = b.pairs /\ Added(b, e).emitted = b.emitted
  BY <1>1, <1>2 DEF EmittedHeld
<1>3. CASE /\ b.pairs[e.pair].rev < e.rev
           /\ Added(b, e).pairs = [b.pairs EXCEPT ![e.pair] = Snapshot(e)]
           /\ Added(b, e).emitted \in {Added(b, e).pairs, b.emitted}
  <2> SUFFICES ASSUME NEW q \in Pair
               PROVE  /\ Added(b, e).emitted[q].rev <= Added(b, e).pairs[q].rev
                      /\ b.pairs[q].rev <= Added(b, e).pairs[q].rev
    BY DEF EmittedHeld
  <2>1. Added(b, e).pairs[q] = IF q = e.pair THEN Snapshot(e) ELSE b.pairs[q]
    BY <1>1, <1>3 DEF Versions
  <2>2. /\ b.pairs[q].rev <= Added(b, e).pairs[q].rev
        /\ Added(b, e).pairs[q].rev \in Nat
    BY <1>1, <1>3, <2>1
  <2>3. b.emitted[q].rev <= b.pairs[q].rev
    BY DEF EmittedHeld
  <2>4. CASE Added(b, e).emitted = b.emitted
    BY <1>1, <2>2, <2>3, <2>4
  <2>5. CASE Added(b, e).emitted = Added(b, e).pairs
    BY <2>2, <2>5
  <2> QED
    BY <1>3, <2>4, <2>5
<1> QED
  BY <1>2, <1>3, AddedFields

\* An expired bucket is an empty one, the others stay.
LEMMA PurgeFields ==
  ASSUME NEW b \in BucketType, EmittedHeld(b)
  PROVE  Purge(b) \in BucketType /\ EmittedHeld(Purge(b))
<1>1. NoBucket \in BucketType
  BY AssemblerAssumption, ProcessorAssumption
     DEF NoBucket, BucketType, Versions, NoSnapshot, AssemblerAssumption, ProcessorAssumption
<1>2. EmittedHeld(NoBucket)
  BY DEF EmittedHeld, NoBucket, NoSnapshot
<1> QED
  BY <1>1, <1>2 DEF Purge

-----------------------------------------------------------------------------
(* The head of Handle. *)

\* Handle cannot accept the record at offset o.
Refuses(p, o) ==
  /\ RecordAt(<<p, o>>) = Poison
  /\ step' = "deadLetter"
  /\ tracker'[p].done = tracker[p].done
  /\ UNCHANGED <<buckets, pending>>

\* The record at offset o is event e of hand h, which AddDetailed answers with status.
Takes(p, o, h, e, status) ==
  /\ RecordAt(<<p, o>>) = e /\ e # Poison /\ h = e.hand
  /\ Purge(buckets[h]) \in BucketType /\ EmittedHeld(Purge(buckets[h]))
  /\ status = AssemblyStatus(Purge(buckets[h]), e)
  /\ buckets' = [[g \in Hand |-> Purge(buckets[g])] EXCEPT ![h] = Added(Purge(buckets[h]), e)]
  /\ step' = AfterAssembly(status)
  /\ pending' = [pending EXCEPT ![h] = IF status \in {"incomplete", "complete"}
                                       THEN @ \cup {<<p, o>>} ELSE @]
  /\ tracker'[p].done = IF status \in Forgotten
                        THEN tracker[p].done \cup {o} ELSE tracker[p].done

\* What Receive does with the record at o: o joins the tracker, and is done at
\* once or waits or is about to be dead-lettered.
LEMMA ReceiveCases ==
  ASSUME LoopInv, NEW p \in Partition, Receive(p), NEW o, o = position[p]
  PROVE  /\ o \in Nat /\ o < Len(log[p]) /\ Delivered(<<p, o>>)
         /\ running /\ step = "poll"
         /\ tracker[p] \in TrackerState
         /\ tracker[p].seen = From(p) .. (o - 1)
         /\ tracker'[p] \in TrackerState
         /\ tracker'[p].seen = tracker[p].seen \cup {o}
         /\ tracker'[p].base = From(p)
         /\ tracker' = [tracker EXCEPT ![p] = tracker'[p]]
         /\ \/ Refuses(p, o)
            \/ \E h \in Hand, e \in Event, status \in Statuses : Takes(p, o, h, e, status)
<1> DEFINE e == RecordAt(<<p, o>>)
           seen == Observe(tracker[p], o)
<1>1. /\ running /\ step = "poll" /\ o < Len(log[p])
      /\ \/ e # Poison /\ Assemble(e, <<p, o>>, seen)
         \/ /\ e = Poison
            /\ step' = "deadLetter"
            /\ tracker' = [tracker EXCEPT ![p] = seen]
            /\ UNCHANGED <<buckets, pending>>
  BY DEF Receive
<1>2. /\ o \in Nat /\ Delivered(<<p, o>>) /\ LogType
      /\ tracker \in [Partition -> TrackerState] /\ tracker[p] \in TrackerState
      /\ buckets \in [Hand -> BucketType]
      /\ pending \in [Hand -> SUBSET Ref]
  BY <1>1 DEF LoopInv, TypeOK, Delivered, Ref, LogType
<1>3. e \in Event \cup {Poison}
  <2>1. LogExtends
    BY <1>2, SameExtends DEF Receive, broker
  <2> QED
    BY <1>2, <2>1, RecordStays
<1>4. /\ tracker[p].seen = From(p) .. (o - 1)
      /\ tracker[p].done \subseteq tracker[p].seen
      /\ From(p) <= o /\ From(p) \in Nat
      /\ Tracked(tracker[p]) => tracker[p].base = From(p)
  BY <1>1 DEF LoopInv, TrackerInv, TrackedFrom, TypeOK, From, NoOffset
<1>5. /\ seen \in TrackerState
      /\ seen.seen = tracker[p].seen \cup {o}
      /\ seen.done = tracker[p].done
      /\ seen.base = From(p)
  <2>1. ~ Tracked(tracker[p]) => o = From(p)
    BY <1>2, <1>4 DEF Tracked
  <2>2. Tracked(tracker[p]) => tracker[p].base <= o
    BY <1>4
  <2>3. /\ seen \in TrackerState
        /\ seen.seen = tracker[p].seen \cup {o}
        /\ seen.done = tracker[p].done
        /\ seen.base = IF Tracked(tracker[p]) THEN tracker[p].base ELSE o
    BY <1>2, <1>4, <2>2, ObserveFields
  <2> QED
    BY <1>4, <2>1, <2>3
<1>6. /\ MarkProcessed(seen, {o}) \in TrackerState
      /\ MarkProcessed(seen, {o}).seen = tracker[p].seen \cup {o}
      /\ MarkProcessed(seen, {o}).done = tracker[p].done \cup {o}
      /\ MarkProcessed(seen, {o}).base = From(p)
  <2> HIDE DEF seen
  <2>1. /\ MarkProcessed(seen, {o}) \in TrackerState
        /\ MarkProcessed(seen, {o}).seen = seen.seen
        /\ MarkProcessed(seen, {o}).done = seen.done \cup ({o} \cap seen.seen)
        /\ MarkProcessed(seen, {o}).base = seen.base
    BY <1>5, MarkFields
  <2> QED
    BY <1>5, <2>1
<1> HIDE DEF seen
<1>7. CASE e = Poison
  <2>1. tracker' = [tracker EXCEPT ![p] = seen] /\ step' = "deadLetter" /\ UNCHANGED <<buckets, pending>>
    BY <1>1, <1>7
  <2>2. tracker'[p] = seen
    BY <1>2, <2>1
  <2> QED
    BY <1>1, <1>2, <1>4, <1>5, <1>7, <2>1, <2>2 DEF Refuses
<1>8. CASE e # Poison
  <2> DEFINE h == e.hand
             b == Purge(buckets[h])
             status == AssemblyStatus(b, e)
  <2>1. e \in Event /\ h \in Hand
    BY <1>3, <1>8 DEF Event
  <2>2. b \in BucketType /\ EmittedHeld(b)
    BY <1>2, <2>1, PurgeFields DEF LoopInv, BucketsInv
  <2>3. status \in Statuses
    <3> HIDE DEF b, e
    <3> QED
      BY <2>1, <2>2, AddedFields DEF Statuses
  <2>4. Assemble(e, <<p, o>>, seen)
    BY <1>1, <1>8
  <2>5. /\ buckets' = [[g \in Hand |-> Purge(buckets[g])] EXCEPT ![h] = Added(b, e)]
        /\ pending' = [pending EXCEPT ![h] = IF status \in {"incomplete", "complete"}
                                             THEN @ \cup {<<p, o>>} ELSE @]
        /\ tracker' = [tracker EXCEPT ![p] = IF status \in Forgotten
                                             THEN MarkProcessed(seen, {o}) ELSE seen]
        /\ step' = AfterAssembly(status)
    <3> HIDE DEF e
    <3>1. [g \in Hand |-> Purge(buckets[g])][h] = b
      BY <2>1
    <3> QED
      BY <2>1, <2>4, <3>1 DEF Assemble, AddPending
  <2>6. tracker'[p] = IF status \in Forgotten THEN MarkProcessed(seen, {o}) ELSE seen
    BY <1>2, <2>5
  <2>7. /\ tracker'[p] \in TrackerState
        /\ tracker'[p].seen = tracker[p].seen \cup {o}
        /\ tracker'[p].base = From(p)
        /\ tracker'[p].done = IF status \in Forgotten THEN tracker[p].done \cup {o} ELSE tracker[p].done
        /\ tracker' = [tracker EXCEPT ![p] = tracker'[p]]
    BY <1>5, <1>6, <2>5, <2>6
  <2> HIDE DEF status, b, e
  <2> QED
    BY <1>1, <1>2, <1>4, <1>8, <2>1, <2>2, <2>3, <2>5, <2>7 DEF Takes, e, b, status
<1> QED
  BY <1>7, <1>8

\* The head of Handle: the record is open and waits, or it is done, or it is
\* current and will be dead-lettered.
LEMMA ReceiveLoop ==
  ASSUME LoopInv, NEW p \in Partition, Receive(p)
  PROVE  LoopInv'
<1>0. PICK o : o = position[p]
  OBVIOUS
<1>1. /\ o \in Nat /\ o < Len(log[p]) /\ Delivered(<<p, o>>)
      /\ running /\ step = "poll"
      /\ tracker[p] \in TrackerState
      /\ tracker[p].seen = From(p) .. (o - 1)
      /\ tracker'[p] \in TrackerState
      /\ tracker'[p].seen = tracker[p].seen \cup {o}
      /\ tracker'[p].base = From(p)
      /\ tracker' = [tracker EXCEPT ![p] = tracker'[p]]
      /\ Refuses(p, o) \/ \E h \in Hand, e \in Event, status \in Statuses : Takes(p, o, h, e, status)
  BY <1>0, ReceiveCases
<1>2. /\ position' = [position EXCEPT ![p] = o + 1] /\ current' = <<p, o>>
      /\ log' = log /\ committed' = committed /\ published' = published /\ dead' = dead
      /\ running' = running /\ failures' = failures /\ start' = start
  BY <1>0 DEF Receive, broker
<1>3. /\ tracker \in [Partition -> TrackerState] /\ position \in [Partition -> Nat]
      /\ pending \in [Hand -> SUBSET Ref] /\ buckets \in [Hand -> BucketType]
      /\ committed \in [Partition -> Nat \cup {NoOffset}] /\ start \in [Partition -> Nat]
      /\ \A q \in Partition : tracker[q].seen \cup tracker[q].done \subseteq Offsets(q)
      /\ \A q \in Partition : TrackedFrom(q)
      /\ \A q \in Partition : Len(log[q]) \in Nat
  BY DEF LoopInv, TypeOK, TrackerInv
<1>4. /\ tracker' \in [Partition -> TrackerState]
      /\ position' \in [Partition -> Nat] /\ position'[p] = o + 1
      /\ \A q \in Partition \ {p} : tracker'[q] = tracker[q] /\ position'[q] = position[q]
  <2>1. /\ tracker' \in [Partition -> TrackerState]
        /\ \A q \in Partition \ {p} : tracker'[q] = tracker[q]
    <3>1. PICK t \in TrackerState : t = tracker'[p]
      BY <1>1
    <3>2. tracker' = [tracker EXCEPT ![p] = t]
      BY <1>1, <3>1
    <3>3. tracker \in [Partition -> TrackerState]
      BY <1>3
    <3> QED
      BY <3>2, <3>3
  <2>2. /\ position' \in [Partition -> Nat] /\ position'[p] = o + 1
        /\ \A q \in Partition \ {p} : position'[q] = position[q]
    <3>1. o + 1 \in Nat
      BY <1>1
    <3>2. position \in [Partition -> Nat]
      BY <1>3
    <3> QED
      BY <1>2, <3>1, <3>2
  <2> QED
    BY <2>1, <2>2
<1>5. /\ tracker[p].done \subseteq tracker[p].seen
      /\ o \notin tracker[p].seen
      /\ From(p) \in Nat /\ From(p) <= o
  BY <1>0, <1>1, <1>3 DEF TrackedFrom, From, NoOffset
<1>6. tracker'[p].done \in {tracker[p].done, tracker[p].done \cup {o}}
  BY <1>1 DEF Takes, Refuses
<1>7. /\ buckets' \in [Hand -> BucketType] /\ BucketsInv'
      /\ step' \in {"deadLetter", "score", "commit"}
      /\ pending' \in [Hand -> SUBSET Ref]
  <2>1. CASE Refuses(p, o)
    BY <1>3, <2>1 DEF Refuses, LoopInv, BucketsInv
  <2>2. ASSUME NEW h \in Hand, NEW e \in Event, NEW status \in Statuses, Takes(p, o, h, e, status)
        PROVE  /\ buckets' \in [Hand -> BucketType] /\ BucketsInv'
               /\ step' \in {"deadLetter", "score", "commit"}
               /\ pending' \in [Hand -> SUBSET Ref]
    <3>1. \A g \in Hand : Purge(buckets[g]) \in BucketType /\ EmittedHeld(Purge(buckets[g]))
      BY <1>3, PurgeFields DEF LoopInv, BucketsInv
    <3>2. Added(Purge(buckets[h]), e) \in BucketType /\ EmittedHeld(Added(Purge(buckets[h]), e))
      BY <3>1, AddedFields, AddedOrder
    <3>3. \A g \in Hand : buckets'[g] = IF g = h THEN Added(Purge(buckets[h]), e) ELSE Purge(buckets[g])
      BY <2>2 DEF Takes
    <3>4. buckets' \in [Hand -> BucketType]
      BY <2>2, <3>1, <3>2 DEF Takes
    <3>5. BucketsInv'
      <4>1. \A g \in Hand : EmittedHeld(buckets'[g])
        BY <3>1, <3>2, <3>3
      <4> QED
        BY <4>1 DEF BucketsInv, EmittedHeld
    <3>6. pending' \in [Hand -> SUBSET Ref]
      <4>1. <<p, o>> \in Ref
        BY <1>1 DEF Delivered
      <4>2. \A g \in Hand : pending[g] \cup {<<p, o>>} \in SUBSET Ref
        BY <1>3, <4>1
      <4> QED
        BY <1>3, <2>2, <4>2 DEF Takes
    <3>7. step' \in {"deadLetter", "score", "commit"}
      BY <2>2 DEF Takes, AfterAssembly
    <3> QED
      BY <3>4, <3>5, <3>6, <3>7
  <2> QED
    BY <1>1, <2>1, <2>2
<1>8. TypeOK'
  <2>1. \A q \in Partition : (tracker'[q].seen \cup tracker'[q].done) \subseteq Offsets(q)
    <3> SUFFICES ASSUME NEW q \in Partition
                 PROVE  (tracker'[q].seen \cup tracker'[q].done) \subseteq Offsets(q)
      OBVIOUS
    <3>1. CASE q = p
      <4>1. o \in Offsets(p)
        BY <1>1, <1>3 DEF Offsets
      <4> QED
        BY <1>1, <1>3, <1>6, <3>1, <4>1
    <3>2. CASE q # p
      BY <1>3, <1>4, <3>2
    <3> QED
      BY <3>1, <3>2
  <2>2. current' \in Ref
    BY <1>1, <1>2 DEF Delivered
  <2> QED
    BY <1>2, <1>4, <1>7, <2>1, <2>2 DEF LoopInv, TypeOK, Offsets
<1>9. TrackerInv'
  <2> SUFFICES ASSUME NEW q \in Partition PROVE TrackedFrom(q)'
    BY DEF TrackerInv
  <2>1. CASE q = p
    <3>1. /\ From(p)' <= Len(log'[p])
          /\ running'
          /\ From(p)' <= position'[p] /\ position'[p] <= Len(log'[p])
          /\ start'[p] <= From(p)'
          /\ tracker'[p].base = From(p)'
      BY <1>1, <1>2, <1>3, <1>4, <1>5 DEF TrackedFrom, From
    <3>2. tracker'[p].seen = From(p)' .. (position'[p] - 1)
      BY <1>1, <1>2, <1>4, <1>5 DEF From
    <3>3. tracker'[p].done \subseteq tracker'[p].seen
      BY <1>1, <1>5, <1>6
    <3> QED
      BY <2>1, <3>1, <3>2, <3>3 DEF TrackedFrom
  <2>2. CASE q # p
    BY <1>2, <1>3, <1>4, <2>2 DEF TrackedFrom, From
  <2> QED
    BY <2>1, <2>2
<1>10. HandleInv' /\ WaitingOpen' /\ OpenWaiting'
  <2>1. \A r : (Delivered(r)' <=> Delivered(r)) /\ RecordAt(r)' = RecordAt(r)
    BY <1>2 DEF Delivered, RecordAt
  <2>2. /\ Delivered(current)' /\ running'
        /\ CurrentHand' = RecordAt(<<p, o>>).hand
        /\ RecordAt(current)' = RecordAt(<<p, o>>)
        /\ current'[1] = p /\ current'[2] = o
    BY <1>1, <1>2 DEF Delivered, CurrentHand, RecordAt
  <2>3. ASSUME NEW h \in Hand, NEW r \in pending[h]
        PROVE  /\ Delivered(r)' /\ RecordAt(r)' # Poison /\ RecordAt(r).hand' = h
               /\ r[2] \in Open(tracker'[r[1]])
    <3>1. /\ Delivered(r) /\ RecordAt(r) # Poison /\ RecordAt(r).hand = h
          /\ r[2] \in Open(tracker[r[1]])
      BY DEF LoopInv, WaitingOpen
    <3>2. r[2] \in Open(tracker'[r[1]])
      <4>1. CASE r[1] = p
        BY <1>1, <1>5, <1>6, <3>1, <4>1 DEF Open
      <4>2. CASE r[1] # p
        <5>1. r[1] \in Partition
          BY <3>1 DEF Delivered, Ref
        <5> QED
          BY <1>4, <3>1, <4>2, <5>1
      <4> QED
        BY <4>1, <4>2
    <3> QED
      BY <2>1, <3>1, <3>2
  <2>4. ASSUME NEW q \in Partition, NEW x \in Open(tracker'[q]), <<q, x>> # <<p, o>>
        PROVE  \E h \in Hand : <<q, x>> \in pending[h]
    <3>1. x \in Open(tracker[q])
      <4>1. CASE q = p
        BY <1>1, <1>6, <2>4, <4>1 DEF Open
      <4>2. CASE q # p
        BY <1>4, <2>4, <4>2
      <4> QED
        BY <4>1, <4>2
    <3> QED
      BY <1>1, <3>1 DEF LoopInv, OpenWaiting
  <2>0. \A h \in Hand : <<p, o>> \notin pending[h]
    BY <1>5 DEF LoopInv, WaitingOpen, Open
  <2>5. CASE Refuses(p, o)
    <3>1. step' = "deadLetter" /\ pending' = pending /\ o \in Open(tracker'[p])
      BY <1>1, <1>5, <2>5 DEF Refuses, Open
    <3>2. HandleInv'
      BY <1>2, <2>0, <2>2, <3>1 DEF HandleInv, Open
    <3>3. WaitingOpen'
      BY <2>3, <3>1 DEF WaitingOpen
    <3>4. OpenWaiting'
      BY <1>2, <2>4, <3>1 DEF OpenWaiting
    <3> QED
      BY <3>2, <3>3, <3>4
  <2>6. ASSUME NEW h \in Hand, NEW e \in Event, NEW status \in Statuses, Takes(p, o, h, e, status)
        PROVE  HandleInv' /\ WaitingOpen' /\ OpenWaiting'
    <3>1. /\ RecordAt(<<p, o>>) = e /\ e # Poison /\ e.hand = h
          /\ step' = AfterAssembly(status)
          /\ tracker'[p].done = IF status \in Forgotten THEN tracker[p].done \cup {o} ELSE tracker[p].done
          /\ \A g \in Hand : pending'[g] = IF g = h /\ status \in {"incomplete", "complete"}
                                           THEN pending[g] \cup {<<p, o>>} ELSE pending[g]
      BY <1>3, <2>6 DEF Takes
    <3>2. status \notin Forgotten => o \in Open(tracker'[p])
      BY <1>1, <1>5, <3>1 DEF Open
    <3>3. WaitingOpen'
      <4> SUFFICES ASSUME NEW g \in Hand, NEW r \in pending'[g]
                   PROVE  /\ Delivered(r)' /\ RecordAt(r)' # Poison /\ RecordAt(r).hand' = g
                          /\ r[2] \in Open(tracker'[r[1]])
        BY DEF WaitingOpen, Open
      <4>1. CASE r \in pending[g]
        BY <2>3, <4>1
      <4>2. CASE r \notin pending[g]
        <5>1. /\ g = h /\ status \in {"incomplete", "complete"} /\ r = <<p, o>>
          BY <3>1, <4>2
        <5>2. status \notin Forgotten
          BY <5>1 DEF Forgotten
        <5>3. r[1] = p /\ r[2] = o /\ Delivered(r) /\ RecordAt(r) = e
          BY <1>1, <3>1, <5>1
        <5> QED
          BY <2>1, <3>1, <3>2, <5>1, <5>2, <5>3
      <4> QED
        BY <4>1, <4>2
    <3>4. OpenWaiting'
      <4> SUFFICES ASSUME NEW q \in Partition, NEW x \in Open(tracker'[q])
                   PROVE  \/ \E g \in Hand : <<q, x>> \in pending'[g]
                          \/ step' = "deadLetter" /\ current' = <<q, x>>
        BY DEF OpenWaiting, Open
      <4>1. CASE <<q, x>> # <<p, o>>
        BY <2>4, <3>1, <4>1
      <4>2. CASE <<q, x>> = <<p, o>>
        <5>1. q = p /\ x = o
          BY <4>2
        <5>2. status \notin Forgotten
          BY <3>1, <5>1 DEF Open
        <5>3. status \in {"incomplete", "complete", "rejected"}
          BY <5>2 DEF Statuses, Forgotten
        <5>4. CASE status = "rejected"
          BY <1>2, <3>1, <5>1, <5>4 DEF AfterAssembly
        <5>5. CASE status # "rejected"
          BY <3>1, <5>1, <5>3, <5>5
        <5> QED
          BY <5>4, <5>5
      <4> QED
        BY <4>1, <4>2
    <3>5. HandleInv'
      <4>1. step' = "score" => status = "complete"
        BY <3>1 DEF AfterAssembly
      <4>2. step' = "deadLetter" => status = "rejected"
        BY <3>1 DEF AfterAssembly
      <4>3. step' = "score" => current' \in pending'[CurrentHand']
        <5>1. CurrentHand' = h
          BY <2>2, <3>1
        <5> QED
          BY <1>2, <3>1, <4>1, <5>1
      <4>4. step' = "deadLetter" => /\ current'[2] \in Open(tracker'[current'[1]])
                                    /\ \A g \in Hand : current' \notin pending'[g]
        BY <1>2, <2>0, <2>2, <3>1, <3>2, <4>2 DEF Forgotten
      <4>5. RecordAt(current)' # Poison
        BY <2>2, <3>1
      <4> QED
        BY <2>2, <4>3, <4>4, <4>5 DEF HandleInv, Open
    <3> QED
      BY <3>3, <3>4, <3>5
  <2> QED
    BY <1>1, <2>5, <2>6
<1> QED
  BY <1>7, <1>8, <1>9, <1>10 DEF LoopInv

-----------------------------------------------------------------------------
(* The end of Handle. *)

\* Where Handle scores, it knows the hand.
LEMMA ScoringHand ==
  ASSUME LoopInv, step = "score"
  PROVE  /\ RecordAt(current) \in Event /\ CurrentHand \in Hand
         /\ running
<1>1. LogType /\ Delivered(current) /\ RecordAt(current) # Poison /\ running
  BY DEF LoopInv, TypeOK, LogType, HandleInv
<1>2. \A q \in Partition : Len(log[q]) \in Nat
  BY <1>1 DEF LogType
<1>3. /\ current[1] \in Partition /\ current[2] \in Nat
      /\ current[2] + 1 \in 1 .. Len(log[current[1]])
  BY <1>1, <1>2 DEF Delivered, Ref
<1>4. RecordAt(current) \in Event \cup {Poison}
  <2>1. log[current[1]] \in Seq(Event \cup {Poison})
    BY <1>1, <1>3 DEF LogType
  <2> QED
    BY <1>3, <2>1 DEF RecordAt
<1> QED
  BY <1>1, <1>4 DEF CurrentHand, Event

\* Publish marks what waited for the hand, and nothing else.
LEMMA MarkedHand ==
  ASSUME LoopInv, NEW h \in Hand, MarkHand(h)
  PROVE  /\ tracker' \in [Partition -> TrackerState]
         /\ \A p \in Partition :
              /\ tracker'[p].seen = tracker[p].seen
              /\ tracker'[p].base = tracker[p].base
              /\ tracker'[p].done = tracker[p].done \cup {o \in tracker[p].seen : <<p, o>> \in pending[h]}
<1> SUFFICES ASSUME NEW p \in Partition
             PROVE  /\ tracker'[p] \in TrackerState
                    /\ tracker'[p].seen = tracker[p].seen
                    /\ tracker'[p].base = tracker[p].base
                    /\ tracker'[p].done = tracker[p].done \cup {o \in tracker[p].seen : <<p, o>> \in pending[h]}
  BY DEF MarkHand
<1> DEFINE S == {o \in tracker[p].seen : <<p, o>> \in pending[h]}
<1>1. tracker[p] \in TrackerState
  BY DEF LoopInv, TypeOK
<1>2. tracker'[p] = MarkProcessed(tracker[p], S)
  BY DEF MarkHand
<1>3. S \cap tracker[p].seen = S
  OBVIOUS
<1> HIDE DEF S
<1>4. /\ MarkProcessed(tracker[p], S) \in TrackerState
      /\ MarkProcessed(tracker[p], S).seen = tracker[p].seen
      /\ MarkProcessed(tracker[p], S).done = tracker[p].done \cup (S \cap tracker[p].seen)
      /\ MarkProcessed(tracker[p], S).base = tracker[p].base
  BY <1>1, MarkFields
<1> QED
  BY <1>2, <1>3, <1>4 DEF S

\* The hand's records leave pending and become done together.
LEMMA PublishLoop ==
  ASSUME LoopInv, Publish
  PROVE  LoopInv'
<1>1. PICK h \in Hand : h = CurrentHand
  BY ScoringHand DEF Publish
<1>2. /\ running /\ step = "score" /\ step' = "commit"
      /\ published' = published \cup Batch(h)
      /\ MarkHand(h)
      /\ pending' = [pending EXCEPT ![h] = {}]
      /\ log' = log /\ committed' = committed /\ dead' = dead /\ running' = running
      /\ position' = position /\ buckets' = buckets /\ current' = current /\ failures' = failures
      /\ start' = start
  BY <1>1 DEF Publish
<1>3. /\ tracker' \in [Partition -> TrackerState]
      /\ \A p \in Partition :
           /\ tracker'[p].seen = tracker[p].seen
           /\ tracker'[p].base = tracker[p].base
           /\ tracker'[p].done = tracker[p].done \cup {o \in tracker[p].seen : <<p, o>> \in pending[h]}
  BY <1>2, MarkedHand
<1>4. /\ pending \in [Hand -> SUBSET Ref] /\ buckets \in [Hand -> BucketType]
      /\ pending' \in [Hand -> SUBSET Ref]
      /\ \A g \in Hand : pending'[g] = IF g = h THEN {} ELSE pending[g]
  BY <1>2 DEF LoopInv, TypeOK
<1>5. TypeOK'
  <2>1. published' \subseteq [hand : Hand, versions : Versions, kind : Output]
    BY <1>2, <1>4 DEF Batch, LoopInv, TypeOK, BucketType
  <2>2. \A p \in Partition : tracker'[p].seen \cup tracker'[p].done \subseteq Offsets(p)
    BY <1>3 DEF LoopInv, TypeOK
  <2> QED
    BY <1>2, <1>3, <1>4, <2>1, <2>2 DEF LoopInv, TypeOK, Offsets
<1>6. TrackerInv'
  <2> SUFFICES ASSUME NEW p \in Partition PROVE TrackedFrom(p)'
    BY DEF TrackerInv
  <2>1. TrackedFrom(p)
    BY DEF LoopInv, TrackerInv
  <2> QED
    BY <1>2, <1>3, <2>1 DEF TrackedFrom, From, Tracked
<1>7. HandleInv'
  BY <1>2 DEF LoopInv, HandleInv, Delivered
<1>8. \A r : (Delivered(r)' <=> Delivered(r)) /\ RecordAt(r)' = RecordAt(r)
  BY <1>2 DEF Delivered, RecordAt
<1>9. WaitingOpen'
  <2> SUFFICES ASSUME NEW g \in Hand, NEW r \in pending'[g]
               PROVE  /\ Delivered(r)' /\ RecordAt(r)' # Poison /\ RecordAt(r).hand' = g
                      /\ r[2] \in Open(tracker'[r[1]])
    BY DEF WaitingOpen, Open
  <2>1. g # h /\ r \in pending[g]
    BY <1>4
  <2>2. /\ Delivered(r) /\ RecordAt(r) # Poison /\ RecordAt(r).hand = g
        /\ r[2] \in Open(tracker[r[1]])
    BY <2>1 DEF LoopInv, WaitingOpen
  <2>3. r \notin pending[h]
    BY <2>1, <2>2 DEF LoopInv, WaitingOpen
  <2>4. r[1] \in Partition /\ r = <<r[1], r[2]>>
    BY <2>2 DEF Delivered, Ref
  <2> QED
    BY <1>3, <1>8, <2>2, <2>3, <2>4 DEF Open
<1>10. OpenWaiting'
  <2> SUFFICES ASSUME NEW p \in Partition, NEW o \in Open(tracker'[p])
               PROVE  \E g \in Hand : <<p, o>> \in pending'[g]
    BY DEF OpenWaiting, Open
  <2>1. o \in Open(tracker[p]) /\ <<p, o>> \notin pending[h]
    BY <1>3 DEF Open
  <2>2. PICK g \in Hand : <<p, o>> \in pending[g]
    BY <1>2, <2>1 DEF LoopInv, OpenWaiting
  <2> QED
    BY <1>4, <2>1, <2>2
<1> QED
  BY <1>2, <1>5, <1>6, <1>7, <1>9, <1>10 DEF LoopInv, BucketsInv

\* The dead-lettered record, the one open record that waits for no hand, is done.
LEMMA DeadLetterLoop ==
  ASSUME LoopInv, DeadLetter
  PROVE  LoopInv'
<1>1. /\ running /\ step = "deadLetter" /\ step' = "commit"
      /\ dead' = dead \cup {current}
      /\ tracker' = [tracker EXCEPT ![current[1]] = MarkProcessed(@, {current[2]})]
      /\ log' = log /\ committed' = committed /\ published' = published /\ running' = running
      /\ position' = position /\ buckets' = buckets /\ pending' = pending
      /\ current' = current /\ failures' = failures /\ start' = start
  BY DEF DeadLetter
<1>2. /\ Delivered(current) /\ current \in Ref /\ current[1] \in Partition
      /\ current = <<current[1], current[2]>>
      /\ current[2] \in Open(tracker[current[1]]) /\ current[2] \in Nat
  BY <1>1 DEF LoopInv, HandleInv, Delivered, Ref
<1>3. PICK p \in Partition, o \in Nat : current = <<p, o>> /\ p = current[1] /\ o = current[2]
  BY <1>2
<1>4. /\ tracker \in [Partition -> TrackerState] /\ tracker[p] \in TrackerState
      /\ o \in Open(tracker[p])
  BY <1>2, <1>3 DEF LoopInv, TypeOK
<1>5. /\ tracker'[p] \in TrackerState
      /\ tracker'[p].seen = tracker[p].seen
      /\ tracker'[p].base = tracker[p].base
      /\ tracker'[p].done = tracker[p].done \cup {o}
  <2>1. tracker'[p] = MarkProcessed(tracker[p], {o})
    BY <1>1, <1>3, <1>4
  <2>2. {o} \cap tracker[p].seen = {o}
    BY <1>4 DEF Open
  <2> QED
    BY <1>4, <2>1, <2>2, MarkFields
<1>6. /\ tracker' \in [Partition -> TrackerState]
      /\ \A q \in Partition \ {p} : tracker'[q] = tracker[q]
  BY <1>1, <1>3, <1>4, <1>5
<1>7. TypeOK'
  <2>1. ASSUME NEW q \in Partition PROVE tracker'[q].seen \cup tracker'[q].done \subseteq Offsets(q)
    BY <1>4, <1>5, <1>6 DEF LoopInv, TypeOK, Open
  <2> QED
    BY <1>1, <1>2, <1>6, <2>1 DEF LoopInv, TypeOK, Offsets
<1>8. TrackerInv'
  <2> SUFFICES ASSUME NEW q \in Partition PROVE TrackedFrom(q)'
    BY DEF TrackerInv
  <2>1. TrackedFrom(q)
    BY DEF LoopInv, TrackerInv
  <2>2. /\ tracker'[q].seen = tracker[q].seen /\ tracker'[q].base = tracker[q].base
        /\ tracker'[q].done \subseteq tracker'[q].seen
    BY <1>4, <1>5, <1>6, <2>1 DEF Open, TrackedFrom
  <2> QED
    BY <1>1, <2>1, <2>2 DEF TrackedFrom, From, Tracked
<1>9. HandleInv'
  BY <1>1, <1>2 DEF HandleInv, Delivered
<1>10. WaitingOpen'
  <2> SUFFICES ASSUME NEW h \in Hand, NEW r \in pending[h]
               PROVE  /\ Delivered(r)' /\ RecordAt(r)' # Poison /\ RecordAt(r).hand' = h
                      /\ r[2] \in Open(tracker'[r[1]])
    BY <1>1 DEF WaitingOpen, Open
  <2>1. /\ Delivered(r) /\ RecordAt(r) # Poison /\ RecordAt(r).hand = h
        /\ r[2] \in Open(tracker[r[1]])
        /\ r[1] \in Partition /\ r = <<r[1], r[2]>>
    BY DEF LoopInv, WaitingOpen, Delivered, Ref
  <2>2. Delivered(r)' /\ RecordAt(r)' = RecordAt(r)
    BY <1>1, <2>1 DEF Delivered, RecordAt
  <2>3. r # current
    BY <1>1 DEF LoopInv, HandleInv
  <2>4. r[2] \in Open(tracker'[r[1]])
    <3>1. CASE r[1] = p
      <4>1. r[2] # o
        BY <1>3, <2>1, <2>3, <3>1
      <4> QED
        BY <1>5, <2>1, <3>1, <4>1 DEF Open
    <3>2. CASE r[1] # p
      BY <1>6, <2>1, <3>2
    <3> QED
      BY <3>1, <3>2
  <2> QED
    BY <2>1, <2>2, <2>4
<1>11. OpenWaiting'
  <2> SUFFICES ASSUME NEW q \in Partition, NEW x \in Open(tracker'[q])
               PROVE  \E g \in Hand : <<q, x>> \in pending[g]
    BY <1>1 DEF OpenWaiting, Open
  <2>1. x \in Open(tracker[q]) /\ <<q, x>> # <<p, o>>
    BY <1>5, <1>6 DEF Open
  <2> QED
    BY <1>3, <2>1 DEF LoopInv, OpenWaiting
<1> QED
  BY <1>1, <1>7, <1>8, <1>9, <1>10, <1>11 DEF LoopInv, BucketsInv

\* What a partition's scan finds: everything below the watermark is done.
LEMMA ReadyFields ==
  ASSUME LoopInv, NEW p \in Partition
  PROVE  /\ Watermark(tracker[p]) \in Nat
         /\ tracker[p].base .. (Watermark(tracker[p]) - 1) \subseteq tracker[p].done
         /\ Acknowledge(tracker[p]) \in TrackerState
         /\ p \in ReadyPartitions =>
              /\ running
              /\ tracker[p].base = From(p)
              /\ From(p) < Watermark(tracker[p])
              /\ Watermark(tracker[p]) <= position[p]
              /\ Acknowledge(tracker[p]).seen = Watermark(tracker[p]) .. (position[p] - 1)
              /\ Acknowledge(tracker[p]).done = tracker[p].done \cap Acknowledge(tracker[p]).seen
              /\ Tracked(Acknowledge(tracker[p])) =>
                   Acknowledge(tracker[p]).base = Watermark(tracker[p])
<1> DEFINE st == tracker[p]
           w == Watermark(st)
<1>1. /\ st \in TrackerState /\ TrackedFrom(p) /\ Len(log[p]) \in Nat
      /\ st.seen \cup st.done \subseteq Offsets(p)
      /\ position[p] \in Nat /\ From(p) \in Nat
  BY DEF LoopInv, TypeOK, TrackerInv, From, NoOffset
<1>2. \A o \in st.done : o < Len(log[p])
  BY <1>1 DEF Offsets
<1>3. /\ w \in Nat /\ st.base <= w
      /\ st.base .. (w - 1) \subseteq st.done
  BY <1>1, <1>2, WatermarkStops
<1>4. st.done \subseteq st.seen
  BY <1>1 DEF TrackedFrom
<1> HIDE DEF st, w
<1>5. /\ Acknowledge(st) \in TrackerState
      /\ Acknowledge(st).seen = st.seen \ (st.base .. (w - 1))
      /\ Acknowledge(st).done = st.done \cap Acknowledge(st).seen
      /\ Tracked(Acknowledge(st)) => Acknowledge(st).base = w
  BY <1>1, <1>3, <1>4, AcknowledgeFields DEF w
<1>6. ASSUME p \in ReadyPartitions
      PROVE  /\ running
             /\ st.base = From(p)
             /\ From(p) < w /\ w <= position[p]
             /\ Acknowledge(st).seen = w .. (position[p] - 1)
  <2>1. st.base < w /\ st.base \in Nat
    BY <1>1, <1>3, <1>6 DEF ReadyPartitions, Ready, st, w, TrackerState
  <2>2. (w - 1) \in st.base .. (w - 1)
    BY <1>3, <2>1
  <2>3. (w - 1) \in st.seen
    BY <1>3, <1>4, <2>2
  <2>4. running
    BY <1>1, <2>3 DEF TrackedFrom, st, NoState
  <2>5. /\ st.base = From(p)
        /\ st.seen = From(p) .. (position[p] - 1)
    BY <1>1, <2>3, <2>4 DEF TrackedFrom, Tracked, st
  <2>6. w <= position[p]
    BY <1>1, <1>3, <2>3, <2>5
  <2> QED
    BY <1>1, <1>3, <1>5, <2>1, <2>4, <2>5, <2>6
<1> QED
  BY <1>3, <1>5, <1>6 DEF st, w

\* Acknowledge drops the offsets below the watermark, all of them done.
LEMMA CommitLoop ==
  ASSUME LoopInv, Commit
  PROVE  LoopInv'
<1>1. /\ running /\ step = "commit" /\ step' = "poll" /\ current' = NoRef
      /\ log' = log /\ published' = published /\ dead' = dead /\ running' = running
      /\ position' = position /\ buckets' = buckets /\ pending' = pending /\ failures' = failures
      /\ start' = start
  BY DEF Commit
<1>2. \A p \in Partition :
        /\ committed'[p] = IF p \in ReadyPartitions THEN Watermark(tracker[p]) ELSE committed[p]
        /\ tracker'[p] = IF p \in ReadyPartitions THEN Acknowledge(tracker[p]) ELSE tracker[p]
  BY DEF Commit, CommitTo
<1>3. /\ committed \in [Partition -> Nat \cup {NoOffset}]
      /\ tracker \in [Partition -> TrackerState]
      /\ position \in [Partition -> Nat] /\ start \in [Partition -> Nat]
      /\ \A p \in Partition : TrackedFrom(p) /\ Len(log[p]) \in Nat
      /\ \A p \in Partition : tracker[p].seen \cup tracker[p].done \subseteq Offsets(p)
  BY DEF LoopInv, TypeOK, TrackerInv
<1>4. /\ committed' \in [Partition -> Nat \cup {NoOffset}]
      /\ tracker' \in [Partition -> TrackerState]
  <2>1. \A p \in Partition : /\ committed'[p] \in Nat \cup {NoOffset}
                             /\ tracker'[p] \in TrackerState
    BY <1>2, <1>3, ReadyFields
  <2>2. /\ committed' = [p \in Partition |-> committed'[p]]
        /\ tracker' = [p \in Partition |-> tracker'[p]]
    BY DEF Commit, CommitTo
  <2> QED
    BY <2>1, <2>2
<1>5. ASSUME NEW p \in Partition
      PROVE  /\ tracker'[p].seen \subseteq tracker[p].seen
             /\ tracker'[p].done = tracker[p].done \cap tracker'[p].seen
             /\ Open(tracker'[p]) = Open(tracker[p])
             /\ TrackedFrom(p)'
  <2>1. CASE p \in ReadyPartitions
    <3> DEFINE st == tracker[p]
               ack == Acknowledge(tracker[p])
               w == Watermark(tracker[p])
    <3>1. /\ committed'[p] = w /\ tracker'[p] = ack
          /\ w \in Nat /\ st.base .. (w - 1) \subseteq st.done
          /\ st.base = From(p)
          /\ From(p) < w /\ w <= position[p]
          /\ ack.seen = w .. (position[p] - 1)
          /\ ack.done = st.done \cap ack.seen
          /\ Tracked(ack) => ack.base = w
      BY <1>2, <2>1, ReadyFields
    <3>2. /\ From(p) \in Nat /\ position[p] \in Nat
          /\ st.seen = From(p) .. (position[p] - 1)
          /\ position[p] <= Len(log[p]) /\ Len(log[p]) \in Nat
          /\ st.done \subseteq st.seen
          /\ start[p] \in Nat /\ start[p] <= From(p)
      BY <1>1, <1>3 DEF TrackedFrom, From, NoOffset
    <3> HIDE DEF st, ack, w
    <3>3. From(p)' = w
      BY <3>1 DEF From, NoOffset
    <3>4. st.seen \ (st.base .. (w - 1)) = ack.seen /\ ack.seen \subseteq st.seen
      BY <3>1, <3>2
    <3>5. Open(ack) = Open(st)
      BY <3>1, <3>4 DEF Open
    <3>6. TrackedFrom(p)'
      BY <1>1, <3>1, <3>2, <3>3 DEF TrackedFrom
    <3> QED
      BY <3>1, <3>4, <3>5, <3>6 DEF st
  <2>2. CASE p \notin ReadyPartitions
    <3>1. committed'[p] = committed[p] /\ tracker'[p] = tracker[p]
      BY <1>2, <2>2
    <3>2. TrackedFrom(p)
      BY <1>3
    <3> QED
      BY <1>1, <3>1, <3>2 DEF TrackedFrom, From
  <2> QED
    BY <2>1, <2>2
<1>6. TypeOK'
  <2>1. \A p \in Partition : tracker'[p].seen \cup tracker'[p].done \subseteq Offsets(p)
    BY <1>3, <1>5
  <2> QED
    BY <1>1, <1>4, <2>1 DEF LoopInv, TypeOK, Offsets
<1>7. TrackerInv'
  BY <1>5 DEF TrackerInv
<1>8. HandleInv'
  BY <1>1 DEF HandleInv
<1>9. WaitingOpen'
  <2> SUFFICES ASSUME NEW h \in Hand, NEW r \in pending[h]
               PROVE  /\ Delivered(r)' /\ RecordAt(r)' # Poison /\ RecordAt(r).hand' = h
                      /\ r[2] \in Open(tracker'[r[1]])
    BY <1>1 DEF WaitingOpen, Open
  <2>1. /\ Delivered(r) /\ RecordAt(r) # Poison /\ RecordAt(r).hand = h
        /\ r[2] \in Open(tracker[r[1]]) /\ r[1] \in Partition
    BY DEF LoopInv, WaitingOpen, Delivered, Ref
  <2> QED
    BY <1>1, <1>5, <2>1 DEF Delivered, RecordAt
<1>10. OpenWaiting'
  <2> SUFFICES ASSUME NEW p \in Partition, NEW o \in Open(tracker'[p])
               PROVE  \E h \in Hand : <<p, o>> \in pending[h]
    BY <1>1 DEF OpenWaiting, Open
  <2> QED
    BY <1>1, <1>5 DEF LoopInv, OpenWaiting
<1> QED
  BY <1>1, <1>6, <1>7, <1>8, <1>9, <1>10 DEF LoopInv, BucketsInv

-----------------------------------------------------------------------------
(* The end of a process, and the next one. *)

\* A process that ends leaves no memory; the group's offsets stay in the log.
LEMMA ExitLoop ==
  ASSUME LoopInv, Exit,
         committed' \in [Partition -> Nat \cup {NoOffset}],
         \A p \in Partition : start[p] <= From(p)' /\ From(p)' <= Len(log[p]),
         published' \subseteq [hand : Hand, versions : Versions, kind : Output],
         dead' \subseteq Ref, failures' \in 0 .. MaxFailures
  PROVE  LoopInv'
<1>1. /\ running' = FALSE /\ step' = "poll" /\ current' = NoRef /\ log' = log
      /\ start' = start
      /\ \A p \in Partition : tracker'[p] = NoState /\ position'[p] = 0
      /\ \A h \in Hand : buckets'[h] = NoBucket /\ pending'[h] = {}
  BY DEF Exit
<1>2. NoState \in TrackerState /\ Open(NoState) = {} /\ NoState.done = {} /\ NoState.seen = {}
  BY DEF NoState, TrackerState, Open
<1>3. NoBucket \in BucketType
  BY AssemblerAssumption, ProcessorAssumption
     DEF NoBucket, BucketType, Versions, NoSnapshot, AssemblerAssumption, ProcessorAssumption
<1>4. EmittedHeld(NoBucket)
  BY DEF EmittedHeld, NoBucket, NoSnapshot
<1>5. TypeOK'
  BY <1>1, <1>2, <1>3 DEF Exit, LoopInv, TypeOK
<1>6. TrackerInv'
  BY <1>1, <1>2 DEF TrackerInv, TrackedFrom
<1>7. HandleInv' /\ WaitingOpen' /\ OpenWaiting'
  BY <1>1, <1>2 DEF HandleInv, WaitingOpen, OpenWaiting, Open
<1>8. BucketsInv'
  BY <1>1, <1>4 DEF BucketsInv, EmittedHeld
<1> QED
  BY <1>5, <1>6, <1>7, <1>8 DEF LoopInv

\* What a failed commit may have done leaves the offsets below the log's end.
LEMMA CommitToFields ==
  ASSUME LoopInv, NEW S \in SUBSET ReadyPartitions, CommitTo(S), start' = start
  PROVE  /\ committed' \in [Partition -> Nat \cup {NoOffset}]
         /\ \A p \in Partition : start[p] <= From(p)' /\ From(p)' <= Len(log[p])
<1> SUFFICES ASSUME NEW p \in Partition
             PROVE  /\ committed'[p] \in Nat \cup {NoOffset}
                    /\ start[p] <= From(p)' /\ From(p)' <= Len(log[p])
  BY DEF CommitTo
<1>1. committed'[p] = IF p \in S THEN Watermark(tracker[p]) ELSE committed[p]
  BY DEF CommitTo
<1>2. /\ committed[p] \in Nat \cup {NoOffset} /\ TrackedFrom(p) /\ Len(log[p]) \in Nat
      /\ position[p] \in Nat /\ start[p] \in Nat /\ From(p) \in Nat
  BY DEF LoopInv, TypeOK, TrackerInv, From, NoOffset
<1>3. CASE p \in S
  <2>1. /\ running /\ Watermark(tracker[p]) \in Nat /\ Watermark(tracker[p]) <= position[p]
        /\ From(p) < Watermark(tracker[p])
    BY <1>3, ReadyFields
  <2>2. position[p] <= Len(log[p]) /\ start[p] <= From(p)
    BY <1>2, <2>1 DEF TrackedFrom
  <2>3. From(p)' = Watermark(tracker[p])
    BY <1>1, <1>3, <2>1 DEF From, NoOffset
  <2> QED
    BY <1>1, <1>2, <1>3, <2>1, <2>2, <2>3
<1>4. CASE p \notin S
  BY <1>1, <1>2, <1>4 DEF TrackedFrom, From
<1> QED
  BY <1>3, <1>4

\* A failed commit may have moved the group on some ready partitions.
LEMMA FailureLoop ==
  ASSUME LoopInv, PublishFails \/ DeadLetterFails \/ CommitFails \/ Crash \/ ScoreFails
  PROVE  LoopInv'
<1>1. /\ committed \in [Partition -> Nat \cup {NoOffset}]
      /\ \A p \in Partition : start[p] <= From(p) /\ From(p) <= Len(log[p])
      /\ published \subseteq [hand : Hand, versions : Versions, kind : Output]
      /\ dead \subseteq Ref /\ failures \in 0 .. MaxFailures /\ MaxFailures \in Nat
  BY ProcessorAssumption DEF ProcessorAssumption, LoopInv, TypeOK, TrackerInv, TrackedFrom
<1>2. /\ Die => failures' \in 0 .. MaxFailures /\ Exit
      /\ start' = start
      /\ committed' = committed => \A p \in Partition : From(p)' = From(p)
  BY <1>1 DEF Die, Exit, From, PublishFails, DeadLetterFails, CommitFails, Crash, ScoreFails
<1>3. CASE PublishFails
  <2>1. PICK part \in SUBSET Batch(CurrentHand) : published' = published \cup part
    BY <1>3 DEF PublishFails
  <2>2. CurrentHand \in Hand /\ buckets[CurrentHand] \in BucketType
    BY <1>3, ScoringHand DEF PublishFails, LoopInv, TypeOK
  <2>3. Batch(CurrentHand) \subseteq [hand : Hand, versions : Versions, kind : Output]
    BY <2>2 DEF Batch, BucketType
  <2>4. /\ published' \subseteq [hand : Hand, versions : Versions, kind : Output]
        /\ committed' = committed /\ dead' = dead /\ Die
    BY <1>1, <1>3, <2>1, <2>3 DEF PublishFails
  <2> QED
    BY <1>1, <1>2, <2>4, ExitLoop
<1>4. CASE DeadLetterFails
  <2>1. /\ published' = published /\ committed' = committed /\ Die
        /\ dead' \in {dead, dead \cup {current}}
        /\ step = "deadLetter"
    BY <1>4 DEF DeadLetterFails
  <2>2. dead' \subseteq Ref
    BY <1>1, <2>1 DEF LoopInv, HandleInv, Delivered
  <2> QED
    BY <1>1, <1>2, <2>1, <2>2, ExitLoop
<1>5. CASE CommitFails
  <2>1. PICK S \in SUBSET ReadyPartitions : CommitTo(S)
    BY <1>5 DEF CommitFails
  <2>2. published' = published /\ dead' = dead /\ Die
    BY <1>5 DEF CommitFails
  <2> QED
    BY <1>1, <1>2, <2>1, <2>2, CommitToFields, ExitLoop
<1>6. CASE Crash
  BY <1>1, <1>2, <1>6, ExitLoop DEF Crash
<1>7. CASE ScoreFails
  BY <1>1, <1>2, <1>7, ExitLoop DEF ScoreFails
<1> QED
  BY <1>3, <1>4, <1>5, <1>6, <1>7

\* The next process starts with an empty tracker at the group's offsets.
LEMMA RestartLoop ==
  ASSUME LoopInv, Restart
  PROVE  LoopInv'
<1>1. /\ ~ running /\ running' = TRUE
      /\ position' = [p \in Partition |-> StartOffset(p)]
      /\ start' = [p \in Partition |-> IF committed[p] = NoOffset THEN StartOffset(p) ELSE start[p]]
      /\ log' = log /\ committed' = committed /\ published' = published /\ dead' = dead
      /\ tracker' = tracker /\ buckets' = buckets /\ pending' = pending
      /\ step' = step /\ current' = current /\ failures' = failures
  BY DEF Restart, broker, memory
<1>2. step = "poll"
  BY <1>1 DEF LoopInv, HandleInv
<1>3. ASSUME NEW p \in Partition
      PROVE  /\ tracker[p] = NoState /\ position'[p] = From(p)'
             /\ start'[p] \in Nat /\ From(p)' \in Nat
             /\ start'[p] <= From(p)' /\ From(p)' <= Len(log[p])
  <2>1. /\ tracker[p] = NoState /\ start[p] <= From(p) /\ From(p) <= Len(log[p])
        /\ committed[p] \in Nat \cup {NoOffset} /\ start[p] \in Nat /\ Len(log[p]) \in Nat
    BY <1>1 DEF LoopInv, TrackerInv, TrackedFrom, TypeOK
  <2>2. /\ position'[p] = StartOffset(p) /\ committed'[p] = committed[p]
        /\ start'[p] = IF committed[p] = NoOffset THEN StartOffset(p) ELSE start[p]
    BY <1>1
  <2> QED
    BY <2>1, <2>2 DEF StartOffset, From, NoOffset
<1>4. TypeOK'
  <2>1. \A p \in Partition : StartOffset(p) \in Nat
    BY DEF LoopInv, TypeOK, StartOffset, NoOffset
  <2>2. position' \in [Partition -> Nat] /\ start' \in [Partition -> Nat]
    BY <1>1, <2>1 DEF LoopInv, TypeOK
  <2> QED
    BY <1>1, <2>2 DEF LoopInv, TypeOK, Offsets
<1>5. TrackerInv'
  <2> SUFFICES ASSUME NEW p \in Partition PROVE TrackedFrom(p)'
    BY DEF TrackerInv
  <2>1. NoState.seen = From(p)' .. (From(p)' - 1)
        /\ NoState.done = {} /\ NoState.seen = {}
    BY <1>3 DEF NoState
  <2>2. /\ tracker'[p] = NoState /\ position'[p] = From(p)'
        /\ log'[p] = log[p] /\ running'
    BY <1>1, <1>3
  <2> QED
    BY <1>3, <2>1, <2>2 DEF TrackedFrom, Tracked
<1>6. HandleInv' /\ WaitingOpen' /\ OpenWaiting' /\ BucketsInv'
  BY <1>1, <1>2 DEF LoopInv, HandleInv, WaitingOpen, OpenWaiting, BucketsInv, Delivered, RecordAt
<1> QED
  BY <1>4, <1>5, <1>6 DEF LoopInv

\* No step breaks the first invariant.
LEMMA NextLoop ==
  ASSUME LoopInv, [Next]_vars
  PROVE  LoopInv'
<1>1. LogType' /\ LogExtends
  BY LogStep DEF LoopInv, TypeOK, LogType
<1>2. ASSUME NEW e \in Event, Emit(e) PROVE LoopInv'
  BY <1>1, <1>2, LogOnlyLoop DEF Emit
<1>3. ASSUME NEW p \in Partition, EmitPoison(p) PROVE LoopInv'
  BY <1>1, <1>3, LogOnlyLoop DEF EmitPoison
<1>4. CASE UNCHANGED vars
  BY <1>1, <1>4, LogOnlyLoop DEF vars, broker
<1> QED
  BY <1>2, <1>3, <1>4, TickLoop, ReceiveLoop, PublishLoop, DeadLetterLoop, CommitLoop,
     FailureLoop, RestartLoop DEF Next

-----------------------------------------------------------------------------
(* What the first invariant shows. *)

\* The first invariant is inductive: it holds in every state.
LEMMA LoopHolds == SafetySpec => []LoopInv
<1>1. LoopInv /\ [Next]_vars => LoopInv'
  BY NextLoop
<1> QED
  BY <1>1, InitLoop, PTL DEF SafetySpec

\* The state has its types.
THEOREM TypesKept == SafetySpec => []TypeOK
<1>1. LoopInv => TypeOK
  BY DEF LoopInv
<1> QED
  BY <1>1, LoopHolds, PTL

\* Between two records the tracker waits for nothing but the records of resident
\* hands, and every record that waits for its hand is open in the tracker.
THEOREM PendingExactHolds == SafetySpec => []PendingExact
<1>1. LoopInv => PendingExact
  BY DEF LoopInv, WaitingOpen, OpenWaiting, PendingExact, Open
<1> QED
  BY <1>1, LoopHolds, PTL

-----------------------------------------------------------------------------
(***************************************************************************)
(* The second invariant of StreamProcessor: buckets, batches and dead      *)
(* letters agree with the log. What a bucket holds is the snapshot of a    *)
(* record, what it calls emitted is whole in the output topic or is about  *)
(* to be, and what is dead-lettered is wrong in a way that the log shows.  *)
(***************************************************************************)

\* The log holds the snapshot s of pair q of hand h.
Logged(h, q, s) ==
  \E o \in Offsets(PartitionOf[q]) :
    /\ RecordAt(<<PartitionOf[q], o>>) # Poison
    /\ RecordAt(<<PartitionOf[q], o>>).hand = h
    /\ RecordAt(<<PartitionOf[q], o>>).pair = q
    /\ Snapshot(RecordAt(<<PartitionOf[q], o>>)) = s

\* A pair's records lie in its partition.
LogPlaced ==
  \A p \in Partition : \A o \in Offsets(p) :
    RecordAt(<<p, o>>) # Poison => PartitionOf[RecordAt(<<p, o>>).pair] = p

SnapshotsLogged ==
  \A h \in Hand : \A q \in Pair :
    buckets[h].pairs[q] # NoSnapshot => Logged(h, q, buckets[h].pairs[q])

\* The whole batch of a hand's versions is among the records.
WholeIn(records, h, v) ==
  \A k \in Output : [hand |-> h, versions |-> v, kind |-> k] \in records

\* What is emitted is published, or is about to be.
EmittedInv ==
  /\ \A h \in Hand : buckets[h].emitted # NoBucket.emitted =>
       \/ WholeIn(published, h, buckets[h].emitted)
       \/ step = "score" /\ h = CurrentHand
  /\ step = "score" => buckets[CurrentHand].emitted = buckets[CurrentHand].pairs

\* A second event ID for a revision of the pair is in the log.
Contradicted(e) ==
  \E p \in Partition : \E o \in Offsets(p) :
    /\ RecordAt(<<p, o>>) # Poison
    /\ RecordAt(<<p, o>>) # e
    /\ [RecordAt(<<p, o>>) EXCEPT !.id = e.id] = e

\* The log holds too many pair identities of the hand.
Crowded(h) == Cardinality({q \in Pair : Revisions(h, q) # {}}) > Expected

Justified(e) == e = Poison \/ Contradicted(e) \/ Crowded(e.hand)

DeadInv ==
  /\ \A d \in dead : Delivered(d) /\ Justified(RecordAt(d))
  /\ step = "deadLetter" => Justified(RecordAt(current))

BatchInv == LogPlaced /\ SnapshotsLogged /\ EmittedInv /\ DeadInv /\ PublishedWhole

IInv == LoopInv /\ BatchInv

\* The batches that are whole among the records.
BatchesIn(records) ==
  {[hand |-> out.hand, versions |-> out.versions] :
     out \in {x \in records : \A k \in Output : [x EXCEPT !.kind = k] \in records}}

OutputRecord == [hand : Hand, versions : Versions, kind : Output]

\* A hand's versions are a whole batch exactly if every record of it is durable.
LEMMA BatchesWhole ==
  ASSUME NEW records, records \subseteq OutputRecord, NEW h, NEW v
  PROVE  [hand |-> h, versions |-> v] \in BatchesIn(records) <=> WholeIn(records, h, v)
<1>1. ASSUME [hand |-> h, versions |-> v] \in BatchesIn(records) PROVE WholeIn(records, h, v)
  <2>1. PICK out \in records :
          /\ \A k \in Output : [out EXCEPT !.kind = k] \in records
          /\ [hand |-> h, versions |-> v] = [hand |-> out.hand, versions |-> out.versions]
    BY <1>1 DEF BatchesIn
  <2>2. out.hand = h /\ out.versions = v
    BY <2>1
  <2>3. \A k \in Output : [out EXCEPT !.kind = k] = [hand |-> h, versions |-> v, kind |-> k]
    BY <2>2 DEF OutputRecord
  <2> QED
    BY <2>1, <2>3 DEF WholeIn
<1>2. ASSUME WholeIn(records, h, v) PROVE [hand |-> h, versions |-> v] \in BatchesIn(records)
  <2>1. PICK k \in Output : TRUE
    BY ProcessorAssumption DEF ProcessorAssumption
  <2> DEFINE out == [hand |-> h, versions |-> v, kind |-> k]
  <2>2. out \in records
    BY <1>2, <2>1 DEF WholeIn
  <2>3. \A j \in Output : [out EXCEPT !.kind = j] = [hand |-> h, versions |-> v, kind |-> j]
    OBVIOUS
  <2>4. \A j \in Output : [out EXCEPT !.kind = j] \in records
    BY <1>2, <2>3 DEF WholeIn
  <2>5. out.hand = h /\ out.versions = v
    OBVIOUS
  <2> HIDE DEF out
  <2> QED
    BY <2>2, <2>4, <2>5 DEF BatchesIn
<1> QED
  BY <1>1, <1>2

\* Whatever the log says of a snapshot, a hand or a dead letter stays true.
LEMMA LogFactsStay ==
  ASSUME LogType, LogExtends
  PROVE  /\ \A h : \A q \in Pair : \A s : Logged(h, q, s) => Logged(h, q, s)'
         /\ \A h : \A q \in Pair : Revisions(h, q) \subseteq Revisions(h, q)'
         /\ \A e : Justified(e) => Justified(e)'
<1>1. ASSUME NEW p \in Partition, NEW o \in Offsets(p)
      PROVE  o \in Offsets(p)' /\ RecordAt(<<p, o>>)' = RecordAt(<<p, o>>)
  BY DEF Offsets, LogExtends, RecordAt
<1>2. \A q \in Pair : PartitionOf[q] \in Partition
  BY ProcessorAssumption DEF ProcessorAssumption
<1>3. ASSUME NEW h, NEW q \in Pair, NEW s, Logged(h, q, s) PROVE Logged(h, q, s)'
  BY <1>1, <1>2, <1>3 DEF Logged
<1>4. ASSUME NEW h, NEW q \in Pair PROVE Revisions(h, q) \subseteq Revisions(h, q)'
  BY <1>1, <1>2 DEF Revisions
<1>5. ASSUME NEW e, Justified(e) PROVE Justified(e)'
  <2>1. CASE e = Poison
    BY <2>1 DEF Justified
  <2>2. CASE Contradicted(e)
    <3>1. Contradicted(e)'
      BY <1>1, <2>2 DEF Contradicted
    <3> QED
      BY <3>1 DEF Justified
  <2>3. CASE Crowded(e.hand)
    <3> DEFINE S == {q \in Pair : Revisions(e.hand, q) # {}}
               T == {q \in Pair : Revisions(e.hand, q)' # {}}
    <3>1. S \subseteq T /\ T \subseteq Pair /\ IsFiniteSet(Pair) /\ Expected \in Nat
      BY <1>4, AssemblerAssumption DEF AssemblerAssumption
    <3>2. IsFiniteSet(T) /\ IsFiniteSet(S)
      BY <3>1, FS_Subset
    <3>3. Cardinality(S) <= Cardinality(T) /\ Cardinality(S) \in Nat /\ Cardinality(T) \in Nat
      BY <3>1, <3>2, FS_Subset, FS_CardinalityType
    <3>4. Cardinality(S) > Expected
      BY <2>3 DEF Crowded
    <3>5. Cardinality(T) > Expected
      BY <3>1, <3>3, <3>4
    <3> QED
      BY <3>5 DEF Justified, Crowded
  <2> QED
    BY <1>5, <2>1, <2>2, <2>3 DEF Justified
<1> QED
  BY <1>3, <1>4, <1>5

\* The producers put a pair's records into its partition.
LEMMA PlacedStep ==
  ASSUME LogType, LogPlaced, [Next]_vars
  PROVE  LogPlaced'
<1>1. ASSUME NEW p \in Partition, NEW e \in Event \cup {Poison},
             log' = [log EXCEPT ![p] = Append(@, e)], e # Poison => PartitionOf[e.pair] = p
      PROVE  LogPlaced'
  <2> SUFFICES ASSUME NEW q \in Partition, NEW o \in Offsets(q)', RecordAt(<<q, o>>)' # Poison
               PROVE  PartitionOf[RecordAt(<<q, o>>)'.pair] = q
    BY DEF LogPlaced
  <2>1. log[p] \in Seq(Event \cup {Poison}) /\ Len(log[p]) \in Nat
    BY DEF LogType
  <2>2. CASE o \in Offsets(q)
    <3>1. RecordAt(<<q, o>>)' = RecordAt(<<q, o>>)
      BY <1>1, <2>2, AppendExtends DEF LogExtends, Offsets, RecordAt
    <3> QED
      BY <2>2, <3>1 DEF LogPlaced
  <2>3. CASE o \notin Offsets(q)
    <3>1. q = p
      BY <1>1, <2>3 DEF Offsets, LogType
    <3>2. log'[p] = Append(log[p], e)
      BY <1>1 DEF LogType
    <3>3. o = Len(log[p])
      BY <2>1, <2>3, <3>1, <3>2 DEF Offsets
    <3>4. RecordAt(<<q, o>>)' = e
      BY <2>1, <3>1, <3>2, <3>3 DEF RecordAt
    <3> QED
      BY <1>1, <3>1, <3>4
  <2> QED
    BY <2>2, <2>3
<1>2. ASSUME NEW e \in Event, Emit(e) PROVE LogPlaced'
  <2>1. PartitionOf[e.pair] \in Partition
    BY ProcessorAssumption DEF ProcessorAssumption, Event
  <2>2. log' = [log EXCEPT ![PartitionOf[e.pair]] = Append(@, e)]
    BY <1>2 DEF Emit
  <2> QED
    BY <1>1, <2>1, <2>2
<1>3. ASSUME NEW p \in Partition, EmitPoison(p) PROVE LogPlaced'
  BY <1>1, <1>3 DEF EmitPoison
<1>4. CASE log' = log
  BY <1>4 DEF LogPlaced, Offsets, RecordAt
<1>5. \/ \E e \in Event : Emit(e)
      \/ \E p \in Partition : EmitPoison(p)
      \/ log' = log
  BY DEF Next, vars, broker, Receive, Tick, Publish, DeadLetter, Commit, PublishFails,
         DeadLetterFails, CommitFails, Crash, ScoreFails, Restart, Die, Exit
<1> QED
  BY <1>2, <1>3, <1>4, <1>5

\* What the next log justifies for a record, it justifies for the record at its place.
LEMMA JustifiedAt ==
  ASSUME NEW d, NEW e, RecordAt(d)' = e, Justified(e)'
  PROVE  Justified(RecordAt(d))'
<1>1. e = log'[d[1]][d[2] + 1]
  BY DEF RecordAt
<1>2. CASE e = Poison
  BY <1>1, <1>2 DEF Justified, RecordAt
<1>3. CASE Contradicted(e)'
  <2>1. Contradicted(RecordAt(d))'
    BY <1>1, <1>3 DEF Contradicted, RecordAt
  <2> QED
    BY <2>1 DEF Justified
<1>4. CASE Crowded(e.hand)'
  <2>1. Crowded(RecordAt(d).hand)'
    BY <1>1, <1>4 DEF Crowded, Revisions, RecordAt
  <2> QED
    BY <2>1 DEF Justified
<1> QED
  BY <1>2, <1>3, <1>4 DEF Justified

\* While the log stays, so do its dead letters.
LEMMA JustifiedKept ==
  ASSUME log' = log, NEW d, Delivered(d), Justified(RecordAt(d))
  PROVE  Delivered(d)' /\ Justified(RecordAt(d))'
<1>1. PICK e : e = RecordAt(d)
  OBVIOUS
<1>2. RecordAt(d)' = e
  BY <1>1 DEF RecordAt
<1>3. Justified(e)'
  <2>1. Justified(e)
    BY <1>1
  <2>2. Contradicted(e) => Contradicted(e)'
    BY DEF Contradicted, Offsets, RecordAt
  <2>3. \A h, q : Revisions(h, q)' = Revisions(h, q)
    BY DEF Revisions, Offsets, RecordAt
  <2>4. Crowded(e.hand) => Crowded(e.hand)'
    BY <2>3 DEF Crowded
  <2> QED
    BY <2>1, <2>2, <2>4 DEF Justified
<1>4. Delivered(d)'
  BY DEF Delivered
<1> QED
  BY <1>2, <1>3, <1>4, JustifiedAt

\* The dead letters stay what they are.
LEMMA DeadStay ==
  ASSUME LoopInv, DeadInv, LogType', LogExtends
  PROVE  \A d \in dead : Delivered(d)' /\ Justified(RecordAt(d))'
<1> SUFFICES ASSUME NEW d \in dead PROVE Delivered(d)' /\ Justified(RecordAt(d))'
  OBVIOUS
<1>1. LogType /\ Delivered(d) /\ Justified(RecordAt(d))
  BY DEF LoopInv, TypeOK, LogType, DeadInv
<1>2. Delivered(d)' /\ RecordAt(d)' = RecordAt(d)
  BY <1>1, RecordStays
<1>3. PICK e : e = RecordAt(d)
  OBVIOUS
<1>4. Justified(e)'
  BY <1>1, <1>3, LogFactsStay
<1> QED
  BY <1>2, <1>3, <1>4, JustifiedAt

\* A step that publishes nothing and leaves the versions of the buckets alone.
LEMMA QuietBatch ==
  ASSUME LoopInv, BatchInv, LogType', LogExtends, LogPlaced', published' = published, dead' = dead,
         \A h \in Hand : /\ buckets'[h].pairs = buckets[h].pairs
                         /\ buckets'[h].emitted = buckets[h].emitted,
         \/ step' = step /\ current' = current
         \/ step' \notin {"score", "deadLetter"} /\ step # "score"
  PROVE  BatchInv'
<1>0. LogType
  BY DEF LoopInv, TypeOK, LogType
<1>1. SnapshotsLogged'
  <2> SUFFICES ASSUME NEW h \in Hand, NEW q \in Pair, buckets'[h].pairs[q] # NoSnapshot
               PROVE  Logged(h, q, buckets[h].pairs[q])'
    BY DEF SnapshotsLogged
  <2>1. PICK s : s = buckets[h].pairs[q]
    OBVIOUS
  <2>2. Logged(h, q, s)
    BY <2>1 DEF BatchInv, SnapshotsLogged
  <2>3. Logged(h, q, s)'
    BY <1>0, <2>2, LogFactsStay
  <2> QED
    BY <2>1, <2>3 DEF Logged
<1>2. ASSUME step # "poll", current' = current
      PROVE  RecordAt(current)' = RecordAt(current)
  <2>1. PICK r : r = current
    OBVIOUS
  <2>2. Delivered(r)
    BY <1>2, <2>1 DEF LoopInv, HandleInv
  <2>3. RecordAt(r)' = RecordAt(r)
    BY <1>0, <2>2, RecordStays
  <2> QED
    BY <1>2, <2>1, <2>3 DEF RecordAt
<1>3. EmittedInv'
  <2>1. ASSUME step = "score", step' = step, current' = current
        PROVE  CurrentHand' = CurrentHand /\ CurrentHand \in Hand
    BY <1>2, <2>1, ScoringHand DEF CurrentHand
  <2> QED
    BY <2>1 DEF BatchInv, EmittedInv, WholeIn
<1>4. DeadInv'
  <2>1. ASSUME step' = "deadLetter" PROVE Justified(RecordAt(current))'
    <3>1. step = "deadLetter" /\ current' = current
      BY <2>1
    <3>2. PICK e : e = RecordAt(current)
      OBVIOUS
    <3>3. Justified(e)
      BY <3>1, <3>2 DEF BatchInv, DeadInv
    <3>4. Justified(e)'
      BY <1>0, <3>3, LogFactsStay
    <3>5. RecordAt(current)' = e
      BY <1>2, <3>1, <3>2
    <3> QED
      BY <3>4, <3>5 DEF Justified, Contradicted, Crowded, Revisions, Offsets, RecordAt
  <2>2. \A d \in dead : Delivered(d)' /\ Justified(RecordAt(d))'
    BY DeadStay DEF BatchInv
  <2> QED
    BY <2>1, <2>2 DEF DeadInv
<1>5. PublishedWhole'
  BY DEF BatchInv, PublishedWhole
<1> QED
  BY <1>1, <1>3, <1>4, <1>5 DEF BatchInv

\* Two records of a revision with different event IDs contradict each other.
LEMMA ConflictContradicts ==
  ASSUME LoopInv, NEW h \in Hand, NEW e \in Event, NEW s, Logged(h, e.pair, s),
         e.hand = h, s.rev = e.rev, s # Snapshot(e)
  PROVE  Contradicted(e)
<1>1. e.pair \in Pair /\ PartitionOf[e.pair] \in Partition
  BY ProcessorAssumption DEF ProcessorAssumption, Event
<1> DEFINE p == PartitionOf[e.pair]
<1>2. PICK o \in Offsets(p) :
        /\ RecordAt(<<p, o>>) # Poison
        /\ RecordAt(<<p, o>>).hand = h
        /\ RecordAt(<<p, o>>).pair = e.pair
        /\ Snapshot(RecordAt(<<p, o>>)) = s
  BY <1>1 DEF Logged
<1>3. PICK x : x = RecordAt(<<p, o>>)
  OBVIOUS
<1>4. x \in Event
  <2>1. log[p] \in Seq(Event \cup {Poison}) /\ Len(log[p]) \in Nat
    BY <1>1 DEF LoopInv, TypeOK
  <2>2. o + 1 \in 1 .. Len(log[p])
    BY <1>2, <2>1 DEF Offsets
  <2>3. log[p][o + 1] \in Event \cup {Poison}
    BY <2>1, <2>2
  <2> QED
    BY <1>2, <1>3, <2>3 DEF RecordAt
<1>5. x.rev = e.rev /\ x.hand = e.hand /\ x.pair = e.pair /\ x # e
  BY <1>2, <1>3 DEF Snapshot
<1>6. [x EXCEPT !.id = e.id] = e
  BY <1>4, <1>5 DEF Event
<1> QED
  BY <1>1, <1>2, <1>3, <1>5, <1>6 DEF Contradicted

\* What Handle stores is in the log, what it emits it goes on to publish, and
\* what it refuses is refused for a reason the log shows.
LEMMA ReceiveBatch ==
  ASSUME LoopInv, BatchInv, NEW p \in Partition, Receive(p)
  PROVE  BatchInv'
<1>0. PICK o : o = position[p]
  OBVIOUS
<1>1. /\ o \in Nat /\ o < Len(log[p]) /\ Delivered(<<p, o>>) /\ step = "poll"
      /\ Refuses(p, o) \/ \E h \in Hand, e \in Event, status \in Statuses : Takes(p, o, h, e, status)
  BY <1>0, ReceiveCases
<1>2. /\ log' = log /\ published' = published /\ dead' = dead /\ current' = <<p, o>>
  BY <1>0 DEF Receive, broker
<1>3. LogType /\ LogType' /\ LogExtends
  BY <1>2, SameExtends DEF LoopInv, TypeOK, LogType
<1>4. /\ \A x : RecordAt(x)' = RecordAt(x)
      /\ \A x : Justified(x) => Justified(x)'
      /\ \A h : \A q \in Pair : \A s : Logged(h, q, s) => Logged(h, q, s)'
      /\ o \in Offsets(p)
  BY <1>1, <1>2, <1>3, LogFactsStay DEF RecordAt, Offsets
<1>5. LogPlaced' /\ PublishedWhole'
  BY <1>2 DEF BatchInv, LogPlaced, Offsets, RecordAt, PublishedWhole
<1>6. \A h \in Hand : buckets[h].emitted # NoBucket.emitted => WholeIn(published, h, buckets[h].emitted)
  BY <1>1 DEF BatchInv, EmittedInv
<1>7. \A d \in dead : Delivered(d)' /\ Justified(RecordAt(d))'
  BY <1>3, DeadStay DEF BatchInv
<1>8. ASSUME Justified(RecordAt(<<p, o>>)) PROVE Justified(RecordAt(current))'
  <2>1. PICK e : e = RecordAt(<<p, o>>)
    OBVIOUS
  <2>2. Justified(e)' /\ RecordAt(current)' = e
    BY <1>2, <1>4, <1>8, <2>1
  <2> QED
    BY <2>2 DEF Justified, Contradicted, Crowded, Revisions, Offsets, RecordAt
<1>9. CASE Refuses(p, o)
  <2>1. buckets' = buckets /\ step' = "deadLetter" /\ RecordAt(<<p, o>>) = Poison
    BY <1>9 DEF Refuses
  <2>2. SnapshotsLogged'
    <3>1. ASSUME NEW g \in Hand, NEW q \in Pair, buckets[g].pairs[q] # NoSnapshot
          PROVE  Logged(g, q, buckets[g].pairs[q])'
      <4>1. PICK s : s = buckets[g].pairs[q]
        OBVIOUS
      <4>2. Logged(g, q, s)
        BY <3>1, <4>1 DEF BatchInv, SnapshotsLogged
      <4>3. Logged(g, q, s)'
        BY <1>4, <4>2
      <4> QED
        BY <2>1, <4>1, <4>3 DEF Logged
    <3> QED
      BY <2>1, <3>1 DEF SnapshotsLogged
  <2>3. EmittedInv'
    BY <1>2, <1>6, <2>1 DEF EmittedInv, WholeIn
  <2>4. DeadInv'
    BY <1>2, <1>7, <1>8, <2>1 DEF DeadInv, Justified
  <2> QED
    BY <1>5, <2>2, <2>3, <2>4 DEF BatchInv
<1>10. ASSUME NEW h \in Hand, NEW e \in Event, NEW status \in Statuses, Takes(p, o, h, e, status)
       PROVE  BatchInv'
  <2>1. PICK b : b = Purge(buckets[h])
    OBVIOUS
  <2>2. PICK new : new = Added(b, e)
    OBVIOUS
  <2>3. /\ RecordAt(<<p, o>>) = e /\ e # Poison /\ h = e.hand
        /\ b \in BucketType /\ EmittedHeld(b)
        /\ status = AssemblyStatus(b, e)
        /\ \A g \in Hand : buckets'[g] = IF g = h THEN new ELSE Purge(buckets[g])
        /\ step' = AfterAssembly(status)
    BY <1>10, <2>1, <2>2 DEF Takes
  <2>4. /\ new \in BucketType
        /\ \/ /\ status = "stale"
              /\ new.pairs = b.pairs /\ new.emitted = b.emitted
           \/ /\ status = "duplicate"
              /\ new.pairs = b.pairs /\ new.emitted = b.emitted
           \/ /\ status = "rejected"
              /\ e.rev = b.pairs[e.pair].rev /\ Snapshot(e) # b.pairs[e.pair]
              /\ new.pairs = b.pairs /\ new.emitted = b.emitted
           \/ /\ status \in {"rejected", "incomplete", "complete"}
              /\ new.pairs = [b.pairs EXCEPT ![e.pair] = Snapshot(e)]
              /\ new.emitted = IF status = "complete" THEN new.pairs ELSE b.emitted
              /\ status = "rejected" => Cardinality(Held(new)) > Expected
    BY <2>2, <2>3, AddedFields
  <2>5. /\ e.pair \in Pair /\ e.rev \in Nat \ {0}
        /\ b.pairs \in Versions
    BY <2>3 DEF Event, BucketType
  <2>6. Logged(h, e.pair, Snapshot(e))
    <3>1. PartitionOf[e.pair] = p
      BY <1>4, <2>3 DEF BatchInv, LogPlaced
    <3> QED
      BY <1>4, <2>3, <3>1 DEF Logged
  <2>7. ASSUME NEW g \in Hand, NEW q \in Pair, Purge(buckets[g]).pairs[q] # NoSnapshot
        PROVE  Logged(g, q, Purge(buckets[g]).pairs[q])
    <3>1. Purge(buckets[g]) = buckets[g]
      BY <2>7 DEF Purge, NoBucket
    <3> QED
      BY <2>7, <3>1 DEF BatchInv, SnapshotsLogged
  <2>8. ASSUME NEW q \in Pair, new.pairs[q] # NoSnapshot PROVE Logged(h, q, new.pairs[q])
    <3>1. CASE new.pairs = b.pairs
      BY <2>1, <2>7, <2>8, <3>1
    <3>2. CASE new.pairs = [b.pairs EXCEPT ![e.pair] = Snapshot(e)]
      <4>1. new.pairs[q] = IF q = e.pair THEN Snapshot(e) ELSE b.pairs[q]
        BY <2>5, <3>2 DEF Versions
      <4> QED
        BY <2>1, <2>6, <2>7, <2>8, <4>1
    <3> QED
      BY <2>4, <3>1, <3>2
  <2>9. SnapshotsLogged'
    <3> SUFFICES ASSUME NEW g \in Hand, NEW q \in Pair, buckets'[g].pairs[q] # NoSnapshot
                 PROVE  Logged(g, q, buckets[g].pairs[q])'
      BY DEF SnapshotsLogged
    <3>1. PICK s : s = buckets'[g].pairs[q]
      OBVIOUS
    <3>2. Logged(g, q, s)
      BY <2>3, <2>7, <2>8, <3>1
    <3>3. Logged(g, q, s)'
      BY <1>4, <3>2
    <3> QED
      BY <3>1, <3>3 DEF Logged
  <2>10. ASSUME NEW g \in Hand, Purge(buckets[g]).emitted # NoBucket.emitted
         PROVE  WholeIn(published, g, Purge(buckets[g]).emitted)
    <3>1. Purge(buckets[g]) = buckets[g]
      BY <2>10 DEF Purge
    <3> QED
      BY <1>6, <2>10, <3>1
  <2>11. step' = "score" <=> status = "complete"
    BY <2>3 DEF AfterAssembly
  <2>12. CurrentHand' = h
    BY <1>2, <1>4, <2>3 DEF CurrentHand
  <2>13. EmittedInv'
    <3>1. status # "complete" => new.emitted = b.emitted
      BY <2>4
    <3>2. status = "complete" => new.emitted = new.pairs
      BY <2>4
    <3>3. ASSUME NEW g \in Hand, buckets'[g].emitted # NoBucket.emitted, ~ (step' = "score" /\ g = h)
          PROVE  WholeIn(published, g, buckets'[g].emitted)
      BY <2>1, <2>3, <2>10, <2>11, <3>1, <3>3
    <3> QED
      BY <1>2, <2>3, <2>11, <2>12, <3>2, <3>3 DEF EmittedInv, WholeIn
  <2>14. DeadInv'
    <3>1. ASSUME status = "rejected" PROVE Justified(e)
      <4>1. CASE e.rev = b.pairs[e.pair].rev /\ Snapshot(e) # b.pairs[e.pair]
        <5>1. b.pairs[e.pair] # NoSnapshot
          BY <2>5, <4>1 DEF NoSnapshot
        <5>2. Logged(h, e.pair, b.pairs[e.pair])
          BY <2>1, <2>5, <2>7, <5>1
        <5>3. Contradicted(e)
          BY <2>3, <4>1, <5>2, ConflictContradicts
        <5> QED
          BY <5>3 DEF Justified
      <4>2. CASE Cardinality(Held(new)) > Expected
        <5> DEFINE T == {q \in Pair : Revisions(h, q) # {}}
        <5>1. Held(new) \subseteq T
          <6> SUFFICES ASSUME NEW q \in Pair, new.pairs[q] # NoSnapshot
                       PROVE  Revisions(h, q) # {}
            BY DEF Held
          <6>1. PICK x \in Offsets(PartitionOf[q]) :
                  /\ RecordAt(<<PartitionOf[q], x>>) # Poison
                  /\ RecordAt(<<PartitionOf[q], x>>).hand = h
                  /\ RecordAt(<<PartitionOf[q], x>>).pair = q
            BY <2>8 DEF Logged
          <6> QED
            BY <6>1 DEF Revisions
        <5>2. T \subseteq Pair /\ IsFiniteSet(Pair) /\ Expected \in Nat
          BY AssemblerAssumption DEF AssemblerAssumption
        <5>3. IsFiniteSet(T) /\ IsFiniteSet(Held(new))
          BY <5>1, <5>2, FS_Subset
        <5>4. /\ Cardinality(Held(new)) <= Cardinality(T)
              /\ Cardinality(T) \in Nat /\ Cardinality(Held(new)) \in Nat
          BY <5>1, <5>3, FS_Subset, FS_CardinalityType
        <5>5. Cardinality(T) > Expected
          BY <4>2, <5>2, <5>4
        <5> QED
          BY <2>3, <5>5 DEF Justified, Crowded
      <4> QED
        BY <2>4, <3>1, <4>1, <4>2
    <3>2. step' = "deadLetter" => status = "rejected"
      BY <2>3 DEF AfterAssembly
    <3>3. step' = "deadLetter" => Justified(RecordAt(current))'
      BY <1>8, <2>3, <3>1, <3>2
    <3> QED
      BY <1>2, <1>7, <3>3 DEF DeadInv
  <2> QED
    BY <1>5, <2>9, <2>13, <2>14 DEF BatchInv
<1> QED
  BY <1>1, <1>9, <1>10

\* A batch that is scored covers exactly the pairs of the hand's players.
LEMMA BatchWholePairs ==
  ASSUME LoopInv, BatchInv, step = "score", Scorable(CurrentHand),
         published' \subseteq published \cup Batch(CurrentHand)
  PROVE  PublishedWhole'
<1> SUFFICES ASSUME NEW out \in published'
             PROVE  {q \in Pair : out.versions[q] # NoSnapshot} \in Whole
  BY DEF PublishedWhole
<1>1. CASE out \in published
  BY <1>1 DEF BatchInv, PublishedWhole
<1>2. CASE out \in Batch(CurrentHand)
  <2>1. out.versions = buckets[CurrentHand].emitted
    BY <1>2 DEF Batch
  <2>2. buckets[CurrentHand].emitted = buckets[CurrentHand].pairs
    BY DEF BatchInv, EmittedInv
  <2> QED
    BY <2>1, <2>2 DEF Scorable, Held
<1> QED
  BY <1>1, <1>2

\* The whole batch of the bucket's emitted versions becomes durable.
LEMMA PublishBatch ==
  ASSUME LoopInv, BatchInv, Publish
  PROVE  BatchInv'
<1>1. PICK h \in Hand : h = CurrentHand
  BY ScoringHand DEF Publish
<1>2. /\ step = "score" /\ step' = "commit" /\ Scorable(h)
      /\ published' = published \cup Batch(h)
      /\ log' = log /\ dead' = dead /\ buckets' = buckets /\ current' = current
  BY <1>1 DEF Publish
<1>3. LogPlaced' /\ SnapshotsLogged'
  BY <1>2 DEF BatchInv, LogPlaced, SnapshotsLogged, Logged, Offsets, RecordAt
<1>4. PublishedWhole'
  BY <1>1, <1>2, BatchWholePairs
<1>5. EmittedInv'
  <2>1. ASSUME NEW g \in Hand, buckets[g].emitted # NoBucket.emitted
        PROVE  WholeIn(published', g, buckets[g].emitted)
    <3>1. CASE g = h
      BY <1>2, <3>1 DEF WholeIn, Batch
    <3>2. CASE g # h
      BY <1>1, <1>2, <2>1, <3>2 DEF BatchInv, EmittedInv, WholeIn
    <3> QED
      BY <3>1, <3>2
  <2> QED
    BY <1>2, <2>1 DEF EmittedInv, WholeIn
<1>6. DeadInv'
  <2>1. LogType /\ LogType' /\ LogExtends
    BY <1>2, SameExtends DEF LoopInv, TypeOK, LogType
  <2> QED
    BY <1>2, <2>1, DeadStay DEF BatchInv, DeadInv
<1> QED
  BY <1>3, <1>4, <1>5, <1>6 DEF BatchInv

\* The record that becomes a dead letter was justified when Handle refused it.
LEMMA DeadLetterBatch ==
  ASSUME LoopInv, BatchInv, DeadLetter
  PROVE  BatchInv'
<1>1. /\ step = "deadLetter" /\ step' = "commit" /\ dead' = dead \cup {current}
      /\ log' = log /\ published' = published /\ buckets' = buckets
  BY DEF DeadLetter
<1>2. LogPlaced' /\ SnapshotsLogged' /\ PublishedWhole'
  BY <1>1 DEF BatchInv, LogPlaced, SnapshotsLogged, Logged, Offsets, RecordAt, PublishedWhole
<1>3. EmittedInv'
  BY <1>1 DEF BatchInv, EmittedInv, WholeIn
<1>4. DeadInv'
  <2>1. Delivered(current) /\ Justified(RecordAt(current))
    BY <1>1 DEF LoopInv, HandleInv, BatchInv, DeadInv
  <2> SUFFICES ASSUME NEW d \in dead \cup {current}
               PROVE  Delivered(d)' /\ Justified(RecordAt(d))'
    BY <1>1 DEF DeadInv
  <2>2. Delivered(d) /\ Justified(RecordAt(d))
    BY <2>1 DEF BatchInv, DeadInv
  <2> QED
    BY <1>1, <2>2, JustifiedKept
<1> QED
  BY <1>2, <1>3, <1>4 DEF BatchInv

\* A process that dies leaves whole pairs and justified dead letters behind.
LEMMA FailureBatch ==
  ASSUME LoopInv, BatchInv, PublishFails \/ DeadLetterFails \/ CommitFails \/ Crash \/ ScoreFails
  PROVE  BatchInv'
<1>1. Exit
  BY DEF PublishFails, DeadLetterFails, CommitFails, Crash, ScoreFails, Die
<1>2. /\ log' = log /\ step' = "poll"
      /\ \A h \in Hand : buckets'[h] = NoBucket
  BY <1>1 DEF Exit
<1>3. LogPlaced' /\ SnapshotsLogged' /\ EmittedInv'
  BY <1>2 DEF BatchInv, LogPlaced, Offsets, RecordAt, SnapshotsLogged, EmittedInv, NoBucket
<1>4. PublishedWhole'
  <2>1. CASE PublishFails
    <3>1. step = "score" /\ Scorable(CurrentHand)
          /\ published' \subseteq published \cup Batch(CurrentHand)
      BY <2>1 DEF PublishFails
    <3> QED
      BY <3>1, BatchWholePairs
  <2>2. CASE published' = published
    BY <2>2 DEF BatchInv, PublishedWhole
  <2> QED
    BY <2>1, <2>2 DEF DeadLetterFails, CommitFails, Crash, ScoreFails
<1>5. DeadInv'
  <2>1. dead' \subseteq dead \cup (IF step = "deadLetter" THEN {current} ELSE {})
    BY DEF PublishFails, DeadLetterFails, CommitFails, Crash, ScoreFails
  <2> SUFFICES ASSUME NEW d \in dead' PROVE Delivered(d)' /\ Justified(RecordAt(d))'
    BY <1>2 DEF DeadInv
  <2>2. Delivered(d) /\ Justified(RecordAt(d))
    BY <2>1 DEF LoopInv, HandleInv, BatchInv, DeadInv
  <2> QED
    BY <1>2, <2>2, JustifiedKept
<1> QED
  BY <1>3, <1>4, <1>5 DEF BatchInv

\* Nothing is held, published or dead-lettered yet.
LEMMA InitBatch == Init => BatchInv
<1> SUFFICES ASSUME Init PROVE BatchInv
  OBVIOUS
<1>1. \A p \in Partition : Offsets(p) = {}
  BY DEF Init, Offsets
<1>2. LogPlaced /\ SnapshotsLogged
  BY <1>1 DEF Init, LogPlaced, SnapshotsLogged, NoBucket
<1>3. EmittedInv /\ DeadInv /\ PublishedWhole
  BY DEF Init, EmittedInv, DeadInv, PublishedWhole
<1> QED
  BY <1>2, <1>3 DEF BatchInv

\* No step breaks the second invariant.
LEMMA NextBatch ==
  ASSUME LoopInv, BatchInv, [Next]_vars
  PROVE  BatchInv'
<1>1. LogType' /\ LogExtends /\ LogPlaced'
  BY LogStep, PlacedStep DEF LoopInv, TypeOK, LogType, BatchInv
<1>2. CASE \/ \E e \in Event : Emit(e)
           \/ \E p \in Partition : EmitPoison(p)
           \/ Restart
           \/ UNCHANGED vars
  <2>1. /\ published' = published /\ dead' = dead /\ buckets' = buckets
        /\ step' = step /\ current' = current
    BY <1>2 DEF Emit, EmitPoison, Restart, vars, broker, memory
  <2> QED
    BY <1>1, <2>1, QuietBatch
<1>3. CASE Tick
  <2>1. published' = published /\ dead' = dead /\ step' = step /\ current' = current
    BY <1>3 DEF Tick, broker
  <2>2. \A h \in Hand : buckets'[h].pairs = buckets[h].pairs /\ buckets'[h].emitted = buckets[h].emitted
    <3>1. buckets \in [Hand -> BucketType]
      BY DEF LoopInv, TypeOK
    <3> SUFFICES ASSUME NEW b \in BucketType
                 PROVE  [b EXCEPT !.age = @ + 1].pairs = b.pairs /\ [b EXCEPT !.age = @ + 1].emitted = b.emitted
      BY <1>3, <3>1 DEF Tick
    <3> QED
      BY DEF BucketType
  <2> QED
    BY <1>1, <2>1, <2>2, QuietBatch
<1>4. CASE Commit
  BY <1>1, <1>4, QuietBatch DEF Commit
<1> QED
  BY <1>2, <1>3, <1>4, ReceiveBatch, PublishBatch, DeadLetterBatch, FailureBatch DEF Next

\* Both invariants hold in every state.
LEMMA InvHolds == SafetySpec => []IInv
<1>1. Init => IInv
  BY InitLoop, InitBatch DEF IInv
<1>2. IInv /\ [Next]_vars => IInv'
  BY NextLoop, NextBatch DEF IInv
<1> QED
  BY <1>1, <1>2, PTL DEF SafetySpec

-----------------------------------------------------------------------------
(* What the second invariant shows. *)

\* What a bucket calls emitted is published as a whole batch.
THEOREM EmittedPublishedHolds == SafetySpec => []EmittedPublished
<1>1. IInv => EmittedPublished
  <2> SUFFICES ASSUME IInv, running, step # "score", NEW h \in Hand,
                      buckets[h].emitted # NoBucket.emitted
               PROVE  [hand |-> h, versions |-> buckets[h].emitted] \in Batches
    BY DEF EmittedPublished
  <2>1. WholeIn(published, h, buckets[h].emitted)
    BY DEF IInv, BatchInv, EmittedInv
  <2> QED
    BY <2>1, BatchesWhole DEF IInv, LoopInv, TypeOK, Batches, BatchesIn, OutputRecord
<1> QED
  BY <1>1, InvHolds, PTL

\* A batch never mixes in a pair that is not one of the hand's six players.
THEOREM PublishedWholeHolds == SafetySpec => []PublishedWhole
<1>1. IInv => PublishedWhole
  BY DEF IInv, BatchInv
<1> QED
  BY <1>1, InvHolds, PTL

\* Dead letters are for poison, for a second event ID of a revision and for a
\* hand with too many pair identities.
THEOREM DeadLetterJustifiedHolds == SafetySpec => []DeadLetterJustified
<1>1. IInv => DeadLetterJustified
  BY DEF IInv, BatchInv, DeadInv, DeadLetterJustified, Justified, Contradicted, Crowded
<1> QED
  BY <1>1, InvHolds, PTL

\* As long as a bucket lives, the revisions its hand is scored with go forward.
THEOREM RescoredForwardHolds == SafetySpec => RescoredForward
<1> DEFINE Forward ==
      \A h \in Hand : \A q \in Pair :
        buckets[h].age <= TTL /\ Held(buckets'[h]) # {}
          => buckets'[h].emitted[q].rev >= buckets[h].emitted[q].rev
<1>1. ASSUME LoopInv, [Next]_vars PROVE Forward
  <2>0. \A h \in Hand : /\ buckets[h] \in BucketType /\ EmittedHeld(buckets[h])
                        /\ \A q \in Pair : /\ buckets[h].emitted[q].rev \in Nat
                                           /\ buckets[h].pairs[q].rev \in Nat
    BY <1>1, ProcessorAssumption
       DEF ProcessorAssumption, LoopInv, TypeOK, BucketsInv, BucketType, Versions
  <2>1. CASE \A h \in Hand : buckets'[h].emitted = buckets[h].emitted
    BY <2>0, <2>1
  <2>2. CASE \A h \in Hand : buckets'[h] = NoBucket
    BY <2>2 DEF Held, NoBucket
  <2>3. ASSUME NEW p \in Partition, Receive(p) PROVE Forward
    <3>1. PICK o : o = position[p]
      OBVIOUS
    <3>2. Refuses(p, o) \/ \E h \in Hand, e \in Event, status \in Statuses : Takes(p, o, h, e, status)
      BY <1>1, <2>3, <3>1, ReceiveCases
    <3>3. CASE Refuses(p, o)
      BY <2>1, <3>3 DEF Refuses
    <3>4. ASSUME NEW h \in Hand, NEW e \in Event, NEW status \in Statuses, Takes(p, o, h, e, status)
          PROVE  Forward
      <4> SUFFICES ASSUME NEW g \in Hand, NEW q \in Pair, buckets[g].age <= TTL
                   PROVE  buckets'[g].emitted[q].rev >= buckets[g].emitted[q].rev
        OBVIOUS
      <4>1. Purge(buckets[g]) = buckets[g]
        <5>1. ~ (buckets[g].age > TTL)
          BY <2>0, AssemblerAssumption DEF AssemblerAssumption, BucketType
        <5> QED
          BY <5>1 DEF Purge
      <4>2. CASE g # h
        BY <2>0, <3>4, <4>1, <4>2 DEF Takes
      <4>3. CASE g = h
        <5>1. buckets'[g] = Added(buckets[g], e)
          BY <3>4, <4>1, <4>3 DEF Takes
        <5>2. Added(buckets[g], e).emitted \in {buckets[g].emitted, Added(buckets[g], e).pairs}
          BY <2>0, AddedFields
        <5>3. /\ buckets[g].emitted[q].rev <= buckets[g].pairs[q].rev
              /\ buckets[g].pairs[q].rev <= Added(buckets[g], e).pairs[q].rev
              /\ Added(buckets[g], e) \in BucketType
          BY <2>0, AddedOrder, AddedFields DEF EmittedHeld
        <5>4. Added(buckets[g], e).pairs[q].rev \in Nat
          BY <5>3, ProcessorAssumption DEF ProcessorAssumption, BucketType, Versions
        <5>5. CASE Added(buckets[g], e).emitted = buckets[g].emitted
          BY <2>0, <5>1, <5>5
        <5>6. CASE Added(buckets[g], e).emitted = Added(buckets[g], e).pairs
          BY <2>0, <5>1, <5>3, <5>4, <5>6
        <5> QED
          BY <5>2, <5>5, <5>6
      <4> QED
        BY <4>2, <4>3
    <3> QED
      BY <3>2, <3>3, <3>4
  <2>4. CASE Tick
    <3>1. \A h \in Hand : buckets'[h].emitted = buckets[h].emitted
      <4> SUFFICES ASSUME NEW b \in BucketType
                   PROVE  [b EXCEPT !.age = @ + 1].emitted = b.emitted
        BY <2>0, <2>4 DEF Tick
      <4> QED
        BY DEF BucketType
    <3> QED
      BY <2>1, <3>1
  <2>5. CASE PublishFails \/ DeadLetterFails \/ CommitFails \/ Crash \/ ScoreFails
    BY <2>2, <2>5 DEF PublishFails, DeadLetterFails, CommitFails, Crash, ScoreFails, Die, Exit
  <2>6. CASE \/ \E e \in Event : Emit(e)
             \/ \E p \in Partition : EmitPoison(p)
             \/ Publish \/ DeadLetter \/ Commit \/ Restart \/ UNCHANGED vars
    <3>1. buckets' = buckets
      BY <2>6 DEF Emit, EmitPoison, Publish, DeadLetter, Commit, Restart, vars, memory
    <3> QED
      BY <2>1, <3>1
  <2> QED
    BY <1>1, <2>3, <2>4, <2>5, <2>6 DEF Next
<1>2. LoopInv /\ [Next]_vars => [Forward]_vars
  BY <1>1
<1> QED
  BY <1>2, LoopHolds, PTL DEF SafetySpec, RescoredForward

-----------------------------------------------------------------------------
(***************************************************************************)
(* The third invariant of StreamProcessor: what is marked processed has    *)
(* been answered, by an output batch or a dead letter, or a record of its  *)
(* pair that stands for it waits below it and so holds the watermark down. *)
(* Where buckets expire only the pair counts, not the revision.            *)
(***************************************************************************)

\* Buckets do not expire, or every pair identity belongs to the hand's players.
Regular == Whole = {Pair} \/ ~ Ticking

\* The revision that has to be covered.
Need(n) == IF Ticking THEN 1 ELSE n

\* The record is dead-lettered, or a whole batch covers what is needed of it.
Settled(r) ==
  \/ DeadLettered(r)
  \/ /\ RecordAt(r) # Poison
     /\ Covered(RecordAt(r).hand, RecordAt(r).pair, Need(RecordAt(r).rev))

\* The record is snapshot s of pair q of hand h.
Carries(r, h, q, s) ==
  /\ RecordAt(r) # Poison
  /\ RecordAt(r).hand = h /\ RecordAt(r).pair = q
  /\ Snapshot(RecordAt(r)) = s

\* Without expiry a bucket is as new as the records that wait for its hand.
WaitingHeld ==
  ~ Ticking => \A h \in Hand :
    /\ buckets[h].age = 0
    /\ \A r \in pending[h] : RecordAt(r).rev <= buckets[h].pairs[RecordAt(r).pair].rev

\* A snapshot in a bucket was published, or its record waits or has a dead letter.
BackedBy(h, q, s) ==
  \/ Covered(h, q, Need(s.rev))
  \/ \E r \in pending[h] : Carries(r, h, q, s)
  \/ \E d \in dead : Carries(d, h, q, s)
  \/ step = "deadLetter" /\ Carries(current, h, q, s)

Backed ==
  \A h \in Hand : \A q \in Pair :
    buckets[h].pairs[q] # NoSnapshot => BackedBy(h, q, buckets[h].pairs[q])

\* A record of the same pair, no older in revision, waits below offset o.
Waited(p, o) ==
  /\ RecordAt(<<p, o>>) # Poison
  /\ \E r \in pending[RecordAt(<<p, o>>).hand] :
       /\ r[1] = p /\ r[2] < o
       /\ RecordAt(r).pair = RecordAt(<<p, o>>).pair
       /\ RecordAt(<<p, o>>).rev <= RecordAt(r).rev

\* What a tracker calls processed is settled, or a record that waits stands for it.
DoneInv ==
  \A p \in Partition : \A o \in tracker[p].done : Settled(<<p, o>>) \/ Waited(p, o)

\* What the group moved past is settled, where no start at the end skipped it.
CommittedSettled ==
  \A p \in Partition : \A o \in Consumed(p) : o < committed[p] => Settled(<<p, o>>)

AnswerInv == WaitingHeld /\ Backed /\ DoneInv /\ CommittedSettled

\* More records make no batch less whole.
LEMMA BatchesGrow ==
  ASSUME NEW R, NEW S, R \subseteq S
  PROVE  BatchesIn(R) \subseteq BatchesIn(S)
BY DEF BatchesIn

\* What is covered stays covered, and a lower revision is covered too.
LEMMA CoveredStays ==
  ASSUME published \subseteq published', published \subseteq OutputRecord,
         NEW h, NEW q \in Pair, NEW n \in Nat, NEW m \in Nat, m <= n, Covered(h, q, n)
  PROVE  Covered(h, q, m)' /\ Covered(h, q, m)
<1>1. PICK b \in Batches : b.hand = h /\ b.versions[q].rev >= n
  BY DEF Covered
<1>2. b \in Batches'
  BY <1>1, BatchesGrow DEF Batches, BatchesIn
<1>3. b.versions \in Versions
  BY <1>1 DEF Batches, OutputRecord
<1>4. b.versions[q].rev \in Nat
  BY <1>3, ProcessorAssumption DEF ProcessorAssumption, Versions
<1>5. b.versions[q].rev >= m
  BY <1>1, <1>4
<1> QED
  BY <1>1, <1>2, <1>5 DEF Covered

\* A record of the log that is not poison is an event.
LEMMA DeliveredEvent ==
  ASSUME LogType, NEW r, Delivered(r)
  PROVE  RecordAt(r) \in Event \cup {Poison}
<1>1. \A p \in Partition : Len(log[p]) \in Nat
  BY DEF LogType
<1>2. r[1] \in Partition /\ r[2] + 1 \in 1 .. Len(log[r[1]])
  BY <1>1 DEF Delivered, Ref
<1>3. log[r[1]] \in Seq(Event \cup {Poison})
  BY <1>2 DEF LogType
<1>4. log[r[1]][r[2] + 1] \in Event \cup {Poison}
  BY <1>2, <1>3
<1> QED
  BY <1>4 DEF RecordAt

\* What has been answered stays answered.
LEMMA SettledStays ==
  ASSUME LogType, LogExtends, \A d \in dead : Delivered(d),
         published \subseteq OutputRecord,
         published \subseteq published', dead \subseteq dead',
         NEW r, Delivered(r), Settled(r)
  PROVE  Settled(r)'
<1>1. RecordAt(r) \in Event \cup {Poison} /\ RecordAt(r)' = RecordAt(r)
  BY RecordStays
<1>2. \A d \in dead : RecordAt(d)' = RecordAt(d)
  BY RecordStays
<1>3. CASE DeadLettered(r)
  <2>1. DeadLettered(r)'
    BY <1>1, <1>2, <1>3 DEF DeadLettered
  <2> QED
    BY <2>1 DEF Settled
<1>4. CASE RecordAt(r) # Poison /\ Covered(RecordAt(r).hand, RecordAt(r).pair, Need(RecordAt(r).rev))
  <2>1. PICK e \in Event : e = RecordAt(r)
    BY <1>1, <1>4
  <2>2. Need(e.rev) \in Nat /\ e.pair \in Pair
    BY ProcessorAssumption DEF ProcessorAssumption, Need, Event
  <2>3. PICK h, q, n : h = e.hand /\ q = e.pair /\ n = Need(e.rev)
    OBVIOUS
  <2>4. Covered(h, q, n)'
    BY <1>4, <2>1, <2>2, <2>3, CoveredStays
  <2>5. RecordAt(r)' = e
    BY <1>1, <2>1
  <2> QED
    BY <1>1, <1>4, <2>1, <2>3, <2>4, <2>5 DEF Settled, Covered, Need
<1> QED
  BY <1>3, <1>4 DEF Settled

\* What a step keeps that takes back no record, output or dead letter.
Keeps ==
  /\ LogType' /\ LogExtends
  /\ published \subseteq published' /\ dead \subseteq dead'

\* What such a step leaves of the records: their events, their answers.
LEMMA KeptFacts ==
  ASSUME LoopInv, BatchInv, Keeps
  PROVE  /\ LogType /\ published \subseteq OutputRecord
         /\ \A d \in dead : Delivered(d)
         /\ \A r : Delivered(r) => /\ RecordAt(r) \in Event \cup {Poison}
                                   /\ RecordAt(r)' = RecordAt(r)
                                   /\ Settled(r) => Settled(r)'
         /\ \A r : \A h, q, s : Delivered(r) /\ Carries(r, h, q, s) => Carries(r, h, q, s)'
<1>1. /\ LogType /\ published \subseteq OutputRecord
      /\ \A d \in dead : Delivered(d)
      /\ LogExtends /\ published \subseteq published' /\ dead \subseteq dead'
  BY DEF LoopInv, TypeOK, LogType, OutputRecord, BatchInv, DeadInv, Keeps
<1>2. \A r : Delivered(r) => /\ RecordAt(r) \in Event \cup {Poison}
                             /\ RecordAt(r)' = RecordAt(r)
  BY <1>1, RecordStays
<1>3. \A r : Delivered(r) /\ Settled(r) => Settled(r)'
  BY <1>1, SettledStays
<1>4. \A r : \A h, q, s : Delivered(r) /\ Carries(r, h, q, s) => Carries(r, h, q, s)'
  BY <1>2 DEF Carries
<1> QED
  BY <1>1, <1>2, <1>3, <1>4

\* What backs a snapshot still does, unless its hand's records were forgotten.
LEMMA BackedStays ==
  ASSUME LoopInv, BatchInv, Keeps,
         NEW h \in Hand, NEW q \in Pair, NEW s, s.rev \in Nat, BackedBy(h, q, s),
         pending[h] \subseteq pending'[h],
         step = "deadLetter" => (step' = step /\ current' = current) \/ current \in dead'
  PROVE  BackedBy(h, q, s)'
<1>1. CASE Covered(h, q, Need(s.rev))
  <2>1. PICK n \in Nat : n = Need(s.rev)
    BY DEF Need
  <2>2. Covered(h, q, n)'
    BY <1>1, <2>1, KeptFacts, CoveredStays DEF Keeps
  <2> QED
    BY <2>1, <2>2 DEF BackedBy, Covered, Need
<1>2. ASSUME NEW r \in pending[h], Carries(r, h, q, s) PROVE BackedBy(h, q, s)'
  <2>1. Delivered(r)
    BY DEF LoopInv, WaitingOpen
  <2>2. Carries(r, h, q, s)'
    BY <1>2, <2>1, KeptFacts
  <2> QED
    BY <2>2 DEF BackedBy
<1>3. ASSUME NEW d \in dead, Carries(d, h, q, s) PROVE BackedBy(h, q, s)'
  <2>1. Carries(d, h, q, s)'
    BY <1>3, KeptFacts
  <2> QED
    BY <2>1 DEF BackedBy, Keeps
<1>4. CASE step = "deadLetter" /\ Carries(current, h, q, s)
  <2>1. PICK r : r = current
    OBVIOUS
  <2>2. Delivered(r) /\ Carries(r, h, q, s)
    BY <1>4, <2>1 DEF LoopInv, HandleInv
  <2>3. Carries(r, h, q, s)'
    BY <2>2, KeptFacts
  <2>4. CASE step' = step /\ current' = current
    <3>1. Carries(current, h, q, s)'
      BY <2>1, <2>3, <2>4 DEF Carries, RecordAt
    <3> QED
      BY <1>4, <2>4, <3>1 DEF BackedBy
  <2>5. CASE current \in dead'
    BY <2>1, <2>3, <2>5 DEF BackedBy
  <2> QED
    BY <1>4, <2>4, <2>5
<1> QED
  BY <1>1, <1>2, <1>3, <1>4 DEF BackedBy

\* A record that answers for another still does while it waits.
LEMMA WaitedStays ==
  ASSUME LoopInv, BatchInv, Keeps,
         NEW p \in Partition, NEW o, Delivered(<<p, o>>), Waited(p, o),
         pending[RecordAt(<<p, o>>).hand] \subseteq pending'[RecordAt(<<p, o>>).hand]
  PROVE  Waited(p, o)'
<1>1. PICK e \in Event : e = RecordAt(<<p, o>>) /\ e # Poison
  BY KeptFacts DEF Waited
<1>2. RecordAt(<<p, o>>)' = e
  BY <1>1, KeptFacts
<1>3. e.hand \in Hand
  BY DEF Event
<1>4. PICK r \in pending[e.hand] :
        /\ r[1] = p /\ r[2] < o
        /\ RecordAt(r).pair = e.pair /\ e.rev <= RecordAt(r).rev
  BY <1>1 DEF Waited
<1>5. Delivered(r)
  BY <1>3 DEF LoopInv, WaitingOpen
<1>6. RecordAt(r)' = RecordAt(r) /\ r \in pending'[e.hand]
  BY <1>1, <1>5, KeptFacts
<1> QED
  BY <1>1, <1>2, <1>4, <1>6 DEF Waited

\* Where nothing is committed, what is committed stays answered.
LEMMA CommittedStays ==
  ASSUME LoopInv, BatchInv, CommittedSettled, Keeps, committed' = committed,
         \A p \in Partition : committed[p] # NoOffset => start'[p] = start[p]
  PROVE  CommittedSettled'
<1> SUFFICES ASSUME NEW p \in Partition, NEW o \in Offsets(p)', start'[p] <= o, o < committed[p]
             PROVE  Settled(<<p, o>>)'
  BY DEF CommittedSettled, Consumed
<1>1. /\ committed[p] \in Nat \cup {NoOffset} /\ From(p) <= Len(log[p])
      /\ Len(log[p]) \in Nat
  BY DEF LoopInv, TypeOK, TrackerInv, TrackedFrom
<1>2. o \in Nat /\ o < Len(log[p])
  <2>1. Len(log'[p]) \in Nat
    BY DEF Keeps, LogExtends
  <2>2. o \in Nat
    BY <2>1 DEF Offsets
  <2> QED
    BY <1>1, <2>2 DEF From, NoOffset
<1>3. o \in Offsets(p) /\ Delivered(<<p, o>>)
  BY <1>1, <1>2 DEF Offsets, Delivered, Ref
<1>4. Settled(<<p, o>>)
  <2>1. committed[p] # NoOffset
    BY <1>1, <1>2 DEF NoOffset
  <2> QED
    BY <1>3, <2>1 DEF CommittedSettled, Consumed
<1> QED
  BY <1>3, <1>4, KeptFacts

\* The offsets a tracker calls done are records of the log.
LEMMA DoneDelivered ==
  ASSUME LoopInv, NEW p \in Partition, NEW o \in tracker[p].seen \cup tracker[p].done
  PROVE  o \in Nat /\ o \in Offsets(p) /\ Delivered(<<p, o>>)
<1>1. o \in Offsets(p) /\ Len(log[p]) \in Nat
  BY DEF LoopInv, TypeOK
<1> QED
  BY <1>1 DEF Offsets, Delivered, Ref

\* DoneInv where the trackers and the waiting records stay.
LEMMA DoneStays ==
  ASSUME LoopInv, BatchInv, DoneInv, Keeps, pending' = pending,
         \A p \in Partition : tracker'[p].done \subseteq tracker[p].done
  PROVE  DoneInv'
<1> SUFFICES ASSUME NEW p \in Partition, NEW o \in tracker[p].done
             PROVE  Settled(<<p, o>>)' \/ Waited(p, o)'
  BY DEF DoneInv
<1>1. Delivered(<<p, o>>)
  BY DoneDelivered
<1>2. CASE Settled(<<p, o>>)
  BY <1>1, <1>2, KeptFacts
<1>3. CASE Waited(p, o)
  BY <1>1, <1>3, WaitedStays
<1> QED
  BY <1>2, <1>3 DEF DoneInv

\* A step outside Handle changes no answer: at most buckets age.
LEMMA QuietAnswer ==
  ASSUME LoopInv, BatchInv, AnswerInv, Keeps,
         committed' = committed, tracker' = tracker, pending' = pending,
         step' = step, current' = current,
         \A p \in Partition : committed[p] # NoOffset => start'[p] = start[p],
         \A h \in Hand : buckets'[h].pairs = buckets[h].pairs,
         ~ Ticking => buckets' = buckets
  PROVE  AnswerInv'
<1>1. WaitingHeld'
  <2> SUFFICES ASSUME ~ Ticking, NEW h \in Hand
               PROVE  /\ buckets'[h].age = 0
                      /\ \A r \in pending[h] : RecordAt(r)'.rev <= buckets'[h].pairs[RecordAt(r)'.pair].rev
    BY DEF WaitingHeld
  <2>1. \A r \in pending[h] : RecordAt(r)' = RecordAt(r)
    BY KeptFacts DEF LoopInv, WaitingOpen
  <2> QED
    BY <2>1 DEF AnswerInv, WaitingHeld
<1>2. Backed'
  <2> SUFFICES ASSUME NEW h \in Hand, NEW q \in Pair, buckets'[h].pairs[q] # NoSnapshot
               PROVE  BackedBy(h, q, buckets[h].pairs[q])'
    BY DEF Backed
  <2>1. PICK s : s = buckets[h].pairs[q]
    OBVIOUS
  <2>2. s.rev \in Nat
    BY <2>1, ProcessorAssumption DEF ProcessorAssumption, LoopInv, TypeOK, BucketType, Versions
  <2>3. BackedBy(h, q, s)
    BY <2>1 DEF AnswerInv, Backed
  <2>4. BackedBy(h, q, s)'
    BY <2>2, <2>3, BackedStays
  <2> QED
    BY <2>1, <2>4 DEF BackedBy
<1>3. DoneInv'
  BY DoneStays DEF AnswerInv
<1>4. CommittedSettled'
  BY CommittedStays DEF AnswerInv
<1> QED
  BY <1>1, <1>2, <1>3, <1>4 DEF AnswerInv

\* Everything below a partition's watermark has been answered: an answer that is
\* still to come waits at an open offset below it.
LEMMA WatermarkSettled ==
  ASSUME LoopInv, BatchInv, AnswerInv, NEW p \in ReadyPartitions, NEW o \in Consumed(p),
         o < Watermark(tracker[p])
  PROVE  Settled(<<p, o>>)
<1>1. p \in Partition
  BY DEF ReadyPartitions
<1>2. /\ Watermark(tracker[p]) \in Nat
      /\ tracker[p].base .. (Watermark(tracker[p]) - 1) \subseteq tracker[p].done
      /\ running
      /\ tracker[p].base = From(p)
  BY <1>1, ReadyFields
<1>3. /\ o \in Nat /\ committed[p] \in Nat \cup {NoOffset} /\ From(p) \in Nat
      /\ tracker[p].seen = From(p) .. (position[p] - 1)
      /\ position[p] \in Nat /\ start[p] \in Nat /\ start[p] <= o
  BY <1>1, <1>2 DEF LoopInv, TypeOK, TrackerInv, TrackedFrom, From, NoOffset, Offsets, Consumed
<1>4. CASE o < From(p)
  <2>1. o < committed[p]
    BY <1>3, <1>4 DEF From
  <2> QED
    BY <1>1, <2>1 DEF AnswerInv, CommittedSettled
<1>5. CASE ~ (o < From(p))
  <2>1. o \in tracker[p].done
    BY <1>2, <1>3, <1>5
  <2>2. CASE Waited(p, o)
    <3>1. Delivered(<<p, o>>) /\ LogType
      BY <1>1, <2>1, DoneDelivered DEF LoopInv, TypeOK, LogType
    <3>2. RecordAt(<<p, o>>).hand \in Hand
      BY <2>2, <3>1, DeliveredEvent DEF Waited, Event
    <3>3. PICK r \in pending[RecordAt(<<p, o>>).hand] : r[1] = p /\ r[2] < o
      BY <2>2 DEF Waited
    <3>4. r[2] \in Open(tracker[p])
      BY <3>2, <3>3 DEF LoopInv, WaitingOpen
    <3>5. r[2] \in tracker[p].base .. (Watermark(tracker[p]) - 1)
      BY <1>2, <1>3, <3>3, <3>4 DEF Open
    <3> QED
      BY <1>2, <3>4, <3>5 DEF Open
  <2> QED
    BY <1>1, <2>1, <2>2 DEF AnswerInv, DoneInv
<1> QED
  BY <1>4, <1>5

\* Any part of a commit keeps the group behind what is answered.
LEMMA CommitToSettled ==
  ASSUME LoopInv, BatchInv, AnswerInv, Keeps, NEW S \in SUBSET ReadyPartitions, CommitTo(S),
         log' = log, start' = start
  PROVE  CommittedSettled'
<1> SUFFICES ASSUME NEW p \in Partition, NEW o \in Consumed(p), o < committed'[p]
             PROVE  Settled(<<p, o>>)'
  BY DEF CommittedSettled, Consumed, Offsets
<1>1. Delivered(<<p, o>>)
  BY DEF LoopInv, TypeOK, Consumed, Offsets, Delivered, Ref
<1>2. Settled(<<p, o>>)
  <2>1. CASE p \in S
    <3>1. o < Watermark(tracker[p])
      BY <2>1 DEF CommitTo
    <3> QED
      BY <2>1, <3>1, WatermarkSettled
  <2>2. CASE p \notin S
    <3>1. o < committed[p]
      BY <2>2 DEF CommitTo
    <3> QED
      BY <3>1 DEF AnswerInv, CommittedSettled
  <2> QED
    BY <2>1, <2>2
<1> QED
  BY <1>1, <1>2, KeptFacts

\* The group moves below the watermarks only, over what is answered.
LEMMA CommitAnswer ==
  ASSUME LoopInv, BatchInv, AnswerInv, Commit
  PROVE  AnswerInv'
<1>1. /\ step = "commit" /\ step' = "poll"
      /\ log' = log /\ published' = published /\ dead' = dead
      /\ buckets' = buckets /\ pending' = pending /\ start' = start
      /\ CommitTo(ReadyPartitions)
      /\ \A p \in Partition :
           tracker'[p] = IF p \in ReadyPartitions THEN Acknowledge(tracker[p]) ELSE tracker[p]
  BY DEF Commit
<1>2. Keeps
  BY <1>1, SameExtends DEF LoopInv, TypeOK, LogType, Keeps
<1>3. \A p \in Partition : tracker'[p].done \subseteq tracker[p].done
  BY <1>1, ReadyFields
<1>4. DoneInv'
  BY <1>1, <1>2, <1>3, DoneStays DEF AnswerInv
<1>5. WaitingHeld'
  BY <1>1 DEF AnswerInv, WaitingHeld, RecordAt
<1>6. Backed'
  <2> SUFFICES ASSUME NEW h \in Hand, NEW q \in Pair, buckets[h].pairs[q] # NoSnapshot
               PROVE  BackedBy(h, q, buckets[h].pairs[q])'
    BY <1>1 DEF Backed
  <2>1. PICK s : s = buckets[h].pairs[q]
    OBVIOUS
  <2>2. s.rev \in Nat
    BY <2>1, ProcessorAssumption DEF ProcessorAssumption, LoopInv, TypeOK, BucketType, Versions
  <2>3. BackedBy(h, q, s)
    BY <2>1 DEF AnswerInv, Backed
  <2>4. BackedBy(h, q, s)'
    BY <1>1, <1>2, <2>2, <2>3, BackedStays
  <2> QED
    BY <1>1, <2>1, <2>4 DEF BackedBy
<1>7. CommittedSettled'
  BY <1>1, <1>2, CommitToSettled
<1> QED
  BY <1>4, <1>5, <1>6, <1>7 DEF AnswerInv

\* The process forgets what it held; what a failed commit moved over is answered.
LEMMA FailureAnswer ==
  ASSUME LoopInv, BatchInv, AnswerInv,
         PublishFails \/ DeadLetterFails \/ CommitFails \/ Crash \/ ScoreFails
  PROVE  AnswerInv'
<1>1. Exit /\ published \subseteq published' /\ dead \subseteq dead'
  BY DEF PublishFails, DeadLetterFails, CommitFails, Crash, ScoreFails, Die
<1>2. /\ log' = log /\ step' = "poll" /\ start' = start
      /\ \A h \in Hand : buckets'[h] = NoBucket /\ pending'[h] = {}
      /\ \A p \in Partition : tracker'[p] = NoState
  BY <1>1 DEF Exit
<1>3. Keeps
  BY <1>1, <1>2, SameExtends DEF LoopInv, TypeOK, LogType, Keeps
<1>4. WaitingHeld' /\ Backed' /\ DoneInv'
  BY <1>2 DEF WaitingHeld, Backed, DoneInv, NoBucket, NoState
<1>5. CommittedSettled'
  <2>1. CASE committed' = committed
    BY <1>2, <1>3, <2>1, CommittedStays DEF AnswerInv
  <2>2. CASE CommitFails
    <3>1. PICK S \in SUBSET ReadyPartitions : CommitTo(S)
      BY <2>2 DEF CommitFails
    <3> QED
      BY <1>2, <1>3, <3>1, CommitToSettled
  <2> QED
    BY <2>1, <2>2 DEF PublishFails, DeadLetterFails, Crash, ScoreFails
<1> QED
  BY <1>4, <1>5 DEF AnswerInv

\* The current record is answered by its dead letter before it is marked.
LEMMA DeadLetterAnswer ==
  ASSUME LoopInv, BatchInv, AnswerInv, DeadLetter
  PROVE  AnswerInv'
<1>1. /\ step = "deadLetter" /\ step' = "commit" /\ dead' = dead \cup {current}
      /\ tracker' = [tracker EXCEPT ![current[1]] = MarkProcessed(@, {current[2]})]
      /\ log' = log /\ committed' = committed /\ published' = published
      /\ buckets' = buckets /\ pending' = pending /\ start' = start
  BY DEF DeadLetter
<1>2. Keeps
  BY <1>1, SameExtends DEF LoopInv, TypeOK, LogType, Keeps
<1>3. PICK p \in Partition, c \in Nat : current = <<p, c>> /\ p = current[1] /\ c = current[2]
  BY <1>1 DEF LoopInv, HandleInv, Delivered, Ref
<1>4. \A q \in Partition : tracker'[q].done \subseteq tracker[q].done \cup (IF q = p THEN {c} ELSE {})
  <2>1. tracker \in [Partition -> TrackerState]
    BY DEF LoopInv, TypeOK
  <2>2. tracker'[p] = MarkProcessed(tracker[p], {c})
    BY <1>1, <1>3, <2>1
  <2>3. tracker'[p].done \subseteq tracker[p].done \cup {c}
    BY <2>1, <2>2, MarkFields
  <2>4. \A q \in Partition \ {p} : tracker'[q] = tracker[q]
    BY <1>1, <1>3, <2>1
  <2> QED
    BY <2>3, <2>4
<1>5. DoneInv'
  <2> SUFFICES ASSUME NEW q \in Partition, NEW o \in tracker'[q].done
               PROVE  Settled(<<q, o>>)' \/ Waited(q, o)'
    BY DEF DoneInv
  <2>1. CASE <<q, o>> = current
    <3>1. DeadLettered(<<q, o>>)'
      BY <1>1, <2>1 DEF DeadLettered
    <3> QED
      BY <3>1 DEF Settled
  <2>2. CASE <<q, o>> # current
    <3>1. o \in tracker[q].done
      BY <1>3, <1>4, <2>2
    <3>2. Delivered(<<q, o>>)
      BY <3>1, DoneDelivered
    <3>3. CASE Settled(<<q, o>>)
      BY <1>2, <3>2, <3>3, KeptFacts
    <3>4. CASE Waited(q, o)
      BY <1>1, <1>2, <3>2, <3>4, WaitedStays
    <3> QED
      BY <3>1, <3>3, <3>4 DEF AnswerInv, DoneInv
  <2> QED
    BY <2>1, <2>2
<1>6. WaitingHeld'
  BY <1>1 DEF AnswerInv, WaitingHeld, RecordAt
<1>7. Backed'
  <2> SUFFICES ASSUME NEW h \in Hand, NEW q \in Pair, buckets[h].pairs[q] # NoSnapshot
               PROVE  BackedBy(h, q, buckets[h].pairs[q])'
    BY <1>1 DEF Backed
  <2>1. PICK s : s = buckets[h].pairs[q]
    OBVIOUS
  <2>2. s.rev \in Nat
    BY <2>1, ProcessorAssumption DEF ProcessorAssumption, LoopInv, TypeOK, BucketType, Versions
  <2>3. BackedBy(h, q, s)
    BY <2>1 DEF AnswerInv, Backed
  <2>4. BackedBy(h, q, s)'
    BY <1>1, <1>2, <2>2, <2>3, BackedStays
  <2> QED
    BY <1>1, <2>1, <2>4 DEF BackedBy
<1>8. CommittedSettled'
  BY <1>1, <1>2, CommittedStays DEF AnswerInv
<1> QED
  BY <1>5, <1>6, <1>7, <1>8 DEF AnswerInv

\* A snapshot in a bucket has a revision.
LEMMA SnapshotRevision ==
  ASSUME LoopInv, BatchInv, NEW h \in Hand, NEW q \in Pair, buckets[h].pairs[q] # NoSnapshot
  PROVE  buckets[h].pairs[q].rev \in Nat \ {0}
<1>1. PartitionOf[q] \in Partition
  BY ProcessorAssumption DEF ProcessorAssumption
<1>2. PICK o \in Offsets(PartitionOf[q]) :
        /\ RecordAt(<<PartitionOf[q], o>>) # Poison
        /\ Snapshot(RecordAt(<<PartitionOf[q], o>>)) = buckets[h].pairs[q]
  <2>1. Logged(h, q, buckets[h].pairs[q])
    BY DEF BatchInv, SnapshotsLogged
  <2> QED
    BY <2>1 DEF Logged
<1>3. Delivered(<<PartitionOf[q], o>>) /\ LogType
  BY <1>1 DEF Delivered, Ref, Offsets, LoopInv, TypeOK, LogType
<1>4. RecordAt(<<PartitionOf[q], o>>) \in Event
  BY <1>2, <1>3, DeliveredEvent
<1> QED
  BY <1>2, <1>4 DEF Snapshot, Event

\* A published batch covers every pair of the hand and every record that waited for it.
LEMMA BatchCovers ==
  ASSUME LoopInv, BatchInv, AnswerInv, Regular, NEW h \in Hand, h = CurrentHand, step = "score",
         Scorable(h), published' = published \cup Batch(h), published' \subseteq OutputRecord,
         log' = log
  PROVE  /\ \A q \in Pair : \A n \in Nat :
              n <= buckets[h].pairs[q].rev => Covered(h, q, n)'
         /\ \A r \in pending[h] : \A n \in Nat :
              n <= RecordAt(r).rev => Covered(h, RecordAt(r).pair, Need(n))'
<1>1. /\ buckets[h] \in BucketType /\ buckets[h].emitted = buckets[h].pairs
      /\ buckets[h].pairs \in Versions
  BY DEF LoopInv, TypeOK, BatchInv, EmittedInv, BucketType
<1>2. PICK v \in Versions : v = buckets[h].pairs
  BY <1>1
<1>3. [hand |-> h, versions |-> v] \in Batches'
  <2>1. WholeIn(published', h, v)
    BY <1>1, <1>2 DEF WholeIn, Batch
  <2> QED
    BY ZenonT(60), <2>1, BatchesWhole DEF Batches, BatchesIn
<1>4. ASSUME NEW q \in Pair, NEW n \in Nat, n <= v[q].rev PROVE Covered(h, q, n)'
  <2>1. PICK b \in Batches' : b.hand = h /\ b.versions = v
    BY <1>3
  <2>2. v[q].rev \in Nat
    BY ProcessorAssumption DEF ProcessorAssumption, Versions
  <2> QED
    BY <1>4, <2>1, <2>2 DEF Covered
<1>5. ASSUME NEW r \in pending[h], NEW n \in Nat, n <= RecordAt(r).rev
      PROVE  Covered(h, RecordAt(r).pair, Need(n))'
  <2>1. Delivered(r) /\ RecordAt(r) # Poison /\ LogType
    BY DEF LoopInv, WaitingOpen, TypeOK, LogType
  <2>2. PICK e \in Event : e = RecordAt(r)
    BY <2>1, DeliveredEvent
  <2>3. e.pair \in Pair /\ e.rev \in Nat /\ v[e.pair].rev \in Nat
    BY ProcessorAssumption DEF ProcessorAssumption, Event, Versions
  <2>6. RecordAt(r)' = e
    BY <2>2 DEF RecordAt
  <2>4. CASE ~ Ticking
    <3>1. e.rev <= v[e.pair].rev
      BY <1>2, <2>2, <2>4 DEF AnswerInv, WaitingHeld
    <3>2. n <= v[e.pair].rev
      BY <1>5, <2>2, <2>3, <3>1
    <3>3. Covered(h, e.pair, n)'
      BY <1>4, <2>3, <3>2
    <3> QED
      BY <2>2, <2>4, <2>6, <3>3 DEF Need, Covered
  <2>5. CASE Ticking
    <3>1. Held(buckets[h]) = Pair
      BY <2>5 DEF Regular, Scorable
    <3>2. buckets[h].pairs[e.pair] # NoSnapshot
      BY <2>3, <3>1 DEF Held
    <3>3. 1 <= v[e.pair].rev
      BY <1>2, <2>3, <3>2, SnapshotRevision
    <3>4. Covered(h, e.pair, 1)'
      BY <1>4, <2>3, <3>3
    <3> QED
      BY <2>2, <2>5, <2>6, <3>4 DEF Need, Covered
  <2> QED
    BY <2>4, <2>5
<1> QED
  BY <1>2, <1>4, <1>5

\* The batch answers every record that waited for the hand and all they stood for.
LEMMA PublishAnswer ==
  ASSUME LoopInv, BatchInv, AnswerInv, Regular, Publish
  PROVE  AnswerInv'
<1>1. PICK h \in Hand : h = CurrentHand
  BY ScoringHand DEF Publish
<1>2. /\ step = "score" /\ step' = "commit" /\ Scorable(h) /\ MarkHand(h)
      /\ published' = published \cup Batch(h)
      /\ pending' = [pending EXCEPT ![h] = {}]
      /\ log' = log /\ committed' = committed /\ dead' = dead /\ buckets' = buckets
      /\ start' = start
  BY <1>1 DEF Publish
<1>3. Keeps
  BY <1>2, SameExtends DEF LoopInv, TypeOK, LogType, Keeps
<1>4. \A g \in Hand : pending'[g] = IF g = h THEN {} ELSE pending[g]
  BY <1>2 DEF LoopInv, TypeOK
<1>5. published' \subseteq OutputRecord
  BY PublishLoop DEF LoopInv, TypeOK, OutputRecord
<1>6. /\ \A q \in Pair : \A n \in Nat :
           n <= buckets[h].pairs[q].rev => Covered(h, q, n)'
      /\ \A r \in pending[h] : \A n \in Nat :
           n <= RecordAt(r).rev => Covered(h, RecordAt(r).pair, Need(n))'
  BY <1>1, <1>2, <1>5, BatchCovers
<1>7. \A r : RecordAt(r)' = RecordAt(r)
  BY <1>2 DEF RecordAt
<1>8. WaitingHeld'
  <2> SUFFICES ASSUME ~ Ticking, NEW g \in Hand
               PROVE  /\ buckets[g].age = 0
                      /\ \A r \in pending'[g] : RecordAt(r).rev <= buckets[g].pairs[RecordAt(r).pair].rev
    BY <1>2, <1>7 DEF WaitingHeld
  <2> QED
    BY <1>4 DEF AnswerInv, WaitingHeld
<1>9. Backed'
  <2> SUFFICES ASSUME NEW g \in Hand, NEW q \in Pair, buckets[g].pairs[q] # NoSnapshot
               PROVE  BackedBy(g, q, buckets[g].pairs[q])'
    BY <1>2 DEF Backed
  <2>1. PICK s : s = buckets[g].pairs[q]
    OBVIOUS
  <2>2. s.rev \in Nat \ {0}
    BY <2>1, SnapshotRevision
  <2>3. BackedBy(g, q, s)
    BY <2>1 DEF AnswerInv, Backed
  <2>4. BackedBy(g, q, s)'
    <3>1. CASE g # h
      BY <1>2, <1>3, <1>4, <2>2, <2>3, <3>1, BackedStays
    <3>2. CASE g = h
      <4>1. PICK n \in Nat : n = Need(s.rev) /\ n <= s.rev
        BY <2>2 DEF Need
      <4>2. Covered(g, q, n)'
        BY <1>6, <2>1, <3>2, <4>1
      <4> QED
        BY <4>1, <4>2 DEF BackedBy, Covered, Need
    <3> QED
      BY <3>1, <3>2
  <2> QED
    BY <1>2, <2>1, <2>4 DEF BackedBy
<1>10. DoneInv'
  <2> SUFFICES ASSUME NEW p \in Partition, NEW o \in tracker'[p].done
               PROVE  Settled(<<p, o>>)' \/ Waited(p, o)'
    BY DEF DoneInv
  <2>0. tracker'[p].done = tracker[p].done \cup {x \in tracker[p].seen : <<p, x>> \in pending[h]}
    BY <1>2, MarkedHand
  <2>1. o \in tracker[p].done \/ (o \in tracker[p].seen /\ <<p, o>> \in pending[h])
    BY <2>0
  <2>2. Delivered(<<p, o>>) /\ LogType
    BY <2>1, DoneDelivered DEF LoopInv, TypeOK, LogType
  <2>3. ASSUME NEW r \in pending[h], RecordAt(<<p, o>>) # Poison, RecordAt(<<p, o>>).hand = h,
               RecordAt(r).pair = RecordAt(<<p, o>>).pair,
               RecordAt(<<p, o>>).rev <= RecordAt(r).rev
        PROVE  Settled(<<p, o>>)'
    <3>1. PICK e \in Event : e = RecordAt(<<p, o>>)
      BY <2>2, <2>3, DeliveredEvent
    <3>2. Covered(h, RecordAt(r).pair, Need(e.rev))'
      <4>1. e.rev \in Nat
        BY DEF Event
      <4> QED
        BY <1>6, <2>3, <3>1, <4>1
    <3>3. /\ RecordAt(<<p, o>>)' = e /\ e.hand = h /\ e # Poison
          /\ RecordAt(r)'.pair = e.pair
      BY <1>7, <2>3, <3>1
    <3> QED
      BY <3>2, <3>3 DEF Settled, Covered
  <2>4. CASE <<p, o>> \in pending[h]
    <3>1. RecordAt(<<p, o>>) # Poison /\ RecordAt(<<p, o>>).hand = h
      BY <2>4 DEF LoopInv, WaitingOpen
    <3>2. RecordAt(<<p, o>>).rev <= RecordAt(<<p, o>>).rev
      BY <2>2, <3>1, DeliveredEvent DEF Event
    <3> QED
      BY <2>3, <2>4, <3>1, <3>2
  <2>5. CASE Settled(<<p, o>>)
    BY <1>3, <2>2, <2>5, KeptFacts
  <2>6. CASE Waited(p, o)
    <3>1. RecordAt(<<p, o>>) # Poison /\ RecordAt(<<p, o>>).hand \in Hand
      BY <2>2, <2>6, DeliveredEvent DEF Waited, Event
    <3>2. CASE RecordAt(<<p, o>>).hand = h
      BY <2>3, <2>6, <3>1, <3>2 DEF Waited
    <3>3. CASE RecordAt(<<p, o>>).hand # h
      <4>1. pending'[RecordAt(<<p, o>>).hand] = pending[RecordAt(<<p, o>>).hand]
        BY <1>4, <3>1, <3>3
      <4> QED
        BY <1>3, <2>2, <2>6, <4>1, WaitedStays
    <3> QED
      BY <3>2, <3>3
  <2> QED
    BY <2>1, <2>4, <2>5, <2>6 DEF AnswerInv, DoneInv
<1>11. CommittedSettled'
  BY <1>2, <1>3, CommittedStays DEF AnswerInv
<1> QED
  BY <1>8, <1>9, <1>10, <1>11 DEF AnswerInv

\* A record that AddDetailed forgets repeats or precedes a snapshot that is backed.
LEMMA ForgottenAnswered ==
  ASSUME LoopInv, BatchInv, AnswerInv, step = "poll", NEW p \in Partition, NEW o,
         o = position[p], running, Delivered(<<p, o>>),
         NEW h \in Hand, NEW e \in Event, e # Poison, RecordAt(<<p, o>>) = e, e.hand = h,
         buckets[h].pairs[e.pair] # NoSnapshot,
         \/ e.rev < buckets[h].pairs[e.pair].rev
         \/ Snapshot(e) = buckets[h].pairs[e.pair]
  PROVE  Settled(<<p, o>>) \/ Waited(p, o)
<1>1. PICK q \in Pair : q = e.pair
  BY DEF Event
<1>2. PICK s : s = buckets[h].pairs[q]
  OBVIOUS
<1>3. /\ BackedBy(h, q, s)
      /\ s.rev \in Nat \ {0} /\ e.rev \in Nat \ {0}
      /\ e.rev < s.rev \/ Snapshot(e) = s
      /\ e.rev <= s.rev
  <2>1. BackedBy(h, q, s)
    BY <1>1, <1>2 DEF AnswerInv, Backed
  <2>2. s.rev \in Nat \ {0}
    BY <1>1, <1>2, SnapshotRevision
  <2> QED
    BY <1>1, <1>2, <2>1, <2>2 DEF Snapshot, Event
<1>4. CASE Covered(h, q, Need(s.rev))
  <2>1. PICK n \in Nat, m \in Nat : n = Need(s.rev) /\ m = Need(e.rev) /\ m <= n
    BY <1>3 DEF Need
  <2>2. Covered(h, q, m)
    <3>1. PICK b \in Batches : b.hand = h /\ b.versions[q].rev >= n
      BY <1>4, <2>1 DEF Covered
    <3>2. b.versions \in Versions
      BY <3>1 DEF Batches, LoopInv, TypeOK
    <3>3. b.versions[q].rev \in Nat
      BY <3>2, ProcessorAssumption DEF ProcessorAssumption, Versions
    <3>4. b.versions[q].rev >= m
      BY <2>1, <3>1, <3>3
    <3> QED
      BY <3>1, <3>4 DEF Covered
  <2> QED
    BY <1>1, <2>1, <2>2 DEF Settled
<1>5. ASSUME NEW r \in pending[h], Carries(r, h, q, s) PROVE Waited(p, o)
  <2>1. Delivered(r) /\ r[2] \in Open(tracker[r[1]])
    BY DEF LoopInv, WaitingOpen
  <2>2. r[1] \in Partition /\ r[2] \in Nat /\ r = <<r[1], r[2]>> /\ r[2] \in Offsets(r[1])
    BY <2>1 DEF Delivered, Ref, Offsets, LoopInv, TypeOK
  <2>3. RecordAt(r) # Poison /\ RecordAt(r).pair = q /\ RecordAt(r).rev = s.rev
    BY <1>5 DEF Carries, Snapshot
  <2>4. r[1] = PartitionOf[q]
    BY <2>2, <2>3 DEF BatchInv, LogPlaced
  <2>5. PartitionOf[q] = p
    <3>1. o \in Offsets(p)
      BY DEF Delivered, Ref, Offsets, LoopInv, TypeOK
    <3> QED
      BY <1>1, <3>1 DEF BatchInv, LogPlaced
  <2>6. r[2] < o
    <3>1. r[2] \in tracker[p].seen
      BY <2>1, <2>4, <2>5 DEF Open
    <3>2. tracker[p].seen = From(p) .. (position[p] - 1)
      BY DEF LoopInv, TrackerInv, TrackedFrom
    <3>3. position[p] \in Nat
      BY DEF LoopInv, TypeOK
    <3> QED
      BY <2>2, <3>1, <3>2, <3>3
  <2> QED
    BY <1>1, <1>3, <2>3, <2>4, <2>5, <2>6 DEF Waited
<1>6. ASSUME NEW d \in dead, Carries(d, h, q, s) PROVE Settled(<<p, o>>)
  <2>1. Delivered(d) /\ LogType
    BY DEF BatchInv, DeadInv, LoopInv, TypeOK, LogType
  <2>2. PICK x \in Event : x = RecordAt(d) /\ x # Poison /\ x.hand = h /\ x.pair = q /\ Snapshot(x) = s
    BY <1>6, <2>1, DeliveredEvent DEF Carries
  <2>3. x.rev > e.rev \/ x = e
    <3>1. CASE e.rev < s.rev
      BY <1>3, <2>2, <3>1 DEF Snapshot
    <3>2. CASE Snapshot(e) = s
      <4>1. x.rev = e.rev /\ x.id = e.id /\ x.hand = e.hand /\ x.pair = e.pair
        BY <1>1, <2>2, <3>2 DEF Snapshot
      <4> QED
        BY <4>1 DEF Event
    <3> QED
      BY <1>3, <3>1, <3>2
  <2>4. DeadLettered(<<p, o>>)
    BY <1>1, <2>2, <2>3 DEF DeadLettered
  <2> QED
    BY <2>4 DEF Settled
<1> QED
  BY <1>3, <1>4, <1>5, <1>6 DEF BackedBy

\* The head of Handle: a record that is marked at once repeats or precedes a
\* backed snapshot; one that is stored waits, or is about to be dead-lettered.
LEMMA ReceiveAnswer ==
  ASSUME LoopInv, BatchInv, AnswerInv, NEW p \in Partition, Receive(p)
  PROVE  AnswerInv'
<1>0. PICK o : o = position[p]
  OBVIOUS
<1>1. /\ o \in Nat /\ o < Len(log[p]) /\ Delivered(<<p, o>>) /\ running /\ step = "poll"
      /\ tracker' = [tracker EXCEPT ![p] = tracker'[p]]
      /\ Refuses(p, o) \/ \E h \in Hand, e \in Event, status \in Statuses : Takes(p, o, h, e, status)
  BY <1>0, ReceiveCases
<1>2. /\ log' = log /\ published' = published /\ dead' = dead /\ committed' = committed
      /\ current' = <<p, o>> /\ start' = start
  BY <1>0 DEF Receive, broker
<1>3. Keeps
  BY <1>2, SameExtends DEF LoopInv, TypeOK, LogType, Keeps
<1>4. \A r : RecordAt(r)' = RecordAt(r)
  BY <1>2 DEF RecordAt
<1>5. CommittedSettled'
  BY <1>2, <1>3, CommittedStays DEF AnswerInv
<1>6. \A g \in Partition : g # p => tracker'[g] = tracker[g]
  BY <1>1 DEF LoopInv, TypeOK
<1>7. /\ pending \in [Hand -> SUBSET Ref] /\ buckets \in [Hand -> BucketType]
      /\ \A h \in Hand : \A q \in Pair : buckets[h].pairs[q].rev \in Nat
  BY ProcessorAssumption DEF ProcessorAssumption, LoopInv, TypeOK, BucketType, Versions
<1>8. ASSUME \A h \in Hand : pending[h] \subseteq pending'[h],
             NEW g \in Partition, NEW x \in Nat, Delivered(<<g, x>>),
             Settled(<<g, x>>) \/ Waited(g, x)
      PROVE  Settled(<<g, x>>)' \/ Waited(g, x)'
  <2>1. CASE Settled(<<g, x>>)
    BY <1>3, <1>8, <2>1, KeptFacts
  <2>2. CASE Waited(g, x)
    <3>1. RecordAt(<<g, x>>).hand \in Hand
      BY <1>8, <2>2, DeliveredEvent DEF Waited, Event, LoopInv, TypeOK, LogType
    <3> QED
      BY <1>3, <1>8, <2>2, <3>1, WaitedStays
  <2> QED
    BY <1>8, <2>1, <2>2
<1>9. ASSUME \A h \in Hand : pending[h] \subseteq pending'[h],
             NEW g \in Partition, NEW x \in tracker[g].done
      PROVE  Settled(<<g, x>>)' \/ Waited(g, x)'
  <2>1. x \in Nat /\ Delivered(<<g, x>>)
    BY DoneDelivered
  <2> QED
    BY <1>8, <1>9, <2>1 DEF AnswerInv, DoneInv
<1>10. ASSUME \A h \in Hand : pending[h] \subseteq pending'[h],
              NEW h \in Hand, NEW q \in Pair, NEW s, s = buckets[h].pairs[q], s # NoSnapshot
       PROVE  BackedBy(h, q, s)'
  <2>1. BackedBy(h, q, s) /\ s.rev \in Nat
    BY <1>7, <1>10 DEF AnswerInv, Backed
  <2> QED
    BY <1>1, <1>3, <1>10, <2>1, BackedStays
<1>11. CASE Refuses(p, o)
  <2>1. /\ buckets' = buckets /\ pending' = pending
        /\ tracker'[p].done = tracker[p].done
    BY <1>11 DEF Refuses
  <2>2. WaitingHeld'
    BY <1>4, <2>1 DEF AnswerInv, WaitingHeld
  <2>3. Backed'
    <3> SUFFICES ASSUME NEW h \in Hand, NEW q \in Pair, buckets[h].pairs[q] # NoSnapshot
                 PROVE  BackedBy(h, q, buckets[h].pairs[q])'
      BY <2>1 DEF Backed
    <3>1. PICK s : s = buckets[h].pairs[q]
      OBVIOUS
    <3>2. BackedBy(h, q, s)'
      BY <1>10, <2>1, <3>1
    <3> QED
      BY <2>1, <3>1, <3>2 DEF BackedBy
  <2>4. DoneInv'
    <3> SUFFICES ASSUME NEW g \in Partition, NEW x \in tracker'[g].done
                 PROVE  Settled(<<g, x>>)' \/ Waited(g, x)'
      BY DEF DoneInv
    <3>1. x \in tracker[g].done
      BY <1>6, <2>1
    <3> QED
      BY <1>9, <2>1, <3>1
  <2> QED
    BY <1>5, <2>2, <2>3, <2>4 DEF AnswerInv
<1>12. ASSUME NEW h \in Hand, NEW e \in Event, NEW status \in Statuses, Takes(p, o, h, e, status)
       PROVE  AnswerInv'
  <2>1. PICK b : b = Purge(buckets[h])
    OBVIOUS
  <2>2. PICK new : new = Added(b, e)
    OBVIOUS
  <2>3. /\ RecordAt(<<p, o>>) = e /\ e # Poison /\ h = e.hand
        /\ b \in BucketType /\ EmittedHeld(b)
        /\ status = AssemblyStatus(b, e)
        /\ \A g \in Hand : buckets'[g] = IF g = h THEN new ELSE Purge(buckets[g])
        /\ step' = AfterAssembly(status)
        /\ \A g \in Hand : pending'[g] = IF g = h /\ status \in {"incomplete", "complete"}
                                         THEN pending[g] \cup {<<p, o>>} ELSE pending[g]
        /\ tracker'[p].done \subseteq tracker[p].done \cup (IF status \in Forgotten THEN {o} ELSE {})
    BY <1>7, <1>12, <2>1, <2>2 DEF Takes
  <2>4. \A g \in Hand : pending[g] \subseteq pending'[g]
    BY <2>3
  <2>5. /\ e.pair \in Pair /\ e.rev \in Nat \ {0} /\ Snapshot(e).rev = e.rev
        /\ b.pairs \in Versions /\ new.age = 0
        /\ \A q \in Pair : b.pairs[q].rev <= new.pairs[q].rev
        /\ \A q \in Pair : b.pairs[q].rev \in Nat /\ new.pairs[q].rev \in Nat
    <3>1. new \in BucketType /\ new.age = 0
      BY <2>2, <2>3, AddedFields
    <3>2. \A q \in Pair : b.pairs[q].rev <= new.pairs[q].rev
      BY <2>2, <2>3, AddedOrder
    <3>3. b.pairs \in Versions /\ new.pairs \in Versions
      BY <2>3, <3>1 DEF BucketType
    <3> QED
      BY <3>1, <3>2, <3>3, ProcessorAssumption DEF ProcessorAssumption, Versions, Event, Snapshot
  <2>6. \/ /\ status \in Forgotten
           /\ e.rev < b.pairs[e.pair].rev \/ Snapshot(e) = b.pairs[e.pair]
           /\ new.pairs = b.pairs
        \/ status = "rejected" /\ new.pairs = b.pairs
        \/ /\ status \in {"rejected", "incomplete", "complete"}
           /\ new.pairs = [b.pairs EXCEPT ![e.pair] = Snapshot(e)]
    BY <2>2, <2>3, AddedFields DEF Forgotten
  <2>7. \A g \in Hand : Purge(buckets[g]) = buckets[g] \/ Purge(buckets[g]) = NoBucket
    BY DEF Purge
  <2>8. \A q \in Pair : NoBucket.pairs[q] = NoSnapshot
    BY DEF NoBucket
  <2>9. WaitingHeld'
    <3> SUFFICES ASSUME ~ Ticking, NEW g \in Hand
                 PROVE  /\ buckets'[g].age = 0
                        /\ \A r \in pending'[g] : RecordAt(r).rev <= buckets'[g].pairs[RecordAt(r).pair].rev
      BY <1>4 DEF WaitingHeld
    <3>1. /\ Purge(buckets[g]) = buckets[g] /\ buckets[g].age = 0
          /\ \A r \in pending[g] : RecordAt(r).rev <= buckets[g].pairs[RecordAt(r).pair].rev
      BY AssemblerAssumption DEF AssemblerAssumption, Purge, AnswerInv, WaitingHeld
    <3>2. CASE g # h
      BY <2>3, <3>1, <3>2
    <3>3. CASE g = h
      <4>1. b = buckets[g] /\ buckets'[g] = new
        BY <2>1, <2>3, <3>1, <3>3
      <4>2. ASSUME NEW r \in pending[g]
            PROVE  RecordAt(r).rev <= new.pairs[RecordAt(r).pair].rev
        <5>1. Delivered(r) /\ RecordAt(r) # Poison /\ LogType
          BY DEF LoopInv, WaitingOpen, TypeOK, LogType
        <5>2. PICK x \in Event : x = RecordAt(r)
          BY <5>1, DeliveredEvent
        <5>3. x.pair \in Pair /\ x.rev \in Nat /\ x.rev <= b.pairs[x.pair].rev
          BY <3>1, <4>1, <5>2 DEF Event
        <5>4. x.rev <= new.pairs[x.pair].rev
          BY <2>5, <5>3
        <5> QED
          BY <5>2, <5>4
      <4>3. ASSUME status \in {"incomplete", "complete"}
            PROVE  e.rev <= new.pairs[e.pair].rev
        <5>1. new.pairs = [b.pairs EXCEPT ![e.pair] = Snapshot(e)]
          BY <2>6, <4>3 DEF Forgotten
        <5>2. new.pairs[e.pair] = Snapshot(e)
          BY <2>5, <5>1 DEF Versions
        <5> QED
          BY <2>5, <5>2
      <4>4. \A r \in pending'[g] : RecordAt(r).rev <= new.pairs[RecordAt(r).pair].rev
        <5> SUFFICES ASSUME NEW r \in pending'[g], r \notin pending[g]
                     PROVE  RecordAt(r).rev <= new.pairs[RecordAt(r).pair].rev
          BY <4>2
        <5>1. status \in {"incomplete", "complete"} /\ r = <<p, o>>
          BY <2>3
        <5> QED
          BY <2>3, <4>3, <5>1
      <4> QED
        BY <2>5, <4>1, <4>4
    <3> QED
      BY <3>2, <3>3
  <2>10. ASSUME NEW g \in Hand, NEW q \in Pair, NEW s, s = Purge(buckets[g]).pairs[q], s # NoSnapshot
         PROVE  BackedBy(g, q, s)'
    <3>1. Purge(buckets[g]) = buckets[g]
      BY <2>7, <2>8, <2>10
    <3> QED
      BY <1>10, <2>4, <2>10, <3>1
  <2>11. ASSUME status \in {"rejected", "incomplete", "complete"}
         PROVE  BackedBy(h, e.pair, Snapshot(e))'
    <3>1. \A r : r = <<p, o>> => Carries(r, h, e.pair, Snapshot(e))'
      BY <1>4, <2>3 DEF Carries, Snapshot
    <3>2. CASE status \in {"incomplete", "complete"}
      <4>1. <<p, o>> \in pending'[h]
        BY <2>3, <3>2
      <4> QED
        BY <3>1, <4>1 DEF BackedBy
    <3>3. CASE status = "rejected"
      <4>1. step' = "deadLetter"
        BY <2>3, <3>3 DEF AfterAssembly
      <4>2. PICK r : r = <<p, o>> /\ r = current'
        BY <1>2
      <4>3. Carries(r, h, e.pair, Snapshot(e))'
        BY <3>1, <4>2
      <4>4. Carries(current, h, e.pair, Snapshot(e))'
        BY <4>2, <4>3 DEF Carries, RecordAt, Snapshot
      <4> QED
        BY <4>1, <4>4 DEF BackedBy
    <3> QED
      BY <2>11, <3>2, <3>3
  <2>12. Backed'
    <3> SUFFICES ASSUME NEW g \in Hand, NEW q \in Pair, buckets'[g].pairs[q] # NoSnapshot
                 PROVE  BackedBy(g, q, buckets[g].pairs[q])'
      BY DEF Backed
    <3>1. PICK s : s = buckets'[g].pairs[q]
      OBVIOUS
    <3>2. CASE s = Purge(buckets[g]).pairs[q]
      <4>1. BackedBy(g, q, s)'
        BY <2>10, <3>1, <3>2
      <4> QED
        BY <3>1, <4>1 DEF BackedBy
    <3>3. CASE s # Purge(buckets[g]).pairs[q]
      <4>1. g = h /\ s = new.pairs[q] /\ s # b.pairs[q]
        BY <2>1, <2>3, <3>1, <3>3
      <4>2. /\ status \in {"rejected", "incomplete", "complete"}
            /\ new.pairs = [b.pairs EXCEPT ![e.pair] = Snapshot(e)]
        BY <2>6, <4>1
      <4>3. q = e.pair /\ s = Snapshot(e)
        BY <2>5, <4>1, <4>2 DEF Versions
      <4>4. PICK k, t : k = e.pair /\ t = Snapshot(e)
        OBVIOUS
      <4>5. BackedBy(h, k, t)'
        BY <2>11, <4>2, <4>4 DEF BackedBy
      <4> QED
        BY <3>1, <4>1, <4>3, <4>4, <4>5 DEF BackedBy
    <3> QED
      BY <3>2, <3>3
  <2>13. DoneInv'
    <3> SUFFICES ASSUME NEW g \in Partition, NEW x \in tracker'[g].done
                 PROVE  Settled(<<g, x>>)' \/ Waited(g, x)'
      BY DEF DoneInv
    <3>1. CASE x \in tracker[g].done
      BY <1>9, <2>4, <3>1
    <3>2. CASE x \notin tracker[g].done
      <4>1. g = p /\ x = o /\ status \in Forgotten
        BY <1>6, <2>3, <3>2
      <4>2. e.rev < b.pairs[e.pair].rev \/ Snapshot(e) = b.pairs[e.pair]
        BY <2>6, <4>1 DEF Forgotten
      <4>3. b.pairs[e.pair] # NoSnapshot
        BY <2>5, <4>2 DEF NoSnapshot
      <4>4. b = buckets[h]
        BY <2>1, <2>5, <2>7, <2>8, <4>3
      <4>5. Settled(<<p, o>>) \/ Waited(p, o)
        BY <1>0, <1>1, <2>3, <4>2, <4>3, <4>4, ForgottenAnswered
      <4> QED
        BY <1>1, <1>8, <2>4, <4>1, <4>5
    <3> QED
      BY <3>1, <3>2
  <2> QED
    BY <1>5, <2>9, <2>12, <2>13 DEF AnswerInv
<1> QED
  BY <1>1, <1>11, <1>12

\* In a new process nothing waits, nothing is backed and nothing is committed.
LEMMA InitAnswer == Init => AnswerInv
<1> SUFFICES ASSUME Init PROVE AnswerInv
  OBVIOUS
<1>1. \A p \in Partition : Offsets(p) = {}
  BY DEF Init, Offsets
<1>2. WaitingHeld /\ Backed /\ DoneInv
  BY DEF Init, WaitingHeld, Backed, DoneInv, NoBucket, NoState
<1>3. CommittedSettled
  BY <1>1 DEF CommittedSettled, Consumed
<1> QED
  BY <1>2, <1>3 DEF AnswerInv

\* No step of the system breaks the third invariant.
LEMMA NextAnswer ==
  ASSUME LoopInv, BatchInv, AnswerInv, Regular, [Next]_vars
  PROVE  AnswerInv'
<1>1. LogType' /\ LogExtends
  BY LogStep DEF LoopInv, TypeOK, LogType
<1>2. CASE \/ \E e \in Event : Emit(e)
           \/ \E p \in Partition : EmitPoison(p)
           \/ Restart
           \/ UNCHANGED vars
  <2>1. /\ published' = published /\ dead' = dead /\ committed' = committed
        /\ tracker' = tracker /\ pending' = pending /\ buckets' = buckets
        /\ step' = step /\ current' = current
        /\ \A p \in Partition : committed[p] # NoOffset => start'[p] = start[p]
    BY <1>2 DEF Emit, EmitPoison, Restart, vars, broker, memory
  <2>2. Keeps
    BY <1>1, <2>1 DEF Keeps
  <2> QED
    BY <2>1, <2>2, QuietAnswer
<1>3. CASE Tick
  <2>1. /\ published' = published /\ dead' = dead /\ committed' = committed
        /\ tracker' = tracker /\ pending' = pending
        /\ step' = step /\ current' = current /\ start' = start /\ Ticking
    BY <1>3 DEF Tick, broker
  <2>2. Keeps
    BY <1>1, <2>1 DEF Keeps
  <2>3. \A h \in Hand : buckets'[h].pairs = buckets[h].pairs
    <3>1. buckets \in [Hand -> BucketType]
      BY DEF LoopInv, TypeOK
    <3> SUFFICES ASSUME NEW b \in BucketType
                 PROVE  [b EXCEPT !.age = @ + 1].pairs = b.pairs
      BY <1>3, <3>1 DEF Tick
    <3> QED
      BY DEF BucketType
  <2> QED
    BY <2>1, <2>2, <2>3, QuietAnswer
<1> QED
  BY <1>2, <1>3, ReceiveAnswer, PublishAnswer, DeadLetterAnswer, CommitAnswer, FailureAnswer DEF Next

\* All three invariants, where buckets do not expire or every pair is the hand's.
LEMMA AnswersHold ==
  ASSUME Regular
  PROVE  SafetySpec => [](IInv /\ AnswerInv)
<1>1. Init => IInv /\ AnswerInv
  BY InitLoop, InitBatch, InitAnswer DEF IInv
<1>2. IInv /\ AnswerInv /\ [Next]_vars => (IInv /\ AnswerInv)'
  BY NextLoop, NextBatch, NextAnswer DEF IInv
<1> QED
  BY <1>1, <1>2, PTL DEF SafetySpec

-----------------------------------------------------------------------------
(* What the third invariant shows. *)

\* Without expiry, to be settled is to be answered.
LEMMA SettledAnswered ==
  ASSUME ~ Ticking, NEW r
  PROVE  Settled(r) <=> Answered(r)
BY DEF Settled, Answered, Need

\* The group moves past a record that no start at the end of the topic skipped
\* only when a whole batch that covers its revision, or a dead letter, is
\* durable: while no bucket expires, for both values of FromBeginning.
THEOREM CommittedAnsweredHolds ==
  ASSUME ~ Ticking
  PROVE  SafetySpec => []CommittedAnswered
<1>1. IInv /\ AnswerInv => CommittedAnswered
  BY SettledAnswered DEF AnswerInv, CommittedSettled, CommittedAnswered
<1> QED
  BY <1>1, AnswersHold, PTL DEF Regular

\* Whatever expires, the group moves past a record that no start at the end of
\* the topic skipped only when some revision of its pair was published with its
\* hand, or a dead letter covers it: while every pair identity belongs to the
\* hand's players, for both values of FromBeginning.
THEOREM CommittedScoredHolds ==
  ASSUME Whole = {Pair}
  PROVE  SafetySpec => []CommittedScored
<1>1. IInv /\ AnswerInv => CommittedScored
  <2> SUFFICES ASSUME IInv, AnswerInv, NEW p \in Partition, NEW o \in Consumed(p), o < committed[p],
                      ~ DeadLettered(<<p, o>>)
               PROVE  /\ RecordAt(<<p, o>>) # Poison
                      /\ Covered(RecordAt(<<p, o>>).hand, RecordAt(<<p, o>>).pair, 1)
    BY DEF CommittedScored
  <2>1. /\ Delivered(<<p, o>>) /\ LogType /\ published \subseteq OutputRecord
    BY DEF IInv, LoopInv, TypeOK, LogType, OutputRecord, Delivered, Ref, Offsets, Consumed
  <2>2. /\ RecordAt(<<p, o>>) # Poison
        /\ Covered(RecordAt(<<p, o>>).hand, RecordAt(<<p, o>>).pair, Need(RecordAt(<<p, o>>).rev))
    BY DEF AnswerInv, CommittedSettled, Settled
  <2>3. PICK e \in Event : e = RecordAt(<<p, o>>)
    BY <2>1, <2>2, DeliveredEvent
  <2>4. PICK n \in Nat : n = Need(e.rev) /\ 1 <= n
    BY DEF Need, Event
  <2>5. PICK b \in Batches : b.hand = e.hand /\ b.versions[e.pair].rev >= n
    BY <2>2, <2>3, <2>4 DEF Covered
  <2>6. b.versions \in Versions
    BY <2>1, <2>5 DEF Batches, OutputRecord
  <2>7. b.versions[e.pair].rev \in Nat
    BY <2>6, ProcessorAssumption DEF ProcessorAssumption, Versions, Event
  <2>8. b.versions[e.pair].rev >= 1
    BY <2>4, <2>5, <2>7
  <2> QED
    BY <2>2, <2>3, <2>5, <2>8 DEF Covered
<1> QED
  BY <1>1, AnswersHold, PTL DEF Regular

\* The group answers for every record.
NoneSkipped == start = [p \in Partition |-> 0]

\* With --from-beginning no start skips a record.
LEMMA NothingSkipped ==
  ASSUME FromBeginning
  PROVE  SafetySpec => []NoneSkipped
<1>1. Init => NoneSkipped
  BY DEF Init, NoneSkipped
<1>2. NoneSkipped /\ [Next]_vars => NoneSkipped'
  BY DEF NoneSkipped, Next, vars, Emit, EmitPoison, Receive, Tick, Publish, DeadLetter, Commit,
     PublishFails, DeadLetterFails, CommitFails, Crash, ScoreFails, Restart, Die, Exit, StartOffset
<1> QED
  BY <1>1, <1>2, PTL DEF SafetySpec

\* Without expiry, and with --from-beginning, the scorer implements the promise of
\* at-least-once delivery: what is answered stays so, and the group moves
\* forward over it only.
THEOREM ImplementsAtLeastOnceHolds ==
  ASSUME ~ Ticking, FromBeginning
  PROVE  SafetySpec => ImplementsAtLeastOnce
<1>1. Init => Promise!Init
  <2> SUFFICES ASSUME Init PROVE Promise!Init
    OBVIOUS
  <2>1. \A p \in Partition : Offsets(p) = {}
    BY DEF Init, Offsets
  <2> QED
    BY <2>1 DEF Init, Promise!Init, NoOffset, Promise!NoOffset
<1>2. ASSUME IInv, AnswerInv, NoneSkipped, [Next]_vars
      PROVE  [Promise!Next]_(Promise!vars)
  <2>1. /\ LoopInv /\ BatchInv /\ AnswerInv /\ LogType /\ LogType' /\ LogExtends
        /\ committed \in [Partition -> Nat \cup {NoOffset}]
    BY <1>2, LogStep DEF IInv, LoopInv, TypeOK, LogType
  <2>2. \/ /\ UNCHANGED committed
           /\ published \subseteq published' /\ dead \subseteq dead'
        \/ /\ UNCHANGED <<log, published, dead>>
           /\ \E S \in SUBSET ReadyPartitions : CommitTo(S)
    BY <1>2 DEF Next, vars, broker, Emit, EmitPoison, Receive, Tick, Publish, DeadLetter, Commit,
       PublishFails, DeadLetterFails, CommitFails, Crash, ScoreFails, Restart, Die, Exit
  <2>3. CASE UNCHANGED committed /\ published \subseteq published' /\ dead \subseteq dead'
    <3>1. Keeps
      BY <2>1, <2>3 DEF Keeps
    <3>2. ASSUME NEW p \in Partition
          PROVE  /\ Offsets(p) \subseteq Offsets(p)'
                 /\ \A o \in Offsets(p)' \ Offsets(p) : committed[p] <= o
                 /\ {o \in Offsets(p) : Answered(<<p, o>>)}
                      \subseteq {o \in Offsets(p) : Answered(<<p, o>>)}'
      <4>1. /\ committed[p] \in Int /\ committed[p] <= Len(log[p])
            /\ Len(log[p]) \in Nat /\ Len(log'[p]) \in Nat /\ Len(log[p]) <= Len(log'[p])
        BY <2>1 DEF LoopInv, TrackerInv, TrackedFrom, From, NoOffset, LogExtends
      <4>2. Offsets(p) \subseteq Offsets(p)'
            /\ \A o \in Offsets(p)' \ Offsets(p) : committed[p] <= o
        BY <4>1 DEF Offsets
      <4>3. ASSUME NEW o \in Offsets(p), Answered(<<p, o>>) PROVE Answered(<<p, o>>)'
        <5>1. Delivered(<<p, o>>)
          BY <4>1 DEF Delivered, Ref, Offsets
        <5>2. Settled(<<p, o>>)
          BY <4>3, SettledAnswered
        <5>3. Settled(<<p, o>>)'
          BY <2>1, <3>1, <5>1, <5>2, KeptFacts
        <5> QED
          BY <5>3 DEF Settled, Answered, Need
      <4> QED
        BY <4>2, <4>3
    <3>3. Promise!Extend
      BY <2>3, <3>2 DEF Promise!Extend
    <3> QED
      BY <3>3 DEF Promise!Next
  <2>4. ASSUME UNCHANGED <<log, published, dead>>, NEW S \in SUBSET ReadyPartitions, CommitTo(S)
        PROVE  Promise!Next
    <3>1. \A p \in Partition : Offsets(p)' = Offsets(p)
      BY <2>4 DEF Offsets
    <3>2. \A r : Answered(r)' = Answered(r)
      BY <2>4 DEF Answered, DeadLettered, Covered, Batches, RecordAt
    <3>3. ASSUME NEW p \in Partition
          PROVE  \/ committed'[p] = committed[p]
                 \/ /\ committed'[p] > committed[p]
                    /\ \A o \in Offsets(p) : o < committed'[p] => Answered(<<p, o>>)
      <4>1. CASE p \in S
        <5>1. committed'[p] = Watermark(tracker[p])
          BY <2>4, <4>1 DEF CommitTo
        <5>2. From(p) < Watermark(tracker[p]) /\ Watermark(tracker[p]) \in Nat
          BY <2>1, <4>1, ReadyFields
        <5>3. committed'[p] > committed[p]
          BY <2>1, <5>1, <5>2 DEF From, NoOffset
        <5>4. \A o \in Offsets(p) : o < Watermark(tracker[p]) => Answered(<<p, o>>)
          <6>1. \A o \in Offsets(p) : o \in Consumed(p)
            BY <1>2, <2>1 DEF NoneSkipped, Consumed, Offsets, LoopInv, TypeOK
          <6> QED
            BY <2>1, <4>1, <6>1, WatermarkSettled, SettledAnswered
        <5> QED
          BY <5>1, <5>3, <5>4
      <4>2. CASE p \notin S
        BY <2>4, <4>2 DEF CommitTo
      <4> QED
        BY <4>1, <4>2
    <3>4. Promise!Advance
      BY <2>4, <3>1, <3>2, <3>3 DEF Promise!Advance, Promise!SettledBelow
    <3> QED
      BY <3>4 DEF Promise!Next
  <2> QED
    BY <2>2, <2>3, <2>4
<1> QED
  BY <1>1, <1>2, AnswersHold, NothingSkipped, PTL DEF SafetySpec, ImplementsAtLeastOnce, Promise!Spec, Regular
=============================================================================
