------------------------ MODULE TrackedConsumerProofs ------------------------
(***************************************************************************)
(* Proofs about TrackedConsumer: type correctness, no loss, monotone       *)
(* commits and the implementation of AtLeastOnce, for any partitions, any  *)
(* bound on offsets and failures, with or without offset gaps, when the    *)
(* group starts from the beginning of its topics.                          *)
(***************************************************************************)
EXTENDS TrackedConsumer, OffsetTrackerProofs

-----------------------------------------------------------------------------
(* The inductive invariant *)

\* Nothing lies beyond the end of the log.
Bounded(p) ==
  /\ \A o \in log[p] : o < logEnd[p]
  /\ committed[p] <= logEnd[p]
  /\ position[p] <= logEnd[p]

\* The tracker holds delivered records at or above its base; those it marks are
\* settled; it holds every record between its base and the highest one it
\* holds, and nothing uncommitted lies below its base.
TrackerExact(p) ==
  LET st == tracker[p] IN
  /\ st.done \subseteq st.seen
  /\ st.done \subseteq settled[p]
  /\ st.seen \subseteq log[p]
  /\ \A s \in st.seen : st.base <= s
  /\ Tracked(st) => committed[p] <= st.base
  /\ Tracked(st) => \A o \in log[p] : o < st.base => o < committed[p]
  /\ \A s \in st.seen : \A o \in log[p] : st.base <= o /\ o <= s => o \in st.seen

\* The process tracks every record between the group's offset and its own
\* position, and can commit only what it fetched.
PositionExact(p) ==
  /\ committed[p] <= position[p]
  /\ \A o \in log[p] : committed[p] <= o /\ o < position[p] => o \in tracker[p].seen
  /\ tracker[p].base \in log[p] => \A s \in tracker[p].seen : s < position[p]

IInv ==
  /\ TypeOK
  /\ NoLoss
  /\ ~ running => \A p \in Partition : tracker[p] = NoState
  /\ \A p \in Partition : Bounded(p) /\ TrackerExact(p)
  /\ running => \A p \in Partition : PositionExact(p)

LEMMA WatermarkInv ==
  ASSUME IInv, NEW p \in Partition
  PROVE  /\ Watermark(tracker[p]) \in Nat
         /\ tracker[p].base <= Watermark(tracker[p])
         /\ tracker[p].base .. (Watermark(tracker[p]) - 1) \subseteq tracker[p].done
         /\ Watermark(tracker[p]) \notin tracker[p].done
<1>1. tracker[p] \in TrackerState /\ logEnd[p] \in Nat
  BY DEF IInv, TypeOK, Offset
<1>2. \A o \in tracker[p].done : o < logEnd[p]
  BY DEF IInv, Bounded, TrackerExact
<1>3. QED BY <1>1, <1>2, WatermarkStops

-----------------------------------------------------------------------------
(* Initially *)

LEMMA InitInv == Init => IInv
<1> SUFFICES ASSUME Init PROVE IInv
  OBVIOUS
<1>1. TypeOK
  BY ConsumerAssumption DEF Init, TypeOK, TrackerState, NoState, Offset, NoOffset
<1>2. NoLoss
  BY DEF Init, NoLoss
<1>3. \A p \in Partition : Bounded(p) /\ TrackerExact(p) /\ PositionExact(p)
  BY DEF Init, Bounded, TrackerExact, PositionExact, NoState, NoOffset, Tracked
<1>4. QED BY <1>1, <1>2, <1>3 DEF IInv, Init

-----------------------------------------------------------------------------
(* Every action preserves the invariant *)

LEMMA AppendInv ==
  ASSUME IInv, NEW p \in Partition, Append(p)
  PROVE  IInv'
<1> USE DEF IInv, TypeOK, Offset, Append, broker, process
<1>1. TypeOK'
  BY DEF TrackerState
<1>2. logEnd[p] \in Nat /\ committed[p] \in Int /\ position[p] \in Nat
      /\ tracker[p] \in TrackerState
  BY DEF NoOffset
<1>3. NoLoss'
  BY <1>2 DEF NoLoss, Bounded, NoOffset
<1>4. ASSUME NEW q \in Partition PROVE Bounded(q)' /\ TrackerExact(q)'
  <2>1. Bounded(q)'
    BY <1>2 DEF Bounded, NoOffset
  <2>2. TrackerExact(q)'
    <3>1. tracker[q] \in TrackerState
      OBVIOUS
    <3>2. CASE q # p
      BY <3>2 DEF TrackerExact, Tracked
    <3>3. CASE q = p
      <4>1. Tracked(tracker[p]) => tracker[p].base < logEnd[p]
        BY <3>1, <3>3, <1>2 DEF TrackerExact, Bounded, Tracked, TrackerState
      <4>2. \A s \in tracker[p].seen : s < logEnd[p]
        BY DEF TrackerExact, Bounded
      <4>3. log'[p] = log[p] \cup {logEnd[p]}
        OBVIOUS
      <4>4. QED BY <1>2, <3>3, <4>1, <4>2, <4>3 DEF TrackerExact, Tracked, TrackerState
    <3>4. QED BY <3>2, <3>3
  <2>3. QED BY <2>1, <2>2
<1>5. ASSUME running', NEW q \in Partition PROVE PositionExact(q)'
  <2>1. CASE q # p
    BY <1>5, <2>1 DEF PositionExact
  <2>2. CASE q = p
    <3>1. \A s \in tracker[p].seen : tracker[p].base <= s /\ s < logEnd[p]
      BY DEF TrackerExact, Bounded
    <3>2. tracker[p].base # logEnd[p] \/ tracker[p].seen = {}
      BY <1>2, <3>1 DEF TrackerState
    <3>3. position[p] <= logEnd[p]
      BY DEF Bounded
    <3>4. QED BY <1>2, <1>5, <2>2, <3>2, <3>3 DEF PositionExact
  <2>3. QED BY <2>1, <2>2
<1>6. QED BY <1>1, <1>3, <1>4, <1>5

LEMMA SkipOffsetInv ==
  ASSUME IInv, NEW p \in Partition, SkipOffset(p)
  PROVE  IInv'
<1> USE DEF IInv, TypeOK, Offset, SkipOffset, process
<1>1. TypeOK'
  BY DEF TrackerState
<1>2. \A q \in Partition : Bounded(q)'
  BY DEF Bounded, NoOffset
<1>3. NoLoss'
  BY DEF NoLoss
<1>4. \A q \in Partition : TrackerExact(q)'
  BY DEF TrackerExact, Tracked
<1>5. running' => \A q \in Partition : PositionExact(q)'
  BY DEF PositionExact
<1>6. QED BY <1>1, <1>2, <1>3, <1>4, <1>5

LEMMA DeliverInv ==
  ASSUME IInv, NEW p \in Partition, NEW o \in log[p], Deliver(p, o)
  PROVE  IInv'
<1> USE DEF IInv, TypeOK, Offset, Deliver, BetweenRecords, broker
<1>1. /\ o \in Nat /\ position[p] \in Nat /\ committed[p] \in Int
      /\ tracker[p] \in TrackerState
      /\ log[p] \in SUBSET Nat
      /\ position[p] <= o /\ committed[p] <= position[p]
      /\ \A q \in log[p] : position[p] <= q => o <= q
  BY DEF NoOffset, PositionExact
<1>2. Tracked(tracker[p]) => tracker[p].base <= o
  <2> SUFFICES ASSUME Tracked(tracker[p]), ~ (tracker[p].base <= o) PROVE FALSE
    OBVIOUS
  <2>1. o < tracker[p].base
    BY <1>1 DEF TrackerState
  <2>2. o < committed[p]
    BY <2>1 DEF TrackerExact
  <2>3. QED BY <1>1, <2>2
<1>3. /\ tracker'[p] \in TrackerState
      /\ tracker'[p].seen = tracker[p].seen \cup {o}
      /\ tracker'[p].done = tracker[p].done
      /\ tracker'[p].base = IF Tracked(tracker[p]) THEN tracker[p].base ELSE o
  BY <1>1, <1>2, ObserveFields DEF TrackerExact
<1>4. TypeOK'
  BY <1>1, <1>3
<1>5. NoLoss'
  BY DEF NoLoss
<1>6. \A q \in Partition : q # p => tracker'[q] = tracker[q] /\ position'[q] = position[q]
  OBVIOUS
<1>7. ASSUME NEW q \in Partition PROVE Bounded(q)'
  BY <1>1, <1>7 DEF Bounded
<1>8. ASSUME NEW q \in Partition PROVE TrackerExact(q)'
  <2>1. CASE q # p
    BY <1>6, <2>1 DEF TrackerExact, Tracked
  <2>2. CASE q = p
    <3>1. \A r \in log[p] : committed[p] <= r /\ r < position[p] => r \in tracker[p].seen
      BY DEF PositionExact
    <3>2. CASE Tracked(tracker[p])
      <4>1. tracker'[p].base = tracker[p].base /\ Tracked(tracker'[p])
        BY <1>3, <3>2 DEF Tracked
      <4>2. \A r \in log[p] : tracker[p].base <= r /\ r <= o => r \in tracker'[p].seen
        BY <1>1, <1>3, <3>1, <3>2 DEF TrackerExact, TrackerState
      <4>3. QED BY <1>1, <1>2, <1>3, <2>2, <3>2, <4>1, <4>2 DEF TrackerExact
    <3>3. CASE ~ Tracked(tracker[p])
      <4>1. tracker'[p].base = o /\ tracker'[p].seen = {o} /\ tracker'[p].done = {}
        BY <1>3, <3>3 DEF Tracked, TrackerExact
      <4>2. \A r \in log[p] : r < o => r < committed[p]
        BY <1>1, <3>1, <3>3 DEF Tracked
      <4>3. QED BY <1>1, <2>2, <4>1, <4>2 DEF TrackerExact
    <3>4. QED BY <3>2, <3>3
  <2>3. QED BY <2>1, <2>2
<1>9. ASSUME NEW q \in Partition PROVE PositionExact(q)'
  <2>1. CASE q # p
    BY <1>6, <2>1 DEF PositionExact
  <2>2. CASE q = p
    <3>1. position'[p] = o + 1
      OBVIOUS
    <3>2. \A r \in log[p] : committed[p] <= r /\ r < o + 1 => r \in tracker'[p].seen
      BY <1>1, <1>3 DEF PositionExact
    <3>3. tracker'[p].base \in log[p] => \A s \in tracker'[p].seen : s < o + 1
      <4>1. CASE Tracked(tracker[p])
        BY <1>1, <1>3, <4>1 DEF PositionExact, TrackerState
      <4>2. CASE ~ Tracked(tracker[p])
        BY <1>1, <1>3, <4>2 DEF Tracked
      <4>3. QED BY <4>1, <4>2
    <3>4. QED BY <1>1, <2>2, <3>1, <3>2, <3>3 DEF PositionExact
  <2>3. QED BY <2>1, <2>2
<1>10. QED BY <1>4, <1>5, <1>7, <1>8, <1>9

LEMMA ProcessInv ==
  ASSUME IInv, NEW p \in Partition, NEW o \in tracker[p].seen, Process(p, o)
  PROVE  IInv'
<1> USE DEF IInv, TypeOK, Offset, Process, broker
<1>1. tracker[p] \in TrackerState /\ o \in Nat
  BY DEF TrackerState
<1>2. /\ tracker'[p] \in TrackerState
      /\ tracker'[p].seen = tracker[p].seen
      /\ tracker'[p].done = tracker[p].done \cup {o}
      /\ tracker'[p].base = tracker[p].base
  BY <1>1, MarkFields
<1>3. settled'[p] = settled[p] \cup {o}
  OBVIOUS
<1>4. \A q \in Partition : q # p => tracker'[q] = tracker[q] /\ settled'[q] = settled[q]
  OBVIOUS
<1>5. TypeOK'
  BY <1>1, <1>2
<1>6. NoLoss'
  BY <1>3, <1>4 DEF NoLoss
<1>7. \A q \in Partition : Bounded(q)'
  BY DEF Bounded
<1>8. ASSUME NEW q \in Partition PROVE TrackerExact(q)' /\ PositionExact(q)'
  <2>1. CASE q # p
    BY <1>4, <2>1 DEF TrackerExact, PositionExact, Tracked
  <2>2. CASE q = p
    <3>1. /\ tracker'[q].seen = tracker[q].seen /\ tracker'[q].base = tracker[q].base
          /\ tracker'[q].done = tracker[q].done \cup {o} /\ o \in tracker[q].seen
          /\ settled'[q] = settled[q] \cup {o}
          /\ log' = log /\ committed' = committed /\ position' = position
      BY <1>2, <1>3, <2>2
    <3>2. TrackerExact(q)'
      BY <3>1 DEF TrackerExact, Tracked
    <3>3. PositionExact(q)'
      BY <3>1 DEF PositionExact
    <3>4. QED BY <3>2, <3>3
  <2>3. QED BY <2>1, <2>2
<1>9. QED BY <1>5, <1>6, <1>7, <1>8

(***************************************************************************)
(* A process that dies leaves a consistent broker: an empty tracker is     *)
(* exact whatever was committed or settled before.                         *)
(***************************************************************************)
LEMMA DieInv ==
  ASSUME IInv, Die, NoLoss',
         settled' \in [Partition -> SUBSET Offset],
         committed' \in [Partition -> Offset \cup {NoOffset}],
         \A p \in Partition : committed'[p] <= logEnd[p],
         delivered' = delivered
  PROVE  IInv'
<1> USE DEF IInv, TypeOK, Offset, Die
<1>1. TypeOK'
  <2>1. NoState \in TrackerState
    BY DEF NoState, TrackerState
  <2>2. failures' \in Nat /\ running' \in BOOLEAN /\ tracker' \in [Partition -> TrackerState]
    <3>1. failures' \in Nat
      OBVIOUS
    <3>2. running' \in BOOLEAN
      OBVIOUS
    <3>3. tracker' \in [Partition -> TrackerState]
      BY <2>1
    <3>4. QED BY <3>1, <3>2, <3>3
  <2>3. QED BY <2>2
<1>2. \A p \in Partition : Bounded(p)'
  BY DEF Bounded
<1>3. \A p \in Partition : tracker'[p] = NoState
  OBVIOUS
<1>4. \A p \in Partition : TrackerExact(p)'
  BY <1>3 DEF TrackerExact, NoState, Tracked
<1>5. QED BY <1>1, <1>2, <1>3, <1>4

(***************************************************************************)
(* What a commit of the ready offsets of the partitions S does to the      *)
(* group: it stays within the log, loses nothing and goes forward.         *)
(***************************************************************************)
LEMMA CommitToSafe ==
  ASSUME IInv, running, NEW S \in SUBSET ReadyPartitions, CommitTo(S),
         log' = log, settled' = settled
  PROVE  /\ committed' \in [Partition -> Offset \cup {NoOffset}]
         /\ NoLoss'
         /\ \A p \in Partition : committed'[p] <= position[p]
         /\ \A p \in Partition : committed'[p] <= logEnd[p]
         /\ \A p \in Partition :
              \/ committed'[p] = committed[p]
              \/ /\ committed'[p] > committed[p]
                 /\ \A o \in log[p] : o < committed'[p] => o \in settled[p]
<1> USE DEF IInv, TypeOK, Offset
<1>1. S \subseteq Partition
  BY DEF ReadyPartitions
<1>2. \A p \in Partition : committed'[p] = IF p \in S THEN Watermark(tracker[p]) ELSE committed[p]
  BY DEF CommitTo
<1>3. ASSUME NEW p \in S
      PROVE  /\ Watermark(tracker[p]) \in Nat
             /\ Watermark(tracker[p]) <= position[p]
             /\ Watermark(tracker[p]) > committed[p]
             /\ \A o \in log[p] : o < Watermark(tracker[p]) => o \in settled[p]
  <2> DEFINE w == Watermark(tracker[p])
             st == tracker[p]
  <2>1. p \in Partition /\ w > st.base
    BY DEF ReadyPartitions, Ready
  <2>2. /\ st \in TrackerState /\ position[p] \in Nat
        /\ committed[p] \in Int /\ log[p] \in SUBSET Nat
    BY <2>1 DEF NoOffset
  <2>3. w \in Nat /\ st.base \in Nat /\ st.base .. (w - 1) \subseteq st.done
    BY <2>1, <2>2, WatermarkInv DEF TrackerState
  <2>4. st.base \in st.done /\ w - 1 \in st.done
    <3>1. st.base \in st.base .. (w - 1) /\ w - 1 \in st.base .. (w - 1)
      BY <2>1, <2>3
    <3>2. QED BY <2>3, <3>1
  <2>5. TrackerExact(p) /\ PositionExact(p)
    BY <2>1
  <2>6. st.base \in st.seen /\ w - 1 \in st.seen /\ st.base \in log[p] /\ Tracked(st)
    BY <2>4, <2>5 DEF TrackerExact, Tracked
  <2>7. w - 1 < position[p]
    BY <2>5, <2>6 DEF PositionExact
  <2>8. w <= position[p]
    BY <2>2, <2>3, <2>7
  <2>9. committed[p] <= st.base
    BY <2>5, <2>6 DEF TrackerExact
  <2>10. ASSUME NEW o \in log[p], o < w PROVE o \in settled[p]
    <3>1. CASE o < st.base
      <4>1. o < committed[p]
        BY <2>5, <2>6, <3>1 DEF TrackerExact
      <4>2. QED BY <2>1, <4>1 DEF NoLoss
    <3>2. CASE st.base <= o
      <4>1. o \in st.base .. (w - 1)
        BY <2>2, <2>3, <2>10, <3>2
      <4>2. QED BY <2>3, <2>5, <4>1 DEF TrackerExact
    <3>3. QED BY <2>2, <2>3, <3>1, <3>2
  <2>11. QED BY <2>1, <2>2, <2>3, <2>8, <2>9, <2>10
<1>4. committed' \in [Partition -> Offset \cup {NoOffset}]
  BY <1>2, <1>3 DEF CommitTo
<1>5. NoLoss'
  BY <1>2, <1>3 DEF NoLoss
<1>6. \A p \in Partition : committed[p] <= position[p]
  BY DEF PositionExact
<1>7. \A p \in Partition : committed'[p] <= position[p]
  BY <1>2, <1>3, <1>6
<1>8. \A p \in Partition : committed'[p] <= logEnd[p]
  <2> TAKE p \in Partition
  <2>1. position[p] <= logEnd[p] /\ position[p] \in Nat /\ logEnd[p] \in Nat
        /\ committed'[p] \in Int
    BY <1>4 DEF Bounded, NoOffset
  <2>2. QED BY <1>7, <2>1
<1>9. QED BY <1>2, <1>3, <1>4, <1>5, <1>7, <1>8

LEMMA CommitInv ==
  ASSUME IInv, Commit
  PROVE  IInv'
<1> USE DEF IInv, TypeOK, Offset, Commit
<1>1. /\ committed' \in [Partition -> Offset \cup {NoOffset}]
      /\ NoLoss'
      /\ \A p \in Partition : committed'[p] <= position[p]
      /\ \A p \in Partition : committed'[p] <= logEnd[p]
  BY CommitToSafe
<1>2. \A p \in Partition : /\ p \in ReadyPartitions => committed'[p] = Watermark(tracker[p])
                           /\ p \notin ReadyPartitions => committed'[p] = committed[p]
  BY DEF CommitTo
<1>3. \A p \in ReadyPartitions :
        /\ Watermark(tracker[p]) \in Nat
        /\ tracker[p].base <= Watermark(tracker[p])
        /\ tracker[p].base .. (Watermark(tracker[p]) - 1) \subseteq tracker[p].done
  BY WatermarkInv DEF ReadyPartitions
<1>4. ASSUME NEW p \in ReadyPartitions
      PROVE  /\ tracker'[p] = Acknowledge(tracker[p])
             /\ tracker'[p] \in TrackerState
             /\ tracker'[p].seen = tracker[p].seen \ (tracker[p].base .. (Watermark(tracker[p]) - 1))
             /\ tracker'[p].done \subseteq tracker[p].done
             /\ tracker'[p].done \subseteq tracker'[p].seen
             /\ Tracked(tracker'[p]) => tracker'[p].base = Watermark(tracker[p])
             /\ ~ Tracked(tracker'[p]) => tracker'[p] = NoState
  <2>1. p \in Partition /\ tracker[p] \in TrackerState
    BY DEF ReadyPartitions
  <2>2. tracker'[p] = Acknowledge(tracker[p])
    BY <2>1
  <2>3. tracker[p].done \subseteq tracker[p].seen
    BY <2>1 DEF TrackerExact
  <2>4. QED BY <2>1, <2>2, <2>3, <1>3, AcknowledgeFields
<1>5. \A p \in Partition : p \notin ReadyPartitions => tracker'[p] = tracker[p]
  OBVIOUS
<1>6. TypeOK'
  BY <1>1, <1>4, <1>5
<1>7. \A p \in Partition : Bounded(p)'
  BY <1>1 DEF Bounded
<1>8. ASSUME NEW p \in Partition PROVE TrackerExact(p)' /\ PositionExact(p)'
  <2>1. CASE p \notin ReadyPartitions
    BY <1>2, <1>5, <2>1 DEF TrackerExact, PositionExact, Tracked
  <2>2. CASE p \in ReadyPartitions
    <3> DEFINE st == tracker[p]
               w == Watermark(tracker[p])
    <3>1. /\ st \in TrackerState /\ log[p] \in SUBSET Nat /\ position[p] \in Nat
          /\ committed[p] \in Int /\ w \in Nat /\ st.base \in Nat /\ st.seen \in SUBSET Nat
      BY <1>3, <2>2 DEF NoOffset, TrackerState
    <3>2. TrackerExact(p) /\ PositionExact(p)
      OBVIOUS
    <3>3. /\ tracker'[p].seen \subseteq st.seen
          /\ \A o \in tracker'[p].seen : w <= o
          /\ \A o \in st.seen : w <= o => o \in tracker'[p].seen
      <4>1. tracker'[p].seen = st.seen \ (st.base .. (w - 1))
        BY <1>4, <2>2
      <4>2. \A o \in st.seen : st.base <= o /\ o \in Nat
        BY <3>1, <3>2 DEF TrackerExact
      <4>3. st.base \in Nat /\ w \in Nat
        BY <3>1
      <4> HIDE DEF IInv, TypeOK, Commit, st, w
      <4>4. QED BY <4>1, <4>2, <4>3
    <3>4. /\ tracker'[p].done \subseteq tracker'[p].seen
          /\ tracker'[p].done \subseteq settled[p]
          /\ tracker'[p].seen \subseteq log[p]
      BY <1>4, <2>2, <3>2, <3>3 DEF TrackerExact
    <3>5. Tracked(st) /\ st.base \in log[p]
      <4>1. w > st.base
        BY <2>2 DEF ReadyPartitions, Ready
      <4>2. st.base \in st.base .. (w - 1)
        BY <3>1, <4>1
      <4>3. QED BY <4>2, <1>3, <2>2, <3>2 DEF TrackerExact, Tracked
    <3>6. CASE ~ Tracked(tracker'[p])
      <4>1. tracker'[p] = NoState
        BY <1>4, <2>2, <3>6
      <4>2. st.seen \subseteq st.base .. (w - 1)
        <5>1. tracker'[p].seen = st.seen \ (st.base .. (w - 1))
          BY <1>4, <2>2
        <5>2. tracker'[p].seen = {}
          BY <3>6 DEF Tracked
        <5> HIDE DEF IInv, TypeOK, Commit, st, w
        <5>3. QED BY <5>1, <5>2
      <4>3. \A o \in log[p] : w <= o => ~ (o < position[p])
        <5> SUFFICES ASSUME NEW o \in log[p], w <= o, o < position[p] PROVE FALSE
          OBVIOUS
        <5>1. committed[p] <= st.base /\ st.base <= w
          BY <1>3, <2>2, <3>2, <3>5 DEF TrackerExact
        <5>2. o \in st.seen
          BY <3>1, <3>2, <5>1 DEF PositionExact
        <5>3. QED BY <3>1, <4>2, <5>2
      <4>4. TrackerExact(p)'
        BY <4>1 DEF TrackerExact, NoState, Tracked
      <4>5. PositionExact(p)'
        BY <1>1, <1>2, <2>2, <4>1, <4>3 DEF PositionExact, NoState
      <4>6. QED BY <4>4, <4>5
    <3>7. CASE Tracked(tracker'[p])
      <4>1. tracker'[p].base = w /\ committed'[p] = w
        BY <1>2, <1>4, <2>2, <3>7
      <4>2. st.base <= w /\ committed[p] <= st.base
        BY <1>3, <2>2, <3>2, <3>5 DEF TrackerExact
      <4>3. \A s \in tracker'[p].seen : \A o \in log[p] : w <= o /\ o <= s => o \in tracker'[p].seen
        BY <3>1, <3>2, <3>3, <4>2 DEF TrackerExact
      <4>4. TrackerExact(p)'
        <5>1. \A o \in log[p] : o < w => o < committed'[p]
          BY <4>1
        <5>2. committed'[p] <= w
          BY <3>1, <4>1
        <5>3. log' = log /\ settled' = settled
          OBVIOUS
        <5> HIDE DEF IInv, TypeOK, Commit, st, w
        <5>4. QED BY <3>3, <3>4, <4>1, <4>3, <5>1, <5>2, <5>3 DEF TrackerExact
      <4>5. \A o \in log[p] : w <= o /\ o < position[p] => o \in tracker'[p].seen
        BY <3>1, <3>2, <3>3, <4>2 DEF PositionExact
      <4>6. \A s \in tracker'[p].seen : s < position[p]
        BY <3>2, <3>3, <3>5 DEF PositionExact
      <4>7. PositionExact(p)'
        BY <1>1, <4>1, <4>5, <4>6 DEF PositionExact
      <4>8. QED BY <4>4, <4>7
    <3>8. QED BY <3>6, <3>7
  <2>3. QED BY <2>1, <2>2
<1>9. QED BY <1>1, <1>6, <1>7, <1>8

LEMMA CommitFailsInv ==
  ASSUME IInv, NEW S \in SUBSET Partition, CommitFails(S)
  PROVE  IInv'
<1>1. S \in SUBSET ReadyPartitions /\ running /\ CommitTo(S) /\ Die /\ settled' = settled
      /\ log' = log /\ delivered' = delivered
  BY DEF CommitFails, Die
<1>2. /\ committed' \in [Partition -> Offset \cup {NoOffset}]
      /\ NoLoss'
      /\ \A p \in Partition : committed'[p] <= logEnd[p]
  BY <1>1, CommitToSafe
<1>3. settled' \in [Partition -> SUBSET Offset]
  BY <1>1 DEF IInv, TypeOK
<1>4. QED BY <1>1, <1>2, <1>3, DieInv

LEMMA ProcessFailsInv ==
  ASSUME IInv, NEW p \in Partition, NEW o \in tracker[p].seen, ProcessFails(p, o)
  PROVE  IInv'
<1> USE DEF ProcessFails
<1>1. o \in Offset
  BY DEF IInv, TypeOK, TrackerState, Offset
<1>2. settled' \in [Partition -> SUBSET Offset] /\ \A q \in Partition : settled[q] \subseteq settled'[q]
  BY <1>1 DEF IInv, TypeOK
<1>3. NoLoss'
  BY <1>2 DEF IInv, NoLoss, Die
<1>4. committed' \in [Partition -> Offset \cup {NoOffset}]
      /\ \A q \in Partition : committed'[q] <= logEnd[q]
  BY DEF IInv, TypeOK, Bounded
<1>5. delivered' = delivered
  BY DEF Die
<1>6. QED BY <1>2, <1>3, <1>4, <1>5, DieInv

LEMMA CrashInv ==
  ASSUME IInv, Crash
  PROVE  IInv'
<1>1. committed' = committed /\ settled' = settled /\ Die /\ delivered' = delivered /\ log' = log
  BY DEF Crash, Die
<1>2. NoLoss'
  BY <1>1 DEF IInv, NoLoss
<1>3. /\ settled' \in [Partition -> SUBSET Offset]
      /\ committed' \in [Partition -> Offset \cup {NoOffset}]
      /\ \A p \in Partition : committed'[p] <= logEnd[p]
  BY <1>1 DEF IInv, TypeOK, Bounded
<1>4. QED BY <1>1, <1>2, <1>3, DieInv

(***************************************************************************)
(* Where a group that starts from the beginning resumes: nothing that is   *)
(* not committed lies below.                                               *)
(***************************************************************************)
LEMMA StartOffsetSafe ==
  ASSUME IInv, FromBeginning, NEW p \in Partition
  PROVE  /\ StartOffset(p) \in Nat
         /\ committed[p] <= StartOffset(p)
         /\ StartOffset(p) <= logEnd[p]
         /\ \A o \in log[p] : committed[p] <= o => ~ (o < StartOffset(p))
  BY DEF IInv, TypeOK, Bounded, Offset, NoOffset, StartOffset

LEMMA RestartInv ==
  ASSUME IInv, FromBeginning, Restart
  PROVE  IInv'
<1> USE DEF IInv, TypeOK, Restart, broker
<1>1. \A p \in Partition : position'[p] = StartOffset(p) /\ tracker'[p] = NoState
  OBVIOUS
<1>2. \A p \in Partition : StartOffset(p) \in Nat
  BY StartOffsetSafe
<1>3. TypeOK'
  BY <1>2 DEF Offset
<1>4. NoLoss'
  BY DEF NoLoss
<1>5. \A p \in Partition : Bounded(p)'
  BY <1>1, StartOffsetSafe DEF Bounded
<1>6. \A p \in Partition : TrackerExact(p)'
  BY DEF TrackerExact, Tracked
<1>7. \A p \in Partition : PositionExact(p)'
  BY <1>1, StartOffsetSafe DEF PositionExact, NoState
<1>8. QED BY <1>3, <1>4, <1>5, <1>6, <1>7

LEMMA RejoinInv ==
  ASSUME IInv, FromBeginning, NEW p \in Partition, Rejoin(p)
  PROVE  IInv'
<1> USE DEF IInv, TypeOK, Rejoin, BetweenRecords, broker
<1>1. StartOffset(p) \in Nat
  BY StartOffsetSafe
<1>2. TypeOK'
  BY <1>1 DEF Offset
<1>3. NoLoss'
  BY DEF NoLoss
<1>4. \A q \in Partition : position'[q] = IF q = p THEN StartOffset(p) ELSE position[q]
  OBVIOUS
<1>5. \A q \in Partition : Bounded(q)'
  BY <1>4, StartOffsetSafe DEF Bounded
<1>6. \A q \in Partition : TrackerExact(q)'
  BY DEF TrackerExact, Tracked
<1>7. tracker[p].base \in log[p] => tracker[p].seen = {}
  <2> SUFFICES ASSUME tracker[p].base \in log[p], NEW s \in tracker[p].seen PROVE FALSE
    OBVIOUS
  <2>1. tracker[p].base \in tracker[p].seen
    BY DEF TrackerExact, TrackerState, Offset
  <2>2. tracker[p].base \in tracker[p].done
    BY <2>1
  <2>3. Watermark(tracker[p]) \in Nat /\ tracker[p].base <= Watermark(tracker[p])
        /\ Watermark(tracker[p]) # tracker[p].base
    BY <2>2, WatermarkInv
  <2>4. tracker[p].base \in Nat
    BY DEF TrackerState, Offset
  <2>5. Ready(tracker[p])
    BY <2>3, <2>4 DEF Ready
  <2>6. QED BY <2>5 DEF ReadyPartitions
<1>8. ASSUME NEW q \in Partition PROVE PositionExact(q)'
  <2>1. CASE q # p
    BY <1>4, <2>1 DEF PositionExact
  <2>2. CASE q = p
    BY <1>4, <1>7, <2>2, StartOffsetSafe DEF PositionExact
  <2>3. QED BY <2>1, <2>2
<1>9. QED BY <1>2, <1>3, <1>5, <1>6, <1>8

(***************************************************************************)
(* One step of the consumer, or a stutter, preserves the invariant.        *)
(***************************************************************************)
LEMMA NextInv ==
  ASSUME IInv, FromBeginning, [Next]_vars
  PROVE  IInv'
<1>1. ASSUME NEW p \in Partition, Append(p) PROVE IInv'
  BY <1>1, AppendInv
<1>2. ASSUME NEW p \in Partition, SkipOffset(p) PROVE IInv'
  BY <1>2, SkipOffsetInv
<1>3. ASSUME NEW p \in Partition, Rejoin(p) PROVE IInv'
  BY <1>3, RejoinInv
<1>4. ASSUME NEW p \in Partition, NEW o \in log[p], Deliver(p, o) PROVE IInv'
  BY <1>4, DeliverInv
<1>5. ASSUME NEW p \in Partition, NEW o \in tracker[p].seen, Process(p, o) PROVE IInv'
  BY <1>5, ProcessInv
<1>6. ASSUME NEW p \in Partition, NEW o \in tracker[p].seen, ProcessFails(p, o) PROVE IInv'
  BY <1>6, ProcessFailsInv
<1>7. ASSUME Commit PROVE IInv'
  BY <1>7, CommitInv
<1>8. ASSUME NEW S \in SUBSET Partition, CommitFails(S) PROVE IInv'
  BY <1>8, CommitFailsInv
<1>9. ASSUME Crash PROVE IInv'
  BY <1>9, CrashInv
<1>10. ASSUME Restart PROVE IInv'
  BY <1>10, RestartInv
<1>11. ASSUME UNCHANGED vars PROVE IInv'
  BY <1>11 DEF vars, IInv, TypeOK, NoLoss, Bounded, TrackerExact, PositionExact, Tracked
<1>12. QED
  BY <1>1, <1>2, <1>3, <1>4, <1>5, <1>6, <1>7, <1>8, <1>9, <1>10, <1>11 DEF Next
-----------------------------------------------------------------------------
(* The theorems *)

LEMMA InvariantInv == ASSUME FromBeginning PROVE SafetySpec => []IInv
<1>1. Init => IInv
  BY InitInv
<1>2. IInv /\ [Next]_vars => IInv'
  BY NextInv
<1>3. QED BY <1>1, <1>2, PTL DEF SafetySpec

(***************************************************************************)
(* A consumer that starts from the beginning keeps its variables in their  *)
(* types, through crashes, failed commits and rebalances.                  *)
(***************************************************************************)
THEOREM TypeCorrect == ASSUME FromBeginning PROVE SafetySpec => []TypeOK
<1>1. IInv => TypeOK
  BY DEF IInv
<1>2. QED BY <1>1, InvariantInv, PTL

(***************************************************************************)
(* The group's committed offset never passes a record whose outcome is not *)
(* durable (commitReady and OffsetTracker.Ready).                          *)
(***************************************************************************)
THEOREM NothingIsLost == ASSUME FromBeginning PROVE SafetySpec => []NoLoss
<1>1. IInv => NoLoss
  BY DEF IInv
<1>2. QED BY <1>1, InvariantInv, PTL

(***************************************************************************)
(* No tracker ever holds an offset below the group's committed one, so     *)
(* every commit of commitReady moves the group forward.                    *)
(***************************************************************************)
THEOREM TrackerStaysAbove ==
  ASSUME FromBeginning PROVE SafetySpec => []TrackerAboveCommitted
<1>1. IInv => TrackerAboveCommitted
  BY DEF IInv, TrackerExact, TrackerAboveCommitted
<1>2. QED BY <1>1, InvariantInv, PTL

\* What was delivered or settled is in the log.
History == \A p \in Partition : delivered[p] \subseteq log[p] /\ settled[p] \subseteq log[p]

LEMMA HistoryStep ==
  ASSUME IInv, History, [Next]_vars PROVE History'
<1> USE DEF History, broker, process
<1>1. ASSUME NEW p \in Partition, Append(p) PROVE History'
  BY <1>1 DEF Append, IInv, TypeOK
<1>2. ASSUME NEW p \in Partition, SkipOffset(p) PROVE History'
  BY <1>2 DEF SkipOffset
<1>3. ASSUME NEW p \in Partition, Rejoin(p) PROVE History'
  BY <1>3 DEF Rejoin
<1>4. ASSUME NEW p \in Partition, NEW o \in log[p], Deliver(p, o) PROVE History'
  BY <1>4 DEF Deliver, IInv, TypeOK
<1>5. ASSUME NEW p \in Partition, NEW o \in tracker[p].seen, Process(p, o) PROVE History'
  BY <1>5 DEF Process, IInv, TypeOK, TrackerExact
<1>6. ASSUME NEW p \in Partition, NEW o \in tracker[p].seen, ProcessFails(p, o) PROVE History'
  BY <1>6 DEF ProcessFails, Die, IInv, TypeOK, TrackerExact
<1>7. ASSUME Commit PROVE History'
  BY <1>7 DEF Commit
<1>8. ASSUME NEW S \in SUBSET Partition, CommitFails(S) PROVE History'
  BY <1>8 DEF CommitFails, Die
<1>9. ASSUME Crash PROVE History'
  BY <1>9 DEF Crash, Die
<1>10. ASSUME Restart PROVE History'
  BY <1>10 DEF Restart
<1>11. ASSUME UNCHANGED vars PROVE History'
  BY <1>11 DEF vars
<1>12. QED
  BY <1>1, <1>2, <1>3, <1>4, <1>5, <1>6, <1>7, <1>8, <1>9, <1>10, <1>11 DEF Next

LEMMA HistoryInv == ASSUME FromBeginning PROVE SafetySpec => []History
<1>1. Init => History
  BY DEF Init, History
<1>2. IInv /\ History /\ [Next]_vars => History'
  BY HistoryStep
<1>3. QED BY <1>1, <1>2, InvariantInv, PTL DEF SafetySpec

(***************************************************************************)
(* Whoever restarts from the committed offset sees every delivered record  *)
(* again that is not durable yet.                                          *)
(***************************************************************************)
THEOREM NothingIsSkipped == ASSUME FromBeginning PROVE SafetySpec => []NothingSkipped
<1>1. IInv /\ History => NothingSkipped
  <2> SUFFICES ASSUME IInv, History, running,
                      NEW p \in Partition, NEW o \in delivered[p], o < position[p]
               PROVE  o \in settled[p] \cup tracker[p].seen
    BY DEF NothingSkipped
  <2>1. o \in log[p] /\ o \in Nat /\ committed[p] \in Int
    BY DEF History, IInv, TypeOK, Offset, NoOffset
  <2>2. CASE o < committed[p]
    BY <2>1, <2>2 DEF IInv, NoLoss
  <2>3. CASE committed[p] <= o
    BY <2>1, <2>3 DEF IInv, PositionExact
  <2>4. QED BY <2>1, <2>2, <2>3
<1>2. QED BY <1>1, InvariantInv, HistoryInv, PTL

(***************************************************************************)
(* Every step of the consumer is a step of the abstract promise.           *)
(***************************************************************************)
LEMMA PromiseInit == Init => Promise!Init
  BY DEF Init, Promise!Init, NoOffset, Promise!NoOffset

LEMMA CommitAdvances ==
  ASSUME IInv, running, NEW S \in SUBSET ReadyPartitions, CommitTo(S),
         log' = log, settled' = settled
  PROVE  Promise!Advance
<1>1. \A p \in Partition :
        \/ committed'[p] = committed[p]
        \/ /\ committed'[p] > committed[p]
           /\ \A o \in log[p] : o < committed'[p] => o \in settled[p]
  BY CommitToSafe
<1>2. QED BY <1>1 DEF Promise!Advance, Promise!SettledBelow

LEMMA PromiseStep ==
  ASSUME IInv, History, [Next]_vars
  PROVE  [Promise!Next]_(Promise!vars)
<1> USE DEF broker, process, Promise!vars
<1>1. ASSUME NEW p \in Partition, Append(p) PROVE Promise!Extend
  <2>1. \A q \in Partition : log'[q] = IF q = p THEN log[p] \cup {logEnd[p]} ELSE log[q]
    BY <1>1 DEF Append, IInv, TypeOK
  <2>2. committed[p] <= logEnd[p]
    BY DEF IInv, Bounded
  <2>3. UNCHANGED <<settled, committed>>
    BY <1>1 DEF Append
  <2>4. QED BY <2>1, <2>2, <2>3 DEF Promise!Extend, History
<1>2. ASSUME NEW p \in Partition, SkipOffset(p) PROVE UNCHANGED Promise!vars
  BY <1>2 DEF SkipOffset
<1>3. ASSUME NEW p \in Partition, Rejoin(p) PROVE UNCHANGED Promise!vars
  BY <1>3 DEF Rejoin
<1>4. ASSUME NEW p \in Partition, NEW o \in log[p], Deliver(p, o) PROVE UNCHANGED Promise!vars
  BY <1>4 DEF Deliver
<1>5. ASSUME NEW p \in Partition, NEW o \in tracker[p].seen,
             settled' = [settled EXCEPT ![p] = @ \cup {o}], UNCHANGED <<log, committed>>
      PROVE  Promise!Extend
  <2>1. o \in log[p]
    BY DEF IInv, TrackerExact
  <2>2. \A q \in Partition : settled'[q] = IF q = p THEN settled[p] \cup {o} ELSE settled[q]
    BY <1>5 DEF IInv, TypeOK
  <2>3. QED BY <1>5, <2>1, <2>2 DEF Promise!Extend, History
<1>6. ASSUME NEW p \in Partition, NEW o \in tracker[p].seen, Process(p, o) \/ ProcessFails(p, o)
      PROVE  Promise!Extend
  BY <1>5, <1>6 DEF Process, ProcessFails, Die
<1>7. ASSUME Commit PROVE Promise!Advance
  BY <1>7, CommitAdvances DEF Commit
<1>8. ASSUME NEW S \in SUBSET Partition, CommitFails(S) PROVE Promise!Advance
  <2>1. S \in SUBSET ReadyPartitions /\ running /\ CommitTo(S) /\ log' = log /\ settled' = settled
    BY <1>8 DEF CommitFails, Die
  <2>2. QED BY <2>1, CommitAdvances
<1>9. ASSUME Crash PROVE UNCHANGED Promise!vars
  BY <1>9 DEF Crash, Die
<1>10. ASSUME Restart PROVE UNCHANGED Promise!vars
  BY <1>10 DEF Restart
<1>11. ASSUME UNCHANGED vars PROVE UNCHANGED Promise!vars
  BY <1>11 DEF vars
<1>12. QED
  BY <1>1, <1>2, <1>3, <1>4, <1>6, <1>7, <1>8, <1>9, <1>10, <1>11 DEF Next, Promise!Next

(***************************************************************************)
(* The consumer loop with its tracker implements the abstract promise:     *)
(* settle a record before the group moves past it.                         *)
(***************************************************************************)
THEOREM ConsumerImplementsPromise ==
  ASSUME FromBeginning PROVE SafetySpec => ImplementsAtLeastOnce
<1>1. IInv /\ History /\ [Next]_vars => [Promise!Next]_(Promise!vars)
  BY PromiseStep
<1>2. QED
  BY <1>1, PromiseInit, InvariantInv, HistoryInv, PTL
  DEF SafetySpec, ImplementsAtLeastOnce, Promise!Spec

(***************************************************************************)
(* The committed offset of a partition never decreases.                    *)
(***************************************************************************)
THEOREM CommitsGoForward ==
  ASSUME FromBeginning PROVE SafetySpec => CommittedMonotone
<1>1. IInv /\ History /\ [Next]_vars
        => [\A p \in Partition : committed'[p] >= committed[p]]_vars
  <2> SUFFICES ASSUME IInv, History, [Next]_vars, NEW p \in Partition
               PROVE  committed'[p] >= committed[p]
    OBVIOUS
  <2>1. committed[p] \in Int
    BY DEF IInv, TypeOK, Offset, NoOffset
  <2>2. [Promise!Next]_(Promise!vars)
    BY PromiseStep
  <2>3. committed' = committed \/ Promise!Advance
    BY <2>2 DEF Promise!Next, Promise!vars, Promise!Extend
  <2>4. committed'[p] = committed[p] \/ committed'[p] > committed[p]
    BY <2>3 DEF Promise!Advance
  <2>5. CASE committed'[p] = committed[p]
    BY <2>1, <2>5
  <2>6. CASE committed'[p] > committed[p]
    <3>1. committed'[p] \in Int
      <4>1. IInv'
        BY NextInv
      <4>2. QED BY <4>1 DEF IInv, TypeOK, Offset, NoOffset
    <3>2. QED BY <2>1, <2>6, <3>1
  <2>7. QED BY <2>4, <2>5, <2>6
<1>2. QED BY <1>1, InvariantInv, HistoryInv, PTL DEF SafetySpec, CommittedMonotone
=============================================================================
