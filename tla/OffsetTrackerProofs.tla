------------------------- MODULE OffsetTrackerProofs -------------------------
(***************************************************************************)
(* What the operators of OffsetTracker do to the state of a partition: the *)
(* lemmas that the proofs about every consumer with a tracker rest on.     *)
(***************************************************************************)
EXTENDS OffsetTracker, WellFoundedInduction, TLAPS

(***************************************************************************)
(* The scan of Ready stops: below a bound on the processed offsets there   *)
(* is a first one at or above base that is not processed.                  *)
(***************************************************************************)
LEMMA WatermarkStops ==
  ASSUME NEW st \in TrackerState, NEW hi \in Nat, \A o \in st.done : o < hi
  PROVE  /\ Watermark(st) \in Nat
         /\ st.base <= Watermark(st)
         /\ st.base .. (Watermark(st) - 1) \subseteq st.done
         /\ Watermark(st) \notin st.done
<1> DEFINE T == {c \in Nat : st.base <= c /\ c \notin st.done}
           Stop(c) == /\ st.base <= c
                      /\ st.base .. (c - 1) \subseteq st.done
                      /\ c \notin st.done
<1>1. st.base \in Nat /\ st.done \subseteq Nat
  BY DEF TrackerState
<1>2. T # {}
  <2>1. CASE st.base >= hi
    <3>1. st.base \in T
      BY <1>1, <2>1
    <3>2. QED BY <3>1
  <2>2. CASE st.base < hi
    <3>1. hi \in T
      BY <1>1, <2>2
    <3>2. QED BY <3>1
  <2>3. QED BY <1>1, <2>1, <2>2
<1>3. PICK m \in T : \A y \in T : ~ (<<y, m>> \in OpToRel(<, Nat))
  BY <1>2, WFMin, NatLessThanWellFounded, Zenon
<1>4. \A y \in T : ~ (y < m)
  BY <1>3 DEF OpToRel
<1>5. Stop(m)
  <2>1. \A o \in st.base .. (m - 1) : o \in st.done
    <3> SUFFICES ASSUME NEW o \in st.base .. (m - 1), o \notin st.done
                 PROVE FALSE
      OBVIOUS
    <3>1. o \in Nat /\ st.base <= o /\ o < m
      BY <1>1
    <3>2. o \in T
      BY <3>1
    <3>3. QED BY <1>4, <3>1, <3>2
  <2>2. QED BY <2>1
<1>6. m \in {st.base} \cup {o + 1 : o \in st.done}
  <2>1. CASE m = st.base
    BY <2>1
  <2>2. CASE m # st.base
    <3>1. m - 1 \in st.base .. (m - 1)
      BY <1>1, <2>2
    <3>2. m - 1 \in st.done
      BY <1>5, <3>1
    <3>3. m = (m - 1) + 1
      BY <1>1
    <3>4. QED BY <3>2, <3>3
  <2>3. QED BY <2>1, <2>2
<1>7. /\ Watermark(st) \in {st.base} \cup {o + 1 : o \in st.done}
      /\ Stop(Watermark(st))
  BY <1>5, <1>6 DEF Watermark
<1>8. QED BY <1>1, <1>7

(***************************************************************************)
(* What the operators of the tracker do to its fields.                     *)
(***************************************************************************)
LEMMA ObserveFields ==
  ASSUME NEW st \in TrackerState, NEW o \in Nat,
         Tracked(st) => st.base <= o, st.done \subseteq st.seen
  PROVE  /\ Observe(st, o) \in TrackerState
         /\ Observe(st, o).seen = st.seen \cup {o}
         /\ Observe(st, o).done = st.done
         /\ Observe(st, o).base = IF Tracked(st) THEN st.base ELSE o
<1>1. st.base \in Nat /\ st.seen \in SUBSET Nat /\ st.done \in SUBSET Nat
  BY DEF TrackerState
<1>2. CASE Tracked(st)
  <2>1. Observe(st, o) = [st EXCEPT !.base = IF o < @ THEN o ELSE @, !.seen = @ \cup {o}]
    BY <1>2 DEF Observe
  <2>2. ~ (o < st.base)
    BY <1>1, <1>2
  <2>3. st = [base |-> st.base, seen |-> st.seen, done |-> st.done]
    BY DEF TrackerState
  <2>4. Observe(st, o) = [base |-> st.base, seen |-> st.seen \cup {o}, done |-> st.done]
    BY <2>1, <2>2, <2>3
  <2>5. QED BY <1>1, <1>2, <2>4 DEF TrackerState
<1>3. CASE ~ Tracked(st)
  <2>1. Observe(st, o) = [base |-> o, seen |-> {o}, done |-> {}]
    BY <1>3 DEF Observe
  <2>2. st.seen = {} /\ st.done = {}
    BY <1>3 DEF Tracked
  <2>3. QED BY <1>3, <2>1, <2>2 DEF TrackerState
<1>4. QED BY <1>2, <1>3

LEMMA MarkFields ==
  ASSUME NEW st \in TrackerState, NEW S
  PROVE  /\ MarkProcessed(st, S) \in TrackerState
         /\ MarkProcessed(st, S).seen = st.seen
         /\ MarkProcessed(st, S).done = st.done \cup (S \cap st.seen)
         /\ MarkProcessed(st, S).base = st.base
  BY DEF TrackerState, MarkProcessed

LEMMA AcknowledgeFields ==
  ASSUME NEW st \in TrackerState, Watermark(st) \in Nat,
         st.done \subseteq st.seen
  PROVE  /\ Acknowledge(st) \in TrackerState
         /\ Acknowledge(st).seen = st.seen \ (st.base .. (Watermark(st) - 1))
         /\ Acknowledge(st).done = st.done \cap Acknowledge(st).seen
         /\ Tracked(Acknowledge(st)) => Acknowledge(st).base = Watermark(st)
         /\ ~ Tracked(Acknowledge(st)) => Acknowledge(st) = NoState
<1> DEFINE rest == st.seen \ (st.base .. (Watermark(st) - 1))
<1>1. CASE rest = {}
  BY <1>1 DEF Acknowledge, NoState, TrackerState, Tracked
<1>2. CASE rest # {}
  BY <1>2 DEF Acknowledge, TrackerState, Tracked
<1>3. QED BY <1>1, <1>2

-----------------------------------------------------------------------------
(* The tracker of a consumer that has one record in Handle at most. *)

\* The empty tracker asks for no commit.
LEMMA NothingReady == Watermark(NoState) = 0 /\ ~ Ready(NoState)
BY DEF Watermark, Ready, NoState

\* A tracker with one finished record asks for the offset after it and is empty then.
LEMMA OneReady ==
  ASSUME NEW o \in Nat, NEW st, st = [base |-> o, seen |-> {o}, done |-> {o}]
  PROVE  Watermark(st) = o + 1 /\ Ready(st) /\ Acknowledge(st) = NoState
<1>1. Watermark(st) = o + 1
  <2> DEFINE Stops(c) == o <= c /\ o .. (c - 1) \subseteq {o} /\ c \notin {o}
  <2>1. Stops(o + 1)
    OBVIOUS
  <2>2. \A c \in {o} \cup {x + 1 : x \in {o}} : Stops(c) => c = o + 1
    OBVIOUS
  <2>3. o + 1 \in {o} \cup {x + 1 : x \in {o}}
    OBVIOUS
  <2>4. Watermark(st) = CHOOSE c \in {o} \cup {x + 1 : x \in {o}} : Stops(c)
    BY DEF Watermark
  <2> HIDE DEF Stops
  <2> QED
    BY <2>1, <2>2, <2>3, <2>4
<1>2. st.seen \ (st.base .. (Watermark(st) - 1)) = {}
  BY <1>1
<1>3. Acknowledge(st) = NoState
  BY <1>2, Zenon DEF Acknowledge
<1> QED
  BY <1>1, <1>3 DEF Ready

=============================================================================
