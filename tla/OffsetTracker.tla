---------------------------- MODULE OffsetTracker ----------------------------
(***************************************************************************)
(* services/go/internal/stream/offsets.go: what one Go consumer remembers  *)
(* of one input partition.  The map entries[offset] -> processed is kept   *)
(* as two sets, seen (its keys) and done (the keys that map to true).  The *)
(* Go tracker drops the state of a partition exactly when it has no entry, *)
(* so NoState stands for the nil pointer.                                  *)
(***************************************************************************)
EXTENDS Integers

TrackerState == [base : Nat, seen : SUBSET Nat, done : SUBSET Nat]

NoState == [base |-> 0, seen |-> {}, done |-> {}]

Tracked(st) == st.seen # {}

\* Mutants: a tracker that starts at offset 0, and one that starts before
\* its first record.
ObserveFromZero(st, o) ==
  [st EXCEPT !.seen = @ \cup {o}]

ObserveBelow(st, o) ==
  [st EXCEPT !.base = IF Tracked(st) THEN @ ELSE o - 1, !.seen = @ \cup {o}]

Observe(st, o) ==
  IF Tracked(st)
  THEN [st EXCEPT !.base = IF o < @ THEN o ELSE @, !.seen = @ \cup {o}]
  ELSE [base |-> o, seen |-> {o}, done |-> {}]

\* MarkProcessed ignores the offsets the tracker does not hold.
MarkProcessed(st, offsets) ==
  [st EXCEPT !.done = @ \cup (offsets \cap st.seen)]

\* Mutant: the highest processed offset, whatever is open below it.
WatermarkOverGaps(st) ==
  IF st.done = {} THEN st.base
  ELSE CHOOSE c \in {o + 1 : o \in st.done} : \A o \in st.done : o < c

\* Where the scan of Ready stops: the first offset at or above base that is
\* not processed.  Everything in base .. Watermark - 1 may be committed.
Watermark(st) ==
  CHOOSE c \in {st.base} \cup {o + 1 : o \in st.done} :
    /\ st.base <= c
    /\ st.base .. (c - 1) \subseteq st.done
    /\ c \notin st.done

Ready(st) == Watermark(st) > st.base

\* Mutant: the entries go but base stays.
AcknowledgeKeepsBase(st) ==
  LET rest == st.seen \ (st.base .. (Watermark(st) - 1))
  IN  IF rest = {} THEN NoState ELSE [st EXCEPT !.seen = rest, !.done = @ \cap rest]

\* Acknowledge after a commit up to the watermark: the entries below it go,
\* and the partition's state goes with the last of them.
Acknowledge(st) ==
  LET next == Watermark(st)
      rest == st.seen \ (st.base .. (next - 1))
  IN  IF rest = {} THEN NoState
      ELSE [base |-> next, seen |-> rest, done |-> st.done \cap rest]
=============================================================================
