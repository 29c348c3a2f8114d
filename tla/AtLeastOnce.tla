----------------------------- MODULE AtLeastOnce -----------------------------
(***************************************************************************)
(* What every Kafka consumer of the pipeline promises about its input: a   *)
(* record is settled (its output, dead letter or warehouse row is durable) *)
(* before the consumer group moves past it.  The specification says        *)
(* nothing of trackers, crashes or redelivery; the detailed modules        *)
(* implement it through a refinement mapping.                              *)
(***************************************************************************)
EXTENDS Integers

CONSTANT Partition

VARIABLES
  written,    \* [Partition -> SUBSET Nat]: the offsets that hold a record
  settled,    \* [Partition -> SUBSET Nat]: the offsets whose outcome is durable
  committed   \* [Partition -> Nat \cup {NoOffset}]: the group's next offset

vars == <<written, settled, committed>>

\* A group that never committed on a partition has no offset there.
NoOffset == -1

\* Every record below offset c of partition p is settled.
SettledBelow(p, c) == \A o \in written[p] : o < c => o \in settled[p]

Init ==
  /\ written   = [p \in Partition |-> {}]
  /\ settled   = [p \in Partition |-> {}]
  /\ committed = [p \in Partition |-> NoOffset]

\* Records are appended and outcomes become durable.  A new record never lands
\* below the committed offset; one that repeats a settled record is settled too.
Extend ==
  /\ \A p \in Partition :
       /\ written[p] \subseteq written'[p]
       /\ \A o \in written'[p] \ written[p] : committed[p] <= o
       /\ settled[p] \subseteq settled'[p]
       /\ settled'[p] \subseteq written'[p]
  /\ UNCHANGED committed

\* The group moves forward on some partitions, never past an unsettled record.
Advance ==
  /\ \A p \in Partition :
       \/ committed'[p] = committed[p]
       \/ committed'[p] > committed[p] /\ SettledBelow(p, committed'[p])
  /\ UNCHANGED <<written, settled>>

Next == Extend \/ Advance

Spec == Init /\ [][Next]_vars
=============================================================================
