--------------------------- MODULE EffectivelyOnce ---------------------------
(***************************************************************************)
(* What the warehouse sink promises of its tables (docs/poker-sink.md): an *)
(* event ID gets one ledger row and one typed row, both at once, with the  *)
(* content that came first; nothing is ever changed or added for it again. *)
(***************************************************************************)
EXTENDS Naturals

CONSTANTS EventId, Content

VARIABLES
  envelopes,  \* [EventId \X Content -> Nat]: rows of POKER_EVENT_ENVELOPES
  typed       \* [EventId \X Content -> Nat]: rows of the table of the kind

vars == <<envelopes, typed>>

Init ==
  /\ envelopes = [k \in EventId \X Content |-> 0]
  /\ typed     = [k \in EventId \X Content |-> 0]

Store(i, c) ==
  /\ \A d \in Content : envelopes[<<i, d>>] = 0
  /\ envelopes' = [envelopes EXCEPT ![<<i, c>>] = 1]
  /\ typed' = [typed EXCEPT ![<<i, c>>] = 1]

Next == \E i \in EventId, c \in Content : Store(i, c)

Spec == Init /\ [][Next]_vars
=============================================================================
