------------------------------ MODULE JoinMirror ------------------------------
(***************************************************************************)
(* The reference core and the Flink operator fed with the same hands,      *)
(* contexts and watermarks.  The reference claims to mirror the operator;  *)
(* it has no bootstrap wait, and a late hand waits for the next watermark. *)
(***************************************************************************)
EXTENDS Integers, FiniteSets

CONSTANTS Context, Hand, NoContext, Lateness, Window, MaxWatermark, MaxDeliveries

ASSUME JoinAssumption ==
  /\ Lateness \in Nat /\ Window \in Nat /\ MaxWatermark \in Nat /\ MaxDeliveries \in Nat
  /\ \A c \in Context : c.id \in Nat /\ c.version \in Nat /\ c.effective \in Nat
  /\ \A h \in Hand : h.played \in Nat
  /\ NoContext \notin Context

\* The ID of a context event is made of its player and version (build_event), so an ID
\* names one version; an event of the same version can come under another ID.
ASSUME IdAssumption == \A c, d \in Context : c.id = d.id => c.version = d.version

VARIABLES
  watermark, deliveries,
  coreContexts, seen, coreHands, coreRows,        \* the reference
  flinkContexts, flinkHands, ready, flinkRows,    \* the operator
  apart   \* history: hands on which the two may differ, see AtHorizon

core  == <<coreContexts, seen, coreHands, coreRows>>
flink == <<flinkContexts, flinkHands, ready, flinkRows>>
vars  == <<watermark, deliveries, core, flink, apart>>

Core  == INSTANCE TemporalContextJoin
           WITH contexts <- coreContexts, hands <- coreHands, rows <- coreRows
Flink == INSTANCE ContextTemporalJoin
           WITH contexts <- flinkContexts, hands <- flinkHands, rows <- flinkRows

Init == Core!Init /\ Flink!Init /\ apart = {}

\* An input at or behind the horizon of a hand: the operator closes a hand when the
\* watermark reaches its cleanup time, the reference when it passes it.  A hand
\* whose first row still waits for the bootstrap then is one of them.
AtHorizon == {h \in Hand : watermark >= Core!Cleanup(h)}

TakeHand(h) ==
  /\ Core!ProcessHand(h) /\ Flink!ProcessElement1(h)
  /\ apart' = apart \cup ({h} \cap AtHorizon)

TakeContext(c) ==
  /\ Core!ProcessContext(c) /\ Flink!ProcessElement2(c)
  /\ apart' = apart \cup AtHorizon

\* An event that the reference has seen; the operator may still report a conflict.
RepeatContext(c) ==
  /\ c.id \in seen
  /\ Flink!ProcessElement2(c)
  /\ UNCHANGED <<watermark, deliveries, core, apart>>

TakeWatermark(w) ==
  /\ Core!AdvanceWatermark(w) /\ Flink!AdvanceWatermark(w)
  /\ UNCHANGED apart

\* The watermark of the reference can be given again.
RepeatWatermark ==
  /\ watermark >= 0
  /\ Core!AdvanceWatermark(watermark)
  /\ UNCHANGED <<deliveries, flink, apart>>

Ready == Flink!BootstrapOver /\ UNCHANGED <<core, apart>>

Next ==
  \/ \E h \in Hand : TakeHand(h)
  \/ \E c \in Context : TakeContext(c) \/ RepeatContext(c)
  \/ \E w \in 0..MaxWatermark : TakeWatermark(w)
  \/ RepeatWatermark
  \/ Ready

\* Time goes on: watermarks advance and the bootstrap wait ends.
Spec ==
  /\ Init /\ [][Next]_vars
  /\ WF_vars(\E w \in 0..MaxWatermark : TakeWatermark(w))
  /\ WF_vars(RepeatWatermark) /\ WF_vars(Ready)

-----------------------------------------------------------------------------

\* The states and rows of both are well-formed, and both know the same contexts although
\* one raises on a conflict and the other dead-letters it; a row is of a delivery that
\* happened and of a context that is known.
TypeOK ==
  /\ Core!TypeOK
  /\ flinkContexts = coreContexts
  /\ ready \in BOOLEAN
  /\ DOMAIN flinkHands \subseteq Hand
  /\ \A h \in DOMAIN flinkHands :
       flinkHands[h] \in
         [known : SUBSET flinkContexts, life : Nat, revision : Nat,
          selected : flinkContexts \cup {NoContext}, emitted : BOOLEAN,
          due : BOOLEAN, cleanup : BOOLEAN, fallback : BOOLEAN]
  /\ \A h \in DOMAIN flinkHands :
       flinkHands[h].emitted => flinkHands[h].due /\ flinkHands[h].revision > 0
  /\ \A r \in coreRows \cup flinkRows :
       /\ r.hand \in Hand
       /\ r.life <= deliveries[r.hand] /\ r.revision > 0
       /\ r.context \in coreContexts \cup {NoContext}

\* As long as a row can be corrected, the last thing said of it is the best context
\* known, in the reference and in the operator (process_context, processElement2).
SelectionCurrent ==
  /\ Core!SelectionCurrent
  /\ \A h \in DOMAIN flinkHands :
       flinkHands[h].emitted /\ ~flinkHands[h].cleanup =>
         flinkHands[h].selected = Core!Select(h, flinkContexts)

\* A later revision of a row never goes back to an earlier context, in the reference
\* and in the operator (processElement2, whose timers and bootstrap may emit early).
RevisionsImprove == Core!RevisionsImprove /\ Flink!Policy!RevisionsImprove

Final(rows, h) ==
  (CHOOSE r \in rows : r.hand = h /\ \A q \in rows : q.hand = h => q.revision <= r.revision).context

Rows(rows, h) == {r \in rows : r.hand = h}

\* The reference is an oracle for the final answer: past its horizon a hand has the same
\* context in both, whatever the order of arrival, unless an input came at or behind the
\* horizon (temporal_join.py, "mirroring the Java Flink operator").
FinalsAgree ==
  \A h \in Hand \ apart :
    /\ watermark > Core!Cleanup(h)
    /\ Rows(coreRows, h) # {} /\ Rows(flinkRows, h) # {}
    => Final(coreRows, h) = Final(flinkRows, h)

\* Every delivered hand gets a row, however late it comes (process_hand, processElement1).
EveryHandAnswered ==
  \A h \in Hand : deliveries[h] > 0 ~> Rows(coreRows, h) # {} /\ Rows(flinkRows, h) # {}
=============================================================================
