-------------------------- MODULE ContextTemporalJoin --------------------------
(***************************************************************************)
(* ContextTemporalJoinFunction, the Flink operator: the state of one key   *)
(* (one player).  Event-time timers are registered at the due and cleanup  *)
(* times of a hand and fire when the watermark passes them; a hand that    *)
(* comes behind the watermark is answered at once; nothing is emitted      *)
(* before the bootstrap wait of the task is over, and what is held then is *)
(* emitted without waiting for the watermark.  State TTL is left out.      *)
(***************************************************************************)
EXTENDS Integers, FiniteSets

CONSTANTS Context, Hand, NoContext, Lateness, Window, MaxWatermark, MaxDeliveries

VARIABLES
  watermark,
  contexts,    \* user-context-by-event-id
  hands,       \* player-hands-by-event-id
  ready,       \* the bootstrap wait is over
  deliveries,  \* history: how often a hand was delivered
  rows         \* history: the rows collected

vars == <<watermark, contexts, hands, ready, deliveries, rows>>

\* Times, selection (TemporalJoinLogic.selectContext) and status are those of the
\* reference.
Policy == INSTANCE TemporalContextJoin WITH seen <- {c.id : c \in contexts}
Due(h)     == Policy!Due(h)
\* Mutant: the window starts when the hand is played.
CleanupFromPlay(h) == h.played + Window
Cleanup(h) == Policy!Cleanup(h)

NewState(h) == [known |-> contexts, life |-> deliveries[h] + 1, revision |-> 0,
                selected |-> NoContext, emitted |-> FALSE,
                due |-> watermark >= Due(h),
                cleanup |-> watermark >= Cleanup(h),
                fallback |-> ~ready]

Init ==
  /\ watermark = -1
  /\ contexts = {}
  /\ hands = [h \in {} |-> NoContext]
  /\ ready \in BOOLEAN
  /\ deliveries = [h \in Hand |-> 0]
  /\ rows = {}

Emits(st, isReady) == ~st.emitted /\ st.due /\ isReady

\* emitInitial
Emitted(h, st, isReady) ==
  IF Emits(st, isReady)
  THEN [st EXCEPT !.revision = 1, !.emitted = TRUE,
                  !.selected = Policy!Select(h, contexts)]
  ELSE st

InitialRow(h, st) == Policy!Row(h, st, Policy!Status(st))

ProcessElement1(h) ==
  /\ deliveries[h] < MaxDeliveries
  /\ deliveries' = [deliveries EXCEPT ![h] = @ + 1]
  /\ IF h \in DOMAIN hands
     THEN UNCHANGED <<hands, rows>>
     ELSE LET st == Emitted(h, NewState(h), ready) IN
          /\ hands' = [g \in DOMAIN hands \cup {h} |-> IF g = h THEN st ELSE hands[g]]
          /\ rows' = IF st.emitted THEN rows \cup {InitialRow(h, st)} ELSE rows
  /\ UNCHANGED <<watermark, contexts, ready>>

\* Mutant: any context in force replaces the selected one.
CorrectableAny(st, h, c) == st.emitted /\ ~st.cleanup /\ c.effective <= h.played
Correctable(st, h, c) ==
  /\ st.emitted /\ ~st.cleanup
  /\ Policy!Select(h, contexts \cup {c}) \notin {NoContext, st.selected}

\* An event ID that is stored is ignored; a second event of a version goes to the
\* dead letters and is not remembered.
ProcessElement2(c) ==
  IF c \in contexts \/ \E d \in contexts : d.version = c.version
  THEN UNCHANGED vars
  ELSE LET corrected == {h \in DOMAIN hands : Correctable(hands[h], h, c)}
       IN /\ contexts' = contexts \cup {c}
          /\ hands' = [h \in DOMAIN hands |->
                         IF h \in corrected
                         THEN [hands[h] EXCEPT !.revision = @ + 1,
                                 !.selected = Policy!Select(h, contexts \cup {c})]
                         ELSE hands[h]]
          /\ rows' = rows \cup {Policy!Row(h, hands'[h], "corrected") : h \in corrected}
          /\ UNCHANGED <<watermark, ready, deliveries>>

\* onTimer for every hand, marked as the time domain says.
Fired(marked, isReady) ==
  LET after == [h \in DOMAIN hands |-> Emitted(h, marked[h], isReady)]
      kept  == {h \in DOMAIN hands : ~ (after[h].emitted /\ after[h].cleanup)}
  IN /\ rows' = rows \cup {InitialRow(h, after[h]) :
                           h \in {g \in DOMAIN hands : Emits(marked[g], isReady)}}
     /\ hands' = [h \in kept |-> after[h]]

\* The timers up to w fire in the order of their times; no input comes between them.
AdvanceWatermark(w) ==
  /\ w > watermark
  /\ watermark' = w
  /\ Fired([h \in DOMAIN hands |->
             [hands[h] EXCEPT !.due = @ \/ Due(h) <= w, !.cleanup = @ \/ Cleanup(h) <= w]],
           ready)
  /\ UNCHANGED <<contexts, ready, deliveries>>

\* The processing-time timer of the hands that came during the bootstrap wait.
BootstrapOver ==
  /\ ~ready /\ ready' = TRUE
  /\ Fired([h \in DOMAIN hands |-> [hands[h] EXCEPT !.due = @ \/ hands[h].fallback]], TRUE)
  /\ UNCHANGED <<watermark, contexts, deliveries>>

Next ==
  \/ \E h \in Hand : ProcessElement1(h)
  \/ \E c \in Context : ProcessElement2(c)
  \/ \E w \in 0..MaxWatermark : AdvanceWatermark(w)
  \/ BootstrapOver
=============================================================================
