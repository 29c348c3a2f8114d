-------------------------- MODULE TemporalContextJoin --------------------------
(***************************************************************************)
(* TemporalContextJoinCore, the reference of the Flink context join: hands *)
(* are buffered until the watermark is Lateness past them, joined with the *)
(* context of the player in force when the hand was played, and corrected  *)
(* when a better context arrives within Window.                            *)
(*                                                                         *)
(* The core keeps contexts and hands per player and no player's reads      *)
(* another's; the module is the state of one player.  The arrival sequence *)
(* serves one comparison, of a context with a hand: known, the contexts    *)
(* there were when the hand arrived, stands for it.                        *)
(***************************************************************************)
EXTENDS Integers, FiniteSets

CONSTANTS
  Context,        \* context events: records [id, version, effective]
  Hand,           \* hand events: records [id, played]
  NoContext,
  Lateness,       \* allowed_lateness_ms
  Window,         \* correction_window_ms
  MaxWatermark,   \* bound on the watermark
  MaxDeliveries   \* bound on the deliveries of one hand

VARIABLES
  watermark,
  contexts,    \* _contexts of the player
  seen,        \* _seen_context_ids
  hands,       \* _player_hands: hand -> state
  deliveries,  \* history: how often a hand was delivered
  rows         \* history: the rows emitted

vars == <<watermark, contexts, seen, hands, deliveries, rows>>

Due(h)     == h.played + Lateness
Cleanup(h) == h.played + Lateness + Window

\* The order of contexts: effective_at, then version, then event_id.
Before(c, d) ==
  \/ c.effective < d.effective
  \/ c.effective = d.effective /\ c.version < d.version
  \/ c.effective = d.effective /\ c.version = d.version /\ c.id < d.id

\* Mutant: the newest version, whenever it is in force.
SelectNewest(h, known) ==
  LET candidates == {c \in known : c.effective <= h.played}
  IN IF candidates = {} THEN NoContext
     ELSE CHOOSE c \in candidates : \A d \in candidates : d.version <= c.version
\* _select, and select_context_as_of over a history.
Select(h, known) ==
  LET candidates == {c \in known : c.effective <= h.played}
  IN IF candidates = {} THEN NoContext
     ELSE CHOOSE c \in candidates : \A d \in candidates \ {c} : Before(d, c)

\* enrich_player_hand: the row, whose event ID is made of hand, player and revision.
Row(h, st, status) ==
  [hand |-> h, life |-> st.life, revision |-> st.revision, context |-> st.selected,
   status |-> status]

Status(st) == IF st.selected = NoContext THEN "missing"
              ELSE IF st.selected \in st.known THEN "matched" ELSE "matched_late"

NewState(h) == [known |-> contexts, life |-> deliveries[h] + 1, revision |-> 0,
                selected |-> NoContext, emitted |-> FALSE]

Init ==
  /\ watermark = -1
  /\ contexts = {} /\ seen = {}
  /\ hands = [h \in {} |-> NoContext]
  /\ deliveries = [h \in Hand |-> 0]
  /\ rows = {}

\* Mutant: a hand behind the watermark is dropped.
HeldOnArrival(h) ==
  IF h \in DOMAIN hands \/ watermark >= Due(h) THEN hands
  ELSE [g \in DOMAIN hands \cup {h} |-> IF g = h THEN NewState(h) ELSE hands[g]]
\* setdefault: a hand that is held keeps its state.
Held(h) ==
  IF h \in DOMAIN hands THEN hands
  ELSE [g \in DOMAIN hands \cup {h} |-> IF g = h THEN NewState(h) ELSE hands[g]]

ProcessHand(h) ==
  /\ deliveries[h] < MaxDeliveries
  /\ deliveries' = [deliveries EXCEPT ![h] = @ + 1]
  /\ hands' = Held(h)
  /\ UNCHANGED <<watermark, contexts, seen, rows>>

\* Mutant: versions are not compared.
ConflictsIgnored(c) == FALSE
Conflicts(c) == \E d \in contexts : d.version = c.version

\* Mutant: the last instant of the window is left out.
CorrectableStrict(h, st, known) ==
  /\ st.emitted /\ watermark < Cleanup(h)
  /\ Select(h, known) \notin {NoContext, st.selected}
Correctable(h, st, known) ==
  /\ st.emitted /\ watermark <= Cleanup(h)
  /\ Select(h, known) \notin {NoContext, st.selected}

Corrected(h, st, known) ==
  IF Correctable(h, st, known)
  THEN [st EXCEPT !.revision = @ + 1, !.selected = Select(h, known)]
  ELSE st

\* An event ID that was seen is ignored, whatever became of it; a second event of a
\* version raises, and its ID counts as seen.
ProcessContext(c) ==
  /\ c.id \notin seen
  /\ seen' = seen \cup {c.id}
  /\ IF Conflicts(c)
     THEN UNCHANGED <<contexts, hands, rows>>
     ELSE LET known == contexts \cup {c} IN
          /\ contexts' = known
          /\ hands' = [h \in DOMAIN hands |-> Corrected(h, hands[h], known)]
          /\ rows' = rows \cup {Row(h, hands'[h], "corrected") :
                                h \in {g \in DOMAIN hands : Correctable(g, hands[g], known)}}
  /\ UNCHANGED <<watermark, deliveries>>

Emitted(h, st, w) ==
  IF st.emitted \/ Due(h) > w THEN st
  ELSE [st EXCEPT !.revision = 1, !.emitted = TRUE, !.selected = Select(h, contexts)]

AdvanceWatermark(w) ==
  /\ w >= watermark
  /\ watermark' = w
  /\ LET after == [h \in DOMAIN hands |-> Emitted(h, hands[h], w)]
         kept  == {h \in DOMAIN hands : ~ (after[h].emitted /\ w > Cleanup(h))}
     IN /\ rows' = rows \cup {Row(h, after[h], Status(after[h])) :
                              h \in {g \in DOMAIN hands : after[g] # hands[g]}}
        /\ hands' = [h \in kept |-> after[h]]
  /\ UNCHANGED <<contexts, seen, deliveries>>

Next ==
  \/ \E h \in Hand : ProcessHand(h)
  \/ \E c \in Context : ProcessContext(c)
  \/ \E w \in 0..MaxWatermark : AdvanceWatermark(w)

Spec == Init /\ [][Next]_vars

-----------------------------------------------------------------------------

\* Every held state is well-formed: revision 0 until it is emitted, then the number of
\* its rows; contexts have one event per version, all of them seen.
TypeOK ==
  /\ watermark \in -1..MaxWatermark
  /\ contexts \subseteq Context /\ {c.id : c \in contexts} \subseteq seen
  /\ \A c, d \in contexts : c.version = d.version => c = d
  /\ deliveries \in [Hand -> 0..MaxDeliveries]
  /\ DOMAIN hands \subseteq Hand
  /\ \A h \in DOMAIN hands :
       /\ hands[h] \in [known : SUBSET contexts, life : Nat, revision : Nat,
                        selected : contexts \cup {NoContext}, emitted : BOOLEAN]
       /\ 1 <= hands[h].life /\ hands[h].life <= deliveries[h]
       /\ hands[h].emitted <=> hands[h].revision > 0

\* Whatever the order in which hand, contexts and watermark arrive: as long as a row can
\* still be corrected, the last thing said of it is the best context known (_select, the
\* corrections of process_context).
SelectionCurrent ==
  \A h \in DOMAIN hands :
    hands[h].emitted /\ watermark <= Cleanup(h) => hands[h].selected = Select(h, contexts)

\* A later revision of a row never goes back to an earlier context, nor to none
\* (process_context).
RevisionsImprove ==
  \A q, r \in rows :
    q.hand = r.hand /\ q.life = r.life /\ q.revision < r.revision =>
      /\ r.context # NoContext
      /\ q.context = NoContext \/ Before(q.context, r.context)
=============================================================================
