--------------------------- MODULE JoinMirrorProofs ---------------------------
(***************************************************************************)
(* Theorems of JoinMirror, for any contexts, hands, lateness and window:   *)
(* the reference and the Flink operator know the same contexts, say the    *)
(* best one, never go back, and agree in the end.                          *)
(***************************************************************************)
EXTENDS JoinMirror, TLAPS

-----------------------------------------------------------------------------
(* The order of contexts and the selection. *)

Candidates(h, known) == {c \in known : c.effective <= h.played}
Best(h, known, c) == c \in Candidates(h, known)
                     /\ \A d \in Candidates(h, known) \ {c} : Core!Before(d, c)
HasBest(h, known) == Candidates(h, known) = {} \/ \E c \in known : Best(h, known, c)

\* b is said after a: b is a context, and later in the order.
Improved(a, b) == b # NoContext /\ (a = NoContext \/ Core!Before(a, b))

\* The order of contexts is a strict one.
LEMMA BeforeIsStrict ==
  ASSUME NEW c \in Context, NEW d \in Context
  PROVE  /\ ~(Core!Before(c, d) /\ Core!Before(d, c))
         /\ c.version # d.version => Core!Before(c, d) \/ Core!Before(d, c)
<1>1. /\ c.id \in Nat /\ c.version \in Nat /\ c.effective \in Nat
      /\ d.id \in Nat /\ d.version \in Nat /\ d.effective \in Nat
  BY JoinAssumption
<1> QED
  BY <1>1 DEF Core!Before

\* The order of contexts is transitive.
LEMMA BeforeIsTransitive ==
  ASSUME NEW c \in Context, NEW d \in Context, NEW e \in Context,
         Core!Before(c, d), Core!Before(d, e)
  PROVE  Core!Before(c, e)
<1>1. /\ c.id \in Nat /\ c.version \in Nat /\ c.effective \in Nat
      /\ d.id \in Nat /\ d.version \in Nat /\ d.effective \in Nat
      /\ e.id \in Nat /\ e.version \in Nat /\ e.effective \in Nat
  BY JoinAssumption
<1> QED
  BY <1>1 DEF Core!Before

\* _select answers the best candidate.
LEMMA SelectIsBest ==
  ASSUME NEW h, NEW known \in SUBSET Context, NEW c, Best(h, known, c)
  PROVE  Core!Select(h, known) = c
<1> DEFINE C == Candidates(h, known)
<1>1. c \in C /\ \A d \in C \ {c} : Core!Before(d, c)
  BY DEF Best
<1>2. C \subseteq Context
  BY DEF Candidates
<1>3. \A b \in C : (\A d \in C \ {b} : Core!Before(d, b)) => b = c
  BY <1>1, <1>2, BeforeIsStrict
<1>4. (CHOOSE b \in C : \A d \in C \ {b} : Core!Before(d, b)) = c
  <2> HIDE DEF C
  <2> QED
    BY <1>1, <1>3
<1>5. Core!Select(h, known) = CHOOSE b \in C : \A d \in C \ {b} : Core!Before(d, b)
  BY <1>1 DEF Core!Select, Candidates
<1> QED
  BY <1>4, <1>5

\* _select answers None when there is no candidate, and only then.
LEMMA SelectIsNone ==
  ASSUME NEW h, NEW known \in SUBSET Context, HasBest(h, known)
  PROVE  /\ Core!Select(h, known) \in known \cup {NoContext}
         /\ Core!Select(h, known) = NoContext <=> Candidates(h, known) = {}
<1>1. CASE Candidates(h, known) = {}
  BY <1>1 DEF Core!Select, Candidates
<1>2. ASSUME NEW c \in known, Best(h, known, c)
      PROVE  /\ Core!Select(h, known) \in known
             /\ Core!Select(h, known) # NoContext /\ Candidates(h, known) # {}
  BY <1>2, SelectIsBest, JoinAssumption DEF Best
<1> QED
  BY <1>1, <1>2 DEF HasBest

\* A context of a new version either becomes the best one, or changes nothing; and what
\* is selected then is what was selected, or better.
LEMMA SelectGrows ==
  ASSUME NEW h, NEW known \in SUBSET Context, HasBest(h, known),
         NEW c \in Context, \A d \in known : d.version # c.version
  PROVE  /\ HasBest(h, known \cup {c})
         /\ \/ Core!Select(h, known \cup {c}) = Core!Select(h, known)
            \/ Improved(Core!Select(h, known), Core!Select(h, known \cup {c}))
<1> DEFINE more == known \cup {c}
<1>0. more \in SUBSET Context
  OBVIOUS
<1>1. CASE c \notin Candidates(h, more)
  <2>1. Candidates(h, more) = Candidates(h, known)
    BY <1>1 DEF Candidates
  <2>2. HasBest(h, more)
    BY <2>1 DEF HasBest, Best
  <2>3. Core!Select(h, more) = Core!Select(h, known)
    <3>1. CASE Candidates(h, known) = {}
      BY <1>0, <2>1, <2>2, <3>1, SelectIsNone
    <3>2. ASSUME NEW b \in known, Best(h, known, b)
          PROVE  Core!Select(h, more) = b /\ Core!Select(h, known) = b
      BY <1>0, <2>1, <3>2, SelectIsBest DEF Best
    <3> QED
      BY <3>1, <3>2 DEF HasBest
  <2> QED
    BY <2>2, <2>3
<1>2. CASE c \in Candidates(h, more) /\ Candidates(h, known) = {}
  <2>1. Candidates(h, more) = {c}
    BY <1>2 DEF Candidates
  <2>2. Best(h, more, c)
    BY <2>1 DEF Best
  <2>3. Core!Select(h, more) = c /\ Core!Select(h, known) = NoContext
    BY <1>0, <1>2, <2>2, SelectIsBest, SelectIsNone
  <2> QED
    BY <2>2, <2>3, JoinAssumption DEF HasBest, Improved
<1>3. CASE c \in Candidates(h, more) /\ Candidates(h, known) # {}
  <2>1. PICK b \in known : Best(h, known, b)
    BY <1>3 DEF HasBest
  <2>2. Candidates(h, more) = Candidates(h, known) \cup {c}
    BY <1>3 DEF Candidates
  <2>3. /\ b \in Context /\ b.version # c.version /\ Core!Select(h, known) = b
        /\ \A d \in Candidates(h, known) : d \in Context
    BY <2>1, SelectIsBest DEF Candidates
  <2>4. CASE Core!Before(c, b)
    <3>1. Best(h, more, b)
      BY <2>1, <2>2, <2>4 DEF Best
    <3> QED
      BY <1>0, <2>3, <3>1, SelectIsBest DEF HasBest
  <2>5. CASE Core!Before(b, c)
    <3>1. ASSUME NEW d \in Candidates(h, more) \ {c} PROVE Core!Before(d, c)
      <4>1. d = b \/ Core!Before(d, b)
        BY <2>1, <2>2, <3>1 DEF Best
      <4>2. d \in Context
        BY <2>2, <2>3, <3>1
      <4> QED
        BY <2>3, <2>5, <4>1, <4>2, BeforeIsTransitive
    <3>2. Best(h, more, c)
      BY <1>3, <3>1 DEF Best
    <3>3. Core!Select(h, more) = c
      BY <1>0, <3>2, SelectIsBest
    <3> QED
      BY <2>3, <2>5, <3>2, <3>3, JoinAssumption DEF HasBest, Improved
  <2> QED
    BY <2>3, <2>4, <2>5, BeforeIsStrict
<1> QED
  BY <1>1, <1>2, <1>3

\* The operator selects as the reference does (TemporalJoinLogic.selectContext).
LEMMA SameSelection ==
  ASSUME NEW h, NEW known
  PROVE  Flink!Policy!Select(h, known) = Core!Select(h, known)
BY DEF Flink!Policy!Select, Core!Select, Flink!Policy!Before, Core!Before
-----------------------------------------------------------------------------
(* Rows and the states of hands, of the reference and the operator alike. *)

Fields(st, known) ==
  /\ st.life \in Nat /\ st.revision \in Nat /\ st.emitted \in BOOLEAN
  /\ st.selected \in known \cup {NoContext}
  /\ st.emitted = (st.revision > 0)

Improves(rows) ==
  \A q, r \in rows :
    q.hand = r.hand /\ q.life = r.life /\ q.revision < r.revision
      => Improved(q.context, r.context)

\* The rows of the life a hand is in are no later than its state.
RowsInv(held, rows, known, count) ==
  /\ DOMAIN held \subseteq Hand
  /\ \A h \in DOMAIN held :
       Fields(held[h], known) /\ 1 <= held[h].life /\ held[h].life <= count[h]
  /\ \A r \in rows :
       /\ r.hand \in Hand /\ r.life \in Nat /\ r.life <= count[r.hand]
       /\ r.revision \in Nat /\ r.revision > 0 /\ r.context \in known \cup {NoContext}
  /\ \A r \in rows : r.hand \in DOMAIN held /\ r.life = held[r.hand].life =>
       /\ r.revision <= held[r.hand].revision
       /\ \/ r.context = held[r.hand].selected
          \/ Improved(r.context, held[r.hand].selected)
  /\ Improves(rows)

\* The last row of a hand says what its state says.
Tops(rows, h, st) ==
  /\ st.emitted => \E r \in Rows(rows, h) : r.revision = st.revision /\ r.context = st.selected
  /\ \A q \in Rows(rows, h) :
       /\ q.revision <= st.revision
       /\ q.revision = st.revision => q.context = st.selected

IsRow(r, h, st) ==
  r.hand = h /\ r.life = st.life /\ r.revision = st.revision /\ r.context = st.selected

\* One step of a state: nothing, or one revision more.
HandStep(h, st, next, known) ==
  /\ next.life = st.life
  /\ \/ next.revision = st.revision /\ next.selected = st.selected /\ next.emitted = st.emitted
     \/ /\ next.revision = st.revision + 1 /\ next.emitted = TRUE
        /\ next.selected = Core!Select(h, known)
        /\ st.emitted => Improved(st.selected, next.selected)

Stepped(held, rows, known, after, more) ==
  /\ DOMAIN after = DOMAIN held
  /\ \A h \in DOMAIN held : HandStep(h, held[h], after[h], known)
  /\ rows \subseteq more
  /\ \A r \in more : \/ r \in rows
                     \/ \E h \in DOMAIN held : /\ after[h].revision # held[h].revision
                                               /\ IsRow(r, h, after[h])
  /\ \A h \in DOMAIN held :
       after[h].revision # held[h].revision => \E r \in more : IsRow(r, h, after[h])

\* What is said after what is said after a, is said after a.
LEMMA ImprovedIsTransitive ==
  ASSUME NEW a \in Context \cup {NoContext}, NEW b \in Context \cup {NoContext},
         NEW c \in Context \cup {NoContext}, Improved(a, b), Improved(b, c)
  PROVE  Improved(a, c)
BY BeforeIsTransitive DEF Improved

\* A step of the states of the hands, with its rows, keeps the order of the revisions.
LEMMA StepKeepsRows ==
  ASSUME NEW held, NEW rows, NEW known, NEW count, NEW after, NEW more, NEW known2,
         RowsInv(held, rows, known, count), Stepped(held, rows, known2, after, more),
         known \subseteq known2, known2 \subseteq Context,
         \A h \in Hand : Core!Select(h, known2) \in known2 \cup {NoContext}
  PROVE  RowsInv(after, more, known2, count)
<1>1. /\ DOMAIN after = DOMAIN held /\ DOMAIN held \subseteq Hand
      /\ \A h \in DOMAIN held : HandStep(h, held[h], after[h], known2)
      /\ \A h \in DOMAIN held :
           Fields(held[h], known) /\ 1 <= held[h].life /\ held[h].life <= count[h]
  BY DEF RowsInv, Stepped
<1>2. ASSUME NEW h \in DOMAIN held
      PROVE  /\ Fields(after[h], known2)
             /\ after[h].life = held[h].life
             /\ \/ /\ after[h].revision = held[h].revision
                   /\ after[h].selected = held[h].selected
                \/ /\ after[h].revision = held[h].revision + 1
                   /\ held[h].emitted => Improved(held[h].selected, after[h].selected)
  <2>1. /\ HandStep(h, held[h], after[h], known2) /\ h \in Hand
        /\ held[h].life \in Nat /\ held[h].revision \in Nat
        /\ held[h].emitted \in BOOLEAN /\ held[h].emitted = (held[h].revision > 0)
        /\ held[h].selected \in known2 \cup {NoContext}
    BY <1>1, <1>2 DEF Fields
  <2>2. CASE /\ after[h].revision = held[h].revision /\ after[h].selected = held[h].selected
             /\ after[h].emitted = held[h].emitted
    BY <2>1, <2>2 DEF HandStep, Fields
  <2>3. CASE /\ after[h].revision = held[h].revision + 1 /\ after[h].emitted = TRUE
             /\ after[h].selected = Core!Select(h, known2)
             /\ held[h].emitted => Improved(held[h].selected, after[h].selected)
    <3>1. /\ after[h].revision \in Nat /\ after[h].revision > 0
          /\ after[h].life \in Nat /\ after[h].life = held[h].life
          /\ after[h].selected \in known2 \cup {NoContext}
      BY <2>1, <2>3 DEF HandStep
    <3> QED
      BY <2>3, <3>1 DEF Fields
  <2> QED
    BY <2>1, <2>2, <2>3 DEF HandStep
<1>3. ASSUME NEW r \in more
      PROVE  \/ r \in rows
             \/ \E h \in DOMAIN held : /\ after[h].revision # held[h].revision
                                       /\ IsRow(r, h, after[h])
  BY DEF Stepped
<1>4. ASSUME NEW r \in rows
      PROVE  /\ r.hand \in Hand /\ r.life \in Nat /\ r.life <= count[r.hand]
             /\ r.revision \in Nat /\ r.revision > 0 /\ r.context \in known \cup {NoContext}
             /\ r.hand \in DOMAIN held /\ r.life = held[r.hand].life =>
                  /\ r.revision <= held[r.hand].revision
                  /\ \/ r.context = held[r.hand].selected
                     \/ Improved(r.context, held[r.hand].selected)
  BY DEF RowsInv
<1>5. ASSUME NEW r \in more
      PROVE  /\ r.hand \in Hand /\ r.life \in Nat /\ r.life <= count[r.hand]
             /\ r.revision \in Nat /\ r.revision > 0 /\ r.context \in known2 \cup {NoContext}
  <2>1. CASE r \in rows
    BY <2>1, <1>4
  <2>2. ASSUME NEW h \in DOMAIN held, after[h].revision # held[h].revision, IsRow(r, h, after[h])
        PROVE  <1>5!2
    BY <2>2, <1>1, <1>2 DEF IsRow, Fields
  <2> QED
    BY <1>3, <2>1, <2>2
<1>6. ASSUME NEW r \in rows, NEW h \in DOMAIN held, r.hand = h, r.life = after[h].life
      PROVE  /\ r.revision <= held[h].revision /\ r.revision <= after[h].revision
             /\ \/ r.context = after[h].selected
                \/ Improved(r.context, after[h].selected)
             /\ after[h].revision # held[h].revision => Improved(r.context, after[h].selected)
  <2>1. /\ r.revision \in Nat /\ r.revision > 0 /\ r.revision <= held[h].revision
        /\ r.context = held[h].selected \/ Improved(r.context, held[h].selected)
        /\ r.context \in Context \cup {NoContext}
    BY <1>4, <1>6, <1>2
  <2>2. /\ held[h].revision \in Nat /\ held[h].emitted
        /\ held[h].selected \in Context \cup {NoContext}
        /\ after[h].selected \in Context \cup {NoContext}
    BY <1>1, <1>2, <2>1 DEF Fields
  <2>3. CASE after[h].revision = held[h].revision + 1
             /\ Improved(held[h].selected, after[h].selected)
    BY <2>1, <2>2, <2>3, ImprovedIsTransitive
  <2>4. CASE after[h].revision = held[h].revision /\ after[h].selected = held[h].selected
    BY <2>1, <2>4
  <2> QED
    BY <1>2, <2>2, <2>3, <2>4
<1>7. ASSUME NEW r \in more, r.hand \in DOMAIN after, r.life = after[r.hand].life
      PROVE  /\ r.revision <= after[r.hand].revision
             /\ \/ r.context = after[r.hand].selected
                \/ Improved(r.context, after[r.hand].selected)
  <2>1. CASE r \in rows
    BY <2>1, <1>1, <1>6, <1>7
  <2>2. ASSUME NEW h \in DOMAIN held, IsRow(r, h, after[h])
        PROVE  <1>7!4
    BY <2>2, <1>2 DEF IsRow, Fields
  <2> QED
    BY <1>3, <2>1, <2>2
<1>8. ASSUME NEW q \in more, NEW r \in more,
             q.hand = r.hand, q.life = r.life, q.revision < r.revision
      PROVE  Improved(q.context, r.context)
  <2>1. CASE q \in rows /\ r \in rows
    BY <2>1, <1>8 DEF RowsInv, Improves
  <2>2. ASSUME NEW h \in DOMAIN held, after[h].revision # held[h].revision,
               IsRow(r, h, after[h]), q \in rows
        PROVE  Improved(q.context, r.context)
    BY <2>2, <1>6, <1>8 DEF IsRow
  <2>3. ASSUME NEW h \in DOMAIN held, after[h].revision # held[h].revision,
               IsRow(q, h, after[h]), r \in more
        PROVE  FALSE
    <3>1. r.hand = h /\ r.life = after[h].life /\ q.revision = after[h].revision
      BY <2>3, <1>8 DEF IsRow
    <3>2. r.revision <= after[h].revision
      BY <1>1, <1>7, <3>1
    <3>3. r.revision \in Nat /\ q.revision \in Nat
      BY <1>5
    <3> QED
      BY <1>8, <3>1, <3>2, <3>3
  <2> QED
    BY <1>3, <2>1, <2>2, <2>3
<1> QED
  <2>1. \A h \in DOMAIN after :
          Fields(after[h], known2) /\ 1 <= after[h].life /\ after[h].life <= count[h]
    BY <1>1, <1>2
  <2>2. Improves(more)
    BY <1>8 DEF Improves
  <2> QED
    BY <1>1, <1>5, <1>7, <2>1, <2>2 DEF RowsInv

\* A step of the states of the hands keeps the last row of each true to its state.
LEMMA StepKeepsTops ==
  ASSUME NEW held, NEW rows, NEW known, NEW count, NEW after, NEW more, NEW known2,
         RowsInv(held, rows, known, count), Stepped(held, rows, known2, after, more),
         NEW h \in DOMAIN held, Tops(rows, h, held[h])
  PROVE  Tops(more, h, after[h])
<1>1. /\ Fields(held[h], known) /\ HandStep(h, held[h], after[h], known2)
      /\ rows \subseteq more
      /\ after[h].revision # held[h].revision => \E r \in more : IsRow(r, h, after[h])
  BY DEF RowsInv, Stepped
<1>2. ASSUME NEW r \in Rows(more, h)
      PROVE  \/ r \in Rows(rows, h) /\ r.revision <= held[h].revision
                /\ (r.revision = held[h].revision => r.context = held[h].selected)
                /\ r.revision \in Nat
             \/ after[h].revision # held[h].revision /\ IsRow(r, h, after[h])
  <2>1. r \in more /\ r.hand = h
    BY DEF Rows
  <2>2. CASE r \in rows
    BY <2>1, <2>2 DEF Rows, Tops, RowsInv
  <2>3. ASSUME NEW g \in DOMAIN held, after[g].revision # held[g].revision, IsRow(r, g, after[g])
        PROVE  after[h].revision # held[h].revision /\ IsRow(r, h, after[h])
    BY <2>1, <2>3 DEF IsRow
  <2> QED
    BY <2>1, <2>2, <2>3 DEF Stepped
<1>3. CASE after[h].revision = held[h].revision /\ after[h].selected = held[h].selected
           /\ after[h].emitted = held[h].emitted
  <2>1. \A r \in Rows(rows, h) : r \in Rows(more, h)
    BY <1>1 DEF Rows
  <2> QED
    BY <1>2, <1>3, <2>1 DEF Tops
<1>4. CASE after[h].revision = held[h].revision + 1
  <2>1. held[h].revision \in Nat
    BY <1>1 DEF Fields
  <2>2. \A q \in Rows(more, h) :
          /\ q.revision <= after[h].revision
          /\ q.revision = after[h].revision => q.context = after[h].selected
    BY <1>2, <1>4, <2>1 DEF IsRow
  <2>3. PICK r \in more : IsRow(r, h, after[h])
    BY <1>1, <1>4, <2>1
  <2>4. r \in Rows(more, h) /\ r.revision = after[h].revision /\ r.context = after[h].selected
    BY <2>3 DEF Rows, IsRow
  <2> QED
    BY <2>2, <2>4 DEF Tops
<1> QED
  BY <1>1, <1>3, <1>4 DEF HandStep

\* Rows of hands that are not held stay as they are.
LEMMA StepKeepsOthers ==
  ASSUME NEW held, NEW rows, NEW after, NEW more, NEW known2,
         Stepped(held, rows, known2, after, more), NEW h, h \notin DOMAIN held
  PROVE  Rows(more, h) = Rows(rows, h)
BY DEF Stepped, Rows, IsRow

\* Hands that are released leave their rows behind.
LEMMA ReleaseKeepsRows ==
  ASSUME NEW held, NEW rows, NEW known, NEW count, RowsInv(held, rows, known, count),
         NEW kept, DOMAIN kept \subseteq DOMAIN held, \A h \in DOMAIN kept : kept[h] = held[h]
  PROVE  RowsInv(kept, rows, known, count)
BY DEF RowsInv

\* A hand that is delivered once more.
Counts(h, count, count2) ==
  count2[h] = count[h] + 1 /\ \A g \in Hand \ {h} : count2[g] = count[g]

\* A hand that is taken starts a life that no row is of.
LEMMA TakingKeepsRows ==
  ASSUME NEW held, NEW rows, NEW known, NEW count \in [Hand -> Nat], NEW h \in Hand,
         RowsInv(held, rows, known, count), h \notin DOMAIN held,
         NEW taken, DOMAIN taken = DOMAIN held \cup {h},
         \A g \in DOMAIN held : taken[g] = held[g],
         taken[h].life = count[h] + 1, taken[h].revision = 0,
         taken[h].selected = NoContext, taken[h].emitted = FALSE,
         NEW count2, Counts(h, count, count2)
  PROVE  RowsInv(taken, rows, known, count2)
<1> DEFINE st == taken[h]
<1>1. /\ count2[h] = count[h] + 1 /\ \A g \in Hand \ {h} : count2[g] = count[g]
      /\ count[h] \in Nat
  BY DEF Counts
<1>2. st.life \in Nat /\ 1 <= st.life /\ st.life = count2[h]
  BY <1>1
<1>3. ASSUME NEW g \in DOMAIN taken
      PROVE  Fields(taken[g], known) /\ 1 <= taken[g].life /\ taken[g].life <= count2[g]
  <2>1. CASE g = h
    <3>1. st.revision \in Nat /\ (st.revision > 0) = FALSE
      OBVIOUS
    <3>2. st.emitted \in BOOLEAN /\ st.emitted = (st.revision > 0)
      BY <3>1
    <3>3. Fields(st, known)
      BY <1>2, <3>1, <3>2 DEF Fields
    <3> QED
      BY <1>2, <2>1, <3>3
  <2>2. CASE g \in DOMAIN held
    BY <1>1, <2>2 DEF RowsInv
  <2> QED
    BY <2>1, <2>2
<1>4. ASSUME NEW r \in rows
      PROVE  /\ r.life <= count2[r.hand]
             /\ r.hand = h => r.life # taken[h].life
  BY <1>1 DEF RowsInv
<1> QED
  BY <1>3, <1>4 DEF RowsInv

\* A hand that is held can be delivered again.
LEMMA CountingKeepsRows ==
  ASSUME NEW held, NEW rows, NEW known, NEW count \in [Hand -> Nat], NEW h \in Hand,
         RowsInv(held, rows, known, count), NEW count2, Counts(h, count, count2)
  PROVE  RowsInv(held, rows, known, count2)
<1>1. \A g \in Hand, n \in Nat : n <= count[g] => n <= count2[g]
  BY DEF Counts
<1> QED
  BY <1>1 DEF RowsInv, Fields

-----------------------------------------------------------------------------
(* The inductive invariant. *)

CoreState(known) ==
  [known : SUBSET known, life : Nat, revision : Nat, selected : known \cup {NoContext},
   emitted : BOOLEAN]
FlinkState(known) ==
  [known : SUBSET known, life : Nat, revision : Nat, selected : known \cup {NoContext},
   emitted : BOOLEAN, due : BOOLEAN, cleanup : BOOLEAN, fallback : BOOLEAN]

\* The last row of a hand that is released has the best context known.
Settled(rows, h, known) ==
  \E r \in Rows(rows, h) :
    /\ r.context = Core!Select(h, known)
    /\ \A q \in Rows(rows, h) :
         q.revision <= r.revision /\ (q.revision = r.revision => q.context = r.context)

\* A hand that no input came for at its horizon is released there, its last row settled.
CoreOK(held, rows, known, count, now, later) ==
  /\ \A h \in DOMAIN held : held[h] \in CoreState(known)
  /\ RowsInv(held, rows, known, count)
  /\ \A h \in DOMAIN held :
       held[h].emitted /\ now <= Core!Cleanup(h) => held[h].selected = Core!Select(h, known)
  /\ \A h \in Hand \ later :
       /\ h \in DOMAIN held => now <= Core!Cleanup(h) /\ Tops(rows, h, held[h])
       /\ h \notin DOMAIN held /\ Rows(rows, h) # {} =>
            now > Core!Cleanup(h) /\ Settled(rows, h, known)

\* The cleanup mark tells the horizon; a hand that is held there waits for the bootstrap.
FlinkOK(held, rows, known, count, now, later) ==
  /\ \A h \in DOMAIN held :
       /\ held[h] \in FlinkState(known)
       /\ held[h].emitted => held[h].due
       /\ held[h].cleanup <=> now >= Core!Cleanup(h)
  /\ RowsInv(held, rows, known, count)
  /\ \A h \in DOMAIN held :
       held[h].emitted /\ ~held[h].cleanup => held[h].selected = Core!Select(h, known)
  /\ \A h \in Hand \ later :
       /\ h \in DOMAIN held =>
            (held[h].emitted => ~held[h].cleanup) /\ Tops(rows, h, held[h])
       /\ h \notin DOMAIN held /\ Rows(rows, h) # {} =>
            now >= Core!Cleanup(h) /\ Settled(rows, h, known)

\* Of each version one event is known, and an ID that was seen is of such a version.
KnownOK(known, ids) ==
  /\ known \subseteq Context
  /\ \A c, d \in known : c.version = d.version => c = d
  /\ \A c \in known : c.id \in ids
  /\ \A c \in Context : c.id \in ids => \E d \in known : d.version = c.version
  /\ \A h \in Hand : HasBest(h, known)

ContextsInv == flinkContexts = coreContexts /\ KnownOK(coreContexts, seen)

Clocks ==
  /\ watermark \in -1..MaxWatermark /\ deliveries \in [Hand -> 0..MaxDeliveries]
  /\ ready \in BOOLEAN

CoreInv  == CoreOK(coreHands, coreRows, coreContexts, deliveries, watermark, apart)
FlinkInv == FlinkOK(flinkHands, flinkRows, coreContexts, deliveries, watermark, apart)

IInv == Clocks /\ ContextsInv /\ CoreInv /\ FlinkInv

\* The best contexts are what is selected.
LEMMA Selected ==
  ASSUME NEW known \in SUBSET Context, \A h \in Hand : HasBest(h, known)
  PROVE  \A h \in Hand : Core!Select(h, known) \in known \cup {NoContext}
BY SelectIsNone

\* A step that leaves the contexts keeps the order of the revisions and the settled rows;
\* so much is common to the steps of the reference and the operator.
LEMMA SettledStays ==
  ASSUME NEW rows, NEW more, NEW h, NEW known, Rows(more, h) = Rows(rows, h),
         Settled(rows, h, known)
  PROVE  Settled(more, h, known)
BY DEF Settled

\* A state that is emitted, and says the best context, settles the hand when released.
LEMMA TopSettles ==
  ASSUME NEW rows, NEW h, NEW known, NEW st, Tops(rows, h, st), st.emitted,
         st.selected = Core!Select(h, known)
  PROVE  Settled(rows, h, known)
BY DEF Tops, Settled

\* No row is of a state that was not emitted.
LEMMA NothingSaid ==
  ASSUME NEW held, NEW rows, NEW known, NEW count, RowsInv(held, rows, known, count),
         NEW h \in DOMAIN held, Tops(rows, h, held[h]), ~held[h].emitted
  PROVE  Rows(rows, h) = {}
<1>1. /\ held[h].revision \in Nat /\ held[h].emitted \in BOOLEAN
      /\ held[h].emitted = (held[h].revision > 0)
  BY DEF RowsInv, Fields
<1>2. held[h].revision = 0
  <2>1. CASE held[h].revision > 0
    <3>1. (held[h].revision > 0) = TRUE
      BY <2>1
    <3>2. held[h].emitted = TRUE
      BY <1>1, <3>1
    <3> QED
      BY <3>2
  <2> QED
    BY <1>1, <2>1
<1>3. \A q \in Rows(rows, h) : q.revision \in Nat /\ q.revision > 0 /\ q.revision <= 0
  BY <1>2 DEF RowsInv, Tops, Rows
<1> QED
  BY <1>3

-----------------------------------------------------------------------------
(* The contexts. *)

\* An event whose version is known only has its ID remembered; another one is known from
\* now on.
LEMMA KnownGrows ==
  ASSUME NEW known, NEW ids, KnownOK(known, ids), NEW c \in Context, c.id \notin ids
  PROVE  IF \E d \in known : d.version = c.version THEN KnownOK(known, ids \cup {c.id})
         ELSE KnownOK(known \cup {c}, ids \cup {c.id})
<1>1. CASE \E d \in known : d.version = c.version
  BY <1>1, IdAssumption DEF KnownOK
<1>2. CASE \A d \in known : d.version # c.version
  <2>1. \A h \in Hand : HasBest(h, known \cup {c})
    BY <1>2, SelectGrows DEF KnownOK
  <2>2. \A d \in Context : d.id \in ids \cup {c.id} =>
          \E e \in known \cup {c} : e.version = d.version
    BY IdAssumption DEF KnownOK
  <2> QED
    BY <1>2, <2>1, <2>2 DEF KnownOK
<1> QED
  BY <1>1, <1>2

\* An event of a version that is known changes nothing in the reference but its IDs, and
\* nothing in the operator.
LEMMA ConflictMeans ==
  ASSUME IInv, NEW c \in Context, TakeContext(c), \E d \in coreContexts : d.version = c.version
  PROVE  /\ c.id \notin seen /\ seen' = seen \cup {c.id}
         /\ UNCHANGED <<watermark, deliveries, coreContexts, coreHands, coreRows, flink>>
         /\ apart' = apart \cup AtHorizon
BY DEF IInv, ContextsInv, TakeContext, Core!ProcessContext, Core!Conflicts,
       Flink!ProcessElement2, Flink!vars, flink

\* An event of a version that is not known corrects hands in both.
LEMMA ContextMeans ==
  ASSUME IInv, NEW c \in Context, TakeContext(c),
         ~ \E d \in coreContexts : d.version = c.version
  PROVE  LET known == coreContexts \cup {c} IN
         /\ c.id \notin seen /\ seen' = seen \cup {c.id}
         /\ coreContexts' = known /\ flinkContexts' = known
         /\ coreHands' = [h \in DOMAIN coreHands |-> Core!Corrected(h, coreHands[h], known)]
         /\ coreRows' = coreRows \cup
              {Core!Row(h, coreHands'[h], "corrected") :
               h \in {g \in DOMAIN coreHands : Core!Correctable(g, coreHands[g], known)}}
         /\ flinkHands' =
              [h \in DOMAIN flinkHands |->
                 IF Flink!Correctable(flinkHands[h], h, c)
                 THEN [flinkHands[h] EXCEPT !.revision = @ + 1,
                         !.selected = Core!Select(h, known)]
                 ELSE flinkHands[h]]
         /\ flinkRows' = flinkRows \cup
              {Flink!Policy!Row(h, flinkHands'[h], "corrected") :
               h \in {g \in DOMAIN flinkHands : Flink!Correctable(flinkHands[g], g, c)}}
         /\ UNCHANGED <<watermark, deliveries, ready>>
         /\ apart' = apart \cup AtHorizon
<1>1. c \notin coreContexts /\ flinkContexts = coreContexts
  BY DEF IInv, ContextsInv
<1>2. Core!ProcessContext(c) /\ Flink!ProcessElement2(c) /\ apart' = apart \cup AtHorizon
  BY DEF TakeContext
<1>3. ~Core!Conflicts(c)
  BY DEF Core!Conflicts
<1>4. ~(c \in flinkContexts \/ \E d \in flinkContexts : d.version = c.version)
  BY <1>1
<1>5. \A h : Flink!Policy!Select(h, flinkContexts \cup {c}) = Core!Select(h, coreContexts \cup {c})
  BY <1>1, SameSelection
<1>6. /\ flinkHands' =
           [h \in DOMAIN flinkHands |->
              IF Flink!Correctable(flinkHands[h], h, c)
              THEN [flinkHands[h] EXCEPT !.revision = @ + 1,
                      !.selected = Core!Select(h, coreContexts \cup {c})]
              ELSE flinkHands[h]]
      /\ flinkContexts' = flinkContexts \cup {c} /\ ready' = ready
      /\ flinkRows' = flinkRows \cup
           {Flink!Policy!Row(h, flinkHands'[h], "corrected") :
            h \in {g \in DOMAIN flinkHands : Flink!Correctable(flinkHands[g], g, c)}}
  BY <1>2, <1>4, <1>5 DEF Flink!ProcessElement2
<1> QED
  BY <1>1, <1>2, <1>3, <1>6 DEF Core!ProcessContext

\* An event that the reference has seen changes nothing in the operator either.
LEMMA RepeatMeans ==
  ASSUME IInv, NEW c \in Context, RepeatContext(c)
  PROVE  UNCHANGED vars
<1>1. \E d \in flinkContexts : d.version = c.version
  BY DEF IInv, ContextsInv, KnownOK, RepeatContext
<1> QED
  BY <1>1 DEF RepeatContext, Flink!ProcessElement2, Flink!vars, vars, flink, core

\* Every step keeps what is known the same in both.
LEMMA ContextsKept ==
  ASSUME IInv, [Next]_vars
  PROVE  ContextsInv'
<1>1. ASSUME NEW c \in Context, TakeContext(c)
      PROVE  ContextsInv'
  <2>1. KnownOK(coreContexts, seen) /\ flinkContexts = coreContexts
    BY DEF IInv, ContextsInv
  <2>2. CASE \E d \in coreContexts : d.version = c.version
    <3>1. /\ c.id \notin seen /\ seen' = seen \cup {c.id}
          /\ coreContexts' = coreContexts /\ flinkContexts' = flinkContexts
      BY <1>1, <2>2, ConflictMeans DEF flink
    <3> QED
      BY <2>1, <2>2, <3>1, KnownGrows DEF ContextsInv
  <2>3. CASE ~ \E d \in coreContexts : d.version = c.version
    <3>1. /\ c.id \notin seen /\ seen' = seen \cup {c.id}
          /\ coreContexts' = coreContexts \cup {c} /\ flinkContexts' = coreContexts \cup {c}
      BY <1>1, <2>3, ContextMeans
    <3> QED
      BY <2>1, <2>3, <3>1, KnownGrows DEF ContextsInv
  <2> QED
    BY <2>2, <2>3
<1>2. ASSUME UNCHANGED <<coreContexts, flinkContexts, seen>>
      PROVE  ContextsInv'
  BY <1>2 DEF IInv, ContextsInv
<1>3. ASSUME NEW h \in Hand, TakeHand(h)
      PROVE  ContextsInv'
  BY <1>2, <1>3 DEF TakeHand, Core!ProcessHand, Flink!ProcessElement1
<1>4. ASSUME NEW c \in Context, RepeatContext(c)
      PROVE  ContextsInv'
  BY <1>2, <1>4, RepeatMeans DEF vars, core, flink
<1>5. ASSUME NEW w \in 0..MaxWatermark, TakeWatermark(w)
      PROVE  ContextsInv'
  BY <1>2, <1>5 DEF TakeWatermark, Core!AdvanceWatermark, Flink!AdvanceWatermark
<1>6. CASE RepeatWatermark
  BY <1>2, <1>6 DEF RepeatWatermark, Core!AdvanceWatermark, flink
<1>7. CASE Ready
  BY <1>2, <1>7 DEF Ready, Flink!BootstrapOver, core
<1>8. CASE UNCHANGED vars
  BY <1>2, <1>8 DEF vars, core, flink
<1> QED
  BY <1>1, <1>3, <1>4, <1>5, <1>6, <1>7, <1>8 DEF Next

-----------------------------------------------------------------------------
(* The reference. *)

\* The times of a hand.
LEMMA Times ==
  ASSUME NEW h \in Hand
  PROVE  Core!Due(h) \in Nat /\ Core!Cleanup(h) \in Nat /\ Core!Due(h) <= Core!Cleanup(h)
<1>1. h.played \in Nat /\ Lateness \in Nat /\ Window \in Nat
  BY JoinAssumption
<1> QED
  BY <1>1 DEF Core!Due, Core!Cleanup

\* More hands may differ after an input at the horizon.
LEMMA CoreOKWeakens ==
  ASSUME NEW held, NEW rows, NEW known, NEW count, NEW now, NEW later, NEW later2,
         CoreOK(held, rows, known, count, now, later), later \subseteq later2
  PROVE  CoreOK(held, rows, known, count, now, later2)
BY DEF CoreOK

\* A context corrects the rows of the reference that can be corrected, and no other.
LEMMA CoreTakesContext ==
  ASSUME IInv, NEW c \in Context, TakeContext(c)
  PROVE  CoreInv'
<1>1. CoreOK(coreHands, coreRows, coreContexts, deliveries, watermark, apart)
  BY DEF IInv, CoreInv
<1>2. CASE \E d \in coreContexts : d.version = c.version
  <2>1. /\ UNCHANGED <<watermark, deliveries, coreContexts, coreHands, coreRows>>
        /\ apart \subseteq apart'
    BY <1>2, ConflictMeans
  <2> QED
    BY <1>1, <2>1, CoreOKWeakens DEF CoreInv
<1>3. CASE ~ \E d \in coreContexts : d.version = c.version
  <2> DEFINE known == coreContexts \cup {c}
             D == DOMAIN coreHands
             C == {g \in D : Core!Correctable(g, coreHands[g], known)}
  <2>1. /\ coreContexts' = known
        /\ coreHands' = [h \in D |-> Core!Corrected(h, coreHands[h], known)]
        /\ coreRows' = coreRows \cup {Core!Row(h, coreHands'[h], "corrected") : h \in C}
        /\ watermark' = watermark /\ deliveries' = deliveries
        /\ apart' = apart \cup AtHorizon
    BY <1>3, ContextMeans
  <2>2. KnownOK(coreContexts, seen) /\ known \in SUBSET Context /\ coreContexts \subseteq known
    BY DEF IInv, ContextsInv, KnownOK
  <2>3. \A h \in Hand :
          /\ HasBest(h, coreContexts) /\ HasBest(h, known)
          /\ Core!Select(h, known) \in known \cup {NoContext}
          /\ \/ Core!Select(h, known) = Core!Select(h, coreContexts)
             \/ Improved(Core!Select(h, coreContexts), Core!Select(h, known))
    BY <1>3, <2>2, SelectGrows, SelectIsNone DEF KnownOK
  <2>4. RowsInv(coreHands, coreRows, coreContexts, deliveries) /\ D \subseteq Hand
    BY <1>1 DEF CoreOK, RowsInv
  <2>5. ASSUME NEW h \in D
        PROVE  /\ coreHands'[h] \in CoreState(known)
               /\ HandStep(h, coreHands[h], coreHands'[h], known)
               /\ coreHands'[h].revision # coreHands[h].revision <=> h \in C
               /\ coreHands'[h].emitted /\ watermark <= Core!Cleanup(h)
                    => coreHands'[h].selected = Core!Select(h, known)
    <3> DEFINE st == coreHands[h]
               s  == Core!Select(h, known)
    <3>1. /\ st \in CoreState(coreContexts) /\ h \in Hand /\ s \in known \cup {NoContext}
          /\ st.emitted /\ watermark <= Core!Cleanup(h) => st.selected = Core!Select(h, coreContexts)
      BY <1>1, <2>3, <2>4 DEF CoreOK
    <3>2. st.revision \in Nat /\ st.revision + 1 \in Nat /\ st.emitted \in BOOLEAN
      BY <3>1 DEF CoreState
    <3>3. CASE h \in C
      <4>1. coreHands'[h] = [st EXCEPT !.revision = st.revision + 1, !.selected = s]
        BY <2>1, <3>3 DEF Core!Corrected
      <4>2. st.emitted /\ watermark <= Core!Cleanup(h) /\ s \notin {NoContext, st.selected}
        BY <3>3 DEF Core!Correctable
      <4>3. /\ coreHands'[h] \in CoreState(known) /\ coreHands'[h].life = st.life
            /\ coreHands'[h].revision = st.revision + 1 /\ coreHands'[h].selected = s
            /\ coreHands'[h].emitted = st.emitted
        <5> HIDE DEF s, st, known
        <5> QED
          BY <2>2, <3>1, <3>2, <4>1 DEF CoreState
      <4>4. Improved(st.selected, s)
        BY <2>3, <3>1, <4>2
      <4> QED
        BY <3>2, <3>3, <4>2, <4>3, <4>4 DEF HandStep
    <3>4. CASE h \notin C
      <4>1. coreHands'[h] = st
        BY <2>1, <3>4 DEF Core!Corrected
      <4>2. st \in CoreState(known)
        BY <2>2, <3>1 DEF CoreState
      <4>3. ASSUME st.emitted, watermark <= Core!Cleanup(h) PROVE st.selected = s
        <5>1. s \in {NoContext, st.selected} /\ st.selected = Core!Select(h, coreContexts)
          BY <3>1, <3>4, <4>3 DEF Core!Correctable
        <5> QED
          BY <2>3, <3>1, <5>1 DEF Improved
      <4> QED
        BY <3>4, <4>1, <4>2, <4>3 DEF HandStep
    <3> QED
      BY <3>3, <3>4
  <2>6. Stepped(coreHands, coreRows, known, coreHands', coreRows')
    <3>1. \A h \in C : IsRow(Core!Row(h, coreHands'[h], "corrected"), h, coreHands'[h])
      BY DEF IsRow, Core!Row
    <3> QED
      BY <2>1, <2>5, <3>1 DEF Stepped
  <2>7. RowsInv(coreHands', coreRows', known, deliveries)
    BY <2>2, <2>3, <2>4, <2>6, StepKeepsRows
  <2>8. ASSUME NEW h \in Hand \ apart'
        PROVE  /\ h \in D => watermark <= Core!Cleanup(h) /\ Tops(coreRows', h, coreHands'[h])
               /\ ~ (h \notin D /\ Rows(coreRows', h) # {})
    <3>1. h \in Hand \ apart /\ watermark < Core!Cleanup(h)
      <4>1. h \notin AtHorizon /\ h \notin apart
        BY <2>1
      <4>2. watermark \in Int /\ Core!Cleanup(h) \in Nat
        BY Times DEF IInv, Clocks
      <4> QED
        BY <4>1, <4>2 DEF AtHorizon
    <3>2. watermark \in Int /\ Core!Cleanup(h) \in Int
      BY Times DEF IInv, Clocks
    <3>3. CASE h \in D
      BY <1>1, <2>4, <2>6, <3>1, <3>2, <3>3, StepKeepsTops DEF CoreOK
    <3>4. CASE h \notin D
      BY <1>1, <2>6, <3>1, <3>2, <3>4, StepKeepsOthers DEF CoreOK
    <3> QED
      BY <3>3, <3>4
  <2>9. DOMAIN coreHands' = D
    BY <2>1
  <2>10. CoreOK(coreHands', coreRows', known, deliveries, watermark, apart')
    BY <2>5, <2>7, <2>8, <2>9 DEF CoreOK
  <2> QED
    BY <2>1, <2>10 DEF CoreInv
<1> QED
  BY <1>2, <1>3

\* A hand that comes is buffered, at its horizon as one on which the two may differ.
LEMMA CoreTakesHand ==
  ASSUME IInv, NEW h \in Hand, TakeHand(h)
  PROVE  CoreInv'
<1>1. CoreOK(coreHands, coreRows, coreContexts, deliveries, watermark, apart)
  BY DEF IInv, CoreInv
<1>2. /\ deliveries' = [deliveries EXCEPT ![h] = @ + 1]
      /\ coreHands' = Core!Held(h)
      /\ UNCHANGED <<watermark, coreContexts, coreRows>>
      /\ apart' = apart \cup ({h} \cap AtHorizon)
  BY DEF TakeHand, Core!ProcessHand
<1>3. /\ deliveries \in [Hand -> Nat] /\ watermark \in Int
      /\ \A g \in Hand : Core!Cleanup(g) \in Int
  BY JoinAssumption, Times DEF IInv, Clocks
<1>4. /\ RowsInv(coreHands, coreRows, coreContexts, deliveries)
      /\ Counts(h, deliveries, deliveries')
  BY <1>1, <1>2, <1>3 DEF CoreOK, Counts
<1>5. CASE h \in DOMAIN coreHands
  <2>1. coreHands' = coreHands
    BY <1>2, <1>5 DEF Core!Held
  <2>2. RowsInv(coreHands, coreRows, coreContexts, deliveries')
    BY <1>3, <1>4, CountingKeepsRows
  <2>3. CoreOK(coreHands, coreRows, coreContexts, deliveries', watermark, apart)
    BY <1>1, <2>2 DEF CoreOK
  <2> QED
    BY <1>2, <2>1, <2>3, CoreOKWeakens DEF CoreInv
<1>6. CASE h \notin DOMAIN coreHands
  <2> DEFINE st == Core!NewState(h)
  <2>1. coreHands' = [g \in DOMAIN coreHands \cup {h} |-> IF g = h THEN st ELSE coreHands[g]]
    BY <1>2, <1>6 DEF Core!Held
  <2>2. /\ st.life = deliveries[h] + 1 /\ st.revision = 0 /\ st.selected = NoContext
        /\ st.emitted = FALSE /\ st \in CoreState(coreContexts)
    BY <1>3 DEF Core!NewState, CoreState
  <2> HIDE DEF st
  <2>3. /\ DOMAIN coreHands' = DOMAIN coreHands \cup {h} /\ coreHands'[h] = st
        /\ \A g \in DOMAIN coreHands : coreHands'[g] = coreHands[g]
    BY <1>6, <2>1
  <2>4. RowsInv(coreHands', coreRows, coreContexts, deliveries')
    BY <1>3, <1>4, <1>6, <2>2, <2>3, TakingKeepsRows
  <2>5. h \notin apart' => watermark < Core!Cleanup(h) /\ Rows(coreRows, h) = {}
    <3>1. h \notin apart' => h \in Hand \ apart /\ watermark < Core!Cleanup(h)
      BY <1>2, <1>3 DEF AtHorizon
    <3> QED
      BY <1>1, <1>3, <1>6, <3>1 DEF CoreOK
  <2>6. h \notin apart' => Tops(coreRows, h, st)
    BY <2>2, <2>5 DEF Tops
  <2>7. CoreOK(coreHands', coreRows, coreContexts, deliveries', watermark, apart')
    <3>1. \A g \in DOMAIN coreHands' :
            /\ coreHands'[g] \in CoreState(coreContexts)
            /\ coreHands'[g].emitted /\ watermark <= Core!Cleanup(g) =>
                 coreHands'[g].selected = Core!Select(g, coreContexts)
      BY <1>1, <2>2, <2>3 DEF CoreOK
    <3>2. ASSUME NEW g \in Hand \ apart'
          PROVE  /\ g \in DOMAIN coreHands' =>
                      watermark <= Core!Cleanup(g) /\ Tops(coreRows, g, coreHands'[g])
                 /\ g \notin DOMAIN coreHands' /\ Rows(coreRows, g) # {} =>
                      watermark > Core!Cleanup(g) /\ Settled(coreRows, g, coreContexts)
      <4>1. g \in Hand \ apart
        BY <1>2
      <4>2. CASE g = h
        BY <1>3, <2>3, <2>5, <2>6, <4>2
      <4>3. CASE g # h
        BY <1>1, <2>3, <4>1, <4>3 DEF CoreOK
      <4> QED
        BY <4>2, <4>3
    <3> QED
      BY <2>4, <3>1, <3>2 DEF CoreOK
  <2> QED
    BY <1>2, <2>7 DEF CoreInv
<1> QED
  BY <1>5, <1>6

\* The watermark makes the reference say every due row, and release what is past its
\* horizon.
LEMMA CoreAdvances ==
  ASSUME IInv, NEW w \in 0..MaxWatermark, Core!AdvanceWatermark(w), apart' = apart
  PROVE  CoreInv'
<1> DEFINE D == DOMAIN coreHands
           after == [h \in D |-> Core!Emitted(h, coreHands[h], w)]
           kept  == {h \in D : ~ (after[h].emitted /\ w > Core!Cleanup(h))}
<1>1. CoreOK(coreHands, coreRows, coreContexts, deliveries, watermark, apart)
  BY DEF IInv, CoreInv
<1>2. /\ w >= watermark /\ watermark' = w /\ UNCHANGED <<coreContexts, deliveries>>
      /\ coreRows' = coreRows \cup {Core!Row(h, after[h], Core!Status(after[h])) :
                                    h \in {g \in D : after[g] # coreHands[g]}}
      /\ coreHands' = [h \in kept |-> after[h]]
  BY DEF Core!AdvanceWatermark
<1>3. /\ watermark \in Int /\ w \in Int
      /\ \A h \in Hand : /\ Core!Cleanup(h) \in Int /\ Core!Due(h) \in Int
                         /\ Core!Due(h) <= Core!Cleanup(h)
  BY JoinAssumption, Times DEF IInv, Clocks
<1>4. /\ RowsInv(coreHands, coreRows, coreContexts, deliveries) /\ D \subseteq Hand
      /\ coreContexts \subseteq Context
      /\ \A h \in Hand : Core!Select(h, coreContexts) \in coreContexts \cup {NoContext}
  BY <1>1, Selected DEF CoreOK, RowsInv, IInv, ContextsInv, KnownOK
<1>5. ASSUME NEW h \in D
      PROVE  /\ after[h] \in CoreState(coreContexts)
             /\ HandStep(h, coreHands[h], after[h], coreContexts)
             /\ after[h].revision # coreHands[h].revision <=> after[h] # coreHands[h]
             /\ Core!Due(h) <= w => after[h].emitted
             /\ after[h].emitted /\ watermark <= Core!Cleanup(h)
                  => after[h].selected = Core!Select(h, coreContexts)
  <2> DEFINE st == coreHands[h]
             s  == Core!Select(h, coreContexts)
  <2>1. /\ st \in CoreState(coreContexts) /\ h \in Hand /\ s \in coreContexts \cup {NoContext}
        /\ st.emitted /\ watermark <= Core!Cleanup(h) => st.selected = s
        /\ Core!Due(h) \in Int
    BY <1>1, <1>3, <1>4 DEF CoreOK
  <2>2. st.revision \in Nat /\ st.emitted \in BOOLEAN /\ st.emitted = (st.revision > 0)
    BY <1>4 DEF RowsInv, Fields
  <2>3. CASE st.emitted \/ Core!Due(h) > w
    <3>1. after[h] = st
      BY <2>3 DEF Core!Emitted
    <3> QED
      BY <1>3, <2>1, <2>3, <3>1 DEF HandStep
  <2>4. CASE ~ (st.emitted \/ Core!Due(h) > w)
    <3>1. after[h] = [st EXCEPT !.revision = 1, !.emitted = TRUE, !.selected = s]
      BY <2>4 DEF Core!Emitted
    <3>2. st.revision = 0
      <4>1. CASE st.revision > 0
        <5>1. (st.revision > 0) = TRUE
          BY <4>1
        <5>2. st.emitted = TRUE
          BY <2>2, <5>1
        <5> QED
          BY <2>4, <5>2
      <4> QED
        BY <2>2, <4>1
    <3> HIDE DEF s, st, after
    <3>3. /\ after[h] \in CoreState(coreContexts) /\ after[h].life = st.life
          /\ after[h].revision = 1 /\ after[h].selected = s /\ after[h].emitted = TRUE
      <4>1. /\ st = [known |-> st.known, life |-> st.life, revision |-> st.revision,
                     selected |-> st.selected, emitted |-> st.emitted]
            /\ st.known \in SUBSET coreContexts /\ st.life \in Nat
        BY <2>1 DEF CoreState
      <4>2. after[h] = [known |-> st.known, life |-> st.life, revision |-> 1,
                        selected |-> s, emitted |-> TRUE]
        BY <3>1, <4>1
      <4> QED
        BY <2>1, <4>1, <4>2 DEF CoreState
    <3>4. after[h].revision # st.revision /\ after[h] # st
      BY <3>2, <3>3
    <3>5. HandStep(h, st, after[h], coreContexts)
      BY <2>4, <3>2, <3>3 DEF HandStep, s
    <3> QED
      BY <3>3, <3>4, <3>5 DEF s, st
  <2> QED
    BY <2>3, <2>4
<1>6. DOMAIN after = D
  OBVIOUS
<1>7. /\ DOMAIN coreHands' = kept /\ \A h \in kept : coreHands'[h] = after[h]
      /\ kept \subseteq D
      /\ \A h \in D : h \in kept <=> ~ (after[h].emitted /\ w > Core!Cleanup(h))
  BY <1>2
<1>8. Stepped(coreHands, coreRows, coreContexts, after, coreRows')
  <2>1. \A h \in D : IsRow(Core!Row(h, after[h], Core!Status(after[h])), h, after[h])
    BY DEF IsRow, Core!Row
  <2> HIDE DEF after
  <2> QED
    BY <1>2, <1>5, <1>6, <2>1 DEF Stepped
<1> HIDE DEF after, kept
<1>9. RowsInv(after, coreRows', coreContexts, deliveries)
  BY <1>4, <1>8, StepKeepsRows
<1>10. RowsInv(coreHands', coreRows', coreContexts, deliveries)
  BY <1>6, <1>7, <1>9, ReleaseKeepsRows
<1>11. ASSUME NEW h \in Hand \ apart
       PROVE  /\ h \in kept => w <= Core!Cleanup(h) /\ Tops(coreRows', h, coreHands'[h])
              /\ h \notin kept /\ Rows(coreRows', h) # {} =>
                   w > Core!Cleanup(h) /\ Settled(coreRows', h, coreContexts)
  <2>1. CASE h \in D
    <3>1. Tops(coreRows', h, after[h]) /\ watermark <= Core!Cleanup(h)
      BY <1>1, <1>4, <1>8, <2>1, StepKeepsTops DEF CoreOK
    <3>2. h \in kept => w <= Core!Cleanup(h)
      BY <1>3, <1>5, <1>7, <2>1
    <3>3. h \notin kept => after[h].emitted /\ w > Core!Cleanup(h)
      BY <1>7, <2>1
    <3>4. h \notin kept => Settled(coreRows', h, coreContexts)
      BY <1>5, <2>1, <3>1, <3>3, TopSettles
    <3> QED
      BY <1>7, <3>1, <3>2, <3>3, <3>4
  <2>2. CASE h \notin D
    <3>1. Rows(coreRows', h) = Rows(coreRows, h)
      BY <1>8, <2>2, StepKeepsOthers
    <3>2. Rows(coreRows, h) # {} => watermark > Core!Cleanup(h) /\ Settled(coreRows, h, coreContexts)
      BY <1>1, <2>2 DEF CoreOK
    <3> QED
      BY <1>2, <1>3, <1>7, <2>2, <3>1, <3>2, SettledStays
  <2> QED
    BY <2>1, <2>2
<1>12. \A h \in kept :
         /\ coreHands'[h] \in CoreState(coreContexts)
         /\ coreHands'[h].emitted /\ w <= Core!Cleanup(h) =>
              coreHands'[h].selected = Core!Select(h, coreContexts)
  <2>1. \A h \in kept : h \in Hand /\ (w <= Core!Cleanup(h) => watermark <= Core!Cleanup(h))
    BY <1>2, <1>3, <1>4, <1>7
  <2> QED
    BY <1>5, <1>7, <2>1
<1>13. CoreOK(coreHands', coreRows', coreContexts, deliveries, w, apart)
  BY <1>7, <1>10, <1>11, <1>12 DEF CoreOK
<1> QED
  BY <1>2, <1>13 DEF CoreInv

\* What the reference keeps while the operator acts alone.
LEMMA CoreKept ==
  ASSUME IInv, UNCHANGED <<watermark, deliveries, core, apart>>
  PROVE  CoreInv'
<1>1. UNCHANGED <<watermark, deliveries, coreContexts, coreHands, coreRows, apart>>
  BY DEF core
<1> QED
  BY <1>1 DEF IInv, CoreInv

-----------------------------------------------------------------------------
(* The operator. *)

\* More hands may differ after an input at the horizon.
LEMMA FlinkOKWeakens ==
  ASSUME NEW held, NEW rows, NEW known, NEW count, NEW now, NEW later, NEW later2,
         FlinkOK(held, rows, known, count, now, later), later \subseteq later2
  PROVE  FlinkOK(held, rows, known, count, now, later2)
BY DEF FlinkOK

\* What was not emitted has revision 0.
LEMMA NotEmitted ==
  ASSUME NEW st, NEW known, Fields(st, known), ~st.emitted
  PROVE  st.revision = 0
<1>1. CASE st.revision > 0
  <2>1. (st.revision > 0) = TRUE
    BY <1>1
  <2>2. st.emitted = TRUE
    BY <2>1 DEF Fields
  <2> QED
    BY <2>2
<1> QED
  BY <1>1 DEF Fields

\* What emitInitial does to a state of the operator.
EmitsInitial(h, st, u, isReady) ==
  /\ u \in FlinkState(coreContexts) /\ u.due = st.due /\ u.cleanup = st.cleanup
  /\ HandStep(h, st, u, coreContexts)
  /\ \/ /\ ~Flink!Emits(st, isReady) /\ u = st
     \/ /\ Flink!Emits(st, isReady) /\ ~st.emitted /\ st.due /\ u.emitted = TRUE
        /\ u.revision # st.revision /\ u.selected = Core!Select(h, coreContexts)

\* emitInitial answers with the best context, if the state is due and unsaid.
LEMMA FlinkEmitted ==
  ASSUME IInv, NEW h \in Hand, NEW st \in FlinkState(coreContexts), Fields(st, coreContexts),
         NEW isReady
  PROVE  EmitsInitial(h, st, Flink!Emitted(h, st, isReady), isReady)
<1> DEFINE s == Core!Select(h, coreContexts)
           u == Flink!Emitted(h, st, isReady)
<1>1. /\ s \in coreContexts \cup {NoContext} /\ Flink!Policy!Select(h, flinkContexts) = s
  BY SameSelection, Selected DEF IInv, ContextsInv, KnownOK
<1>2. CASE ~Flink!Emits(st, isReady)
  <2>1. u = st
    BY <1>2 DEF Flink!Emitted
  <2> QED
    BY <1>2, <2>1 DEF HandStep, EmitsInitial
<1>3. CASE Flink!Emits(st, isReady)
  <2>1. u = [st EXCEPT !.revision = 1, !.emitted = TRUE, !.selected = s]
    BY <1>1, <1>3 DEF Flink!Emitted
  <2>2. ~st.emitted /\ st.due
    BY <1>3 DEF Flink!Emits
  <2>3. st.revision = 0
    BY <2>2, NotEmitted
  <2> HIDE DEF s, u
  <2>4. /\ st = [known |-> st.known, life |-> st.life, revision |-> st.revision,
                 selected |-> st.selected, emitted |-> st.emitted, due |-> st.due,
                 cleanup |-> st.cleanup, fallback |-> st.fallback]
        /\ st.known \in SUBSET coreContexts /\ st.life \in Nat
        /\ st.due \in BOOLEAN /\ st.cleanup \in BOOLEAN /\ st.fallback \in BOOLEAN
    BY DEF FlinkState
  <2>5. u = [known |-> st.known, life |-> st.life, revision |-> 1,
             selected |-> s, emitted |-> TRUE, due |-> st.due,
             cleanup |-> st.cleanup, fallback |-> st.fallback]
    BY <2>1, <2>4
  <2>6. /\ u \in FlinkState(coreContexts) /\ u.due = st.due /\ u.cleanup = st.cleanup
        /\ u.life = st.life /\ u.revision = 1 /\ u.selected = s /\ u.emitted = TRUE
    BY <1>1, <2>4, <2>5 DEF FlinkState
  <2>7. HandStep(h, st, u, coreContexts)
    BY <2>2, <2>3, <2>6 DEF HandStep, s
  <2> QED
    BY <1>3, <2>2, <2>3, <2>6, <2>7 DEF s, u, EmitsInitial
<1> QED
  BY <1>2, <1>3

\* What the operator keeps while the reference acts alone.
LEMMA FlinkKept ==
  ASSUME IInv, UNCHANGED <<watermark, deliveries, coreContexts, flink, apart>>
  PROVE  FlinkInv'
<1>1. UNCHANGED <<watermark, deliveries, coreContexts, flinkHands, flinkRows, apart>>
  BY DEF flink
<1> QED
  BY <1>1 DEF IInv, FlinkInv

\* What the timers that fire when the watermark is w find: the states, with their marks.
Marked(marked, w) ==
  /\ DOMAIN marked = DOMAIN flinkHands
  /\ \A h \in DOMAIN flinkHands :
       /\ marked[h] \in FlinkState(coreContexts)
       /\ marked[h].life = flinkHands[h].life /\ marked[h].revision = flinkHands[h].revision
       /\ marked[h].selected = flinkHands[h].selected
       /\ marked[h].emitted = flinkHands[h].emitted
       /\ flinkHands[h].due => marked[h].due
       /\ w > watermark /\ w >= Core!Due(h) => marked[h].due
       /\ marked[h].cleanup <=> w >= Core!Cleanup(h)

\* Timers make the operator say every row that is due, and release what is past its
\* horizon and said.
LEMMA FlinkFires ==
  ASSUME IInv, NEW marked, NEW isReady, NEW w \in Int, Flink!Fired(marked, isReady),
         Marked(marked, w), w >= watermark, watermark' = w,
         UNCHANGED <<coreContexts, deliveries, apart>>
  PROVE  FlinkInv'
<1> DEFINE D == DOMAIN flinkHands
           after == [h \in D |-> Flink!Emitted(h, marked[h], isReady)]
           kept  == {h \in D : ~ (after[h].emitted /\ after[h].cleanup)}
<1>0. /\ DOMAIN marked = D
      /\ \A h \in D :
           /\ marked[h] \in FlinkState(coreContexts)
           /\ marked[h].life = flinkHands[h].life /\ marked[h].revision = flinkHands[h].revision
           /\ marked[h].selected = flinkHands[h].selected
           /\ marked[h].emitted = flinkHands[h].emitted
           /\ flinkHands[h].due => marked[h].due
           /\ marked[h].cleanup <=> w >= Core!Cleanup(h)
  BY DEF Marked
<1> USE <1>0
<1>1. FlinkOK(flinkHands, flinkRows, coreContexts, deliveries, watermark, apart)
  BY DEF IInv, FlinkInv
<1>2. /\ flinkRows' = flinkRows \cup {Flink!InitialRow(h, after[h]) :
                                      h \in {g \in D : Flink!Emits(marked[g], isReady)}}
      /\ flinkHands' = [h \in kept |-> after[h]]
  BY DEF Flink!Fired
<1>3. watermark \in Int /\ \A h \in Hand : Core!Cleanup(h) \in Int
  BY Times DEF IInv, Clocks
<1>4. /\ RowsInv(flinkHands, flinkRows, coreContexts, deliveries) /\ D \subseteq Hand
      /\ coreContexts \subseteq Context
      /\ \A h \in Hand : Core!Select(h, coreContexts) \in coreContexts \cup {NoContext}
  BY <1>1, Selected DEF FlinkOK, RowsInv, IInv, ContextsInv, KnownOK
<1>5. RowsInv(marked, flinkRows, coreContexts, deliveries)
  BY <1>4 DEF RowsInv, Fields
<1>6. ASSUME NEW h \in D
      PROVE  EmitsInitial(h, marked[h], after[h], isReady)
  <2>1. Fields(marked[h], coreContexts) /\ marked[h] \in FlinkState(coreContexts) /\ h \in Hand
    BY <1>4, <1>5 DEF RowsInv
  <2>2. EmitsInitial(h, marked[h], Flink!Emitted(h, marked[h], isReady), isReady)
    BY <2>1, FlinkEmitted
  <2> QED
    BY <2>2
<1>7. /\ DOMAIN after = D
      /\ DOMAIN flinkHands' = kept /\ \A h \in kept : flinkHands'[h] = after[h]
      /\ kept \subseteq D
      /\ \A h \in D : h \in kept <=> ~ (after[h].emitted /\ after[h].cleanup)
  BY <1>2
<1>8. Stepped(marked, flinkRows, coreContexts, after, flinkRows')
  <2>1. \A h \in D : IsRow(Flink!InitialRow(h, after[h]), h, after[h])
    BY DEF IsRow, Flink!InitialRow, Flink!Policy!Row
  <2> HIDE DEF after
  <2> QED
    <3>1. \A h \in D : /\ HandStep(h, marked[h], after[h], coreContexts)
                       /\ after[h].revision # marked[h].revision <=> Flink!Emits(marked[h], isReady)
      BY <1>6 DEF EmitsInitial
    <3>2. ASSUME NEW r \in flinkRows'
          PROVE  \/ r \in flinkRows
                 \/ \E h \in D : after[h].revision # marked[h].revision /\ IsRow(r, h, after[h])
      BY <1>2, <2>1, <3>1
    <3>3. ASSUME NEW h \in D, after[h].revision # marked[h].revision
          PROVE  \E r \in flinkRows' : IsRow(r, h, after[h])
      <4>1. Flink!Emits(marked[h], isReady)
        BY <3>1, <3>3
      <4>2. Flink!InitialRow(h, after[h]) \in flinkRows'
        BY <1>2, <4>1
      <4> QED
        BY <2>1, <4>2
    <3>4. flinkRows \subseteq flinkRows'
      BY <1>2
    <3>5. DOMAIN marked = D /\ DOMAIN after = DOMAIN marked
      BY <1>7
    <3>6. \A h \in DOMAIN marked : HandStep(h, marked[h], after[h], coreContexts)
      BY <3>1, <3>5
    <3>7. \A r \in flinkRows' :
            \/ r \in flinkRows
            \/ \E h \in DOMAIN marked : after[h].revision # marked[h].revision /\ IsRow(r, h, after[h])
      BY <3>2, <3>5
    <3>8. \A h \in DOMAIN marked : after[h].revision # marked[h].revision =>
            \E r \in flinkRows' : IsRow(r, h, after[h])
      BY <3>3, <3>5
    <3> QED
      BY <3>4, <3>5, <3>6, <3>7, <3>8 DEF Stepped
<1> HIDE DEF after, kept
<1>9. RowsInv(after, flinkRows', coreContexts, deliveries)
  BY <1>4, <1>5, <1>8, StepKeepsRows
<1>10. RowsInv(flinkHands', flinkRows', coreContexts, deliveries)
  BY <1>7, <1>9, ReleaseKeepsRows
<1>11. ASSUME NEW h \in D
       PROVE  /\ after[h].emitted => after[h].due
              /\ after[h].emitted /\ (flinkHands[h].emitted => ~flinkHands[h].cleanup)
                   => after[h].selected = Core!Select(h, coreContexts)
              /\ flinkHands[h].cleanup => after[h].cleanup
  <2>1. /\ flinkHands[h].emitted => flinkHands[h].due
        /\ flinkHands[h].cleanup <=> watermark >= Core!Cleanup(h)
        /\ flinkHands[h].emitted /\ ~flinkHands[h].cleanup
             => flinkHands[h].selected = Core!Select(h, coreContexts)
    BY <1>1 DEF FlinkOK
  <2>2. h \in Hand
    BY <1>4
  <2>3. after[h].due = marked[h].due /\ after[h].cleanup = marked[h].cleanup
    BY <1>6 DEF EmitsInitial
  <2>4. flinkHands[h].cleanup => after[h].cleanup
    BY <1>3, <2>1, <2>2, <2>3
  <2>5. CASE after[h] = marked[h]
    BY <2>1, <2>4, <2>5
  <2>6. CASE marked[h].due /\ after[h].selected = Core!Select(h, coreContexts)
    BY <2>3, <2>4, <2>6
  <2> QED
    BY <1>6, <2>5, <2>6 DEF EmitsInitial
<1>12. ASSUME NEW h \in Hand \ apart
       PROVE  /\ h \in kept => /\ after[h].emitted => ~after[h].cleanup
                               /\ Tops(flinkRows', h, flinkHands'[h])
              /\ h \notin kept /\ Rows(flinkRows', h) # {} =>
                   w >= Core!Cleanup(h) /\ Settled(flinkRows', h, coreContexts)
  <2>1. CASE h \in D
    <3>1. /\ flinkHands[h].emitted => ~flinkHands[h].cleanup
          /\ Tops(flinkRows, h, flinkHands[h])
      BY <1>1, <2>1 DEF FlinkOK
    <3>2. Tops(flinkRows, h, marked[h])
      BY <2>1, <3>1 DEF Tops
    <3>3. Tops(flinkRows', h, after[h])
      BY <1>5, <1>8, <2>1, <3>2, StepKeepsTops
    <3>4. after[h].emitted => after[h].selected = Core!Select(h, coreContexts)
      BY <1>11, <2>1, <3>1
    <3>5. h \notin kept => after[h].emitted /\ w >= Core!Cleanup(h)
      BY <1>6, <1>7, <2>1 DEF EmitsInitial
    <3>6. h \notin kept => Settled(flinkRows', h, coreContexts)
      BY <3>3, <3>4, <3>5, TopSettles
    <3> QED
      BY <1>7, <2>1, <3>3, <3>5, <3>6
  <2>2. CASE h \notin D
    <3>1. Rows(flinkRows', h) = Rows(flinkRows, h)
      BY <1>8, <2>2, StepKeepsOthers
    <3>2. Rows(flinkRows, h) # {} =>
            watermark >= Core!Cleanup(h) /\ Settled(flinkRows, h, coreContexts)
      BY <1>1, <2>2 DEF FlinkOK
    <3> QED
      BY <1>3, <1>7, <2>2, <3>1, <3>2, SettledStays
  <2> QED
    BY <2>1, <2>2
<1>13. \A h \in kept :
         /\ flinkHands'[h] \in FlinkState(coreContexts)
         /\ flinkHands'[h].emitted => flinkHands'[h].due
         /\ flinkHands'[h].cleanup <=> w >= Core!Cleanup(h)
         /\ flinkHands'[h].emitted /\ ~flinkHands'[h].cleanup =>
              flinkHands'[h].selected = Core!Select(h, coreContexts)
  <2>1. ASSUME NEW h \in kept
        PROVE  /\ h \in D /\ flinkHands'[h] = after[h]
               /\ after[h] \in FlinkState(coreContexts)
               /\ after[h].cleanup <=> w >= Core!Cleanup(h)
    BY <1>6, <1>7 DEF EmitsInitial
  <2>2. ASSUME NEW h \in kept, after[h].emitted, ~after[h].cleanup
        PROVE  after[h].selected = Core!Select(h, coreContexts)
    BY <1>11, <2>1, <2>2
  <2> QED
    BY <1>11, <2>1, <2>2
<1>14. FlinkOK(flinkHands', flinkRows', coreContexts, deliveries, w, apart)
  BY <1>7, <1>10, <1>12, <1>13 DEF FlinkOK
<1> QED
  BY <1>14 DEF FlinkInv

\* The times of a hand are the same for both.
LEMMA SameTimes ==
  ASSUME NEW h
  PROVE  Flink!Due(h) = Core!Due(h) /\ Flink!Cleanup(h) = Core!Cleanup(h)
BY DEF Flink!Due, Core!Due, Flink!Cleanup, Core!Cleanup, Flink!Policy!Due, Flink!Policy!Cleanup

\* The fields of a state of the operator.
LEMMA FlinkFields ==
  ASSUME NEW known, NEW st \in FlinkState(known)
  PROVE  /\ st = [known |-> st.known, life |-> st.life, revision |-> st.revision,
                  selected |-> st.selected, emitted |-> st.emitted, due |-> st.due,
                  cleanup |-> st.cleanup, fallback |-> st.fallback]
         /\ st.known \in SUBSET known /\ st.life \in Nat /\ st.revision \in Nat
         /\ st.selected \in known \cup {NoContext} /\ st.emitted \in BOOLEAN
         /\ st.due \in BOOLEAN /\ st.cleanup \in BOOLEAN /\ st.fallback \in BOOLEAN
BY DEF FlinkState

\* The watermark fires the event-time timers.
LEMMA WatermarkFires ==
  ASSUME IInv, NEW w \in 0..MaxWatermark, Flink!AdvanceWatermark(w)
  PROVE  \E marked : Marked(marked, w) /\ Flink!Fired(marked, ready)
<1> DEFINE D == DOMAIN flinkHands
<1>1. PICK marked :
        marked = [h \in D |-> [flinkHands[h] EXCEPT !.due = @ \/ Flink!Due(h) <= w,
                                                    !.cleanup = @ \/ Flink!Cleanup(h) <= w]]
  OBVIOUS
<1>2. /\ Flink!Fired(marked, ready)
      /\ w > watermark /\ watermark' = w /\ deliveries' = deliveries
  BY <1>1 DEF Flink!AdvanceWatermark
<1>3. w \in Int /\ watermark \in Int
  BY DEF IInv, Clocks
<1>4. ASSUME NEW h \in D
      PROVE  /\ marked[h] \in FlinkState(coreContexts)
             /\ marked[h].life = flinkHands[h].life /\ marked[h].revision = flinkHands[h].revision
             /\ marked[h].selected = flinkHands[h].selected
             /\ marked[h].emitted = flinkHands[h].emitted
             /\ flinkHands[h].due => marked[h].due
             /\ w > watermark /\ w >= Core!Due(h) => marked[h].due
             /\ marked[h].cleanup <=> w >= Core!Cleanup(h)
  <2> DEFINE st == flinkHands[h]
             u  == marked[h]
  <2>1. /\ st \in FlinkState(coreContexts) /\ h \in Hand
        /\ st.cleanup <=> watermark >= Core!Cleanup(h)
    BY DEF IInv, FlinkInv, FlinkOK, RowsInv
  <2>2. Core!Cleanup(h) \in Int /\ Flink!Cleanup(h) = Core!Cleanup(h)
    BY <2>1, Times, SameTimes
  <2> HIDE DEF u
  <2>3. PICK due \in BOOLEAN, cleanup \in BOOLEAN :
          /\ due <=> st.due \/ Flink!Due(h) <= w
          /\ cleanup <=> st.cleanup \/ Core!Cleanup(h) <= w
          /\ u = [st EXCEPT !.due = due, !.cleanup = cleanup]
    <3>1. u = [st EXCEPT !.due = st.due \/ Flink!Due(h) <= w,
                         !.cleanup = st.cleanup \/ Core!Cleanup(h) <= w]
      BY <1>1, <2>2 DEF u
    <3>2. /\ (st.due \/ Flink!Due(h) <= w) \in BOOLEAN
          /\ (st.cleanup \/ Core!Cleanup(h) <= w) \in BOOLEAN
      OBVIOUS
    <3> QED
      BY <3>1, <3>2
  <2> HIDE DEF st
  <2>4. u = [known |-> st.known, life |-> st.life, revision |-> st.revision,
             selected |-> st.selected, emitted |-> st.emitted,
             due |-> due, cleanup |-> cleanup, fallback |-> st.fallback]
    <3>1. st = [known |-> st.known, life |-> st.life, revision |-> st.revision,
                selected |-> st.selected, emitted |-> st.emitted, due |-> st.due,
                cleanup |-> st.cleanup, fallback |-> st.fallback]
      BY <2>1, FlinkFields
    <3> QED
      BY <2>3, <3>1
  <2>5. /\ u.life = st.life /\ u.revision = st.revision /\ u.selected = st.selected
        /\ u.emitted = st.emitted /\ u.due = due /\ u.cleanup = cleanup
    BY <2>4
  <2>6. u \in FlinkState(coreContexts)
    BY <2>1, <2>4, FlinkFields DEF FlinkState
  <2>7. u.cleanup <=> w >= Core!Cleanup(h)
    BY <1>2, <1>3, <2>1, <2>2, <2>3, <2>5
  <2>8. (st.due => u.due) /\ (w >= Core!Due(h) => u.due)
    <3>1. Core!Due(h) \in Int /\ Flink!Due(h) = Core!Due(h)
      BY <2>1, Times, SameTimes
    <3> QED
      BY <1>3, <2>3, <2>5, <3>1
  <2> QED
    BY <2>5, <2>6, <2>7, <2>8 DEF st, u
<1>5. DOMAIN marked = D
  BY <1>1
<1> QED
  BY <1>2, <1>4, <1>5 DEF Marked

\* The end of the bootstrap wait fires the processing-time timers.
LEMMA BootstrapFires ==
  ASSUME IInv, Ready
  PROVE  \E marked : Marked(marked, watermark) /\ Flink!Fired(marked, TRUE)
<1> DEFINE D == DOMAIN flinkHands
<1>1. PICK marked :
        marked = [h \in D |-> [flinkHands[h] EXCEPT !.due = @ \/ flinkHands[h].fallback]]
  OBVIOUS
<1>2. Flink!Fired(marked, TRUE)
  BY <1>1 DEF Ready, Flink!BootstrapOver
<1>3. ~ (watermark > watermark)
  BY DEF IInv, Clocks
<1>4. ASSUME NEW h \in D
      PROVE  /\ marked[h] \in FlinkState(coreContexts)
             /\ marked[h].life = flinkHands[h].life /\ marked[h].revision = flinkHands[h].revision
             /\ marked[h].selected = flinkHands[h].selected
             /\ marked[h].emitted = flinkHands[h].emitted
             /\ flinkHands[h].due => marked[h].due
             /\ marked[h].cleanup <=> watermark >= Core!Cleanup(h)
  <2> DEFINE st == flinkHands[h]
             u  == marked[h]
  <2>1. /\ st \in FlinkState(coreContexts)
        /\ st.cleanup <=> watermark >= Core!Cleanup(h)
    BY DEF IInv, FlinkInv, FlinkOK
  <2>2. u = [st EXCEPT !.due = st.due \/ st.fallback]
    BY <1>1
  <2> HIDE DEF st, u
  <2>3. u = [known |-> st.known, life |-> st.life, revision |-> st.revision,
             selected |-> st.selected, emitted |-> st.emitted, due |-> st.due \/ st.fallback,
             cleanup |-> st.cleanup, fallback |-> st.fallback]
    BY <2>1, <2>2, FlinkFields
  <2>4. /\ u.life = st.life /\ u.revision = st.revision /\ u.selected = st.selected
        /\ u.emitted = st.emitted /\ u.due = (st.due \/ st.fallback) /\ u.cleanup = st.cleanup
    BY <2>3
  <2>5. u \in FlinkState(coreContexts)
    BY <2>1, <2>3, FlinkFields DEF FlinkState
  <2>6. st.due => u.due
    BY <2>4
  <2> QED
    BY <2>1, <2>4, <2>5, <2>6 DEF st, u
<1>5. DOMAIN marked = D
  BY <1>1
<1> QED
  BY <1>2, <1>3, <1>4, <1>5 DEF Marked

\* The operator after its timers fired.
LEMMA FlinkAdvances ==
  ASSUME IInv, NEW w \in 0..MaxWatermark, Flink!AdvanceWatermark(w), UNCHANGED <<coreContexts, apart>>
  PROVE  FlinkInv'
<1>1. PICK marked : Marked(marked, w) /\ Flink!Fired(marked, ready)
  BY WatermarkFires
<1>2. w > watermark /\ watermark' = w /\ deliveries' = deliveries
  BY DEF Flink!AdvanceWatermark
<1>3. w \in Int /\ watermark \in Int
  BY DEF IInv, Clocks
<1>4. w >= watermark
  BY <1>2, <1>3
<1> QED
  BY <1>1, <1>2, <1>3, <1>4, FlinkFires

\* The operator after the bootstrap wait.
LEMMA FlinkReady ==
  ASSUME IInv, Ready
  PROVE  FlinkInv'
<1>1. PICK marked : Marked(marked, watermark) /\ Flink!Fired(marked, TRUE)
  BY BootstrapFires
<1>2. /\ watermark' = watermark /\ UNCHANGED <<coreContexts, deliveries, apart>>
      /\ watermark \in Int /\ watermark >= watermark
  BY DEF Ready, Flink!BootstrapOver, core, IInv, Clocks
<1> QED
  BY <1>1, <1>2, FlinkFires

\* A context corrects the rows of the operator that can be corrected, and no other.
LEMMA FlinkTakesContext ==
  ASSUME IInv, NEW c \in Context, TakeContext(c)
  PROVE  FlinkInv'
<1>1. FlinkOK(flinkHands, flinkRows, coreContexts, deliveries, watermark, apart)
  BY DEF IInv, FlinkInv
<1>2. CASE \E d \in coreContexts : d.version = c.version
  <2>1. /\ UNCHANGED <<watermark, deliveries, coreContexts, flinkHands, flinkRows>>
        /\ apart \subseteq apart'
    BY <1>2, ConflictMeans DEF flink
  <2> QED
    BY <1>1, <2>1, FlinkOKWeakens DEF FlinkInv
<1>3. CASE ~ \E d \in coreContexts : d.version = c.version
  <2> DEFINE known == coreContexts \cup {c}
             D == DOMAIN flinkHands
             C == {g \in D : Flink!Correctable(flinkHands[g], g, c)}
  <2>1. /\ coreContexts' = known
        /\ flinkHands' = [h \in D |-> IF Flink!Correctable(flinkHands[h], h, c)
                            THEN [flinkHands[h] EXCEPT !.revision = @ + 1,
                                    !.selected = Core!Select(h, known)]
                            ELSE flinkHands[h]]
        /\ flinkRows' = flinkRows \cup {Flink!Policy!Row(h, flinkHands'[h], "corrected") : h \in C}
        /\ watermark' = watermark /\ deliveries' = deliveries
        /\ apart' = apart \cup AtHorizon
    BY <1>3, ContextMeans
  <2>2. /\ KnownOK(coreContexts, seen) /\ known \in SUBSET Context /\ coreContexts \subseteq known
        /\ flinkContexts = coreContexts
    BY DEF IInv, ContextsInv, KnownOK
  <2>3. \A h \in Hand :
          /\ HasBest(h, coreContexts) /\ HasBest(h, known)
          /\ Core!Select(h, known) \in known \cup {NoContext}
          /\ \/ Core!Select(h, known) = Core!Select(h, coreContexts)
             \/ Improved(Core!Select(h, coreContexts), Core!Select(h, known))
    BY <1>3, <2>2, SelectGrows, SelectIsNone DEF KnownOK
  <2>4. RowsInv(flinkHands, flinkRows, coreContexts, deliveries) /\ D \subseteq Hand
    BY <1>1 DEF FlinkOK, RowsInv
  <2>5. ASSUME NEW h \in D
        PROVE  /\ flinkHands'[h] \in FlinkState(known)
               /\ HandStep(h, flinkHands[h], flinkHands'[h], known)
               /\ flinkHands'[h].revision # flinkHands[h].revision <=> h \in C
               /\ flinkHands'[h].due = flinkHands[h].due
               /\ flinkHands'[h].cleanup = flinkHands[h].cleanup
               /\ flinkHands'[h].emitted = flinkHands[h].emitted
               /\ flinkHands'[h].emitted /\ ~flinkHands'[h].cleanup
                    => flinkHands'[h].selected = Core!Select(h, known)
    <3> DEFINE st == flinkHands[h]
               s  == Core!Select(h, known)
               u  == flinkHands'[h]
    <3>1. /\ st \in FlinkState(coreContexts) /\ h \in Hand /\ s \in known \cup {NoContext}
          /\ st.emitted /\ ~st.cleanup => st.selected = Core!Select(h, coreContexts)
          /\ st.revision \in Nat /\ st.revision + 1 \in Nat /\ st.emitted \in BOOLEAN
      <4>1. /\ st \in FlinkState(coreContexts) /\ h \in Hand /\ s \in known \cup {NoContext}
            /\ st.emitted /\ ~st.cleanup => st.selected = Core!Select(h, coreContexts)
        BY <1>1, <2>3, <2>4 DEF FlinkOK
      <4>2. st.revision \in Nat /\ st.emitted \in BOOLEAN
        BY <4>1, FlinkFields
      <4> QED
        BY <4>1, <4>2
    <3>2. /\ Flink!Correctable(st, h, c) <=>
               st.emitted /\ ~st.cleanup /\ s \notin {NoContext, st.selected}
      BY <2>2, SameSelection DEF Flink!Correctable
    <3>3. CASE h \in C
      <4>1. u = [st EXCEPT !.revision = st.revision + 1, !.selected = s]
        BY <2>1, <3>3
      <4>2. st.emitted /\ ~st.cleanup /\ s \notin {NoContext, st.selected}
        BY <3>2, <3>3
      <4>3. Improved(st.selected, s)
        BY <2>3, <3>1, <4>2
      <4>4. /\ u \in FlinkState(known) /\ u.life = st.life
            /\ u.revision = st.revision + 1 /\ u.selected = s
            /\ u.emitted = st.emitted /\ u.due = st.due /\ u.cleanup = st.cleanup
        <5> HIDE DEF s, st, known, u
        <5>1. u = [known |-> st.known, life |-> st.life, revision |-> st.revision + 1,
                   selected |-> s, emitted |-> st.emitted, due |-> st.due,
                   cleanup |-> st.cleanup, fallback |-> st.fallback]
          <6>1. st = [known |-> st.known, life |-> st.life, revision |-> st.revision,
                      selected |-> st.selected, emitted |-> st.emitted, due |-> st.due,
                      cleanup |-> st.cleanup, fallback |-> st.fallback]
            BY <3>1, FlinkFields
          <6> QED
            BY <4>1, <6>1
        <5>2. st.known \in SUBSET known
          BY <2>2, <3>1, FlinkFields
        <5> QED
          BY <3>1, <5>1, <5>2, FlinkFields DEF FlinkState
      <4> QED
        BY <3>1, <3>3, <4>2, <4>3, <4>4 DEF HandStep
    <3>4. CASE h \notin C
      <4>1. u = st
        BY <2>1, <3>4
      <4>2. st \in FlinkState(known)
        BY <2>2, <3>1 DEF FlinkState
      <4>3. ASSUME st.emitted, ~st.cleanup PROVE st.selected = s
        <5>1. s \in {NoContext, st.selected} /\ st.selected = Core!Select(h, coreContexts)
          BY <3>1, <3>2, <3>4, <4>3
        <5> QED
          BY <2>3, <3>1, <5>1 DEF Improved
      <4> QED
        BY <3>4, <4>1, <4>2, <4>3 DEF HandStep
    <3> QED
      BY <3>3, <3>4
  <2>6. Stepped(flinkHands, flinkRows, known, flinkHands', flinkRows')
    <3>1. \A h \in C : IsRow(Flink!Policy!Row(h, flinkHands'[h], "corrected"), h, flinkHands'[h])
      BY DEF IsRow, Flink!Policy!Row
    <3>2. DOMAIN flinkHands' = D /\ flinkRows \subseteq flinkRows'
      BY <2>1
    <3>3. \A r \in flinkRows' :
            \/ r \in flinkRows
            \/ \E h \in D : flinkHands'[h].revision # flinkHands[h].revision
                            /\ IsRow(r, h, flinkHands'[h])
      <4>1. ASSUME NEW r \in flinkRows', r \notin flinkRows
            PROVE  \E h \in C : r = Flink!Policy!Row(h, flinkHands'[h], "corrected")
        BY <2>1, <4>1
      <4>2. \A h \in C : h \in D /\ flinkHands'[h].revision # flinkHands[h].revision
        BY <2>5
      <4> QED
        BY <3>1, <4>1, <4>2
    <3>4. \A h \in D : flinkHands'[h].revision # flinkHands[h].revision =>
            \E r \in flinkRows' : IsRow(r, h, flinkHands'[h])
      BY <2>1, <2>5, <3>1
    <3> QED
      BY <2>5, <3>2, <3>3, <3>4 DEF Stepped
  <2>7. RowsInv(flinkHands', flinkRows', known, deliveries)
    BY <2>2, <2>3, <2>4, <2>6, StepKeepsRows
  <2>8. ASSUME NEW h \in Hand \ apart'
        PROVE  /\ h \in D => /\ flinkHands'[h].emitted => ~flinkHands'[h].cleanup
                             /\ Tops(flinkRows', h, flinkHands'[h])
               /\ ~ (h \notin D /\ Rows(flinkRows', h) # {})
    <3>1. h \in Hand \ apart /\ ~ (watermark >= Core!Cleanup(h))
      BY <2>1 DEF AtHorizon
    <3>2. CASE h \in D
      <4>1. Tops(flinkRows', h, flinkHands'[h])
        BY <1>1, <2>4, <2>6, <3>1, <3>2, StepKeepsTops DEF FlinkOK
      <4>2. flinkHands[h].emitted => ~flinkHands[h].cleanup
        BY <1>1, <3>1, <3>2 DEF FlinkOK
      <4> QED
        BY <2>5, <3>2, <4>1, <4>2
    <3>3. CASE h \notin D
      BY <1>1, <2>6, <3>1, <3>3, StepKeepsOthers DEF FlinkOK
    <3> QED
      BY <3>2, <3>3
  <2>9. DOMAIN flinkHands' = D
    BY <2>1
  <2>10. \A h \in D :
           /\ flinkHands'[h].emitted => flinkHands'[h].due
           /\ flinkHands'[h].cleanup <=> watermark >= Core!Cleanup(h)
    BY <1>1, <2>5 DEF FlinkOK
  <2>11. FlinkOK(flinkHands', flinkRows', known, deliveries, watermark, apart')
    BY <2>5, <2>7, <2>8, <2>9, <2>10 DEF FlinkOK
  <2> QED
    BY <2>1, <2>11 DEF FlinkInv
<1> QED
  BY <1>2, <1>3

\* A hand that comes behind the watermark is answered at once.
LEMMA FlinkTakesHand ==
  ASSUME IInv, NEW h \in Hand, TakeHand(h)
  PROVE  FlinkInv'
<1> DEFINE D == DOMAIN flinkHands
<1>1. FlinkOK(flinkHands, flinkRows, coreContexts, deliveries, watermark, apart)
  BY DEF IInv, FlinkInv
<1>2. /\ deliveries' = [deliveries EXCEPT ![h] = @ + 1]
      /\ UNCHANGED <<watermark, coreContexts>>
      /\ apart' = apart \cup ({h} \cap AtHorizon)
      /\ Flink!ProcessElement1(h)
  BY DEF TakeHand, Core!ProcessHand
<1>3. /\ deliveries \in [Hand -> Nat] /\ watermark \in Int
      /\ \A g \in Hand : Core!Cleanup(g) \in Int
  BY JoinAssumption, Times DEF IInv, Clocks
<1>4. /\ RowsInv(flinkHands, flinkRows, coreContexts, deliveries)
      /\ Counts(h, deliveries, deliveries')
  BY <1>1, <1>2, <1>3 DEF FlinkOK, Counts
<1>5. CASE h \in D
  <2>1. flinkHands' = flinkHands /\ flinkRows' = flinkRows
    BY <1>2, <1>5 DEF Flink!ProcessElement1
  <2>2. RowsInv(flinkHands, flinkRows, coreContexts, deliveries')
    BY <1>3, <1>4, CountingKeepsRows
  <2>3. FlinkOK(flinkHands, flinkRows, coreContexts, deliveries', watermark, apart)
    BY <1>1, <2>2 DEF FlinkOK
  <2> QED
    BY <1>2, <2>1, <2>3, FlinkOKWeakens DEF FlinkInv
<1>6. CASE h \notin D
  <2>1. PICK st : st = Flink!NewState(h)
    OBVIOUS
  <2>2. PICK u : u = Flink!Emitted(h, st, ready)
    OBVIOUS
  <2>3. PICK taken : taken = [g \in D \cup {h} |-> IF g = h THEN st ELSE flinkHands[g]]
    OBVIOUS
  <2>4. /\ flinkHands' = [g \in D \cup {h} |-> IF g = h THEN u ELSE flinkHands[g]]
        /\ flinkRows' = IF u.emitted THEN flinkRows \cup {Flink!InitialRow(h, u)} ELSE flinkRows
    BY <1>2, <1>6, <2>1, <2>2 DEF Flink!ProcessElement1
  <2>5. /\ DOMAIN taken = D \cup {h} /\ taken[h] = st
        /\ \A g \in D : taken[g] = flinkHands[g]
        /\ DOMAIN flinkHands' = D \cup {h} /\ flinkHands'[h] = u
        /\ \A g \in D : flinkHands'[g] = flinkHands[g]
    BY <1>6, <2>3, <2>4
  <2>6. /\ st \in FlinkState(coreContexts) /\ st.life = deliveries[h] + 1 /\ st.revision = 0
        /\ st.selected = NoContext /\ st.emitted = FALSE
        /\ st.cleanup <=> watermark >= Core!Cleanup(h)
    <3>1. flinkContexts = coreContexts /\ ready \in BOOLEAN
      BY DEF IInv, ContextsInv, Clocks
    <3>2. PICK due \in BOOLEAN, cleanup \in BOOLEAN, fallback \in BOOLEAN :
            /\ cleanup <=> watermark >= Core!Cleanup(h)
            /\ st = [known |-> coreContexts, life |-> deliveries[h] + 1, revision |-> 0,
                     selected |-> NoContext, emitted |-> FALSE, due |-> due,
                     cleanup |-> cleanup, fallback |-> fallback]
      <4>1. st = [known |-> coreContexts, life |-> deliveries[h] + 1, revision |-> 0,
                  selected |-> NoContext, emitted |-> FALSE, due |-> watermark >= Flink!Due(h),
                  cleanup |-> watermark >= Core!Cleanup(h), fallback |-> ~ready]
        BY <2>1, <3>1, SameTimes DEF Flink!NewState
      <4>2. /\ (watermark >= Flink!Due(h)) \in BOOLEAN
            /\ (watermark >= Core!Cleanup(h)) \in BOOLEAN /\ (~ready) \in BOOLEAN
        OBVIOUS
      <4> QED
        BY <4>1, <4>2
    <3>3. deliveries[h] + 1 \in Nat
      BY <1>3
    <3> QED
      BY <3>2, <3>3 DEF FlinkState
  <2>7. RowsInv(taken, flinkRows, coreContexts, deliveries')
    BY <1>3, <1>4, <1>6, <2>5, <2>6, TakingKeepsRows
  <2>8. EmitsInitial(h, st, u, ready)
    <3>1. Fields(st, coreContexts)
      BY <2>5, <2>7 DEF RowsInv
    <3>2. EmitsInitial(h, st, Flink!Emitted(h, st, ready), ready)
      BY <2>6, <3>1, FlinkEmitted
    <3> QED
      BY <2>2, <3>2
  <2>9. /\ u \in FlinkState(coreContexts) /\ u.due = st.due /\ u.cleanup = st.cleanup
        /\ HandStep(h, st, u, coreContexts)
        /\ u.revision # st.revision <=> u.emitted
        /\ u.emitted => st.due /\ u.selected = Core!Select(h, coreContexts)
    <3>1. CASE u = st
      BY <2>6, <2>8, <3>1 DEF EmitsInitial
    <3>2. CASE /\ st.due /\ u.emitted = TRUE /\ u.revision # st.revision
               /\ u.selected = Core!Select(h, coreContexts)
      BY <2>8, <3>2 DEF EmitsInitial
    <3> QED
      BY <2>8, <3>1, <3>2 DEF EmitsInitial
  <2>10. Stepped(taken, flinkRows, coreContexts, flinkHands', flinkRows')
    <3>1. IsRow(Flink!InitialRow(h, u), h, u)
      BY DEF IsRow, Flink!InitialRow, Flink!Policy!Row
    <3>2. DOMAIN flinkHands' = DOMAIN taken /\ flinkRows \subseteq flinkRows'
      BY <2>4, <2>5
    <3>3. \A g \in DOMAIN taken : HandStep(g, taken[g], flinkHands'[g], coreContexts)
      <4>1. ASSUME NEW g \in D PROVE HandStep(g, taken[g], flinkHands'[g], coreContexts)
        BY <2>5, <4>1 DEF HandStep
      <4> QED
        BY <2>5, <2>9, <4>1
    <3>4. ASSUME NEW r \in flinkRows', r \notin flinkRows
          PROVE  \E g \in DOMAIN taken : /\ flinkHands'[g].revision # taken[g].revision
                                         /\ IsRow(r, g, flinkHands'[g])
      <4>1. u.emitted /\ r = Flink!InitialRow(h, u)
        BY <2>4, <3>4
      <4> QED
        BY <2>5, <2>9, <3>1, <4>1
    <3>5. ASSUME NEW g \in DOMAIN taken, flinkHands'[g].revision # taken[g].revision
          PROVE  \E r \in flinkRows' : IsRow(r, g, flinkHands'[g])
      <4>1. g = h /\ u.emitted
        BY <2>5, <2>9, <3>5
      <4>2. Flink!InitialRow(h, u) \in flinkRows'
        BY <2>4, <4>1
      <4> QED
        BY <2>5, <3>1, <4>1, <4>2
    <3> QED
      BY <3>2, <3>3, <3>4, <3>5 DEF Stepped
  <2>11. /\ coreContexts \subseteq Context
         /\ \A g \in Hand : Core!Select(g, coreContexts) \in coreContexts \cup {NoContext}
    BY Selected DEF IInv, ContextsInv, KnownOK
  <2>12. RowsInv(flinkHands', flinkRows', coreContexts, deliveries')
    BY <2>7, <2>10, <2>11, StepKeepsRows
  <2>13. \A g \in D \cup {h} :
           /\ flinkHands'[g] \in FlinkState(coreContexts)
           /\ flinkHands'[g].emitted => flinkHands'[g].due
           /\ flinkHands'[g].cleanup <=> watermark >= Core!Cleanup(g)
           /\ flinkHands'[g].emitted /\ ~flinkHands'[g].cleanup =>
                flinkHands'[g].selected = Core!Select(g, coreContexts)
    <3>1. \A g \in D :
            /\ flinkHands[g] \in FlinkState(coreContexts)
            /\ flinkHands[g].emitted => flinkHands[g].due
            /\ flinkHands[g].cleanup <=> watermark >= Core!Cleanup(g)
            /\ flinkHands[g].emitted /\ ~flinkHands[g].cleanup =>
                 flinkHands[g].selected = Core!Select(g, coreContexts)
      BY <1>1 DEF FlinkOK
    <3>2. /\ u \in FlinkState(coreContexts)
          /\ u.emitted => u.due
          /\ u.cleanup <=> watermark >= Core!Cleanup(h)
          /\ u.emitted => u.selected = Core!Select(h, coreContexts)
      BY <2>6, <2>9
    <3> QED
      BY <2>5, <3>1, <3>2
  <2>14. ASSUME NEW g \in Hand \ apart'
         PROVE  /\ g \in D \cup {h} => /\ flinkHands'[g].emitted => ~flinkHands'[g].cleanup
                                       /\ Tops(flinkRows', g, flinkHands'[g])
                /\ g \notin D \cup {h} /\ Rows(flinkRows', g) # {} =>
                     watermark >= Core!Cleanup(g) /\ Settled(flinkRows', g, coreContexts)
    <3>0. g \in Hand \ apart
      BY <1>2
    <3>1. CASE g = h
      <4>1. ~ (watermark >= Core!Cleanup(h))
        BY <1>2, <3>1 DEF AtHorizon
      <4>2. Rows(flinkRows, h) = {}
        BY <1>1, <1>6, <3>0, <3>1, <4>1 DEF FlinkOK
      <4>3. Tops(flinkRows, h, st)
        BY <2>6, <4>2 DEF Tops
      <4>4. Tops(flinkRows', h, flinkHands'[h])
        BY <2>5, <2>7, <2>10, <4>3, StepKeepsTops
      <4>5. ~u.cleanup
        BY <2>6, <2>9, <4>1
      <4> QED
        BY <2>5, <3>1, <4>4, <4>5
    <3>2. CASE g \in D
      <4>1. /\ flinkHands[g].emitted => ~flinkHands[g].cleanup
            /\ Tops(flinkRows, g, flinkHands[g])
        BY <1>1, <3>0, <3>2 DEF FlinkOK
      <4>2. Tops(flinkRows, g, taken[g]) /\ g \in DOMAIN taken
        BY <2>5, <3>2, <4>1
      <4>3. Tops(flinkRows', g, flinkHands'[g])
        BY <2>7, <2>10, <4>2, StepKeepsTops
      <4> QED
        BY <2>5, <3>2, <4>1, <4>3
    <3>3. CASE g # h /\ g \notin D
      <4>1. Rows(flinkRows', g) = Rows(flinkRows, g)
        BY <2>5, <2>10, <3>3, StepKeepsOthers
      <4>2. Rows(flinkRows, g) # {} =>
              watermark >= Core!Cleanup(g) /\ Settled(flinkRows, g, coreContexts)
        BY <1>1, <3>0, <3>3 DEF FlinkOK
      <4> QED
        BY <3>3, <4>1, <4>2, SettledStays
    <3> QED
      BY <3>1, <3>2, <3>3
  <2>15. FlinkOK(flinkHands', flinkRows', coreContexts, deliveries', watermark, apart')
    BY <2>5, <2>12, <2>13, <2>14 DEF FlinkOK
  <2> QED
    BY <1>2, <2>15 DEF FlinkInv
<1> QED
  BY <1>5, <1>6

-----------------------------------------------------------------------------
(* The theorems. *)

\* Nothing is known, held or said at the start.
LEMMA InitIInv == Init => IInv
<1> SUFFICES ASSUME Init PROVE IInv
  OBVIOUS
<1>1. /\ watermark = -1 /\ deliveries = [h \in Hand |-> 0] /\ ready \in BOOLEAN
      /\ coreContexts = {} /\ seen = {} /\ flinkContexts = {}
      /\ DOMAIN coreHands = {} /\ coreRows = {} /\ DOMAIN flinkHands = {} /\ flinkRows = {}
  BY DEF Init, Core!Init, Flink!Init
<1>2. Clocks
  BY <1>1, JoinAssumption DEF Clocks
<1>3. ContextsInv
  BY <1>1 DEF ContextsInv, KnownOK, HasBest, Candidates
<1>4. CoreInv
  BY <1>1 DEF CoreInv, CoreOK, RowsInv, Improves, Rows
<1>5. FlinkInv
  BY <1>1 DEF FlinkInv, FlinkOK, RowsInv, Improves, Rows
<1> QED
  BY <1>2, <1>3, <1>4, <1>5 DEF IInv

\* Every step keeps the watermark, the deliveries and the bootstrap flag in their types.
LEMMA ClocksKept ==
  ASSUME IInv, [Next]_vars
  PROVE  Clocks'
<1>1. Clocks /\ MaxDeliveries \in Nat
  BY JoinAssumption DEF IInv
<1>2. ASSUME NEW h \in Hand, TakeHand(h)
      PROVE  Clocks'
  <2>1. /\ deliveries[h] < MaxDeliveries /\ deliveries' = [deliveries EXCEPT ![h] = @ + 1]
        /\ UNCHANGED <<watermark, ready>>
    BY <1>2 DEF TakeHand, Core!ProcessHand, Flink!ProcessElement1
  <2>2. deliveries[h] + 1 \in 0..MaxDeliveries
    BY <1>1, <2>1 DEF Clocks
  <2> QED
    BY <1>1, <2>1, <2>2 DEF Clocks
<1>3. ASSUME NEW c \in Context, TakeContext(c)
      PROVE  Clocks'
  <2>1. UNCHANGED <<watermark, deliveries, ready>>
    BY <1>3, ConflictMeans, ContextMeans DEF flink
  <2> QED
    BY <1>1, <2>1 DEF Clocks
<1>4. ASSUME NEW w \in 0..MaxWatermark, TakeWatermark(w)
      PROVE  Clocks'
  <2>1. watermark' = w /\ UNCHANGED <<deliveries, ready>>
    BY <1>4 DEF TakeWatermark, Core!AdvanceWatermark, Flink!AdvanceWatermark
  <2> QED
    BY <1>1, <2>1 DEF Clocks
<1>5. CASE RepeatWatermark
  BY <1>1, <1>5 DEF RepeatWatermark, Core!AdvanceWatermark, flink, Clocks
<1>6. CASE Ready
  BY <1>1, <1>6 DEF Ready, Flink!BootstrapOver, Clocks
<1>7. ASSUME UNCHANGED vars
      PROVE  Clocks'
  BY <1>1, <1>7 DEF vars, flink, Clocks
<1> QED
  BY <1>2, <1>3, <1>4, <1>5, <1>6, <1>7, RepeatMeans DEF Next

\* Every step keeps the invariant.
LEMMA NextIInv ==
  ASSUME IInv, [Next]_vars
  PROVE  IInv'
<1>0. ASSUME UNCHANGED vars
      PROVE  CoreInv' /\ FlinkInv'
  <2>1. UNCHANGED <<watermark, deliveries, core, coreContexts, flink, apart>>
    BY <1>0 DEF vars, core
  <2> QED
    BY <2>1, CoreKept, FlinkKept
<1>1. ASSUME NEW h \in Hand, TakeHand(h)
      PROVE  CoreInv' /\ FlinkInv'
  BY <1>1, CoreTakesHand, FlinkTakesHand
<1>2. ASSUME NEW c \in Context, TakeContext(c)
      PROVE  CoreInv' /\ FlinkInv'
  BY <1>2, CoreTakesContext, FlinkTakesContext
<1>3. ASSUME NEW w \in 0..MaxWatermark, TakeWatermark(w)
      PROVE  CoreInv' /\ FlinkInv'
  <2>1. /\ Core!AdvanceWatermark(w) /\ Flink!AdvanceWatermark(w) /\ apart' = apart
        /\ coreContexts' = coreContexts
    BY <1>3 DEF TakeWatermark, Core!AdvanceWatermark
  <2> QED
    BY <2>1, CoreAdvances, FlinkAdvances
<1>4. ASSUME RepeatWatermark
      PROVE  CoreInv' /\ FlinkInv'
  <2>1. watermark \in 0..MaxWatermark
    BY <1>4 DEF RepeatWatermark, IInv, Clocks
  <2>2. /\ Core!AdvanceWatermark(watermark) /\ apart' = apart
        /\ UNCHANGED <<watermark, deliveries, coreContexts, flink, apart>>
    BY <1>4 DEF RepeatWatermark, Core!AdvanceWatermark
  <2>3. CoreInv'
    BY <2>1, <2>2, CoreAdvances
  <2>4. FlinkInv'
    BY <2>2, FlinkKept
  <2> QED
    BY <2>3, <2>4
<1>5. ASSUME Ready
      PROVE  CoreInv' /\ FlinkInv'
  <2>1. UNCHANGED <<watermark, deliveries, core, apart>>
    BY <1>5 DEF Ready, Flink!BootstrapOver
  <2>2. CoreInv'
    BY <2>1, CoreKept
  <2>3. FlinkInv'
    BY <1>5, FlinkReady
  <2> QED
    BY <2>2, <2>3
<1>6. ASSUME NEW c \in Context, RepeatContext(c)
      PROVE  CoreInv' /\ FlinkInv'
  <2>1. UNCHANGED vars
    BY <1>6, RepeatMeans
  <2> QED
    BY <1>0, <2>1
<1>7. CoreInv' /\ FlinkInv'
  BY <1>0, <1>1, <1>2, <1>3, <1>4, <1>5, <1>6 DEF Next
<1> QED
  BY <1>7, ContextsKept, ClocksKept DEF IInv

\* The invariant holds in every state.
LEMMA AlwaysIInv == Spec => []IInv
<1>1. IInv /\ [Next]_vars => IInv'
  BY NextIInv
<1> QED
  BY InitIInv, <1>1, PTL DEF Spec

\* The states and rows of both stay well-formed, and both know the same contexts although
\* the reference raises on a conflict and the operator dead-letters it (process_context,
\* processElement2).
THEOREM TypesKept == Spec => []TypeOK
<1>1. IInv => TypeOK
  <2> SUFFICES ASSUME IInv PROVE TypeOK
    OBVIOUS
  <2>1. \A h \in DOMAIN coreHands :
          /\ coreHands[h] \in CoreState(coreContexts) /\ Fields(coreHands[h], coreContexts)
          /\ 1 <= coreHands[h].life /\ coreHands[h].life <= deliveries[h]
    BY DEF IInv, CoreInv, CoreOK, RowsInv
  <2>2. \A h \in DOMAIN coreHands : coreHands[h].emitted <=> coreHands[h].revision > 0
    BY <2>1 DEF Fields
  <2>3. Core!TypeOK
    BY <2>1, <2>2 DEF IInv, Clocks, ContextsInv, KnownOK, CoreInv, CoreOK, RowsInv,
                      CoreState, Core!TypeOK
  <2>4. \A h \in DOMAIN flinkHands :
          flinkHands[h].emitted => flinkHands[h].due /\ flinkHands[h].revision > 0
    BY DEF IInv, FlinkInv, FlinkOK, RowsInv, Fields
  <2>5. flinkContexts = coreContexts
    BY DEF IInv, ContextsInv
  <2>6. DOMAIN flinkHands \subseteq Hand /\ \A h \in DOMAIN flinkHands :
          flinkHands[h] \in FlinkState(flinkContexts)
    BY <2>5 DEF IInv, FlinkInv, FlinkOK, RowsInv
  <2>7. \A r \in coreRows \cup flinkRows :
          /\ r.hand \in Hand
          /\ r.life <= deliveries[r.hand] /\ r.revision > 0
          /\ r.context \in coreContexts \cup {NoContext}
    BY DEF IInv, CoreInv, CoreOK, FlinkInv, FlinkOK, RowsInv
  <2>8. ready \in BOOLEAN
    BY DEF IInv, Clocks
  <2> QED
    BY <2>3, <2>4, <2>5, <2>6, <2>7, <2>8 DEF TypeOK, FlinkState
<1> QED
  BY AlwaysIInv, <1>1, PTL

\* As long as a row can be corrected, the last thing said of it is the best context
\* known, in the reference and in the operator, whatever the order of arrival
\* (process_context, processElement2).
THEOREM SelectionCurrentHolds == Spec => []SelectionCurrent
<1>1. IInv => SelectionCurrent
  BY DEF IInv, ContextsInv, CoreInv, CoreOK, FlinkInv, FlinkOK, SelectionCurrent,
         Core!SelectionCurrent
<1> QED
  BY AlwaysIInv, <1>1, PTL

\* A later revision of a row never goes back to an earlier context, nor to none, in the
\* reference and in the operator (process_context, processElement2).
THEOREM RevisionsImproveHolds == Spec => []RevisionsImprove
<1>1. IInv => RevisionsImprove
  <2> SUFFICES ASSUME IInv PROVE RevisionsImprove
    OBVIOUS
  <2>1. Improves(coreRows) /\ Improves(flinkRows)
    BY DEF IInv, CoreInv, CoreOK, FlinkInv, FlinkOK, RowsInv
  <2>2. Core!RevisionsImprove
    BY <2>1 DEF Improves, Improved, Core!RevisionsImprove
  <2>3. Flink!Policy!RevisionsImprove
    BY <2>1 DEF Improves, Improved, Flink!Policy!RevisionsImprove, Core!Before,
                Flink!Policy!Before
  <2> QED
    BY <2>2, <2>3 DEF RevisionsImprove
<1> QED
  BY AlwaysIInv, <1>1, PTL

\* The last row of a hand that is settled is its final one.
LEMMA SettledIsFinal ==
  ASSUME NEW rows, NEW h, NEW known, Settled(rows, h, known),
         \A r \in Rows(rows, h) : r.revision \in Nat
  PROVE  Final(rows, h) = Core!Select(h, known)
<1>1. PICK r \in Rows(rows, h) :
        /\ r.context = Core!Select(h, known)
        /\ \A q \in Rows(rows, h) :
             q.revision <= r.revision /\ (q.revision = r.revision => q.context = r.context)
  BY DEF Settled
<1> DEFINE Last(s) == s.hand = h /\ \A q \in rows : q.hand = h => q.revision <= s.revision
           final   == CHOOSE s \in rows : Last(s)
<1>2. r \in rows /\ Last(r)
  BY <1>1 DEF Rows
<1>3. final \in rows /\ Last(final)
  <2> HIDE DEF Last
  <2> QED
    BY <1>2
<1>4. final \in Rows(rows, h) /\ r.revision <= final.revision
  BY <1>1, <1>3 DEF Rows
<1>5. final.revision = r.revision
  BY <1>1, <1>4
<1>6. final.context = r.context
  BY <1>1, <1>4, <1>5
<1> QED
  BY <1>1, <1>6 DEF Final

\* The final rows of a hand past its horizon have the best context known.
FinalsBest ==
  \A h \in Hand \ apart :
    watermark > Core!Cleanup(h) /\ Rows(coreRows, h) # {} /\ Rows(flinkRows, h) # {} =>
      /\ Final(coreRows, h) = Core!Select(h, coreContexts)
      /\ Final(flinkRows, h) = Core!Select(h, coreContexts)

\* The final rows are the best, by the invariant.
LEMMA FinalsAreBest ==
  ASSUME IInv, NEW h \in Hand \ apart, watermark > Core!Cleanup(h),
         Rows(coreRows, h) # {}, Rows(flinkRows, h) # {}
  PROVE  /\ Final(coreRows, h) = Core!Select(h, coreContexts)
         /\ Final(flinkRows, h) = Core!Select(h, coreContexts)
<1>1. /\ RowsInv(coreHands, coreRows, coreContexts, deliveries)
      /\ RowsInv(flinkHands, flinkRows, coreContexts, deliveries)
  BY DEF IInv, CoreInv, CoreOK, FlinkInv, FlinkOK
<1>2. watermark \in Int /\ Core!Cleanup(h) \in Int
  BY Times DEF IInv, Clocks
<1>3. h \notin DOMAIN coreHands /\ Settled(coreRows, h, coreContexts)
  BY <1>2 DEF IInv, CoreInv, CoreOK
<1>4. h \notin DOMAIN flinkHands
  <2>1. CASE h \in DOMAIN flinkHands
    <3>1. /\ flinkHands[h].emitted => ~flinkHands[h].cleanup
          /\ Tops(flinkRows, h, flinkHands[h])
          /\ flinkHands[h].cleanup <=> watermark >= Core!Cleanup(h)
      BY <2>1 DEF IInv, FlinkInv, FlinkOK
    <3>2. ~flinkHands[h].emitted
      BY <1>2, <3>1
    <3> QED
      BY <1>1, <2>1, <3>1, <3>2, NothingSaid
  <2> QED
    BY <2>1
<1>5. Settled(flinkRows, h, coreContexts)
  BY <1>4 DEF IInv, FlinkInv, FlinkOK
<1>6. \A r \in Rows(coreRows, h) : r.revision \in Nat
  BY <1>1 DEF RowsInv, Rows
<1>7. \A r \in Rows(flinkRows, h) : r.revision \in Nat
  BY <1>1 DEF RowsInv, Rows
<1> QED
  BY <1>3, <1>5, <1>6, <1>7, SettledIsFinal

\* Past its horizon the final row of a hand has the best of all contexts known, in the
\* reference and in the operator, whatever the order in which contexts, hands and
\* watermarks came (select_context_as_of over the whole history).
THEOREM FinalsBestHolds == Spec => []FinalsBest
<1>1. IInv => FinalsBest
  BY FinalsAreBest DEF FinalsBest
<1> QED
  BY AlwaysIInv, <1>1, PTL

\* Past its horizon a hand has the same context in the reference and in the operator,
\* whatever the order of arrival, unless an input came at or behind the horizon
\* (TemporalContextJoinCore, "mirroring the Java Flink operator").
THEOREM FinalsAgreeHolds == Spec => []FinalsAgree
<1>1. IInv => FinalsAgree
  BY FinalsAreBest DEF FinalsAgree
<1> QED
  BY AlwaysIInv, <1>1, PTL
-----------------------------------------------------------------------------
(* No hand is forgotten: what is safe about EveryHandAnswered. *)

CoreAnswers ==
  /\ \A h \in Hand : deliveries[h] > 0 => h \in DOMAIN coreHands \/ Rows(coreRows, h) # {}
  /\ \A h \in DOMAIN coreHands : coreHands[h].emitted => Rows(coreRows, h) # {}

FlinkAnswers ==
  /\ \A h \in Hand : deliveries[h] > 0 => h \in DOMAIN flinkHands \/ Rows(flinkRows, h) # {}
  /\ \A h \in DOMAIN flinkHands :
       /\ flinkHands[h].emitted => Rows(flinkRows, h) # {}
       /\ watermark >= Core!Due(h) => flinkHands[h].due
       /\ ready /\ flinkHands[h].due => flinkHands[h].emitted

\* A delivered hand has a row, or is held for the next watermark; in the operator it
\* has one as soon as it is due and the bootstrap wait is over.
HandsAnswered ==
  \A h \in Hand : deliveries[h] > 0 =>
    /\ Rows(coreRows, h) # {} \/ (h \in DOMAIN coreHands /\ ~coreHands[h].emitted)
    /\ Rows(flinkRows, h) # {} \/ (h \in DOMAIN flinkHands /\ ~flinkHands[h].emitted)
    /\ ready /\ watermark >= Core!Due(h) => Rows(flinkRows, h) # {}

\* What was said stays said.
LEMMA RowsStay ==
  ASSUME NEW rows, NEW more, rows \subseteq more, NEW h, Rows(rows, h) # {}
  PROVE  Rows(more, h) # {}
BY DEF Rows

\* A hand that is delivered was delivered before, or is the one that is taken.
LEMMA DeliveredBefore ==
  ASSUME IInv, NEW h \in Hand, TakeHand(h), NEW g \in Hand, g # h, deliveries'[g] > 0
  PROVE  deliveries[g] > 0
BY DEF IInv, Clocks, TakeHand, Core!ProcessHand

\* A context forgets no hand, in the reference and in the operator.
LEMMA ContextAnswers ==
  ASSUME IInv, CoreAnswers, FlinkAnswers, NEW c \in Context, TakeContext(c)
  PROVE  CoreAnswers' /\ FlinkAnswers'
<1>1. CASE \E d \in coreContexts : d.version = c.version
  <2>1. UNCHANGED <<watermark, deliveries, coreHands, coreRows, flinkHands, flinkRows, ready>>
    BY <1>1, ConflictMeans DEF flink
  <2> QED
    BY <2>1 DEF CoreAnswers, FlinkAnswers
<1>2. CASE ~ \E d \in coreContexts : d.version = c.version
  <2> DEFINE known == coreContexts \cup {c}
  <2>1. /\ coreHands' = [h \in DOMAIN coreHands |-> Core!Corrected(h, coreHands[h], known)]
        /\ coreRows \subseteq coreRows'
        /\ flinkHands' = [h \in DOMAIN flinkHands |->
                            IF Flink!Correctable(flinkHands[h], h, c)
                            THEN [flinkHands[h] EXCEPT !.revision = @ + 1,
                                    !.selected = Core!Select(h, known)]
                            ELSE flinkHands[h]]
        /\ flinkRows \subseteq flinkRows'
        /\ watermark' = watermark /\ deliveries' = deliveries /\ ready' = ready
    BY <1>2, ContextMeans
  <2>2. ASSUME NEW h \in DOMAIN coreHands
        PROVE  coreHands'[h].emitted = coreHands[h].emitted
    <3>1. coreHands[h] \in CoreState(coreContexts)
      BY DEF IInv, CoreInv, CoreOK
    <3> QED
      BY <2>1, <3>1 DEF Core!Corrected, CoreState
  <2>3. ASSUME NEW h \in DOMAIN flinkHands
        PROVE  /\ flinkHands'[h].emitted = flinkHands[h].emitted
               /\ flinkHands'[h].due = flinkHands[h].due
    <3>1. flinkHands[h] \in FlinkState(coreContexts)
      BY DEF IInv, FlinkInv, FlinkOK
    <3> QED
      BY <2>1, <3>1 DEF FlinkState
  <2>4. DOMAIN coreHands' = DOMAIN coreHands /\ DOMAIN flinkHands' = DOMAIN flinkHands
    BY <2>1
  <2>5. CoreAnswers'
    BY <2>1, <2>2, <2>4, RowsStay DEF CoreAnswers
  <2>6. FlinkAnswers'
    BY <2>1, <2>3, <2>4, RowsStay DEF FlinkAnswers
  <2> QED
    BY <2>5, <2>6
<1> QED
  BY <1>1, <1>2

\* A hand that comes is held, or answered at once.
LEMMA HandAnswers ==
  ASSUME IInv, CoreAnswers, FlinkAnswers, NEW h \in Hand, TakeHand(h)
  PROVE  CoreAnswers' /\ FlinkAnswers'
<1>1. /\ coreHands' = Core!Held(h) /\ coreRows' = coreRows
      /\ Flink!ProcessElement1(h) /\ watermark' = watermark /\ ready' = ready
  BY DEF TakeHand, Core!ProcessHand, Flink!ProcessElement1
<1>2. CoreAnswers'
  <2>1. CASE h \in DOMAIN coreHands
    <3>1. coreHands' = coreHands
      BY <1>1, <2>1 DEF Core!Held
    <3> QED
      BY <1>1, <2>1, <3>1, DeliveredBefore DEF CoreAnswers
  <2>2. CASE h \notin DOMAIN coreHands
    <3>1. /\ DOMAIN coreHands' = DOMAIN coreHands \cup {h}
          /\ coreHands'[h].emitted = FALSE
          /\ \A g \in DOMAIN coreHands : coreHands'[g] = coreHands[g]
      BY <1>1, <2>2 DEF Core!Held, Core!NewState
    <3> QED
      BY <1>1, <3>1, DeliveredBefore DEF CoreAnswers
  <2> QED
    BY <2>1, <2>2
<1>3. FlinkAnswers'
  <2>1. CASE h \in DOMAIN flinkHands
    <3>1. flinkHands' = flinkHands /\ flinkRows' = flinkRows
      BY <1>1, <2>1 DEF Flink!ProcessElement1
    <3> QED
      BY <1>1, <2>1, <3>1, DeliveredBefore DEF FlinkAnswers
  <2>2. CASE h \notin DOMAIN flinkHands
    <3>1. PICK u : u = Flink!Emitted(h, Flink!NewState(h), ready)
      OBVIOUS
    <3>2. /\ flinkHands' = [g \in DOMAIN flinkHands \cup {h} |-> IF g = h THEN u ELSE flinkHands[g]]
          /\ flinkRows' = IF u.emitted THEN flinkRows \cup {Flink!InitialRow(h, u)} ELSE flinkRows
      BY <1>1, <2>2, <3>1 DEF Flink!ProcessElement1
    <3>3. /\ DOMAIN flinkHands' = DOMAIN flinkHands \cup {h} /\ flinkHands'[h] = u
          /\ \A g \in DOMAIN flinkHands : flinkHands'[g] = flinkHands[g]
          /\ flinkRows \subseteq flinkRows'
      BY <2>2, <3>2
    <3>4. u.emitted => Rows(flinkRows', h) # {}
      <4>1. Flink!InitialRow(h, u).hand = h
        BY DEF Flink!InitialRow, Flink!Policy!Row
      <4> QED
        BY <3>2, <4>1 DEF Rows
    <3>5. /\ watermark >= Core!Due(h) => u.due
          /\ ready /\ u.due => u.emitted
      <4>1. PICK st : st = Flink!NewState(h)
        OBVIOUS
      <4>2. st.due = (watermark >= Core!Due(h)) /\ st.emitted = FALSE
        BY <4>1, SameTimes DEF Flink!NewState
      <4>3. CASE st.due /\ ready
        <5>1. Flink!Emits(st, ready)
          BY <4>2, <4>3 DEF Flink!Emits
        <5>2. u = [st EXCEPT !.revision = 1, !.emitted = TRUE,
                             !.selected = Flink!Policy!Select(h, flinkContexts)]
          BY <3>1, <4>1, <5>1 DEF Flink!Emitted
        <5>3. u.emitted = TRUE /\ u.due = st.due
          BY <4>1, <5>2 DEF Flink!NewState
        <5> QED
          BY <4>3, <5>3
      <4>4. CASE ~ (st.due /\ ready)
        <5>1. u = st
          BY <3>1, <4>1, <4>4 DEF Flink!Emitted, Flink!Emits
        <5> QED
          BY <4>2, <4>4, <5>1
      <4> QED
        BY <4>3, <4>4
    <3> QED
      BY <1>1, <3>3, <3>4, <3>5, DeliveredBefore, RowsStay DEF FlinkAnswers
  <2> QED
    BY <2>1, <2>2
<1> QED
  BY <1>2, <1>3

\* A watermark says the rows of the hands that the reference releases.
LEMMA CoreAdvanceAnswers ==
  ASSUME IInv, CoreAnswers, NEW w, Core!AdvanceWatermark(w)
  PROVE  CoreAnswers'
<1> DEFINE D == DOMAIN coreHands
           after == [h \in D |-> Core!Emitted(h, coreHands[h], w)]
           kept  == {h \in D : ~ (after[h].emitted /\ w > Core!Cleanup(h))}
<1>1. /\ deliveries' = deliveries
      /\ coreRows' = coreRows \cup {Core!Row(h, after[h], Core!Status(after[h])) :
                                    h \in {g \in D : after[g] # coreHands[g]}}
      /\ coreHands' = [h \in kept |-> after[h]]
  BY DEF Core!AdvanceWatermark
<1>2. ASSUME NEW h \in D, after[h].emitted
      PROVE  Rows(coreRows', h) # {}
  <2>1. CASE after[h] = coreHands[h]
    <3>1. Rows(coreRows, h) # {} /\ coreRows \subseteq coreRows'
      BY <1>1, <1>2, <2>1 DEF CoreAnswers
    <3> QED
      BY <3>1, RowsStay
  <2>2. CASE after[h] # coreHands[h]
    <3>1. Core!Row(h, after[h], Core!Status(after[h])) \in coreRows'
      BY <1>1, <2>2
    <3>2. Core!Row(h, after[h], Core!Status(after[h])).hand = h
      BY DEF Core!Row
    <3> QED
      BY <3>1, <3>2 DEF Rows
  <2> QED
    BY <2>1, <2>2
<1>3. /\ DOMAIN coreHands' = kept /\ \A h \in kept : h \in D /\ coreHands'[h] = after[h]
      /\ \A h \in D : h \notin kept => after[h].emitted
      /\ coreRows \subseteq coreRows'
  BY <1>1
<1> HIDE DEF after, kept
<1> QED
  BY <1>1, <1>2, <1>3, RowsStay DEF CoreAnswers

\* Timers say the rows of the hands that the operator releases, and of every due one.
LEMMA FiresAnswer ==
  ASSUME IInv, FlinkAnswers, NEW marked, NEW w, Marked(marked, w),
         Flink!Fired(marked, ready'), watermark' = w, deliveries' = deliveries,
         w = watermark \/ w > watermark
  PROVE  FlinkAnswers'
<1> DEFINE D == DOMAIN flinkHands
           after == [h \in D |-> Flink!Emitted(h, marked[h], ready')]
           kept  == {h \in D : ~ (after[h].emitted /\ after[h].cleanup)}
<1>1. /\ flinkRows' = flinkRows \cup {Flink!InitialRow(h, after[h]) :
                                      h \in {g \in D : Flink!Emits(marked[g], ready')}}
      /\ flinkHands' = [h \in kept |-> after[h]]
  BY DEF Flink!Fired
<1>2. ASSUME NEW h \in D
      PROVE  EmitsInitial(h, marked[h], after[h], ready')
  <2>1. /\ h \in Hand /\ marked[h] \in FlinkState(coreContexts)
        /\ marked[h].life = flinkHands[h].life /\ marked[h].revision = flinkHands[h].revision
        /\ marked[h].selected = flinkHands[h].selected
        /\ marked[h].emitted = flinkHands[h].emitted
        /\ Fields(flinkHands[h], coreContexts)
    BY DEF Marked, IInv, FlinkInv, FlinkOK, RowsInv
  <2>2. Fields(marked[h], coreContexts)
    BY <2>1 DEF Fields
  <2>3. EmitsInitial(h, marked[h], Flink!Emitted(h, marked[h], ready'), ready')
    BY <2>1, <2>2, FlinkEmitted
  <2> QED
    BY <2>3
<1>3. /\ DOMAIN flinkHands' = kept /\ \A h \in kept : h \in D /\ flinkHands'[h] = after[h]
      /\ \A h \in D : h \notin kept => after[h].emitted
      /\ flinkRows \subseteq flinkRows'
  BY <1>1
<1>4. ASSUME NEW h \in D, Flink!Emits(marked[h], ready')
      PROVE  Rows(flinkRows', h) # {}
  <2>1. Flink!InitialRow(h, after[h]) \in flinkRows'
    BY <1>1, <1>4
  <2>2. Flink!InitialRow(h, after[h]).hand = h
    BY DEF Flink!InitialRow, Flink!Policy!Row
  <2> QED
    BY <2>1, <2>2 DEF Rows
<1> HIDE DEF after, kept
<1>5. ASSUME NEW h \in D
      PROVE  /\ after[h].emitted => Rows(flinkRows', h) # {}
             /\ w >= Core!Due(h) => after[h].due
             /\ ready' /\ after[h].due => after[h].emitted
  <2>1. /\ marked[h].emitted = flinkHands[h].emitted
        /\ flinkHands[h].due => marked[h].due
        /\ w > watermark /\ w >= Core!Due(h) => marked[h].due
    BY DEF Marked
  <2>2. /\ flinkHands[h].emitted => Rows(flinkRows, h) # {}
        /\ watermark >= Core!Due(h) => flinkHands[h].due
    BY DEF FlinkAnswers
  <2>3. w >= Core!Due(h) => marked[h].due
    BY <2>1, <2>2
  <2>4. after[h].due = marked[h].due
    BY <1>2 DEF EmitsInitial
  <2>5. CASE Flink!Emits(marked[h], ready')
    <3>1. after[h].emitted = TRUE
      BY <1>2, <2>5 DEF EmitsInitial
    <3> QED
      BY <1>4, <2>3, <2>4, <2>5, <3>1
  <2>6. CASE ~Flink!Emits(marked[h], ready')
    <3>1. after[h] = marked[h]
      BY <1>2, <2>6 DEF EmitsInitial
    <3>2. ready' /\ marked[h].due => marked[h].emitted
      BY <2>6 DEF Flink!Emits
    <3>3. after[h].emitted => Rows(flinkRows', h) # {}
      BY <1>3, <2>1, <2>2, <3>1, RowsStay
    <3> QED
      BY <2>3, <3>1, <3>2, <3>3
  <2> QED
    BY <2>5, <2>6
<1>6. ASSUME NEW h \in Hand, deliveries[h] > 0
      PROVE  h \in kept \/ Rows(flinkRows', h) # {}
  BY <1>3, <1>5, <1>6, RowsStay DEF FlinkAnswers
<1> QED
  BY <1>3, <1>5, <1>6 DEF FlinkAnswers

\* Every step keeps the delivered hands answered, or held.
LEMMA NextAnswers ==
  ASSUME IInv, CoreAnswers, FlinkAnswers, [Next]_vars
  PROVE  CoreAnswers' /\ FlinkAnswers'
<1>1. ASSUME deliveries' = deliveries, core' = core
      PROVE  CoreAnswers'
  BY <1>1 DEF core, CoreAnswers
<1>2. ASSUME watermark' = watermark, deliveries' = deliveries, flink' = flink
      PROVE  FlinkAnswers'
  BY <1>2 DEF flink, FlinkAnswers
<1>3. ASSUME NEW w \in 0..MaxWatermark, TakeWatermark(w)
      PROVE  CoreAnswers' /\ FlinkAnswers'
  <2>1. Core!AdvanceWatermark(w) /\ Flink!AdvanceWatermark(w)
    BY <1>3 DEF TakeWatermark
  <2>2. PICK marked : Marked(marked, w) /\ Flink!Fired(marked, ready)
    BY <2>1, WatermarkFires
  <2>3. w > watermark /\ watermark' = w /\ deliveries' = deliveries /\ ready' = ready
    BY <2>1 DEF Flink!AdvanceWatermark
  <2>4. Flink!Fired(marked, ready')
    BY <2>2, <2>3
  <2>5. FlinkAnswers'
    BY <2>2, <2>3, <2>4, FiresAnswer
  <2>6. CoreAnswers'
    BY <2>1, CoreAdvanceAnswers
  <2> QED
    BY <2>5, <2>6
<1>4. ASSUME RepeatWatermark
      PROVE  CoreAnswers' /\ FlinkAnswers'
  <2>1. Core!AdvanceWatermark(watermark) /\ deliveries' = deliveries /\ flink' = flink
    BY <1>4 DEF RepeatWatermark
  <2>2. watermark' = watermark
    BY <2>1 DEF Core!AdvanceWatermark
  <2>3. CoreAnswers'
    BY <2>1, CoreAdvanceAnswers
  <2>4. FlinkAnswers'
    BY <1>2, <2>1, <2>2
  <2> QED
    BY <2>3, <2>4
<1>5. ASSUME Ready
      PROVE  CoreAnswers' /\ FlinkAnswers'
  <2>1. PICK marked : Marked(marked, watermark) /\ Flink!Fired(marked, TRUE)
    BY <1>5, BootstrapFires
  <2>2. ready' = TRUE /\ watermark' = watermark /\ deliveries' = deliveries /\ core' = core
    BY <1>5 DEF Ready, Flink!BootstrapOver
  <2>3. Flink!Fired(marked, ready')
    BY <2>1, <2>2
  <2>4. FlinkAnswers'
    BY <2>1, <2>2, <2>3, FiresAnswer
  <2>5. CoreAnswers'
    BY <1>1, <2>2
  <2> QED
    BY <2>4, <2>5
<1>6. ASSUME UNCHANGED vars
      PROVE  CoreAnswers' /\ FlinkAnswers'
  BY <1>1, <1>2, <1>6 DEF vars
<1>7. ASSUME NEW c \in Context, RepeatContext(c)
      PROVE  CoreAnswers' /\ FlinkAnswers'
  <2>1. UNCHANGED vars
    BY <1>7, RepeatMeans
  <2> QED
    BY <1>6, <2>1
<1> QED
  BY <1>3, <1>4, <1>5, <1>6, <1>7, HandAnswers, ContextAnswers DEF Next

\* Whatever the order of arrival, neither forgets a hand: a delivered hand has a row or
\* is held for the next watermark, and in the operator it has one as soon as the
\* watermark is past its due time and the bootstrap wait is over (processElement1, onTimer).
THEOREM HandsAnsweredHolds == Spec => []HandsAnswered
<1> DEFINE J == IInv /\ CoreAnswers /\ FlinkAnswers
<1>1. Init => CoreAnswers /\ FlinkAnswers
  BY DEF Init, Core!Init, Flink!Init, CoreAnswers, FlinkAnswers
<1>2. J /\ [Next]_vars => J'
  BY NextIInv, NextAnswers
<1>3. J => HandsAnswered
  <2> SUFFICES ASSUME J, NEW h \in Hand, deliveries[h] > 0
               PROVE  /\ Rows(coreRows, h) # {} \/ (h \in DOMAIN coreHands /\ ~coreHands[h].emitted)
                      /\ Rows(flinkRows, h) # {} \/ (h \in DOMAIN flinkHands /\ ~flinkHands[h].emitted)
                      /\ ready /\ watermark >= Core!Due(h) => Rows(flinkRows, h) # {}
    BY DEF HandsAnswered
  <2> QED
    BY DEF CoreAnswers, FlinkAnswers
<1>4. Init => J
  BY <1>1, InitIInv
<1> HIDE DEF J
<1> QED
  BY <1>2, <1>3, <1>4, PTL DEF Spec
=============================================================================
