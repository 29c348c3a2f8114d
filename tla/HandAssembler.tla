---------------------------- MODULE HandAssembler ----------------------------
(***************************************************************************)
(* services/go/internal/risk/assembler.go: what the risk scorer collects   *)
(* of one hand.  AddDetailed stores a pair snapshot in the hand's bucket   *)
(* and says whether the hand can be (re-)scored.  A missing bucket and an  *)
(* empty one behave alike, so NoBucket stands for both.                    *)
(***************************************************************************)
EXTENDS Integers, FiniteSets

CONSTANTS
  Pair,      \* the pair identities that occur in a hand's records
  Expected,  \* the number of pairs of a complete hand (15 in the code)
  TTL        \* after how many ticks without an update a bucket expires

ASSUME AssemblerAssumption ==
  /\ IsFiniteSet(Pair)
  /\ Expected \in Nat \ {0}
  /\ TTL \in Nat \ {0}

\* A pair snapshot is known by its revision and its event ID (the signature of
\* assembler.go); revision 0 says there is none.
NoSnapshot == [rev |-> 0, id |-> 0]

NoBucket ==
  [pairs |-> [q \in Pair |-> NoSnapshot], emitted |-> [q \in Pair |-> NoSnapshot], age |-> 0]

Snapshot(e) == [rev |-> e.rev, id |-> e.id]

Held(b) == {q \in Pair : b.pairs[q] # NoSnapshot}

Purge(b) == IF b.age > TTL THEN NoBucket ELSE b

Store(b, e) == [b EXCEPT !.pairs[e.pair] = Snapshot(e), !.age = 0]

\* Mutant: an older revision replaces a newer one.
StaleUnchecked(b, e) == FALSE

Stale(b, e) == e.rev < b.pairs[e.pair].rev

Repeats(b, e) == e.rev = b.pairs[e.pair].rev

\* Mutant: the size limit is off by one.
AssemblyStatusStrict(b, e) ==
  LET size == Cardinality(Held(Store(b, e))) IN
  CASE Stale(b, e)                                      -> "stale"
    [] Repeats(b, e) /\ Snapshot(e) = b.pairs[e.pair]   -> "duplicate"
    [] Repeats(b, e) /\ Snapshot(e) # b.pairs[e.pair]   -> "rejected"
    [] ~ Stale(b, e) /\ ~ Repeats(b, e) ->
         IF size < Expected THEN "incomplete" ELSE "rejected"

\* What AddDetailed answers for event e and the bucket b of its hand, purged.
\* "rejected" stands for its two errors: two event IDs for one revision, and a
\* pair identity too many.
AssemblyStatus(b, e) ==
  LET now  == Store(b, e)
      size == Cardinality(Held(now))
  IN  CASE Stale(b, e)                                    -> "stale"
        [] Repeats(b, e) /\ Snapshot(e) = b.pairs[e.pair] -> "duplicate"
        [] Repeats(b, e) /\ Snapshot(e) # b.pairs[e.pair] -> "rejected"
        [] ~ Stale(b, e) /\ ~ Repeats(b, e) ->
             IF size > Expected THEN "rejected"
             ELSE IF size < Expected THEN "incomplete"
             ELSE IF now.pairs = now.emitted THEN "duplicate" ELSE "complete"

\* The bucket AddDetailed leaves: touched in every case, with the snapshot in
\* it unless it is stale or repeats one, and all of it emitted once complete.
Added(b, e) ==
  IF Stale(b, e) \/ Repeats(b, e) THEN [b EXCEPT !.age = 0]
  ELSE IF AssemblyStatus(b, e) = "complete"
       THEN [Store(b, e) EXCEPT !.emitted = Store(b, e).pairs]
       ELSE Store(b, e)
=============================================================================
