----------------------------- MODULE MCJoinMirror -----------------------------
EXTENDS JoinMirror

\* A context in force before the hand, a correction of it, one that is in force only
\* after the hand, and a second event of the correction's version.
MCContext == {[id |-> 1, version |-> 1, effective |-> 0], [id |-> 2, version |-> 2, effective |-> 1],
              [id |-> 3, version |-> 3, effective |-> 2], [id |-> 4, version |-> 2, effective |-> 0]}
MCHand == {[id |-> 1, played |-> 1]}
=============================================================================
