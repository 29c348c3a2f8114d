---------------------------- MODULE MCCanonicalSink ----------------------------
EXTENDS CanonicalSink

\* A context, a later version that is in force before it, and two contents of a hand event.
MCEvent == {[id |-> 1, hand |-> 0, version |-> 1, effective |-> 2],
            [id |-> 2, hand |-> 0, version |-> 2, effective |-> 1],
            [id |-> 3, hand |-> 1, version |-> 0, effective |-> 0],
            [id |-> 3, hand |-> 1, version |-> 0, effective |-> 1]}
=============================================================================
