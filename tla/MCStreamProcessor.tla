-------------------------- MODULE MCStreamProcessor --------------------------
EXTENDS StreamProcessor, TLC

CONSTANTS a, b, c, p1, p2, h1, h2

\* Two pairs on two partitions, and a third pair identity beside the second.
MCPartitionOf == [q \in Pair |-> IF q = a THEN p1 ELSE p2]

\* The players of a hand make the pairs a and b; c is foreign to it.
MCWhole == {{a, b}}

\* Hands are compared for equality only.
HandSymmetry == Permutations(Hand)
=============================================================================
