------------------------------ MODULE MCRouter ------------------------------
(* A small router: one partition with two messages and a gap, two sinks.    *)
EXTENDS Router, TLC

CONSTANTS p, s1, s2

OnePartition == {p}
GappedLog == [tp \in {p} |-> {0, 2}]
SinkSymmetry == Permutations(Sinks)
=============================================================================
