------------------------------ MODULE MCFanout ------------------------------
(* Two sinks and three calls: one goes to both sinks, one to the first of    *)
(* them, and one comes from a source that no sink reads.                     *)
EXTENDS Fanout

CONSTANTS s1, s2, both, one, none

DestinationsOf ==
    [c \in Calls |-> IF c = both THEN {s1, s2} ELSE IF c = one THEN {s1} ELSE {}]
=============================================================================
