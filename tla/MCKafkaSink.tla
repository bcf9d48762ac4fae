---------------------------- MODULE MCKafkaSink ----------------------------
(* Overlapping writes of one and of three records over a queue they can      *)
(* fill, and a write without records.                                        *)
EXTENDS KafkaSink

CONSTANTS one, three, empty

RecordsOf(w) == CASE w = one -> 1 [] w = three -> 3 [] w = empty -> 0
=============================================================================
