--------------------------- MODULE MCKafkaSource ---------------------------
(* A small instance of KafkaSource. *)
EXTENDS KafkaSource

CONSTANT p

\* One partition with a gap, as left by compaction or a transaction marker.
OnePartition == {p}
GappedLog == [tp \in {p} |-> {0, 1, 3}]

\* event.rs: the bytes of a batch are the sum over its events, of unequal size.
EventBytes(e) == IF e.offset = 0 THEN 2 ELSE 1
SumBytes(s) == FoldFunction(LAMBDA e, acc : EventBytes(e) + acc, 0, s)
============================================================================
