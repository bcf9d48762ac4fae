------------------------------ MODULE KafkaLog ------------------------------
(***************************************************************************)
(* The topic partitions a source reads and the events they hold.  An event *)
(* is known by the place it was read from (event.rs, SourceMetadata); its  *)
(* key, payload and timestamp are carried and never looked at.             *)
(***************************************************************************)
EXTENDS Naturals

CONSTANTS
    TP,    \* topic partitions
    Log    \* Log[tp]: the offsets that hold an event (gaps are legal in Kafka)

ASSUME LogAssumption == Log \in [TP -> SUBSET Nat]

EventAt(tp, o) == [tp |-> tp, offset |-> o]

Events == UNION {{EventAt(tp, o) : o \in Log[tp]} : tp \in TP}

\* Every event of the partition below offset o is in S.
Covered(tp, o, S) == \A x \in Log[tp] : x < o => EventAt(tp, x) \in S
=============================================================================
