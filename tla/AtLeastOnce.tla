---------------------------- MODULE AtLeastOnce ----------------------------
(***************************************************************************)
(* What the router promises to the owner of a Kafka topic, and nothing     *)
(* about how.  Events are delivered to the sinks in any order and any      *)
(* number of times; the consumer group's committed offset, the point from  *)
(* which a restarted router resumes, only ever moves to a place below      *)
(* which every event of the log has been delivered.                        *)
(***************************************************************************)
EXTENDS KafkaLog

VARIABLES
    delivered,   \* events that reached every sink of the source at least once
    committed    \* committed[tp]: where a restarted consumer resumes

ALOInit ==
    /\ delivered = {}
    /\ committed = [tp \in TP |-> 0]

\* Some events reach all their sinks, possibly not for the first time.
Deliver ==
    /\ \E S \in SUBSET Events : delivered' = delivered \union S
    /\ UNCHANGED committed

\* The group's offsets move, forwards or backwards, to covered places only.
Commit ==
    /\ committed' \in [TP -> Nat]
    /\ \A tp \in TP : \/ committed'[tp] = committed[tp]
                      \/ Covered(tp, committed'[tp], delivered)
    /\ UNCHANGED delivered

ALONext == Deliver \/ Commit

ALOSpec == ALOInit /\ [][ALONext]_<<delivered, committed>>

============================================================================
