------------------------------- MODULE Router -------------------------------
(***************************************************************************)
(* The router end to end: a Kafka source (KafkaSource), the calls of its   *)
(* fan-out tasks with the queues of the sinks (Fanout), and what the       *)
(* destinations have stored.  A batch the source dispatches is a call of   *)
(* Fanout::send, numbered as the batch, and what FanoutOk and FanoutErr    *)
(* say to the source is the answer of that call.                           *)
(*                                                                         *)
(* A source that leaves its loop aborts its tasks, but a task runs on      *)
(* until the runtime drops it, and the sinks go on with what they hold;    *)
(* only a crash or the end of the process takes everything away but the    *)
(* destinations and the group's offsets.  Of module SinkRuntime this uses  *)
(* what it shows: at most max_concurrent_writes envelopes are being        *)
(* written, in the order of the queue, an attempt stores any part of a     *)
(* batch, and a branch is told delivered once all of it is stored.  The    *)
(* group a sink coalesces counts as queued, and writes hold one envelope.  *)
(* Other members of the group, and partitions that come back to a process, *)
(* are left to KafkaSource: here a process is assigned partitions once.    *)
(***************************************************************************)
EXTENDS KafkaSource

CONSTANTS
    Sinks,                 \* the sinks that read the source
    Capacity,              \* buffer_capacity
    MaxConcurrentWrites,   \* max_concurrent_writes
    MaxBatches             \* bound: batches of a process, one fewer after a restart

\* A configuration names finitely many sinks; Config::validate and the max(1) of
\* runtime_settings reject the zeros.
ASSUME RouterAssumption ==
    /\ IsFiniteSet(Sinks)
    /\ {Capacity, MaxConcurrentWrites} \subseteq Nat \ {0}
    /\ MaxBatches \in Nat

VARIABLES
    batch,       \* batch[c]: the Arc<EventBatch> the envelopes of call c share
    call, envelope, flagged, remaining, delivered, note, queue, open, written,
    stored       \* stored[s]: the events in the destination of the sink

Calls == 0..(MaxBatches - 1)

F == INSTANCE Fanout WITH Destinations <- [c \in Calls |-> Sinks],
                          completed <- flagged

fanoutVars == <<call, envelope, flagged, remaining, delivered, note, queue,
                open, written>>
routerVars == <<vars, batch, fanoutVars, stored>>

RouterInit ==
    /\ Init /\ F!Init
    /\ batch = [c \in Calls |-> <<>>]
    /\ stored = [s \in Sinks |-> {}]

----------------------------------------------------------------------------
(* The source *)

\* The batches a step dispatches, and the task each of them is moved into.
Spawned == {b \in in_flight' : b.sequence = sequence /\ sequence' = sequence + 1}
KeepsBatches ==
    batch' = [c \in Calls |-> IF \E b \in Spawned : b.sequence = c
                              THEN (CHOOSE b \in Spawned : TRUE).events
                              ELSE batch[c]]

\* A step of the select loop or of librdkafka that no fan-out task takes part
\* in; on the way out of the loop the tasks are left behind.
SourceStep ==
    /\ \/ sequence < MaxBatches - restarts /\ (Deadline \/ \E tp \in TP : Recv(tp))
       \/ JoinNext \/ CommitNext \/ CommitDone
       \/ Shutdown \/ JoinFails \/ RecvFails \/ CommitFails
       \/ BrokerCommits \/ CommitLost \/ Revoke
       \/ generation <= restarts /\ \E S \in SUBSET TP : Assign(S)
    /\ KeepsBatches
    /\ UNCHANGED <<fanoutVars, stored>>

----------------------------------------------------------------------------
(* Fan-out tasks *)

Task(c) == {b \in in_flight : b.sequence = c /\ b.result = "sending"}

\* The source hears of the call when it ends, and of no other.
Hears(c) ==
    /\ \/ call'[c] = "ok" /\ FanoutOk
       \/ call'[c] \in {"rejected", "stopped"} /\ FanoutErr
       \/ call'[c] \in {"sending", "waiting"} /\ UNCHANGED vars
    /\ in_flight \ in_flight' \subseteq Task(c)

CallMoves(c) == F!Send(c) \/ F!Sent(c) \/ F!Answer(c)
                  \/ \E s \in Sinks : F!Enqueue(c, s) \/ F!SendFails(c, s)

TaskStep(c) ==
    /\ Task(c) # {}
    /\ CallMoves(c)
    /\ Hears(c)
    /\ UNCHANGED <<batch, stored>>

\* The source has returned: its tasks are aborted, each after a last step or not.
OrphanStep(c) ==
    /\ status # "running" /\ batch[c] # <<>>
    /\ CallMoves(c) \/ F!Abort(c)
    /\ UNCHANGED <<vars, batch, stored>>

----------------------------------------------------------------------------
(* Sinks *)

Writing(s) == {c \in Calls : envelope[c][s] = "held"}

Store(s, S) == stored' = [stored EXCEPT ![s] = @ \union S]

\* A write is spawned when a slot is free.
SinkReceives(s) ==
    /\ Cardinality(Writing(s)) < MaxConcurrentWrites
    /\ F!Receive(s)
    /\ UNCHANGED <<vars, batch, stored>>

\* An attempt that fails, or is cut short, has stored any part of the batch.
AttemptFails(s) ==
    /\ \E c \in Writing(s) : \E S \in SUBSET Range(batch[c]) :
         S # {} /\ Store(s, S)
    /\ UNCHANGED <<vars, batch, fanoutVars>>

WriteDelivers(s) ==
    /\ \E c \in Writing(s) : F!Settle(c, s, TRUE) /\ Store(s, Range(batch[c]))
    /\ UNCHANGED <<vars, batch>>

\* Retries are exhausted, the envelope's method returns, the sink ends, or it
\* drops what it holds.
SinkGivesUp(s) ==
    /\ \/ \E c \in Calls : F!Settle(c, s, FALSE) \/ F!DropSettled(c, s) \/ F!Abandon(c, s)
       \/ F!Close(s)
       \/ F!Drain(s)
    /\ UNCHANGED <<vars, batch, stored>>

----------------------------------------------------------------------------
(* The process *)

\* A new process starts with empty queues and without tasks.
MemoryLost ==
    /\ batch' = [c \in Calls |-> <<>>]
    /\ call' = [c \in Calls |-> "idle"]
    /\ envelope' = [c \in Calls |-> [s \in Sinks |-> "none"]]
    /\ flagged' = [c \in Calls |-> {}]
    /\ remaining' = [c \in Calls |-> 0]
    /\ delivered' = [c \in Calls |-> TRUE]
    /\ note' = [c \in Calls |-> "none"]
    /\ queue' = [s \in Sinks |-> <<>>]
    /\ open' = [s \in Sinks |-> TRUE]
    /\ written' = {}

ProcessStep == (Crash \/ Restart) /\ MemoryLost /\ UNCHANGED stored

RouterNext ==
    \/ SourceStep
    \/ \E c \in Calls : TaskStep(c) \/ OrphanStep(c)
    \/ \E s \in Sinks : SinkReceives(s) \/ AttemptFails(s) \/ WriteDelivers(s) \/ SinkGivesUp(s)
    \/ ProcessStep

RouterSpec == RouterInit /\ [][RouterNext]_routerVars

----------------------------------------------------------------------------
(* Properties *)

StoredEverywhere == {e \in Events : \A s \in Sinks : e \in stored[s]}

E2E == INSTANCE AtLeastOnce WITH delivered <- StoredEverywhere

\* No event is lost between the log and the destinations (commit_contiguous,
\* Fanout::send, the write task): wherever the group's offset stands, or a
\* commit under way would put it, every destination has stored every event
\* below, whatever failed, was aborted, closed, restarted or crashed between.
CommittedIsStored ==
    /\ \A tp \in TP : Covered(tp, committed[tp], StoredEverywhere)
    /\ \A c \in commits : \A tp \in DOMAIN c : Covered(tp, c[tp], StoredEverywhere)

\* The router implements AtLeastOnce with "delivered" read at the destinations.
ImplementsEndToEnd == E2E!ALOSpec

\* "max_concurrent_writes = 1 # > 1 is faster, but batches may arrive out of
\* order": with one write at a time a sink gets the batches of a source in the
\* order the source dispatched them.
BatchesInOrder ==
    \A s \in Sinks : \A c \in Calls : \A d \in Calls :
      c < d /\ <<d, s>> \in written => <<c, s>> \in written
=============================================================================
