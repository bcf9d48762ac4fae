---------------------------- MODULE KafkaSource ----------------------------
(***************************************************************************)
(* The Kafka source (source/kafka.rs): the select loop of KafkaSource::run *)
(* with its batch under assembly, its in-flight window and its contiguous  *)
(* commit, together with the parts of the world it talks to: the consumer  *)
(* group, asynchronous commit requests, other members of the group, and a  *)
(* process that is stopped, fails or crashes and is started again.         *)
(*                                                                         *)
(* Each arm of the select is an action; the loop of commit_contiguous is   *)
(* one action per iteration, guarded by pc, because the broker sees each   *)
(* commit as it is issued and the loop may end halfway.  Fanout::send is   *)
(* seen here as a task that eventually says Ok or Err (module Fanout opens *)
(* it).  The linger timer is a step that may happen at any moment once it  *)
(* is armed, and the select's bias is left out: a fan-out task can finish  *)
(* right after its arm was polled, so every order of the arms is possible. *)
(* usize is wide enough for saturating_add never to saturate; the bytes_in *)
(* statistic moves with events_in and is not represented.                  *)
(***************************************************************************)
EXTENDS KafkaLog, Sequences, FiniteSets, FiniteSetsExt, Functions

CONSTANTS
    BatchSize,            \* batch_size
    MaxInFlightBatches,   \* max_in_flight_batches
    MaxInFlightBytes,     \* max_in_flight_bytes
    Bytes(_),             \* EventBatch::bytes of a sequence of events
    MaxBatchBytes,        \* a bound on Bytes over batches of BatchSize events
    MaxGenerations,       \* bound: partition assignments over the whole run
    MaxRestarts           \* bound: restarts over the whole run

\* What a batch can hold: at most BatchSize events.
Batches == UNION {[1..n -> Events] : n \in 0..BatchSize}

\* Config::validate rejects a zero batch size or window.
ASSUME SourceAssumption ==
    /\ BatchSize \in Nat \ {0}
    /\ MaxInFlightBatches \in Nat \ {0}
    /\ MaxInFlightBytes \in Nat \ {0}
    /\ MaxBatchBytes \in Nat
    /\ MaxGenerations \in Nat
    /\ MaxRestarts \in Nat

ASSUME BytesAssumption ==
    /\ \A s \in Batches : Bytes(s) \in 0..MaxBatchBytes
    /\ Bytes(<<>>) = 0

VARIABLES
    \* the task running KafkaSource::run, and its local variables
    status,                 \* "running", "stopped" (returned Ok), "failed"
    pc,                     \* "select", or "commit" inside commit_contiguous
    pending,                \* the batch being assembled
    in_flight,              \* JoinSet of fan-out tasks: sequence, events, result
    sequence,               \* number of the next batch
    next_commit_sequence,   \* the batch whose commit is due
    in_flight_bytes,
    completed,              \* fanned-out batches waiting for an earlier one
    committed_events,       \* local of commit_contiguous
    counters,               \* SourceMetrics
    \* librdkafka and the broker
    assigned,               \* partitions this member owns
    position,               \* position[tp]: next offset recv would return
    commits,                \* commit requests under way
    committed,              \* committed[tp]: the group's offset
    generation,             \* assignments so far
    restarts,
    \* history
    acked,                  \* events some member fanned out to every sink
    received                \* messages this process has received

loopVars == <<status, pc, pending, in_flight, sequence, next_commit_sequence,
              in_flight_bytes, completed, committed_events>>
brokerVars == <<assigned, position, commits, committed, generation>>
vars == <<loopVars, counters, brokerVars, restarts, acked, received>>

ALO == INSTANCE AtLeastOnce WITH delivered <- acked

ZeroCounters == [batches_in |-> 0, events_in |-> 0, commits |-> 0,
                 rebalances |-> 0, in_flight_batches |-> 0,
                 in_flight_bytes |-> 0]

Init ==
    /\ status = "running" /\ pc = "select"
    /\ pending = <<>> /\ in_flight = {} /\ completed = {}
    /\ sequence = 0 /\ next_commit_sequence = 0
    /\ in_flight_bytes = 0 /\ committed_events = 0
    /\ counters = ZeroCounters
    /\ assigned = {} /\ position = [tp \in TP |-> 0]
    /\ commits = {} /\ committed = [tp \in TP |-> 0]
    /\ generation = 0 /\ restarts = 0
    /\ acked = {} /\ received = 0

----------------------------------------------------------------------------
(* The select loop *)

Selecting == status = "running" /\ pc = "select"

KeepsBytes(a, b) == a   \* mutant: a finished batch keeps its share
saturating_sub(a, b) == IF a >= b THEN a - b ELSE 0

\* Mutant: the window admits one batch too many.
AdmitsOneMore ==
    /\ Cardinality(in_flight) <= MaxInFlightBatches
    /\ in_flight_bytes < MaxInFlightBytes

admits_batch ==
    /\ Cardinality(in_flight) < MaxInFlightBatches
    /\ in_flight_bytes < MaxInFlightBytes

\* The dispatch! macro: the batch gets the next number and a fan-out task.
Dispatch(events) ==
    /\ pending' = <<>>
    /\ in_flight' = in_flight \union
         {[sequence |-> sequence, events |-> events, result |-> "sending"]}
    /\ sequence' = sequence + 1
    /\ in_flight_bytes' = in_flight_bytes + Bytes(events)
    /\ counters' = [counters EXCEPT
                      !.batches_in = @ + 1,
                      !.in_flight_bytes = in_flight_bytes + Bytes(events),
                      !.in_flight_batches = Cardinality(in_flight) + 1]

\* The deadline arm: the linger window of the batch under assembly is over.
Deadline ==
    /\ Selecting
    /\ pending # <<>> /\ admits_batch
    /\ Dispatch(pending)
    /\ UNCHANGED <<status, pc, next_commit_sequence, completed,
                   committed_events, brokerVars, restarts, acked, received>>

FullTooLate(events) == Len(events) > BatchSize   \* mutant: off by one
IsFull(events) == Len(events) >= BatchSize

\* Messages recv has not returned yet.
Available(tp) == {o \in Log[tp] : o >= position[tp]}

\* The recv arm: the partition's next message joins the batch, and a full
\* batch leaves at once.
Recv(tp) ==
    /\ Selecting
    /\ admits_batch /\ Len(pending) < BatchSize
    /\ tp \in assigned
    /\ \E o \in Available(tp) :
         /\ \A x \in Available(tp) : o <= x
         /\ position' = [position EXCEPT ![tp] = o + 1]
         /\ LET events == Append(pending, EventAt(tp, o)) IN
              \/ /\ IsFull(events)
                 /\ Dispatch(events)
              \/ /\ ~IsFull(events)
                 /\ pending' = events
                 /\ UNCHANGED <<in_flight, sequence, in_flight_bytes, counters>>
    /\ received' = received + 1
    /\ UNCHANGED <<status, pc, next_commit_sequence, completed,
                   committed_events, assigned, commits, committed, generation,
                   restarts, acked>>

Finished(b) == b.result # "sending"   \* mutant: the task's Err is not looked at
Succeeded(b) == b.result = "ok"

ReplaceAll(c) == {c}   \* mutant: one slot instead of a map
Insert(c) == completed \union {c}

\* The join arm, for a task that finished with Ok: its bytes leave the budget
\* and its completion enters the reorder map.
JoinNext ==
    /\ Selecting
    /\ \E b \in in_flight :
         /\ Succeeded(b)
         /\ in_flight' = in_flight \ {b}
         /\ in_flight_bytes' = saturating_sub(in_flight_bytes, Bytes(b.events))
         /\ completed' = Insert([sequence |-> b.sequence, events |-> b.events])
    /\ counters' = [counters EXCEPT
                      !.in_flight_bytes = in_flight_bytes',
                      !.in_flight_batches = Cardinality(in_flight')]
    /\ pc' = "commit" /\ committed_events' = 0
    /\ UNCHANGED <<status, pending, sequence, next_commit_sequence, brokerVars,
                   restarts, acked, received>>

\* offsets_for: per partition, one past the highest offset of the batch.
offsets_for(events) ==
    [tp \in {e.tp : e \in Range(events)} |->
       Max({e.offset + 1 : e \in {d \in Range(events) : d.tp = tp}})]

AnyCompleted(c) == TRUE   \* mutant: commit in the order of completion
Due(c) == c.sequence = next_commit_sequence

\* One turn of the loop of commit_contiguous.
CommitNext ==
    /\ status = "running" /\ pc = "commit"
    /\ \E c \in completed :
         /\ Due(c)
         /\ completed' = completed \ {c}
         /\ commits' = commits \union {offsets_for(c.events)}
         /\ committed_events' = committed_events + Len(c.events)
    /\ counters' = [counters EXCEPT !.commits = @ + 1]
    /\ next_commit_sequence' = next_commit_sequence + 1
    /\ UNCHANGED <<status, pc, pending, in_flight, sequence, in_flight_bytes,
                   assigned, position, committed, generation, restarts, acked,
                   received>>

\* Mutant: one commit per completion, `if let` for `while let`.
AfterOne == committed_events > 0 \/ \A c \in completed : ~Due(c)
RunEnds == \A c \in completed : ~Due(c)

Uncounted == 0   \* mutant: the events of a run of commits are not counted
Counted == committed_events

\* The due batch has not completed: the loop ends and the events are counted.
CommitDone ==
    /\ status = "running" /\ pc = "commit"
    /\ RunEnds
    /\ counters' = [counters EXCEPT !.events_in = @ + Counted]
    /\ pc' = "select" /\ committed_events' = 0
    /\ UNCHANGED <<status, pending, in_flight, sequence, next_commit_sequence,
                   in_flight_bytes, completed, brokerVars, restarts, acked,
                   received>>

\* run returns, or the process dies: the locals, the fan-out tasks and the
\* group membership go; commit requests already handed over stay under way.
Leave(outcome) ==
    /\ status' = outcome /\ pc' = "select"
    /\ pending' = <<>> /\ in_flight' = {} /\ completed' = {}
    /\ sequence' = 0 /\ next_commit_sequence' = 0
    /\ in_flight_bytes' = 0 /\ committed_events' = 0
    /\ assigned' = {}
    /\ UNCHANGED <<counters, position, commits, committed, generation, restarts,
                   acked, received>>

\* The shutdown arm.
Shutdown == Selecting /\ Leave("stopped")

\* The join arm, for a task that finished with Err.
JoinFails ==
    /\ Selecting
    /\ \E b \in in_flight : b.result = "err"
    /\ Leave("failed")

\* The recv arm, when the consumer reports an error.
RecvFails ==
    /\ Selecting
    /\ admits_batch /\ Len(pending) < BatchSize
    /\ Leave("failed")

\* consumer.commit refuses the request of the due batch.
CommitFails ==
    /\ status = "running" /\ pc = "commit"
    /\ \E c \in completed : Due(c)
    /\ Leave("failed")

----------------------------------------------------------------------------
(* Fan-out tasks, the broker and the rest of the group *)

\* Fanout::send of one in-flight batch answers.
FanoutOk ==
    /\ \E b \in in_flight :
         /\ b.result = "sending"
         /\ in_flight' = (in_flight \ {b}) \union {[b EXCEPT !.result = "ok"]}
         /\ acked' = acked \union Range(b.events)
    /\ UNCHANGED <<status, pc, pending, sequence, next_commit_sequence,
                   in_flight_bytes, completed, committed_events, counters,
                   brokerVars, restarts, received>>

FanoutErr ==
    /\ \E b \in in_flight :
         /\ b.result = "sending"
         /\ in_flight' = (in_flight \ {b}) \union {[b EXCEPT !.result = "err"]}
    /\ UNCHANGED <<status, pc, pending, sequence, next_commit_sequence,
                   in_flight_bytes, completed, committed_events, counters,
                   brokerVars, restarts, acked, received>>

\* CommitMode::Async: a request reaches the coordinator in any order ...
BrokerCommits ==
    /\ \E c \in commits :
         /\ committed' = [tp \in TP |-> IF tp \in DOMAIN c THEN c[tp]
                                                           ELSE committed[tp]]
         /\ commits' = commits \ {c}
    /\ UNCHANGED <<loopVars, counters, assigned, position, generation, restarts,
                   acked, received>>

\* ... or is lost, and nobody is told.
CommitLost ==
    /\ \E c \in commits : commits' = commits \ {c}
    /\ UNCHANGED <<loopVars, counters, assigned, position, committed,
                   generation, restarts, acked, received>>

\* Rebalances: everything is revoked, then some partitions are assigned and
\* consumption resumes from the group's offsets.  Nothing in the source reacts:
\* batches of revoked partitions stay in flight and are committed later.
Revoke ==
    /\ assigned # {}
    /\ assigned' = {}
    /\ UNCHANGED <<loopVars, counters, position, commits, committed, generation,
                   restarts, acked, received>>

Assign(S) ==
    /\ status = "running"
    /\ assigned = {} /\ generation < MaxGenerations
    /\ assigned' = S
    /\ position' = [tp \in TP |-> IF tp \in S THEN committed[tp]
                                              ELSE position[tp]]
    /\ generation' = generation + 1
    /\ counters' = [counters EXCEPT !.rebalances = @ + 1]
    /\ UNCHANGED <<loopVars, commits, committed, restarts, acked, received>>

\* Another router of the same group owns the partition: it delivers, and
\* commits only what it delivered.
PeerDelivers(tp) ==
    /\ tp \in TP \ assigned
    /\ \E o \in Log[tp] :
         acked' = acked \union {EventAt(tp, x) : x \in {y \in Log[tp] : y <= o}}
    /\ UNCHANGED <<loopVars, counters, brokerVars, restarts, received>>

PeerCommits(tp) ==
    /\ tp \in TP \ assigned
    /\ \E o \in Log[tp] :
         /\ Covered(tp, o + 1, acked)
         /\ committed' = [committed EXCEPT ![tp] = o + 1]
    /\ UNCHANGED <<loopVars, counters, assigned, position, commits, generation,
                   restarts, acked, received>>

----------------------------------------------------------------------------
(* The process *)

Crash == status = "running" /\ Leave("failed")

Restart ==
    /\ status # "running" /\ restarts < MaxRestarts
    /\ status' = "running"
    /\ counters' = ZeroCounters
    /\ received' = 0
    /\ restarts' = restarts + 1
    /\ UNCHANGED <<pc, pending, in_flight, sequence, next_commit_sequence,
                   in_flight_bytes, completed, committed_events, brokerVars,
                   acked>>

Loop ==
    \/ Deadline
    \/ \E tp \in TP : Recv(tp)
    \/ JoinNext
    \/ CommitNext
    \/ CommitDone
    \/ Shutdown
    \/ JoinFails
    \/ RecvFails
    \/ CommitFails

Environment ==
    \/ FanoutOk
    \/ FanoutErr
    \/ BrokerCommits
    \/ CommitLost
    \/ Revoke
    \/ \E S \in SUBSET TP : Assign(S)
    \/ \E tp \in TP : PeerDelivers(tp)
    \/ \E tp \in TP : PeerCommits(tp)
    \/ Crash
    \/ Restart

Next == Loop \/ Environment

Spec == Init /\ [][Next]_vars

\* The runtime polls the loop as long as some arm is ready, the linger timer
\* fires and the broker serves fetches.  That a fan-out eventually answers is an
\* assumption about the interface (module Fanout): a ClickHouse server that never
\* answers an insert breaks it.  Nothing is assumed of failures, rebalances or
\* commit requests.
Fairness ==
    /\ WF_vars(Deadline)
    /\ \A tp \in TP : WF_vars(Recv(tp))
    /\ WF_vars(JoinNext \/ JoinFails)
    /\ WF_vars(CommitNext)
    /\ WF_vars(CommitDone)
    /\ WF_vars(FanoutOk \/ FanoutErr)

FairSpec == Spec /\ Fairness

----------------------------------------------------------------------------
(* Properties *)

\* Batches dispatched and not yet committed.
Outstanding == in_flight \union completed

TypeOK ==
    /\ status \in {"running", "stopped", "failed"}
    /\ pc \in {"select", "commit"}
    /\ pending \in Batches /\ Len(pending) < BatchSize
    /\ in_flight \subseteq [sequence : Nat, events : Batches,
                            result : {"sending", "ok", "err"}]
    /\ IsFiniteSet(in_flight)
    /\ completed \subseteq [sequence : Nat, events : Batches]
    /\ sequence \in Nat /\ next_commit_sequence \in Nat
    /\ in_flight_bytes \in Nat /\ committed_events \in Nat
    /\ counters \in [batches_in : Nat, events_in : Nat, commits : Nat,
                     rebalances : Nat, in_flight_batches : Nat,
                     in_flight_bytes : Nat]
    /\ assigned \in SUBSET TP
    /\ position \in [TP -> Nat] /\ committed \in [TP -> Nat]
    /\ \A c \in commits : DOMAIN c \subseteq TP /\ c \in [DOMAIN c -> Nat]
    /\ generation \in 0..MaxGenerations /\ restarts \in 0..MaxRestarts
    /\ acked \subseteq Events /\ received \in Nat

\* No event is lost (offsets_for, commit_contiguous): wherever the group's
\* offset stands or a commit request under way would put it, every event below
\* has been acknowledged by every sink, whatever the order in which fan-outs
\* finished, requests arrived and partitions moved between members.
CommitSafe ==
    /\ \A tp \in TP : Covered(tp, committed[tp], acked)
    /\ \A c \in commits : \A tp \in DOMAIN c : Covered(tp, c[tp], acked)

\* The reorder map forgets nothing and invents nothing (commit_contiguous):
\* exactly the dispatched, uncommitted batches are in flight or waiting, each
\* in one place, so the commit order can never be stuck on a missing number.
NoBatchLost ==
    /\ next_commit_sequence <= sequence
    /\ {b.sequence : b \in Outstanding} = next_commit_sequence..(sequence - 1)
    /\ \A b, c \in Outstanding : b.sequence = c.sequence => b = c

\* The byte budget is returned exactly (dispatch!, join arm): the counter the
\* window is gated on is the sum over the in-flight batches, so saturating_sub
\* never hides a drift, and the gauges of a running source show it.
ByteAccounting ==
    /\ in_flight_bytes = SumFunction([b \in in_flight |-> Bytes(b.events)])
    /\ status = "running" =>
         /\ counters.in_flight_bytes = in_flight_bytes
         /\ counters.in_flight_batches = Cardinality(in_flight)

\* Memory held by the source is bounded (admits_batch): the in-flight batches
\* and the one being assembled overshoot max_in_flight_bytes by less than one
\* batch, and the window of batches is never exceeded.
ResidentBounded ==
    /\ in_flight_bytes + Bytes(pending) < MaxInFlightBytes + MaxBatchBytes
    /\ Cardinality(in_flight) <= MaxInFlightBatches

\* events_in counts an event exactly once per time it was received, at commit
\* (commit_contiguous, join arm): what was received is counted, about to be
\* counted, waiting, in flight or being assembled.
EventsAccounted ==
    status = "running" =>
      received = counters.events_in + committed_events + Len(pending)
                 + SumFunction([b \in in_flight |-> Len(b.events)])
                 + SumFunction([c \in completed |-> Len(c.events)])

\* Assembly never starts unless its batch may leave.
PendingAdmitted == pending # <<>> => admits_batch

\* The event is acknowledged, or in a batch numbered k or less; or the source
\* holds it anywhere.
HeldUpTo(e, k) ==
    e \in acked \/ \E d \in Outstanding : d.sequence <= k /\ e \in Range(d.events)
Held(e) ==
    \/ e \in acked
    \/ \E d \in Outstanding : e \in Range(d.events)
    \/ e \in Range(pending)

WindowInv == ResidentBounded /\ PendingAdmitted

AckedInv ==
    /\ \A b \in in_flight : b.result = "ok" => Range(b.events) \subseteq acked
    /\ \A c \in completed : Range(c.events) \subseteq acked

OrderInv ==
    /\ \A b \in Outstanding : \A e \in Range(b.events) : \A x \in Log[e.tp] :
         x < e.offset => HeldUpTo(EventAt(e.tp, x), b.sequence)
    /\ \A e \in Range(pending) : \A x \in Log[e.tp] :
         x < e.offset => Held(EventAt(e.tp, x))
    /\ \A tp \in assigned : \A x \in Log[tp] :
         x < position[tp] => Held(EventAt(tp, x))

\* The argument for CommitSafe, as an inductive invariant: whatever lies below
\* an event the source holds is acknowledged, or held no later than the event
\* itself.  Committing batches in order therefore never jumps over an event.
SourceInv ==
    TypeOK /\ WindowInv /\ NoBatchLost /\ AckedInv /\ OrderInv /\ CommitSafe

\* The source implements the at-least-once promise of module AtLeastOnce.
Implements == ALO!ALOSpec

\* The window always reopens (join arm, deadline arm): if fan-outs answer, an
\* event of an owned partition that is not consumed yet is eventually acknowledged
\* by every sink unless the partition is revoked or the source leaves the loop.
EventuallyAcked ==
    \A tp \in TP :
      (status = "running" /\ tp \in assigned)
        ~> \/ \A o \in Log[tp] : EventAt(tp, o) \in acked
           \/ status # "running" \/ tp \notin assigned

\* Completions are not held hostage (join arm before the linger arm): if fan-outs
\* answer, a source that keeps running ends up with nothing under assembly, in flight or waiting
\* for its turn, its batches all handed to commit.
EventuallyCommitted ==
    []<>(status # "running" \/ (pending = <<>> /\ in_flight = {} /\ completed = {}))

============================================================================
