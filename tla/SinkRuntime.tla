---------------------------- MODULE SinkRuntime ----------------------------
(***************************************************************************)
(* The runtime around a sink (sink/mod.rs, run): envelopes are received    *)
(* from a bounded channel, coalesced into groups, and written by at most   *)
(* max_concurrent_writes tasks that retry with a backoff; a write that     *)
(* exhausts its retries is fatal, and a shutdown lets running writes end.  *)
(*                                                                         *)
(* The destination is a write that answers Ok or Err, having stored all of *)
(* the group or any part of it.  Timers (linger, backoff) are steps that   *)
(* may happen at any moment once armed.  A finished task stays in the      *)
(* JoinSet, and counts, until it is reaped.  Dropping an envelope settles  *)
(* it as failed (module Fanout).                                           *)
(***************************************************************************)
EXTENDS Naturals, Sequences, FiniteSets, FiniteSetsExt, Functions

CONSTANTS
    Envelopes,             \* batches sent to this sink
    EventsOf(_),           \* events in an envelope's batch
    BytesOf(_),            \* its estimated bytes
    Capacity,              \* buffer_capacity
    MaxEvents,             \* batch_max_events
    MaxBytes,              \* batch_max_bytes
    ConcurrentWrites,      \* values max_concurrent_writes may have
    MaxAttempts,           \* retry_max_attempts
    InitialBackoff,        \* retry_initial_backoff_ms
    MaxBackoff             \* retry_max_backoff_ms

\* Config::validate, and the max(1) of runtime_settings.
ASSUME SinkAssumption ==
    /\ {Capacity, MaxEvents, MaxBytes, MaxAttempts} \union ConcurrentWrites
         \subseteq Nat \ {0}
    /\ {InitialBackoff, MaxBackoff} \subseteq Nat
    /\ InitialBackoff <= MaxBackoff
    /\ \A e \in Envelopes : EventsOf(e) \in Nat \ {0} /\ BytesOf(e) \in Nat

VARIABLES
    max_concurrent_writes,   \* the setting, which never changes
    state,       \* where run is: "accept", "coalesce", "slot", "drain", or how it ended
    input,       \* the channel
    senders,     \* some Fanout still has a sender of the channel
    shutdown,    \* the token is cancelled
    envelopes,   \* the group being coalesced
    writes,      \* JoinSet of write tasks
    failed,      \* local `outcome` of the drain: a write failed
    counters,    \* SinkMetrics
    ack,         \* ack[e]: what the envelope's branch was told
    arrived,     \* history: envelopes in the order they were sent
    dispatched,  \* history: envelopes given to a write task
    stored       \* history: envelopes whose whole batch reached the destination

vars == <<max_concurrent_writes, state, input, senders, shutdown, envelopes,
          writes, failed, counters, ack, arrived, dispatched, stored>>

Init ==
    /\ max_concurrent_writes \in ConcurrentWrites
    /\ state = "accept"
    /\ input = <<>> /\ senders = TRUE /\ shutdown = FALSE
    /\ envelopes = <<>> /\ writes = {} /\ failed = FALSE
    /\ counters = [retries |-> 0, write_errors |-> 0, batches_written |-> 0,
                   events_out |-> 0, events_dropped |-> 0, queue_depth |-> 0]
    /\ ack = [e \in Envelopes |-> "open"]
    /\ arrived = <<>> /\ dispatched = {} /\ stored = {}

Alive == state \notin {"ok", "err", "aborted"}

----------------------------------------------------------------------------
(* Acknowledging *)

EventCount(es) == SumFunction([i \in DOMAIN es |-> EventsOf(es[i])])
ByteCount(es) == SumFunction([i \in DOMAIN es |-> BytesOf(es[i])])

Settle(S, how) == [e \in Envelopes |-> IF e \in S /\ ack[e] = "open" THEN how
                                                                     ELSE ack[e]]

\* What run owns: the channel, the group and the tasks.
Owned == Range(input) \union Range(envelopes)
           \union UNION {Range(w.group) : w \in writes}

----------------------------------------------------------------------------
(* A write task: write_with_retry, then the acknowledgements *)

Running(w) == w.status \in {"writing", "backoff"}

Replace(w, v) == writes' = (writes \ {w}) \union {v}

\* write_batches answers Ok; d rows were refused by the sink and are
\* acknowledged all the same.
WriteOk ==
    /\ \E w \in writes :
         /\ w.status = "writing"
         /\ Replace(w, [w EXCEPT !.status = "ok"])
         /\ stored' = stored \union Range(w.group)
         /\ ack' = Settle(Range(w.group), "delivered")
         /\ \E d \in 0..EventCount(w.group) :
              counters' = [counters EXCEPT
                             !.events_out = @ + (EventCount(w.group) - d),
                             !.events_dropped = @ + d,
                             !.batches_written = @ + 1]
    /\ UNCHANGED <<max_concurrent_writes, state, input, senders, shutdown,
                   envelopes, failed, arrived, dispatched>>

MayRetry(w) == w.attempt < MaxAttempts

\* It answers Err, having stored any part of the group, and there are attempts
\* left: the task sleeps.
WriteRetries ==
    /\ \E w \in writes :
         /\ w.status = "writing" /\ MayRetry(w)
         /\ Replace(w, [w EXCEPT !.status = "backoff"])
         /\ \E S \in SUBSET Range(w.group) : stored' = stored \union S
    /\ counters' = [counters EXCEPT !.retries = @ + 1]
    /\ UNCHANGED <<max_concurrent_writes, state, input, senders, shutdown,
                   envelopes, failed, ack, arrived, dispatched>>

\* The backoff is over; the next one is twice as long, up to the limit.
BackoffOver ==
    /\ \E w \in writes :
         /\ w.status = "backoff"
         /\ Replace(w, [w EXCEPT !.status = "writing", !.attempt = @ + 1,
                                 !.backoff = Min({2 * @, MaxBackoff})])
    /\ UNCHANGED <<max_concurrent_writes, state, input, senders, shutdown,
                   envelopes, failed, counters, ack, arrived, dispatched,
                   stored>>

AckAnyway(S) == Settle(S, "delivered")   \* mutant: the batch is given up silently
RejectAll(S) == Settle(S, "failed")

\* The last attempt fails.
WriteFails ==
    /\ \E w \in writes :
         /\ w.status = "writing" /\ ~MayRetry(w)
         /\ Replace(w, [w EXCEPT !.status = "err"])
         /\ ack' = RejectAll(Range(w.group))
         /\ \E S \in SUBSET Range(w.group) : stored' = stored \union S
    /\ counters' = [counters EXCEPT !.write_errors = @ + 1]
    /\ UNCHANGED <<max_concurrent_writes, state, input, senders, shutdown,
                   envelopes, failed, arrived, dispatched>>

----------------------------------------------------------------------------
(* The loop *)

Finished(status) == {w \in writes : w.status = status}

RoomByEvents == EventCount(envelopes) < MaxEvents   \* mutant: bytes not checked
HasRoom == EventCount(envelopes) < MaxEvents /\ ByteCount(envelopes) < MaxBytes

NotCompleted == ack   \* mutant: a branch that is dropped is not completed
Dropped == Settle(Owned, "failed")

\* run returns: what it still owns is dropped.
Return(result) ==
    /\ state' = result
    /\ ack' = Dropped
    /\ input' = <<>> /\ envelopes' = <<>> /\ writes' = {}
    /\ UNCHANGED <<max_concurrent_writes, senders, shutdown, failed, counters,
                   arrived, dispatched, stored>>

\* reap, in the three places that wait for it: a finished write leaves the set
\* and a failed one ends the run, the other writes with it.
ReapsWhenIdle == state = "accept" /\ ~shutdown   \* mutant: a full set is not reaped
MayReap ==
    \/ state = "accept" /\ ~shutdown
    \/ state = "coalesce" /\ HasRoom
    \/ state = "slot" /\ Cardinality(writes) >= max_concurrent_writes

ReapOk ==
    /\ MayReap
    /\ \E w \in Finished("ok") : writes' = writes \ {w}
    /\ UNCHANGED <<max_concurrent_writes, state, input, senders, shutdown,
                   envelopes, failed, counters, ack, arrived, dispatched,
                   stored>>

ReapErr ==
    /\ MayReap
    /\ Finished("err") # {}
    /\ Return("err")

\* The first envelope of a group.
Accept ==
    /\ state = "accept" /\ ~shutdown
    /\ input # <<>>
    /\ envelopes' = <<Head(input)>> /\ input' = Tail(input)
    /\ state' = "coalesce"
    /\ UNCHANGED <<max_concurrent_writes, senders, shutdown, writes, failed,
                   counters, ack, arrived, dispatched, stored>>

StopsWhenClosed == ~senders /\ input = <<>>   \* mutant: the token is not watched
MustStop == shutdown \/ (~senders /\ input = <<>>)

\* Shutdown, or a closed and empty channel: no more envelopes are accepted.
StopAccepting ==
    /\ state = "accept" /\ MustStop
    /\ state' = "drain"
    /\ UNCHANGED <<max_concurrent_writes, input, senders, shutdown, envelopes,
                   writes, failed, counters, ack, arrived, dispatched, stored>>

Coalesce ==
    /\ state = "coalesce" /\ HasRoom
    /\ input # <<>>
    /\ envelopes' = Append(envelopes, Head(input)) /\ input' = Tail(input)
    /\ UNCHANGED <<max_concurrent_writes, state, senders, shutdown, writes,
                   failed, counters, ack, arrived, dispatched, stored>>

\* The group is full, its linger is over, or the channel is closed and empty:
\* the linger timer may fire at any moment, so no guard remains.
GroupReady ==
    /\ state = "coalesce"
    /\ state' = "slot"
    /\ UNCHANGED <<max_concurrent_writes, input, senders, shutdown, envelopes,
                   writes, failed, counters, ack, arrived, dispatched, stored>>

OneMore == Cardinality(writes) <= max_concurrent_writes   \* mutant: off by one
SlotFree == Cardinality(writes) < max_concurrent_writes

\* A slot is free: the depth of the queue is sampled and the write spawned.
Spawn ==
    /\ state = "slot" /\ SlotFree
    /\ counters' = [counters EXCEPT !.queue_depth = Len(input)]
    /\ writes' = writes \union {[group |-> envelopes, attempt |-> 1,
                                 backoff |-> InitialBackoff, status |-> "writing"]}
    /\ dispatched' = dispatched \union Range(envelopes)
    /\ envelopes' = <<>>
    /\ state' = "accept"
    /\ UNCHANGED <<max_concurrent_writes, input, senders, shutdown, failed,
                   ack, arrived, stored>>

SkipsError(w) == failed   \* mutant: the drain looks at nothing it joins
Remembers(w) == failed \/ w.status = "err"

\* The drain joins writes in the order they end and remembers a failure.
DrainJoins ==
    /\ state = "drain"
    /\ \E w \in writes :
         /\ ~Running(w)
         /\ writes' = writes \ {w}
         /\ failed' = Remembers(w)
    /\ UNCHANGED <<max_concurrent_writes, state, input, senders, shutdown,
                   envelopes, counters, ack, arrived, dispatched, stored>>

AllJoined == writes = {}

DrainEnds ==
    /\ state = "drain" /\ AllJoined
    /\ Return(IF failed THEN "err" ELSE "ok")

----------------------------------------------------------------------------
(* The rest of the topology *)

\* A fan-out gets a permit of the channel.
Arrive(e) ==
    /\ Alive /\ senders
    /\ e \notin Range(arrived) /\ Len(input) < Capacity
    /\ input' = Append(input, e)
    /\ arrived' = Append(arrived, e)
    /\ UNCHANGED <<max_concurrent_writes, state, senders, shutdown, envelopes,
                   writes, failed, counters, ack, dispatched, stored>>

\* All sources are gone.
SendersGone ==
    /\ senders
    /\ senders' = FALSE
    /\ UNCHANGED <<max_concurrent_writes, state, input, shutdown, envelopes,
                   writes, failed, counters, ack, arrived, dispatched, stored>>

Cancel ==
    /\ ~shutdown
    /\ shutdown' = TRUE
    /\ UNCHANGED <<max_concurrent_writes, state, input, senders, envelopes,
                   writes, failed, counters, ack, arrived, dispatched, stored>>

\* The topology drops its JoinSet of sinks after another sink failed.
Abort ==
    /\ Alive
    /\ Return("aborted")

WriteStep == WriteOk \/ WriteRetries \/ BackoffOver \/ WriteFails

LoopStep ==
    \/ ReapOk
    \/ ReapErr
    \/ Accept
    \/ StopAccepting
    \/ Coalesce
    \/ GroupReady
    \/ Spawn
    \/ DrainJoins
    \/ DrainEnds

Next ==
    \/ WriteStep
    \/ LoopStep
    \/ \E e \in Envelopes : Arrive(e)
    \/ SendersGone
    \/ Cancel
    \/ Abort

Spec == Init /\ [][Next]_vars

\* Tasks are polled when they can move and timers fire.  Nothing makes work
\* arrive, senders leave or the token be cancelled, and nothing makes a write
\* answer: write_with_retry and the drain set no timeout of their own.
Fairness ==
    /\ WF_vars(BackoffOver)
    /\ WF_vars(ReapOk) /\ WF_vars(ReapErr)
    /\ WF_vars(Accept) /\ WF_vars(StopAccepting)
    /\ WF_vars(GroupReady) /\ WF_vars(Spawn)
    /\ WF_vars(DrainJoins) /\ WF_vars(DrainEnds)

FairSpec == Spec /\ Fairness

----------------------------------------------------------------------------
(* Properties *)

TypeOK ==
    /\ max_concurrent_writes \in ConcurrentWrites
    /\ state \in {"accept", "coalesce", "slot", "drain", "ok", "err", "aborted"}
    /\ input \in Seq(Envelopes) /\ envelopes \in Seq(Envelopes)
    /\ {senders, shutdown, failed} \subseteq BOOLEAN
    /\ writes \subseteq [group : Seq(Envelopes), attempt : 1..MaxAttempts,
                         backoff : InitialBackoff..MaxBackoff,
                         status : {"writing", "backoff", "ok", "err"}]
    /\ counters \in [retries : Nat, write_errors : Nat, batches_written : Nat,
                     events_out : Nat, events_dropped : Nat, queue_depth : Nat]
    /\ ack \in [Envelopes -> {"open", "delivered", "failed"}]
    /\ arrived \in Seq(Envelopes) /\ dispatched \subseteq Envelopes
    /\ stored \subseteq Envelopes

\* The sink's half of at-least-once (run, write task): a branch is told
\* "delivered" only when the whole batch reached the destination, whatever
\* retries, fatal failures and shutdowns happened around it.
DeliveredIsStored == \A e \in Envelopes : ack[e] = "delivered" => e \in stored

\* No envelope is forgotten and none is held twice (run): an envelope that was
\* sent is unsettled exactly as long as the channel, the group or one running
\* write holds it, so every fan-out is answered.
EnvelopesConserved ==
    /\ {e \in Range(arrived) : ack[e] = "open"}
         = Range(input) \union Range(envelopes)
             \union UNION {Range(w.group) : w \in {v \in writes : Running(v)}}
    /\ Len(input) + Len(envelopes)
         + SumFunction([w \in {v \in writes : Running(v)} |-> Len(w.group)])
         = Cardinality({e \in Range(arrived) : ack[e] = "open"})

\* Groups, concurrency and retries stay within the settings (coalescing loop,
\* slot loop, write_with_retry): a group passes the limits only by its last
\* envelope, unreaped tasks count against the slots, and neither an attempt nor
\* a backoff goes past its limit.
Bounded ==
    /\ TypeOK
    /\ Cardinality(writes) <= max_concurrent_writes
    /\ \A g \in {envelopes} \union {w.group : w \in writes} :
         Len(g) > 1 => LET firsts == SubSeq(g, 1, Len(g) - 1)
                       IN  EventCount(firsts) < MaxEvents /\ ByteCount(firsts) < MaxBytes

\* A clean exit hides nothing (drain): if run returns Ok, every batch that was
\* given to a write was delivered, the writes still running at the shutdown
\* included; only those never dispatched were turned away.
CleanExit ==
    state = "ok" => \A e \in Envelopes :
                      ack[e] = "delivered" <=> e \in dispatched

\* With one write at a time the destination gets batches in the order they
\* were sent to the sink (slot loop): nothing is delivered while an earlier
\* batch is not.
SequentialOrder ==
    max_concurrent_writes = 1 =>
      \A i \in 1..Len(arrived) : \A j \in 1..Len(arrived) :
        i < j /\ ack[arrived[j]] = "delivered" => ack[arrived[i]] = "delivered"

Unanswered(e) == \E w \in writes : w.status = "writing" /\ e \in Range(w.group)

\* What the destination must do for a write to end: no envelope stays for ever
\* in a call that has not answered.  delivery_timeout_ms, unless it is zero, makes
\* it true of a Kafka sink (WriteReturns of module KafkaSink); of a ClickHouse sink
\* it is an assumption about the server, whose client is built without a timeout.
WritesAnswered == \A e \in Envelopes : []<>~Unanswered(e)

\* Every branch is answered (run): if the destination answers its writes, an
\* envelope sent to the sink is eventually reported delivered or failed, by a
\* write or because the run ended.
EveryBranchAnswered ==
    WritesAnswered => \A e \in Envelopes : (e \in Range(arrived)) ~> ack[e] # "open"

\* A cancelled token stops the sink (accept loop, drain) if the destination
\* answers the writes in flight, although the coalescing and slot loops do not
\* look at it.
ShutdownEnds == WritesAnswered => (shutdown ~> ~Alive)
============================================================================
