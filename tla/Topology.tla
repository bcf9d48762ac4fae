------------------------------ MODULE Topology ------------------------------
(***************************************************************************)
(* topology::run: the configuration is validated, sinks and sources are    *)
(* built and spawned, and the run ends with an interrupt, the failure of a *)
(* source or the failure of a sink; sources are then aborted, sinks are    *)
(* drained, the reporting tasks are stopped, and the JoinSets are dropped. *)
(*                                                                         *)
(* Tasks run on other threads and are seen from outside: a source runs     *)
(* until it fails or its token is cancelled (module KafkaSource); a sink   *)
(* has writes in flight or not, drains once its token is cancelled or its  *)
(* channel is closed, and fails with a write (module SinkRuntime).         *)
(***************************************************************************)
EXTENDS Config

CONSTANT Configs   \* configurations the TOML parser can produce

ASSUME ConfigAssumption ==
    \A config \in Configs :
      /\ \A i \in DOMAIN config.sources :
           {config.sources[i].batch_size, config.sources[i].max_in_flight_batches,
            config.sources[i].max_in_flight_bytes} \subseteq Nat
      /\ \A s \in DOMAIN config.sinks :
           LET sink == config.sinks[s] IN
           /\ {sink.buffer_capacity, sink.batch_max_events, sink.batch_max_bytes,
               sink.max_concurrent_writes, sink.retry_max_attempts,
               sink.retry_initial_backoff_ms, sink.retry_max_backoff_ms} \subseteq Nat
           /\ sink.type \in {"kafka", "clickhouse"}

VARIABLES
    config,
    phase,          \* where run is
    source,         \* source[i]: state of the source's task
    sink,           \* sink[s]: state of the sink's task
    writing,        \* writing[s]: the sink has writes in flight
    source_tasks,   \* JoinSets: tasks that have not been joined
    sink_tasks,
    observer,       \* the reporting tasks
    token,          \* shutdown is cancelled
    interrupted,    \* ctrl_c was pressed
    outcome,        \* what ended the select
    drained,        \* what the drain of the sinks returned
    result          \* what run returned

vars == <<config, phase, source, sink, writing, source_tasks, sink_tasks,
          observer, token, interrupted, outcome, drained, result>>

Sources == DOMAIN config.sources
Sinks == DOMAIN config.sinks

Init ==
    /\ config \in Configs
    /\ phase = "validate"
    /\ source = [i \in Sources |-> "none"] /\ source_tasks = {}
    /\ sink = [s \in Sinks |-> "none"] /\ sink_tasks = {}
    /\ writing = [s \in Sinks |-> FALSE]
    /\ observer = [report |-> "none", serve |-> "none"]
    /\ token = FALSE /\ interrupted = FALSE
    /\ outcome = "none" /\ drained = "none" /\ result = "none"

Live(state) == state \in {"running", "draining"}

----------------------------------------------------------------------------
(* Starting *)

\* run returns and its JoinSets are dropped: what still runs is aborted.
Exit(value) ==
    /\ phase' = "returned" /\ result' = value
    /\ source' = [i \in Sources |-> IF Live(source[i]) THEN "aborted" ELSE source[i]]
    /\ sink' = [s \in Sinks |-> IF Live(sink[s]) THEN "aborted" ELSE sink[s]]
    /\ observer' = [o \in DOMAIN observer |->
                      IF observer[o] = "running" THEN "ended" ELSE observer[o]]
    /\ UNCHANGED <<config, writing, source_tasks, sink_tasks, token, interrupted,
                   outcome, drained>>

Accept ==
    /\ phase = "validate" /\ validate(config)
    /\ phase' = "build"
    /\ UNCHANGED <<config, source, sink, writing, source_tasks, sink_tasks,
                   observer, token, interrupted, outcome, drained, result>>

Reject ==
    /\ phase = "validate" /\ ~validate(config)
    /\ Exit("err")

\* The maps are iterated in any order; all sinks come before the sources.
BuildSink(s) ==
    /\ phase = "build" /\ sink[s] = "none"
    /\ sink' = [sink EXCEPT ![s] = "running"]
    /\ sink_tasks' = sink_tasks \union {s}
    /\ UNCHANGED <<config, phase, source, writing, source_tasks, observer, token,
                   interrupted, outcome, drained, result>>

BuildSource(i) ==
    /\ phase = "build" /\ source[i] = "none"
    /\ \A s \in Sinks : sink[s] # "none"
    /\ source' = [source EXCEPT ![i] = "running"]
    /\ source_tasks' = source_tasks \union {i}
    /\ UNCHANGED <<config, phase, sink, writing, sink_tasks, observer, token,
                   interrupted, outcome, drained, result>>

\* A Kafka client cannot be created; tasks that were spawned go with run.
BuildFails ==
    /\ phase = "build"
    /\ \/ \E s \in Sinks : sink[s] = "none" /\ config.sinks[s].type = "kafka"
       \/ /\ \A s \in Sinks : sink[s] # "none"
          /\ \E i \in Sources : source[i] = "none"
    /\ Exit("err")

\* sink_inputs is dropped, the reporting tasks start, and run waits.
Supervise ==
    /\ phase = "build"
    /\ \A i \in Sources : source[i] # "none"
    /\ \A s \in Sinks : sink[s] # "none"
    /\ phase' = "select"
    /\ observer' = [report |-> IF config.log_interval_seconds = 0 THEN "ended"
                                                                  ELSE "running",
                    serve |-> IF config.listen THEN "running" ELSE "ended"]
    /\ UNCHANGED <<config, source, sink, writing, source_tasks, sink_tasks, token,
                   interrupted, outcome, drained, result>>

----------------------------------------------------------------------------
(* Waiting and shutting down *)

Leave(value) == phase' = "cancel" /\ outcome' = value

CtrlC ==
    /\ phase = "select"
    /\ interrupted' = TRUE
    /\ Leave("ok")
    /\ UNCHANGED <<config, source, sink, writing, source_tasks, sink_tasks,
                   observer, token, drained, result>>

Joins(tasks, state) == {t \in tasks : ~Live(state[t])}

SwallowsError(status) == FALSE   \* mutant: the joined result is not looked at
Failed(status) == status = "err"

\* join_all(source_tasks)
JoinSource ==
    /\ phase = "select"
    /\ \E i \in Joins(source_tasks, source) :
         /\ source_tasks' = source_tasks \ {i}
         /\ IF Failed(source[i]) THEN Leave("err")
            ELSE IF source_tasks' = {} THEN Leave("ok")
            ELSE UNCHANGED <<phase, outcome>>
    /\ UNCHANGED <<config, source, sink, writing, sink_tasks, observer, token,
                   interrupted, drained, result>>

\* first_failure(sink_tasks)
JoinSink ==
    /\ phase = "select"
    /\ \E s \in Joins(sink_tasks, sink) :
         /\ sink_tasks' = sink_tasks \ {s}
         /\ IF Failed(sink[s]) THEN Leave("err") ELSE UNCHANGED <<phase, outcome>>
    /\ UNCHANGED <<config, source, sink, writing, source_tasks, observer, token,
                   interrupted, drained, result>>

\* shutdown.cancel(), and source_tasks.shutdown() aborts the sources ...
Cancel ==
    /\ phase = "cancel"
    /\ token' = TRUE
    /\ phase' = "sources"
    /\ UNCHANGED <<config, source, sink, writing, source_tasks, sink_tasks,
                   observer, interrupted, outcome, drained, result>>

\* ... which end at their next await, unless they end first.
AbortSource(i) ==
    /\ phase = "sources" /\ Live(source[i])
    /\ source' = [source EXCEPT ![i] = "aborted"]
    /\ UNCHANGED <<config, phase, sink, writing, source_tasks, sink_tasks,
                   observer, token, interrupted, outcome, drained, result>>

\* source_tasks.shutdown().await is over; what the tasks returned is not read.
SourcesDown ==
    /\ phase = "sources"
    /\ \A i \in Sources : ~Live(source[i])
    /\ source_tasks' = {}
    /\ phase' = "drain"
    /\ UNCHANGED <<config, source, sink, writing, sink_tasks, observer, token,
                   interrupted, outcome, drained, result>>

\* join_all(sink_tasks): it returns with the first error it meets ...
DrainJoins ==
    /\ phase = "drain"
    /\ \E s \in Joins(sink_tasks, sink) :
         /\ sink_tasks' = sink_tasks \ {s}
         /\ IF Failed(sink[s]) THEN drained' = "err" /\ phase' = "observers"
                               ELSE UNCHANGED <<drained, phase>>
    /\ UNCHANGED <<config, source, sink, writing, source_tasks, observer, token,
                   interrupted, outcome, result>>

\* ... or when the set is empty.
DrainEnds ==
    /\ phase = "drain" /\ sink_tasks = {}
    /\ drained' = "ok" /\ phase' = "observers"
    /\ UNCHANGED <<config, source, sink, writing, source_tasks, sink_tasks,
                   observer, token, interrupted, outcome, result>>

IgnoresDrain(first, second) == first   \* mutant: the drain's result is dropped
and(first, second) == IF first = "err" THEN "err" ELSE second

\* observability.shutdown(), and the end.
Return ==
    /\ phase = "observers"
    /\ Exit(and(outcome, drained))

----------------------------------------------------------------------------
(* The tasks *)

SourceFails(i) ==
    /\ source[i] = "running"
    /\ source' = [source EXCEPT ![i] = "err"]
    /\ UNCHANGED <<config, phase, sink, writing, source_tasks, sink_tasks,
                   observer, token, interrupted, outcome, drained, result>>

SourceStops(i) ==
    /\ source[i] = "running" /\ token
    /\ source' = [source EXCEPT ![i] = "ok"]
    /\ UNCHANGED <<config, phase, sink, writing, source_tasks, sink_tasks,
                   observer, token, interrupted, outcome, drained, result>>

\* A source that feeds the sink has been started: there may be work.
SinkWrites(s) ==
    /\ sink[s] = "running" /\ ~writing[s]
    /\ \E i \in Sources : s \in Destinations(config, i) /\ source[i] # "none"
    /\ writing' = [writing EXCEPT ![s] = TRUE]
    /\ UNCHANGED <<config, phase, source, sink, source_tasks, sink_tasks, observer,
                   token, interrupted, outcome, drained, result>>

\* All writes in flight have been acknowledged.
SinkAcks(s) ==
    /\ Live(sink[s]) /\ writing[s]
    /\ writing' = [writing EXCEPT ![s] = FALSE]
    /\ UNCHANGED <<config, phase, source, sink, source_tasks, sink_tasks, observer,
                   token, interrupted, outcome, drained, result>>

\* A write exhausts its retries: the sink's other writes go with it, or are
\* waited for first if it drains.
SinkFails(s) ==
    /\ Live(sink[s]) /\ writing[s]
    /\ sink' = [sink EXCEPT ![s] = "err"]
    /\ writing' = [writing EXCEPT ![s] = FALSE]
    /\ UNCHANGED <<config, phase, source, source_tasks, sink_tasks, observer,
                   token, interrupted, outcome, drained, result>>

\* No sender of its channel is left: neither run nor a source holds one.
Closed(s) ==
    /\ phase \notin {"validate", "build"}
    /\ \A i \in Sources : s \in Destinations(config, i) => ~Live(source[i])

SinkDrains(s) ==
    /\ sink[s] = "running" /\ (token \/ Closed(s))
    /\ sink' = [sink EXCEPT ![s] = "draining"]
    /\ UNCHANGED <<config, phase, source, writing, source_tasks, sink_tasks,
                   observer, token, interrupted, outcome, drained, result>>

SinkEnds(s) ==
    /\ sink[s] = "draining" /\ ~writing[s]
    /\ sink' = [sink EXCEPT ![s] = "ok"]
    /\ UNCHANGED <<config, phase, source, writing, source_tasks, sink_tasks,
                   observer, token, interrupted, outcome, drained, result>>

\* report and serve watch their token; serve may also fail to bind, which is
\* logged and nothing else.
ObserverEnds(o) ==
    /\ observer[o] = "running" /\ (token \/ o = "serve")
    /\ observer' = [observer EXCEPT ![o] = "ended"]
    /\ UNCHANGED <<config, phase, source, sink, writing, source_tasks, sink_tasks,
                   token, interrupted, outcome, drained, result>>

Start ==
    \/ Accept
    \/ Reject
    \/ \E s \in Sinks : BuildSink(s)
    \/ \E i \in Sources : BuildSource(i)
    \/ BuildFails
    \/ Supervise

Stop ==
    \/ CtrlC
    \/ JoinSource
    \/ JoinSink
    \/ Cancel
    \/ \E i \in Sources : AbortSource(i)
    \/ SourcesDown
    \/ DrainJoins
    \/ DrainEnds
    \/ Return

Task ==
    \/ \E i \in Sources : SourceFails(i)
    \/ \E i \in Sources : SourceStops(i)
    \/ \E s \in Sinks : SinkWrites(s)
    \/ \E s \in Sinks : SinkAcks(s)
    \/ \E s \in Sinks : SinkFails(s)
    \/ \E s \in Sinks : SinkDrains(s)
    \/ \E s \in Sinks : SinkEnds(s)
    \/ \E o \in DOMAIN observer : ObserverEnds(o)

Next == Start \/ Stop \/ Task

Spec == Init /\ [][Next]_vars

\* run is polled whenever something it waits for has happened, and a sink leaves
\* its loop when it must and ends when it has drained.  An interrupt is never
\* forced, nor a failure, nor the answer of a write.
Fairness ==
    /\ WF_vars(JoinSource) /\ WF_vars(JoinSink) /\ WF_vars(Cancel)
    /\ WF_vars(\E i \in Sources : AbortSource(i)) /\ WF_vars(SourcesDown)
    /\ WF_vars(DrainJoins) /\ WF_vars(DrainEnds) /\ WF_vars(Return)
    /\ WF_vars(\E s \in Sinks : SinkDrains(s))
    /\ WF_vars(\E s \in Sinks : SinkEnds(s))

FairSpec == Spec /\ Fairness

----------------------------------------------------------------------------
(* Properties *)

\* Success hides no failure of a sink (run, outcome.and(drained)): if run returns
\* Ok it was interrupted, since a source returns Ok only when cancelled and a sink
\* that ends cleanly does not end the run, and every sink ended by itself and
\* cleanly, although one may fail at any moment between the interrupt and the end
\* of the drain.  It says nothing of a source that fails once the interrupt has
\* been taken: source_tasks.shutdown() throws away what it returned.
CleanResult == result = "ok" => interrupted /\ \A s \in Sinks : sink[s] = "ok"

\* What runs was checked (Config::validate, runtime_settings): the settings of
\* a started component are those the runtime modules assume, and every input
\* of a started sink is a source of the configuration.
Runnable ==
    /\ \A s \in Sinks : sink[s] # "none" =>
         LET c == config.sinks[s]
             r == runtime_settings(c)
         IN  /\ {c.buffer_capacity, c.batch_max_events, c.batch_max_bytes,
                 r.max_concurrent_writes, r.retry_max_attempts} \subseteq Nat \ {0}
             /\ r.retry_initial_backoff <= r.retry_max_backoff
             /\ \E i \in Sources : s \in Destinations(config, i)
             /\ c.inputs \subseteq Sources
    /\ \A i \in Sources : source[i] # "none" =>
         LET c == config.sources[i]
         IN  {c.batch_size, c.max_in_flight_batches, c.max_in_flight_bytes}
               \subseteq Nat \ {0}

\* What the destinations must do for the drain to end: no sink waits for ever
\* with a write in flight.  It is true of a Kafka sink, and an assumption about
\* the server of a ClickHouse sink (WritesAnswered of module SinkRuntime).
WritesAnswered ==
    \A s \in UNION {DOMAIN c.sinks : c \in Configs} :
      []<>(s \in Sinks => ~(Live(sink[s]) /\ writing[s]))

\* A failure ends the run (select, join_all, first_failure): once a source or a
\* sink has failed, or the interrupt came, run returns if the destinations answer
\* the writes in flight, for the drain waits for every sink without a timeout.
FailureEndsRun ==
    WritesAnswered =>
      ((\/ interrupted
        \/ phase = "select" /\ \/ \E i \in Sources : source[i] = "err"
                               \/ \E s \in Sinks : sink[s] = "err")
         ~> phase = "returned")

\* What the comments at the drain and at join_all say: sinks get the chance to
\* finish their in-flight writes, every task is waited for.
InFlightWritesFinish == drained # "none" => \A s \in Sinks : ~writing[s]

=============================================================================
