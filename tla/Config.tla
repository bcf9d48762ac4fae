------------------------------- MODULE Config -------------------------------
(***************************************************************************)
(* The configuration (config.rs) as far as the router's behaviour depends  *)
(* on it, and Config::validate.  A config is a record: sources and sinks   *)
(* are functions from component ids to settings, which have the names of   *)
(* the TOML keys; a ratio is given in hundredths.  Addresses, topics'      *)
(* names, credentials and librdkafka tuning are passed on unread.          *)
(***************************************************************************)
EXTENDS Integers, FiniteSetsExt

\* delivery_settings!: zero concurrency or attempts count as one.
runtime_settings(sink) ==
    [max_concurrent_writes |-> Max({sink.max_concurrent_writes, 1}),
     retry_max_attempts    |-> Max({sink.retry_max_attempts, 1}),
     retry_initial_backoff |-> sink.retry_initial_backoff_ms,
     retry_max_backoff     |-> sink.retry_max_backoff_ms]

LimitsEvents(sink) == sink.batch_max_events # 0   \* mutant: max_bytes unchecked
batch_limits(sink) == sink.batch_max_events # 0 /\ sink.batch_max_bytes # 0

\* What validate asks of a ClickHouse sink only.
ValidRows(sink) ==
    sink.type = "clickhouse" =>
      /\ sink.schema = "event" => sink.metadata_columns = {}
      /\ sink.allow_errors_ratio \in 0..100

ValidSink(config, sink) ==
    /\ sink.inputs # {}
    /\ sink.buffer_capacity # 0
    /\ batch_limits(sink)
    /\ ValidRows(sink)
    /\ runtime_settings(sink).retry_initial_backoff
         <= runtime_settings(sink).retry_max_backoff
    /\ sink.inputs \subseteq DOMAIN config.sources

ValidSource(source) ==
    /\ source.topics # {}
    /\ source.batch_size # 0
    /\ source.max_in_flight_batches # 0
    /\ source.max_in_flight_bytes # 0

validate(config) ==
    /\ DOMAIN config.sources # {} /\ DOMAIN config.sinks # {}
    /\ \A s \in DOMAIN config.sinks : ValidSink(config, config.sinks[s])
    /\ \A i \in DOMAIN config.sources : ValidSource(config.sources[i])

\* topology.rs, run: the sinks that name the source among their inputs.
Destinations(config, i) == {s \in DOMAIN config.sinks : i \in config.sinks[s].inputs}
=============================================================================
