----------------------------- MODULE MCTopology -----------------------------
(* Two sources and two sinks, one of them fed by both, and configurations   *)
(* that differ from the good one in one setting.                            *)
EXTENDS Topology

GoodSource == [topics |-> {"orders"}, batch_size |-> 1000,
               max_in_flight_batches |-> 8, max_in_flight_bytes |-> 256]

GoodSink == [type |-> "kafka", inputs |-> {"a"}, buffer_capacity |-> 32,
             batch_max_events |-> 10000, batch_max_bytes |-> 16,
             max_concurrent_writes |-> 1, retry_max_attempts |-> 5,
             retry_initial_backoff_ms |-> 100, retry_max_backoff_ms |-> 5000]

RowSink == [type |-> "clickhouse", inputs |-> {"a", "b"}, buffer_capacity |-> 32,
            batch_max_events |-> 10000, batch_max_bytes |-> 16,
            max_concurrent_writes |-> 1, retry_max_attempts |-> 5,
            retry_initial_backoff_ms |-> 100, retry_max_backoff_ms |-> 5000,
            schema |-> "event", metadata_columns |-> {}, allow_errors_ratio |-> 0]

ConfigOf(a, x, y) ==
    [sources |-> [i \in {"a", "b"} |-> IF i = "a" THEN a ELSE GoodSource],
     sinks |-> [s \in {"x", "y"} |-> IF s = "x" THEN x ELSE y],
     log_interval_seconds |-> 10, listen |-> TRUE]

Good == ConfigOf(GoodSource, GoodSink, RowSink)

\* Sources of which one feeds no sink, and a router without reporting.
Unfed == [ConfigOf(GoodSource, GoodSink, [RowSink EXCEPT !.inputs = {"a"}])
            EXCEPT !.log_interval_seconds = 0, !.listen = FALSE]

OneSettingOff ==
    {ConfigOf([GoodSource EXCEPT !.topics = {}], GoodSink, RowSink),
     ConfigOf([GoodSource EXCEPT !.batch_size = 0], GoodSink, RowSink),
     ConfigOf([GoodSource EXCEPT !.max_in_flight_batches = 0], GoodSink, RowSink),
     ConfigOf([GoodSource EXCEPT !.max_in_flight_bytes = 0], GoodSink, RowSink)}
    \union {ConfigOf(GoodSource, x, RowSink) : x \in
      {[GoodSink EXCEPT !.inputs = {}], [GoodSink EXCEPT !.inputs = {"a", "c"}],
       [GoodSink EXCEPT !.buffer_capacity = 0],
       [GoodSink EXCEPT !.batch_max_events = 0],
       [GoodSink EXCEPT !.batch_max_bytes = 0],
       [GoodSink EXCEPT !.max_concurrent_writes = 0, !.retry_max_attempts = 0],
       [GoodSink EXCEPT !.retry_max_backoff_ms = 99]}}
    \union {ConfigOf(GoodSource, GoodSink, y) : y \in
      {[RowSink EXCEPT !.metadata_columns = {"topic"}],
       [RowSink EXCEPT !.metadata_columns = {"topic"}, !.schema = "json"],
       [RowSink EXCEPT !.allow_errors_ratio = 101]}}
    \union {[Good EXCEPT !.sources = [i \in {} |-> GoodSource]],
            [Good EXCEPT !.sinks = [s \in {} |-> GoodSink]]}

AllConfigs == {Good, Unfed} \union OneSettingOff
GoodConfigs == {Good}
=============================================================================
