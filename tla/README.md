# rustper: TLA+ models and proofs

rustper routes events from Kafka topics to Kafka and ClickHouse sinks with
at-least-once delivery: an offset is committed only after every sink of the
source acknowledged every event below it. This directory models the router's
own logic from the source, checks it with TLC on small instances, and proves
the central properties with TLAPS for every value of the parameters.

Paths below are relative to `src/src/` of the repository.

## 1. Inventory

| Component | State it keeps | Operations | Talks to |
|---|---|---|---|
| Kafka source (`source/kafka.rs`) | batch under assembly, JoinSet of fan-out tasks, byte budget, sequence numbers, reorder map of completions, counters | the arms of the select: shutdown, join, deadline, recv; `dispatch!`, `offsets_for`, `commit_contiguous`, `post_rebalance` | librdkafka consumer, `Fanout`, cancellation token, metrics |
| Fan-out (`topology.rs`, `Fanout`, `BranchAck`) | one `AckState` per batch (remaining, delivered, oneshot), a flag per branch | `send`, `complete`, `Drop` | bounded channels of the sinks |
| Sink runtime (`sink/mod.rs`) | group being coalesced, JoinSet of writes, retry state, counters | accept, coalesce, free a slot, spawn, `write_with_retry`, `reap`, drain | channel, `Sink::write_batches`, envelopes' acknowledgements |
| Kafka sink (`sink/kafka.rs`) | one `BatchTracker` per write (remaining, failed, error, notify) | enqueue loop, `settle`, `delivery` callback, `take_error` | librdkafka producer and its polling thread |
| ClickHouse sink (`sink/clickhouse/`) | row buffer and `WriteOutcome` of one write | `write_event_rows`, `write_json_rows`, `write_row`, `write_json_string` | ClickHouse over HTTP |
| Supervisor (`topology.rs`, `run`) | JoinSets of sources, sinks and reporting tasks, token, outcome | validate, build, wire, select, cancel, drain | all tasks |
| Configuration (`config.rs`) | immutable | `validate`, `runtime_settings`, `batch_limits` | supervisor |
| Events (`event.rs`, `TopicCache` and `to_event` of `source/kafka.rs`) | chunk of `BatchBuffer`, last and interned topic names | `copy`, `intern`, `to_event`, `estimated_size` | source, sinks |
| Metrics (`metrics.rs`) | atomics | updates, `snapshot`, `rates_since`, `render_prometheus` | source, sinks, reporting |
| Reporting (`metrics/server.rs`, `ThroughputReporter`) | the previous snapshot; listener and detached connections; window of the throughput line | `report`, `serve`, `route`, `record` | metrics, token, HTTP clients |
| Tools (`main.rs`, `bin/`, `examples/`) | none of their own | start-up, load generation, probes | |

The hard behaviours: fan-outs that finish out of order against a commit that
must stay contiguous; asynchronous commits; rebalances and crashes with work in
flight; acknowledgements that arrive by a call or by a destructor; a shared
counter decremented by two threads; retries of partly stored groups; shutdown
that meets every loop in the middle; snapshots of counters that move; memory
shared by batches that end in any order. `PROJECT.json` lists them, each at its
line, with the property that watches it.

## 2. Modules

| Module | Models | Proofs |
|---|---|---|
| `KafkaLog` | partitions, offsets (with gaps), events | |
| `AtLeastOnce` | the promise: offsets move only to places below which everything was delivered | |
| `KafkaSource` | the source, the group coordinator, other members, crash and restart; implements `AtLeastOnce` | `RouterProofs` |
| `Fanout` | `Fanout::send` and the acknowledgement protocol | `FanoutProofs` |
| `SinkRuntime` | `sink::run` and `write_with_retry` | `SinkRuntimeProofs` |
| `KafkaSink` | `write_batches`, `BatchTracker`, the polling thread | `KafkaSinkProofs` |
| `JsonRow`, `ClickhouseSink` | JSON rows and the two ClickHouse write paths | `EventProofs` |
| `Config`, `Topology` | `validate` and `topology::run` | `TopologyProofs` |
| `Router` | `KafkaSource` and `Fanout` composed with sinks and what their destinations store; implements `AtLeastOnce` end to end | `RouterProofs` |
| `Reporting` | counters, snapshots, the log reporter, the endpoint, the throughput line | `ReportingProofs` |
| `Intake` | `to_event`, `BatchBuffer`, `TopicCache` and the lifetime of chunks | `EventProofs` |
| `Sums` | what a sum over a finite set is and how it changes, for the proofs | itself |

`MC*` modules give the constants of small instances. Each module is one side of
an interface: `KafkaSource` sees a fan-out as a task that answers Ok or Err;
`Fanout` shows that Ok means delivered by every sink; `SinkRuntime` shows that
delivered means stored; `KafkaSink` and `ClickhouseSink` show that a write that
returns Ok stored the group; `Topology` shows that the settings these modules
assume are the ones `validate` lets through (`Runnable`).

`Router` puts the first of these together instead of trusting the interfaces. It
extends `KafkaSource` and instantiates `Fanout`: a batch the source dispatches is
the call with its number, `FanoutOk` and `FanoutErr` happen only when that call
ends with that answer, and `acked` is no longer a history of the source's own but
is compared with `stored`, what each destination holds. Tasks of a source that
has returned go on until they are aborted; a crash or a restart clears the
memory and leaves the offsets and the destinations. The sink is the part of
`SinkRuntime` that matters here: at most `max_concurrent_writes` envelopes
written, in the order of the queue, attempts that store any part, delivered only
after everything is stored. It may go on after a failed write, which the code
does not; that only adds behaviours.

Correspondence. An action is an arm of a select, a step between two awaits, or
one access to shared memory where threads race (`KafkaSink`). Variables have
the names of the locals and fields. `commit_contiguous` is one action per turn
of its loop (`CommitNext`), because the broker sees each commit and the loop may
end halfway. A returning `run` is `Leave`, `Return` or `Exit`: everything it owns
is dropped in that step, which completes the dropped branches as failed. Each
action's comment and the `map` of `PROJECT.json` give its lines.

Abstractions:

- Time: linger, backoff and deadlines are steps that may happen once armed.
- The bias of `select!` is left out. A task can finish right after its arm was
  polled, so every order of the arms is possible anyway.
- A fan-out task that finished and one that `join_next` can return are the same.
- An event is the place it was read from; bytes are a size (`Bytes`, `BytesOf`).
  In `JsonRow` a payload is a sequence of token classes and a key a sequence of
  character classes, because commas and escapes are what that code is about. The
  classes of a payload are braces, commas, newlines, other whitespace and members,
  each with all that is nested in it. Whitespace inside a payload is copied as it
  is, newlines too, so the row of a pretty-printed object is several lines. The
  server reads objects and not lines (`Pieces`, `AllObjects`).
- In `KafkaSource` `bytes_in` moves with `events_in` and is left out; `Reporting`
  has both. A rate is the difference it divides, a response or a log line the
  snapshot it shows. A snapshot loads counters one at a time in any order, which
  is what relaxed loads allow.
- In `Intake` a value is its length and a chunk is its capacity; a chunk is
  resident while a view of it or the arena holds it.
- The producer queue has one limit, in records; `queue.buffering.max.kbytes`
  gives the same answer. There is one polling thread (`ThreadedProducer`).
- In `Topology` a sink has writes in flight or not, and a source runs or not.
- External parts (coordinator, other members, librdkafka queues, the ClickHouse
  server) do anything their interface allows: commits are lost and reordered, a
  failed insert may have stored any part.

Names called `mutant` in a comment are altered versions of the definition that
follows; the properties are known to reject them, nothing else uses them.

## 3. Runs

| Run | Question | Instance | Distinct states |
|---|---|---|---|
| `source` | the source is safe, implements `AtLeastOnce`, reopens its window and commits what completes if fan-outs answer | one partition with a gap, 3 events of unequal size, batches of 2, window of 2 batches and 3 bytes, 2 assignments, 1 restart | 308,032 |
| `fanout` | the acknowledgement protocol, and that no call hangs if sinks settle | two sinks, three calls (to both sinks, to one, to none), queues of 1 | 27,718 |
| `sink` | the sink runtime is safe, keeps the order of its queue with one write at a time, and, if the destination answers, answers every branch and ends | 3 envelopes of unequal size, 1 or 2 concurrent writes, 2 attempts | 239,397 |
| `kafka_write` | the tracker at every interleaving, and that no write parks for ever | writes of 1, 3 and 0 records over a queue of 2, 2 errors | 129,338 |
| `topology` | start, supervision, shutdown; a failure or an interrupt ends the run if destinations answer | two sources, two sinks, one fed by both; 18 configurations that differ in one setting | 32,030 |
| `clickhouse` | rows, keys, counts, Ok means stored | every payload of up to 4 tokens over 5 classes, newlines among them, an object over several lines, two objects on two lines, every key of up to 3 characters over 6 classes, a second event | 210,148 |
| `router` | no committed offset passes an event some destination lacks | two symmetric sinks with queues of 1, 2 batches of one event, 1 restart (one batch after it), one assignment for each process | 535,749 |
| `reporting` | what is counted is told, once, and in the end | 3 counters, commits of 0, 1 and 3 events against a line every 2, one observer at a time | 128,589 |
| `intake` | topics, allocations and resident memory | 2 topics, keys of 0, 1 and 5, payloads of 0, 1 and 3 bytes, chunks of 4, 4 messages, batches of up to 3 | 2,582,943 |
| `topology_drain`, `router_order`, `clickhouse_rows` | three sentences of the repository that the code does not keep | as above | violated |

Why the bounds are enough. In `source` two batches are in flight at once and
finish in either order, the byte limit closes the window before the batch limit
does and the other way round, the partition is revoked and comes back while its
batch is in flight, and a second member moves the offset in between. Several
partitions multiply the states and add no case to the loop; the proofs cover any
number. In `fanout` a full queue blocks a call that already enqueued elsewhere.
In `sink` a group is closed by events and by bytes, and a fatal write meets
another one in flight. In `router` both batches of a process are in flight at
once, a sink holds one while the other waits in its queue or in its task, and a
restart replays what was not committed. In `reporting` a commit of 3 jumps over a
line. In `intake` values fit, do not fit and exceed a chunk, and a batch released
early leaves chunks between two that live. In `kafka_write` two writes fill the queue together, so
both paths of a full queue, the early settlement and reports in every order
occur. In `clickhouse` the short payloads include every arrangement of braces,
commas and whitespace that object_body tells apart, and the two longer ones are
those whose rows are not one line. The proofs below remove the
bounds of every passing run for its safety properties.

Most runs stop checking for deadlock: a router that was stopped, a sink that
returned and a write that is over have nothing left to do.

### What the violated properties show

- `topology_drain`: `join_all` returns at the first failure, so a sink that
  fails in the drain cuts short the writes of another one. Nothing is lost, the
  offsets are not committed; the comment at the drain promises more.
- `router_order`: the README and `config.rs` tie out-of-order arrival to
  `max_concurrent_writes > 1`. One write at a time keeps the order of the sink's
  queue (`SequentialOrder`), but every batch is sent by a task of its own, so the
  order of the queue need not be the order of the source.
- `clickhouse_rows`: a payload is accepted by its first and last byte, so a row
  may be no JSON object and fail the whole insert.

Other disagreements have no run of their own.

- The comment at `topology.rs:173` says the reporter must keep running while sinks
  drain, but it has a child of the token that is cancelled before the drain, so it
  ends first (`Cancel` and `ObserverEnds` in `Topology`, the `\/ token` of
  `EventuallyLogged`).
- Rows that ClickHouse skips under `allow_errors_num` or `allow_errors_ratio` count
  as written, although the help text of `rustper_sink_events_total` says "Events
  written." (`InsertEnds` in `ClickhouseSink` keeps `outcome`).
- A payload of two objects side by side passes `object_body`. It is one written
  event to the router and two rows to ClickHouse, and only the first of them gets
  the metadata columns in front (`Readable`; `RowsStandAlone` has "every payload
  sent is an object" as its premise). `json.rs:78` speaks of "one `JSONEachRow`
  line", which a payload with newlines inside is not either; that one is harmless,
  since ClickHouse looks for objects.

## 4. Fairness

Weak fairness of the steps of a task says that the tokio runtime polls a task
that can move and that timers fire. Strong fairness is used three times: for
getting a permit of a channel (tokio's semaphore is first come, first served), for
the report of a record among the reports of others (librdkafka serves its queue in
order), and for the cancellation arm of `report`, whose `select!` is not biased and
picks at random among the arms that are ready. No failure, interrupt, rebalance,
commit acknowledgement or new work is ever assumed to happen.

What destinations do is not scheduling, and is assumed at the interfaces only
where it is named here.

- `KafkaSink` assumes that every record the producer accepted is reported, which
  `message.timeout.ms` brings about, unless `delivery_timeout_ms` is 0. With it,
  and the deadline of the queue, `WriteReturns` shows that a write of a Kafka sink
  returns.
- A write of a ClickHouse sink has no such bound: `ClickhouseSink::new` takes
  `Client::default()` without a timeout, and neither `insert.end()`, nor
  `write_with_retry`, nor the drain of the sink, nor `join_all` in `run` is timed.
  A server that accepts the connection and never answers stalls the source with a
  full window, and the process does not end when it is interrupted. So
  `SinkRuntime` and `Topology` have no fairness for the answer to a write, and
  `EveryBranchAnswered`, `ShutdownEnds` and `FailureEndsRun` have it as their
  premise, `WritesAnswered`.
- `EventuallyAcked` and `EventuallyCommitted` assume that a fan-out answers (which
  answer is open), and `NoCallHangs` that a sink settles or loses what it holds.
  They inherit the same condition: with a silent ClickHouse server they do not
  hold of the router.

## 5. Proofs

All theorems are for arbitrary constants under the named assumptions of the
module they extend; the assumptions are what `Config::validate` guarantees
(positive batch sizes, windows and capacities), that a batch's size is bounded,
that offsets are naturals, that a router has finitely many sinks, that lengths
of keys and payloads are bounded (`message.max.bytes`), and that a group of
events is a sequence of payloads and keys over some set of symbols. TLC
evaluates them in every run. Each invariant is shown inductive: a lemma for the
initial states, one for a step with a case for each action, and the property as
a consequence.

| Theorem | States |
|---|---|
| `NoEventLost`, `EveryBatchCounted`, `WindowBounded`, `BytesAreExact`, `EventsAreCountedOnce`, `SourceImplements` | the source |
| `OkIsDelivered`, `AckIsExact`, `RejectionHasCause` | the fan-out |
| `SinkDeliversWhatItStored`, `SinkConserves`, `SinkStaysWithinSettings`, `CleanExitHidesNothing`, `OneWriteKeepsOrder` | the sink runtime |
| `OkIsWritten`, `TrackerExact`, `AttemptIsOver`, `FirstErrorWins` | the Kafka write |
| `NothingCommittedIsMissing`, `RouterImplements` | the composition, to the destinations |
| `SuccessHidesNothing`, `StartedIsRunnable` | the supervisor |
| `ThroughputIsExact`, `LogTellsOnce`, `NoScrapeFalls` | the reporting |
| `TopicsAreExact`, `AllocationsStayBounded`, `MemoryStaysBounded` | the intake |
| `OkIsStored`, `DropsHaveCause`, `KeysAlwaysSurvive`, `RowsAlwaysStandAlone` | the ClickHouse write |

`RouterProofs`, the source. `NoEventLost` is `CommitSafe`: every committed or requested
offset has only acknowledged events below it. It is not inductive. The
strengthening `SourceInv` adds: batches outstanding are numbered exactly from
`next_commit_sequence` to `sequence - 1`, each once (`NoBatchLost`); completed
batches are acknowledged (`AckedInv`); and whatever lies below an event of batch
k in its partition is acknowledged or held in a batch numbered at most k, below
an event under assembly or below the consumer's position held somewhere
(`OrderInv`). The due batch has the least number, so all that lies below its
events is acknowledged or in itself, and it is acknowledged too. A reassignment
keeps this because the position restarts at a committed, covered offset.
`SourceImplements` maps `delivered` to `acked` and shows that each step is a
step of `AtLeastOnce` or a stutter. `WindowBounded` rests on `PendingAdmitted`:
assembly never starts unless its batch may leave. `BytesAreExact` and
`EventsAreCountedOnce` share `AccountInv`: the two sums, that a source out of its
loop holds nothing (a restart counts from zero), and that nothing is left to be
counted when the loop is at its select (the join arm resets the local of
`commit_contiguous`). Numbers being unique, a batch that changes its result or
moves to the reorder map is never merged with another one.

`Sums`. The accounts are sums over sets of batches, folds of a recursive function
that picks elements by CHOOSE. The induction theorems of the library have an
operator as parameter and cannot be used; instead an inductive argument is about
the *set* of numbers that have the property and the least number outside it
(`LeastNumber`, `SetInduction`). From this: the recursive function exists on the
subsets of a finite set, is unique, does not depend on the order of the picks
(`FoldRemoves`), and a sum grows by the value of an added element
(`SumFunctionExtends`); the sum over a union of sets is at most the sum of
their sums (`SumUnion`, `SumFamily`).

`FanoutProofs`. `FanoutInv` says of each call that completed branches are those
settled or gone, `remaining` is the number of the others, the answer is sent
exactly at zero, and `delivered` is true exactly if all completed branches were
written; and of each channel that it holds queued envelopes, each once.
`OkIsDelivered`, `AckIsExact` and `RejectionHasCause` follow.

`SinkRuntimeProofs`. Everything is read off the order of arrival (`OrderInv`): the
channel and the group are its tail, and while `run` lives what it dispatched is
exactly the part before. `WriteInv` says that writes hold disjoint groups and that
the envelopes of a write were told what its status says; `AckInv` accounts for
every envelope: one that is dispatched and not delivered is in a write, or the
failure of its write was noted. `CountInv` sums this up: input, group and running
writes hold exactly the envelopes that are not settled. `GroupInv` says that a
group passes its limits by its last envelope only. `SerialInv` (with one write at
a time a failed write was the last one) carries `SequentialOrder` over a failure.

`KafkaSinkProofs`. `SinkInv` counts the records nobody has settled yet, says what
each place of the writer implies for its locals, and follows the first error
from its report through the swap and the store to the tracker.

`RouterProofs`, the composition. It keeps the invariants of its parts: a step of the
router is a step of `KafkaSource` or leaves the source's variables alone, so the
step lemma for `SourceInv` is used as it stands, and the fan-out is an instance of
`FanoutProofs` with every call going to every sink, so the lemma for `FanoutInv`
is too, or the memory is lost and the fan-out starts again. What is new is `TaskInv`: a task works on the batch of its number, a
number not given out has no call, a branch that was written has its batch at its
sink, and what the source believes acknowledged is in every destination. Then
`CommitSafe` of the source becomes `CommittedIsStored` of the destinations.
`RouterImplements` has the hypothesis that there is a sink: a source nobody reads
commits everything and stores it nowhere, which is the case listed at
`topology.rs:81` in `PROJECT.json`.

`TopologyProofs`. `TopologyInv` says which results are decided in which phase, that
a source that ends before the token is cancelled has failed (so that the select is
left with Ok by the interrupt alone), and that a sink `run` no longer waits for
ended cleanly or its failure is in `outcome` or `drained`. `SuccessHidesNothing` is
about sinks: a source that fails while the interrupt is handled is shut down with
the others and its error is thrown away, so `run` may return Ok all the same.

`ReportingProofs`. `SnapshotInv` orders, counter by counter, what a reader
published last, what it has loaded since, and the counter. `ThroughputExact` needs
Euclidean division (`NextReportDue`) and that the counter and the line are updated
from the same local (`JoinInv`).

`EventProofs`, the intake. `NameInv` says that the map of interned names and the
list of names are inverse to each other; the slot for the last topic is compared
by name, so it needs no invariant of its own. `MemoryInv` has two halves, both
potentials. `Spent` says that the chunks before the last one, and what is used of
the last one, are paid for by twice the bytes copied: a new chunk is begun only
when a value does not fit, so the rest of the old chunk is shorter than that
value. `Assembles` and `Assembled` say the same of the chunks one batch holds,
but for the chunks at its ends that it shares; `MemoryStaysBounded` sums this
over the batches, whatever order they end in. The attempt to prove it showed that the
bound of `ArenaBounded` was wrong in a case the run did not reach: the chunk the
arena itself keeps may be as large as the largest key, not only the largest
payload. Both the bound and the instance were corrected.

`EventProofs`, the ClickHouse write. `SinkInv` says which events are stored at
each place of the write (`StoredInv`) and that the events offered so far split
into those sent and those dropped, counted, with the first one noted
(`DroppedInv`). The rest is about sequences of any length, and proceeds by
`SetInduction` over their lengths.

- Keys: whatever part of a key is left, the reader placed at its escaped form
  returns its text (`ReadFrom`), since the reader consumes exactly what `Escape`
  wrote for one character (`ReadUnfold`); `KeyReadsBack` is the case of the whole
  key.
- Objects: trimming keeps the first and last token that is not whitespace
  (`TrimSplits`, `InkEnds`), so the two bytes `object_body` looks at are the braces
  of anything that is an object (`ObjectAccepted`).
- Rows: members and commas alternate in an object (`Alternates`), and joining two
  such lists by a comma gives another (`AlternatesJoin`); `separate` adds a comma to
  all but the first member (`SeparateAppend`), and an empty body adds nothing
  (`SplicedIs`). `RowWritten` puts these together for one row.
- Buffer: `BufferInv` says that, as long as the payloads sent are objects, a reader
  that leaves whitespace out finds in the buffer as many pieces as rows were
  counted, and that the n-th is the row of the n-th event sent. Newlines do not
  matter to it, neither those inside payloads nor those `write_row` adds
  (`InkConcat`); adding a row changes no earlier piece (`RowsGrow`), because a row
  has no closing brace before its last token.

Every invariant of a passing run is stated by a theorem. Only model-checked are:

- the liveness properties: fairness and ENABLED are out of the prover's reach;
- the three violated properties, whose counterexamples are the result.

Induction over data is possible only in the form above, about sets of numbers and
functions defined by their domain. The operators of the model that are recursive
are therefore recursive functions, each unfolded by a lemma of its own.

## 6. Not modelled

TOML parsing, default values and the librdkafka settings passed through;
`escape_identifier`; the Prometheus text and HTTP framing; `main.rs`, the load
generator, the benchmark and the examples. They are sequential and mostly I/O.
The contents of a chunk are not modelled: a view is a slice that `BytesMut`
split off, and nothing writes to it afterwards. Retries of a coalesced group of
several envelopes are in `SinkRuntime` only; `Router` writes one envelope at a
time.

## 7. Plan

1. `SinkRuntime` as an implementation of the sink that `Router` assumes, with
   groups of several envelopes.
2. A property for the reorder map of completions (`source/kafka.rs:284`), which
   grows while one batch is stuck and which the in-flight limits do not count.
