----------------------------- MODULE Reporting -----------------------------
(***************************************************************************)
(* What the router says about itself: the counters (metrics.rs), which     *)
(* tasks update and others read with relaxed atomics, the log reporter and *)
(* the /metrics endpoint (metrics/server.rs), and the ThroughputReporter   *)
(* of the source (source/kafka.rs).                                        *)
(*                                                                         *)
(* A snapshot loads the counters one at a time, in any order that relaxed  *)
(* loads allow, while they move; the log reporter and every connection of  *)
(* the endpoint are readers of their own.  The source adds to its counters *)
(* in successive steps of its join arm; sinks add to theirs at any time.   *)
(* Ticks of the reporter are at different times, so a rate is given by the *)
(* difference it divides; gauges are loaded like counters and shown as     *)
(* they are, and a rendered response is the snapshot it renders.           *)
(***************************************************************************)
EXTENDS Naturals, FiniteSets

CONSTANTS
    SinkCounters,   \* counters of the sinks
    Clients,        \* connections of the endpoint
    Every,          \* REPORT_EVERY
    Settings,       \* bound: pairs of log_interval_seconds > 0 and `listen` set
    Runs,           \* bound: events committed by one turn of the source
    MaxEvents,      \* bound: events committed by the source
    MaxCount        \* bound: a counter of a sink

ASSUME ReportingAssumption ==
    /\ {"events_in", "bytes_in"} \intersect SinkCounters = {}
    /\ Every \in Nat \ {0}
    /\ Settings \subseteq BOOLEAN \X BOOLEAN
    /\ Runs \subseteq Nat /\ {MaxEvents, MaxCount} \subseteq Nat

Counters == {"events_in", "bytes_in"} \union SinkCounters

VARIABLES
    counter,     \* counter[k]: the atomics of Metrics
    join,        \* the join arm of the source: its pc, and the events committed
    processed,   \* local of KafkaSource::run
    throughput,  \* ThroughputReporter, and the events its lines have shown
    shot,        \* shot[r]: what the snapshot reader r is taking has loaded
    reporter,    \* report: "first", "waiting", "loading", "ended"
    previous,    \* local of report
    told,        \* history: its first snapshot, plus the differences logged since
    listener,    \* serve: "off", "binding", "listening", "failed", "ended"
    connection,  \* connection[c]: "none", "idle", "loading"
    answer,      \* history: the last snapshot a response of c has shown
    token        \* the cancellation token

sourceVars == <<join, processed, throughput>>
reportVars == <<reporter, previous, told>>
serveVars == <<listener, connection, answer>>
vars == <<counter, sourceVars, shot, reportVars, serveVars, token>>

Readers == {"report"} \union Clients
Nothing == [k \in {} |-> 0]
Zero == [k \in Counters |-> 0]

\* The settings decide whether there is a log reporter and a listener.
Init ==
    /\ counter = Zero
    /\ join = [at |-> "select", events |-> 0] /\ processed = 0
    /\ throughput = [next_report |-> Every, window_events |-> 0, shown |-> 0]
    /\ shot = [r \in Readers |-> Nothing]
    /\ \E set \in Settings :
         /\ reporter = IF set[1] THEN "first" ELSE "ended"
         /\ listener = IF set[2] THEN "binding" ELSE "off"
    /\ previous = Zero /\ told = Zero
    /\ connection = [c \in Clients |-> "none"]
    /\ answer = [c \in Clients |-> Nothing]
    /\ token = FALSE

----------------------------------------------------------------------------
(* Updates *)

Overwrites(k, n) == counter' = [counter EXCEPT ![k] = n]   \* mutant: a store
fetch_add(k, n) == counter' = [counter EXCEPT ![k] = @ + n]

\* commit_contiguous has returned: events_in, bytes_in (one byte an event) and
\* the throughput line follow, one after the other.
JoinEvents ==
    /\ join.at = "select"
    /\ \E n \in Runs :
         /\ processed + n <= MaxEvents
         /\ processed' = processed + n
         /\ fetch_add("events_in", n)
         /\ join' = [at |-> "bytes", events |-> n]
    /\ UNCHANGED <<throughput, shot, reportVars, serveVars, token>>

JoinBytes ==
    /\ join.at = "bytes"
    /\ fetch_add("bytes_in", join.events)
    /\ join' = [join EXCEPT !.at = "record"]
    /\ UNCHANGED <<processed, throughput, shot, reportVars, serveVars, token>>

OneStep(total) == throughput.next_report + Every   \* mutant: `+=`
NextReport(total) == (total \div Every + 1) * Every

\* ThroughputReporter::record.
record(events, total) ==
    LET window == throughput.window_events + events
    IN  throughput' = IF total < throughput.next_report
                      THEN [throughput EXCEPT !.window_events = window]
                      ELSE [next_report |-> NextReport(total), window_events |-> 0,
                            shown |-> throughput.shown + window]

JoinRecords ==
    /\ join.at = "record"
    /\ record(join.events, processed)
    /\ join' = [at |-> "select", events |-> 0]
    /\ UNCHANGED <<counter, processed, shot, reportVars, serveVars, token>>

SinkCounts(k) ==
    /\ counter[k] < MaxCount
    /\ fetch_add(k, 1)
    /\ UNCHANGED <<sourceVars, shot, reportVars, serveVars, token>>

----------------------------------------------------------------------------
(* Metrics::snapshot *)

Taking(r) == IF r = "report" THEN reporter \in {"first", "loading"}
                             ELSE connection[r] = "loading"
Taken(r) == DOMAIN shot[r] = Counters

Load(r) ==
    /\ Taking(r)
    /\ \E k \in Counters \ DOMAIN shot[r] :
         shot' = [shot EXCEPT ![r] = [x \in DOMAIN @ \union {k} |->
                    IF x = k THEN counter[k] ELSE @[x]]]
    /\ UNCHANGED <<counter, sourceVars, reportVars, serveVars, token>>

Forget(r) == shot' = [shot EXCEPT ![r] = Nothing]

----------------------------------------------------------------------------
(* report *)

\* The snapshot the first interval starts from; it is not logged.
ReportStarts ==
    /\ reporter = "first" /\ Taken("report")
    /\ previous' = shot["report"] /\ told' = shot["report"]
    /\ Forget("report")
    /\ reporter' = "waiting"
    /\ UNCHANGED <<counter, sourceVars, serveVars, token>>

ReportTicks ==
    /\ reporter = "waiting"
    /\ reporter' = "loading"
    /\ UNCHANGED <<counter, sourceVars, shot, previous, told, serveVars, token>>

\* Snapshot::rates_since: the difference a rate divides.
saturating_sub(a, b) == IF a >= b THEN a - b ELSE 0
WrongWay(k) == saturating_sub(previous[k], shot["report"][k])   \* mutant
rates_since(k) == saturating_sub(shot["report"][k], previous[k])

KeepsPrevious == previous   \* mutant: rates since the start of the process
Current == shot["report"]

ReportLogs ==
    /\ reporter = "loading" /\ Taken("report")
    /\ told' = [k \in Counters |-> told[k] + rates_since(k)]
    /\ previous' = Current
    /\ Forget("report")
    /\ reporter' = "waiting"
    /\ UNCHANGED <<counter, sourceVars, serveVars, token>>

ReportEnds ==
    /\ reporter = "waiting" /\ token
    /\ reporter' = "ended"
    /\ UNCHANGED <<counter, sourceVars, shot, previous, told, serveVars, token>>

----------------------------------------------------------------------------
(* serve *)

Listens(from, to) ==
    /\ listener = from /\ listener' = to
    /\ UNCHANGED <<counter, sourceVars, shot, reportVars, connection, answer, token>>

Bind == Listens("binding", "listening") \/ Listens("binding", "failed")

ServeEnds == token /\ Listens("listening", "ended")

\* accept answers with an error: the loop goes on.
AcceptFails == Listens("listening", "listening")

Connects(c, from, to) ==
    /\ connection[c] = from
    /\ connection' = [connection EXCEPT ![c] = to]
    /\ UNCHANGED <<counter, sourceVars, reportVars, listener, token>>

\* Each connection is served by a task nobody keeps a handle of.
Accept(c) ==
    /\ listener = "listening"
    /\ Connects(c, "none", "idle") /\ UNCHANGED <<shot, answer>>

\* route: GET /metrics takes a snapshot, anything else is answered with 404.
Get(c) == Connects(c, "idle", "loading") /\ UNCHANGED <<shot, answer>>
NotFound(c) == Connects(c, "idle", "idle") /\ UNCHANGED <<shot, answer>>

\* render_prometheus.
Respond(c) ==
    /\ Taken(c)
    /\ Connects(c, "loading", "idle")
    /\ answer' = [answer EXCEPT ![c] = shot[c]]
    /\ Forget(c)

Disconnect(c) ==
    /\ \E from \in {"idle", "loading"} : Connects(c, from, "none")
    /\ Forget(c) /\ UNCHANGED answer

Cancel ==
    /\ ~token /\ token' = TRUE
    /\ UNCHANGED <<counter, sourceVars, shot, reportVars, serveVars>>

Next ==
    \/ JoinEvents \/ JoinBytes \/ JoinRecords
    \/ \E k \in SinkCounters : SinkCounts(k)
    \/ \E r \in Readers : Load(r)
    \/ ReportStarts \/ ReportTicks \/ ReportLogs \/ ReportEnds
    \/ Bind \/ ServeEnds \/ AcceptFails
    \/ \E c \in Clients : Accept(c) \/ Get(c) \/ NotFound(c) \/ Respond(c) \/ Disconnect(c)
    \/ Cancel

Spec == Init /\ [][Next]_vars

\* Tasks run when they can and the interval timer ticks.  The select of report
\* is not biased: with the token cancelled it cannot miss that arm for ever.
Fairness ==
    /\ WF_vars(Load("report")) /\ WF_vars(ReportStarts) /\ WF_vars(ReportLogs)
    /\ WF_vars(ReportTicks) /\ SF_vars(ReportEnds)
    /\ WF_vars(JoinBytes) /\ WF_vars(JoinRecords)

FairSpec == Spec /\ Fairness

----------------------------------------------------------------------------
(* Properties *)

\* The throughput lines add up (ThroughputReporter::record): every committed
\* event is in exactly one line or in the open window, and the next line is due
\* at the first multiple of REPORT_EVERY above what was recorded, also when one
\* run of commits jumps over several multiples.
ThroughputExact ==
    LET recorded == processed - join.events
    IN  /\ throughput.shown + throughput.window_events = recorded
        /\ throughput.next_report % Every = 0
        /\ throughput.next_report - Every <= recorded
        /\ recorded < throughput.next_report

\* The log tells every count once (report, rates_since): although snapshots are
\* torn and counters move while they are taken, the intervals of a counter join
\* up without gap or overlap, and no difference saturates.
LoggedOnce ==
    \A k \in Counters :
      /\ told[k] = previous[k]
      /\ previous[k] <= counter[k]

\* A scraper never sees a counter fall (fetch_add, snapshot, render_prometheus),
\* which it would take for a restart: later responses on a connection show at
\* least what earlier ones did, counter by counter.
ScrapesNeverFall ==
    [][\A c \in Clients : \A k \in DOMAIN answer[c] :
         answer[c][k] <= answer'[c][k]]_vars

\* Losses become visible with nothing but the log (report): what a running
\* reporter has not logged yet it logs in the end, unless the token stops it
\* first, and then the last interval is never logged.
EventuallyLogged ==
    \A k \in Counters : \A n \in 1..MaxEvents :
      (reporter # "ended" /\ counter[k] >= n) ~> (told[k] >= n \/ token)
=============================================================================
