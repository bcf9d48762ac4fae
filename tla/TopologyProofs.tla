--------------------------- MODULE TopologyProofs ---------------------------
(***************************************************************************)
(* Proofs about Topology, for any set of configurations.                   *)
(***************************************************************************)
EXTENDS Topology, TLAPS

\* What the proofs need of the types.
TypeOK ==
    /\ config \in Configs
    /\ phase \in {"validate", "build", "select", "cancel", "sources", "drain",
                  "observers", "returned"}
    /\ source \in [Sources -> {"none", "running", "ok", "err", "aborted"}]
    /\ sink \in [Sinks -> {"none", "running", "draining", "ok", "err", "aborted"}]
    /\ source_tasks \subseteq Sources /\ sink_tasks \subseteq Sinks
    /\ {outcome, drained, result} \subseteq {"none", "ok", "err"}
    /\ token \in BOOLEAN /\ interrupted \in BOOLEAN

\* Nothing is started before the configuration was accepted.
StartInv ==
    /\ phase = "build" => validate(config)
    /\ \A s \in Sinks : sink[s] # "none" => validate(config)
    /\ \A i \in Sources : source[i] # "none" => validate(config)

\* What is decided, and where run is: the select decides `outcome`, the drain
\* `drained`, and the end `result`.
PhaseInv ==
    /\ phase \in {"validate", "build", "select"} => outcome = "none" /\ ~token
    /\ phase \in {"sources", "drain", "observers"} => token
    /\ phase \in {"cancel", "sources", "drain", "observers"} => outcome # "none"
    /\ phase \notin {"observers", "returned"} => drained = "none"
    /\ phase = "observers" => drained # "none"
    /\ phase # "returned" => result = "none"
    /\ phase \notin {"validate", "build", "returned"} => \A s \in Sinks : sink[s] # "none"

\* A source that ends before the token is cancelled has failed, so that the
\* select is left with Ok by the interrupt alone.
SourceInv ==
    /\ \A i \in source_tasks : source[i] # "none"
    /\ ~token /\ phase # "returned" =>
         \A i \in Sources : source[i] \in {"none", "running", "err"}
    /\ outcome = "ok" => interrupted

\* A sink run no longer waits for ended cleanly, or its failure was noted.
SinkInv ==
    /\ \A s \in Sinks : sink[s] = "aborted" => phase = "returned"
    /\ \A s \in sink_tasks : sink[s] # "none"
    /\ \A s \in Sinks : \/ sink[s] = "none" \/ s \in sink_tasks \/ sink[s] = "ok"
                        \/ outcome = "err" \/ drained = "err"
    /\ drained = "ok" => sink_tasks = {}

TopologyInv == TypeOK /\ StartInv /\ PhaseInv /\ SourceInv /\ SinkInv /\ CleanResult

----------------------------------------------------------------------------
(* Every step *)

\* The configuration never changes, and with it the components.
LEMMA ConfigStays == [Next]_vars => config' = config /\ Sources' = Sources /\ Sinks' = Sinks
<1>1. [Next]_vars => config' = config
  BY DEF Next, Start, Stop, Task, vars, Exit, Accept, Reject, BuildSink, BuildSource, BuildFails, Supervise, CtrlC, JoinSource, JoinSink, Cancel, AbortSource, SourcesDown, DrainJoins, DrainEnds, Return, SourceFails, SourceStops, SinkWrites, SinkAcks, SinkFails, SinkDrains, SinkEnds, ObserverEnds
<1> QED BY <1>1 DEF Sources, Sinks

LEMMA Step == TopologyInv /\ [Next]_vars => TopologyInv'
<1> SUFFICES ASSUME TopologyInv, [Next]_vars PROVE TopologyInv'
  OBVIOUS
<1>0. config' = config /\ Sources' = Sources /\ Sinks' = Sinks
  BY ConfigStays
<1> USE <1>0 DEF TopologyInv, TypeOK, StartInv, PhaseInv, SourceInv, SinkInv, CleanResult
<1>1. CASE Accept
  BY <1>1 DEF Accept
<1>2. CASE Reject
  BY <1>2 DEF Reject, Exit, Live
<1>3. ASSUME NEW s \in Sinks, BuildSink(s) PROVE TopologyInv'
  BY <1>3 DEF BuildSink
<1>4. ASSUME NEW i \in Sources, BuildSource(i) PROVE TopologyInv'
  BY <1>4 DEF BuildSource
<1>5. CASE BuildFails
  BY <1>5 DEF BuildFails, Exit, Live
<1>6. CASE Supervise
  BY <1>6 DEF Supervise
<1>7. CASE CtrlC
  BY <1>7 DEF CtrlC, Leave
<1>8. CASE JoinSource
  BY <1>8 DEF JoinSource, Joins, Live, Failed, Leave
<1>9. CASE JoinSink
  BY <1>9 DEF JoinSink, Joins, Live, Failed, Leave
<1>10. CASE Cancel
  BY <1>10 DEF Cancel
<1>11. ASSUME NEW i \in Sources, AbortSource(i) PROVE TopologyInv'
  BY <1>11 DEF AbortSource, Live
<1>12. CASE SourcesDown
  BY <1>12 DEF SourcesDown, Live
<1>13. CASE DrainJoins
  BY <1>13 DEF DrainJoins, Joins, Live, Failed
<1>14. CASE DrainEnds
  BY <1>14 DEF DrainEnds
<1>15. CASE Return
  BY <1>15 DEF Return, Exit, Live, and
<1>16. ASSUME NEW i \in Sources, SourceFails(i) PROVE TopologyInv'
  BY <1>16 DEF SourceFails
<1>17. ASSUME NEW i \in Sources, SourceStops(i) PROVE TopologyInv'
  BY <1>17 DEF SourceStops
<1>18. ASSUME NEW s \in Sinks, SinkWrites(s) PROVE TopologyInv'
  BY <1>18 DEF SinkWrites
<1>19. ASSUME NEW s \in Sinks, SinkAcks(s) PROVE TopologyInv'
  BY <1>19 DEF SinkAcks, Live
<1>20. ASSUME NEW s \in Sinks, SinkFails(s) PROVE TopologyInv'
  BY <1>20 DEF SinkFails, Live
<1>21. ASSUME NEW s \in Sinks, SinkDrains(s) PROVE TopologyInv'
  BY <1>21 DEF SinkDrains
<1>22. ASSUME NEW s \in Sinks, SinkEnds(s) PROVE TopologyInv'
  BY <1>22 DEF SinkEnds
<1>23. ASSUME NEW o \in DOMAIN observer, ObserverEnds(o) PROVE TopologyInv'
  BY <1>23 DEF ObserverEnds
<1>24. CASE UNCHANGED vars
  BY <1>24 DEF vars
<1> QED BY <1>1, <1>2, <1>3, <1>4, <1>5, <1>6, <1>7, <1>8, <1>9, <1>10, <1>11, <1>12, <1>13, <1>14, <1>15, <1>16, <1>17, <1>18, <1>19, <1>20, <1>21, <1>22, <1>23, <1>24 DEF Next, Start, Stop, Task

----------------------------------------------------------------------------
(* Settings *)

\* What Config::validate and the max(1) of the settings make of numbers that
\* were only natural.
LEMMA ValidatedIsRunnable ==
  ASSUME config \in Configs, validate(config)
  PROVE  /\ \A s \in Sinks :
              LET c == config.sinks[s]
                  r == runtime_settings(c)
              IN  /\ {c.buffer_capacity, c.batch_max_events, c.batch_max_bytes,
                      r.max_concurrent_writes, r.retry_max_attempts} \subseteq Nat \ {0}
                  /\ r.retry_initial_backoff <= r.retry_max_backoff
                  /\ \E i \in Sources : s \in Destinations(config, i)
                  /\ c.inputs \subseteq Sources
         /\ \A i \in Sources :
              LET c == config.sources[i]
              IN  {c.batch_size, c.max_in_flight_batches, c.max_in_flight_bytes}
                    \subseteq Nat \ {0}
<1>1. ASSUME NEW n \in Nat PROVE Max({n, 1}) \in Nat \ {0}
  <2>1. PICK m \in {n, 1} : \A x \in {n, 1} : m >= x
    OBVIOUS
  <2>2. Max({n, 1}) \in {n, 1} /\ \A x \in {n, 1} : Max({n, 1}) >= x
    BY <2>1 DEF Max
  <2> QED BY <2>2
<1>2. ASSUME NEW s \in Sinks
      PROVE  LET c == config.sinks[s]
                 r == runtime_settings(c)
             IN  /\ {c.buffer_capacity, c.batch_max_events, c.batch_max_bytes,
                     r.max_concurrent_writes, r.retry_max_attempts} \subseteq Nat \ {0}
                 /\ r.retry_initial_backoff <= r.retry_max_backoff
                 /\ \E i \in Sources : s \in Destinations(config, i)
                 /\ c.inputs \subseteq Sources
  <2> DEFINE c == config.sinks[s]
             r == runtime_settings(c)
  <2>1. {c.buffer_capacity, c.batch_max_events, c.batch_max_bytes,
         c.max_concurrent_writes, c.retry_max_attempts} \subseteq Nat
    BY ConfigAssumption DEF Sinks
  <2>2. ValidSink(config, c)
    BY DEF validate, Sinks
  <2>3. r.max_concurrent_writes \in Nat \ {0} /\ r.retry_max_attempts \in Nat \ {0}
    BY <1>1, <2>1 DEF runtime_settings
  <2>4. c.buffer_capacity # 0 /\ c.batch_max_events # 0 /\ c.batch_max_bytes # 0
    BY <2>2 DEF ValidSink, batch_limits
  <2>5. r.retry_initial_backoff <= r.retry_max_backoff
    BY <2>2 DEF ValidSink
  <2>6. c.inputs \subseteq Sources /\ \E i \in Sources : s \in Destinations(config, i)
    BY <2>2 DEF ValidSink, Sources, Sinks, Destinations
  <2> HIDE DEF c, r
  <2> QED BY <2>1, <2>3, <2>4, <2>5, <2>6 DEF c, r
<1>3. ASSUME NEW i \in Sources
      PROVE  LET c == config.sources[i]
             IN  {c.batch_size, c.max_in_flight_batches, c.max_in_flight_bytes}
                   \subseteq Nat \ {0}
  <2>1. {config.sources[i].batch_size, config.sources[i].max_in_flight_batches,
         config.sources[i].max_in_flight_bytes} \subseteq Nat
    BY ConfigAssumption DEF Sources
  <2>2. ValidSource(config.sources[i])
    BY DEF validate, Sources
  <2> QED BY <2>1, <2>2 DEF ValidSource
<1> QED BY <1>2, <1>3

----------------------------------------------------------------------------
(* Theorems *)

\* The inductive invariant of run: what was started was validated, and what run
\* has noted so far accounts for every task it has joined.
THEOREM TopologyInvariant == Spec => []TopologyInv
<1>1. Init => TopologyInv
  BY DEF Init, TopologyInv, TypeOK, StartInv, PhaseInv, SourceInv, SinkInv, CleanResult
<1> QED BY <1>1, Step, PTL DEF Spec

\* outcome.and(drained): run returns Ok only after an interrupt and when every
\* sink ended by itself and cleanly.
THEOREM SuccessHidesNothing == Spec => []CleanResult
<1>1. TopologyInv => CleanResult
  BY DEF TopologyInv
<1> QED BY <1>1, TopologyInvariant, PTL

\* Config::validate, runtime_settings: whatever was started has the settings the
\* runtime modules assume of it.
THEOREM StartedIsRunnable == Spec => []Runnable
<1>1. TopologyInv => Runnable
  <2> SUFFICES ASSUME TopologyInv PROVE Runnable
    OBVIOUS
  <2>1. config \in Configs
    BY DEF TopologyInv, TypeOK
  <2>2. CASE validate(config)
    BY <2>1, <2>2, ValidatedIsRunnable DEF Runnable
  <2>3. CASE ~validate(config)
    BY <2>3 DEF TopologyInv, StartInv, Runnable
  <2> QED BY <2>2, <2>3
<1> QED BY <1>1, TopologyInvariant, PTL

=============================================================================
