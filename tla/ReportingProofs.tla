-------------------------- MODULE ReportingProofs --------------------------
(***************************************************************************)
(* Proofs about Reporting, for any counters, connections and report size.  *)
(***************************************************************************)
EXTENDS Reporting, TLAPS

\* Snapshots, while they are taken: the counters loaded so far.
Partial == UNION {[S -> Nat] : S \in SUBSET Counters}

TypeOK ==
    /\ counter \in [Counters -> Nat]
    /\ join \in [at : {"select", "bytes", "record"}, events : Nat]
    /\ processed \in Nat
    /\ throughput \in [next_report : Nat, window_events : Nat, shown : Nat]
    /\ shot \in [Readers -> Partial]
    /\ reporter \in {"first", "waiting", "loading", "ended"}
    /\ previous \in [Counters -> Nat] /\ told \in [Counters -> Nat]
    /\ listener \in {"off", "binding", "listening", "failed", "ended"}
    /\ connection \in [Clients -> {"none", "idle", "loading"}]
    /\ answer \in [Clients -> Partial]
    /\ token \in BOOLEAN

\* Between two turns of the join arm nothing is left to record.
JoinInv == join.events <= processed /\ (join.at = "select" => join.events = 0)

\* A value that was loaded is at most what the counter is now, and at least
\* what the same reader published last.
SnapshotInv ==
    /\ \A r \in Readers : \A k \in DOMAIN shot[r] : shot[r][k] <= counter[k]
    /\ \A k \in DOMAIN shot["report"] : previous[k] <= shot["report"][k]
    /\ \A c \in Clients : \A k \in DOMAIN answer[c] :
         /\ answer[c][k] <= counter[k]
         /\ k \in DOMAIN shot[c] => answer[c][k] <= shot[c][k]

ReportingInv == TypeOK /\ JoinInv /\ ThroughputExact /\ SnapshotInv /\ LoggedOnce

----------------------------------------------------------------------------
(* Operators *)

\* Euclidean division: where the next line is due (ThroughputReporter::record).
LEMMA NextReportDue ==
  ASSUME NEW n \in Nat
  PROVE  /\ NextReport(n) \in Nat /\ NextReport(n) % Every = 0
         /\ NextReport(n) - Every <= n /\ n < NextReport(n)
<1>1. Every \in Nat \ {0}
  BY ReportingAssumption
<1>2. n \div Every \in Nat /\ n % Every \in 0..(Every - 1)
  BY <1>1
<1>3. n = Every * (n \div Every) + (n % Every)
  BY <1>1
<1>4. \A q \in Nat : q * Every \in Nat /\ (q * Every) % Every = 0
  BY <1>1
<1>5. n \div Every + 1 \in Nat
  BY <1>2
<1>6. NextReport(n) = Every * (n \div Every) + Every
  BY <1>1, <1>2 DEF NextReport
<1>7. NextReport(n) \in Nat /\ NextReport(n) % Every = 0
  BY <1>4, <1>5 DEF NextReport
<1> QED BY <1>1, <1>2, <1>3, <1>6, <1>7

\* fetch_add moves one counter, and never down.
LEMMA CountersGrow ==
  ASSUME NEW k \in Counters, NEW n \in Nat, counter \in [Counters -> Nat], fetch_add(k, n)
  PROVE  counter' \in [Counters -> Nat] /\ \A x \in Counters : counter[x] <= counter'[x]
BY DEF fetch_add

\* What a snapshot under way is, seen from its parts.
LEMMA PartialFacts ==
  /\ \A f \in Partial : DOMAIN f \subseteq Counters /\ \A k \in DOMAIN f : f[k] \in Nat
  /\ Nothing \in Partial /\ DOMAIN Nothing = {}
  /\ \A f \in Partial : DOMAIN f = Counters => f \in [Counters -> Nat]
<1>1. ASSUME NEW f \in Partial
      PROVE  \E S \in SUBSET Counters : f \in [S -> Nat]
  BY DEF Partial
<1>2. Nothing \in [{} -> Nat]
  BY DEF Nothing
<1>3. Nothing \in Partial
  BY <1>2 DEF Partial
<1> QED BY <1>1, <1>2, <1>3

\* A load adds one counter, at its present value, to the snapshot.
LEMMA LoadFacts ==
  ASSUME NEW r \in Readers, TypeOK, Load(r)
  PROVE  \E k \in Counters :
           /\ shot' \in [Readers -> Partial]
           /\ DOMAIN shot'[r] = DOMAIN shot[r] \union {k}
           /\ shot'[r][k] = counter[k]
           /\ \A x \in DOMAIN shot[r] : x # k => shot'[r][x] = shot[r][x]
           /\ \A q \in Readers : q # r => shot'[q] = shot[q]
<1> DEFINE D == DOMAIN shot[r]
<1>1. PICK k \in Counters \ D :
        shot' = [shot EXCEPT ![r] = [x \in D \union {k} |->
                   IF x = k THEN counter[k] ELSE shot[r][x]]]
  BY DEF Load
<1> DEFINE f == [x \in D \union {k} |-> IF x = k THEN counter[k] ELSE shot[r][x]]
<1>2. shot[r] \in Partial /\ counter[k] \in Nat /\ shot \in [Readers -> Partial]
  BY <1>1 DEF TypeOK
<1>3. D \subseteq Counters /\ \A x \in D : shot[r][x] \in Nat
  BY <1>2, PartialFacts
<1>4. f \in [D \union {k} -> Nat] /\ D \union {k} \in SUBSET Counters
  BY <1>1, <1>2, <1>3
<1>5. f \in Partial
  BY <1>4 DEF Partial
<1>6. DOMAIN f = D \union {k} /\ f[k] = counter[k] /\ \A x \in D : x # k => f[x] = shot[r][x]
  OBVIOUS
<1>7. shot' = [shot EXCEPT ![r] = f]
  BY <1>1
<1> HIDE DEF f, D
<1>8. shot'[r] = f /\ \A q \in Readers : q # r => shot'[q] = shot[q]
  BY <1>2, <1>7
<1>9. shot' \in [Readers -> Partial]
  BY <1>2, <1>5, <1>7
<1> QED BY <1>1, <1>6, <1>8, <1>9 DEF D

\* A published snapshot is complete.
LEMMA TakenFacts ==
  ASSUME NEW r \in Readers, TypeOK, Taken(r)
  PROVE  shot[r] \in [Counters -> Nat] /\ shot[r] \in Partial
BY PartialFacts DEF TypeOK, Taken

\* Forgetting a snapshot, as every end of one does.
LEMMA ForgetFacts ==
  ASSUME NEW r \in Readers, TypeOK, Forget(r)
  PROVE  /\ shot' \in [Readers -> Partial] /\ DOMAIN shot'[r] = {}
         /\ \A q \in Readers : q # r => shot'[q] = shot[q]
BY PartialFacts DEF TypeOK, Forget

----------------------------------------------------------------------------
(* Types *)

LEMMA InitType == Init => TypeOK
<1> SUFFICES ASSUME Init PROVE TypeOK
  OBVIOUS
<1>1. Every \in Nat
  BY ReportingAssumption
<1>2. Zero \in [Counters -> Nat]
  BY DEF Zero
<1>3. shot \in [Readers -> Partial] /\ answer \in [Clients -> Partial]
  BY PartialFacts DEF Init
<1>4. /\ reporter \in {"first", "waiting", "loading", "ended"}
      /\ listener \in {"off", "binding", "listening", "failed", "ended"}
  BY DEF Init
<1> QED BY <1>1, <1>2, <1>3, <1>4 DEF Init, TypeOK

LEMMA TypeStep == TypeOK /\ [Next]_vars => TypeOK'
<1> SUFFICES ASSUME TypeOK, [Next]_vars PROVE TypeOK'
  OBVIOUS
<1> USE DEF sourceVars, reportVars, serveVars
<1>0. /\ "events_in" \in Counters /\ "bytes_in" \in Counters /\ SinkCounters \subseteq Counters
      /\ "report" \in Readers /\ Clients \subseteq Readers
  BY DEF Counters, Readers
<1>1. CASE JoinEvents
  <2>1. PICK n \in Runs : processed' = processed + n /\ fetch_add("events_in", n)
                          /\ join' = [at |-> "bytes", events |-> n]
    BY <1>1 DEF JoinEvents
  <2>2. n \in Nat
    BY ReportingAssumption
  <2>3. counter' \in [Counters -> Nat]
    BY <1>0, <2>1, <2>2, CountersGrow DEF TypeOK
  <2> QED BY <1>1, <2>1, <2>2, <2>3 DEF JoinEvents, TypeOK
<1>2. CASE JoinBytes
  <2>1. counter' \in [Counters -> Nat]
    BY <1>0, <1>2, CountersGrow DEF TypeOK, JoinBytes
  <2> QED BY <1>2, <2>1 DEF JoinBytes, TypeOK
<1>3. CASE JoinRecords
  <2>1. throughput' \in [next_report : Nat, window_events : Nat, shown : Nat]
    <3>1. NextReport(processed) \in Nat
      BY NextReportDue DEF TypeOK
    <3> QED BY <1>3, <3>1 DEF JoinRecords, record, TypeOK
  <2> QED BY <1>3, <2>1 DEF JoinRecords, TypeOK
<1>4. ASSUME NEW k \in SinkCounters, SinkCounts(k) PROVE TypeOK'
  <2>1. counter' \in [Counters -> Nat]
    BY <1>0, <1>4, CountersGrow DEF TypeOK, SinkCounts
  <2> QED BY <1>4, <2>1 DEF SinkCounts, TypeOK
<1>5. ASSUME NEW r \in Readers, Load(r) PROVE TypeOK'
  <2>1. shot' \in [Readers -> Partial]
    BY <1>5, LoadFacts
  <2> QED BY <1>5, <2>1 DEF Load, TypeOK
<1>6. CASE ReportStarts
  BY <1>0, <1>6, TakenFacts, ForgetFacts DEF ReportStarts, TypeOK
<1>7. CASE ReportTicks
  BY <1>7 DEF ReportTicks, TypeOK
<1>8. CASE ReportLogs
  <2>1. shot["report"] \in [Counters -> Nat] /\ shot' \in [Readers -> Partial]
    BY <1>0, <1>8, TakenFacts, ForgetFacts DEF ReportLogs
  <2>2. \A k \in Counters : rates_since(k) \in Nat
    BY <2>1 DEF TypeOK, rates_since, saturating_sub
  <2>3. told' \in [Counters -> Nat] /\ previous' \in [Counters -> Nat]
    BY <1>8, <2>1, <2>2 DEF ReportLogs, TypeOK, Current
  <2> QED BY <1>8, <2>1, <2>3 DEF ReportLogs, TypeOK
<1>9. CASE ReportEnds
  BY <1>9 DEF ReportEnds, TypeOK
<1>10. CASE Bind \/ ServeEnds \/ AcceptFails
  BY <1>10 DEF Bind, ServeEnds, AcceptFails, Listens, TypeOK
<1>11. ASSUME NEW c \in Clients, Accept(c) \/ Get(c) \/ NotFound(c) PROVE TypeOK'
  BY <1>11 DEF Accept, Get, NotFound, Connects, TypeOK
<1>12. ASSUME NEW c \in Clients, Respond(c) PROVE TypeOK'
  <2>1. shot[c] \in Partial /\ shot' \in [Readers -> Partial]
    BY <1>0, <1>12, TakenFacts, ForgetFacts DEF Respond
  <2> QED BY <1>12, <2>1 DEF Respond, Connects, TypeOK
<1>13. ASSUME NEW c \in Clients, Disconnect(c) PROVE TypeOK'
  <2>1. shot' \in [Readers -> Partial]
    BY <1>0, <1>13, ForgetFacts DEF Disconnect
  <2> QED BY <1>13, <2>1 DEF Disconnect, Connects, TypeOK
<1>14. CASE Cancel
  BY <1>14 DEF Cancel, TypeOK
<1>15. CASE UNCHANGED vars
  BY <1>15 DEF vars, TypeOK
<1> QED BY <1>1, <1>2, <1>3, <1>4, <1>5, <1>6, <1>7, <1>8, <1>9, <1>10, <1>11, <1>12,
           <1>13, <1>14, <1>15 DEF Next

----------------------------------------------------------------------------
(* The throughput lines *)

LEMMA ThroughputStep ==
  TypeOK /\ JoinInv /\ ThroughputExact /\ [Next]_vars => JoinInv' /\ ThroughputExact'
<1> SUFFICES ASSUME TypeOK, JoinInv, ThroughputExact, [Next]_vars
             PROVE  JoinInv' /\ ThroughputExact'
  OBVIOUS
<1>0. Every \in Nat \ {0}
  BY ReportingAssumption
<1>1. CASE JoinEvents
  <2>1. PICK n \in Runs : processed' = processed + n /\ join' = [at |-> "bytes", events |-> n]
    BY <1>1 DEF JoinEvents
  <2>2. n \in Nat /\ join.events = 0 /\ processed \in Nat
    BY <1>1, ReportingAssumption DEF JoinEvents, JoinInv, TypeOK
  <2>3. processed' - join'.events = processed - join.events /\ throughput' = throughput
    BY <1>1, <2>1, <2>2 DEF JoinEvents
  <2>4. JoinInv'
    BY <2>1, <2>2 DEF JoinInv
  <2> QED BY <2>3, <2>4 DEF ThroughputExact
<1>2. CASE JoinBytes
  <2>1. join'.events = join.events /\ join'.at = "record" /\ processed' = processed
        /\ throughput' = throughput
    BY <1>2 DEF JoinBytes, TypeOK
  <2> QED BY <2>1 DEF JoinInv, ThroughputExact
<1>3. CASE JoinRecords
  <2> DEFINE window == throughput.window_events + join.events
  <2>1. /\ processed \in Nat /\ join.events \in Nat /\ throughput.shown \in Nat
        /\ throughput.window_events \in Nat /\ throughput.next_report \in Nat
    BY DEF TypeOK
  <2>2. /\ throughput.shown + window = processed
        /\ throughput.next_report % Every = 0
        /\ throughput.next_report - Every <= processed
    BY <1>0, <2>1 DEF ThroughputExact, JoinInv
  <2>3. /\ join'.at = "select" /\ join'.events = 0 /\ processed' = processed
        /\ record(join.events, processed)
    BY <1>3 DEF JoinRecords
  <2>4. JoinInv'
    BY <2>1, <2>3 DEF JoinInv
  <2>5. CASE processed < throughput.next_report
    <3>1. /\ throughput'.next_report = throughput.next_report
          /\ throughput'.window_events = window /\ throughput'.shown = throughput.shown
      BY <2>3, <2>5 DEF record, TypeOK
    <3> QED BY <2>1, <2>2, <2>3, <2>4, <2>5, <3>1 DEF ThroughputExact
  <2>6. CASE ~(processed < throughput.next_report)
    <3>1. /\ throughput'.next_report = NextReport(processed)
          /\ throughput'.window_events = 0 /\ throughput'.shown = throughput.shown + window
      BY <2>3, <2>6 DEF record
    <3>2. /\ NextReport(processed) \in Nat /\ NextReport(processed) % Every = 0
          /\ NextReport(processed) - Every <= processed /\ processed < NextReport(processed)
      BY <2>1, NextReportDue
    <3> QED BY <2>1, <2>2, <2>3, <2>4, <3>1, <3>2 DEF ThroughputExact
  <2> QED BY <2>5, <2>6
<1>4. CASE UNCHANGED sourceVars
  BY <1>4 DEF sourceVars, JoinInv, ThroughputExact
<1>5. [Next]_vars => JoinEvents \/ JoinBytes \/ JoinRecords \/ UNCHANGED sourceVars
  BY DEF Next, vars, SinkCounts, Load, ReportStarts, ReportTicks, ReportLogs, ReportEnds,
         Bind, ServeEnds, AcceptFails, Listens, Accept, Get, NotFound, Respond, Disconnect,
         Connects, Cancel, sourceVars
<1> QED BY <1>1, <1>2, <1>3, <1>4, <1>5

----------------------------------------------------------------------------
(* Snapshots *)

\* Counters grow and no snapshot is taken or published: what was loaded stays
\* below them.
LEMMA SnapshotsKeep ==
  ASSUME TypeOK, SnapshotInv, LoggedOnce, counter' \in [Counters -> Nat],
         \A k \in Counters : counter[k] <= counter'[k],
         UNCHANGED <<shot, previous, told, answer>>
  PROVE  SnapshotInv' /\ LoggedOnce'
<1>1. /\ \A r \in Readers : \A k \in DOMAIN shot[r] : k \in Counters /\ shot[r][k] \in Nat
      /\ \A c \in Clients : \A k \in DOMAIN answer[c] : k \in Counters /\ answer[c][k] \in Nat
  BY PartialFacts DEF TypeOK
<1>2. \A r \in Readers : \A k \in DOMAIN shot'[r] : shot'[r][k] <= counter'[k]
  BY <1>1 DEF SnapshotInv, TypeOK
<1>3. \A c \in Clients : \A k \in DOMAIN answer'[c] :
        answer'[c][k] <= counter'[k] /\ (k \in DOMAIN shot'[c] => answer'[c][k] <= shot'[c][k])
  BY <1>1 DEF SnapshotInv, TypeOK
<1>4. \A k \in DOMAIN shot'["report"] : previous'[k] <= shot'["report"][k]
  BY DEF SnapshotInv
<1>5. LoggedOnce'
  BY DEF LoggedOnce, TypeOK
<1> QED BY <1>2, <1>3, <1>4, <1>5 DEF SnapshotInv

LEMMA SnapshotStep ==
  TypeOK /\ SnapshotInv /\ LoggedOnce /\ [Next]_vars => SnapshotInv' /\ LoggedOnce'
<1> SUFFICES ASSUME TypeOK, SnapshotInv, LoggedOnce, [Next]_vars
             PROVE  SnapshotInv' /\ LoggedOnce'
  OBVIOUS
<1> USE DEF sourceVars, reportVars, serveVars
<1>0. /\ "events_in" \in Counters /\ "bytes_in" \in Counters /\ SinkCounters \subseteq Counters
      /\ "report" \in Readers /\ Clients \subseteq Readers
  BY DEF Counters, Readers
<1>1. /\ \A r \in Readers : \A k \in DOMAIN shot[r] : k \in Counters /\ shot[r][k] \in Nat
      /\ \A c \in Clients : \A k \in DOMAIN answer[c] : k \in Counters /\ answer[c][k] \in Nat
      /\ \A k \in Counters : counter[k] \in Nat /\ previous[k] \in Nat /\ told[k] \in Nat
  BY PartialFacts DEF TypeOK
<1>2. ASSUME NEW k \in Counters, NEW n \in Nat, fetch_add(k, n),
             UNCHANGED <<shot, previous, told, answer>>
      PROVE  SnapshotInv' /\ LoggedOnce'
  BY <1>2, CountersGrow, SnapshotsKeep DEF TypeOK
<1>3. CASE JoinEvents
  BY <1>0, <1>2, <1>3, ReportingAssumption DEF JoinEvents
<1>4. CASE JoinBytes
  BY <1>0, <1>2, <1>4 DEF JoinBytes, TypeOK
<1>5. ASSUME NEW k \in SinkCounters, SinkCounts(k) PROVE SnapshotInv' /\ LoggedOnce'
  BY <1>0, <1>2, <1>5 DEF SinkCounts
<1>6. ASSUME UNCHANGED <<counter, shot, previous, told, answer>>
      PROVE  SnapshotInv' /\ LoggedOnce'
  BY <1>6 DEF SnapshotInv, LoggedOnce
<1>7. ASSUME NEW r \in Readers, Load(r) PROVE SnapshotInv' /\ LoggedOnce'
  <2>1. UNCHANGED <<counter, previous, told, answer>>
    BY <1>7 DEF Load
  <2>2. PICK k \in Counters :
          /\ DOMAIN shot'[r] = DOMAIN shot[r] \union {k} /\ shot'[r][k] = counter[k]
          /\ \A x \in DOMAIN shot[r] : x # k => shot'[r][x] = shot[r][x]
          /\ \A q \in Readers : q # r => shot'[q] = shot[q]
    BY <1>7, LoadFacts
  <2>3. \A q \in Readers : \A x \in DOMAIN shot'[q] : shot'[q][x] <= counter[x]
    BY <1>1, <2>2 DEF SnapshotInv
  <2>4. \A x \in DOMAIN shot'["report"] : previous[x] <= shot'["report"][x]
    BY <1>0, <2>2 DEF SnapshotInv, LoggedOnce
  <2>5. \A c \in Clients : \A x \in DOMAIN answer[c] :
          x \in DOMAIN shot'[c] => answer[c][x] <= shot'[c][x]
    BY <1>0, <2>2 DEF SnapshotInv
  <2>6. \A c \in Clients : \A x \in DOMAIN answer[c] : answer[c][x] <= counter[x]
    BY DEF SnapshotInv
  <2> QED BY <2>1, <2>3, <2>4, <2>5, <2>6 DEF SnapshotInv, LoggedOnce
<1>8. ASSUME NEW r \in Readers, Forget(r), UNCHANGED <<counter, answer>>,
             previous' \in [Counters -> Nat], told' = previous',
             \A k \in Counters : previous'[k] <= counter[k],
             r = "report" \/ previous' = previous
      PROVE  SnapshotInv' /\ LoggedOnce'
  <2>1. DOMAIN shot'[r] = {} /\ \A q \in Readers : q # r => shot'[q] = shot[q]
    BY <1>8, ForgetFacts
  <2>2. \A q \in Readers : \A x \in DOMAIN shot'[q] : shot'[q][x] <= counter[x]
    BY <2>1 DEF SnapshotInv
  <2>3. \A x \in DOMAIN shot'["report"] : previous'[x] <= shot'["report"][x]
    BY <1>0, <1>8, <2>1 DEF SnapshotInv
  <2>4. \A c \in Clients : \A x \in DOMAIN answer[c] :
          answer[c][x] <= counter[x] /\ (x \in DOMAIN shot'[c] => answer[c][x] <= shot'[c][x])
    BY <1>0, <2>1 DEF SnapshotInv
  <2> QED BY <1>8, <2>2, <2>3, <2>4 DEF SnapshotInv, LoggedOnce
<1>9. told = previous
  BY DEF LoggedOnce, TypeOK
<1>10. CASE ReportStarts
  <2>1. shot["report"] \in [Counters -> Nat] /\ \A k \in Counters : shot["report"][k] <= counter[k]
    BY <1>0, <1>10, TakenFacts DEF ReportStarts, SnapshotInv
  <2> QED BY <1>0, <1>8, <1>10, <2>1 DEF ReportStarts
<1>11. CASE ReportLogs
  <2>1. /\ shot["report"] \in [Counters -> Nat]
        /\ \A k \in Counters : shot["report"][k] <= counter[k] /\ previous[k] <= shot["report"][k]
    BY <1>0, <1>11, TakenFacts DEF ReportLogs, SnapshotInv
  <2>2. \A k \in Counters : told[k] + rates_since(k) = shot["report"][k]
    BY <1>1, <1>9, <2>1 DEF rates_since, saturating_sub
  <2>3. told' = shot["report"] /\ previous' = shot["report"]
    BY <1>11, <2>1, <2>2 DEF ReportLogs, Current
  <2> QED BY <1>0, <1>8, <1>11, <2>1, <2>3 DEF ReportLogs
<1>12. ASSUME NEW c \in Clients, Disconnect(c) PROVE SnapshotInv' /\ LoggedOnce'
  <2>1. Forget(c) /\ UNCHANGED <<counter, answer, previous, told>>
    BY <1>12 DEF Disconnect, Connects
  <2> QED BY <1>0, <1>8, <1>9, <2>1 DEF LoggedOnce, TypeOK
<1>13. ASSUME NEW c \in Clients, Respond(c) PROVE SnapshotInv' /\ LoggedOnce'
  <2>1. /\ Forget(c) /\ UNCHANGED <<counter, previous, told>> /\ Taken(c)
        /\ answer' = [answer EXCEPT ![c] = shot[c]]
    BY <1>13 DEF Respond, Connects
  <2>2. DOMAIN shot'[c] = {} /\ \A q \in Readers : q # c => shot'[q] = shot[q]
    BY <1>0, <2>1, ForgetFacts
  <2>3. \A q \in Readers : \A x \in DOMAIN shot'[q] : shot'[q][x] <= counter[x]
    BY <2>2 DEF SnapshotInv
  <2>4. \A x \in DOMAIN shot'["report"] : previous[x] <= shot'["report"][x]
    BY <1>0, <2>2 DEF SnapshotInv
  <2>5. answer'[c] = shot[c] /\ \A d \in Clients : d # c => answer'[d] = answer[d]
    BY <2>1 DEF TypeOK
  <2>6. \A d \in Clients : \A x \in DOMAIN answer'[d] :
          answer'[d][x] <= counter[x] /\ (x \in DOMAIN shot'[d] => answer'[d][x] <= shot'[d][x])
    BY <1>0, <2>2, <2>5 DEF SnapshotInv
  <2> QED BY <2>1, <2>3, <2>4, <2>6 DEF SnapshotInv, LoggedOnce
<1>14. \/ JoinRecords \/ ReportTicks \/ ReportEnds \/ Bind \/ ServeEnds \/ AcceptFails
       \/ (\E c \in Clients : Accept(c) \/ Get(c) \/ NotFound(c)) \/ Cancel \/ UNCHANGED vars
       => UNCHANGED <<counter, shot, previous, told, answer>>
  BY DEF JoinRecords, ReportTicks, ReportEnds, Bind, ServeEnds, AcceptFails, Listens,
         Accept, Get, NotFound, Connects, Cancel, vars
<1> QED BY <1>3, <1>4, <1>5, <1>6, <1>7, <1>10, <1>11, <1>12, <1>13, <1>14 DEF Next

----------------------------------------------------------------------------
(* Theorems *)

\* The inductive invariant of the reporters holds in every state: types, what
\* is left to record, and the order of counters, snapshots and publications.
THEOREM ReportingInvariant == Spec => []ReportingInv
<1>1. Init => ReportingInv
  <2> SUFFICES ASSUME Init PROVE ReportingInv
    OBVIOUS
  <2>1. Every \in Nat \ {0}
    BY ReportingAssumption
  <2>2. 0 \in Nat /\ Every % Every = 0
    BY <2>1
  <2>3. JoinInv /\ ThroughputExact
    BY <2>1, <2>2 DEF Init, JoinInv, ThroughputExact
  <2>4. \A r \in Readers : DOMAIN shot[r] = {}
    BY PartialFacts DEF Init
  <2>5. \A c \in Clients : DOMAIN answer[c] = {}
    BY PartialFacts DEF Init
  <2>6. SnapshotInv
    BY <2>4, <2>5 DEF SnapshotInv, Readers
  <2>7. LoggedOnce
    BY DEF Init, LoggedOnce, Zero
  <2> QED BY <2>3, <2>6, <2>7, InitType DEF ReportingInv
<1>2. ReportingInv /\ [Next]_vars => ReportingInv'
  BY TypeStep, ThroughputStep, SnapshotStep DEF ReportingInv
<1> QED BY <1>1, <1>2, PTL DEF Spec

\* ThroughputReporter::record: the lines and the open window add up to what was
\* committed, and the next line is due at the next multiple of REPORT_EVERY.
THEOREM ThroughputIsExact == Spec => []ThroughputExact
<1>1. ReportingInv => ThroughputExact
  BY DEF ReportingInv
<1> QED BY <1>1, ReportingInvariant, PTL

\* report and rates_since: the logged intervals of a counter join up without gap
\* or overlap, whatever the counters did while the snapshots were taken.
THEOREM LogTellsOnce == Spec => []LoggedOnce
<1>1. ReportingInv => LoggedOnce
  BY DEF ReportingInv
<1> QED BY <1>1, ReportingInvariant, PTL

\* render_prometheus: on a connection no counter is ever shown to fall.
THEOREM NoScrapeFalls == Spec => ScrapesNeverFall
<1> DEFINE Rises == \A c \in Clients : \A k \in DOMAIN answer[c] :
                      answer[c][k] <= answer'[c][k]
<1>1. ReportingInv /\ [Next]_vars => [Rises]_vars
  <2> SUFFICES ASSUME ReportingInv, Next,
                      NEW c \in Clients, NEW k \in DOMAIN answer[c]
               PROVE  answer[c][k] <= answer'[c][k]
    OBVIOUS
  <2>1. k \in Counters /\ answer[c][k] \in Nat
    BY PartialFacts DEF ReportingInv, TypeOK
  <2>2. CASE UNCHANGED answer
    BY <2>1, <2>2
  <2>3. ASSUME NEW d \in Clients, Respond(d)
        PROVE  answer[c][k] <= answer'[c][k]
    <3>1. answer' = [answer EXCEPT ![d] = shot[d]] /\ DOMAIN shot[d] = Counters
      BY <2>3 DEF Respond, Taken
    <3>2. answer'[c] = IF c = d THEN shot[c] ELSE answer[c]
      BY <3>1 DEF ReportingInv, TypeOK
    <3>3. c = d => answer[c][k] <= shot[c][k]
      BY <2>1, <3>1 DEF ReportingInv, SnapshotInv
    <3> QED BY <2>1, <3>2, <3>3
  <2>4. Next => UNCHANGED answer \/ \E d \in Clients : Respond(d)
    BY DEF Next, serveVars, JoinEvents, JoinBytes, JoinRecords, SinkCounts, Load,
           ReportStarts, ReportTicks, ReportLogs, ReportEnds, Bind, ServeEnds, AcceptFails,
           Listens, Accept, Get, NotFound, Disconnect, Cancel
  <2> QED BY <2>2, <2>3, <2>4
<1> QED BY <1>1, ReportingInvariant, PTL DEF Spec, ScrapesNeverFall

=============================================================================
