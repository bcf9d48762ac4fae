---------------------------- MODULE RouterProofs ----------------------------
(***************************************************************************)
(* Proofs about KafkaSource and about Router, which extends it, for any    *)
(* log, window, sinks, settings and bounds.  The first part is the source  *)
(* alone, up to SourceImplements.  The second is the composition: it keeps *)
(* the invariants of the source and of the fan-out, as they were proved of *)
(* those modules, and adds how the two and the destinations fit together.  *)
(***************************************************************************)
EXTENDS Router, Sums


----------------------------------------------------------------------------
(* Facts about numbers and finite sequences *)

(* A nonempty finite sequence of naturals has a largest entry: by the least *)
(* length of a counterexample. *)
LEMMA LargestEntry ==
    ASSUME NEW n \in Nat \ {0}, NEW f \in [1..n -> Nat]
    PROVE  \E i \in 1..n : \A j \in 1..n : f[j] <= f[i]
<1> DEFINE Good(m) == \A g \in [1..m -> Nat] :
                        \E i \in 1..m : \A j \in 1..m : g[j] <= g[i]
           Bad == {m \in Nat \ {0} : ~Good(m)}
<1>1. SUFFICES ASSUME Bad # {} PROVE FALSE
  OBVIOUS
<1>2. PICK m \in Bad : \A k \in Bad : m <= k
  <2>1. Bad \in SUBSET Nat
    OBVIOUS
  <2> HIDE DEF Bad
  <2> QED BY <1>1, <2>1, LeastNumber
<1>3. m \in Nat \ {0} /\ ~Good(m)
  BY <1>2
<1>4. PICK g \in [1..m -> Nat] :
            ~ \E i \in 1..m : \A j \in 1..m : g[j] <= g[i]
  BY <1>3
<1>5. \A j \in 1..m : g[j] \in Nat
  BY <1>4
<1>6. m # 1
  <2>1. SUFFICES ASSUME m = 1 PROVE FALSE
    OBVIOUS
  <2>2. \A j \in 1..m : g[j] <= g[1]
    BY <2>1, <1>5
  <2> QED BY <2>1, <2>2, <1>4
<1>7. m - 1 \in Nat \ {0} /\ m - 1 < m
  BY <1>3, <1>6
<1>8. Good(m - 1)
  <2> HIDE DEF Good
  <2>1. \A k \in Nat \ {0} : k < m => Good(k)
    BY <1>2, <1>3
  <2> QED BY <2>1, <1>7
<1> DEFINE h == [i \in 1..(m - 1) |-> g[i]]
<1> HIDE DEF Bad
<1>9. h \in [1..(m - 1) -> Nat]
  <2>1. \A j \in 1..(m - 1) : j \in 1..m
    BY <1>3
  <2> QED BY <1>5, <2>1
<1>10. PICK i \in 1..(m - 1) : \A j \in 1..(m - 1) : g[j] <= g[i]
  <2>1. PICK i \in 1..(m - 1) : \A j \in 1..(m - 1) : h[j] <= h[i]
    <3> HIDE DEF h
    <3> QED BY <1>8, <1>9
  <2> QED BY <2>1
<1> HIDE DEF Good, h
<1>11. \A j \in 1..m : j \in 1..(m - 1) \/ j = m
  BY <1>3
<1>12. i \in 1..m /\ m \in 1..m
  BY <1>3, <1>7
<1>13. CASE g[m] <= g[i]
  BY <1>4, <1>10, <1>11, <1>12, <1>13
<1>14. CASE ~(g[m] <= g[i])
  <2>1. g[i] <= g[m]
    BY <1>5, <1>12, <1>14
  <2>2. \A j \in 1..(m - 1) : g[j] \in Nat /\ g[j] <= g[m]
    BY <1>5, <1>10, <1>12, <2>1, <1>7
  <2>3. g[m] <= g[m]
    BY <1>5, <1>12
  <2>4. \A j \in 1..m : g[j] <= g[m]
    BY <1>11, <2>2, <2>3
  <2> QED BY <1>4, <1>12, <2>4
<1> QED BY <1>13, <1>14

----------------------------------------------------------------------------
(* Facts about batches *)

LEMMA EventFacts ==
    ASSUME NEW e
    PROVE  e \in Events <=> \E tp \in TP : \E o \in Log[tp] : e = EventAt(tp, o)
BY DEF Events

LEMMA EventFields ==
    ASSUME NEW e \in Events
    PROVE  /\ e.tp \in TP /\ e.offset \in Nat /\ e.offset \in Log[e.tp]
           /\ e = EventAt(e.tp, e.offset)
BY LogAssumption DEF Events, EventAt

(* A batch is a sequence of at most BatchSize events. *)
LEMMA BatchSeq ==
    ASSUME NEW s \in Batches
    PROVE  /\ s \in Seq(Events) /\ Len(s) \in 0..BatchSize
           /\ s \in [1..Len(s) -> Events] /\ Range(s) \subseteq Events
<1>1. PICK n \in 0..BatchSize : s \in [1..n -> Events]
  BY DEF Batches
<1>2. n \in Nat
  BY SourceAssumption, <1>1
<1>3. s \in Seq(Events) /\ Len(s) = n
  BY <1>1, <1>2
<1>4. Range(s) \subseteq Events
  BY <1>1 DEF Range
<1> QED BY <1>1, <1>3, <1>4

LEMMA EmptyBatch == <<>> \in Batches /\ Range(<<>>) = {} /\ Len(<<>>) = 0
<1>1. <<>> \in [1..0 -> Events]
  OBVIOUS
<1>2. 0 \in 0..BatchSize
  BY SourceAssumption
<1> QED BY <1>1, <1>2 DEF Batches, Range

(* Pushing an event on a batch with room for it. *)
LEMMA PushEvent ==
    ASSUME NEW s \in Batches, Len(s) < BatchSize, NEW e \in Events
    PROVE  /\ Append(s, e) \in Batches
           /\ Len(Append(s, e)) = Len(s) + 1
           /\ Range(Append(s, e)) = Range(s) \union {e}
<1> DEFINE n == Len(s)
           t == Append(s, e)
<1>1. s \in Seq(Events) /\ n \in Nat /\ s \in [1..n -> Events] /\ n + 1 \in 0..BatchSize
  BY BatchSeq, SourceAssumption
<1>2. t \in [1..(n + 1) -> Events] /\ Len(t) = n + 1
  <2>1. t \in Seq(Events) /\ Len(t) = n + 1
    BY <1>1
  <2> HIDE DEF t
  <2> QED BY <2>1
<1>3. t \in Batches
  BY <1>1, <1>2 DEF Batches
<1>4. \A i \in 1..(n + 1) : t[i] = IF i = n + 1 THEN e ELSE s[i]
  BY <1>1
<1>5. Range(t) = Range(s) \union {e}
  <2>1. DOMAIN t = 1..(n + 1) /\ DOMAIN s = 1..n
    BY <1>1, <1>2
  <2>2. \A i \in 1..n : i \in 1..(n + 1) /\ i # n + 1
    BY <1>1
  <2>3. \A i \in 1..(n + 1) : i = n + 1 \/ i \in 1..n
    BY <1>1
  <2>4. n + 1 \in 1..(n + 1)
    BY <1>1
  <2> HIDE DEF n, t
  <2> QED BY <1>4, <2>1, <2>2, <2>3, <2>4 DEF Range
<1> QED BY <1>2, <1>3, <1>5

(* offsets_for commits one past an event of the batch, for each partition. *)
LEMMA OffsetsFor ==
    ASSUME NEW s \in Batches
    PROVE  /\ DOMAIN offsets_for(s) \subseteq TP
           /\ offsets_for(s) = [tp \in DOMAIN offsets_for(s) |-> offsets_for(s)[tp]]
           /\ \A tp \in DOMAIN offsets_for(s) :
                \E e \in Range(s) : e.tp = tp /\ offsets_for(s)[tp] = e.offset + 1
<1>1. DOMAIN offsets_for(s) = {e.tp : e \in Range(s)}
  BY DEF offsets_for
<1>2. DOMAIN offsets_for(s) \subseteq TP
  BY <1>1, BatchSeq, EventFields
<1>3. offsets_for(s) = [tp \in DOMAIN offsets_for(s) |-> offsets_for(s)[tp]]
  BY DEF offsets_for
<1>4. ASSUME NEW tp \in DOMAIN offsets_for(s)
      PROVE  \E e \in Range(s) : e.tp = tp /\ offsets_for(s)[tp] = e.offset + 1
  <2> DEFINE S == {e.offset + 1 : e \in {d \in Range(s) : d.tp = tp}}
             n == Len(s)
             f == [i \in 1..n |-> IF s[i].tp = tp THEN s[i].offset + 1 ELSE 0]
  <2>1. offsets_for(s)[tp] = Max(S)
    BY <1>1 DEF offsets_for
  <2>2. n \in Nat /\ s \in [1..n -> Events]
    BY BatchSeq
  <2>3. \A i \in 1..n : s[i].offset \in Nat
    BY <2>2, EventFields
  <2>4. f \in [1..n -> Nat]
    BY <2>3
  <2>5. PICK k \in 1..n : s[k].tp = tp
    BY <1>1, <2>2 DEF Range
  <2>6. n # 0
    BY <2>5, <2>2
  <2>7. PICK i \in 1..n : \A j \in 1..n : f[j] <= f[i]
    <3> HIDE DEF f
    <3> QED BY <2>2, <2>4, <2>6, LargestEntry
  <2>8. s[i].tp = tp /\ f[i] = s[i].offset + 1
    <3>1. f[k] = s[k].offset + 1 /\ f[k] >= 1
      BY <2>3, <2>5
    <3> QED BY <3>1, <2>7, <2>3, <2>5
  <2>9. f[i] \in S /\ s[i] \in Range(s)
    BY <2>2, <2>8 DEF Range
  <2>10. \A y \in S : f[i] >= y
    <3>1. SUFFICES ASSUME NEW e \in Range(s), e.tp = tp PROVE f[i] >= e.offset + 1
      OBVIOUS
    <3>2. PICK j \in 1..n : s[j] = e
      BY <3>1, <2>2 DEF Range
    <3>3. f[j] = e.offset + 1 /\ f[j] <= f[i] /\ e.offset \in Nat /\ f[i] \in Nat
      BY <3>1, <3>2, <2>3, <2>4, <2>7
    <3> QED BY <3>3
  <2>11. Max(S) \in S
    <3> HIDE DEF S, f
    <3> QED BY <2>9, <2>10 DEF Max
  <2> QED BY <2>1, <2>11
<1> QED BY <1>2, <1>3, <1>4

----------------------------------------------------------------------------
(* Type correctness *)

CounterType == [batches_in : Nat, events_in : Nat, commits : Nat,
                rebalances : Nat, in_flight_batches : Nat,
                in_flight_bytes : Nat]

TaskType == [sequence : Nat, events : Batches, result : {"sending", "ok", "err"}]

(* Dispatching a batch of events from a well-typed state. *)
LEMMA DispatchType ==
    ASSUME TypeOK, NEW events \in Batches, Dispatch(events)
    PROVE  /\ pending' \in Batches /\ Len(pending') < BatchSize
           /\ in_flight' \subseteq TaskType /\ IsFiniteSet(in_flight')
           /\ sequence' \in Nat /\ in_flight_bytes' \in Nat
           /\ counters' \in CounterType
<1> USE DEF CounterType, TaskType
<1>1. Bytes(events) \in Nat
  BY BytesAssumption, SourceAssumption
<1>2. Len(pending') < BatchSize /\ pending' \in Batches
  BY EmptyBatch, SourceAssumption DEF Dispatch
<1>3. Cardinality(in_flight) \in Nat
  BY FS_CardinalityType DEF TypeOK
<1>4. IsFiniteSet(in_flight')
  BY FS_AddElement DEF Dispatch, TypeOK
<1>5. in_flight' \subseteq TaskType /\ sequence' \in Nat
  BY SMTT(30) DEF Dispatch, TypeOK
<1>6. in_flight_bytes' \in Nat
  BY <1>1, SMTT(30) DEF Dispatch, TypeOK
<1>7. counters' \in CounterType
  <2>1. in_flight_bytes \in Nat /\ counters \in CounterType
    BY DEF TypeOK
  <2>2. counters' = [counters EXCEPT
                      !.batches_in = @ + 1,
                      !.in_flight_bytes = in_flight_bytes + Bytes(events),
                      !.in_flight_batches = Cardinality(in_flight) + 1]
    BY DEF Dispatch
  <2>3. PICK m \in Nat, n \in Nat :
          counters' = [counters EXCEPT !.batches_in = @ + 1,
                                       !.in_flight_bytes = m,
                                       !.in_flight_batches = n]
    <3>1. in_flight_bytes + Bytes(events) \in Nat /\ Cardinality(in_flight) + 1 \in Nat
      BY <1>1, <1>3, <2>1
    <3> QED BY <2>2, <3>1
  <2>4. counters.batches_in + 1 \in Nat
    BY <2>1
  <2> QED BY <2>1, <2>3, <2>4
<1> QED BY <1>2, <1>4, <1>5, <1>6, <1>7

LEMMA LeaveType ==
    ASSUME TypeOK, NEW o \in {"stopped", "failed"}, Leave(o)
    PROVE  TypeOK'
<1>1. pending' \in Batches /\ Len(pending') < BatchSize
  BY EmptyBatch, SourceAssumption DEF Leave
<1>2. IsFiniteSet(in_flight')
  BY FS_EmptySet DEF Leave
<1> QED BY <1>1, <1>2 DEF TypeOK, Leave

LEMMA TypeStep == TypeOK /\ [Next]_vars => TypeOK'
<1> SUFFICES ASSUME TypeOK, [Next]_vars PROVE TypeOK'
  OBVIOUS
<1> USE DEF loopVars, brokerVars
<1>0. counters \in CounterType
  BY DEF TypeOK, CounterType
<1>1. CASE Deadline
  <2>1. pending \in Batches /\ Dispatch(pending)
    BY <1>1 DEF Deadline, TypeOK
  <2> QED BY <1>1, <2>1, DispatchType DEF Deadline, TypeOK, TaskType, CounterType
<1>2. ASSUME NEW tp \in TP, Recv(tp) PROVE TypeOK'
  <2>1. PICK o \in Available(tp) :
          /\ position' = [position EXCEPT ![tp] = o + 1]
          /\ LET events == Append(pending, EventAt(tp, o)) IN
               \/ IsFull(events) /\ Dispatch(events)
               \/ /\ ~IsFull(events)
                  /\ pending' = events
                  /\ UNCHANGED <<in_flight, sequence, in_flight_bytes, counters>>
    BY <1>2 DEF Recv
  <2> DEFINE events == Append(pending, EventAt(tp, o))
  <2>2. o \in Nat /\ EventAt(tp, o) \in Events
    BY LogAssumption, EventFacts DEF Available
  <2>3. events \in Batches /\ Len(events) \in Nat
    BY <1>2, <2>2, PushEvent, BatchSeq DEF Recv, TypeOK
  <2>4. position' \in [TP -> Nat]
    <3>1. position \in [TP -> Nat]
      BY DEF TypeOK
    <3>2. position' = [position EXCEPT ![tp] = o + 1]
      BY <2>1
    <3> QED BY ONLY <2>2, <3>1, <3>2
  <2>7. /\ UNCHANGED <<status, pc, next_commit_sequence, completed,
                       committed_events, assigned, commits, committed,
                       generation, restarts, acked>>
        /\ received' = received + 1
    BY <1>2 DEF Recv
  <2> HIDE DEF events
  <2>8. /\ status' \in {"running", "stopped", "failed"} /\ pc' \in {"select", "commit"}
        /\ completed' \subseteq [sequence : Nat, events : Batches]
        /\ next_commit_sequence' \in Nat /\ committed_events' \in Nat
        /\ assigned' \in SUBSET TP /\ committed' \in [TP -> Nat]
        /\ \A c \in commits' : DOMAIN c \subseteq TP /\ c \in [DOMAIN c -> Nat]
        /\ generation' \in 0..MaxGenerations /\ restarts' \in 0..MaxRestarts
        /\ acked' \subseteq Events /\ received' \in Nat
    BY <2>7, SMTT(30) DEF TypeOK
  <2>5. CASE Dispatch(events)
    <3>1. /\ pending' \in Batches /\ Len(pending') < BatchSize
          /\ in_flight' \subseteq TaskType /\ IsFiniteSet(in_flight')
          /\ sequence' \in Nat /\ in_flight_bytes' \in Nat
          /\ counters' \in CounterType
      BY <2>3, <2>5, DispatchType
    <3> QED BY ONLY <2>4, <2>8, <3>1 DEF TypeOK, TaskType, CounterType
  <2>6. CASE ~IsFull(events) /\ pending' = events
             /\ UNCHANGED <<in_flight, sequence, in_flight_bytes, counters>>
    <3>1. pending' \in Batches /\ Len(pending') < BatchSize
      BY <2>3, <2>6, SourceAssumption DEF IsFull
    <3>2. /\ in_flight' \subseteq TaskType /\ IsFiniteSet(in_flight')
          /\ sequence' \in Nat /\ in_flight_bytes' \in Nat
          /\ counters' \in CounterType
      BY <1>0, <2>6 DEF TypeOK, TaskType
    <3> QED BY ONLY <2>4, <2>8, <3>1, <3>2 DEF TypeOK, TaskType, CounterType
  <2> QED BY <2>1, <2>5, <2>6 DEF events
<1>3. CASE JoinNext
  <2>1. PICK b \in in_flight :
          /\ in_flight' = in_flight \ {b}
          /\ in_flight_bytes' = saturating_sub(in_flight_bytes, Bytes(b.events))
          /\ completed' = Insert([sequence |-> b.sequence, events |-> b.events])
    BY <1>3 DEF JoinNext
  <2>2. b.sequence \in Nat /\ b.events \in Batches /\ Bytes(b.events) \in Nat
    <3>1. b.sequence \in Nat /\ b.events \in Batches
      BY DEF TypeOK
    <3> QED BY <3>1, BytesAssumption, SourceAssumption
  <2>3. in_flight_bytes' \in Nat
    <3>1. in_flight_bytes \in Nat
      BY DEF TypeOK
    <3> QED BY ONLY <2>1, <2>2, <3>1 DEF saturating_sub
  <2>4. IsFiniteSet(in_flight') /\ Cardinality(in_flight') \in Nat
    BY <2>1, FS_RemoveElement, FS_CardinalityType DEF TypeOK
  <2>5. completed' \subseteq [sequence : Nat, events : Batches]
    <3>1. completed \subseteq [sequence : Nat, events : Batches]
      BY DEF TypeOK
    <3> QED BY ONLY <2>1, <2>2, <3>1 DEF Insert
  <2>6. counters' \in CounterType
    BY <1>3, <2>3, <2>4 DEF JoinNext, TypeOK, CounterType
  <2> QED BY <1>3, <2>1, <2>3, <2>4, <2>5, <2>6 DEF JoinNext, TypeOK, CounterType
<1>4. CASE CommitNext
  <2>1. PICK c \in completed :
          /\ completed' = completed \ {c}
          /\ commits' = commits \union {offsets_for(c.events)}
          /\ committed_events' = committed_events + Len(c.events)
    BY <1>4 DEF CommitNext
  <2>2. c.events \in Batches
    BY DEF TypeOK
  <2> DEFINE offs == offsets_for(c.events)
  <2>3. Len(c.events) \in Nat
    BY <2>2, BatchSeq
  <2>4. DOMAIN offs \subseteq TP /\ offs \in [DOMAIN offs -> Nat]
    <3>1. \A tp \in DOMAIN offs : offs[tp] \in Nat
      BY <2>2, OffsetsFor, BatchSeq, EventFields
    <3> QED BY <2>2, <3>1, OffsetsFor
  <2> HIDE DEF offs
  <2>5. \A d \in commits' : DOMAIN d \subseteq TP /\ d \in [DOMAIN d -> Nat]
    BY <2>1, <2>4 DEF TypeOK, offs
  <2>6. counters' \in CounterType
    <3>1. counters' = [counters EXCEPT !.commits = @ + 1]
      BY <1>4 DEF CommitNext
    <3> QED BY <1>0, <3>1 DEF CounterType
  <2>7. /\ completed' \subseteq [sequence : Nat, events : Batches]
        /\ next_commit_sequence' \in Nat /\ committed_events' \in Nat
    <3>1. /\ completed \subseteq [sequence : Nat, events : Batches]
          /\ next_commit_sequence \in Nat /\ committed_events \in Nat
      BY DEF TypeOK
    <3>2. next_commit_sequence' = next_commit_sequence + 1
      BY <1>4 DEF CommitNext
    <3> QED BY ONLY <2>1, <2>3, <3>1, <3>2
  <2>8. /\ status' \in {"running", "stopped", "failed"} /\ pc' \in {"select", "commit"}
        /\ pending' \in Batches /\ Len(pending') < BatchSize
        /\ in_flight' \subseteq TaskType /\ IsFiniteSet(in_flight')
        /\ sequence' \in Nat /\ in_flight_bytes' \in Nat
        /\ assigned' \in SUBSET TP /\ position' \in [TP -> Nat]
        /\ committed' \in [TP -> Nat]
        /\ generation' \in 0..MaxGenerations /\ restarts' \in 0..MaxRestarts
        /\ acked' \subseteq Events /\ received' \in Nat
    BY <1>4 DEF CommitNext, TypeOK, TaskType
  <2> QED BY ONLY <2>5, <2>6, <2>7, <2>8 DEF TypeOK, TaskType, CounterType
<1>5. CASE CommitDone
  <2>1. counters' \in CounterType
    <3>1. counters' = [counters EXCEPT !.events_in = @ + committed_events]
      BY <1>5 DEF CommitDone, Counted
    <3>2. committed_events \in Nat
      BY DEF TypeOK
    <3> QED BY <1>0, <3>1, <3>2 DEF CounterType
  <2> QED BY <1>5, <2>1 DEF CommitDone, TypeOK, CounterType
<1>6. CASE Shutdown \/ JoinFails \/ RecvFails \/ CommitFails \/ Crash
  BY <1>6, LeaveType DEF Shutdown, JoinFails, RecvFails, CommitFails, Crash
<1>7. CASE FanoutOk
  <2>1. PICK b \in in_flight :
          /\ in_flight' = (in_flight \ {b}) \union {[b EXCEPT !.result = "ok"]}
          /\ acked' = acked \union Range(b.events)
    BY <1>7 DEF FanoutOk
  <2>2. b \in TaskType
    BY DEF TypeOK, TaskType
  <2>3. IsFiniteSet(in_flight')
    BY <2>1, FS_RemoveElement, FS_AddElement DEF TypeOK
  <2>4. acked' \subseteq Events
    BY <2>1, <2>2, BatchSeq DEF TypeOK, TaskType
  <2> QED BY <1>7, <2>1, <2>2, <2>3, <2>4 DEF FanoutOk, TypeOK, TaskType
<1>8. CASE FanoutErr
  <2>1. PICK b \in in_flight :
          in_flight' = (in_flight \ {b}) \union {[b EXCEPT !.result = "err"]}
    BY <1>8 DEF FanoutErr
  <2>2. b \in TaskType
    BY DEF TypeOK, TaskType
  <2>3. IsFiniteSet(in_flight')
    BY <2>1, FS_RemoveElement, FS_AddElement DEF TypeOK
  <2> QED BY <1>8, <2>1, <2>2, <2>3 DEF FanoutErr, TypeOK, TaskType
<1>9. CASE BrokerCommits
  <2>1. committed' \in [TP -> Nat]
    BY <1>9 DEF BrokerCommits, TypeOK
  <2> QED BY <1>9, <2>1 DEF BrokerCommits, TypeOK
<1>10. CASE CommitLost \/ Revoke
  BY <1>10 DEF CommitLost, Revoke, TypeOK
<1>11. ASSUME NEW S \in SUBSET TP, Assign(S) PROVE TypeOK'
  <2>1. generation' \in 0..MaxGenerations
    <3>1. generation < MaxGenerations /\ generation' = generation + 1
      BY <1>11 DEF Assign
    <3>2. generation \in 0..MaxGenerations /\ MaxGenerations \in Nat
      BY SourceAssumption DEF TypeOK
    <3> QED BY <3>1, <3>2
  <2>2. position' \in [TP -> Nat]
    BY <1>11 DEF Assign, TypeOK
  <2>3. counters' \in CounterType
    <3>1. counters' = [counters EXCEPT !.rebalances = @ + 1]
      BY <1>11 DEF Assign
    <3> QED BY <1>0, <3>1 DEF CounterType
  <2> QED BY <1>11, <2>1, <2>2, <2>3 DEF Assign, TypeOK, CounterType
<1>12. ASSUME NEW tp \in TP, PeerDelivers(tp) PROVE TypeOK'
  <2>1. acked' \subseteq Events
    BY <1>12, EventFacts DEF PeerDelivers, TypeOK
  <2> QED BY <1>12, <2>1 DEF PeerDelivers, TypeOK
<1>13. ASSUME NEW tp \in TP, PeerCommits(tp) PROVE TypeOK'
  <2>1. committed' \in [TP -> Nat]
    <3>1. PICK o \in Log[tp] : committed' = [committed EXCEPT ![tp] = o + 1]
      BY <1>13 DEF PeerCommits
    <3>2. o + 1 \in Nat
      BY ONLY LogAssumption, o \in Log[tp], tp \in TP
    <3>3. committed \in [TP -> Nat]
      BY DEF TypeOK
    <3> QED BY ONLY <3>1, <3>2, <3>3
  <2> QED BY <1>13, <2>1 DEF PeerCommits, TypeOK
<1>14. CASE Restart
  <2>1. restarts' \in 0..MaxRestarts
    <3>1. restarts < MaxRestarts /\ restarts' = restarts + 1
      BY <1>14 DEF Restart
    <3>2. restarts \in 0..MaxRestarts /\ MaxRestarts \in Nat
      BY SourceAssumption DEF TypeOK
    <3> QED BY <3>1, <3>2
  <2> QED BY <1>14, <2>1 DEF Restart, TypeOK, ZeroCounters
<1>15. CASE UNCHANGED vars
  BY <1>15 DEF vars, TypeOK
<1> QED
  BY <1>1, <1>2, <1>3, <1>4, <1>5, <1>6, <1>7, <1>8, <1>9, <1>10, <1>11,
     <1>12, <1>13, <1>14, <1>15 DEF Next, Loop, Environment

LEMMA TypeInit == Init => TypeOK
<1> SUFFICES ASSUME Init PROVE TypeOK
  OBVIOUS
<1>1. pending \in Batches /\ Len(pending) < BatchSize
  BY EmptyBatch, SourceAssumption DEF Init
<1>2. IsFiniteSet(in_flight)
  BY FS_EmptySet DEF Init
<1> QED BY <1>1, <1>2, SourceAssumption DEF Init, TypeOK, ZeroCounters

(* Type correctness: every variable of the source and of the broker keeps its *)
(* type, the assembled batch stays short of batch_size and the JoinSet finite. *)
THEOREM TypeCorrect == Spec => []TypeOK
<1>1. Init => TypeOK
  BY TypeInit
<1>2. TypeOK /\ [Next]_vars => TypeOK'
  BY TypeStep
<1> QED BY <1>1, <1>2, PTL DEF Spec

----------------------------------------------------------------------------
(* The in-flight window *)

LEMMA WindowInit == Init => WindowInv
BY SourceAssumption, BytesAssumption, FS_EmptySet
   DEF Init, WindowInv, ResidentBounded, PendingAdmitted

(* A batch that was admitted may be dispatched. *)
LEMMA DispatchWindow ==
    ASSUME TypeOK, NEW events \in Batches, admits_batch, Dispatch(events)
    PROVE  WindowInv'
<1>1. Bytes(events) \in 0..MaxBatchBytes /\ Bytes(pending') = 0
  BY BytesAssumption DEF Dispatch
<1>2. in_flight_bytes' + Bytes(pending') < MaxInFlightBytes + MaxBatchBytes
  <2>1. in_flight_bytes' = in_flight_bytes + Bytes(events)
    BY DEF Dispatch
  <2>2. in_flight_bytes \in Nat /\ in_flight_bytes < MaxInFlightBytes
    BY DEF admits_batch, TypeOK
  <2> QED BY <1>1, <2>1, <2>2, SourceAssumption
<1>3. Cardinality(in_flight') <= Cardinality(in_flight) + 1
  <2>1. PICK d : in_flight' = in_flight \union {d}
    BY DEF Dispatch
  <2>2. IsFiniteSet(in_flight) /\ Cardinality(in_flight) \in Nat
    BY FS_CardinalityType DEF TypeOK
  <2> QED BY <2>1, <2>2, FS_AddElement
<1>4. Cardinality(in_flight') <= MaxInFlightBatches
  <2>1. Cardinality(in_flight) \in Nat /\ Cardinality(in_flight') \in Nat
    BY FS_CardinalityType, FS_AddElement DEF Dispatch, TypeOK
  <2>2. Cardinality(in_flight) < MaxInFlightBatches
    BY DEF admits_batch
  <2> QED BY <1>3, <2>1, <2>2, SourceAssumption
<1>5. pending' = <<>>
  BY DEF Dispatch
<1> QED BY <1>2, <1>4, <1>5 DEF WindowInv, ResidentBounded, PendingAdmitted

(* A step that leaves the batch being assembled alone and does not grow the *)
(* window preserves its bounds. *)
LEMMA SmallerWindow ==
    ASSUME TypeOK, TypeOK', WindowInv, pending' = pending,
           in_flight_bytes' <= in_flight_bytes,
           Cardinality(in_flight') <= Cardinality(in_flight)
    PROVE  WindowInv'
<1>1. Cardinality(in_flight) \in Nat /\ Cardinality(in_flight') \in Nat
  BY FS_CardinalityType DEF TypeOK
<1>2. in_flight_bytes \in Nat /\ in_flight_bytes' \in Nat
  BY DEF TypeOK
<1>3. Bytes(pending) \in Nat
  <2>1. pending \in Batches
    BY DEF TypeOK
  <2> QED BY <2>1, BytesAssumption, SourceAssumption
<1>4. ResidentBounded'
  BY <1>1, <1>2, <1>3, SourceAssumption DEF WindowInv, ResidentBounded
<1>5. PendingAdmitted'
  BY <1>1, <1>2, SourceAssumption DEF WindowInv, PendingAdmitted, admits_batch
<1> QED BY <1>4, <1>5 DEF WindowInv

(* A task's result does not change the number of tasks. *)
LEMMA SameSize ==
    ASSUME NEW S, IsFiniteSet(S), NEW b \in S, NEW d
    PROVE  Cardinality((S \ {b}) \union {d}) <= Cardinality(S)
<1>1. IsFiniteSet(S \ {b}) /\ Cardinality(S \ {b}) = Cardinality(S) - 1
  BY FS_RemoveElement
<1>2. Cardinality(S) \in Nat /\ Cardinality(S \ {b}) \in Nat
  BY <1>1, FS_CardinalityType
<1> DEFINE T == S \ {b}
<1>3. Cardinality(T \union {d}) = IF d \in T THEN Cardinality(T) ELSE Cardinality(T) + 1
  <2> HIDE DEF T
  <2>1. IsFiniteSet(T)
    BY <1>1 DEF T
  <2> QED BY <2>1, FS_AddElement
<1> QED BY <1>1, <1>2, <1>3

LEMMA WindowStep == TypeOK /\ TypeOK' /\ WindowInv /\ [Next]_vars => WindowInv'
<1> SUFFICES ASSUME TypeOK, TypeOK', WindowInv, [Next]_vars PROVE WindowInv'
  OBVIOUS
<1> USE DEF loopVars, brokerVars
<1>a. Cardinality(in_flight) \in Nat /\ in_flight_bytes \in Nat /\ pending \in Batches
  BY FS_CardinalityType DEF TypeOK
<1>1. CASE Deadline
  BY <1>1, <1>a, DispatchWindow DEF Deadline
<1>2. ASSUME NEW tp \in TP, Recv(tp) PROVE WindowInv'
  <2>1. PICK o \in Available(tp) :
          LET events == Append(pending, EventAt(tp, o)) IN
            \/ IsFull(events) /\ Dispatch(events)
            \/ /\ ~IsFull(events)
               /\ pending' = events
               /\ UNCHANGED <<in_flight, sequence, in_flight_bytes, counters>>
    BY <1>2 DEF Recv
  <2> DEFINE events == Append(pending, EventAt(tp, o))
  <2>2. admits_batch /\ Len(pending) < BatchSize
    BY <1>2 DEF Recv
  <2>3. events \in Batches
    <3>1. EventAt(tp, o) \in Events
      BY EventFacts DEF Available
    <3> QED BY <1>a, <2>2, <3>1, PushEvent
  <2> HIDE DEF events
  <2>4. CASE Dispatch(events)
    BY <2>2, <2>3, <2>4, DispatchWindow
  <2>5. CASE pending' = events
             /\ UNCHANGED <<in_flight, sequence, in_flight_bytes, counters>>
    <3>1. Bytes(pending') \in 0..MaxBatchBytes
      BY <2>3, <2>5, BytesAssumption
    <3> QED BY <1>a, <2>2, <2>5, <3>1, SourceAssumption
            DEF WindowInv, ResidentBounded, PendingAdmitted, admits_batch
  <2> QED BY <2>1, <2>4, <2>5 DEF events
<1>3. CASE JoinNext
  <2>1. PICK b \in in_flight :
          /\ in_flight' = in_flight \ {b}
          /\ in_flight_bytes' = saturating_sub(in_flight_bytes, Bytes(b.events))
    BY <1>3 DEF JoinNext
  <2>2. Bytes(b.events) \in Nat
    <3>1. b.events \in Batches
      BY DEF TypeOK
    <3> QED BY <3>1, BytesAssumption, SourceAssumption
  <2>3. in_flight_bytes' <= in_flight_bytes
    BY <1>a, <2>1, <2>2 DEF saturating_sub
  <2>4. Cardinality(in_flight') <= Cardinality(in_flight)
    <3>1. IsFiniteSet(in_flight)
      BY DEF TypeOK
    <3>2. Cardinality(in_flight \ {b}) = Cardinality(in_flight) - 1
      BY <3>1, FS_RemoveElement
    <3> QED BY <1>a, <2>1, <3>2
  <2>5. pending' = pending
    BY <1>3 DEF JoinNext
  <2> QED BY <2>3, <2>4, <2>5, SmallerWindow
<1>4. CASE FanoutOk \/ FanoutErr
  <2>1. Cardinality(in_flight') <= Cardinality(in_flight)
    BY <1>4, SameSize DEF FanoutOk, FanoutErr, TypeOK
  <2>2. UNCHANGED <<pending, in_flight_bytes>>
    BY <1>4 DEF FanoutOk, FanoutErr
  <2> QED BY <1>a, <2>1, <2>2, SmallerWindow
<1>5. CASE Shutdown \/ JoinFails \/ RecvFails \/ CommitFails \/ Crash
  <2>1. pending' = <<>> /\ in_flight' = {} /\ in_flight_bytes' = 0
    BY <1>5 DEF Shutdown, JoinFails, RecvFails, CommitFails, Crash, Leave
  <2> QED BY <2>1, SourceAssumption, BytesAssumption, FS_EmptySet
          DEF WindowInv, ResidentBounded, PendingAdmitted
<1>6. ASSUME UNCHANGED <<pending, in_flight, in_flight_bytes>> PROVE WindowInv'
  BY <1>6 DEF WindowInv, ResidentBounded, PendingAdmitted, admits_batch
<1>7. CASE \/ CommitNext \/ CommitDone \/ BrokerCommits \/ CommitLost \/ Revoke
           \/ \E S \in SUBSET TP : Assign(S)
           \/ \E tp \in TP : PeerDelivers(tp) \/ PeerCommits(tp)
           \/ Restart \/ UNCHANGED vars
  BY <1>6, <1>7 DEF CommitNext, CommitDone, BrokerCommits, CommitLost, Revoke,
                    Assign, PeerDelivers, PeerCommits, Restart, vars
<1> QED
  BY <1>1, <1>2, <1>3, <1>4, <1>5, <1>7 DEF Next, Loop, Environment

----------------------------------------------------------------------------
(* Numbering of the batches *)

LEMMA NumberingInit == Init => NoBatchLost
BY DEF Init, NoBatchLost, Outstanding

(* NoBatchLost, without the set of numbers. *)
Numbered ==
    /\ next_commit_sequence <= sequence
    /\ \A b \in Outstanding : next_commit_sequence <= b.sequence /\ b.sequence < sequence
    /\ \A k \in Nat : next_commit_sequence <= k /\ k < sequence =>
                        \E b \in Outstanding : b.sequence = k
    /\ \A b, c \in Outstanding : b.sequence = c.sequence => b = c

LEMMA OutstandingType ==
    ASSUME TypeOK, NEW b \in Outstanding
    PROVE  b.sequence \in Nat /\ b.events \in Batches /\ Range(b.events) \subseteq Events
<1>1. b.sequence \in Nat /\ b.events \in Batches
  BY DEF TypeOK, Outstanding
<1> QED BY <1>1, BatchSeq

LEMMA NumberedIff == ASSUME TypeOK PROVE NoBatchLost <=> Numbered
<1>1. sequence \in Nat /\ next_commit_sequence \in Nat
  BY DEF TypeOK
<1>2. \A b \in Outstanding : b.sequence \in Nat
  BY OutstandingType
<1>3. ASSUME NoBatchLost PROVE Numbered
  <2>1. \A b \in Outstanding : b.sequence \in next_commit_sequence..(sequence - 1)
    BY <1>3 DEF NoBatchLost
  <2>2. \A k \in next_commit_sequence..(sequence - 1) : \E b \in Outstanding : b.sequence = k
    BY <1>3 DEF NoBatchLost
  <2>3. \A k \in Nat : next_commit_sequence <= k /\ k < sequence
                         => k \in next_commit_sequence..(sequence - 1)
    BY <1>1
  <2>4. \A b \in Outstanding : next_commit_sequence <= b.sequence /\ b.sequence < sequence
    BY <1>1, <1>2, <2>1
  <2> QED BY <1>3, <2>2, <2>3, <2>4 DEF NoBatchLost, Numbered
<1>4. ASSUME Numbered PROVE NoBatchLost
  <2>1. \A b \in Outstanding : b.sequence \in next_commit_sequence..(sequence - 1)
    BY <1>1, <1>2, <1>4 DEF Numbered
  <2>2. \A k \in next_commit_sequence..(sequence - 1) :
           k \in Nat /\ next_commit_sequence <= k /\ k < sequence
    BY <1>1
  <2>3. \A k \in next_commit_sequence..(sequence - 1) : \E b \in Outstanding : b.sequence = k
    BY <1>4, <2>2 DEF Numbered
  <2>4. {b.sequence : b \in Outstanding} = next_commit_sequence..(sequence - 1)
    BY <2>1, <2>3
  <2> QED BY <1>4, <2>4 DEF NoBatchLost, Numbered
<1> QED BY <1>3, <1>4

(* Dispatching takes the next number. *)
LEMMA DispatchNumbered ==
    ASSUME TypeOK, Numbered, NEW events, Dispatch(events),
           UNCHANGED <<next_commit_sequence, completed>>
    PROVE  Numbered'
<1> DEFINE d == [sequence |-> sequence, events |-> events, result |-> "sending"]
<1>1. Outstanding' = Outstanding \union {d} /\ d.sequence = sequence
  BY DEF Dispatch, Outstanding
<1>2. sequence' = sequence + 1 /\ next_commit_sequence' = next_commit_sequence
  BY DEF Dispatch
<1>3. sequence \in Nat /\ next_commit_sequence \in Nat
  BY DEF TypeOK
<1>4. \A b \in Outstanding : b.sequence \in Nat
  BY OutstandingType
<1>5. next_commit_sequence <= sequence
  BY <1>3, <1>4 DEF Numbered
<1> HIDE DEF d
<1> QED BY <1>1, <1>2, <1>3, <1>4, <1>5 DEF Numbered

(* Replacing an outstanding batch by one with the same number. *)
LEMMA RenumberNone ==
    ASSUME Numbered, NEW b \in Outstanding, NEW d, d.sequence = b.sequence,
           Outstanding' = (Outstanding \ {b}) \union {d},
           UNCHANGED <<sequence, next_commit_sequence>>
    PROVE  Numbered'
<1>1. /\ next_commit_sequence' <= sequence'
      /\ \A c \in Outstanding' : next_commit_sequence' <= c.sequence /\ c.sequence < sequence'
  BY DEF Numbered
<1>2. \A k \in Nat : next_commit_sequence' <= k /\ k < sequence' =>
                        \E c \in Outstanding' : c.sequence = k
  BY DEF Numbered
<1>3. \A c \in Outstanding \ {b} : c.sequence # d.sequence
  BY DEF Numbered
<1>4. \A c, e \in Outstanding' : c.sequence = e.sequence => c = e
  BY <1>3 DEF Numbered
<1> QED BY <1>1, <1>2, <1>4 DEF Numbered

(* No task of the JoinSet looks like a completion, or the other way round. *)
LEMMA Apart == ASSUME TypeOK, Numbered PROVE in_flight \intersect completed = {}
<1>1. \A b \in in_flight : "result" \in DOMAIN b
  BY DEF TypeOK
<1>2. \A c \in completed : "result" \notin DOMAIN c
  <2>1. \A c \in [sequence : Nat, events : Batches] : DOMAIN c = {"sequence", "events"}
    OBVIOUS
  <2>2. completed \subseteq [sequence : Nat, events : Batches]
    BY DEF TypeOK
  <2>3. "result" \notin {"sequence", "events"}
    OBVIOUS
  <2> QED BY <2>1, <2>2, <2>3, Zenon
<1> QED BY <1>1, <1>2

LEMMA NumberingStep ==
    TypeOK /\ TypeOK' /\ NoBatchLost /\ [Next]_vars => NoBatchLost'
<1> SUFFICES ASSUME TypeOK, TypeOK', Numbered, [Next]_vars PROVE Numbered'
  <2>1. TypeOK => (NoBatchLost <=> Numbered)
    BY NumberedIff
  <2>2. TypeOK' => (NoBatchLost' <=> Numbered')
    BY <2>1, PTL
  <2> QED BY <2>1, <2>2
<1> USE DEF loopVars, brokerVars
<1>1. CASE Deadline
  BY <1>1, DispatchNumbered DEF Deadline
<1>2. ASSUME NEW tp \in TP, Recv(tp) PROVE Numbered'
  <2>1. \/ \E events : Dispatch(events)
        \/ UNCHANGED <<in_flight, sequence>>
    BY <1>2 DEF Recv
  <2>2. UNCHANGED <<next_commit_sequence, completed>>
    BY <1>2 DEF Recv
  <2> QED BY <2>1, <2>2, DispatchNumbered DEF Numbered, Outstanding
<1>3. CASE JoinNext
  <2>1. PICK b \in in_flight :
          /\ in_flight' = in_flight \ {b}
          /\ completed' = completed \union {[sequence |-> b.sequence, events |-> b.events]}
    BY <1>3 DEF JoinNext, Insert
  <2> DEFINE d == [sequence |-> b.sequence, events |-> b.events]
  <2>2. d.sequence = b.sequence /\ b \in Outstanding
    BY DEF Outstanding
  <2>3. b \notin completed
    BY Apart
  <2>4. Outstanding' = (Outstanding \ {b}) \union {d}
    BY <2>1, <2>3 DEF Outstanding
  <2>5. UNCHANGED <<sequence, next_commit_sequence>>
    BY <1>3 DEF JoinNext
  <2> HIDE DEF d
  <2> QED BY <2>2, <2>4, <2>5, RenumberNone
<1>4. CASE FanoutOk \/ FanoutErr
  <2>1. PICK b \in in_flight, r \in {"ok", "err"} :
          in_flight' = (in_flight \ {b}) \union {[b EXCEPT !.result = r]}
    BY <1>4 DEF FanoutOk, FanoutErr
  <2> DEFINE d == [b EXCEPT !.result = r]
  <2>2. d.sequence = b.sequence /\ b \in Outstanding
    BY DEF Outstanding, TypeOK
  <2>3. b \notin completed
    BY Apart
  <2>4. UNCHANGED <<sequence, next_commit_sequence, completed>>
    BY <1>4 DEF FanoutOk, FanoutErr
  <2> HIDE DEF d
  <2>5. Outstanding' = (Outstanding \ {b}) \union {d}
    BY <2>1, <2>3, <2>4 DEF Outstanding, d
  <2> QED BY <2>2, <2>4, <2>5, RenumberNone
<1>5. CASE CommitNext
  <2>1. PICK c \in completed : Due(c) /\ completed' = completed \ {c}
    BY <1>5 DEF CommitNext
  <2>2. c \notin in_flight
    BY Apart
  <2>3. /\ next_commit_sequence' = next_commit_sequence + 1
        /\ UNCHANGED <<sequence, in_flight>>
    BY <1>5 DEF CommitNext
  <2>4. Outstanding' = Outstanding \ {c} /\ c \in Outstanding
    BY <2>1, <2>2, <2>3 DEF Outstanding
  <2>5. c.sequence = next_commit_sequence /\ next_commit_sequence < sequence
    BY <2>1, <2>4 DEF Due, Numbered
  <2>6. sequence \in Nat /\ next_commit_sequence \in Nat
    BY DEF TypeOK
  <2>7. \A b \in Outstanding : b.sequence \in Nat
    BY OutstandingType
  <2>8. \A b \in Outstanding' : next_commit_sequence' <= b.sequence /\ b.sequence < sequence'
    <3>1. \A b \in Outstanding \ {c} : b.sequence # next_commit_sequence
      BY <2>4, <2>5 DEF Numbered
    <3> QED BY <2>3, <2>4, <2>6, <2>7, <3>1 DEF Numbered
  <2>9. \A k \in Nat : next_commit_sequence' <= k /\ k < sequence' =>
                          \E b \in Outstanding' : b.sequence = k
    <3>1. SUFFICES ASSUME NEW k \in Nat, next_commit_sequence' <= k, k < sequence'
                   PROVE  \E b \in Outstanding' : b.sequence = k
      OBVIOUS
    <3>2. next_commit_sequence <= k /\ k < sequence /\ k # next_commit_sequence
      BY <2>3, <2>6, <3>1
    <3> QED BY <2>4, <2>5, <3>2 DEF Numbered
  <2>10. next_commit_sequence' <= sequence'
    BY <2>3, <2>5, <2>6
  <2>11. \A b, e \in Outstanding' : b.sequence = e.sequence => b = e
    BY <2>4 DEF Numbered
  <2> QED BY <2>8, <2>9, <2>10, <2>11 DEF Numbered
<1>6. CASE Shutdown \/ JoinFails \/ RecvFails \/ CommitFails \/ Crash
  <2>1. in_flight' = {} /\ completed' = {} /\ sequence' = 0 /\ next_commit_sequence' = 0
    BY <1>6 DEF Shutdown, JoinFails, RecvFails, CommitFails, Crash, Leave
  <2> QED BY <2>1 DEF Numbered, Outstanding
<1>7. ASSUME UNCHANGED <<in_flight, completed, sequence, next_commit_sequence>>
      PROVE  Numbered'
  BY <1>7 DEF Numbered, Outstanding
<1>8. CASE \/ CommitDone \/ BrokerCommits \/ CommitLost \/ Revoke
           \/ \E S \in SUBSET TP : Assign(S)
           \/ \E tp \in TP : PeerDelivers(tp) \/ PeerCommits(tp)
           \/ Restart \/ UNCHANGED vars
  BY <1>7, <1>8 DEF CommitDone, BrokerCommits, CommitLost, Revoke,
                    Assign, PeerDelivers, PeerCommits, Restart, vars
<1> QED
  BY <1>1, <1>2, <1>3, <1>4, <1>5, <1>6, <1>8 DEF Next, Loop, Environment

----------------------------------------------------------------------------
(* Commits cover only acknowledged events *)

(* Every outstanding batch is acknowledged by the step or outlives it. *)
Carried ==
    /\ acked \subseteq acked'
    /\ \A d \in Outstanding :
         \/ Range(d.events) \subseteq acked'
         \/ \E c \in Outstanding' : c.sequence = d.sequence /\ c.events = d.events

LEMMA CarryHeld ==
    ASSUME Carried, NEW e, Held(e), pending' = pending
    PROVE  Held(e)'
BY DEF Carried, Held

(* A step that dispatches and receives nothing preserves the order. *)
LEMMA CarryOrder ==
    ASSUME OrderInv, Carried, pending' = pending, position' = position,
           assigned' \subseteq assigned,
           \A c \in Outstanding' : \E b \in Outstanding :
              b.sequence = c.sequence /\ b.events = c.events
    PROVE  OrderInv'
<1>1. ASSUME NEW c \in Outstanding', NEW e \in Range(c.events),
             NEW x \in Log[e.tp], x < e.offset
      PROVE  HeldUpTo(EventAt(e.tp, x), c.sequence)'
  <2>1. PICK b \in Outstanding : b.sequence = c.sequence /\ b.events = c.events
    OBVIOUS
  <2>2. HeldUpTo(EventAt(e.tp, x), b.sequence)
    BY <1>1, <2>1 DEF OrderInv
  <2>3. HeldUpTo(EventAt(e.tp, x), c.sequence)
    BY <2>1, <2>2
  <2> DEFINE f == EventAt(e.tp, x)
             k == c.sequence
  <2>4. f \in acked \/ \E d \in Outstanding : d.sequence <= k /\ f \in Range(d.events)
    BY <2>3 DEF HeldUpTo
  <2> HIDE DEF f, k
  <2>5. f \in acked' \/ \E d \in Outstanding' : d.sequence <= k /\ f \in Range(d.events)
    BY <2>4 DEF Carried
  <2> QED BY <2>5 DEF HeldUpTo, f, k, EventAt
<1>2. ASSUME NEW e \in Range(pending'), NEW x \in Log[e.tp], x < e.offset
      PROVE  Held(EventAt(e.tp, x))'
  <2>1. Held(EventAt(e.tp, x))
    BY <1>2 DEF OrderInv
  <2> QED BY <2>1, CarryHeld DEF Held, Carried, EventAt
<1>3. ASSUME NEW tp \in assigned', NEW x \in Log[tp], x < position'[tp]
      PROVE  Held(EventAt(tp, x))'
  <2>1. Held(EventAt(tp, x))
    BY <1>3 DEF OrderInv
  <2> QED BY <2>1, CarryHeld DEF Held, Carried, EventAt
<1> QED BY <1>1, <1>2, <1>3 DEF OrderInv

(* What a batch about to be dispatched must satisfy: whatever lies below its *)
(* events, or below the new position of an owned partition, is held or in it. *)
Ready(events) ==
    /\ \A e \in Range(events) : \A x \in Log[e.tp] : x < e.offset =>
         \/ EventAt(e.tp, x) \in acked \union Range(events)
         \/ \E d \in Outstanding : EventAt(e.tp, x) \in Range(d.events)
    /\ \A tp \in assigned' : \A x \in Log[tp] : x < position'[tp] =>
         \/ EventAt(tp, x) \in acked \union Range(events)
         \/ \E d \in Outstanding : EventAt(tp, x) \in Range(d.events)

LEMMA DispatchOrder ==
    ASSUME TypeOK, Numbered, OrderInv, NEW events \in Batches, Ready(events),
           Dispatch(events), UNCHANGED <<completed, acked>>
    PROVE  OrderInv'
<1> DEFINE n == [sequence |-> sequence, events |-> events, result |-> "sending"]
<1>1. /\ Outstanding' = Outstanding \union {n} /\ acked' = acked
      /\ n.sequence = sequence /\ n.events = events /\ pending' = <<>>
  BY DEF Dispatch, Outstanding
<1>2. \A d \in Outstanding : d.sequence <= sequence
  <2>1. \A d \in Outstanding : d.sequence \in Nat /\ d.sequence < sequence
    BY OutstandingType DEF Numbered
  <2>2. sequence \in Nat
    BY DEF TypeOK
  <2> QED BY <2>1, <2>2
<1>3. sequence <= sequence
  BY DEF TypeOK
<1> HIDE DEF n
<1>4. ASSUME NEW c \in Outstanding', NEW e \in Range(c.events),
             NEW x \in Log[e.tp], x < e.offset
      PROVE  HeldUpTo(EventAt(e.tp, x), c.sequence)'
  <2> DEFINE f == EventAt(e.tp, x)
             k == c.sequence
  <2>1. CASE c \in Outstanding
    <3>1. HeldUpTo(EventAt(e.tp, x), c.sequence)
      BY <1>4, <2>1 DEF OrderInv
    <3>2. f \in acked \/ \E d \in Outstanding : d.sequence <= k /\ f \in Range(d.events)
      BY <3>1 DEF HeldUpTo
    <3> HIDE DEF f, k
    <3>3. f \in acked' \/ \E d \in Outstanding' : d.sequence <= k /\ f \in Range(d.events)
      BY <1>1, <3>2
    <3> QED BY <3>3 DEF HeldUpTo, f, k, EventAt
  <2>2. CASE c = n
    <3>1. e \in Range(events) /\ k = sequence
      BY <1>1, <1>4, <2>2
    <3>2. \/ f \in acked \union Range(events)
          \/ \E d \in Outstanding : f \in Range(d.events)
      BY <1>4, <3>1 DEF Ready
    <3> HIDE DEF f, k
    <3>3. f \in acked' \/ \E d \in Outstanding' : d.sequence <= k /\ f \in Range(d.events)
      BY <1>1, <1>2, <1>3, <3>1, <3>2
    <3> QED BY <3>3 DEF HeldUpTo, f, k, EventAt
  <2> QED BY <1>1, <2>1, <2>2
<1>5. \A e \in Range(pending') : FALSE
  BY <1>1, EmptyBatch
<1>6. ASSUME NEW tp \in assigned', NEW x \in Log[tp], x < position'[tp]
      PROVE  Held(EventAt(tp, x))'
  <2>1. \/ EventAt(tp, x) \in acked \union Range(events)
        \/ \E d \in Outstanding : EventAt(tp, x) \in Range(d.events)
    BY <1>6 DEF Ready
  <2>2. EventAt(tp, x) \in acked' \/ \E d \in Outstanding' : EventAt(tp, x) \in Range(d.events)
    BY <1>1, <2>1
  <2> QED BY <2>2 DEF Held, EventAt
<1> QED BY <1>4, <1>5, <1>6 DEF OrderInv

(* Receiving the next message of a partition extends the held prefix by it. *)
LEMMA RecvReady ==
    ASSUME TypeOK, OrderInv, NEW tp \in TP, tp \in assigned, assigned' = assigned,
           NEW o \in Available(tp), \A x \in Available(tp) : o <= x,
           position' = [position EXCEPT ![tp] = o + 1],
           NEW events \in Batches, Range(events) = Range(pending) \union {EventAt(tp, o)}
    PROVE  Ready(events)
<1>1. ASSUME NEW x \in Log[tp], x < o PROVE Held(EventAt(tp, x))
  <2>1. x \in Nat /\ o \in Nat /\ position[tp] \in Nat
    BY LogAssumption DEF TypeOK, Available
  <2>2. x < position[tp]
    BY <1>1, <2>1 DEF Available
  <2> QED BY <2>2 DEF OrderInv
<1>2. ASSUME NEW e \in Range(events), NEW x \in Log[e.tp], x < e.offset
      PROVE  Held(EventAt(e.tp, x))
  <2>1. CASE e \in Range(pending)
    BY <1>2, <2>1 DEF OrderInv
  <2>2. CASE e = EventAt(tp, o)
    <3>1. e.tp = tp /\ e.offset = o
      BY <2>2 DEF EventAt
    <3> QED BY <1>1, <1>2, <3>1
  <2> QED BY <2>1, <2>2
<1>3. ASSUME NEW t \in assigned', NEW x \in Log[t], x < position'[t]
      PROVE  Held(EventAt(t, x)) \/ EventAt(t, x) = EventAt(tp, o)
  <2>1. t \in TP /\ x \in Nat /\ o \in Nat
    BY LogAssumption DEF TypeOK, Available
  <2>2. CASE t # tp
    <3>1. x < position[t]
      BY <1>3, <2>1, <2>2 DEF TypeOK
    <3> QED BY <3>1 DEF OrderInv
  <2>3. CASE t = tp
    <3>1. x < o + 1
      BY <1>3, <2>1, <2>3 DEF TypeOK
    <3>2. x < o \/ x = o
      BY <2>1, <3>1
    <3> QED BY <1>1, <2>3, <3>2
  <2> QED BY <2>2, <2>3
<1> QED BY <1>2, <1>3 DEF Ready, Held

LEMMA CoveredMore ==
    ASSUME NEW tp, NEW o, NEW S, NEW T, S \subseteq T, Covered(tp, o, S)
    PROVE  Covered(tp, o, T)
BY DEF Covered

(* Commit requests and offsets that stay, with more acknowledgements, are safe. *)
LEMMA SafeMore ==
    ASSUME CommitSafe, acked \subseteq acked', commits' \subseteq commits,
           committed' = committed
    PROVE  CommitSafe'
BY CoveredMore DEF CommitSafe

(* Committing the due batch covers only acknowledged events. *)
LEMMA DueSafe ==
    ASSUME TypeOK, Numbered, AckedInv, OrderInv, NEW c \in completed, Due(c),
           NEW tp \in DOMAIN offsets_for(c.events)
    PROVE  Covered(tp, offsets_for(c.events)[tp], acked)
<1>1. c \in Outstanding /\ c.sequence = next_commit_sequence /\ c.events \in Batches
  BY OutstandingType DEF Outstanding, Due
<1>2. Range(c.events) \subseteq acked /\ Range(c.events) \subseteq Events
  BY <1>1, BatchSeq DEF AckedInv
<1>3. PICK e \in Range(c.events) :
          e.tp = tp /\ offsets_for(c.events)[tp] = e.offset + 1
  BY <1>1, OffsetsFor
<1>4. e = EventAt(tp, e.offset) /\ e.offset \in Nat /\ tp \in TP
  BY <1>2, <1>3, EventFields
<1>5. ASSUME NEW x \in Log[tp], x < e.offset + 1 PROVE EventAt(tp, x) \in acked
  <2>1. x \in Nat
    BY <1>4, LogAssumption
  <2>2. CASE x = e.offset
    BY <1>2, <1>4, <2>2
  <2>3. CASE x < e.offset
    <3>1. HeldUpTo(EventAt(tp, x), next_commit_sequence)
      BY <1>1, <1>3, <2>3 DEF OrderInv
    <3>2. \A d \in Outstanding : d.sequence <= next_commit_sequence => d = c
      <4>1. \A d \in Outstanding : d.sequence \in Nat
        BY OutstandingType
      <4>2. next_commit_sequence \in Nat
        BY DEF TypeOK
      <4>3. \A d \in Outstanding : next_commit_sequence <= d.sequence
        BY DEF Numbered
      <4>4. \A d \in Outstanding : d.sequence <= next_commit_sequence
                                     => d.sequence = next_commit_sequence
        BY <4>1, <4>2, <4>3
      <4> QED BY <1>1, <4>4 DEF Numbered
    <3> QED BY <1>2, <3>1, <3>2 DEF HeldUpTo
  <2> QED BY <1>4, <1>5, <2>1, <2>2, <2>3
<1> QED BY <1>3, <1>5 DEF Covered

LEMMA CoverInit == Init => AckedInv /\ OrderInv /\ CommitSafe
<1> SUFFICES ASSUME Init PROVE AckedInv /\ OrderInv /\ CommitSafe
  OBVIOUS
<1>1. AckedInv
  BY DEF Init, AckedInv
<1>2. OrderInv
  BY EmptyBatch DEF Init, OrderInv, Outstanding
<1>3. CommitSafe
  BY LogAssumption DEF Init, CommitSafe, Covered
<1> QED BY <1>1, <1>2, <1>3

LEMMA CoverStep ==
    TypeOK /\ NoBatchLost /\ AckedInv /\ OrderInv /\ CommitSafe /\ [Next]_vars
      => AckedInv' /\ OrderInv' /\ CommitSafe'
<1> SUFFICES ASSUME TypeOK, Numbered, AckedInv, OrderInv, CommitSafe, [Next]_vars
             PROVE  AckedInv' /\ OrderInv' /\ CommitSafe'
  BY NumberedIff
<1> USE DEF loopVars, brokerVars
<1>1. CASE Deadline
  <2>1. /\ Dispatch(pending) /\ pending \in Batches
        /\ UNCHANGED <<completed, acked, assigned, position, commits, committed>>
    BY <1>1 DEF Deadline, TypeOK
  <2>2. Ready(pending)
    BY <2>1 DEF Ready, OrderInv, Held
  <2>3. OrderInv'
    BY <2>1, <2>2, DispatchOrder
  <2>4. AckedInv'
    BY <2>1 DEF Dispatch, AckedInv
  <2> QED BY <2>1, <2>3, <2>4, SafeMore
<1>2. ASSUME NEW tp \in TP, Recv(tp) PROVE AckedInv' /\ OrderInv' /\ CommitSafe'
  <2>1. PICK o \in Available(tp) :
          /\ \A x \in Available(tp) : o <= x
          /\ position' = [position EXCEPT ![tp] = o + 1]
          /\ LET events == Append(pending, EventAt(tp, o)) IN
               \/ IsFull(events) /\ Dispatch(events)
               \/ /\ ~IsFull(events)
                  /\ pending' = events
                  /\ UNCHANGED <<in_flight, sequence, in_flight_bytes, counters>>
    BY <1>2 DEF Recv
  <2> DEFINE events == Append(pending, EventAt(tp, o))
  <2>2. /\ tp \in assigned /\ Len(pending) < BatchSize
        /\ UNCHANGED <<completed, acked, assigned, commits, committed>>
    BY <1>2 DEF Recv
  <2>3. events \in Batches /\ Range(events) = Range(pending) \union {EventAt(tp, o)}
    <3>1. EventAt(tp, o) \in Events
      BY EventFacts DEF Available
    <3> QED BY <2>2, <3>1, PushEvent DEF TypeOK
  <2> HIDE DEF events
  <2>4. Ready(events)
    BY <2>1, <2>2, <2>3, RecvReady
  <2>5. CommitSafe'
    BY <2>2, SafeMore
  <2>6. CASE Dispatch(events)
    <3>1. OrderInv'
      BY <2>2, <2>3, <2>4, <2>6, DispatchOrder
    <3>2. AckedInv'
      BY <2>2, <2>6 DEF Dispatch, AckedInv
    <3> QED BY <2>5, <3>1, <3>2
  <2>7. CASE pending' = events
             /\ UNCHANGED <<in_flight, sequence, in_flight_bytes, counters>>
    <3>1. Outstanding' = Outstanding /\ Range(pending') = Range(events) /\ acked' = acked
      BY <2>2, <2>7 DEF Outstanding
    <3>2. \A e \in Range(pending') : \A x \in Log[e.tp] :
            x < e.offset => Held(EventAt(e.tp, x))'
      BY <2>4, <3>1 DEF Ready, Held, EventAt
    <3>3. \A t \in assigned' : \A x \in Log[t] :
            x < position'[t] => Held(EventAt(t, x))'
      BY <2>4, <3>1 DEF Ready, Held, EventAt
    <3>4. \A b \in Outstanding' : \A e \in Range(b.events) : \A x \in Log[e.tp] :
            x < e.offset => HeldUpTo(EventAt(e.tp, x), b.sequence)'
      BY <3>1 DEF OrderInv, HeldUpTo, EventAt
    <3>5. OrderInv'
      BY <3>2, <3>3, <3>4 DEF OrderInv
    <3>6. AckedInv'
      BY <2>2, <2>7 DEF AckedInv
    <3> QED BY <2>5, <3>5, <3>6
  <2> QED BY <2>1, <2>6, <2>7 DEF events
<1>3. CASE JoinNext
  <2>1. PICK b \in in_flight :
          /\ Succeeded(b) /\ in_flight' = in_flight \ {b}
          /\ completed' = completed \union {[sequence |-> b.sequence, events |-> b.events]}
    BY <1>3 DEF JoinNext, Insert
  <2>2. UNCHANGED <<pending, position, assigned, commits, committed, acked>>
    BY <1>3 DEF JoinNext
  <2>3. Range(b.events) \subseteq acked
    BY <2>1 DEF AckedInv, Succeeded
  <2>4. AckedInv'
    BY <2>1, <2>2, <2>3 DEF AckedInv
  <2>5. Carried
    BY <2>1, <2>2, <2>3 DEF Carried, Outstanding
  <2>6. \A c \in Outstanding' : \E d \in Outstanding :
           d.sequence = c.sequence /\ d.events = c.events
    BY <2>1 DEF Outstanding
  <2>7. OrderInv'
    BY <2>2, <2>5, <2>6, CarryOrder
  <2> QED BY <2>2, <2>4, <2>7, SafeMore
<1>4. CASE CommitNext
  <2>1. PICK c \in completed :
          /\ Due(c) /\ completed' = completed \ {c}
          /\ commits' = commits \union {offsets_for(c.events)}
    BY <1>4 DEF CommitNext
  <2>2. UNCHANGED <<pending, position, assigned, committed, acked, in_flight>>
    BY <1>4 DEF CommitNext
  <2>3. AckedInv'
    BY <2>1, <2>2 DEF AckedInv
  <2>4. Carried
    BY <2>1, <2>2 DEF Carried, Outstanding, AckedInv
  <2>5. \A d \in Outstanding' : d \in Outstanding
    BY <2>1, <2>2 DEF Outstanding
  <2>6. OrderInv'
    BY <2>2, <2>4, <2>5, CarryOrder
  <2>7. \A tp \in DOMAIN offsets_for(c.events) :
           Covered(tp, offsets_for(c.events)[tp], acked)
    BY <2>1, DueSafe
  <2>8. CommitSafe'
    BY <2>1, <2>2, <2>7 DEF CommitSafe
  <2> QED BY <2>3, <2>6, <2>8
<1>5. CASE FanoutOk
  <2>1. PICK b \in in_flight :
          /\ in_flight' = (in_flight \ {b}) \union {[b EXCEPT !.result = "ok"]}
          /\ acked' = acked \union Range(b.events)
    BY <1>5 DEF FanoutOk
  <2> DEFINE d == [b EXCEPT !.result = "ok"]
  <2>2. UNCHANGED <<pending, position, assigned, commits, committed, completed>>
    BY <1>5 DEF FanoutOk
  <2>3. d.sequence = b.sequence /\ d.events = b.events
    BY DEF TypeOK
  <2> HIDE DEF d
  <2>4. in_flight' = (in_flight \ {b}) \union {d}
    BY <2>1 DEF d
  <2>5. AckedInv'
    BY <2>1, <2>2, <2>3, <2>4 DEF AckedInv
  <2>6. Carried
    BY <2>1, <2>2, <2>3, <2>4 DEF Carried, Outstanding
  <2>7. \A c \in Outstanding' : \E e \in Outstanding :
           e.sequence = c.sequence /\ e.events = c.events
    BY <2>2, <2>3, <2>4 DEF Outstanding
  <2>8. OrderInv'
    BY <2>2, <2>6, <2>7, CarryOrder
  <2> QED BY <2>1, <2>2, <2>5, <2>8, SafeMore
<1>6. CASE FanoutErr
  <2>1. PICK b \in in_flight :
          in_flight' = (in_flight \ {b}) \union {[b EXCEPT !.result = "err"]}
    BY <1>6 DEF FanoutErr
  <2> DEFINE d == [b EXCEPT !.result = "err"]
  <2>2. UNCHANGED <<pending, position, assigned, commits, committed, completed, acked>>
    BY <1>6 DEF FanoutErr
  <2>3. d.sequence = b.sequence /\ d.events = b.events /\ d.result = "err"
    BY DEF TypeOK
  <2> HIDE DEF d
  <2>4. in_flight' = (in_flight \ {b}) \union {d}
    BY <2>1 DEF d
  <2>5. AckedInv'
    BY <2>2, <2>3, <2>4 DEF AckedInv
  <2>6. Carried
    BY <2>2, <2>3, <2>4 DEF Carried, Outstanding
  <2>7. \A c \in Outstanding' : \E e \in Outstanding :
           e.sequence = c.sequence /\ e.events = c.events
    BY <2>2, <2>3, <2>4 DEF Outstanding
  <2>8. OrderInv'
    BY <2>2, <2>6, <2>7, CarryOrder
  <2> QED BY <2>2, <2>5, <2>8, SafeMore
<1>7. CASE Shutdown \/ JoinFails \/ RecvFails \/ CommitFails \/ Crash
  <2>1. /\ pending' = <<>> /\ in_flight' = {} /\ completed' = {} /\ assigned' = {}
        /\ UNCHANGED <<commits, committed, acked>>
    BY <1>7 DEF Shutdown, JoinFails, RecvFails, CommitFails, Crash, Leave
  <2>2. OrderInv' /\ AckedInv'
    BY <2>1, EmptyBatch DEF OrderInv, AckedInv, Outstanding
  <2> QED BY <2>1, <2>2, SafeMore
<1>8. ASSUME UNCHANGED <<pending, in_flight, completed, position>>,
             assigned' \subseteq assigned, acked \subseteq acked'
      PROVE  AckedInv' /\ OrderInv'
  <2>1. AckedInv'
    BY <1>8 DEF AckedInv
  <2>2. Carried /\ Outstanding' = Outstanding
    BY <1>8 DEF Carried, Outstanding
  <2> QED BY <1>8, <2>1, <2>2, CarryOrder
<1>9. CASE BrokerCommits
  <2>1. PICK c \in commits :
          /\ committed' = [tp \in TP |-> IF tp \in DOMAIN c THEN c[tp] ELSE committed[tp]]
          /\ commits' = commits \ {c}
    BY <1>9 DEF BrokerCommits
  <2>2. UNCHANGED <<pending, in_flight, completed, position, assigned, acked>>
    BY <1>9 DEF BrokerCommits
  <2>3. CommitSafe'
    BY <2>1, <2>2 DEF CommitSafe
  <2> QED BY <1>8, <2>2, <2>3
<1>10. CASE CommitDone \/ CommitLost \/ Revoke \/ Restart \/ UNCHANGED vars
  <2>1. /\ UNCHANGED <<pending, in_flight, completed, position, committed, acked>>
        /\ assigned' \subseteq assigned /\ commits' \subseteq commits
    BY <1>10 DEF CommitDone, CommitLost, Revoke, Restart, vars
  <2> QED BY <1>8, <2>1, SafeMore
<1>11. ASSUME NEW S \in SUBSET TP, Assign(S) PROVE AckedInv' /\ OrderInv' /\ CommitSafe'
  <2>1. /\ UNCHANGED <<pending, in_flight, completed, committed, commits, acked>>
        /\ assigned' = S
        /\ position' = [tp \in TP |-> IF tp \in S THEN committed[tp] ELSE position[tp]]
    BY <1>11 DEF Assign
  <2>2. AckedInv' /\ CommitSafe'
    BY <2>1, SafeMore DEF AckedInv
  <2>3. Outstanding' = Outstanding
    BY <2>1 DEF Outstanding
  <2>4. \A e \in Range(pending') : \A x \in Log[e.tp] :
          x < e.offset => Held(EventAt(e.tp, x))'
    BY <2>1, <2>3 DEF OrderInv, Held, EventAt
  <2>5. \A b \in Outstanding' : \A e \in Range(b.events) : \A x \in Log[e.tp] :
          x < e.offset => HeldUpTo(EventAt(e.tp, x), b.sequence)'
    BY <2>1, <2>3 DEF OrderInv, HeldUpTo, EventAt
  <2>6. \A tp \in assigned' : \A x \in Log[tp] :
          x < position'[tp] => Held(EventAt(tp, x))'
    BY <2>1 DEF CommitSafe, Covered, Held, EventAt
  <2> QED BY <2>2, <2>4, <2>5, <2>6 DEF OrderInv
<1>12. ASSUME NEW tp \in TP, PeerDelivers(tp) PROVE AckedInv' /\ OrderInv' /\ CommitSafe'
  <2>1. /\ UNCHANGED <<pending, in_flight, completed, position, assigned, commits, committed>>
        /\ acked \subseteq acked'
    BY <1>12 DEF PeerDelivers
  <2> QED BY <1>8, <2>1, SafeMore
<1>13. ASSUME NEW tp \in TP, PeerCommits(tp) PROVE AckedInv' /\ OrderInv' /\ CommitSafe'
  <2>1. UNCHANGED <<pending, in_flight, completed, position, assigned, commits, acked>>
    BY <1>13 DEF PeerCommits
  <2>2. PICK o \in Log[tp] : /\ Covered(tp, o + 1, acked)
                             /\ committed' = [committed EXCEPT ![tp] = o + 1]
    BY <1>13 DEF PeerCommits
  <2>3. CommitSafe'
    BY <2>1, <2>2 DEF CommitSafe, TypeOK
  <2> QED BY <1>8, <2>1, <2>3
<1> QED
  BY <1>1, <1>2, <1>3, <1>4, <1>5, <1>6, <1>7, <1>9, <1>10, <1>11, <1>12, <1>13
     DEF Next, Loop, Environment

----------------------------------------------------------------------------
(* Bytes and events of the batches, each counted in one place *)

BytesIn(S) == [b \in S |-> Bytes(b.events)]
EventsIn(S) == [b \in S |-> Len(b.events)]

(* A source that left its loop holds nothing, and a run of commits counts its *)
(* events before the loop goes back to its select. *)
IdleInv ==
    /\ IsFiniteSet(completed)
    /\ status # "running" => /\ pending = <<>> /\ in_flight = {} /\ completed = {}
                             /\ in_flight_bytes = 0 /\ committed_events = 0
    /\ pc = "select" => committed_events = 0

(* The two accounts, kept together. *)
AccountInv == IdleInv /\ ByteAccounting /\ EventsAccounted

LEMMA BatchNumbers ==
    ASSUME NEW s \in Batches PROVE Bytes(s) \in Nat /\ Len(s) \in Nat
BY BatchSeq, BytesAssumption, SourceAssumption

LEMMA SumsAreNumbers ==
    ASSUME NEW S, IsFiniteSet(S), \A b \in S : b.events \in Batches
    PROVE  /\ SumFunction(BytesIn(S)) \in Nat /\ SumFunction(EventsIn(S)) \in Nat
           /\ S = {} => SumFunction(BytesIn(S)) = 0 /\ SumFunction(EventsIn(S)) = 0
<1>1. PICK f : f = BytesIn(S)
  OBVIOUS
<1>2. PICK g : g = EventsIn(S)
  OBVIOUS
<1>3. DOMAIN f = S /\ DOMAIN g = S /\ \A b \in S : f[b] \in Nat /\ g[b] \in Nat
  BY <1>1, <1>2, BatchNumbers DEF BytesIn, EventsIn
<1>4. /\ SumFunction(f) \in Nat /\ (DOMAIN f = {} => SumFunction(f) = 0)
      /\ SumFunction(g) \in Nat /\ (DOMAIN g = {} => SumFunction(g) = 0)
  BY <1>3, SumFunctionType
<1> QED BY <1>1, <1>2, <1>3, <1>4

(* One more batch adds its bytes and its events. *)
LEMMA SumsGrow ==
    ASSUME NEW S, IsFiniteSet(S), \A b \in S : b.events \in Batches,
           NEW d, d \notin S, d.events \in Batches
    PROVE  /\ SumFunction(BytesIn(S \union {d})) = SumFunction(BytesIn(S)) + Bytes(d.events)
           /\ SumFunction(EventsIn(S \union {d})) = SumFunction(EventsIn(S)) + Len(d.events)
<1> DEFINE T == S \union {d}
<1>0. IsFiniteSet(T) /\ d \in T /\ \A b \in T : b.events \in Batches
  BY FS_AddElement
<1>1. SumFunction(BytesIn(T)) = Bytes(d.events) + SumFunction(BytesIn(S))
  <2>1. PICK f : f = BytesIn(S)
    OBVIOUS
  <2>2. PICK h : h = BytesIn(T)
    OBVIOUS
  <2>3. /\ DOMAIN f = S /\ DOMAIN h = S \union {d} /\ \A b \in S : h[b] = f[b]
        /\ \A b \in T : h[b] = Bytes(b.events) /\ h[b] \in Nat
    BY <1>0, <2>1, <2>2, BatchNumbers DEF BytesIn
  <2>4. SumFunction(h) = h[d] + SumFunction(f)
    BY <2>3, SumFunctionExtends
  <2> QED BY <1>0, <2>1, <2>2, <2>3, <2>4
<1>2. SumFunction(EventsIn(T)) = Len(d.events) + SumFunction(EventsIn(S))
  <2>1. PICK f : f = EventsIn(S)
    OBVIOUS
  <2>2. PICK h : h = EventsIn(T)
    OBVIOUS
  <2>3. /\ DOMAIN f = S /\ DOMAIN h = S \union {d} /\ \A b \in S : h[b] = f[b]
        /\ \A b \in T : h[b] = Len(b.events) /\ h[b] \in Nat
    BY <1>0, <2>1, <2>2, BatchNumbers DEF EventsIn
  <2>4. SumFunction(h) = h[d] + SumFunction(f)
    BY <2>3, SumFunctionExtends
  <2> QED BY <1>0, <2>1, <2>2, <2>3, <2>4
<1>3. Bytes(d.events) \in Nat /\ Len(d.events) \in Nat
  BY BatchNumbers
<1>4. SumFunction(BytesIn(S)) \in Nat /\ SumFunction(EventsIn(S)) \in Nat
  BY SumsAreNumbers
<1> QED BY <1>1, <1>2, <1>3, <1>4

LEMMA SumsShrink ==
    ASSUME NEW S, IsFiniteSet(S), \A b \in S : b.events \in Batches, NEW d \in S
    PROVE  /\ IsFiniteSet(S \ {d})
           /\ SumFunction(BytesIn(S)) = SumFunction(BytesIn(S \ {d})) + Bytes(d.events)
           /\ SumFunction(EventsIn(S)) = SumFunction(EventsIn(S \ {d})) + Len(d.events)
<1>1. PICK R : R = S \ {d}
  OBVIOUS
<1>2. IsFiniteSet(R) /\ d \notin R /\ (\A b \in R : b.events \in Batches) /\ S = R \union {d}
  BY <1>1, FS_Subset
<1>3. /\ SumFunction(BytesIn(R \union {d})) = SumFunction(BytesIn(R)) + Bytes(d.events)
      /\ SumFunction(EventsIn(R \union {d})) = SumFunction(EventsIn(R)) + Len(d.events)
  BY <1>2, SumsGrow
<1> QED BY <1>1, <1>2, <1>3

LEMMA AccountInit == Init => AccountInv
<1> SUFFICES ASSUME Init PROVE AccountInv
  OBVIOUS
<1>1. IsFiniteSet({}) /\ Cardinality({}) = 0
  BY FS_EmptySet
<1>2. SumFunction(BytesIn({})) = 0 /\ SumFunction(EventsIn({})) = 0
  BY <1>1, SumsAreNumbers
<1>3. /\ in_flight = {} /\ completed = {} /\ pending = <<>> /\ Len(<<>>) = 0
      /\ in_flight_bytes = 0 /\ committed_events = 0 /\ received = 0 /\ status = "running"
      /\ counters.in_flight_bytes = 0 /\ counters.in_flight_batches = 0 /\ counters.events_in = 0
  BY DEF Init, ZeroCounters
<1>4. ByteAccounting
  BY <1>1, <1>2, <1>3 DEF ByteAccounting, BytesIn
<1>5. EventsAccounted
  BY <1>2, <1>3 DEF EventsAccounted, EventsIn
<1> QED BY <1>1, <1>3, <1>4, <1>5 DEF AccountInv, IdleInv

LEMMA PendingMoves ==
    ASSUME NEW e \in Nat, NEW c \in Nat, NEW p \in Nat, NEW x \in Nat, NEW y \in Nat,
           NEW n \in Nat, NEW r \in Nat, NEW q \in Nat,
           r = e + c + p + x + y, q + p = r + n
    PROVE  q = e + c + 0 + (x + n) + y /\ q = e + c + n + x + y
OBVIOUS

(* What a dispatch does to the accounts. *)
LEMMA DispatchAccounts ==
    ASSUME TypeOK, Numbered, AccountInv, status = "running", status' = status,
           NEW events \in Batches, Dispatch(events),
           UNCHANGED <<pc, completed, committed_events>>,
           received' + Len(pending) = received + Len(events)
    PROVE  AccountInv' \/ received' \notin Nat
<1> SUFFICES ASSUME received' \in Nat PROVE AccountInv'
  OBVIOUS
<1> DEFINE d == [sequence |-> sequence, events |-> events, result |-> "sending"]
<1>1. in_flight' = in_flight \union {d} /\ d.events = events /\ d.sequence = sequence
  BY DEF Dispatch
<1> HIDE DEF d
<1>2. IsFiniteSet(in_flight) /\ (\A b \in in_flight : b.events \in Batches)
      /\ (\A c \in completed : c.events \in Batches) /\ sequence \in Nat
  BY DEF TypeOK
<1>3. d \notin in_flight
  <2>1. \A b \in in_flight : b.sequence \in Nat /\ b.sequence < sequence
    BY DEF TypeOK, Numbered, Outstanding
  <2> QED BY <1>1, <1>2, <2>1
<1>4. /\ SumFunction(BytesIn(in_flight')) = SumFunction(BytesIn(in_flight)) + Bytes(events)
      /\ SumFunction(EventsIn(in_flight')) = SumFunction(EventsIn(in_flight)) + Len(events)
  BY <1>1, <1>2, <1>3, SumsGrow
<1>5. /\ SumFunction(EventsIn(in_flight)) \in Nat /\ SumFunction(EventsIn(completed)) \in Nat
      /\ Len(events) \in Nat /\ Len(pending) \in Nat
      /\ received \in Nat /\ committed_events \in Nat /\ counters.events_in \in Nat
  <2>1. IsFiniteSet(completed)
    BY DEF AccountInv, IdleInv
  <2>2. pending \in Batches
    BY DEF TypeOK
  <2> QED BY <1>2, <2>1, <2>2, SumsAreNumbers, BatchNumbers DEF TypeOK
<1>6. /\ in_flight_bytes' = in_flight_bytes + Bytes(events) /\ pending' = <<>>
      /\ counters'.in_flight_bytes = in_flight_bytes'
      /\ counters'.in_flight_batches = Cardinality(in_flight) + 1
      /\ counters'.events_in = counters.events_in
  BY DEF Dispatch, TypeOK
<1>7. Cardinality(in_flight') = Cardinality(in_flight) + 1
  BY <1>1, <1>2, <1>3, FS_AddElement
<1>8. ByteAccounting'
  BY <1>4, <1>6, <1>7 DEF AccountInv, ByteAccounting, BytesIn
<1>9. EventsAccounted'
  <2>1. received = counters.events_in + committed_events + Len(pending)
          + SumFunction(EventsIn(in_flight)) + SumFunction(EventsIn(completed))
    BY DEF AccountInv, EventsAccounted, EventsIn
  <2>2. Len(pending') = 0
    BY <1>6
  <2>3. PICK x \in Nat : x = SumFunction(EventsIn(in_flight))
    BY <1>5
  <2>4. PICK y \in Nat : y = SumFunction(EventsIn(completed))
    BY <1>5
  <2>5. SumFunction(EventsIn(in_flight')) = x + Len(events)
    BY <1>4, <2>3
  <2>6. received = counters.events_in + committed_events + Len(pending) + x + y
    BY <2>1, <2>3, <2>4
  <2>7. received' = counters.events_in + committed_events + 0 + (x + Len(events)) + y
    <3>1. PICK e \in Nat, c \in Nat, p \in Nat, n \in Nat, r \in Nat, q \in Nat :
            /\ e = counters.events_in /\ c = committed_events /\ p = Len(pending)
            /\ n = Len(events) /\ r = received /\ q = received'
      BY <1>5
    <3>2. r = e + c + p + x + y /\ q + p = r + n
      BY <2>6, <3>1
    <3>3. q = e + c + 0 + (x + n) + y
      BY <3>2, PendingMoves
    <3> QED BY <3>1, <3>3
  <2>8. received' = counters'.events_in + committed_events' + Len(pending')
          + SumFunction(EventsIn(in_flight')) + SumFunction(EventsIn(completed'))
    BY <1>6, <2>2, <2>4, <2>5, <2>7
  <2> QED BY <2>8 DEF EventsAccounted, EventsIn
<1> QED BY <1>8, <1>9 DEF AccountInv, IdleInv

(* A batch whose result changes is counted as before. *)
LEMMA SumsKeep ==
    ASSUME NEW S, IsFiniteSet(S), \A b \in S : b.events \in Batches, NEW b \in S,
           NEW d, d \notin S \ {b}, d.events = b.events
    PROVE  /\ SumFunction(BytesIn((S \ {b}) \union {d})) = SumFunction(BytesIn(S))
           /\ SumFunction(EventsIn((S \ {b}) \union {d})) = SumFunction(EventsIn(S))
           /\ Cardinality((S \ {b}) \union {d}) = Cardinality(S)
<1>1. PICK R : R = S \ {b}
  OBVIOUS
<1>2. IsFiniteSet(R) /\ d \notin R /\ \A c \in R : c.events \in Batches
  BY <1>1, FS_Subset
<1>3. /\ SumFunction(BytesIn(R \union {d})) = SumFunction(BytesIn(R)) + Bytes(d.events)
      /\ SumFunction(EventsIn(R \union {d})) = SumFunction(EventsIn(R)) + Len(d.events)
  BY <1>2, SumsGrow
<1>4. /\ SumFunction(BytesIn(S)) = SumFunction(BytesIn(R)) + Bytes(b.events)
      /\ SumFunction(EventsIn(S)) = SumFunction(EventsIn(R)) + Len(b.events)
  BY <1>1, SumsShrink
<1>5. Cardinality(R) = Cardinality(S) - 1 /\ Cardinality(S) \in Nat
  BY <1>1, FS_RemoveElement, FS_CardinalityType
<1>6. Cardinality(R \union {d}) = Cardinality(R) + 1
  BY <1>2, FS_AddElement
<1> QED BY <1>1, <1>3, <1>4, <1>5, <1>6

(* A step that changes none of the amounts keeps the accounts. *)
LEMMA AccountsAlone ==
    ASSUME AccountInv, UNCHANGED <<loopVars, received>>,
           counters'.in_flight_bytes = counters.in_flight_bytes,
           counters'.in_flight_batches = counters.in_flight_batches,
           counters'.events_in = counters.events_in
    PROVE  AccountInv'
BY DEF AccountInv, IdleInv, ByteAccounting, EventsAccounted, loopVars

LEMMA AccountStep ==
    TypeOK /\ TypeOK' /\ Numbered /\ AccountInv /\ [Next]_vars => AccountInv'
<1> SUFFICES ASSUME TypeOK, TypeOK', Numbered, AccountInv, [Next]_vars PROVE AccountInv'
  OBVIOUS
<1> USE DEF loopVars, brokerVars
<1>0. /\ IsFiniteSet(in_flight) /\ IsFiniteSet(completed) /\ pending \in Batches
      /\ \A b \in in_flight : b.events \in Batches
      /\ \A c \in completed : c.events \in Batches
      /\ received \in Nat /\ received' \in Nat /\ committed_events \in Nat
      /\ counters \in CounterType /\ in_flight_bytes \in Nat
  BY DEF TypeOK, AccountInv, IdleInv, CounterType
<1>1. /\ SumFunction(BytesIn(in_flight)) \in Nat /\ SumFunction(EventsIn(in_flight)) \in Nat
      /\ SumFunction(EventsIn(completed)) \in Nat /\ Len(pending) \in Nat
      /\ counters.events_in \in Nat
  BY <1>0, SumsAreNumbers, BatchNumbers DEF CounterType
<1>2. /\ in_flight_bytes = SumFunction(BytesIn(in_flight))
      /\ status = "running" =>
           received = counters.events_in + committed_events + Len(pending)
             + SumFunction(EventsIn(in_flight)) + SumFunction(EventsIn(completed))
  BY DEF AccountInv, ByteAccounting, EventsAccounted, BytesIn, EventsIn
<1>3. CASE Deadline
  <2>1. /\ status = "running" /\ status' = status /\ Dispatch(pending)
        /\ UNCHANGED <<pc, completed, committed_events, received>>
    BY <1>3 DEF Deadline, Selecting
  <2> QED BY <1>0, <2>1, DispatchAccounts
<1>4. ASSUME NEW tp \in TP, Recv(tp) PROVE AccountInv'
  <2>1. PICK o \in Available(tp) :
          LET events == Append(pending, EventAt(tp, o)) IN
            \/ IsFull(events) /\ Dispatch(events)
            \/ /\ ~IsFull(events)
               /\ pending' = events
               /\ UNCHANGED <<in_flight, sequence, in_flight_bytes, counters>>
    BY <1>4 DEF Recv
  <2> DEFINE events == Append(pending, EventAt(tp, o))
  <2>2. /\ status = "running" /\ status' = status /\ received' = received + 1
        /\ Len(pending) < BatchSize /\ UNCHANGED <<pc, completed, committed_events>>
    BY <1>4 DEF Recv, Selecting
  <2>3. events \in Batches /\ Len(events) = Len(pending) + 1
    <3>1. EventAt(tp, o) \in Events
      BY EventFacts DEF Available
    <3> QED BY <1>0, <2>2, <3>1, PushEvent
  <2>4. received' + Len(pending) = received + Len(events)
    BY <1>0, <1>1, <2>2, <2>3
  <2> HIDE DEF events
  <2>5. CASE Dispatch(events)
    BY <1>0, <2>2, <2>3, <2>4, <2>5, DispatchAccounts
  <2>6. CASE /\ pending' = events
             /\ UNCHANGED <<in_flight, sequence, in_flight_bytes, counters>>
    <3>1. PICK x \in Nat, y \in Nat :
            x = SumFunction(EventsIn(in_flight)) /\ y = SumFunction(EventsIn(completed))
      BY <1>1
    <3>2. received = counters.events_in + committed_events + Len(pending) + x + y
      BY <1>2, <2>2, <3>1
    <3>3. received' = counters.events_in + committed_events + Len(events) + x + y
      <4>1. PICK e \in Nat, c \in Nat, p \in Nat, n \in Nat, r \in Nat, q \in Nat :
              /\ e = counters.events_in /\ c = committed_events /\ p = Len(pending)
              /\ n = Len(events) /\ r = received /\ q = received'
        BY <1>0, <1>1, <2>3, BatchNumbers
      <4>2. r = e + c + p + x + y /\ q + p = r + n
        BY <2>4, <3>2, <4>1
      <4>3. q = e + c + n + x + y
        BY <4>2, PendingMoves
      <4> QED BY <4>1, <4>3
    <3>4. EventsAccounted'
      BY <2>2, <2>6, <3>1, <3>3 DEF EventsAccounted, EventsIn
    <3>5. ByteAccounting' /\ IdleInv'
      BY <2>2, <2>6 DEF AccountInv, ByteAccounting, IdleInv
    <3> QED BY <3>4, <3>5 DEF AccountInv
  <2> QED BY <2>1, <2>5, <2>6 DEF events
<1>5. CASE JoinNext
  <2>1. PICK b \in in_flight :
          /\ in_flight' = in_flight \ {b}
          /\ in_flight_bytes' = saturating_sub(in_flight_bytes, Bytes(b.events))
          /\ completed' = completed \union {[sequence |-> b.sequence, events |-> b.events]}
    BY <1>5 DEF JoinNext, Insert
  <2> DEFINE d == [sequence |-> b.sequence, events |-> b.events]
  <2>2. d.events = b.events /\ d.sequence = b.sequence /\ completed' = completed \union {d}
    BY <2>1
  <2> HIDE DEF d
  <2>3. d \notin completed
    BY <2>2, Apart DEF Numbered, Outstanding
  <2>4. PICK x \in Nat, y \in Nat, z \in Nat, m \in Nat, n \in Nat :
          /\ x = SumFunction(EventsIn(in_flight')) /\ y = SumFunction(EventsIn(completed))
          /\ z = SumFunction(BytesIn(in_flight')) /\ m = Bytes(b.events) /\ n = Len(b.events)
    <3>1. IsFiniteSet(in_flight') /\ \A c \in in_flight' : c.events \in Batches
      BY <1>0, <2>1, FS_Subset
    <3>2. SumFunction(EventsIn(in_flight')) \in Nat /\ SumFunction(BytesIn(in_flight')) \in Nat
      BY <3>1, SumsAreNumbers
    <3>3. Bytes(b.events) \in Nat /\ Len(b.events) \in Nat
      BY <1>0, BatchNumbers
    <3> QED BY <1>1, <3>2, <3>3
  <2>5. /\ SumFunction(BytesIn(in_flight)) = z + m /\ SumFunction(EventsIn(in_flight)) = x + n
    BY <1>0, <2>1, <2>4, SumsShrink
  <2>6. SumFunction(EventsIn(completed')) = y + n
    BY <1>0, <2>2, <2>3, <2>4, SumsGrow
  <2>7. in_flight_bytes' = z
    BY <1>2, <2>1, <2>4, <2>5 DEF saturating_sub
  <2>8. /\ counters'.in_flight_bytes = in_flight_bytes'
        /\ counters'.in_flight_batches = Cardinality(in_flight')
        /\ counters'.events_in = counters.events_in
        /\ UNCHANGED <<status, pending, received>> /\ committed_events' = 0
        /\ status = "running" /\ pc = "select"
    BY <1>0, <1>5 DEF JoinNext, CounterType, Selecting
  <2>9. ByteAccounting'
    BY <2>4, <2>7, <2>8 DEF ByteAccounting, BytesIn
  <2>10. received = counters.events_in + 0 + Len(pending) + (x + n) + y
    <3>1. committed_events = 0
      BY <2>8 DEF AccountInv, IdleInv
    <3> QED BY <1>2, <2>4, <2>5, <2>8, <3>1
  <2>11. received = counters.events_in + 0 + Len(pending) + x + (y + n)
    BY <1>0, <1>1, <2>10
  <2>12. EventsAccounted'
    BY <2>4, <2>6, <2>8, <2>11 DEF EventsAccounted, EventsIn
  <2>13. IsFiniteSet(completed')
    BY <1>0, <2>2, FS_AddElement
  <2> QED BY <2>8, <2>9, <2>12, <2>13 DEF AccountInv, IdleInv
<1>6. CASE CommitNext
  <2>1. PICK c \in completed :
          completed' = completed \ {c} /\ committed_events' = committed_events + Len(c.events)
    BY <1>6 DEF CommitNext
  <2>2. /\ UNCHANGED <<status, pc, pending, in_flight, in_flight_bytes, received>>
        /\ counters'.in_flight_bytes = counters.in_flight_bytes
        /\ counters'.in_flight_batches = counters.in_flight_batches
        /\ counters'.events_in = counters.events_in
        /\ status = "running" /\ pc = "commit"
    BY <1>0, <1>6 DEF CommitNext, CounterType
  <2>3. IsFiniteSet(completed') /\ \A d \in completed' : d.events \in Batches
    BY <1>0, <2>1, FS_Subset
  <2>4. PICK x \in Nat, y \in Nat, n \in Nat :
          /\ x = SumFunction(EventsIn(in_flight)) /\ y = SumFunction(EventsIn(completed'))
          /\ n = Len(c.events)
    <3>1. SumFunction(EventsIn(completed')) \in Nat
      BY <2>3, SumsAreNumbers
    <3>2. Len(c.events) \in Nat
      BY <1>0, BatchNumbers
    <3> QED BY <1>1, <3>1, <3>2
  <2>5. SumFunction(EventsIn(completed)) = y + n
    BY <1>0, <2>1, <2>4, SumsShrink
  <2>6. received = counters.events_in + committed_events + Len(pending) + x + (y + n)
    BY <1>2, <2>2, <2>4, <2>5
  <2>7. received = counters.events_in + (committed_events + n) + Len(pending) + x + y
    BY <1>0, <1>1, <2>6
  <2>8. EventsAccounted'
    BY <2>1, <2>2, <2>4, <2>7 DEF EventsAccounted, EventsIn
  <2>9. ByteAccounting'
    BY <2>2 DEF AccountInv, ByteAccounting
  <2> QED BY <2>2, <2>3, <2>8, <2>9 DEF AccountInv, IdleInv
<1>7. CASE CommitDone
  <2>1. /\ UNCHANGED <<status, pending, in_flight, completed, in_flight_bytes, received>>
        /\ counters'.in_flight_bytes = counters.in_flight_bytes
        /\ counters'.in_flight_batches = counters.in_flight_batches
        /\ counters'.events_in = counters.events_in + committed_events
        /\ status = "running" /\ committed_events' = 0
    BY <1>0, <1>7 DEF CommitDone, CounterType, Counted
  <2>2. PICK x \in Nat, y \in Nat :
          x = SumFunction(EventsIn(in_flight)) /\ y = SumFunction(EventsIn(completed))
    BY <1>1
  <2>3. received = counters.events_in + committed_events + Len(pending) + x + y
    BY <1>2, <2>1, <2>2
  <2>4. received = (counters.events_in + committed_events) + 0 + Len(pending) + x + y
    BY <1>0, <1>1, <2>3
  <2>5. EventsAccounted'
    BY <2>1, <2>2, <2>4 DEF EventsAccounted, EventsIn
  <2>6. ByteAccounting'
    BY <2>1 DEF AccountInv, ByteAccounting
  <2> QED BY <2>1, <2>5, <2>6 DEF AccountInv, IdleInv
<1>8. ASSUME NEW outcome \in {"stopped", "failed"}, Leave(outcome) PROVE AccountInv'
  <2>1. /\ status' # "running" /\ pending' = <<>> /\ in_flight' = {} /\ completed' = {}
        /\ in_flight_bytes' = 0 /\ committed_events' = 0
    BY <1>8 DEF Leave
  <2>2. IsFiniteSet({})
    BY FS_EmptySet
  <2>3. SumFunction(BytesIn({})) = 0
    BY <2>2, SumsAreNumbers
  <2>4. ByteAccounting'
    BY <2>1, <2>3 DEF ByteAccounting, BytesIn
  <2> QED BY <2>1, <2>2, <2>4 DEF AccountInv, IdleInv, EventsAccounted
<1>9. CASE FanoutOk \/ FanoutErr
  <2>1. PICK b \in in_flight, r \in {"ok", "err"} :
          in_flight' = (in_flight \ {b}) \union {[b EXCEPT !.result = r]}
    BY <1>9 DEF FanoutOk, FanoutErr
  <2>2. PICK d : d = [b EXCEPT !.result = r]
    OBVIOUS
  <2>3. d.events = b.events /\ d.sequence = b.sequence
    BY <2>2 DEF TypeOK
  <2>4. d \notin in_flight \ {b}
    BY <2>3 DEF Numbered, Outstanding
  <2>5. /\ SumFunction(BytesIn(in_flight')) = SumFunction(BytesIn(in_flight))
        /\ SumFunction(EventsIn(in_flight')) = SumFunction(EventsIn(in_flight))
        /\ Cardinality(in_flight') = Cardinality(in_flight)
    BY <1>0, <2>1, <2>2, <2>3, <2>4, SumsKeep
  <2>6. UNCHANGED <<status, pc, pending, completed, in_flight_bytes, committed_events,
                    counters, received>>
    BY <1>9 DEF FanoutOk, FanoutErr
  <2>7. status = "running"
    BY <2>1 DEF AccountInv, IdleInv
  <2>8. ByteAccounting'
    BY <1>2, <2>5, <2>6 DEF AccountInv, ByteAccounting, BytesIn
  <2>9. EventsAccounted'
    BY <1>2, <2>5, <2>6, <2>7 DEF EventsAccounted, EventsIn
  <2> QED BY <2>6, <2>7, <2>8, <2>9 DEF AccountInv, IdleInv
<1>10. CASE \/ BrokerCommits \/ CommitLost \/ Revoke
            \/ \E tp \in TP : PeerDelivers(tp) \/ PeerCommits(tp)
            \/ UNCHANGED vars
  <2>1. UNCHANGED <<loopVars, received, counters>>
    BY <1>10 DEF BrokerCommits, CommitLost, Revoke, PeerDelivers, PeerCommits, vars
  <2> QED BY <2>1, AccountsAlone
<1>11. ASSUME NEW S \in SUBSET TP, Assign(S) PROVE AccountInv'
  <2>1. /\ UNCHANGED <<loopVars, received>>
        /\ counters'.in_flight_bytes = counters.in_flight_bytes
        /\ counters'.in_flight_batches = counters.in_flight_batches
        /\ counters'.events_in = counters.events_in
    BY <1>0, <1>11 DEF Assign, CounterType
  <2> QED BY <2>1, AccountsAlone
<1>12. CASE Restart
  <2>1. /\ UNCHANGED <<pc, pending, in_flight, completed, in_flight_bytes, committed_events>>
        /\ counters'.in_flight_bytes = 0 /\ counters'.in_flight_batches = 0
        /\ counters'.events_in = 0 /\ received' = 0
    BY <1>12 DEF Restart, ZeroCounters
  <2>2. /\ pending = <<>> /\ in_flight = {} /\ completed = {}
        /\ in_flight_bytes = 0 /\ committed_events = 0
    BY <1>12 DEF Restart, AccountInv, IdleInv
  <2>3. IsFiniteSet({}) /\ Cardinality({}) = 0 /\ Len(<<>>) = 0
    BY FS_EmptySet
  <2>4. SumFunction(BytesIn({})) = 0 /\ SumFunction(EventsIn({})) = 0
    BY <2>3, SumsAreNumbers
  <2>5. ByteAccounting'
    BY <2>1, <2>2, <2>3, <2>4 DEF ByteAccounting, BytesIn
  <2>6. EventsAccounted'
    BY <2>1, <2>2, <2>3, <2>4 DEF EventsAccounted, EventsIn
  <2> QED BY <2>1, <2>2, <2>3, <2>5, <2>6 DEF AccountInv, IdleInv
<1>13. CASE Shutdown \/ JoinFails \/ RecvFails \/ CommitFails \/ Crash
  BY <1>8, <1>13 DEF Shutdown, JoinFails, RecvFails, CommitFails, Crash
<1> QED BY <1>3, <1>4, <1>5, <1>6, <1>7, <1>9, <1>10, <1>11, <1>12, <1>13
        DEF Next, Loop, Environment

----------------------------------------------------------------------------
(* The theorems about the source *)

(* The inductive invariant holds of every reachable state. *)
THEOREM SourceInvariant == Spec => []SourceInv
<1>1. Init => SourceInv
  BY TypeInit, WindowInit, NumberingInit, CoverInit DEF SourceInv
<1>2. SourceInv /\ [Next]_vars => SourceInv'
  BY TypeStep, WindowStep, NumberingStep, CoverStep DEF SourceInv
<1> QED BY <1>1, <1>2, PTL DEF Spec

(* At-least-once, for every log, window, batch size and any number of crashes, *)
(* rebalances, lost and reordered commits: no offset is ever committed, or     *)
(* asked to be committed, above an event that some sink has not acknowledged.  *)
THEOREM NoEventLost == Spec => []CommitSafe
<1>1. SourceInv => CommitSafe
  BY DEF SourceInv
<1> QED BY <1>1, SourceInvariant, PTL

(* The reorder map never loses a batch or keeps two with one number. *)
THEOREM EveryBatchCounted == Spec => []NoBatchLost
<1>1. SourceInv => NoBatchLost
  BY DEF SourceInv
<1> QED BY <1>1, SourceInvariant, PTL

(* The window: memory in flight and in assembly stays within one batch of *)
(* max_in_flight_bytes, and tasks within max_in_flight_batches. *)
THEOREM WindowBounded == Spec => []ResidentBounded
<1>1. SourceInv => ResidentBounded
  BY DEF SourceInv, WindowInv
<1> QED BY <1>1, SourceInvariant, PTL

(* Both accounts hold in every reachable state. *)
THEOREM AccountInvariant == Spec => []AccountInv
<1>1. Init => AccountInv
  BY AccountInit
<1>2. SourceInv => TypeOK /\ Numbered
  BY NumberedIff DEF SourceInv
<1>3. SourceInv /\ TypeOK' /\ AccountInv /\ [Next]_vars => AccountInv'
  BY <1>2, AccountStep
<1> QED BY <1>1, <1>3, SourceInvariant, TypeCorrect, PTL DEF Spec

(* The byte budget of dispatch! and the join arm never drifts: the counter that *)
(* gates the window is the sum over the batches in flight, whatever finished in *)
(* which order, so saturating_sub never saturates. *)
THEOREM BytesAreExact == Spec => []ByteAccounting
<1>1. AccountInv => ByteAccounting
  BY DEF AccountInv
<1> QED BY <1>1, AccountInvariant, PTL

(* events_in of commit_contiguous counts every received event once, at commit, *)
(* and until then the event is in exactly one of the places that hold it. *)
THEOREM EventsAreCountedOnce == Spec => []EventsAccounted
<1>1. AccountInv => EventsAccounted
  BY DEF AccountInv
<1> QED BY <1>1, AccountInvariant, PTL

(* The source implements AtLeastOnce: every step delivers, commits a covered *)
(* offset, or leaves both the deliveries and the offsets alone. *)
THEOREM SourceImplements == Spec => Implements
<1>1. Init => ALO!ALOInit
  BY DEF Init, ALO!ALOInit
<1>2. SourceInv /\ TypeOK' /\ [Next]_vars => [ALO!ALONext]_<<acked, committed>>
  <2> SUFFICES ASSUME SourceInv, TypeOK', [Next]_vars
               PROVE  ALO!ALONext \/ UNCHANGED <<acked, committed>>
    OBVIOUS
  <2> USE DEF loopVars, brokerVars
  <2>1. CASE FanoutOk \/ \E tp \in TP : PeerDelivers(tp)
    <3>1. \E S : acked' = acked \union S /\ committed' = committed
      BY <2>1 DEF FanoutOk, PeerDelivers
    <3>2. acked' \subseteq Events
      BY DEF TypeOK
    <3>3. \E S \in SUBSET Events : acked' = acked \union S
      BY <3>1, <3>2
    <3>4. ALO!Events = Events
      BY DEF ALO!Events, Events, ALO!EventAt, EventAt
    <3> QED BY <3>1, <3>3, <3>4 DEF ALO!ALONext, ALO!Deliver
  <2>2. CASE BrokerCommits \/ \E tp \in TP : PeerCommits(tp)
    <3>1. committed' \in [TP -> Nat] /\ acked' = acked
      BY <2>2 DEF TypeOK, BrokerCommits, PeerCommits
    <3>2. \A t \in TP : committed'[t] = committed[t] \/ Covered(t, committed'[t], acked)
      <4>1. CASE BrokerCommits
        BY <4>1 DEF BrokerCommits, SourceInv, CommitSafe
      <4>2. ASSUME NEW tp \in TP, PeerCommits(tp)
            PROVE  \A t \in TP : committed'[t] = committed[t]
                                   \/ Covered(t, committed'[t], acked)
        BY <4>2 DEF PeerCommits, SourceInv, TypeOK
      <4> QED BY <2>2, <4>1, <4>2
    <3>3. \A t, o : ALO!Covered(t, o, acked) <=> Covered(t, o, acked)
      BY DEF ALO!Covered, Covered, ALO!EventAt, EventAt
    <3> QED BY <3>1, <3>2, <3>3 DEF ALO!ALONext, ALO!Commit
  <2>3. CASE \/ Deadline \/ \E tp \in TP : Recv(tp)
             \/ JoinNext \/ CommitNext \/ CommitDone \/ Shutdown \/ JoinFails
             \/ RecvFails \/ CommitFails \/ FanoutErr \/ CommitLost \/ Revoke
             \/ \E S \in SUBSET TP : Assign(S)
             \/ Crash \/ Restart \/ UNCHANGED vars
    BY <2>3 DEF Deadline, Recv, JoinNext, CommitNext, CommitDone, Shutdown,
                JoinFails, RecvFails, CommitFails, FanoutErr, CommitLost, Revoke,
                Assign, Crash, Restart, Leave, vars
  <2> QED BY <2>1, <2>2, <2>3 DEF Next, Loop, Environment
<1> QED BY <1>1, <1>2, SourceInvariant, TypeCorrect, PTL
        DEF Spec, Implements, ALO!ALOSpec

----------------------------------------------------------------------------
(* The router *)


\* The fan-out, with what is proved about it.
P == INSTANCE FanoutProofs WITH Destinations <- [c \in Calls |-> Sinks],
                                completed <- flagged

\* A task works on the batch it was spawned with; a number that was not given
\* out yet has no call; what a sink reported as written is in its destination,
\* and what the source was told is acknowledged is in all of them.
TaskInv ==
    /\ batch \in [Calls -> Batches] /\ stored \in [Sinks -> SUBSET Events]
    /\ \A c \in Calls : \A s \in Sinks :
         <<c, s>> \in written => Range(batch[c]) \subseteq stored[s]
    /\ \A b \in in_flight : b.sequence \in Calls /\ batch[b.sequence] = b.events
    /\ status # "running" => in_flight = {}
    /\ status = "running" => \A c \in Calls : c >= sequence => call[c] = "idle"
    /\ acked \subseteq StoredEverywhere

RouterInv == SourceInv /\ P!FanoutInv /\ TaskInv

----------------------------------------------------------------------------
(* The fan-out of the router is the one of module Fanout *)

LEMMA FanoutSettings == P!FanoutAssumption
BY RouterAssumption DEF P!IsFiniteSet, IsFiniteSet

LEMMA CardinalityIsOne == \A S : F!Cardinality(S) = P!Cardinality(S)
BY DEF F!Cardinality, P!Cardinality

LEMMA SameMove == ASSUME NEW c, NEW S, NEW x PROVE F!Move(c, S, x) <=> P!Move(c, S, x)
BY DEF F!Move, P!Move

LEMMA SameComplete ==
  ASSUME NEW c, NEW S, NEW ok PROVE F!Complete(c, S, ok) <=> P!Complete(c, S, ok)
BY CardinalityIsOne DEF F!Complete, P!Complete, F!AndAlso, P!AndAlso, F!Fresh, P!Fresh

LEMMA SameDrop == ASSUME NEW c, NEW S PROVE F!Drop(c, S) <=> P!Drop(c, S)
BY SameComplete DEF F!Drop, P!Drop

LEMMA SameCallSteps ==
  ASSUME NEW c, NEW s
  PROVE  /\ F!Send(c) <=> P!Send(c)
         /\ F!Sent(c) <=> P!Sent(c)
         /\ F!Answer(c) <=> P!Answer(c)
         /\ F!Enqueue(c, s) <=> P!Enqueue(c, s)
         /\ F!SendFails(c, s) <=> P!SendFails(c, s)
         /\ F!Abort(c) <=> P!Abort(c)
<1>1. (F!Send(c) <=> P!Send(c))
  BY CardinalityIsOne, SameMove DEF F!Send, P!Send
<1>2. (F!Sent(c) <=> P!Sent(c)) /\ (F!Answer(c) <=> P!Answer(c))
  BY DEF F!Sent, P!Sent, F!Answer, P!Answer, F!In, P!In
<1>3. (F!Enqueue(c, s) <=> P!Enqueue(c, s))
  BY SameMove DEF F!Enqueue, P!Enqueue, F!In, P!In
<1>4. F!In(c, "sending") = P!In(c, "sending")
  BY DEF F!In, P!In
<1>5. (F!SendFails(c, s) <=> P!SendFails(c, s)) /\ (F!Abort(c) <=> P!Abort(c))
  BY <1>4, SameMove, SameDrop DEF F!SendFails, P!SendFails, F!Abort, P!Abort
<1> QED BY <1>1, <1>2, <1>3, <1>5

LEMMA SameSinkSteps ==
  ASSUME NEW c, NEW s, NEW ok
  PROVE  /\ F!Receive(s) <=> P!Receive(s)
         /\ F!Settle(c, s, ok) <=> P!Settle(c, s, ok)
         /\ F!DropSettled(c, s) <=> P!DropSettled(c, s)
         /\ F!Abandon(c, s) <=> P!Abandon(c, s)
         /\ F!Close(s) <=> P!Close(s)
         /\ F!Drain(s) <=> P!Drain(s)
<1>1. (F!Receive(s) <=> P!Receive(s)) /\ (F!Close(s) <=> P!Close(s))
  BY SameMove DEF F!Receive, P!Receive, F!Close, P!Close
<1>2. (F!Settle(c, s, ok) <=> P!Settle(c, s, ok))
  BY SameMove, SameComplete DEF F!Settle, P!Settle, F!In, P!In
<1>3. (F!DropSettled(c, s) <=> P!DropSettled(c, s)) /\ (F!Abandon(c, s) <=> P!Abandon(c, s))
  BY SameMove, SameDrop DEF F!DropSettled, P!DropSettled, F!Abandon, P!Abandon, F!In, P!In
<1>4. (F!Drain(s) <=> P!Drain(s))
  BY SameMove, SameDrop DEF F!Drain, P!Drain
<1> QED BY <1>1, <1>2, <1>3, <1>4

LEMMA FanoutStep == ASSUME P!FanoutInv, P!Next \/ UNCHANGED fanoutVars PROVE P!FanoutInv'
BY P!StepInv, FanoutSettings DEF fanoutVars, P!vars

\* A call that answered Ok was reported by every sink.
LEMMA OkFact == P!FanoutInv => P!OkMeansDelivered
BY P!OkIsWritten, FanoutSettings

LEMMA FanoutStart == P!Init => P!FanoutInv
BY P!InitInv, FanoutSettings

----------------------------------------------------------------------------
(* Every step of the router is a step of its parts *)

LEMMA SourceMoves == [RouterNext]_routerVars => [Next]_vars
<1> SUFFICES ASSUME [RouterNext]_routerVars PROVE [Next]_vars
  OBVIOUS
<1>1. CASE SourceStep
  BY <1>1 DEF SourceStep, Next, Loop, Environment
<1>2. ASSUME NEW c \in Calls, TaskStep(c) PROVE [Next]_vars
  BY <1>2 DEF TaskStep, Hears, Next, Environment
<1>3. ASSUME NEW c \in Calls, OrphanStep(c) PROVE [Next]_vars
  BY <1>3 DEF OrphanStep
<1>4. ASSUME NEW s \in Sinks,
             SinkReceives(s) \/ AttemptFails(s) \/ WriteDelivers(s) \/ SinkGivesUp(s)
      PROVE  [Next]_vars
  BY <1>4 DEF SinkReceives, AttemptFails, WriteDelivers, SinkGivesUp
<1>5. CASE ProcessStep
  BY <1>5 DEF ProcessStep, Next, Environment
<1>6. CASE UNCHANGED routerVars
  BY <1>6 DEF routerVars
<1> QED BY <1>1, <1>2, <1>3, <1>4, <1>5, <1>6 DEF RouterNext

LEMMA CallMovesFanout ==
  ASSUME NEW c \in Calls, CallMoves(c) \/ F!Abort(c)
  PROVE  /\ P!Next /\ written' = written
         /\ \A d \in Calls : d # c => call'[d] = call[d] \/ call \notin [Calls -> P!CallStates]
<1>1. P!CallStep(c)
  BY SameCallSteps DEF CallMoves, P!CallStep
<1>2. written' = written
  BY DEF CallMoves, F!Send, F!Sent, F!Answer, F!Enqueue, F!SendFails, F!Abort
<1>3. \A d \in Calls : d # c => call'[d] = call[d] \/ call \notin [Calls -> P!CallStates]
  BY DEF CallMoves, F!Send, F!Sent, F!Answer, F!Enqueue, F!SendFails, F!Abort
<1> QED BY <1>1, <1>2, <1>3 DEF P!Next

LEMMA SinkMovesFanout ==
  ASSUME NEW s \in Sinks,
         SinkReceives(s) \/ AttemptFails(s) \/ WriteDelivers(s) \/ SinkGivesUp(s)
  PROVE  (P!Next \/ UNCHANGED fanoutVars) /\ call' = call
<1>1. CASE SinkReceives(s)
  <2>1. P!SinkStep(s) /\ call' = call
    BY <1>1, SameSinkSteps DEF SinkReceives, P!SinkStep, F!Receive
  <2> QED BY <2>1 DEF P!Next
<1>2. CASE AttemptFails(s)
  BY <1>2 DEF AttemptFails, fanoutVars
<1>3. CASE WriteDelivers(s)
  <2>1. PICK c \in Calls : F!Settle(c, s, TRUE)
    BY <1>3 DEF WriteDelivers, Writing
  <2>2. P!SinkStep(s) /\ call' = call
    BY <2>1, SameSinkSteps DEF P!SinkStep, F!Settle
  <2> QED BY <2>2 DEF P!Next
<1>4. CASE SinkGivesUp(s)
  <2>1. P!SinkStep(s)
    BY <1>4, SameSinkSteps DEF SinkGivesUp, P!SinkStep
  <2>2. call' = call
    BY <1>4 DEF SinkGivesUp, F!Settle, F!DropSettled, F!Abandon, F!Close, F!Drain
  <2> QED BY <2>1, <2>2 DEF P!Next
<1> QED BY <1>1, <1>2, <1>3, <1>4

LEMMA FanoutKept == P!FanoutInv /\ [RouterNext]_routerVars => P!FanoutInv'
<1> SUFFICES ASSUME P!FanoutInv, [RouterNext]_routerVars PROVE P!FanoutInv'
  OBVIOUS
<1>1. CASE SourceStep \/ UNCHANGED routerVars
  BY <1>1, FanoutStep DEF SourceStep, routerVars
<1>2. ASSUME NEW c \in Calls, TaskStep(c) \/ OrphanStep(c) PROVE P!FanoutInv'
  <2>1. P!Next
    BY <1>2, CallMovesFanout DEF TaskStep, OrphanStep
  <2> QED BY <2>1, FanoutStep
<1>3. ASSUME NEW s \in Sinks,
             SinkReceives(s) \/ AttemptFails(s) \/ WriteDelivers(s) \/ SinkGivesUp(s)
      PROVE  P!FanoutInv'
  BY <1>3, SinkMovesFanout, FanoutStep
<1>4. CASE ProcessStep
  <2>1. P!Init'
    BY <1>4 DEF ProcessStep, MemoryLost, P!Init
  <2>2. P!Init' => P!FanoutInv'
    BY FanoutStart, PTL
  <2> QED BY <2>1, <2>2
<1> QED BY <1>1, <1>2, <1>3, <1>4 DEF RouterNext

----------------------------------------------------------------------------
(* How the parts fit together *)

\* The source gives out a number with a batch, leaves its loop, or neither.
LEMMA SourceEffect ==
  ASSUME SourceInv, SourceStep
  PROVE  /\ acked' = acked /\ UNCHANGED <<fanoutVars, stored>> /\ KeepsBatches
         /\ \/ status' = status /\ sequence' = sequence /\ in_flight' \subseteq in_flight
            \/ status' # "running" /\ in_flight' = {} /\ sequence' = 0
            \/ /\ status = "running" /\ status' = status
               /\ sequence \in Calls /\ sequence' = sequence + 1
               /\ \E events : in_flight' = in_flight \union
                     {[sequence |-> sequence, events |-> events, result |-> "sending"]}
<1> USE DEF loopVars, brokerVars
<1>0. sequence \in Nat /\ restarts \in Nat
  BY SourceAssumption DEF SourceInv, TypeOK
<1>1. UNCHANGED <<fanoutVars, stored>> /\ KeepsBatches
  BY DEF SourceStep
<1>2. CASE sequence < MaxBatches - restarts /\ (Deadline \/ \E tp \in TP : Recv(tp))
  <2>1. sequence \in Calls
    BY <1>0, <1>2, RouterAssumption DEF Calls
  <2>2. acked' = acked /\ status = "running" /\ status' = status
    BY <1>2 DEF Deadline, Recv, Selecting
  <2>3. \/ sequence' = sequence /\ in_flight' = in_flight
        \/ /\ sequence' = sequence + 1
           /\ \E events : in_flight' = in_flight \union
                 {[sequence |-> sequence, events |-> events, result |-> "sending"]}
    BY <1>2 DEF Deadline, Recv, Dispatch
  <2> QED BY <1>1, <2>1, <2>2, <2>3
<1>3. CASE JoinNext \/ CommitNext \/ CommitDone \/ BrokerCommits \/ CommitLost \/ Revoke
           \/ \E S \in SUBSET TP : Assign(S)
  BY <1>1, <1>3 DEF JoinNext, CommitNext, CommitDone, BrokerCommits, CommitLost, Revoke, Assign
<1>4. CASE Shutdown \/ JoinFails \/ RecvFails \/ CommitFails
  BY <1>1, <1>4 DEF Shutdown, JoinFails, RecvFails, CommitFails, Leave
<1> QED BY <1>2, <1>3, <1>4 DEF SourceStep

\* Numbers in flight were given out.
LEMMA NumbersBelow ==
  ASSUME SourceInv, NEW b \in in_flight
  PROVE  b.sequence \in Nat /\ sequence \in Nat /\ b.sequence < sequence
<1>1. b.sequence \in next_commit_sequence..(sequence - 1) /\ sequence \in Nat
  BY DEF SourceInv, NoBatchLost, Outstanding, TypeOK
<1> QED BY <1>1 DEF SourceInv, TypeOK

\* A number that has no call was reported by no sink.
LEMMA IdleUnwritten ==
  ASSUME P!FanoutInv, NEW c \in Calls, call[c] = "idle", NEW s \in Sinks
  PROVE  <<c, s>> \notin written
BY DEF P!FanoutInv, P!EnvelopeOf, P!VerdictOf

LEMMA SourceKeepsTasks ==
  ASSUME RouterInv, SourceStep, TypeOK'
  PROVE  TaskInv'
<1>0. SourceInv /\ P!FanoutInv /\ TaskInv /\ sequence \in Nat
  BY DEF RouterInv, SourceInv, TypeOK
<1>1. /\ acked' = acked /\ UNCHANGED <<call, written, stored>> /\ KeepsBatches
  BY <1>0, SourceEffect DEF fanoutVars
<1>2. StoredEverywhere' = StoredEverywhere
  BY <1>1 DEF StoredEverywhere
<1>3. CASE \/ status' = status /\ sequence' = sequence /\ in_flight' \subseteq in_flight
           \/ status' # "running" /\ in_flight' = {} /\ sequence' = 0
  <2>1. sequence' # sequence + 1
    BY <1>0, <1>3
  <2>2. Spawned = {}
    BY <2>1 DEF Spawned
  <2>3. batch' = batch
    BY <1>0, <1>1, <2>2 DEF KeepsBatches, TaskInv
  <2> QED BY <1>0, <1>1, <1>2, <1>3, <2>3 DEF TaskInv
<1>4. ASSUME NEW events,
             in_flight' = in_flight \union
               {[sequence |-> sequence, events |-> events, result |-> "sending"]},
             status = "running", status' = status, sequence \in Calls,
             sequence' = sequence + 1
      PROVE  TaskInv'
  <2> DEFINE new == [sequence |-> sequence, events |-> events, result |-> "sending"]
  <2>1. new.sequence = sequence /\ new.events = events /\ new \in in_flight'
    BY <1>4
  <2>2. in_flight' = in_flight \union {new}
    BY <1>4
  <2> HIDE DEF new
  <2>3. events \in Batches
    BY <2>1 DEF TypeOK
  <2>4. \A b \in in_flight : b.sequence \in Calls /\ b.sequence # sequence
    BY <1>0, NumbersBelow DEF TaskInv
  <2>5. Spawned = {new}
    BY <1>4, <2>1, <2>2, <2>4 DEF Spawned
  <2>6. (CHOOSE b \in Spawned : TRUE) = new
    BY <2>5
  <2>7. batch' = [c \in Calls |-> IF c = sequence THEN events ELSE batch[c]]
    <3>1. \A c \in Calls : (\E b \in Spawned : b.sequence = c) <=> c = sequence
      BY <2>1, <2>5
    <3> QED BY <1>1, <2>1, <2>6, <3>1 DEF KeepsBatches
  <2>8. batch' \in [Calls -> Batches]
    BY <1>0, <2>3, <2>7 DEF TaskInv
  <2>9. call[sequence] = "idle"
    BY <1>0, <1>4 DEF TaskInv
  <2>10. \A c \in Calls : \A s \in Sinks :
           <<c, s>> \in written => Range(batch'[c]) \subseteq stored[s]
    <3> SUFFICES ASSUME NEW c \in Calls, NEW s \in Sinks, <<c, s>> \in written
                 PROVE  Range(batch'[c]) \subseteq stored[s]
      OBVIOUS
    <3>1. c # sequence
      BY <1>0, <2>9, IdleUnwritten
    <3> QED BY <1>0, <2>7, <3>1 DEF TaskInv
  <2>11. \A b \in in_flight' : b.sequence \in Calls /\ batch'[b.sequence] = b.events
    BY <1>0, <1>4, <2>1, <2>2, <2>4, <2>7 DEF TaskInv
  <2>12. \A c \in Calls : c >= sequence' => c >= sequence
    BY <1>0, <1>4, RouterAssumption DEF Calls
  <2>13. \A c \in Calls : c >= sequence' => call'[c] = "idle"
    BY <1>0, <1>1, <1>4, <2>12 DEF TaskInv
  <2> QED BY <1>0, <1>1, <1>2, <1>4, <2>8, <2>10, <2>11, <2>13 DEF TaskInv
<1> QED BY <1>0, <1>3, <1>4, SourceEffect

LEMMA TaskKeepsTasks ==
  ASSUME RouterInv, NEW c \in Calls, TaskStep(c), P!FanoutInv'
  PROVE  TaskInv'
<1>0. SourceInv /\ P!FanoutInv /\ TaskInv
  BY DEF RouterInv
<1>1. CallMoves(c) /\ Hears(c) /\ UNCHANGED <<batch, stored>> /\ Task(c) # {}
  BY DEF TaskStep
<1>2. /\ written' = written
      /\ \A d \in Calls : d # c => call'[d] = call[d]
  BY <1>0, <1>1, CallMovesFanout DEF P!FanoutInv, P!TypeOK
<1>3. StoredEverywhere' = StoredEverywhere
  BY <1>1 DEF StoredEverywhere
<1>4. c < sequence /\ c \in Nat /\ sequence \in Nat
  BY <1>0, <1>1, NumbersBelow DEF Task
<1>5. /\ status' = status /\ sequence' = sequence
      /\ \A d \in in_flight' : \E b \in in_flight : d.sequence = b.sequence /\ d.events = b.events
  <2>1. CASE UNCHANGED vars
    BY <2>1 DEF vars, loopVars
  <2>2. ASSUME NEW b \in in_flight, NEW r,
               in_flight' = (in_flight \ {b}) \union {[b EXCEPT !.result = r]},
               UNCHANGED <<status, sequence>>
        PROVE  /\ status' = status /\ sequence' = sequence
               /\ \A d \in in_flight' :
                    \E x \in in_flight : d.sequence = x.sequence /\ d.events = x.events
    <3>1. /\ [b EXCEPT !.result = r].sequence = b.sequence
          /\ [b EXCEPT !.result = r].events = b.events
      BY <1>0 DEF SourceInv, TypeOK
    <3> QED BY <2>2, <3>1
  <2>3. CASE FanoutOk
    BY <2>2, <2>3 DEF FanoutOk
  <2>4. CASE FanoutErr
    BY <2>2, <2>4 DEF FanoutErr
  <2> QED BY <1>1, <2>1, <2>3, <2>4 DEF Hears
<1>6. acked' \subseteq StoredEverywhere
  <2>1. CASE acked' = acked
    BY <1>0, <2>1 DEF TaskInv
  <2>2. CASE FanoutOk /\ call'[c] = "ok"
    <3>1. PICK b \in in_flight :
            /\ b.result = "sending"
            /\ in_flight' = (in_flight \ {b}) \union {[b EXCEPT !.result = "ok"]}
            /\ acked' = acked \union Range(b.events)
      BY <2>2 DEF FanoutOk
    <3>2. [b EXCEPT !.result = "ok"].result = "ok"
      BY <1>0 DEF SourceInv, TypeOK
    <3>3. b \notin in_flight'
      BY <3>1, <3>2
    <3>4. b.sequence = c
      BY <1>1, <3>3 DEF Hears, Task
    <3>5. batch[c] = b.events /\ b.events \in Batches
      BY <1>0, <3>4 DEF TaskInv, SourceInv, TypeOK
    <3>6. \A s \in Sinks : <<c, s>> \in written
      <4>1. \A s \in Sinks : <<c, s>> \in written'
        <5>1. P!OkMeansDelivered'
          BY OkFact, PTL
        <5> QED BY <2>2, <5>1 DEF P!OkMeansDelivered
      <4> QED BY <1>2, <4>1
    <3>7. Range(b.events) \subseteq Events /\ \A s \in Sinks : Range(b.events) \subseteq stored[s]
      BY <1>0, <3>5, <3>6, BatchSeq DEF TaskInv
    <3> QED BY <1>0, <3>1, <3>7 DEF TaskInv, StoredEverywhere
  <2> QED BY <1>1, <2>1, <2>2 DEF Hears, FanoutErr, vars
<1>7. \A d \in Calls : d >= sequence => d # c
  BY <1>4, RouterAssumption DEF Calls
<1>8. status' # "running" => in_flight' = {}
  BY <1>0, <1>5 DEF TaskInv
<1> QED BY <1>0, <1>1, <1>2, <1>3, <1>5, <1>6, <1>7, <1>8 DEF TaskInv

LEMMA OrphanKeepsTasks ==
  ASSUME TaskInv, NEW c \in Calls, OrphanStep(c)
  PROVE  TaskInv'
<1>1. /\ status # "running" /\ UNCHANGED <<batch, stored, status, in_flight, sequence, acked>>
      /\ written' = written
  BY CallMovesFanout DEF OrphanStep, vars, loopVars
<1>2. StoredEverywhere' = StoredEverywhere
  BY <1>1 DEF StoredEverywhere
<1> QED BY <1>1, <1>2 DEF TaskInv

\* What a sink does to its destination and its reports.
LEMMA SinkEffect ==
  ASSUME TaskInv, NEW s \in Sinks,
         SinkReceives(s) \/ AttemptFails(s) \/ WriteDelivers(s) \/ SinkGivesUp(s)
  PROVE  /\ UNCHANGED <<vars, batch>>
         /\ stored' \in [Sinks -> SUBSET Events]
         /\ \A t \in Sinks : stored[t] \subseteq stored'[t]
         /\ \A c \in Calls : \A t \in Sinks : <<c, t>> \in written' =>
              <<c, t>> \in written \/ Range(batch[c]) \subseteq stored'[t]
<1>0. /\ stored \in [Sinks -> SUBSET Events]
      /\ \A c \in Calls : batch[c] \in Batches
  BY DEF TaskInv
<1>1. \A c \in Calls : Range(batch[c]) \subseteq Events
  BY <1>0, BatchSeq
<1>2. CASE SinkReceives(s)
  BY <1>0, <1>2 DEF SinkReceives, F!Receive
<1>3. CASE AttemptFails(s)
  <2>1. PICK c \in Calls : \E S \in SUBSET Range(batch[c]) : Store(s, S)
    BY <1>3 DEF AttemptFails, Writing
  <2>2. PICK S \in SUBSET Range(batch[c]) : Store(s, S)
    BY <2>1
  <2>3. S \subseteq Events /\ stored' = [stored EXCEPT ![s] = @ \union S]
    BY <1>1, <2>2 DEF Store
  <2> QED BY <1>0, <1>3, <2>3 DEF AttemptFails, fanoutVars
<1>4. CASE WriteDelivers(s)
  <2>1. PICK c \in Calls : F!Settle(c, s, TRUE) /\ Store(s, Range(batch[c]))
    BY <1>4 DEF WriteDelivers, Writing
  <2>2. /\ written' = written \union {<<c, s>>}
        /\ stored' = [stored EXCEPT ![s] = @ \union Range(batch[c])]
    BY <2>1 DEF F!Settle, Store
  <2>3. Range(batch[c]) \subseteq Events /\ Range(batch[c]) \subseteq stored'[s]
    BY <1>0, <1>1, <2>2
  <2>4. \A d \in Calls : \A t \in Sinks :
          <<d, t>> \in written' => <<d, t>> \in written \/ (d = c /\ t = s)
    BY <2>2
  <2>5. UNCHANGED <<vars, batch>>
    BY <1>4 DEF WriteDelivers
  <2>6. stored' \in [Sinks -> SUBSET Events] /\ \A t \in Sinks : stored[t] \subseteq stored'[t]
    BY <1>0, <2>2, <2>3
  <2> QED BY <2>3, <2>4, <2>5, <2>6
<1>5. CASE SinkGivesUp(s)
  <2>1. written' = written
    BY <1>5 DEF SinkGivesUp, F!Settle, F!DropSettled, F!Abandon, F!Close, F!Drain
  <2> QED BY <1>0, <1>5, <2>1 DEF SinkGivesUp
<1> QED BY <1>2, <1>3, <1>4, <1>5

LEMMA SinkKeepsTasks ==
  ASSUME TaskInv, NEW s \in Sinks,
         SinkReceives(s) \/ AttemptFails(s) \/ WriteDelivers(s) \/ SinkGivesUp(s)
  PROVE  TaskInv'
<1>1. UNCHANGED <<batch, status, in_flight, sequence, acked, call>>
  BY SinkEffect, SinkMovesFanout DEF vars, loopVars
<1>2. StoredEverywhere \subseteq StoredEverywhere'
  BY SinkEffect DEF StoredEverywhere
<1>3. \A c \in Calls : \A t \in Sinks :
        <<c, t>> \in written' => Range(batch[c]) \subseteq stored'[t]
  <2> SUFFICES ASSUME NEW c \in Calls, NEW t \in Sinks, <<c, t>> \in written'
               PROVE  Range(batch[c]) \subseteq stored'[t]
    OBVIOUS
  <2>1. stored[t] \subseteq stored'[t]
    BY SinkEffect
  <2>2. <<c, t>> \in written => Range(batch[c]) \subseteq stored[t]
    BY DEF TaskInv
  <2> QED BY <2>1, <2>2, SinkEffect
<1>4. stored' \in [Sinks -> SUBSET Events]
  BY SinkEffect
<1> QED BY <1>1, <1>2, <1>3, <1>4 DEF TaskInv

LEMMA ProcessKeepsTasks ==
  ASSUME TaskInv, ProcessStep
  PROVE  TaskInv'
<1>1. /\ batch' = [c \in Calls |-> <<>>] /\ call' = [c \in Calls |-> "idle"] /\ written' = {}
      /\ stored' = stored
  BY DEF ProcessStep, MemoryLost
<1>2. in_flight' = {} /\ acked' = acked
  BY DEF ProcessStep, Crash, Restart, Leave, TaskInv
<1>3. batch' \in [Calls -> Batches]
  BY <1>1, EmptyBatch
<1>4. StoredEverywhere' = StoredEverywhere
  BY <1>1 DEF StoredEverywhere
<1> QED BY <1>1, <1>2, <1>3, <1>4 DEF TaskInv

LEMMA RouterStep == RouterInv /\ [RouterNext]_routerVars => RouterInv'
<1> SUFFICES ASSUME RouterInv, [RouterNext]_routerVars PROVE RouterInv'
  OBVIOUS
<1>0. SourceInv /\ P!FanoutInv /\ TaskInv
  BY DEF RouterInv
<1>1. SourceInv'
  BY <1>0, SourceMoves, TypeStep, WindowStep, NumberingStep, CoverStep DEF SourceInv
<1>2. P!FanoutInv'
  BY <1>0, FanoutKept
<1>3. TaskInv'
  <2>1. CASE SourceStep
    BY <1>1, <2>1, SourceKeepsTasks DEF SourceInv
  <2>2. ASSUME NEW c \in Calls, TaskStep(c) \/ OrphanStep(c) PROVE TaskInv'
    BY <1>0, <1>2, <2>2, TaskKeepsTasks, OrphanKeepsTasks
  <2>3. ASSUME NEW s \in Sinks,
               SinkReceives(s) \/ AttemptFails(s) \/ WriteDelivers(s) \/ SinkGivesUp(s)
        PROVE  TaskInv'
    BY <1>0, <2>3, SinkKeepsTasks
  <2>4. CASE ProcessStep
    BY <1>0, <2>4, ProcessKeepsTasks
  <2>5. CASE UNCHANGED routerVars
    <3>1. UNCHANGED <<batch, stored, written, call, status, in_flight, sequence, acked>>
      BY <2>5 DEF routerVars, fanoutVars, vars, loopVars
    <3>2. StoredEverywhere' = StoredEverywhere
      BY <3>1 DEF StoredEverywhere
    <3> QED BY <1>0, <3>1, <3>2 DEF TaskInv
  <2> QED BY <2>1, <2>2, <2>3, <2>4, <2>5 DEF RouterNext
<1> QED BY <1>1, <1>2, <1>3 DEF RouterInv

LEMMA RouterStart == RouterInit => RouterInv
<1> SUFFICES ASSUME RouterInit PROVE RouterInv
  OBVIOUS
<1>1. SourceInv
  BY TypeInit, WindowInit, NumberingInit, CoverInit DEF SourceInv, RouterInit
<1>2. P!FanoutInv
  <2>1. P!Init
    BY DEF RouterInit, F!Init, P!Init
  <2> QED BY <2>1, FanoutStart
<1>3. TaskInv
  <2>1. batch \in [Calls -> Batches] /\ stored \in [Sinks -> SUBSET Events]
    BY EmptyBatch DEF RouterInit
  <2> QED BY <2>1 DEF RouterInit, Init, F!Init, TaskInv
<1> QED BY <1>1, <1>2, <1>3 DEF RouterInv

----------------------------------------------------------------------------
(* The theorems about the router *)

\* The source, its fan-out tasks and the destinations agree at every moment as
\* RouterInv says (run of the source, Fanout::send, run of the sinks).
THEOREM RouterInvariant == RouterSpec => []RouterInv
BY RouterStart, RouterStep, PTL DEF RouterSpec

LEMMA StoredBelow == RouterInv => CommittedIsStored
<1> SUFFICES ASSUME RouterInv PROVE CommittedIsStored
  OBVIOUS
<1>1. CommitSafe /\ acked \subseteq StoredEverywhere
  BY DEF RouterInv, SourceInv, TaskInv
<1> QED BY <1>1 DEF CommitSafe, CommittedIsStored, Covered

\* At-least-once from the log to the destinations (commit_contiguous,
\* Fanout::send, write task): wherever the group's offset stands or a commit
\* under way would put it, every destination has every event below.
THEOREM NothingCommittedIsMissing == RouterSpec => []CommittedIsStored
BY StoredBelow, RouterInvariant, PTL

\* A router with a sink implements AtLeastOnce, with the destinations themselves
\* telling what is delivered (a source no sink reads delivers nothing to
\* anybody, and commits all the same).
THEOREM RouterImplements == Sinks # {} /\ RouterSpec => ImplementsEndToEnd
<1>1. Sinks # {} /\ RouterInit => E2E!ALOInit
  <2> SUFFICES ASSUME Sinks # {}, RouterInit PROVE E2E!ALOInit
    OBVIOUS
  <2>1. StoredEverywhere = {}
    BY DEF RouterInit, StoredEverywhere
  <2> QED BY <2>1 DEF RouterInit, Init, E2E!ALOInit
<1>2. RouterInv /\ RouterInv' /\ [RouterNext]_routerVars
        => [E2E!ALONext]_<<StoredEverywhere, committed>>
  <2> SUFFICES ASSUME RouterInv, RouterInv', [RouterNext]_routerVars
               PROVE  E2E!ALONext \/ UNCHANGED <<StoredEverywhere, committed>>
    OBVIOUS
  <2> USE DEF loopVars, brokerVars
  <2>0. TypeOK /\ TypeOK' /\ TaskInv /\ CommittedIsStored
    BY StoredBelow DEF RouterInv, SourceInv
  <2>1. stored' = stored => StoredEverywhere' = StoredEverywhere
    BY DEF StoredEverywhere
  <2>2. ASSUME NEW s \in Sinks,
               SinkReceives(s) \/ AttemptFails(s) \/ WriteDelivers(s) \/ SinkGivesUp(s)
        PROVE  E2E!ALONext
    <3>1. committed' = committed /\ StoredEverywhere \subseteq StoredEverywhere'
      BY <2>0, <2>2, SinkEffect DEF vars, StoredEverywhere
    <3>2. StoredEverywhere' \subseteq Events /\ E2E!Events = Events
      BY DEF StoredEverywhere, E2E!Events, Events, E2E!EventAt, EventAt
    <3>3. StoredEverywhere' = StoredEverywhere \union StoredEverywhere'
      BY <3>1
    <3> QED BY <3>1, <3>2, <3>3 DEF E2E!ALONext, E2E!Deliver
  <2>3. CASE SourceStep /\ BrokerCommits
    <3>1. committed' \in [TP -> Nat] /\ stored' = stored
      BY <2>0, <2>3 DEF TypeOK, SourceStep
    <3>2. \A t \in TP : committed'[t] = committed[t]
                          \/ Covered(t, committed'[t], StoredEverywhere)
      BY <2>0, <2>3 DEF BrokerCommits, CommittedIsStored
    <3>3. \A t, o : E2E!Covered(t, o, StoredEverywhere) <=> Covered(t, o, StoredEverywhere)
      BY DEF E2E!Covered, Covered, E2E!EventAt, EventAt
    <3> QED BY <2>1, <3>1, <3>2, <3>3 DEF E2E!ALONext, E2E!Commit
  <2>4. CASE SourceStep /\ ~BrokerCommits
    <3>1. stored' = stored
      BY <2>4 DEF SourceStep
    <3>2. committed' = committed
      BY <2>4 DEF SourceStep, Deadline, Recv, JoinNext, CommitNext, CommitDone, Shutdown,
                  JoinFails, RecvFails, CommitFails, CommitLost, Revoke, Assign, Leave
    <3> QED BY <2>1, <3>1, <3>2
  <2>5. ASSUME NEW c \in Calls, TaskStep(c) \/ OrphanStep(c)
        PROVE  stored' = stored /\ committed' = committed
    BY <2>5 DEF TaskStep, OrphanStep, Hears, FanoutOk, FanoutErr, vars
  <2>6. CASE ProcessStep \/ UNCHANGED routerVars
    BY <2>1, <2>6 DEF ProcessStep, Crash, Restart, Leave, routerVars, vars
  <2> QED BY <2>1, <2>2, <2>3, <2>4, <2>5, <2>6 DEF RouterNext
<1> QED BY <1>1, <1>2, RouterInvariant, PTL DEF RouterSpec, ImplementsEndToEnd, E2E!ALOSpec

=============================================================================
