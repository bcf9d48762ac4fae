------------------------- MODULE SinkRuntimeProofs -------------------------
(***************************************************************************)
(* Proofs about SinkRuntime, for any envelopes, limits and settings.       *)
(***************************************************************************)
EXTENDS SinkRuntime, Sums

\* Envelopes given to writes, counted from the first that arrived, as long as
\* run owns the channel and the group.
Passed == Len(arrived) - Len(input) - Len(envelopes)

\* The channel and the group are the end of what arrived, in its order, and
\* what came before was dispatched.
OrderInv ==
    /\ Len(input) + Len(envelopes) <= Len(arrived)
    /\ \A i, j \in 1..Len(arrived) : arrived[i] = arrived[j] => i = j
    /\ \A i \in 1..Len(envelopes) : envelopes[i] = arrived[Passed + i]
    /\ \A i \in 1..Len(input) : input[i] = arrived[Passed + Len(envelopes) + i]
    /\ dispatched \subseteq Range(arrived)
    /\ Alive => dispatched = {arrived[i] : i \in 1..Passed}

\* Where run is, and what it holds there.
StateInv ==
    /\ state \in {"coalesce", "slot"} <=> envelopes # <<>>
    /\ ~Alive => input = <<>> /\ writes = {}
    /\ failed => state \notin {"accept", "coalesce", "slot", "ok"}

\* The acknowledgement of an envelope in a write task, by the task's status.
AckFor(status) == CASE status \in {"writing", "backoff"} -> "open"
                    [] status = "ok" -> "delivered"
                    [] status = "err" -> "failed"

\* A write holds a group no other write holds, and its envelopes were told
\* what its status says.
WriteInv ==
    /\ IsFiniteSet(writes) /\ Cardinality(writes) <= max_concurrent_writes
    /\ \A w \in writes :
         /\ w.group # <<>> /\ Range(w.group) \subseteq dispatched
         /\ \A i, j \in 1..Len(w.group) : w.group[i] = w.group[j] => i = j
         /\ w.status = "backoff" => w.attempt < MaxAttempts
         /\ \A e \in Range(w.group) : ack[e] = AckFor(w.status)
    /\ \A v, w \in writes : v # w => Range(v.group) \cap Range(w.group) = {}

\* With one write at a time a failed write was the last.
SerialInv == max_concurrent_writes = 1 /\ failed => writes = {}

\* What became of every envelope: nothing is settled before it is dispatched,
\* except by the end of run; what was dispatched is delivered, held by a write,
\* or the failure of its write was noted.
AckInv ==
    /\ \A e \in Envelopes : ack[e] # "open" => e \in Range(arrived)
    /\ \A e \in Envelopes : ack[e] = "delivered" => e \in dispatched /\ e \in stored
    /\ Alive => \A e \in Envelopes : ack[e] # "open" => e \in dispatched
    /\ \A e \in dispatched : ack[e] = "open" => \E w \in writes : e \in Range(w.group)
    /\ Alive /\ ~failed => \A e \in dispatched :
         ack[e] = "delivered" \/ \E w \in writes : e \in Range(w.group)
    /\ ~Alive => \A e \in Range(arrived) : ack[e] # "open"

\* A group passes the limits only by its last envelope.
Within(g) ==
    Len(g) > 1 => LET firsts == SubSeq(g, 1, Len(g) - 1)
                  IN  EventCount(firsts) < MaxEvents /\ ByteCount(firsts) < MaxBytes
GroupInv == Within(envelopes) /\ \A w \in writes : Within(w.group)

\* Every unsettled envelope is counted once, where it is held.
Unsettled == {e \in Range(arrived) : ack[e] = "open"}
Lengths(W) == [w \in {v \in W : Running(v)} |-> Len(w.group)]
CountInv ==
    Len(input) + Len(envelopes) + SumFunction(Lengths(writes)) = Cardinality(Unsettled)

SinkInv ==
    /\ TypeOK /\ OrderInv /\ StateInv /\ WriteInv /\ AckInv /\ GroupInv
    /\ CleanExit /\ SerialInv /\ SequentialOrder /\ CountInv

----------------------------------------------------------------------------
(* Operators *)

\* The settings.
LEMMA Settings ==
  /\ {Capacity, MaxEvents, MaxBytes, MaxAttempts} \subseteq Nat \ {0}
  /\ ConcurrentWrites \subseteq Nat \ {0}
  /\ InitialBackoff \in Nat /\ MaxBackoff \in Nat /\ InitialBackoff <= MaxBackoff
  /\ \A e \in Envelopes : EventsOf(e) \in Nat /\ BytesOf(e) \in Nat
BY SinkAssumption

LEMMA CountType ==
  ASSUME NEW es \in Seq(Envelopes)
  PROVE  EventCount(es) \in Nat /\ ByteCount(es) \in Nat
<1> DEFINE f == [i \in DOMAIN es |-> EventsOf(es[i])]
           g == [i \in DOMAIN es |-> BytesOf(es[i])]
<1>1. DOMAIN es = 1..Len(es) /\ Len(es) \in Nat /\ \A i \in DOMAIN es : es[i] \in Envelopes
  OBVIOUS
<1>2. IsFiniteSet(1..Len(es))
  BY <1>1, FS_Interval
<1>3. DOMAIN f = DOMAIN es /\ DOMAIN g = DOMAIN es
  OBVIOUS
<1>4. (\A i \in DOMAIN f : f[i] \in Nat) /\ (\A i \in DOMAIN g : g[i] \in Nat)
  BY <1>1, Settings
<1> HIDE DEF f, g
<1>5. SumFunction(f) \in Nat /\ SumFunction(g) \in Nat
  BY <1>1, <1>2, <1>3, <1>4, SumFunctionType
<1> QED BY <1>5 DEF f, g, EventCount, ByteCount

\* Settling leaves every acknowledgement that was given before.
LEMMA SettleFacts ==
  ASSUME NEW S, NEW how \in {"delivered", "failed"}, TypeOK
  PROVE  /\ Settle(S, how) \in [Envelopes -> {"open", "delivered", "failed"}]
         /\ \A e \in Envelopes : Settle(S, how)[e] =
              IF e \in S /\ ack[e] = "open" THEN how ELSE ack[e]
BY DEF Settle, TypeOK

LEMMA InRange ==
  ASSUME NEW S, NEW q \in Seq(S)
  PROVE  /\ \A x : x \in Range(q) <=> \E i \in 1..Len(q) : x = q[i]
         /\ Range(q) \subseteq S
<1>1. DOMAIN q = 1..Len(q) /\ \A i \in 1..Len(q) : q[i] \in S
  OBVIOUS
<1> QED BY <1>1 DEF Range

\* The tasks, and the counters.
Counters == [retries : Nat, write_errors : Nat, batches_written : Nat,
             events_out : Nat, events_dropped : Nat, queue_depth : Nat]
Tasks == [group : Seq(Envelopes), attempt : 1..MaxAttempts,
          backoff : InitialBackoff..MaxBackoff,
          status : {"writing", "backoff", "ok", "err"}]

----------------------------------------------------------------------------
(* Types *)

LEMMA InitType == Init => TypeOK
<1> SUFFICES ASSUME Init PROVE TypeOK
  OBVIOUS
<1>1. counters \in Counters
  BY DEF Init, Counters
<1>2. /\ input \in Seq(Envelopes) /\ envelopes \in Seq(Envelopes) /\ arrived \in Seq(Envelopes)
      /\ ack \in [Envelopes -> {"open", "delivered", "failed"}]
  BY DEF Init
<1> QED BY <1>1, <1>2 DEF Init, TypeOK, Counters

LEMMA ReturnType ==
  ASSUME TypeOK, NEW result \in {"ok", "err", "aborted"}, Return(result)
  PROVE  TypeOK'
<1>1. ack' \in [Envelopes -> {"open", "delivered", "failed"}]
  BY SettleFacts DEF Return, Dropped
<1> QED BY <1>1 DEF Return, TypeOK

LEMMA WriteType == TypeOK /\ WriteInv /\ WriteStep => TypeOK'
<1> SUFFICES ASSUME TypeOK, WriteInv, WriteStep PROVE TypeOK'
  OBVIOUS
<1>0. writes \subseteq Tasks /\ stored \subseteq Envelopes /\ counters \in Counters
  BY DEF TypeOK, Tasks, Counters
<1>1. CASE WriteOk
  <2>1. PICK w \in writes :
          /\ Replace(w, [w EXCEPT !.status = "ok"])
          /\ stored' = stored \union Range(w.group)
          /\ ack' = Settle(Range(w.group), "delivered")
          /\ \E d \in 0..EventCount(w.group) :
               counters' = [counters EXCEPT
                              !.events_out = @ + (EventCount(w.group) - d),
                              !.events_dropped = @ + d,
                              !.batches_written = @ + 1]
    BY <1>1 DEF WriteOk
  <2>2. w.group \in Seq(Envelopes) /\ EventCount(w.group) \in Nat
    BY <1>0, CountType DEF Tasks
  <2>3. [w EXCEPT !.status = "ok"] \in Tasks
    BY <1>0 DEF Tasks
  <2>4. writes' \subseteq Tasks
    BY <1>0, <2>1, <2>3 DEF Replace
  <2>5. counters' \in Counters
    <3>1. PICK d \in 0..EventCount(w.group) :
            counters' = [counters EXCEPT
                              !.events_out = @ + (EventCount(w.group) - d),
                              !.events_dropped = @ + d,
                              !.batches_written = @ + 1]
      BY <2>1
    <3>2. d \in Nat /\ EventCount(w.group) - d \in Nat
      BY <2>2
    <3>3. PICK n \in Nat : n = EventCount(w.group) - d
      BY <3>2
    <3>4. counters' = [counters EXCEPT !.events_out = @ + n, !.events_dropped = @ + d,
                                       !.batches_written = @ + 1]
      BY <3>1, <3>3
    <3>5. /\ counters.events_out + n \in Nat /\ counters.events_dropped + d \in Nat
          /\ counters.batches_written + 1 \in Nat
      BY <1>0, <3>2 DEF Counters
    <3> QED BY ONLY <1>0, <3>4, <3>5 DEF Counters
  <2>6. stored' \subseteq Envelopes
    BY <1>0, <2>1, <2>2, InRange
  <2>7. ack' \in [Envelopes -> {"open", "delivered", "failed"}]
    BY <2>1, SettleFacts
  <2> QED BY <1>1, <2>4, <2>5, <2>6, <2>7 DEF WriteOk, TypeOK, Tasks, Counters
<1>2. CASE WriteRetries
  <2>1. PICK w \in writes : /\ Replace(w, [w EXCEPT !.status = "backoff"])
                            /\ \E S \in SUBSET Range(w.group) : stored' = stored \union S
    BY <1>2 DEF WriteRetries
  <2>2. [w EXCEPT !.status = "backoff"] \in Tasks /\ w.group \in Seq(Envelopes)
    BY <1>0 DEF Tasks
  <2>3. writes' \subseteq Tasks
    BY <1>0, <2>1, <2>2 DEF Replace
  <2>4. stored' \subseteq Envelopes
    BY <1>0, <2>1, <2>2, InRange
  <2>5. counters' \in Counters
    BY <1>2, <1>0 DEF WriteRetries, Counters
  <2> QED BY <1>2, <2>3, <2>4, <2>5 DEF WriteRetries, TypeOK, Tasks, Counters
<1>3. CASE BackoffOver
  <2>1. PICK w \in writes :
          /\ w.status = "backoff"
          /\ Replace(w, [w EXCEPT !.status = "writing", !.attempt = @ + 1,
                                  !.backoff = Min({2 * @, MaxBackoff})])
    BY <1>3 DEF BackoffOver
  <2>2. /\ w \in Tasks /\ w.attempt < MaxAttempts /\ w.attempt \in 1..MaxAttempts
        /\ w.backoff \in InitialBackoff..MaxBackoff
    BY <1>0, <2>1 DEF WriteInv, Tasks
  <2>3. w.attempt + 1 \in 1..MaxAttempts
    BY <2>2, Settings
  <2>4. Min({2 * w.backoff, MaxBackoff}) \in InitialBackoff..MaxBackoff
    <3>1. 2 * w.backoff \in Nat /\ 2 * w.backoff >= InitialBackoff
      BY <2>2, Settings
    <3>2. \E m \in {2 * w.backoff, MaxBackoff} : \A x \in {2 * w.backoff, MaxBackoff} : m <= x
      BY <3>1, Settings
    <3>3. /\ Min({2 * w.backoff, MaxBackoff}) \in {2 * w.backoff, MaxBackoff}
          /\ \A x \in {2 * w.backoff, MaxBackoff} : Min({2 * w.backoff, MaxBackoff}) <= x
      BY <3>2 DEF Min
    <3> QED BY <3>1, <3>3, Settings
  <2>5. [w EXCEPT !.status = "writing", !.attempt = @ + 1,
                  !.backoff = Min({2 * @, MaxBackoff})] \in Tasks
    BY <2>2, <2>3, <2>4 DEF Tasks
  <2>6. writes' \subseteq Tasks
    BY <1>0, <2>1, <2>5 DEF Replace
  <2> QED BY <1>3, <2>6 DEF BackoffOver, TypeOK, Tasks
<1>4. CASE WriteFails
  <2>1. PICK w \in writes : /\ Replace(w, [w EXCEPT !.status = "err"])
                            /\ ack' = Settle(Range(w.group), "failed")
                            /\ \E S \in SUBSET Range(w.group) : stored' = stored \union S
    BY <1>4 DEF WriteFails, RejectAll
  <2>2. [w EXCEPT !.status = "err"] \in Tasks /\ w.group \in Seq(Envelopes)
    BY <1>0 DEF Tasks
  <2>3. writes' \subseteq Tasks
    BY <1>0, <2>1, <2>2 DEF Replace
  <2>4. stored' \subseteq Envelopes
    BY <1>0, <2>1, <2>2, InRange
  <2>5. ack' \in [Envelopes -> {"open", "delivered", "failed"}]
    BY <2>1, SettleFacts
  <2>6. counters' \in Counters
    BY <1>4, <1>0 DEF WriteFails, Counters
  <2> QED BY <1>4, <2>3, <2>4, <2>5, <2>6 DEF WriteFails, TypeOK, Tasks, Counters
<1> QED BY <1>1, <1>2, <1>3, <1>4 DEF WriteStep

LEMMA TypeStep == TypeOK /\ WriteInv /\ [Next]_vars => TypeOK'
<1> SUFFICES ASSUME TypeOK, WriteInv, [Next]_vars PROVE TypeOK'
  OBVIOUS
<1>1. CASE WriteStep
  BY <1>1, WriteType
<1>2. CASE ReapOk
  BY <1>2 DEF ReapOk, TypeOK
<1>3. CASE ReapErr \/ DrainEnds \/ Abort
  BY <1>3, ReturnType DEF ReapErr, DrainEnds, Abort
<1>4. CASE Accept
  <2>1. Head(input) \in Envelopes /\ Tail(input) \in Seq(Envelopes)
    BY <1>4 DEF Accept, TypeOK
  <2> QED BY <1>4, <2>1 DEF Accept, TypeOK
<1>5. CASE StopAccepting
  BY <1>5 DEF StopAccepting, TypeOK
<1>6. CASE Coalesce
  <2>1. Head(input) \in Envelopes /\ Tail(input) \in Seq(Envelopes)
    BY <1>6 DEF Coalesce, TypeOK
  <2> QED BY <1>6, <2>1 DEF Coalesce, TypeOK
<1>7. CASE GroupReady
  BY <1>7 DEF GroupReady, TypeOK
<1>8. CASE Spawn
  <2>1. [group |-> envelopes, attempt |-> 1, backoff |-> InitialBackoff,
         status |-> "writing"] \in Tasks
    BY Settings DEF TypeOK, Tasks
  <2>2. writes' \subseteq Tasks
    BY <1>8, <2>1 DEF Spawn, TypeOK, Tasks
  <2>3. dispatched' \subseteq Envelopes
    BY <1>8, InRange DEF Spawn, TypeOK
  <2>4. counters' \in Counters
    BY <1>8 DEF Spawn, TypeOK, Counters
  <2> QED BY <1>8, <2>2, <2>3, <2>4 DEF Spawn, TypeOK, Tasks, Counters
<1>9. CASE DrainJoins
  <2>1. failed' \in BOOLEAN /\ writes' \subseteq writes
    BY <1>9 DEF DrainJoins, TypeOK, Remembers
  <2> QED BY <1>9, <2>1 DEF DrainJoins, TypeOK
<1>10. ASSUME NEW e \in Envelopes, Arrive(e) PROVE TypeOK'
  BY <1>10 DEF Arrive, TypeOK
<1>11. CASE SendersGone
  BY <1>11 DEF SendersGone, TypeOK
<1>12. CASE Cancel
  BY <1>12 DEF Cancel, TypeOK
<1>13. CASE UNCHANGED vars
  BY <1>13 DEF vars, TypeOK
<1> QED BY <1>1, <1>2, <1>3, <1>4, <1>5, <1>6, <1>7, <1>8, <1>9, <1>10, <1>11, <1>12,
           <1>13 DEF Next, LoopStep

----------------------------------------------------------------------------
(* What the steps do *)

\* A step of a write task: the task is replaced by one with the same group, and
\* its envelopes are told what its new status says.
WriteEffect(w, v) ==
    /\ Running(w) /\ v \in Tasks /\ v.group = w.group
    /\ writes' = (writes \ {w}) \union {v}
    /\ v.status = "backoff" => v.attempt < MaxAttempts
    /\ \A e \in Envelopes :
         ack'[e] = IF e \in Range(w.group) THEN AckFor(v.status) ELSE ack[e]
    /\ stored \subseteq stored'
    /\ v.status = "ok" => Range(w.group) \subseteq stored'

LEMMA WriteEffects ==
  ASSUME TypeOK, WriteInv, WriteStep
  PROVE  /\ \E w \in writes : \E v \in Tasks : WriteEffect(w, v)
         /\ UNCHANGED <<max_concurrent_writes, state, input, envelopes, failed, arrived,
                        dispatched>>
<1>0. /\ writes \subseteq Tasks
      /\ \A w \in writes : Range(w.group) \subseteq Envelopes
  BY InRange DEF TypeOK, Tasks
<1>1. \A w \in writes : Running(w) => \A e \in Range(w.group) : ack[e] = "open"
  BY DEF WriteInv, AckFor, Running
<1>2. UNCHANGED <<max_concurrent_writes, state, input, envelopes, failed, arrived, dispatched>>
  BY DEF WriteStep, WriteOk, WriteRetries, BackoffOver, WriteFails
<1>3. CASE WriteOk
  <2>1. PICK w \in writes : /\ w.status = "writing"
                            /\ Replace(w, [w EXCEPT !.status = "ok"])
                            /\ stored' = stored \union Range(w.group)
                            /\ ack' = Settle(Range(w.group), "delivered")
    BY <1>3 DEF WriteOk
  <2> DEFINE v == [w EXCEPT !.status = "ok"]
  <2>2. v \in Tasks /\ v.group = w.group /\ v.status = "ok"
    BY <1>0 DEF Tasks
  <2>3. writes' = (writes \ {w}) \union {v}
    BY <2>1 DEF Replace
  <2> HIDE DEF v
  <2>4. \A e \in Envelopes : ack'[e] = IF e \in Range(w.group) THEN "delivered" ELSE ack[e]
    BY <1>1, <2>1, SettleFacts DEF Running
  <2>5. WriteEffect(w, v)
    BY <2>1, <2>2, <2>3, <2>4 DEF WriteEffect, Running, AckFor
  <2> QED BY <1>2, <2>2, <2>5
<1>4. CASE WriteRetries
  <2>1. PICK w \in writes : /\ w.status = "writing" /\ w.attempt < MaxAttempts
                            /\ Replace(w, [w EXCEPT !.status = "backoff"])
                            /\ stored \subseteq stored' /\ ack' = ack
    BY <1>4 DEF WriteRetries, MayRetry
  <2> DEFINE v == [w EXCEPT !.status = "backoff"]
  <2>2. v \in Tasks /\ v.group = w.group /\ v.status = "backoff" /\ v.attempt = w.attempt
    BY <1>0 DEF Tasks
  <2>3. writes' = (writes \ {w}) \union {v}
    BY <2>1 DEF Replace
  <2> HIDE DEF v
  <2>4. \A e \in Range(w.group) : ack[e] = "open"
    BY <1>1, <2>1 DEF Running
  <2>5. WriteEffect(w, v)
    BY <2>1, <2>2, <2>3, <2>4 DEF WriteEffect, Running, AckFor
  <2> QED BY <1>2, <2>2, <2>5
<1>5. CASE BackoffOver
  <2>1. PICK w \in writes :
          /\ w.status = "backoff"
          /\ Replace(w, [w EXCEPT !.status = "writing", !.attempt = @ + 1,
                                  !.backoff = Min({2 * @, MaxBackoff})])
          /\ stored' = stored /\ ack' = ack
    BY <1>5 DEF BackoffOver
  <2> DEFINE v == [w EXCEPT !.status = "writing", !.attempt = @ + 1,
                            !.backoff = Min({2 * @, MaxBackoff})]
  <2>2. v.group = w.group /\ v.status = "writing"
    BY <1>0 DEF Tasks
  <2>3. writes' = (writes \ {w}) \union {v}
    BY <2>1 DEF Replace
  <2> HIDE DEF v
  <2>4. v \in Tasks
    <3>1. TypeOK'
      BY WriteType
    <3> QED BY <2>3, <3>1 DEF TypeOK, Tasks
  <2>5. \A e \in Range(w.group) : ack[e] = "open"
    BY <1>1, <2>1 DEF Running
  <2>6. WriteEffect(w, v)
    BY <2>1, <2>2, <2>3, <2>4, <2>5 DEF WriteEffect, Running, AckFor
  <2> QED BY <1>2, <2>4, <2>6
<1>6. CASE WriteFails
  <2>1. PICK w \in writes : /\ w.status = "writing"
                            /\ Replace(w, [w EXCEPT !.status = "err"])
                            /\ stored \subseteq stored'
                            /\ ack' = Settle(Range(w.group), "failed")
    BY <1>6 DEF WriteFails, RejectAll
  <2> DEFINE v == [w EXCEPT !.status = "err"]
  <2>2. v \in Tasks /\ v.group = w.group /\ v.status = "err"
    BY <1>0 DEF Tasks
  <2>3. writes' = (writes \ {w}) \union {v}
    BY <2>1 DEF Replace
  <2> HIDE DEF v
  <2>4. \A e \in Envelopes : ack'[e] = IF e \in Range(w.group) THEN "failed" ELSE ack[e]
    BY <1>1, <2>1, SettleFacts DEF Running
  <2>5. WriteEffect(w, v)
    BY <2>1, <2>2, <2>3, <2>4 DEF WriteEffect, Running, AckFor
  <2> QED BY <1>2, <2>2, <2>5
<1> QED BY <1>3, <1>4, <1>5, <1>6 DEF WriteStep

\* run returns: what it holds and is unsettled has failed.
LEMMA ReturnEffect ==
  ASSUME TypeOK, NEW result \in {"ok", "err", "aborted"}, Return(result)
  PROVE  /\ \A e \in Envelopes :
              ack'[e] = IF e \in Owned /\ ack[e] = "open" THEN "failed" ELSE ack[e]
         /\ ~Alive' /\ state' = result
         /\ input' = <<>> /\ envelopes' = <<>> /\ writes' = {}
         /\ UNCHANGED <<max_concurrent_writes, failed, arrived, dispatched, stored>>
<1>1. \A e \in Envelopes :
        ack'[e] = IF e \in Owned /\ ack[e] = "open" THEN "failed" ELSE ack[e]
  BY SettleFacts DEF Return, Dropped
<1> QED BY <1>1 DEF Return, Alive

\* The ways run returns.
Returns == \/ ReapErr
           \/ DrainEnds
           \/ Abort

LEMMA ReturnsFacts ==
  ASSUME TypeOK, StateInv, Returns
  PROVE  /\ Alive
         /\ \E result \in {"ok", "err", "aborted"} :
              /\ Return(result)
              /\ result = "ok" => writes = {} /\ ~failed /\ state = "drain"
BY DEF Returns, ReapErr, DrainEnds, Abort, AllJoined, Alive, MayReap, TypeOK

\* Every other step but Accept, Coalesce, Spawn, Arrive leaves the queues alone.
Quiet == \/ ReapOk \/ StopAccepting \/ GroupReady \/ DrainJoins \/ SendersGone \/ Cancel
         \/ UNCHANGED vars

LEMMA Steps ==
  [Next]_vars => \/ WriteStep \/ Returns \/ Accept \/ Coalesce \/ Spawn \/ Quiet
                 \/ \E e \in Envelopes : Arrive(e)
BY DEF Next, LoopStep, Returns, Quiet

LEMMA QuietFacts ==
  ASSUME TypeOK, Quiet
  PROVE  /\ UNCHANGED <<max_concurrent_writes, input, envelopes, ack, arrived, dispatched,
                        stored>>
         /\ Alive' <=> Alive
         /\ writes' \subseteq writes
         /\ \/ writes' = writes /\ failed' = failed
            \/ \E w \in writes :
                 /\ writes' = writes \ {w}
                 /\ \/ w.status = "ok" /\ failed' = failed
                    \/ w.status = "err" /\ failed' /\ state = "drain" /\ state' = "drain"
BY DEF Quiet, ReapOk, Finished, StopAccepting, GroupReady, DrainJoins, SendersGone, Cancel,
       vars, Alive, TypeOK, Running, Remembers, Tasks

----------------------------------------------------------------------------
(* The order of the queues *)

\* The queues as functions of positions, for the leaves below.
LEMMA QueueFacts ==
  ASSUME TypeOK
  PROVE  /\ Len(arrived) \in Nat /\ Len(input) \in Nat /\ Len(envelopes) \in Nat
         /\ \A x : x \in Range(arrived) <=> \E i \in 1..Len(arrived) : x = arrived[i]
         /\ \A x : x \in Range(input) <=> \E i \in 1..Len(input) : x = input[i]
         /\ \A x : x \in Range(envelopes) <=> \E i \in 1..Len(envelopes) : x = envelopes[i]
BY InRange DEF TypeOK

\* While run is alive an envelope that arrived is in the channel, in the group,
\* or dispatched, and in one of them only.
LEMMA Placed ==
  ASSUME TypeOK, OrderInv, Alive
  PROVE  /\ \A e \in Range(arrived) :
              e \in dispatched \/ e \in Range(input) \/ e \in Range(envelopes)
         /\ \A e \in Range(input) \union Range(envelopes) :
              e \in Range(arrived) /\ e \notin dispatched
         /\ Range(input) \cap Range(envelopes) = {}
<1>0. /\ Len(arrived) \in Nat /\ Len(input) \in Nat /\ Len(envelopes) \in Nat
      /\ Len(input) + Len(envelopes) <= Len(arrived)
  BY QueueFacts DEF OrderInv
<1> DEFINE g == Len(envelopes)
           n == Len(arrived)
<1>1. Passed \in 0..n /\ Passed + g + Len(input) = n
  BY <1>0 DEF Passed
<1>2. dispatched = {arrived[i] : i \in 1..Passed}
  BY DEF OrderInv
<1>3. ASSUME NEW e \in Range(arrived)
      PROVE  e \in dispatched \/ e \in Range(input) \/ e \in Range(envelopes)
  <2>1. PICK i \in 1..n : e = arrived[i]
    BY <1>3, QueueFacts
  <2>2. CASE i <= Passed
    BY <1>1, <1>2, <2>1, <2>2
  <2>3. CASE i > Passed /\ i <= Passed + g
    <3>1. i - Passed \in 1..g /\ Passed + (i - Passed) = i
      BY <1>0, <1>1, <2>3
    <3>2. envelopes[i - Passed] = e
      BY <2>1, <3>1 DEF OrderInv
    <3> QED BY <3>1, <3>2, QueueFacts
  <2>4. CASE i > Passed + g
    <3>1. i - Passed - g \in 1..Len(input) /\ Passed + g + (i - Passed - g) = i
      BY <1>0, <1>1, <2>4
    <3>2. input[i - Passed - g] = e
      BY <2>1, <3>1 DEF OrderInv
    <3> QED BY <3>1, <3>2, QueueFacts
  <2> QED BY <1>0, <1>1, <2>1, <2>2, <2>3, <2>4
<1>4. ASSUME NEW e \in Range(envelopes)
      PROVE  \E i \in 1..n : arrived[i] = e /\ i > Passed /\ i <= Passed + g
  <2>1. PICK j \in 1..g : e = envelopes[j]
    BY <1>4, QueueFacts
  <2>2. Passed + j \in 1..n /\ arrived[Passed + j] = e
    BY <1>0, <1>1, <2>1 DEF OrderInv
  <2> QED BY <1>0, <1>1, <2>1, <2>2
<1>5. ASSUME NEW e \in Range(input)
      PROVE  \E i \in 1..n : arrived[i] = e /\ i > Passed + g
  <2>1. PICK j \in 1..Len(input) : e = input[j]
    BY <1>5, QueueFacts
  <2>2. Passed + g + j \in 1..n /\ arrived[Passed + g + j] = e
    BY <1>0, <1>1, <2>1 DEF OrderInv
  <2> QED BY <1>0, <1>1, <2>1, <2>2
<1>6. ASSUME NEW e, NEW i \in 1..n, arrived[i] = e, i > Passed
      PROVE  e \in Range(arrived) /\ e \notin dispatched
  <2>1. e \in Range(arrived)
    BY <1>6, QueueFacts
  <2>2. \A j \in 1..Passed : j \in 1..n /\ j # i
    BY <1>0, <1>1, <1>6
  <2>3. \A j \in 1..Passed : arrived[j] # e
    BY <1>6, <2>2 DEF OrderInv
  <2> QED BY <1>2, <2>1, <2>3
<1>7. \A e \in Range(input) \union Range(envelopes) :
        e \in Range(arrived) /\ e \notin dispatched
  BY <1>0, <1>1, <1>4, <1>5, <1>6
<1>8. Range(input) \cap Range(envelopes) = {}
  <2> SUFFICES ASSUME NEW e \in Range(input), e \in Range(envelopes) PROVE FALSE
    OBVIOUS
  <2>1. PICK i \in 1..n : arrived[i] = e /\ i > Passed + g
    BY <1>5
  <2>2. PICK j \in 1..n : arrived[j] = e /\ j <= Passed + g
    BY <1>4
  <2>3. i = j
    BY <2>1, <2>2 DEF OrderInv
  <2> QED BY <1>0, <1>1, <2>1, <2>2, <2>3
<1> QED BY <1>3, <1>7, <1>8

LEMMA OrderStep == TypeOK /\ StateInv /\ OrderInv /\ WriteInv /\ [Next]_vars => OrderInv'
<1> SUFFICES ASSUME TypeOK, StateInv, OrderInv, WriteInv, [Next]_vars PROVE OrderInv'
  OBVIOUS
<1>0. /\ Len(arrived) \in Nat /\ Len(input) \in Nat /\ Len(envelopes) \in Nat
      /\ Len(input) + Len(envelopes) <= Len(arrived)
      /\ input \in Seq(Envelopes) /\ envelopes \in Seq(Envelopes) /\ arrived \in Seq(Envelopes)
  BY QueueFacts DEF OrderInv, TypeOK
<1>1. ASSUME UNCHANGED <<input, envelopes, arrived, dispatched>>, Alive' => Alive
      PROVE  OrderInv'
  <2>1. Passed' = Passed
    BY <1>1 DEF Passed
  <2> QED BY <1>1, <2>1 DEF OrderInv
<1>2. CASE WriteStep
  <2>1. Alive' => Alive
    BY <1>2, WriteEffects DEF Alive
  <2> QED BY <1>1, <1>2, <2>1, WriteEffects
<1>3. CASE Quiet
  BY <1>1, <1>3, QuietFacts
<1>4. CASE Returns
  <2>1. /\ ~Alive' /\ input' = <<>> /\ envelopes' = <<>>
        /\ arrived' = arrived /\ dispatched' = dispatched
    BY <1>4, ReturnsFacts, ReturnEffect
  <2>2. Len(input') = 0 /\ Len(envelopes') = 0
    BY <2>1
  <2> QED BY <1>0, <2>1, <2>2 DEF OrderInv
<1>5. CASE Accept
  <2>1. /\ state = "accept" /\ input # <<>> /\ input' = Tail(input)
        /\ envelopes' = <<Head(input)>>
        /\ UNCHANGED <<arrived, dispatched>> /\ Alive
    BY <1>5 DEF Accept, Alive
  <2>2. envelopes = <<>> /\ Len(envelopes) = 0
    BY <2>1 DEF StateInv
  <2>3. /\ Len(input') = Len(input) - 1 /\ Len(envelopes') = 1 /\ Len(input) >= 1
        /\ envelopes'[1] = input[1]
        /\ \A i \in 1..(Len(input) - 1) : input'[i] = input[i + 1]
    BY <1>0, <2>1
  <2>4. Passed' = Passed /\ Passed \in Nat
    BY <1>0, <2>1, <2>2, <2>3 DEF Passed
  <2>5. \A i \in 1..Len(input) : input[i] = arrived[Passed + i]
    BY <2>2, <2>4 DEF OrderInv
  <2>6. \A i \in 1..Len(envelopes') : envelopes'[i] = arrived[Passed + i]
    BY <1>0, <2>3, <2>5
  <2>7. \A i \in 1..Len(input') : input'[i] = arrived[Passed + Len(envelopes') + i]
    <3> SUFFICES ASSUME NEW i \in 1..(Len(input) - 1)
                 PROVE  input'[i] = arrived[Passed + 1 + i]
      BY <2>3
    <3>1. i + 1 \in 1..Len(input) /\ Passed + (i + 1) = Passed + 1 + i
      BY <1>0, <2>4
    <3> QED BY <2>3, <2>5, <3>1
  <2>8. Len(input') + Len(envelopes') <= Len(arrived)
    BY <1>0, <2>2, <2>3
  <2> QED BY <2>1, <2>4, <2>6, <2>7, <2>8 DEF OrderInv
<1>6. CASE Coalesce
  <2> DEFINE g == Len(envelopes)
  <2>1. /\ input # <<>> /\ input' = Tail(input)
        /\ envelopes' = Append(envelopes, Head(input))
        /\ UNCHANGED <<arrived, dispatched, state>>
    BY <1>6 DEF Coalesce
  <2>2. /\ Len(input') = Len(input) - 1 /\ Len(envelopes') = g + 1 /\ Len(input) >= 1
        /\ envelopes'[g + 1] = input[1]
        /\ \A i \in 1..g : envelopes'[i] = envelopes[i]
        /\ \A i \in 1..(Len(input) - 1) : input'[i] = input[i + 1]
    BY <1>0, <2>1
  <2>3. Passed' = Passed /\ Passed \in Nat
    BY <1>0, <2>1, <2>2 DEF Passed
  <2>4. \A i \in 1..Len(envelopes') : envelopes'[i] = arrived[Passed + i]
    <3>1. \A i \in 1..(g + 1) : i \in 1..g \/ i = g + 1
      BY <1>0
    <3>2. input[1] = arrived[Passed + g + 1] /\ Passed + g + 1 = Passed + (g + 1)
      BY <1>0, <2>2, <2>3 DEF OrderInv
    <3> QED BY <2>2, <3>1, <3>2 DEF OrderInv
  <2>5. \A i \in 1..Len(input') : input'[i] = arrived[Passed + Len(envelopes') + i]
    <3> SUFFICES ASSUME NEW i \in 1..(Len(input) - 1)
                 PROVE  input'[i] = arrived[Passed + (g + 1) + i]
      BY <2>2
    <3>1. i + 1 \in 1..Len(input) /\ Passed + g + (i + 1) = Passed + (g + 1) + i
      BY <1>0, <2>3
    <3>2. input[i + 1] = arrived[Passed + g + (i + 1)]
      BY <3>1 DEF OrderInv
    <3> QED BY <2>2, <3>1, <3>2
  <2>6. Len(input') + Len(envelopes') <= Len(arrived) /\ (Alive' <=> Alive)
    BY <1>0, <2>1, <2>2 DEF Alive
  <2> QED BY <2>1, <2>3, <2>4, <2>5, <2>6 DEF OrderInv
<1>7. CASE Spawn
  <2>1. /\ envelopes' = <<>> /\ dispatched' = dispatched \union Range(envelopes)
        /\ UNCHANGED <<arrived, input>> /\ Alive
    BY <1>7 DEF Spawn, Alive
  <2>2. Len(envelopes') = 0 /\ Passed' = Passed + Len(envelopes) /\ Passed \in Nat
    BY <1>0, <2>1 DEF Passed
  <2>3. \A i \in 1..Len(input') : input'[i] = arrived[Passed' + Len(envelopes') + i]
    <3> SUFFICES ASSUME NEW i \in 1..Len(input)
                 PROVE  input[i] = arrived[Passed + Len(envelopes) + 0 + i]
      BY <2>1, <2>2
    <3>1. Passed + Len(envelopes) + 0 + i = Passed + Len(envelopes) + i
      BY <1>0, <2>2
    <3> QED BY <3>1 DEF OrderInv
  <2>4. dispatched' = {arrived[i] : i \in 1..Passed'}
    <3>1. \A i \in 1..Passed' : i \in 1..Passed \/ (i - Passed \in 1..Len(envelopes)
                                                    /\ Passed + (i - Passed) = i)
      BY <1>0, <2>2
    <3>2. \A i \in 1..Len(envelopes) : Passed + i \in 1..Passed'
      BY <1>0, <2>2
    <3>3. dispatched = {arrived[i] : i \in 1..Passed} /\ 1..Passed \subseteq 1..Passed'
      BY <1>0, <2>1, <2>2 DEF OrderInv
    <3>4. ASSUME NEW e PROVE e \in Range(envelopes) <=>
                               \E i \in 1..Len(envelopes) : e = arrived[Passed + i]
      BY QueueFacts DEF OrderInv
    <3> QED BY <2>1, <3>1, <3>2, <3>3, <3>4
  <2>5. dispatched' \subseteq Range(arrived)
    <3>1. Passed' <= Len(arrived) /\ Passed' \in Nat
      BY <1>0, <2>1, <2>2 DEF Passed
    <3> QED BY <1>0, <2>4, <3>1, QueueFacts
  <2> QED BY <1>0, <2>1, <2>2, <2>3, <2>4, <2>5 DEF OrderInv
<1>8. ASSUME NEW e \in Envelopes, Arrive(e) PROVE OrderInv'
  <2>1. /\ input' = Append(input, e) /\ arrived' = Append(arrived, e)
        /\ e \notin Range(arrived) /\ Alive
        /\ UNCHANGED <<envelopes, dispatched, state>>
    BY <1>8 DEF Arrive
  <2> DEFINE n == Len(arrived)
             m == Len(input)
             g == Len(envelopes)
  <2>2. /\ Len(arrived') = n + 1 /\ Len(input') = m + 1
        /\ \A i \in 1..n : arrived'[i] = arrived[i]
        /\ \A i \in 1..m : input'[i] = input[i]
        /\ arrived'[n + 1] = e /\ input'[m + 1] = e
    BY <1>0, <2>1
  <2>3. Passed' = Passed /\ Passed \in Nat /\ Passed + g + m = n
    BY <1>0, <2>1, <2>2 DEF Passed
  <2>4. \A i, j \in 1..Len(arrived') : arrived'[i] = arrived'[j] => i = j
    <3>1. \A i \in 1..(n + 1) : i \in 1..n \/ i = n + 1
      BY <1>0
    <3>2. \A i \in 1..n : arrived[i] # e
      BY <2>1, QueueFacts
    <3> QED BY <2>2, <3>1, <3>2 DEF OrderInv
  <2>5. \A i \in 1..g : envelopes'[i] = arrived'[Passed' + i]
    <3> SUFFICES ASSUME NEW i \in 1..g PROVE envelopes[i] = arrived'[Passed + i]
      BY <2>1, <2>3
    <3>1. Passed + i \in 1..n
      BY <1>0, <2>3
    <3> QED BY <2>2, <3>1 DEF OrderInv
  <2>6. \A i \in 1..Len(input') : input'[i] = arrived'[Passed' + g + i]
    <3> SUFFICES ASSUME NEW i \in 1..(m + 1) PROVE input'[i] = arrived'[Passed + g + i]
      BY <2>2, <2>3
    <3>1. CASE i = m + 1
      <4>1. Passed + g + i = n + 1
        BY <1>0, <2>3, <3>1
      <4> QED BY <2>2, <3>1, <4>1
    <3>2. CASE i \in 1..m
      <4>1. Passed + g + i \in 1..n
        BY <1>0, <2>3, <3>2
      <4> QED BY <2>2, <3>2, <4>1 DEF OrderInv
    <3> QED BY <1>0, <3>1, <3>2
  <2>7. dispatched = {arrived'[i] : i \in 1..Passed}
    <3>1. \A i \in 1..Passed : i \in 1..n
      BY <1>0, <2>3
    <3>2. dispatched = {arrived[i] : i \in 1..Passed}
      BY <2>1 DEF OrderInv
    <3> QED BY <2>2, <3>1, <3>2
  <2>8. dispatched \subseteq Range(arrived')
    <3>1. \A i \in 1..Passed : i \in 1..Len(arrived')
      BY <1>0, <2>2, <2>3
    <3>2. arrived' \in Seq(Envelopes)
      BY <1>0, <2>1
    <3>3. \A i \in 1..Len(arrived') : arrived'[i] \in Range(arrived')
      BY <3>2, InRange
    <3> QED BY <2>7, <3>1, <3>3
  <2>9. Len(input') + Len(envelopes') <= Len(arrived')
    BY <1>0, <2>1, <2>2
  <2> QED BY <2>1, <2>3, <2>4, <2>5, <2>6, <2>7, <2>8, <2>9 DEF OrderInv
<1> QED BY <1>2, <1>3, <1>4, <1>5, <1>6, <1>7, <1>8, Steps

----------------------------------------------------------------------------
(* Where run is *)

LEMMA StateStep ==
  TypeOK /\ StateInv /\ WriteInv /\ [Next]_vars => StateInv'
<1> SUFFICES ASSUME TypeOK, StateInv, WriteInv, [Next]_vars PROVE StateInv'
  OBVIOUS
<1>0. failed \in BOOLEAN /\ state \in {"accept", "coalesce", "slot", "drain", "ok", "err", "aborted"}
      /\ input \in Seq(Envelopes) /\ envelopes \in Seq(Envelopes)
  BY DEF TypeOK
<1>1. CASE WriteStep
  <2>1. UNCHANGED <<state, input, envelopes, failed>> /\ writes # {}
    BY <1>1, WriteEffects
  <2> QED BY <2>1 DEF StateInv, Alive
<1>2. CASE Returns
  <2>1. PICK result \in {"ok", "err", "aborted"} :
          Return(result) /\ (result = "ok" => ~failed)
    BY <1>2, ReturnsFacts
  <2>2. /\ state' = result /\ input' = <<>> /\ envelopes' = <<>> /\ writes' = {}
        /\ failed' = failed
    BY <2>1 DEF Return
  <2> QED BY <2>1, <2>2 DEF StateInv
<1>3. CASE Accept
  BY <1>0, <1>3 DEF Accept, StateInv, Alive
<1>4. CASE Coalesce
  <2>1. Append(envelopes, Head(input)) # <<>>
    BY <1>0, <1>4 DEF Coalesce
  <2> QED BY <1>0, <1>4, <2>1 DEF Coalesce, StateInv, Alive
<1>5. CASE Spawn
  BY <1>0, <1>5 DEF Spawn, StateInv, Alive
<1>6. CASE Quiet
  BY <1>0, <1>6 DEF Quiet, ReapOk, MayReap, StopAccepting, GroupReady, DrainJoins,
                    SendersGone, Cancel, vars, StateInv, Alive
<1>7. ASSUME NEW e \in Envelopes, Arrive(e) PROVE StateInv'
  BY <1>7 DEF Arrive, StateInv, Alive
<1> QED BY <1>1, <1>2, <1>3, <1>4, <1>5, <1>6, <1>7, Steps

----------------------------------------------------------------------------
(* The write tasks *)

LEMMA WriteKeeps == TypeOK /\ WriteInv /\ WriteStep => WriteInv'
<1> SUFFICES ASSUME TypeOK, WriteInv, WriteStep PROVE WriteInv'
  OBVIOUS
<1>0. PICK w \in writes : \E u \in Tasks : WriteEffect(w, u)
  BY WriteEffects
<1>1. PICK v \in Tasks : WriteEffect(w, v)
  BY <1>0
<1>2. /\ writes' = (writes \ {w}) \union {v} /\ v.group = w.group
      /\ v.status = "backoff" => v.attempt < MaxAttempts
      /\ \A e \in Envelopes :
           ack'[e] = IF e \in Range(w.group) THEN AckFor(v.status) ELSE ack[e]
      /\ max_concurrent_writes' = max_concurrent_writes /\ dispatched' = dispatched
  BY <1>1, WriteEffects DEF WriteEffect
<1>3. \A u \in writes : Range(u.group) \subseteq Envelopes /\ Range(u.group) # {}
  <2> SUFFICES ASSUME NEW u \in writes
               PROVE  Range(u.group) \subseteq Envelopes /\ Range(u.group) # {}
    OBVIOUS
  <2>1. u.group \in Seq(Envelopes) /\ u.group # <<>>
    BY DEF TypeOK, WriteInv
  <2>2. 1 \in 1..Len(u.group)
    BY <2>1
  <2>3. Range(u.group) \subseteq Envelopes /\ u.group[1] \in Range(u.group)
    <3>1. PICK q \in Seq(Envelopes) : q = u.group
      BY <2>1
    <3>2. Range(q) \subseteq Envelopes /\ q[1] \in Range(q)
      BY <2>2, <3>1, InRange
    <3> QED BY <3>1, <3>2
  <2> QED BY <2>3
<1>4. v \notin writes \ {w}
  BY <1>2, <1>3 DEF WriteInv
<1>5. IsFiniteSet(writes') /\ Cardinality(writes') <= max_concurrent_writes'
  <2>1. IsFiniteSet(writes \ {w}) /\ Cardinality(writes \ {w}) = Cardinality(writes) - 1
    BY FS_RemoveElement DEF WriteInv
  <2>2. IsFiniteSet(writes') /\ Cardinality(writes') = Cardinality(writes \ {w}) + 1
    BY <1>2, <1>4, <2>1, FS_AddElement
  <2>3. Cardinality(writes) \in Nat
    BY FS_CardinalityType DEF WriteInv
  <2> QED BY <1>2, <2>1, <2>2, <2>3 DEF WriteInv
<1>6. ASSUME NEW u \in writes'
      PROVE  /\ u.group # <<>> /\ Range(u.group) \subseteq dispatched'
             /\ \A i, j \in 1..Len(u.group) : u.group[i] = u.group[j] => i = j
             /\ u.status = "backoff" => u.attempt < MaxAttempts
             /\ \A e \in Range(u.group) : ack'[e] = AckFor(u.status)
  <2>1. CASE u = v
    BY <1>2, <1>3, <2>1 DEF WriteInv
  <2>2. CASE u \in writes /\ u # w
    <3>1. Range(u.group) \cap Range(w.group) = {}
      BY <2>2 DEF WriteInv
    <3>2. \A e \in Range(u.group) : ack'[e] = ack[e]
      BY <1>2, <1>3, <2>2, <3>1
    <3> QED BY <1>2, <2>2, <3>2 DEF WriteInv
  <2> QED BY <1>2, <2>1, <2>2
<1>7. \A t, u \in writes' : t # u => Range(t.group) \cap Range(u.group) = {}
  BY <1>2 DEF WriteInv
<1> QED BY <1>5, <1>6, <1>7 DEF WriteInv

LEMMA WriteInvStep ==
  TypeOK /\ StateInv /\ OrderInv /\ WriteInv /\ AckInv /\ [Next]_vars => WriteInv'
<1> SUFFICES ASSUME TypeOK, StateInv, OrderInv, WriteInv, AckInv, [Next]_vars PROVE WriteInv'
  OBVIOUS
<1>0. max_concurrent_writes \in Nat \ {0}
  BY Settings DEF TypeOK
<1>1. CASE WriteStep
  BY <1>1, WriteKeeps
<1>2. ASSUME UNCHANGED <<max_concurrent_writes, ack, dispatched>>, writes' \subseteq writes
      PROVE  WriteInv'
  <2>1. IsFiniteSet(writes') /\ Cardinality(writes') <= Cardinality(writes)
    BY <1>2, FS_Subset DEF WriteInv
  <2>2. Cardinality(writes') \in Nat /\ Cardinality(writes) \in Nat
    BY <2>1, FS_CardinalityType DEF WriteInv
  <2>3. Cardinality(writes') <= max_concurrent_writes'
    BY <1>0, <1>2, <2>1, <2>2 DEF WriteInv
  <2> QED BY <1>2, <2>1, <2>3 DEF WriteInv
<1>3. CASE Returns
  <2>1. writes' = {} /\ max_concurrent_writes' = max_concurrent_writes
    BY <1>3, ReturnsFacts, ReturnEffect
  <2>2. IsFiniteSet({}) /\ Cardinality({}) = 0
    BY FS_EmptySet
  <2> QED BY <1>0, <2>1, <2>2 DEF WriteInv
<1>4. CASE Accept \/ Coalesce
  BY <1>2, <1>4 DEF Accept, Coalesce
<1>5. CASE Quiet
  BY <1>2, <1>5, QuietFacts
<1>6. ASSUME NEW e \in Envelopes, Arrive(e) PROVE WriteInv'
  BY <1>2, <1>6 DEF Arrive
<1>7. CASE Spawn
  <2> DEFINE v == [group |-> envelopes, attempt |-> 1, backoff |-> InitialBackoff,
                   status |-> "writing"]
  <2>1. /\ Cardinality(writes) < max_concurrent_writes /\ writes' = writes \union {v}
        /\ dispatched' = dispatched \union Range(envelopes) /\ Alive
        /\ UNCHANGED <<ack, max_concurrent_writes>> /\ state = "slot"
    BY <1>7 DEF Spawn, SlotFree, Alive
  <2>2. v.group = envelopes /\ v.status = "writing"
    OBVIOUS
  <2> HIDE DEF v
  <2>3. envelopes # <<>> /\ envelopes \in Seq(Envelopes) /\ Range(envelopes) \subseteq Envelopes
    BY <2>1, InRange DEF StateInv, TypeOK
  <2>4. \A e \in Range(envelopes) : e \notin dispatched /\ ack[e] = "open"
    BY <2>1, <2>3, Placed DEF AckInv
  <2>5. \A i, j \in 1..Len(envelopes) : envelopes[i] = envelopes[j] => i = j
    <3> SUFFICES ASSUME NEW i \in 1..Len(envelopes), NEW j \in 1..Len(envelopes),
                        envelopes[i] = envelopes[j]
                 PROVE  i = j
      OBVIOUS
    <3>1. /\ Passed \in Nat /\ Passed + Len(envelopes) <= Len(arrived)
          /\ Len(envelopes) \in Nat /\ Len(arrived) \in Nat
      BY QueueFacts DEF OrderInv, Passed
    <3>2. Passed + i \in 1..Len(arrived) /\ Passed + j \in 1..Len(arrived)
      BY <3>1
    <3>3. arrived[Passed + i] = arrived[Passed + j]
      BY DEF OrderInv
    <3>4. Passed + i = Passed + j
      BY <3>2, <3>3 DEF OrderInv
    <3> QED BY <3>1, <3>4
  <2>6. \A u \in writes : Range(u.group) \cap Range(envelopes) = {}
    BY <2>4 DEF WriteInv
  <2>7. IsFiniteSet(writes') /\ Cardinality(writes') <= max_concurrent_writes'
    <3>1. IsFiniteSet(writes) /\ Cardinality(writes) \in Nat
      BY FS_CardinalityType DEF WriteInv
    <3>2. /\ IsFiniteSet(writes \union {v})
          /\ \/ Cardinality(writes \union {v}) = Cardinality(writes)
             \/ Cardinality(writes \union {v}) = Cardinality(writes) + 1
      BY <3>1, FS_AddElement
    <3> QED BY <1>0, <2>1, <3>1, <3>2
  <2>8. ASSUME NEW u \in writes'
        PROVE  /\ u.group # <<>> /\ Range(u.group) \subseteq dispatched'
               /\ \A i, j \in 1..Len(u.group) : u.group[i] = u.group[j] => i = j
               /\ u.status = "backoff" => u.attempt < MaxAttempts
               /\ \A e \in Range(u.group) : ack'[e] = AckFor(u.status)
    <3>1. CASE u = v
      BY <2>1, <2>2, <2>3, <2>4, <2>5, <3>1 DEF AckFor
    <3>2. CASE u \in writes
      BY <2>1, <3>2 DEF WriteInv
    <3> QED BY <2>1, <3>1, <3>2
  <2>9. \A t, u \in writes' : t # u => Range(t.group) \cap Range(u.group) = {}
    BY <2>1, <2>2, <2>6 DEF WriteInv
  <2> QED BY <2>7, <2>8, <2>9 DEF WriteInv
<1> QED BY <1>1, <1>3, <1>4, <1>5, <1>6, <1>7, Steps

----------------------------------------------------------------------------
(* The acknowledgements *)

LEMMA AckStep ==
  TypeOK /\ StateInv /\ OrderInv /\ WriteInv /\ AckInv /\ [Next]_vars => AckInv'
<1> SUFFICES ASSUME TypeOK, StateInv, OrderInv, WriteInv, AckInv, [Next]_vars PROVE AckInv'
  OBVIOUS
<1>0. /\ dispatched \subseteq Range(arrived) /\ Range(arrived) \subseteq Envelopes
      /\ failed \in BOOLEAN
      /\ \A e \in Envelopes : ack[e] \in {"open", "delivered", "failed"}
      /\ \A w \in writes : Range(w.group) \subseteq dispatched
      /\ \A w \in writes : w.status \in {"writing", "backoff", "ok", "err"}
  BY InRange DEF TypeOK, OrderInv, WriteInv
<1>1. CASE WriteStep
  <2>0. PICK w \in writes : \E u \in Tasks : WriteEffect(w, u)
    BY <1>1, WriteEffects
  <2>1. PICK v \in Tasks : WriteEffect(w, v)
    BY <2>0
  <2>2. /\ writes' = (writes \ {w}) \union {v} /\ v.group = w.group
        /\ \A e \in Envelopes :
             ack'[e] = IF e \in Range(w.group) THEN AckFor(v.status) ELSE ack[e]
        /\ stored \subseteq stored' /\ (v.status = "ok" => Range(w.group) \subseteq stored')
    BY <2>1 DEF WriteEffect
  <2>3. UNCHANGED <<state, failed, arrived, dispatched>> /\ (Alive' <=> Alive) /\ Alive
    BY <1>1, WriteEffects DEF StateInv, Alive
  <2>4. Range(w.group) \subseteq dispatched /\ Range(w.group) \subseteq Envelopes
    BY <1>0
  <2>5. \A e \in Range(w.group) : \E u \in writes' : e \in Range(u.group)
    BY <2>2
  <2>6. \A e : (\E u \in writes : e \in Range(u.group)) => \E u \in writes' : e \in Range(u.group)
    BY <2>2, <2>5
  <2>7. v.status \in {"writing", "backoff", "ok", "err"}
        /\ (AckFor(v.status) = "delivered" => v.status = "ok")
    BY DEF Tasks, AckFor
  <2>8. \A e \in Envelopes : ack'[e] # "open" => e \in dispatched
    BY <2>2, <2>3, <2>4 DEF AckInv
  <2>9. \A e \in Envelopes : ack'[e] = "delivered" => e \in stored'
    BY <2>2, <2>7 DEF AckInv
  <2>10. \A e \in dispatched : ack'[e] = "open" => \E u \in writes' : e \in Range(u.group)
    BY <1>0, <2>2, <2>5, <2>6 DEF AckInv
  <2>11. ~failed => \A e \in dispatched :
           ack'[e] = "delivered" \/ \E u \in writes' : e \in Range(u.group)
    BY <1>0, <2>2, <2>3, <2>5, <2>6 DEF AckInv
  <2> QED BY <1>0, <2>3, <2>8, <2>9, <2>10, <2>11 DEF AckInv
<1>2. CASE Returns
  <2>0. PICK result \in {"ok", "err", "aborted"} : Return(result)
    BY <1>2, ReturnsFacts
  <2>1. /\ \A e \in Envelopes :
             ack'[e] = IF e \in Owned /\ ack[e] = "open" THEN "failed" ELSE ack[e]
        /\ ~Alive'
        /\ UNCHANGED <<arrived, dispatched, stored>>
    BY <2>0, ReturnEffect
  <2>2. Alive
    BY <1>2, ReturnsFacts
  <2>3. \A e \in Range(arrived) : ack[e] = "open" => e \in Owned
    <3>1. \A e \in dispatched : ack[e] = "open" => e \in Owned
      BY DEF AckInv, Owned
    <3> QED BY <2>2, <3>1, Placed DEF Owned
  <2>4. Owned \subseteq Range(arrived)
    <3>1. UNION {Range(w.group) : w \in writes} \subseteq Range(arrived)
      BY <1>0
    <3> QED BY <2>2, <3>1, Placed DEF Owned
  <2>5. \A e \in Range(arrived) : ack'[e] # "open"
    BY <1>0, <2>1, <2>3
  <2>6. \A e \in Envelopes : ack'[e] = "delivered" => ack[e] = "delivered"
    BY <2>1
  <2>7. \A e \in Envelopes : ack'[e] # "open" => e \in Range(arrived)
    BY <2>1, <2>4 DEF AckInv
  <2>8. \A e \in Envelopes : ack'[e] = "delivered" => e \in dispatched /\ e \in stored
    BY <2>6 DEF AckInv
  <2> QED BY <1>0, <2>1, <2>5, <2>7, <2>8 DEF AckInv
<1>3. ASSUME UNCHANGED <<ack, arrived, dispatched, stored, writes, failed>>, Alive' <=> Alive
      PROVE  AckInv'
  BY <1>3 DEF AckInv
<1>4. CASE Accept \/ Coalesce
  BY <1>3, <1>4 DEF Accept, Coalesce, Alive
<1>5. CASE Quiet
  <2>1. UNCHANGED <<ack, arrived, dispatched, stored>> /\ (Alive' <=> Alive)
    BY <1>5, QuietFacts
  <2>2. CASE writes' = writes /\ failed' = failed
    BY <1>3, <2>1, <2>2
  <2>3. ASSUME NEW w \in writes, writes' = writes \ {w},
               \/ w.status = "ok" /\ failed' = failed
               \/ w.status = "err" /\ failed'
        PROVE  AckInv'
    <3>1. \A e \in Range(w.group) : ack[e] # "open" /\ (w.status = "ok" => ack[e] = "delivered")
      BY <2>3 DEF WriteInv, AckFor
    <3>2. \A e : (\E u \in writes : e \in Range(u.group)) /\ e \notin Range(w.group)
                   => \E u \in writes' : e \in Range(u.group)
      BY <2>3
    <3>3. \A e \in dispatched : ack[e] = "open" => \E u \in writes' : e \in Range(u.group)
      BY <3>1, <3>2 DEF AckInv
    <3>4. Alive /\ ~failed' => \A e \in dispatched :
            ack[e] = "delivered" \/ \E u \in writes' : e \in Range(u.group)
      BY <2>3, <3>1, <3>2 DEF AckInv
    <3> QED BY <2>1, <3>3, <3>4 DEF AckInv
  <2> QED BY <1>5, <2>2, <2>3, QuietFacts
<1>6. CASE Spawn
  <2> DEFINE v == [group |-> envelopes, attempt |-> 1, backoff |-> InitialBackoff,
                   status |-> "writing"]
  <2>1. /\ writes' = writes \union {v} /\ dispatched' = dispatched \union Range(envelopes)
        /\ Alive /\ Alive' /\ UNCHANGED <<ack, arrived, stored, failed>>
    BY <1>6 DEF Spawn, Alive
  <2>2. v.group = envelopes
    OBVIOUS
  <2> HIDE DEF v
  <2>3. \A e \in Range(envelopes) : \E u \in writes' : e \in Range(u.group)
    BY <2>1, <2>2
  <2>4. \A e \in dispatched' : ack[e] = "open" => \E u \in writes' : e \in Range(u.group)
    BY <2>1, <2>3 DEF AckInv
  <2>5. ~failed' => \A e \in dispatched' :
          ack[e] = "delivered" \/ \E u \in writes' : e \in Range(u.group)
    BY <2>1, <2>3 DEF AckInv
  <2> QED BY <2>1, <2>4, <2>5 DEF AckInv
<1>7. ASSUME NEW e \in Envelopes, Arrive(e) PROVE AckInv'
  <2>1. /\ arrived' = Append(arrived, e) /\ Alive /\ Alive'
        /\ UNCHANGED <<ack, dispatched, stored, writes, failed>>
    BY <1>7 DEF Arrive, Alive
  <2>2. Range(arrived) \subseteq Range(arrived')
    <3>1. /\ arrived \in Seq(Envelopes) /\ arrived' \in Seq(Envelopes)
          /\ \A i \in 1..Len(arrived) : i \in 1..Len(arrived') /\ arrived'[i] = arrived[i]
      BY <2>1 DEF TypeOK
    <3> QED BY <3>1, InRange
  <2> QED BY <2>1, <2>2 DEF AckInv
<1> QED BY <1>1, <1>2, <1>4, <1>5, <1>6, <1>7, Steps

----------------------------------------------------------------------------
(* Groups, the clean exit and the order *)

LEMMA GroupStep ==
  TypeOK /\ StateInv /\ WriteInv /\ GroupInv /\ [Next]_vars => GroupInv'
<1> SUFFICES ASSUME TypeOK, StateInv, WriteInv, GroupInv, [Next]_vars PROVE GroupInv'
  OBVIOUS
<1>0. input \in Seq(Envelopes) /\ envelopes \in Seq(Envelopes)
  BY DEF TypeOK
<1>2. CASE WriteStep
  <2>1. envelopes' = envelopes /\ \A v \in writes' : \E w \in writes : v.group = w.group
    BY <1>2, WriteEffects DEF WriteEffect
  <2> QED BY <2>1 DEF GroupInv
<1>3. CASE Returns
  <2>1. envelopes' = <<>> /\ writes' = {}
    BY <1>3, ReturnsFacts, ReturnEffect
  <2>2. <<>> \in Seq(Envelopes) /\ Len(<<>>) = 0
    OBVIOUS
  <2>3. Within(envelopes')
    BY <2>1, <2>2 DEF Within
  <2> QED BY <2>1, <2>3 DEF GroupInv
<1>4. CASE Accept
  <2>1. envelopes' = <<Head(input)>> /\ Head(input) \in Envelopes /\ writes' = writes
    BY <1>0, <1>4 DEF Accept
  <2>2. Len(<<Head(input)>>) = 1
    OBVIOUS
  <2>3. Within(envelopes')
    BY <2>1, <2>2 DEF Within
  <2> QED BY <2>1, <2>3 DEF GroupInv
<1>5. CASE Coalesce
  <2>1. envelopes' = Append(envelopes, Head(input)) /\ Head(input) \in Envelopes /\ HasRoom
        /\ writes' = writes
    BY <1>0, <1>5 DEF Coalesce
  <2>2. Len(envelopes') = Len(envelopes) + 1
        /\ SubSeq(envelopes', 1, Len(envelopes') - 1) = envelopes
    BY <1>0, <2>1
  <2>3. Within(envelopes')
    BY <2>1, <2>2 DEF Within, HasRoom
  <2> QED BY <2>1, <2>3 DEF GroupInv
<1>6. CASE Quiet
  BY <1>6, QuietFacts DEF GroupInv
<1>7. CASE Spawn
  <2>1. envelopes' = <<>> /\ \A v \in writes' : v \in writes \/ v.group = envelopes
    BY <1>7 DEF Spawn
  <2>2. Len(<<>>) = 0
    OBVIOUS
  <2>3. Within(envelopes')
    BY <2>1, <2>2 DEF Within
  <2>4. \A v \in writes' : Within(v.group)
    BY <2>1 DEF GroupInv
  <2> QED BY <2>3, <2>4 DEF GroupInv
<1>8. ASSUME NEW e \in Envelopes, Arrive(e) PROVE GroupInv'
  BY <1>8 DEF Arrive, GroupInv
<1> QED BY <1>2, <1>3, <1>4, <1>5, <1>6, <1>7, <1>8, Steps

LEMMA CleanStep ==
  TypeOK /\ StateInv /\ OrderInv /\ WriteInv /\ AckInv /\ CleanExit /\ [Next]_vars => CleanExit'
<1> SUFFICES ASSUME TypeOK, StateInv, OrderInv, WriteInv, AckInv, CleanExit, [Next]_vars,
                    state' = "ok", NEW e \in Envelopes
             PROVE  ack'[e] = "delivered" <=> e \in dispatched'
  BY DEF CleanExit
<1>1. CASE Returns
  <2>1. PICK result \in {"ok", "err", "aborted"} :
          /\ Return(result)
          /\ result = "ok" => writes = {} /\ ~failed /\ state = "drain"
    BY <1>1, ReturnsFacts
  <2>2. /\ ack'[e] = IF e \in Owned /\ ack[e] = "open" THEN "failed" ELSE ack[e]
        /\ dispatched' = dispatched /\ state' = result
    BY <2>1, ReturnEffect
  <2>3. Alive /\ writes = {} /\ ~failed
    BY <2>1, <2>2 DEF Alive
  <2>4. e \in dispatched => ack[e] = "delivered"
    BY <2>3 DEF AckInv
  <2> QED BY <2>2, <2>4 DEF AckInv
<1>2. CASE state = "ok"
  <2>1. writes = {} /\ ~Alive
    BY <1>2 DEF StateInv, Alive
  <2>2. ~WriteStep
    BY <2>1 DEF WriteStep, WriteOk, WriteRetries, BackoffOver, WriteFails
  <2>3. CASE Quiet
    BY <1>2, <2>3, QuietFacts DEF CleanExit
  <2>4. Accept \/ Coalesce \/ Spawn \/ (\E x \in Envelopes : Arrive(x)) => FALSE
    BY <1>2, <2>1 DEF Accept, Coalesce, Spawn, Arrive
  <2> QED BY <1>1, <2>2, <2>3, <2>4, Steps
<1>3. CASE state # "ok" /\ ~Returns
  <2>1. WriteStep => state' = state
    BY WriteEffects
  <2>2. Accept \/ Coalesce \/ Spawn \/ Quiet \/ (\E x \in Envelopes : Arrive(x)) => state' # "ok"
    BY <1>3 DEF Accept, Coalesce, Spawn, Arrive, Quiet, ReapOk, StopAccepting, GroupReady,
                DrainJoins, SendersGone, Cancel, vars
  <2> QED BY <1>3, <2>1, <2>2, Steps
<1> QED BY <1>1, <1>2, <1>3

\* With one write at a time there is one task.
LEMMA OneTask ==
  ASSUME WriteInv, max_concurrent_writes = 1, NEW w \in writes
  PROVE  writes = {w}
<1>1. IsFiniteSet(writes) /\ Cardinality(writes) <= 1 /\ Cardinality(writes) \in Nat
  BY FS_CardinalityType DEF WriteInv
<1>2. IsFiniteSet(writes \ {w}) /\ Cardinality(writes \ {w}) = Cardinality(writes) - 1
  BY <1>1, FS_RemoveElement
<1>3. Cardinality(writes \ {w}) = 0
  BY <1>1, <1>2, FS_CardinalityType
<1>4. writes \ {w} = {}
  BY <1>2, <1>3, FS_EmptySet
<1> QED BY <1>4

LEMMA SerialStep ==
  TypeOK /\ StateInv /\ WriteInv /\ SerialInv /\ [Next]_vars => SerialInv'
<1> SUFFICES ASSUME TypeOK, StateInv, WriteInv, SerialInv, [Next]_vars,
                    max_concurrent_writes' = 1, failed'
             PROVE  writes' = {}
  BY DEF SerialInv
<1>1. CASE WriteStep
  BY <1>1, WriteEffects DEF SerialInv
<1>2. CASE Returns
  BY <1>2, ReturnsFacts, ReturnEffect
<1>3. CASE Accept \/ Coalesce \/ \E e \in Envelopes : Arrive(e)
  BY <1>3 DEF Accept, Coalesce, Arrive, SerialInv
<1>4. CASE Spawn
  BY <1>4 DEF Spawn, StateInv
<1>5. CASE Quiet
  <2>1. max_concurrent_writes = 1 /\ writes' \subseteq writes
    BY <1>5, QuietFacts
  <2>2. CASE failed
    BY <2>1, <2>2 DEF SerialInv
  <2>3. CASE ~failed
    <3>1. PICK w \in writes : writes' = writes \ {w}
      BY <1>5, <2>3, QuietFacts DEF TypeOK
    <3> QED BY <2>1, <3>1, OneTask
  <2> QED BY <2>2, <2>3
<1> QED BY <1>1, <1>2, <1>3, <1>4, <1>5, Steps

LEMMA SequentialStep ==
  TypeOK /\ StateInv /\ OrderInv /\ WriteInv /\ AckInv /\ AckInv' /\ SerialInv
    /\ SequentialOrder /\ [Next]_vars => SequentialOrder'
<1> SUFFICES ASSUME TypeOK, StateInv, OrderInv, WriteInv, AckInv, AckInv', SerialInv,
                    SequentialOrder, [Next]_vars, max_concurrent_writes' = 1,
                    NEW i \in 1..Len(arrived'), NEW j \in 1..Len(arrived'),
                    i < j, ack'[arrived'[j]] = "delivered"
             PROVE  ack'[arrived'[i]] = "delivered"
  BY DEF SequentialOrder
<1>0. /\ arrived \in Seq(Envelopes) /\ Len(arrived) \in Nat /\ Passed \in 0..Len(arrived)
      /\ \A k \in 1..Len(arrived) : arrived[k] \in Envelopes
  BY QueueFacts DEF TypeOK, Passed, OrderInv
<1>1. CASE WriteStep
  <2>0. PICK w \in writes : \E u \in Tasks : WriteEffect(w, u)
    BY <1>1, WriteEffects
  <2>1. PICK v \in Tasks : WriteEffect(w, v)
    BY <2>0
  <2>2. UNCHANGED <<max_concurrent_writes, state, failed, arrived, dispatched>>
    BY <1>1, WriteEffects
  <2>3. /\ Running(w) /\ v.status \in {"writing", "backoff", "ok", "err"}
        /\ \A e \in Envelopes :
             ack'[e] = IF e \in Range(w.group) THEN AckFor(v.status) ELSE ack[e]
    BY <2>1 DEF WriteEffect, Tasks
  <2>4. writes = {w} /\ ~failed /\ Alive
    BY <2>2, OneTask DEF SerialInv, StateInv, TypeOK
  <2> DEFINE a == arrived[i]
             b == arrived[j]
  <2>5. a \in Envelopes /\ b \in Envelopes /\ ack'[b] = "delivered"
    BY <1>0, <2>2
  <2>6. b \in dispatched
    BY <2>2, <2>5 DEF AckInv
  <2>7. a \in dispatched
    <3>1. dispatched = {arrived[k] : k \in 1..Passed}
      BY <2>4 DEF OrderInv
    <3>2. PICK k \in 1..Passed : arrived[j] = arrived[k]
      BY <2>6, <3>1
    <3>3. k \in 1..Len(arrived)
      BY <1>0
    <3>4. k = j
      BY <2>2, <3>2, <3>3 DEF OrderInv
    <3>5. i \in 1..Passed
      BY <1>0, <2>2, <3>4
    <3> QED BY <3>1, <3>5
  <2>8. ack[a] = "delivered" \/ a \in Range(w.group)
    BY <2>4, <2>7 DEF AckInv
  <2>9. ack[a] = "delivered" => a \notin Range(w.group)
    BY <2>3 DEF WriteInv, AckFor, Running
  <2>10. CASE b \in Range(w.group)
    BY <2>3, <2>5, <2>8, <2>9, <2>10, <2>2
  <2>11. CASE b \notin Range(w.group)
    <3>1. ack[b] = "delivered"
      BY <2>3, <2>5, <2>11
    <3>2. ack[a] = "delivered"
      BY <2>2, <3>1 DEF SequentialOrder
    <3> QED BY <2>2, <2>3, <2>5, <2>9, <3>2
  <2> QED BY <2>10, <2>11
<1>2. CASE Returns
  <2>1. /\ \A e \in Envelopes :
             ack'[e] = IF e \in Owned /\ ack[e] = "open" THEN "failed" ELSE ack[e]
        /\ UNCHANGED <<max_concurrent_writes, arrived>>
    BY <1>2, ReturnsFacts, ReturnEffect
  <2>2. ack[arrived[j]] = "delivered"
    BY <1>0, <2>1
  <2>3. ack[arrived[i]] = "delivered"
    BY <2>1, <2>2 DEF SequentialOrder
  <2> QED BY <1>0, <2>1, <2>3
<1>3. CASE UNCHANGED <<max_concurrent_writes, arrived, ack>>
  BY <1>3 DEF SequentialOrder
<1>4. ASSUME NEW e \in Envelopes, Arrive(e) PROVE ack'[arrived'[i]] = "delivered"
  <2>1. /\ arrived' = Append(arrived, e) /\ e \notin Range(arrived)
        /\ UNCHANGED <<max_concurrent_writes, ack>>
    BY <1>4 DEF Arrive
  <2>2. Len(arrived') = Len(arrived) + 1 /\ arrived'[Len(arrived) + 1] = e
        /\ \A k \in 1..Len(arrived) : arrived'[k] = arrived[k]
    BY <1>0, <2>1
  <2>3. ack[e] = "open"
    BY <2>1 DEF AckInv, TypeOK
  <2>4. j \in 1..Len(arrived) /\ i \in 1..Len(arrived)
    BY <1>0, <2>1, <2>2, <2>3
  <2> QED BY <2>1, <2>2, <2>4 DEF SequentialOrder
<1>5. Accept \/ Coalesce \/ Spawn \/ Quiet => UNCHANGED <<max_concurrent_writes, arrived, ack>>
  BY QuietFacts DEF Accept, Coalesce, Spawn
<1> QED BY <1>1, <1>2, <1>3, <1>4, <1>5, Steps

----------------------------------------------------------------------------
(* The count of unsettled envelopes *)

LEMMA RangeCount ==
  ASSUME NEW S, NEW q \in Seq(S), \A i, j \in 1..Len(q) : q[i] = q[j] => i = j
  PROVE  IsFiniteSet(Range(q)) /\ Cardinality(Range(q)) = Len(q)
<1>1. Len(q) \in Nat /\ DOMAIN q = 1..Len(q) /\ q \in [1..Len(q) -> Range(q)]
      /\ \A x \in Range(q) : \E i \in 1..Len(q) : q[i] = x
  BY DEF Range
<1>2. q \in Injection(1..Len(q), Range(q)) /\ q \in Surjection(1..Len(q), Range(q))
  BY <1>1 DEF Injection, IsInjective, Surjection
<1>3. IsFiniteSet(1..Len(q)) /\ Cardinality(1..Len(q)) = Len(q)
  <2>1. PICK n \in Nat : n = Len(q)
    BY <1>1
  <2>2. IsFiniteSet(1..n) /\ Cardinality(1..n) = IF 1 > n THEN 0 ELSE n - 1 + 1
    BY FS_Interval
  <2>3. Cardinality(1..n) = n
    BY <2>2
  <2> QED BY <2>1, <2>2, <2>3
<1> QED BY <1>2, <1>3, FS_Surjection

LEMMA UnsettledFinite ==
  ASSUME TypeOK, OrderInv
  PROVE  IsFiniteSet(Unsettled) /\ Cardinality(Unsettled) \in Nat
<1>1. IsFiniteSet(Range(arrived))
  BY RangeCount DEF TypeOK, OrderInv
<1>2. IsFiniteSet(Unsettled)
  BY <1>1, FS_Subset DEF Unsettled
<1> QED BY <1>2, FS_CardinalityType

\* The sum over running writes is a number, and none running makes it 0.
LEMMA LengthsFacts ==
  ASSUME NEW W \in SUBSET Tasks, IsFiniteSet(W)
  PROVE  /\ IsFiniteSet(DOMAIN Lengths(W)) /\ DOMAIN Lengths(W) = {w \in W : Running(w)}
         /\ \A w \in DOMAIN Lengths(W) :
              Lengths(W)[w] = Len(w.group) /\ Lengths(W)[w] \in Nat
         /\ SumFunction(Lengths(W)) \in Nat
         /\ (\A w \in W : ~Running(w)) => SumFunction(Lengths(W)) = 0
<1>1. DOMAIN Lengths(W) = {w \in W : Running(w)}
  BY DEF Lengths
<1>2. IsFiniteSet(DOMAIN Lengths(W))
  BY <1>1, FS_Subset
<1>3. \A w \in DOMAIN Lengths(W) : Lengths(W)[w] = Len(w.group) /\ Lengths(W)[w] \in Nat
  BY <1>1 DEF Lengths, Tasks
<1>4. PICK f : f = Lengths(W)
  OBVIOUS
<1>5. SumFunction(f) \in Nat /\ (DOMAIN f = {} => SumFunction(f) = 0)
  BY <1>2, <1>3, <1>4, SumFunctionType
<1> QED BY <1>1, <1>2, <1>3, <1>4, <1>5

\* One more write adds its envelopes to the sum as long as it is running.
LEMMA LengthsGrow ==
  ASSUME NEW W \in SUBSET Tasks, IsFiniteSet(W), NEW v \in Tasks, v \notin W
  PROVE  SumFunction(Lengths(W \union {v}))
           = SumFunction(Lengths(W)) + (IF Running(v) THEN Len(v.group) ELSE 0)
<1>1. PICK f : f = Lengths(W)
  OBVIOUS
<1>2. PICK h : h = Lengths(W \union {v})
  OBVIOUS
<1>3. W \union {v} \in SUBSET Tasks /\ IsFiniteSet(W \union {v})
  BY FS_AddElement
<1>4. /\ IsFiniteSet(DOMAIN f) /\ DOMAIN f = {w \in W : Running(w)}
      /\ \A w \in DOMAIN f : f[w] = Len(w.group) /\ f[w] \in Nat
      /\ SumFunction(f) \in Nat
  BY <1>1, LengthsFacts
<1>5. /\ DOMAIN h = {w \in W \union {v} : Running(w)}
      /\ \A w \in DOMAIN h : h[w] = Len(w.group) /\ h[w] \in Nat
      /\ SumFunction(h) \in Nat
  BY <1>2, <1>3, LengthsFacts
<1>6. CASE Running(v)
  <2>1. v \notin DOMAIN f /\ DOMAIN h = DOMAIN f \union {v} /\ \A y \in DOMAIN f : h[y] = f[y]
    BY <1>4, <1>5, <1>6
  <2>2. SumFunction(h) = h[v] + SumFunction(f)
    BY <1>4, <1>5, <2>1, SumFunctionExtends
  <2>3. h[v] = Len(v.group) /\ h[v] \in Nat
    BY <1>5, <2>1
  <2>4. SumFunction(h) = SumFunction(f) + Len(v.group)
    BY <1>4, <2>2, <2>3
  <2> QED BY <1>1, <1>2, <1>6, <2>4
<1>7. CASE ~Running(v)
  <2>1. Lengths(W \union {v}) = Lengths(W)
    BY <1>7 DEF Lengths
  <2> QED BY <1>1, <1>4, <1>7, <2>1
<1> QED BY <1>6, <1>7

LEMMA CountStep ==
  TypeOK /\ StateInv /\ OrderInv /\ WriteInv /\ AckInv /\ CountInv /\ [Next]_vars
    /\ TypeOK' /\ WriteInv' /\ AckInv' => CountInv'
<1> SUFFICES ASSUME TypeOK, StateInv, OrderInv, WriteInv, AckInv, CountInv, [Next]_vars,
                    TypeOK', WriteInv', AckInv'
             PROVE  CountInv'
  OBVIOUS
<1> DEFINE sum == SumFunction(Lengths(writes))
<1>0. /\ IsFiniteSet(Unsettled) /\ Cardinality(Unsettled) \in Nat
      /\ writes \in SUBSET Tasks /\ IsFiniteSet(writes) /\ sum \in Nat
      /\ Len(input) \in Nat /\ Len(envelopes) \in Nat
      /\ Range(arrived) \subseteq Envelopes
      /\ \A w \in writes : w.status \in {"writing", "backoff", "ok", "err"}
                           /\ Range(w.group) \subseteq Range(arrived)
  <2>1. writes \in SUBSET Tasks /\ IsFiniteSet(writes)
    BY DEF TypeOK, Tasks, WriteInv
  <2>2. sum \in Nat
    BY <2>1, LengthsFacts
  <2>3. \A w \in writes : Range(w.group) \subseteq Range(arrived)
    BY DEF WriteInv, OrderInv
  <2> QED BY <2>1, <2>2, <2>3, UnsettledFinite, QueueFacts, InRange DEF Tasks, TypeOK
<1>1. CASE WriteStep
  <2>0. PICK w \in writes : \E u \in Tasks : WriteEffect(w, u)
    BY <1>1, WriteEffects
  <2>1. PICK v \in Tasks : WriteEffect(w, v)
    BY <2>0
  <2>2. UNCHANGED <<input, envelopes, arrived>>
    BY <1>1, WriteEffects
  <2>3. /\ Running(w) /\ v.group = w.group /\ v.status \in {"writing", "backoff", "ok", "err"}
        /\ writes' = (writes \ {w}) \union {v}
        /\ \A e \in Envelopes :
             ack'[e] = IF e \in Range(w.group) THEN AckFor(v.status) ELSE ack[e]
    BY <2>1 DEF WriteEffect, Tasks
  <2> DEFINE rest == writes \ {w}
  <2>4. rest \in SUBSET Tasks /\ IsFiniteSet(rest) /\ w \in Tasks /\ w \notin rest
        /\ writes = rest \union {w} /\ v \notin rest
    <3>1. IsFiniteSet(rest)
      BY <1>0, FS_Subset
    <3>2. v \notin rest
      <4>1. w.group # <<>> /\ w.group \in Seq(Envelopes)
        BY <1>0 DEF WriteInv, Tasks
      <4>2. PICK q \in Seq(Envelopes) : q = w.group
        BY <4>1
      <4>3. 1 \in 1..Len(q)
        BY <4>1, <4>2
      <4>4. q[1] \in Range(q)
        BY <4>3, InRange
      <4> QED BY <2>3, <4>2, <4>4 DEF WriteInv
    <3> QED BY <1>0, <3>1, <3>2
  <2>5. PICK part : part = SumFunction(Lengths(rest))
    OBVIOUS
  <2>6. part \in Nat /\ Len(w.group) \in Nat
    <3>1. part \in Nat
      BY <2>4, <2>5, LengthsFacts
    <3>2. w.group \in Seq(Envelopes)
      BY <2>4 DEF Tasks
    <3> QED BY <3>1, <3>2
  <2>7. sum = part + Len(w.group)
    <3>1. SumFunction(Lengths(rest \union {w})) = part + Len(w.group)
      BY <2>3, <2>4, <2>5, LengthsGrow
    <3> QED BY <2>4, <3>1
  <2>8. SumFunction(Lengths(writes')) = part + (IF Running(v) THEN Len(w.group) ELSE 0)
    <3>1. SumFunction(Lengths(rest \union {v})) = part + (IF Running(v) THEN Len(v.group) ELSE 0)
      BY <2>4, <2>5, LengthsGrow
    <3> QED BY <2>3, <3>1
  <2>9. \A e \in Range(w.group) : ack[e] = "open" /\ e \in Range(arrived)
    BY <1>0, <2>3 DEF WriteInv, AckFor, Running
  <2>10. CASE Running(v)
    <3>1. \A e \in Range(arrived) : ack'[e] = ack[e]
      BY <1>0, <2>3, <2>9, <2>10 DEF AckFor, Running
    <3>2. Unsettled' = Unsettled
      BY <2>2, <3>1 DEF Unsettled
    <3> QED BY <2>2, <2>7, <2>8, <2>10, <3>2 DEF CountInv
  <2>11. CASE ~Running(v)
    <3>1. AckFor(v.status) # "open"
      BY <2>3, <2>11 DEF AckFor, Running
    <3>2. Unsettled' = Unsettled \ Range(w.group) /\ Unsettled \cap Range(w.group) = Range(w.group)
      BY <1>0, <2>2, <2>3, <2>9, <3>1 DEF Unsettled
    <3>3. Cardinality(Range(w.group)) = Len(w.group)
      BY <2>4, RangeCount DEF WriteInv, Tasks
    <3>4. Cardinality(Unsettled \ Range(w.group))
            = Cardinality(Unsettled) - Cardinality(Unsettled \cap Range(w.group))
      BY <1>0, FS_Difference
    <3>5. Cardinality(Unsettled') = Cardinality(Unsettled) - Len(w.group)
      BY <3>2, <3>3, <3>4
    <3>6. SumFunction(Lengths(writes')) = part
      BY <2>6, <2>8, <2>11
    <3>7. Len(input) + Len(envelopes) + (part + Len(w.group)) = Cardinality(Unsettled)
      BY <2>7 DEF CountInv
    <3>8. Len(input) + Len(envelopes) + part = Cardinality(Unsettled) - Len(w.group)
      <4>1. PICK a \in Nat, b \in Nat, k \in Nat, c \in Nat :
              a = Len(input) /\ b = Len(envelopes) /\ k = Len(w.group) /\ c = Cardinality(Unsettled)
        BY <1>0, <2>6
      <4>2. a + b + (part + k) = c
        BY <3>7, <4>1
      <4>3. a + b + part = c - k
        BY <2>6, <4>2
      <4> QED BY <4>1, <4>3
    <3> QED BY <2>2, <3>5, <3>6, <3>8 DEF CountInv
  <2> QED BY <2>10, <2>11
<1>2. CASE Returns
  <2>1. /\ input' = <<>> /\ envelopes' = <<>> /\ writes' = {} /\ ~Alive'
    BY <1>2, ReturnsFacts, ReturnEffect
  <2>2. Unsettled' = {} /\ Cardinality({}) = 0 /\ IsFiniteSet({})
    BY <2>1, FS_EmptySet DEF AckInv, Unsettled
  <2>3. SumFunction(Lengths({})) = 0
    BY <2>2, LengthsFacts
  <2> QED BY <2>1, <2>2, <2>3 DEF CountInv
<1>3. CASE Accept
  <2>1. /\ input' = Tail(input) /\ envelopes' = <<Head(input)>> /\ input # <<>>
        /\ envelopes = <<>> /\ UNCHANGED <<writes, ack, arrived>>
    BY <1>3 DEF Accept, StateInv
  <2>2. Len(input') = Len(input) - 1 /\ Len(envelopes') = 1 /\ Len(envelopes) = 0
    BY <2>1 DEF TypeOK
  <2>3. Unsettled' = Unsettled
    BY <2>1 DEF Unsettled
  <2> QED BY <1>0, <2>1, <2>2, <2>3 DEF CountInv
<1>4. CASE Coalesce
  <2>1. /\ input' = Tail(input) /\ envelopes' = Append(envelopes, Head(input))
        /\ input # <<>> /\ UNCHANGED <<writes, ack, arrived>>
    BY <1>4 DEF Coalesce
  <2>2. Len(input') = Len(input) - 1 /\ Len(envelopes') = Len(envelopes) + 1
    BY <2>1 DEF TypeOK
  <2>3. Unsettled' = Unsettled
    BY <2>1 DEF Unsettled
  <2> QED BY <1>0, <2>1, <2>2, <2>3 DEF CountInv
<1>5. CASE Spawn
  <2> DEFINE v == [group |-> envelopes, attempt |-> 1, backoff |-> InitialBackoff,
                   status |-> "writing"]
  <2>1. /\ writes' = writes \union {v} /\ envelopes' = <<>> /\ Alive /\ state = "slot"
        /\ UNCHANGED <<ack, arrived, input>>
    BY <1>5 DEF Spawn, Alive
  <2>2. v.group = envelopes /\ Running(v)
    BY DEF Running
  <2> HIDE DEF v
  <2>3. v \in Tasks
    BY <2>1 DEF TypeOK, Tasks
  <2>4. v \notin writes
    <3>1. envelopes # <<>> /\ envelopes \in Seq(Envelopes)
      BY <2>1 DEF StateInv, TypeOK
    <3>2. envelopes[1] \in Range(envelopes)
      BY <3>1, InRange
    <3>3. envelopes[1] \notin dispatched
      BY <2>1, <3>2, Placed
    <3> QED BY <2>2, <3>2, <3>3 DEF WriteInv
  <2>5. SumFunction(Lengths(writes')) = sum + Len(envelopes)
    BY <1>0, <2>1, <2>2, <2>3, <2>4, LengthsGrow
  <2>6. Unsettled' = Unsettled /\ Len(envelopes') = 0
    BY <2>1 DEF Unsettled
  <2> QED BY <1>0, <2>1, <2>5, <2>6 DEF CountInv
<1>6. CASE Quiet
  <2>1. UNCHANGED <<input, envelopes, ack, arrived>>
    BY <1>6, QuietFacts
  <2>2. {w \in writes' : Running(w)} = {w \in writes : Running(w)}
    BY <1>6, QuietFacts DEF Running
  <2>3. Lengths(writes') = Lengths(writes)
    BY <2>2 DEF Lengths
  <2>4. Unsettled' = Unsettled
    BY <2>1 DEF Unsettled
  <2> QED BY <2>1, <2>3, <2>4 DEF CountInv
<1>7. ASSUME NEW e \in Envelopes, Arrive(e) PROVE CountInv'
  <2>1. /\ input' = Append(input, e) /\ arrived' = Append(arrived, e)
        /\ e \notin Range(arrived)
        /\ UNCHANGED <<envelopes, writes, ack>>
    BY <1>7 DEF Arrive
  <2>2. Len(input') = Len(input) + 1
    BY <2>1 DEF TypeOK
  <2>3. ack[e] = "open"
    BY <2>1 DEF AckInv, TypeOK
  <2>4. \A x : x \in Range(arrived') <=> x \in Range(arrived) \/ x = e
    <3>1. arrived \in Seq(Envelopes) /\ Len(arrived) \in Nat
      BY QueueFacts DEF TypeOK
    <3>2. arrived' \in Seq(Envelopes) /\ Len(arrived') = Len(arrived) + 1
          /\ arrived'[Len(arrived) + 1] = e
          /\ \A i \in 1..Len(arrived) : arrived'[i] = arrived[i]
      BY <2>1, <3>1
    <3>3. \A i \in 1..(Len(arrived) + 1) : i \in 1..Len(arrived) \/ i = Len(arrived) + 1
      BY <3>1
    <3>4. 1..Len(arrived) \subseteq 1..(Len(arrived) + 1)
          /\ Len(arrived) + 1 \in 1..(Len(arrived) + 1)
      BY <3>1
    <3>5. \A x : x \in Range(arrived') <=> \E i \in 1..(Len(arrived) + 1) : x = arrived'[i]
      BY <3>2, InRange
    <3> QED BY <3>2, <3>3, <3>4, <3>5, QueueFacts
  <2>5. Unsettled' = Unsettled \union {e} /\ e \notin Unsettled
    BY <2>1, <2>3, <2>4 DEF Unsettled
  <2>6. Cardinality(Unsettled') = Cardinality(Unsettled) + 1
    BY <1>0, <2>5, FS_AddElement
  <2> QED BY <1>0, <2>1, <2>2, <2>6 DEF CountInv
<1> QED BY <1>1, <1>2, <1>3, <1>4, <1>5, <1>6, <1>7, Steps

----------------------------------------------------------------------------
(* The theorems *)

LEMMA InitSink == Init => SinkInv
<1> SUFFICES ASSUME Init PROVE SinkInv
  OBVIOUS
<1>0. /\ max_concurrent_writes \in ConcurrentWrites /\ state = "accept" /\ input = <<>>
      /\ envelopes = <<>> /\ writes = {} /\ failed = FALSE /\ arrived = <<>>
      /\ dispatched = {} /\ stored = {} /\ ack = [e \in Envelopes |-> "open"]
  BY DEF Init
<1>1. TypeOK
  BY InitType
<1>2. Len(<<>>) = 0 /\ Range(<<>>) = {}
  BY DEF Range
<1>3. OrderInv
  BY <1>0, <1>2 DEF OrderInv, Passed
<1>4. StateInv
  BY <1>0 DEF StateInv, Alive
<1>5. IsFiniteSet({}) /\ Cardinality({}) = 0
  BY FS_EmptySet
<1>6. max_concurrent_writes \in Nat
  BY <1>0, Settings
<1>7. WriteInv
  BY <1>0, <1>5, <1>6 DEF WriteInv
<1>8. AckInv
  BY <1>0, <1>2 DEF AckInv, Alive
<1>9. GroupInv
  BY <1>0, <1>2 DEF GroupInv, Within
<1>10. CleanExit /\ SerialInv
  BY <1>0 DEF CleanExit, SerialInv
<1>11. SequentialOrder
  BY <1>0, <1>2 DEF SequentialOrder
<1>12. CountInv
  <2>1. SumFunction(Lengths({})) = 0
    BY <1>5, LengthsFacts
  <2>2. Unsettled = {}
    BY <1>0, <1>2 DEF Unsettled
  <2> QED BY <1>0, <1>2, <1>5, <2>1, <2>2 DEF CountInv
<1> QED BY <1>1, <1>3, <1>4, <1>7, <1>8, <1>9, <1>10, <1>11, <1>12 DEF SinkInv

\* Whatever the destination answers and whenever run is told to stop (run,
\* write_with_retry), the channel, the group, the tasks and the
\* acknowledgements agree as SinkInv says.
THEOREM SinkInvariant == Spec => []SinkInv
<1>1. SinkInv /\ [Next]_vars => SinkInv'
  <2> SUFFICES ASSUME SinkInv, [Next]_vars PROVE SinkInv'
    OBVIOUS
  <2>0. /\ TypeOK /\ OrderInv /\ StateInv /\ WriteInv /\ AckInv /\ GroupInv
        /\ CleanExit /\ SerialInv /\ SequentialOrder /\ CountInv
    BY DEF SinkInv
  <2>1. TypeOK' /\ OrderInv' /\ StateInv' /\ WriteInv' /\ AckInv' /\ GroupInv'
    BY <2>0, TypeStep, OrderStep, StateStep, WriteInvStep, AckStep, GroupStep
  <2>2. CleanExit' /\ SerialInv'
    BY <2>0, CleanStep, SerialStep
  <2>3. SequentialOrder'
    BY <2>0, <2>1, SequentialStep
  <2>4. CountInv'
    BY <2>0, <2>1, CountStep
  <2> QED BY <2>1, <2>2, <2>3, <2>4 DEF SinkInv
<1> QED BY <1>1, InitSink, PTL DEF Spec

\* The sink's half of at-least-once (write task of run): a batch that is
\* acknowledged as delivered is in the destination.
THEOREM SinkDeliversWhatItStored == Spec => []DeliveredIsStored
<1>1. SinkInv => DeliveredIsStored
  BY DEF SinkInv, AckInv, DeliveredIsStored
<1> QED BY <1>1, SinkInvariant, PTL

\* No envelope is lost or held twice by the channel, the group and the write
\* tasks (run).
THEOREM SinkConserves == Spec => []EnvelopesConserved
<1>1. SinkInv => EnvelopesConserved
  <2> SUFFICES ASSUME SinkInv PROVE EnvelopesConserved
    OBVIOUS
  <2>0. /\ TypeOK /\ OrderInv /\ StateInv /\ WriteInv /\ AckInv /\ CountInv
        /\ Range(arrived) \subseteq Envelopes /\ dispatched \subseteq Range(arrived)
    BY InRange DEF SinkInv, TypeOK, OrderInv
  <2> DEFINE Held == Range(input) \union Range(envelopes)
                       \union UNION {Range(w.group) : w \in {v \in writes : Running(v)}}
  <2>1. \A w \in writes : \A e \in Range(w.group) :
          e \in dispatched /\ (ack[e] = "open" <=> Running(w))
    BY <2>0 DEF WriteInv, AckFor, Running, TypeOK
  <2>2. CASE Alive
    <3>1. \A e \in Range(input) \union Range(envelopes) : e \in Range(arrived) /\ ack[e] = "open"
      BY <2>0, <2>2, Placed DEF AckInv
    <3>2. Held \subseteq Unsettled
      BY <2>0, <2>1, <3>1 DEF Unsettled
    <3>3. ASSUME NEW e \in Unsettled PROVE e \in Held
      <4>1. CASE e \in dispatched
        <5>1. PICK w \in writes : e \in Range(w.group)
          BY <2>0, <4>1 DEF AckInv, Unsettled
        <5> QED BY <2>1, <5>1 DEF Unsettled
      <4>2. CASE e \notin dispatched
        BY <2>0, <2>2, <4>2, Placed DEF Unsettled
      <4> QED BY <4>1, <4>2
    <3> QED BY <3>2, <3>3, <2>0 DEF EnvelopesConserved, Unsettled, CountInv, Lengths
  <2>3. CASE ~Alive
    <3>1. input = <<>> /\ envelopes = <<>> /\ writes = {}
      BY <2>0, <2>3 DEF StateInv, Alive
    <3>2. Range(<<>>) = {}
      BY DEF Range
    <3>3. Held = {} /\ Unsettled = {}
      BY <2>0, <2>3, <3>1, <3>2 DEF AckInv, Unsettled
    <3> QED BY <3>3, <2>0 DEF EnvelopesConserved, Unsettled, CountInv, Lengths
  <2> QED BY <2>2, <2>3
<1> QED BY <1>1, SinkInvariant, PTL

\* Groups, tasks and retries stay within the settings, for any settings that
\* pass Config::validate (coalescing loop, slot loop, write_with_retry).
THEOREM SinkStaysWithinSettings == Spec => []Bounded
<1>1. SinkInv => Bounded
  BY DEF SinkInv, WriteInv, GroupInv, Within, Bounded
<1> QED BY <1>1, SinkInvariant, PTL

\* When run returns Ok, what was dispatched was delivered and nothing else was
\* (drain).
THEOREM CleanExitHidesNothing == Spec => []CleanExit
<1>1. SinkInv => CleanExit
  BY DEF SinkInv
<1> QED BY <1>1, SinkInvariant, PTL

\* max_concurrent_writes = 1 keeps the order of the channel (slot loop).
THEOREM OneWriteKeepsOrder == Spec => []SequentialOrder
<1>1. SinkInv => SequentialOrder
  BY DEF SinkInv
<1> QED BY <1>1, SinkInvariant, PTL

=============================================================================
