-------------------------- MODULE KafkaSinkProofs --------------------------
(***************************************************************************)
(* Proofs about KafkaSink, for any number of writes, records and errors.   *)
(***************************************************************************)
EXTENDS KafkaSink, TLAPS

USE KafkaSinkAssumption

\* Initially every tracker counts all the records of its write.
LEMMA InitInv == Init => SinkInv
BY DEF Init, SinkInv, TypeOK, CountExact, Unsettled, WriterInv, ErrorInv, Idle,
       OkMeansWritten, FirstErrorReported, NothingOutstanding

\* A count of zero means what it says: no record is on its way.
LEMMA AllSettled ==
  ASSUME SinkInv, NEW w \in Writes, remaining[w] = 0
  PROVE  /\ inflight[w] = 0
         /\ ~(poll.write = w /\ poll.at \in {"swap", "store", "sub"})
<1>1. /\ Total(w) \in Nat /\ enqueued[w] \in Nat /\ inflight[w] \in Nat
      /\ enqueued[w] <= Total(w) /\ Unsettled(w) = 0
  BY DEF SinkInv, TypeOK, WriterInv, CountExact
<1> QED BY <1>1 DEF Unsettled

\* The early return for an empty group, or the first poll of the write.
LEMMA StartStep == ASSUME SinkInv, NEW w \in Writes, Start(w) PROVE SinkInv'
<1>0. /\ at[w] = "start" /\ result[w] = "none" /\ ~enqueue_error[w]
      /\ enqueued[w] = 0 /\ remaining[w] = Unsettled(w)
      /\ UNCHANGED <<enqueued, expired, enqueue_error, remaining, failed, error, notify,
                     done, poll, inflight, acked, first>>
      /\ acked[w] = 0 /\ inflight[w] = 0
  BY DEF SinkInv, WriterInv, ErrorInv, CountExact, TypeOK, Start, tracker
<1>a. \/ /\ Total(w) = 0 /\ at' = [at EXCEPT ![w] = "returned"]
         /\ result' = [result EXCEPT ![w] = "ok"]
      \/ Total(w) # 0 /\ at' = [at EXCEPT ![w] = "send"] /\ UNCHANGED result
  BY DEF Start, Returns, Goto
<1>1. TypeOK'
  <2>1. at' \in [Writes -> {"start", "send", "backoff", "sub", "notify", "await",
                            "returned"}]
    BY <1>a DEF SinkInv, TypeOK
  <2>2. result' \in [Writes -> Errors \union {"none", "ok", "enqueue", "aborted"}]
    BY <1>a DEF SinkInv, TypeOK
  <2> QED BY <1>0, <2>1, <2>2 DEF SinkInv, TypeOK
<1>2. CountExact'
  BY <1>0, <1>a DEF SinkInv, TypeOK, CountExact, Unsettled
<1>3. WriterInv'
  BY <1>0, <1>a DEF SinkInv, TypeOK, WriterInv
<1>4. ErrorInv'
  BY <1>0, <1>a DEF SinkInv, TypeOK, ErrorInv
<1>5. OkMeansWritten' /\ FirstErrorReported' /\ NothingOutstanding'
  <2>1. \A v \in Writes : v # w => at'[v] = at[v] /\ result'[v] = result[v]
    BY <1>a DEF SinkInv, TypeOK
  <2>2. result'[w] = "none" \/ (result'[w] = "ok" /\ Total(w) = 0)
    BY <1>0, <1>a DEF SinkInv, TypeOK
  <2> QED
    BY <1>0, <2>1, <2>2
    DEF SinkInv, OkMeansWritten, FirstErrorReported, NothingOutstanding
<1> QED BY <1>1, <1>2, <1>3, <1>4, <1>5 DEF SinkInv

\* The enqueue deadline passes.
LEMMA ExpireStep ==
  ASSUME SinkInv, NEW w \in Writes, Expire(w)
  PROVE  SinkInv'
<1>1. TypeOK'
  BY DEF SinkInv, TypeOK, Expire, tracker
<1>2. CountExact'
  BY DEF SinkInv, TypeOK, CountExact, Unsettled, Expire, tracker
<1>3. WriterInv'
  BY DEF SinkInv, TypeOK, WriterInv, Expire, tracker
<1>4. ErrorInv'
  BY DEF SinkInv, TypeOK, ErrorInv, Expire, tracker
<1>5. OkMeansWritten'
  BY DEF SinkInv, TypeOK, OkMeansWritten, Expire, tracker
<1>6. FirstErrorReported'
  BY DEF SinkInv, TypeOK, FirstErrorReported, Expire, tracker
<1>7. NothingOutstanding'
  BY DEF SinkInv, TypeOK, NothingOutstanding, Expire, tracker
<1> QED BY <1>1, <1>2, <1>3, <1>4, <1>5, <1>6, <1>7 DEF SinkInv

\* A record moves from the writer's share to the producer's.
LEMMA SendStep ==
  ASSUME SinkInv, NEW w \in Writes, Send(w)
  PROVE  SinkInv'
<1>1. TypeOK'
  BY DEF SinkInv, TypeOK, Send, tracker
<1>2. CountExact'
  BY DEF SinkInv, TypeOK, CountExact, WriterInv, Unsettled, Send, tracker
<1>3. WriterInv'
  BY DEF SinkInv, TypeOK, WriterInv, Send, tracker
<1>4. ErrorInv'
  BY DEF SinkInv, TypeOK, ErrorInv, Send, tracker
<1>5. OkMeansWritten'
  BY DEF SinkInv, TypeOK, OkMeansWritten, Send, tracker
<1>6. FirstErrorReported'
  BY DEF SinkInv, TypeOK, FirstErrorReported, Send, tracker
<1>7. NothingOutstanding'
  BY DEF SinkInv, TypeOK, WriterInv, NothingOutstanding, Send, tracker
<1> QED BY <1>1, <1>2, <1>3, <1>4, <1>5, <1>6, <1>7 DEF SinkInv

\* The write sleeps on a full queue.
LEMMA QueueFullStep ==
  ASSUME SinkInv, NEW w \in Writes, QueueFull(w)
  PROVE  SinkInv'
<1>1. TypeOK'
  BY DEF SinkInv, TypeOK, QueueFull, Goto, tracker
<1>2. CountExact'
  BY DEF SinkInv, TypeOK, CountExact, Unsettled, QueueFull, Goto, tracker
<1>3. WriterInv'
  BY DEF SinkInv, TypeOK, WriterInv, QueueFull, Goto, tracker
<1>4. ErrorInv'
  BY DEF SinkInv, TypeOK, ErrorInv, QueueFull, Goto, tracker
<1>5. OkMeansWritten'
  BY DEF SinkInv, TypeOK, OkMeansWritten, QueueFull, Goto, tracker
<1>6. FirstErrorReported'
  BY DEF SinkInv, TypeOK, FirstErrorReported, QueueFull, Goto, tracker
<1>7. NothingOutstanding'
  BY DEF SinkInv, TypeOK, NothingOutstanding, QueueFull, Goto, tracker
<1> QED BY <1>1, <1>2, <1>3, <1>4, <1>5, <1>6, <1>7 DEF SinkInv

\* The write offers its record again.
LEMMA BackoffOverStep ==
  ASSUME SinkInv, NEW w \in Writes, BackoffOver(w)
  PROVE  SinkInv'
<1>1. TypeOK'
  BY DEF SinkInv, TypeOK, BackoffOver, Goto, tracker
<1>2. CountExact'
  BY DEF SinkInv, TypeOK, CountExact, Unsettled, BackoffOver, Goto, tracker
<1>3. WriterInv'
  BY DEF SinkInv, TypeOK, WriterInv, BackoffOver, Goto, tracker
<1>4. ErrorInv'
  BY DEF SinkInv, TypeOK, ErrorInv, BackoffOver, Goto, tracker
<1>5. OkMeansWritten'
  BY DEF SinkInv, TypeOK, OkMeansWritten, BackoffOver, Goto, tracker
<1>6. FirstErrorReported'
  BY DEF SinkInv, TypeOK, FirstErrorReported, BackoffOver, Goto, tracker
<1>7. NothingOutstanding'
  BY DEF SinkInv, TypeOK, NothingOutstanding, BackoffOver, Goto, tracker
<1> QED BY <1>1, <1>2, <1>3, <1>4, <1>5, <1>6, <1>7 DEF SinkInv

\* The write gives up on a full queue; the rest is its own to settle.
LEMMA EnqueueExpiresStep ==
  ASSUME SinkInv, NEW w \in Writes, EnqueueExpires(w)
  PROVE  SinkInv'
<1>1. TypeOK'
  BY DEF SinkInv, TypeOK, EnqueueExpires, Abandon, Goto, tracker
<1>2. CountExact'
  BY DEF SinkInv, TypeOK, CountExact, WriterInv, Unsettled, EnqueueExpires,
         Abandon, Goto, tracker
<1>3. WriterInv'
  BY DEF SinkInv, TypeOK, WriterInv, EnqueueExpires, Abandon, Goto, tracker
<1>4. ErrorInv'
  BY DEF SinkInv, TypeOK, ErrorInv, EnqueueExpires, Abandon, Goto, tracker
<1>5. OkMeansWritten'
  BY DEF SinkInv, TypeOK, OkMeansWritten, EnqueueExpires, Abandon, Goto, tracker
<1>6. FirstErrorReported'
  BY DEF SinkInv, TypeOK, FirstErrorReported, EnqueueExpires, Abandon, Goto, tracker
<1>7. NothingOutstanding'
  BY DEF SinkInv, TypeOK, NothingOutstanding, EnqueueExpires, Abandon, Goto, tracker
<1> QED BY <1>1, <1>2, <1>3, <1>4, <1>5, <1>6, <1>7 DEF SinkInv

\* The producer refuses a record; the rest is the writer's to settle.
LEMMA RefusedStep ==
  ASSUME SinkInv, NEW w \in Writes, Refused(w)
  PROVE  SinkInv'
<1>1. TypeOK'
  BY DEF SinkInv, TypeOK, Refused, Abandon, Goto, tracker
<1>2. CountExact'
  BY DEF SinkInv, TypeOK, CountExact, WriterInv, Unsettled, Refused, Abandon, Goto,
         tracker
<1>3. WriterInv'
  BY DEF SinkInv, TypeOK, WriterInv, Refused, Abandon, Goto, tracker
<1>4. ErrorInv'
  BY DEF SinkInv, TypeOK, ErrorInv, Refused, Abandon, Goto, tracker
<1>5. OkMeansWritten'
  BY DEF SinkInv, TypeOK, OkMeansWritten, Refused, Abandon, Goto, tracker
<1>6. FirstErrorReported'
  BY DEF SinkInv, TypeOK, FirstErrorReported, Refused, Abandon, Goto, tracker
<1>7. NothingOutstanding'
  BY DEF SinkInv, TypeOK, NothingOutstanding, Refused, Abandon, Goto, tracker
<1> QED BY <1>1, <1>2, <1>3, <1>4, <1>5, <1>6, <1>7 DEF SinkInv

\* The producer has accepted every record.
LEMMA EnqueuedStep ==
  ASSUME SinkInv, NEW w \in Writes, Enqueued(w)
  PROVE  SinkInv'
<1>1. TypeOK'
  BY DEF SinkInv, TypeOK, Enqueued, Goto, tracker
<1>2. CountExact'
  BY DEF SinkInv, TypeOK, CountExact, WriterInv, Unsettled, Enqueued, Goto, tracker
<1>3. WriterInv'
  BY DEF SinkInv, TypeOK, WriterInv, Enqueued, Goto, tracker
<1>4. ErrorInv'
  BY DEF SinkInv, TypeOK, ErrorInv, Enqueued, Goto, tracker
<1>5. OkMeansWritten'
  BY DEF SinkInv, TypeOK, OkMeansWritten, Enqueued, Goto, tracker
<1>6. FirstErrorReported'
  BY DEF SinkInv, TypeOK, FirstErrorReported, Enqueued, Goto, tracker
<1>7. NothingOutstanding'
  BY DEF SinkInv, TypeOK, NothingOutstanding, Enqueued, Goto, tracker
<1> QED BY <1>1, <1>2, <1>3, <1>4, <1>5, <1>6, <1>7 DEF SinkInv

\* The writer settles what it never offered: the count stays exact.
LEMMA WriterSubtractsStep == ASSUME SinkInv, NEW w \in Writes, WriterSubtracts(w) PROVE SinkInv'
<1> DEFINE n == Total(w) - enqueued[w]
<1>0. /\ n \in Nat \ {0} /\ at[w] = "sub" /\ enqueue_error[w]
      /\ remaining[w] = n + inflight[w]
           + (IF poll.at \in {"swap", "store", "sub"} /\ poll.write = w THEN 1 ELSE 0)
      /\ inflight[w] \in Nat
  BY DEF SinkInv, TypeOK, CountExact, Unsettled, WriterInv, WriterSubtracts
<1>a. /\ remaining' = [remaining EXCEPT ![w] = @ - n]
      /\ remaining[w] - n \in Nat
      /\ \/ remaining[w] = n /\ at' = [at EXCEPT ![w] = "notify"]
         \/ remaining[w] # n /\ at' = [at EXCEPT ![w] = "await"]
      /\ UNCHANGED <<enqueued, expired, enqueue_error, failed, error, notify, done,
                     result, poll, inflight, acked, first>>
  <2>1. remaining[w] - n \in Nat
    BY <1>0
  <2>2. CASE remaining[w] = n
    BY <2>1, <2>2, Zenon DEF WriterSubtracts, Unoffered, Goto
  <2>3. CASE remaining[w] # n
    BY <2>1, <2>3, Zenon DEF WriterSubtracts, Unoffered, Goto
  <2> QED BY <2>2, <2>3
<1>b. done[w] => remaining[w] = 0
  BY DEF SinkInv, CountExact
<1> HIDE DEF n
<1>1. TypeOK'
  BY <1>0, <1>a DEF SinkInv, TypeOK
<1>2. CountExact'
  <2>1. \A v \in Writes : v # w => Unsettled(v)' = Unsettled(v)
    BY <1>a DEF SinkInv, TypeOK, Unsettled
  <2>2. remaining'[w] = Unsettled(w)'
    BY <1>0, <1>a DEF SinkInv, TypeOK, Unsettled
  <2>3. \A v \in Writes : v # w => remaining'[v] = remaining[v] /\ at'[v] = at[v]
    BY <1>a DEF SinkInv, TypeOK
  <2>4. remaining'[w] = remaining[w] - n /\ (at'[w] = "notify" => remaining[w] = n)
    BY <1>a DEF SinkInv, TypeOK
  <2>5. ~done[w] /\ ~(poll.at = "notify" /\ poll.write = w)
    BY <1>0 DEF SinkInv, CountExact
  <2> SUFFICES ASSUME NEW v \in Writes
               PROVE  /\ remaining'[v] = Unsettled(v)'
                      /\ done'[v] <=> ~notify'[v]
                      /\ done'[v] \/ at'[v] = "notify" => remaining'[v] = 0
                      /\ poll'.at = "notify" => remaining'[poll'.write] = 0
    BY DEF CountExact
  <2>6. /\ remaining[v] = Unsettled(v) /\ (done[v] <=> ~notify[v])
        /\ done[v] \/ at[v] = "notify" => remaining[v] = 0
        /\ poll.at = "notify" => remaining[poll.write] = 0 /\ poll.write \in Writes
    BY DEF SinkInv, TypeOK, CountExact
  <2>7. CASE v = w
    <3>1. remaining[w] \in Nat
      BY DEF SinkInv, TypeOK
    <3>2. at'[v] = "notify" => remaining'[v] = 0
      BY <1>0, <2>4, <2>7, <3>1
    <3>3. poll'.at = "notify" => remaining'[poll'.write] = 0
      BY <1>a, <2>3, <2>5, <2>6
    <3>4. ~done'[v] /\ notify'[v]
      BY <1>a, <2>5, <2>6, <2>7
    <3> QED BY <2>2, <2>7, <3>2, <3>3, <3>4
  <2>8. CASE v # w
    BY <1>a, <2>1, <2>3, <2>5, <2>6, <2>8
  <2> QED BY <2>7, <2>8
<1>3. WriterInv'
  <2>1. /\ at'[w] \in {"notify", "await"}
        /\ \A v \in Writes : v # w => at'[v] = at[v]
    BY <1>a DEF SinkInv, TypeOK
  <2> QED BY <1>0, <1>a, <2>1 DEF SinkInv, WriterInv
<1>4. ErrorInv'
  BY <1>0, <1>a, ZenonT(40) DEF SinkInv, TypeOK, ErrorInv
<1>5. OkMeansWritten' /\ FirstErrorReported' /\ NothingOutstanding'
  BY <1>0, <1>a, ZenonT(40) DEF SinkInv, TypeOK, OkMeansWritten, FirstErrorReported, NothingOutstanding
<1> QED BY <1>1, <1>2, <1>3, <1>4, <1>5 DEF SinkInv

\* The writer settled the last record: no report is left that could carry an error.
LEMMA WriterNotifiesStep ==
  ASSUME SinkInv, NEW w \in Writes, WriterNotifies(w)
  PROVE  SinkInv'
<1>0. remaining[w] = 0
  BY DEF SinkInv, CountExact, WriterNotifies
<1>a. first[w] # None => error[w] = first[w]
  BY <1>0, AllSettled DEF SinkInv, TypeOK, ErrorInv, WriterNotifies
<1>1. TypeOK'
  BY DEF SinkInv, TypeOK, WriterNotifies, TakeNotify, Goto
<1>2. CountExact'
  BY DEF SinkInv, TypeOK, CountExact, WriterInv, Unsettled, WriterNotifies,
         TakeNotify, Goto
<1>3. WriterInv'
  BY DEF SinkInv, TypeOK, WriterInv, WriterNotifies, TakeNotify, Goto
<1>4. ErrorInv'
  BY DEF SinkInv, TypeOK, ErrorInv, WriterNotifies, TakeNotify, Goto
<1>5. OkMeansWritten'
  BY DEF SinkInv, TypeOK, OkMeansWritten, WriterNotifies, TakeNotify, Goto
<1>6. FirstErrorReported'
  BY <1>a DEF SinkInv, TypeOK, FirstErrorReported, WriterNotifies, TakeNotify, Goto
<1>7. NothingOutstanding'
  BY DEF SinkInv, TypeOK, NothingOutstanding, WriterNotifies, TakeNotify, Goto
<1> QED BY <1>1, <1>2, <1>3, <1>4, <1>5, <1>6, <1>7 DEF SinkInv

\* The write wakes: nothing is unsettled, so the tracker's error is the whole truth.
LEMMA WakeStep ==
  ASSUME SinkInv, NEW w \in Writes, Wake(w)
  PROVE  SinkInv'
<1>0. /\ remaining[w] = 0 /\ at[w] = "await" /\ done[w] /\ result[w] = "none"
      /\ ~enqueue_error[w] => enqueued[w] = Total(w)
  BY DEF SinkInv, TypeOK, CountExact, WriterInv, Wake
<1>a. inflight[w] = 0
  BY <1>0, AllSettled
<1>b. first[w] = error[w]
  BY <1>0 DEF SinkInv, ErrorInv, FirstErrorReported
<1>c. ~enqueue_error[w] /\ error[w] = None => acked[w] = Total(w)
  BY <1>0, <1>a, <1>b DEF SinkInv, TypeOK, ErrorInv
<1>d. /\ at' = [at EXCEPT ![w] = "returned"]
      /\ result' = [result EXCEPT ![w] = Outcome(w)]
      /\ Outcome(w) \in Errors \union {"ok", "enqueue"}
      /\ Outcome(w) = "ok" => acked[w] = Total(w)
      /\ Outcome(w) \in Errors => Outcome(w) = first[w]
  BY <1>0, <1>b, <1>c DEF SinkInv, TypeOK, Wake, Returns, Goto, Outcome
<1>1. TypeOK'
  BY <1>0, <1>d DEF SinkInv, TypeOK, Wake
<1>2. CountExact'
  BY <1>0, <1>d DEF SinkInv, TypeOK, CountExact, WriterInv, Unsettled, Wake
<1>3. WriterInv'
  BY <1>0, <1>d DEF SinkInv, TypeOK, WriterInv, Wake
<1>4. ErrorInv'
  BY <1>0, <1>d DEF SinkInv, TypeOK, ErrorInv, Wake
<1>5. OkMeansWritten'
  BY <1>0, <1>d DEF SinkInv, TypeOK, OkMeansWritten, Wake
<1>6. FirstErrorReported'
  BY <1>0, <1>d DEF SinkInv, TypeOK, FirstErrorReported, Wake
<1>7. NothingOutstanding'
  BY <1>0, <1>a, <1>d DEF SinkInv, TypeOK, NothingOutstanding, Wake
<1> QED BY <1>1, <1>2, <1>3, <1>4, <1>5, <1>6, <1>7 DEF SinkInv

\* The future is dropped; the tracker lives on in the records.
LEMMA AbortStep ==
  ASSUME SinkInv, NEW w \in Writes, Abort(w)
  PROVE  SinkInv'
<1>1. TypeOK'
  BY DEF SinkInv, TypeOK, Abort, Returns, Goto, tracker
<1>2. CountExact'
  BY DEF SinkInv, TypeOK, CountExact, Unsettled, Abort, Returns, Goto, tracker
<1>3. WriterInv'
  BY DEF SinkInv, TypeOK, WriterInv, Abort, Returns, Goto, tracker
<1>4. ErrorInv'
  BY DEF SinkInv, TypeOK, ErrorInv, Abort, Returns, Goto, tracker
<1>5. OkMeansWritten'
  BY DEF SinkInv, TypeOK, OkMeansWritten, Abort, Returns, Goto, tracker
<1>6. FirstErrorReported'
  BY DEF SinkInv, TypeOK, FirstErrorReported, Abort, Returns, Goto, tracker
<1>7. NothingOutstanding'
  BY DEF SinkInv, TypeOK, NothingOutstanding, Abort, Returns, Goto, tracker
<1> QED BY <1>1, <1>2, <1>3, <1>4, <1>5, <1>6, <1>7 DEF SinkInv

\* A report moves a record from the producer to the polling thread.
LEMMA ReportStep ==
  ASSUME SinkInv, NEW w \in Writes, NEW e \in Errors \union {None}, Report(w, e)
  PROVE  SinkInv'
<1>0. ~done[w] /\ inflight[w] > 0
  BY AllSettled DEF SinkInv, TypeOK, CountExact, Report
<1>1. TypeOK'
  BY DEF SinkInv, TypeOK, Report, Polling, At, writer, tracker
<1>2. CountExact'
  BY DEF SinkInv, TypeOK, CountExact, Unsettled, Report, Polling, At, writer,
         tracker
<1>3. WriterInv'
  BY DEF SinkInv, TypeOK, WriterInv, Report, Polling, At, writer, tracker
<1>4. ErrorInv'
  BY DEF SinkInv, TypeOK, ErrorInv, Report, Polling, At, writer, tracker
<1>5. OkMeansWritten'
  BY DEF SinkInv, TypeOK, OkMeansWritten, NothingOutstanding, Report, Polling, At,
         writer, tracker
<1>6. FirstErrorReported'
  BY <1>0 DEF SinkInv, TypeOK, FirstErrorReported, NothingOutstanding, Report, writer,
              tracker
<1>7. NothingOutstanding'
  BY DEF SinkInv, TypeOK, NothingOutstanding, Report, Polling, At, writer, tracker
<1> QED BY <1>1, <1>2, <1>3, <1>4, <1>5, <1>6, <1>7 DEF SinkInv

\* The first report with an error claims the right to store it.
LEMMA SwapStep ==
  ASSUME SinkInv, Swap
  PROVE  SinkInv'
<1>1. TypeOK'
  BY DEF SinkInv, TypeOK, Swap, NotFailedYet, Polling, At, writer
<1>2. CountExact'
  BY DEF SinkInv, TypeOK, CountExact, Unsettled, Swap, NotFailedYet, Polling, At,
         writer
<1>3. WriterInv'
  BY DEF SinkInv, TypeOK, WriterInv, Swap, NotFailedYet, Polling, At, writer
<1>4. ErrorInv'
  BY DEF SinkInv, TypeOK, ErrorInv, Swap, NotFailedYet, Polling, At, writer
<1>5. OkMeansWritten'
  BY DEF SinkInv, TypeOK, OkMeansWritten, Swap, NotFailedYet, Polling, At, writer
<1>6. FirstErrorReported'
  BY DEF SinkInv, TypeOK, CountExact, FirstErrorReported, Unsettled, Swap,
         NotFailedYet, Polling, At, writer
<1>7. NothingOutstanding'
  BY DEF SinkInv, TypeOK, NothingOutstanding, Swap, NotFailedYet, Polling, At,
         writer
<1> QED BY <1>1, <1>2, <1>3, <1>4, <1>5, <1>6, <1>7 DEF SinkInv

\* The error is stored while its record still counts as unsettled.
LEMMA StoreStep ==
  ASSUME SinkInv, Store
  PROVE  SinkInv'
<1>0. poll.write \in Writes /\ ~done[poll.write]
  BY AllSettled DEF SinkInv, TypeOK, CountExact, Store, At
<1>1. TypeOK'
  BY DEF SinkInv, TypeOK, Store, Polling, At, writer
<1>2. CountExact'
  BY DEF SinkInv, TypeOK, CountExact, Unsettled, Store, Polling, At, writer
<1>3. WriterInv'
  BY DEF SinkInv, TypeOK, WriterInv, Store, Polling, At, writer
<1>4. ErrorInv'
  BY DEF SinkInv, TypeOK, ErrorInv, Store, Polling, At, writer
<1>5. OkMeansWritten'
  BY DEF SinkInv, TypeOK, OkMeansWritten, Store, Polling, At, writer
<1>6. FirstErrorReported'
  BY <1>0 DEF SinkInv, TypeOK, FirstErrorReported, Store, writer
<1>7. NothingOutstanding'
  BY DEF SinkInv, TypeOK, NothingOutstanding, Store, Polling, At, writer
<1> QED BY <1>1, <1>2, <1>3, <1>4, <1>5, <1>6, <1>7 DEF SinkInv

\* The polling thread counts the record.
LEMMA SubtractStep ==
  ASSUME SinkInv, Subtract
  PROVE  SinkInv'
<1> PICK w \in Writes : w = poll.write
  BY DEF SinkInv, TypeOK, Subtract, At
<1>0. remaining[w] \in Nat \ {0} /\ poll.at = "sub" /\ poll.write = w
  BY AllSettled DEF SinkInv, TypeOK, Subtract, At
<1>a. remaining' = [remaining EXCEPT ![w] = @ - 1]
  BY <1>0 DEF Subtract
<1>b. \/ remaining[w] = 1 /\ poll' = [at |-> "notify", write |-> w, error |-> poll.error]
      \/ remaining[w] # 1 /\ poll' = [at |-> "idle", write |-> None, error |-> None]
  BY <1>0 DEF Subtract, WasLast, Polling, Idle
<1>1. TypeOK'
  BY <1>0, <1>a, <1>b, SMTT(30) DEF SinkInv, TypeOK, Subtract, writer
<1>2. CountExact'
  <2>1. /\ remaining'[w] = remaining[w] - 1
        /\ \A v \in Writes : v # w => remaining'[v] = remaining[v]
    BY <1>0, <1>a DEF SinkInv, TypeOK
  <2>2. Unsettled(w)' = Unsettled(w) - 1
    BY <1>0, <1>b DEF SinkInv, TypeOK, Unsettled, Subtract, writer
  <2>3. \A v \in Writes : v # w => Unsettled(v)' = Unsettled(v)
    BY <1>0, <1>b DEF SinkInv, TypeOK, Unsettled, Subtract, writer
  <2>4. ~done[w] /\ at[w] # "notify"
    BY <1>0 DEF SinkInv, CountExact
  <2>5. poll'.at = "notify" => poll'.write = w /\ remaining[w] = 1
    BY <1>b
  <2> QED BY <1>0, <2>1, <2>2, <2>3, <2>4, <2>5 DEF SinkInv, CountExact, Subtract, writer
<1>3. WriterInv'
  BY DEF SinkInv, TypeOK, WriterInv, Subtract, WasLast, Idle, Polling, At, writer
<1>4. ErrorInv'
  BY DEF SinkInv, TypeOK, ErrorInv, Subtract, WasLast, Idle, Polling, At, writer
<1>5. OkMeansWritten'
  BY DEF SinkInv, TypeOK, OkMeansWritten, Subtract, WasLast, Idle, Polling, At,
         writer
<1>6. FirstErrorReported'
  BY DEF SinkInv, TypeOK, FirstErrorReported, Subtract, WasLast, Idle, Polling, At,
         writer
<1>7. NothingOutstanding'
  BY DEF SinkInv, TypeOK, NothingOutstanding, Subtract, WasLast, Idle, Polling, At,
         writer
<1> QED BY <1>1, <1>2, <1>3, <1>4, <1>5, <1>6, <1>7 DEF SinkInv

\* The polling thread settled the last record.
LEMMA NotifyStep ==
  ASSUME SinkInv, Notify
  PROVE  SinkInv'
<1> DEFINE w == poll.write
<1>0. w \in Writes /\ remaining[w] = 0
  BY DEF SinkInv, TypeOK, CountExact, Notify, At
<1>a. first[w] # None /\ at[w] # "returned" => error[w] = first[w]
  BY <1>0, AllSettled DEF SinkInv, TypeOK, ErrorInv, Notify, At
<1>1. TypeOK'
  BY DEF SinkInv, TypeOK, Notify, TakeNotify, Idle, At, writer
<1>2. CountExact'
  BY DEF SinkInv, TypeOK, CountExact, Unsettled, Notify, TakeNotify, Idle, At,
         writer
<1>3. WriterInv'
  BY DEF SinkInv, TypeOK, WriterInv, Notify, TakeNotify, Idle, At, writer
<1>4. ErrorInv'
  BY DEF SinkInv, TypeOK, ErrorInv, Notify, TakeNotify, Idle, At, writer
<1>5. OkMeansWritten'
  BY DEF SinkInv, TypeOK, OkMeansWritten, Notify, TakeNotify, Idle, At, writer
<1>6. FirstErrorReported'
  BY <1>0, <1>a
  DEF SinkInv, TypeOK, FirstErrorReported, Notify, TakeNotify, Idle, At, writer
<1>7. NothingOutstanding'
  BY DEF SinkInv, TypeOK, NothingOutstanding, Notify, TakeNotify, Idle, At, writer
<1> QED BY <1>1, <1>2, <1>3, <1>4, <1>5, <1>6, <1>7 DEF SinkInv

\* SinkInv is inductive.
LEMMA StepInv == SinkInv /\ [Next]_vars => SinkInv'
<1> SUFFICES ASSUME SinkInv, [Next]_vars PROVE SinkInv'
  OBVIOUS
<1>1. CASE UNCHANGED vars
  BY <1>1 DEF vars, writer, tracker, SinkInv, TypeOK, CountExact, Unsettled, WriterInv,
              ErrorInv, OkMeansWritten, FirstErrorReported, NothingOutstanding
<1>2. ASSUME NEW w \in Writes, WriterStep(w) PROVE SinkInv'
  BY <1>2, StartStep, ExpireStep, SendStep, QueueFullStep, BackoffOverStep,
     EnqueueExpiresStep, RefusedStep, EnqueuedStep, WriterSubtractsStep,
     WriterNotifiesStep, WakeStep, AbortStep DEF WriterStep
<1>3. ASSUME NEW w \in Writes, NEW e \in Errors \union {None}, Report(w, e)
      PROVE  SinkInv'
  BY <1>3, ReportStep
<1>4. CASE PollStep
  BY <1>4, SwapStep, StoreStep, SubtractStep, NotifyStep DEF PollStep
<1> QED BY <1>1, <1>2, <1>3, <1>4 DEF Next

\* The inductive invariant of write_batches and its tracker.
THEOREM SinkInvariant == Spec => []SinkInv
BY InitInv, StepInv, PTL DEF Spec

\* write_batches and settle keep every variable within its type; in particular
\* the tracker's count never wraps below zero.
THEOREM TypeCorrect == Spec => []TypeOK
<1>1. SinkInv => TypeOK
  BY DEF SinkInv
<1> QED BY <1>1, SinkInvariant, PTL

\* write_batches answers Ok only when every record was reported as delivered.
THEOREM OkIsWritten == Spec => []OkMeansWritten
<1>1. SinkInv => OkMeansWritten
  BY DEF SinkInv
<1> QED BY <1>1, SinkInvariant, PTL

\* settle counts every record once and wakes the write with the last of them.
THEOREM TrackerExact == Spec => []CountExact
<1>1. SinkInv => CountExact
  BY DEF SinkInv
<1> QED BY <1>1, SinkInvariant, PTL

\* An attempt that returned has no delivery report left to come.
THEOREM AttemptIsOver == Spec => []NothingOutstanding
<1>1. SinkInv => NothingOutstanding
  BY DEF SinkInv
<1> QED BY <1>1, SinkInvariant, PTL

\* The error write_batches reports is the first that any delivery report
\* carried, and it is stored by the time the write wakes.
THEOREM FirstErrorWins == Spec => []FirstErrorReported
<1>1. SinkInv => FirstErrorReported
  BY DEF SinkInv
<1> QED BY <1>1, SinkInvariant, PTL
=============================================================================
