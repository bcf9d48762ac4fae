----------------------------- MODULE KafkaSink -----------------------------
(***************************************************************************)
(* KafkaSink::write_batches and its BatchTracker (sink/kafka.rs).  A write *)
(* offers its records to the producer, re-offering while the queue is      *)
(* full, and parks until every record is settled.  The producer's polling  *)
(* thread settles one record for each delivery report; a write that gives  *)
(* up enqueueing settles the records it never offered itself.              *)
(*                                                                         *)
(* settle is not atomic: its accesses to the tracker's atomics and mutexes *)
(* are steps, so the thread and the writers interleave between them.  An   *)
(* element of Writes is one call of write_batches, with a tracker of its   *)
(* own; calls that overlap share the producer's queue.                     *)
(***************************************************************************)
EXTENDS Naturals, Functions

CONSTANTS
    Writes,      \* calls of write_batches
    Total(_),    \* records in the batches of a call
    QueueLimit,  \* queue_buffering_max_messages
    Errors,      \* errors of delivery reports
    None         \* Option::None

ASSUME KafkaSinkAssumption ==
    /\ \A w \in Writes : Total(w) \in Nat
    /\ QueueLimit \in Nat \ {0}
    /\ None \notin Errors \union Writes
    /\ Errors \intersect {"none", "ok", "enqueue", "aborted"} = {}

VARIABLES
    at,            \* at[w]: where the writer is
    enqueued,      \* local of the writer: records the producer accepted
    expired,       \* enqueue_deadline has passed
    enqueue_error, \* local of the writer
    remaining, failed, error, notify,   \* the BatchTracker of the write
    done,          \* the oneshot channel holds the value
    result,        \* what write_batches returned
    poll,          \* the polling thread: where in settle, for which write
    inflight,      \* inflight[w]: records the producer has not reported yet
    acked,         \* history: records reported as delivered
    first          \* history: the first error a report carried

tracker == <<remaining, failed, error, notify, done>>
writer == <<at, enqueued, expired, enqueue_error, result>>
vars == <<writer, tracker, poll, inflight, acked, first>>

\* No report is being settled.
Idle == [at |-> "idle", write |-> None, error |-> None]

\* BatchTracker::new for each call, before its first poll.
Init ==
    /\ at = [w \in Writes |-> "start"]
    /\ enqueued = [w \in Writes |-> 0]
    /\ expired = [w \in Writes |-> FALSE]
    /\ enqueue_error = [w \in Writes |-> FALSE]
    /\ remaining = [w \in Writes |-> Total(w)]
    /\ failed = [w \in Writes |-> FALSE]
    /\ error = [w \in Writes |-> None]
    /\ notify = [w \in Writes |-> TRUE]
    /\ done = [w \in Writes |-> FALSE]
    /\ result = [w \in Writes |-> "none"]
    /\ poll = Idle
    /\ inflight = [w \in Writes |-> 0]
    /\ acked = [w \in Writes |-> 0]
    /\ first = [w \in Writes |-> None]

----------------------------------------------------------------------------
(* The writer *)

Goto(w, label) == at' = [at EXCEPT ![w] = label]
Returns(w, value) == Goto(w, "returned") /\ result' = [result EXCEPT ![w] = value]

\* The early return for a group without records.
Start(w) ==
    /\ at[w] = "start"
    /\ \/ Total(w) = 0 /\ Returns(w, "ok")
       \/ Total(w) # 0 /\ Goto(w, "send") /\ UNCHANGED result
    /\ UNCHANGED <<enqueued, expired, enqueue_error, tracker, poll, inflight,
                   acked, first>>

\* The deadline passes while the write is enqueueing.
Expire(w) ==
    /\ at[w] \in {"send", "backoff"} /\ ~expired[w]
    /\ expired' = [expired EXCEPT ![w] = TRUE]
    /\ UNCHANGED <<at, enqueued, enqueue_error, result, tracker, poll,
                   inflight, acked, first>>

\* What the producer holds: a record leaves its queue when the report is served.
Queued == FoldFunction(LAMBDA n, sum : n + sum, IF poll = Idle THEN 0 ELSE 1, inflight)

\* producer.send accepts the next record.
Send(w) ==
    /\ at[w] = "send" /\ enqueued[w] < Total(w)
    /\ Queued < QueueLimit
    /\ enqueued' = [enqueued EXCEPT ![w] = @ + 1]
    /\ inflight' = [inflight EXCEPT ![w] = @ + 1]
    /\ UNCHANGED <<at, expired, enqueue_error, result, tracker, poll, acked,
                   first>>

\* It answers QueueFull: the write sleeps before it offers the record again.
QueueFull(w) ==
    /\ at[w] = "send" /\ enqueued[w] < Total(w)
    /\ Queued >= QueueLimit /\ ~expired[w]
    /\ Goto(w, "backoff")
    /\ UNCHANGED <<enqueued, expired, enqueue_error, result, tracker, poll,
                   inflight, acked, first>>

BackoffOver(w) ==
    /\ at[w] = "backoff"
    /\ Goto(w, "send")
    /\ UNCHANGED <<enqueued, expired, enqueue_error, result, tracker, poll,
                   inflight, acked, first>>

\* Mutant: the records that were never offered are not settled.
ParksAtOnce(w) == Goto(w, "await")
\* break 'enqueue with an error: the write goes on to settle the rest.
Abandon(w) == Goto(w, "sub")

\* QueueFull after the deadline.
EnqueueExpires(w) ==
    /\ at[w] = "send" /\ enqueued[w] < Total(w)
    /\ Queued >= QueueLimit /\ expired[w]
    /\ enqueue_error' = [enqueue_error EXCEPT ![w] = TRUE]
    /\ Abandon(w)
    /\ UNCHANGED <<enqueued, expired, result, tracker, poll, inflight,
                   acked, first>>

\* Any other error of the producer, whatever its queue holds.
Refused(w) ==
    /\ at[w] = "send" /\ enqueued[w] < Total(w)
    /\ enqueue_error' = [enqueue_error EXCEPT ![w] = TRUE]
    /\ Abandon(w)
    /\ UNCHANGED <<enqueued, expired, result, tracker, poll, inflight,
                   acked, first>>

Enqueued(w) ==
    /\ at[w] = "send" /\ enqueued[w] = Total(w)
    /\ Goto(w, "await")
    /\ UNCHANGED <<enqueued, expired, enqueue_error, result, tracker, poll,
                   inflight, acked, first>>

CountsTheFailedOne(w) == Total(w) - enqueued[w] - 1   \* mutant: off by one
Unoffered(w) == Total(w) - enqueued[w]

\* tracker.settle(total - enqueued, None): the fetch_sub ...
WriterSubtracts(w) ==
    /\ at[w] = "sub"
    /\ remaining' = [remaining EXCEPT ![w] = @ - Unoffered(w)]
    /\ Goto(w, IF remaining[w] = Unoffered(w) THEN "notify" ELSE "await")
    /\ UNCHANGED <<enqueued, expired, enqueue_error, failed, error, notify,
                   done,
                   result, poll, inflight, acked, first>>

\* Wakes the write: the sender is taken, and used if it was there.
TakeNotify(w) ==
    /\ notify' = [notify EXCEPT ![w] = FALSE]
    /\ done' = [done EXCEPT ![w] = @ \/ notify[w]]

\* ... and the notification, which the write will find at once.
WriterNotifies(w) ==
    /\ at[w] = "notify"
    /\ TakeNotify(w)
    /\ Goto(w, "await")
    /\ UNCHANGED <<enqueued, expired, enqueue_error, remaining, failed, error,
                   result, poll, inflight, acked, first>>

IgnoresEnqueueError(w) == IF error[w] # None THEN error[w] ELSE "ok"   \* mutant
Outcome(w) ==
    IF enqueue_error[w] THEN "enqueue" ELSE IF error[w] # None THEN error[w] ELSE "ok"

\* done.await returns; take_error decides when the enqueueing went well.
Wake(w) ==
    /\ at[w] = "await" /\ done[w]
    /\ Returns(w, Outcome(w))
    /\ error' = IF enqueue_error[w] THEN error ELSE [error EXCEPT ![w] = None]
    /\ UNCHANGED <<enqueued, expired, enqueue_error, remaining, failed, notify,
                   done, poll, inflight, acked, first>>

\* The sink's runtime drops the future at an await; its records stay queued.
Abort(w) ==
    /\ at[w] \in {"backoff", "await"}
    /\ Returns(w, "aborted")
    /\ UNCHANGED <<enqueued, expired, enqueue_error, tracker, poll, inflight,
                   acked, first>>

----------------------------------------------------------------------------
(* The polling thread: BatchContext::delivery, settle(1, error) *)

Polling(label, w, e) == poll' = [at |-> label, write |-> w, error |-> e]
At(label) == poll.at = label

\* A delivery report, with an error or None.
Report(w, e) ==
    /\ At("idle") /\ inflight[w] > 0
    /\ inflight' = [inflight EXCEPT ![w] = @ - 1]
    /\ acked' = IF e = None THEN [acked EXCEPT ![w] = @ + 1] ELSE acked
    /\ first' = IF first[w] = None THEN [first EXCEPT ![w] = e] ELSE first
    /\ Polling(IF e = None THEN "sub" ELSE "swap", w, e)
    /\ UNCHANGED <<writer, tracker>>

AlwaysStores(w) == TRUE   \* mutant: the last error wins
NotFailedYet(w) == ~failed[w]

\* failed.swap(true)
Swap ==
    /\ At("swap")
    /\ Polling(IF NotFailedYet(poll.write) THEN "store" ELSE "sub", poll.write,
               poll.error)
    /\ failed' = [failed EXCEPT ![poll.write] = TRUE]
    /\ UNCHANGED <<writer, remaining, error, notify, done, inflight, acked,
                   first>>

\* The error is stored before the record is counted.
Store ==
    /\ At("store")
    /\ error' = [error EXCEPT ![poll.write] = poll.error]
    /\ Polling("sub", poll.write, poll.error)
    /\ UNCHANGED <<writer, remaining, failed, notify, done, inflight, acked,
                   first>>

OneTooEarly(w) == remaining[w] <= 2   \* mutant: off by one
WasLast(w) == remaining[w] = 1

\* remaining.fetch_sub(1); a report that is not the last ends here.
Subtract ==
    /\ At("sub")
    /\ remaining' = [remaining EXCEPT ![poll.write] = @ - 1]
    /\ \/ /\ WasLast(poll.write)
          /\ Polling("notify", poll.write, poll.error)
       \/ /\ ~WasLast(poll.write)
          /\ poll' = Idle
    /\ UNCHANGED <<writer, failed, error, notify, done, inflight, acked, first>>

Notify ==
    /\ At("notify")
    /\ TakeNotify(poll.write)
    /\ poll' = Idle
    /\ UNCHANGED <<writer, remaining, failed, error, inflight, acked, first>>

WriterStep(w) ==
    \/ Start(w)
    \/ Expire(w)
    \/ Send(w)
    \/ QueueFull(w)
    \/ BackoffOver(w)
    \/ EnqueueExpires(w)
    \/ Refused(w)
    \/ Enqueued(w)
    \/ WriterSubtracts(w)
    \/ WriterNotifies(w)
    \/ Wake(w)
    \/ Abort(w)

PollStep == Swap \/ Store \/ Subtract \/ Notify

Next ==
    \/ \E w \in Writes : WriterStep(w)
    \/ \E w \in Writes : \E e \in Errors \union {None} : Report(w, e)
    \/ PollStep

Spec == Init /\ [][Next]_vars

\* Futures are polled when they can move and time passes.  The polling thread
\* runs, and message.timeout.ms makes the producer report every record it
\* accepted; send answers something, but need never refuse a record.
Fairness ==
    /\ WF_vars(PollStep)
    /\ \A w \in Writes :
         /\ WF_vars(Send(w) \/ QueueFull(w) \/ EnqueueExpires(w) \/ Refused(w))
         /\ WF_vars(Expire(w))
         /\ WF_vars(BackoffOver(w)) /\ WF_vars(Enqueued(w))
         /\ WF_vars(WriterSubtracts(w) \/ WriterNotifies(w)) /\ WF_vars(Wake(w))
         /\ SF_vars(\E e \in Errors \union {None} : Report(w, e))

FairSpec == Spec /\ Fairness

----------------------------------------------------------------------------
(* Properties *)

TypeOK ==
    /\ at \in [Writes -> {"start", "send", "backoff", "sub", "notify", "await",
                          "returned"}]
    /\ enqueued \in [Writes -> Nat] /\ remaining \in [Writes -> Nat]
    /\ inflight \in [Writes -> Nat] /\ acked \in [Writes -> Nat]
    /\ expired \in [Writes -> BOOLEAN] /\ enqueue_error \in [Writes -> BOOLEAN]
    /\ failed \in [Writes -> BOOLEAN] /\ notify \in [Writes -> BOOLEAN]
    /\ done \in [Writes -> BOOLEAN]
    /\ error \in [Writes -> Errors \union {None}]
    /\ first \in [Writes -> Errors \union {None}]
    /\ result \in [Writes -> Errors \union {"none", "ok", "enqueue", "aborted"}]
    /\ poll \in [at : {"idle", "swap", "store", "sub", "notify"},
                 write : Writes \union {None}, error : Errors \union {None}]
    /\ poll.at # "idle" => poll.write \in Writes

\* Ok is only said of a group that is all in Kafka (write_batches): no record
\* refused, lost or unreported hides behind it, in whatever order the reports
\* and the writer reach the tracker.
OkMeansWritten == \A w \in Writes : result[w] = "ok" => acked[w] = Total(w)

\* The reported error is the first one that a report carried (settle's swap),
\* and it is there when the write wakes.
FirstErrorReported ==
    \A w \in Writes : /\ result[w] \in Errors => result[w] = first[w]
                      /\ done[w] /\ first[w] # None /\ at[w] # "returned"
                           => error[w] = first[w]

\* An attempt that returns leaves nothing behind (BatchTracker): no report of
\* its records is still to come, so a retry never overlaps the attempt before.
NothingOutstanding ==
    \A w \in Writes : result[w] \notin {"none", "aborted"} => inflight[w] = 0

\* Records of a write that no settle has counted yet: those its writer will
\* settle, those without a report, and the one the polling thread is at.
Unsettled(w) ==
    (IF enqueue_error[w] /\ at[w] # "sub" THEN 0 ELSE Total(w) - enqueued[w])
    + inflight[w]
    + (IF poll.at \in {"swap", "store", "sub"} /\ poll.write = w THEN 1 ELSE 0)

\* The tracker's count is exact at every interleaving (settle): it never wraps
\* below zero, and the write is woken once, when the last record is settled.
CountExact ==
    \A w \in Writes :
      /\ remaining[w] = Unsettled(w)
      /\ done[w] <=> ~notify[w]
      /\ done[w] \/ at[w] = "notify" => remaining[w] = 0
      /\ poll.at = "notify" => remaining[poll.write] = 0

\* What the writer's place tells about its locals.
WriterInv ==
    \A w \in Writes :
      /\ enqueued[w] <= Total(w)
      /\ at[w] = "start" => enqueued[w] = 0 /\ inflight[w] = 0 /\ acked[w] = 0
      /\ at[w] = "sub" => enqueued[w] < Total(w)
      /\ at[w] \in {"sub", "notify"} => enqueue_error[w]
      /\ at[w] \in {"start", "send", "backoff"} => ~enqueue_error[w]
      /\ at[w] = "await" /\ ~enqueue_error[w] => enqueued[w] = Total(w)
      /\ at[w] = "returned" <=> result[w] # "none"

\* How the first error travels from its report to the tracker.
ErrorInv ==
    \A w \in Writes :
      LET here == poll.write = w /\ poll.at # "idle" IN
      /\ first[w] = None =>
           /\ acked[w] + inflight[w] = enqueued[w]
           /\ error[w] = None /\ ~failed[w]
           /\ here => poll.error = None /\ poll.at \in {"sub", "notify"}
      /\ first[w] # None =>
           /\ ~failed[w] => here /\ poll.at = "swap" /\ poll.error = first[w]
           /\ here /\ poll.at = "store" => poll.error = first[w]
           /\ failed[w] /\ at[w] # "returned" /\ ~(here /\ poll.at = "store")
                => error[w] = first[w]

\* The argument for OkMeansWritten, as an inductive invariant: the write is
\* woken only when nothing is unsettled, and by then an error that any report
\* carried has been stored.
SinkInv ==
    /\ TypeOK /\ CountExact /\ WriterInv /\ ErrorInv
    /\ OkMeansWritten /\ FirstErrorReported /\ NothingOutstanding

\* No write parks for ever (write_batches): neither a full queue nor a refused
\* record nor a lost report leaves it waiting.
WriteReturns == \A w \in Writes : (at[w] = "send") ~> (at[w] = "returned")
=============================================================================
