------------------------------- MODULE Fanout -------------------------------
(***************************************************************************)
(* Fanout::send and its acknowledgement protocol (topology.rs): a batch    *)
(* goes to the bounded queue of every destination in an envelope of its    *)
(* own, the envelopes share one AckState, and the call answers when the    *)
(* last of them has been completed - by the sink, or by being dropped.     *)
(*                                                                         *)
(* A call runs in a task of its own, so calls start and enqueue in any     *)
(* order.  BranchAck::complete is atomic: the flag belongs to the envelope *)
(* and the rest happens under the AckState's mutex.  delivered(self) and   *)
(* failed(self) complete the branch and then drop it; the two are separate *)
(* steps here, because the drop completes the branch again.  What a sink   *)
(* does with an envelope it holds is left open (module SinkRuntime).       *)
(***************************************************************************)
EXTENDS Naturals, Sequences, FiniteSets

CONSTANTS
    Sinks,          \* the sinks of the topology
    Calls,          \* calls of Fanout::send, one for each batch
    Destinations,   \* Destinations[c]: the sinks the batch's source feeds
    Capacity        \* buffer_capacity

\* Config::validate rejects a zero buffer_capacity.
ASSUME FanoutAssumption ==
    /\ IsFiniteSet(Sinks)
    /\ Destinations \in [Calls -> SUBSET Sinks]
    /\ Capacity \in Nat \ {0}

VARIABLES
    call,        \* call[c]: where the future of the call stands
    envelope,    \* envelope[c][s]: where the branch's envelope is
    completed,   \* completed[c]: the branches whose flag is set
    remaining,   \* AckState of the call: branches not completed,
    delivered,   \*   no branch has failed,
    note,        \*   what went through the oneshot channel
    queue,       \* queue[s]: the mpsc channel of the sink
    open,        \* open[s]: the sink still has its receiver
    written      \* history: <<c, s>> that the sink reported as delivered

vars == <<call, envelope, completed, remaining, delivered, note, queue, open,
          written>>

Init ==
    /\ call = [c \in Calls |-> "idle"]
    /\ envelope = [c \in Calls |-> [s \in Sinks |-> "none"]]
    /\ completed = [c \in Calls |-> {}]
    /\ remaining = [c \in Calls |-> 0]
    /\ delivered = [c \in Calls |-> TRUE]
    /\ note = [c \in Calls |-> "none"]
    /\ queue = [s \in Sinks |-> <<>>]
    /\ open = [s \in Sinks |-> TRUE]
    /\ written = {}

----------------------------------------------------------------------------
(* Acknowledgements *)

\* Mutant: the completed flag does not stop a second completion.
NotGuarded(c, S) == S
\* The branches of S that complete: the flag was not set before.
Fresh(c, S) == S \ completed[c]

LastWins(old, ok) == ok   \* mutant: `=` for `&=`
AndAlso(old, ok) == old /\ ok

\* BranchAck::complete for the branches S of a call (several at once when a
\* future that owns several envelopes is dropped).
Complete(c, S, ok) ==
    LET T == Fresh(c, S)
        left == remaining[c] - Cardinality(T)
        result == IF T = {} THEN delivered[c] ELSE AndAlso(delivered[c], ok)
    IN  /\ completed' = [completed EXCEPT ![c] = @ \union T]
        /\ remaining' = [remaining EXCEPT ![c] = left]
        /\ delivered' = [delivered EXCEPT ![c] = result]
        /\ note' = IF T # {} /\ left = 0 /\ note[c] = "none"
                   THEN [note EXCEPT ![c] = IF result THEN "true" ELSE "false"]
                   ELSE note

ForgetsDrop(c, S) == UNCHANGED <<completed, remaining, delivered, note>>   \* mutant
\* Drop for BranchAck.
Drop(c, S) == Complete(c, S, FALSE)

----------------------------------------------------------------------------
(* The call *)

In(c, state) == {s \in Destinations[c] : envelope[c][s] = state}

Move(c, S, state) ==
    envelope' = [envelope EXCEPT ![c] = [s \in Sinks |->
                   IF s \in S THEN state ELSE envelope[c][s]]]

\* The task of the call is polled for the first time.
Send(c) ==
    /\ call[c] = "idle"
    /\ \/ /\ Destinations[c] = {}
          /\ call' = [call EXCEPT ![c] = "ok"]
          /\ UNCHANGED <<envelope, remaining>>
       \/ /\ Destinations[c] # {}
          /\ call' = [call EXCEPT ![c] = "sending"]
          /\ remaining' = [remaining EXCEPT ![c] = Cardinality(Destinations[c])]
          /\ Move(c, Destinations[c], "sending")
    /\ UNCHANGED <<completed, delivered, note, queue, open, written>>

\* One of the futures of try_join_all gets a permit of the channel.
Enqueue(c, s) ==
    /\ call[c] = "sending" /\ s \in In(c, "sending")
    /\ open[s] /\ Len(queue[s]) < Capacity
    /\ queue' = [queue EXCEPT ![s] = Append(@, c)]
    /\ Move(c, {s}, "queued")
    /\ UNCHANGED <<call, completed, remaining, delivered, note, open, written>>

\* One of them finds the channel closed: try_join_all returns its error, and
\* every envelope that is not in a queue yet is dropped.
SendFails(c, s) ==
    /\ call[c] = "sending" /\ s \in In(c, "sending")
    /\ ~open[s]
    /\ call' = [call EXCEPT ![c] = "stopped"]
    /\ Move(c, In(c, "sending"), "gone")
    /\ Drop(c, In(c, "sending"))
    /\ UNCHANGED <<queue, open, written>>

\* All futures are done; the call awaits the oneshot channel.
Sent(c) ==
    /\ call[c] = "sending" /\ In(c, "sending") = {}
    /\ call' = [call EXCEPT ![c] = "waiting"]
    /\ UNCHANGED <<envelope, completed, remaining, delivered, note, queue, open,
                   written>>

Answer(c) ==
    /\ call[c] = "waiting" /\ note[c] # "none"
    /\ call' = [call EXCEPT ![c] = IF note[c] = "true" THEN "ok" ELSE "rejected"]
    /\ UNCHANGED <<envelope, completed, remaining, delivered, note, queue, open,
                   written>>

\* The source aborts its tasks on shutdown: the future is dropped where it is.
Abort(c) ==
    /\ call[c] \in {"sending", "waiting"}
    /\ call' = [call EXCEPT ![c] = "aborted"]
    /\ Move(c, In(c, "sending"), "gone")
    /\ Drop(c, In(c, "sending"))
    /\ UNCHANGED <<queue, open, written>>

----------------------------------------------------------------------------
(* The sinks *)

Receive(s) ==
    /\ open[s] /\ queue[s] # <<>>
    /\ Move(Head(queue[s]), {s}, "held")
    /\ queue' = [queue EXCEPT ![s] = Tail(@)]
    /\ UNCHANGED <<call, completed, remaining, delivered, note, open, written>>

\* SinkEnvelope::delivered and SinkEnvelope::failed, up to the end of complete.
Settle(c, s, ok) ==
    /\ s \in In(c, "held")
    /\ Move(c, {s}, "settled")
    /\ Complete(c, {s}, ok)
    /\ written' = IF ok THEN written \union {<<c, s>>} ELSE written
    /\ UNCHANGED <<call, queue, open>>

\* ... and the end of the method, where the envelope itself is dropped.
DropSettled(c, s) ==
    /\ s \in In(c, "settled")
    /\ Move(c, {s}, "gone")
    /\ Drop(c, {s})
    /\ UNCHANGED <<call, queue, open, written>>

\* A write task, or the sink around it, ends without settling the envelope.
Abandon(c, s) ==
    /\ s \in In(c, "held")
    /\ Move(c, {s}, "gone")
    /\ Drop(c, {s})
    /\ UNCHANGED <<call, queue, open, written>>

\* The sink's receiver is dropped ...
Close(s) ==
    /\ open[s]
    /\ open' = [open EXCEPT ![s] = FALSE]
    /\ UNCHANGED <<call, envelope, completed, remaining, delivered, note, queue,
                   written>>

\* ... and with it what is still in the channel.
Drain(s) ==
    /\ ~open[s] /\ queue[s] # <<>>
    /\ Move(Head(queue[s]), {s}, "gone")
    /\ Drop(Head(queue[s]), {s})
    /\ queue' = [queue EXCEPT ![s] = Tail(@)]
    /\ UNCHANGED <<call, open, written>>

CallStep(c) ==
    \/ Send(c)
    \/ \E s \in Sinks : Enqueue(c, s)
    \/ \E s \in Sinks : SendFails(c, s)
    \/ Sent(c)
    \/ Answer(c)
    \/ Abort(c)

SinkStep(s) ==
    \/ Receive(s)
    \/ \E c \in Calls : Settle(c, s, TRUE)
    \/ \E c \in Calls : Settle(c, s, FALSE)
    \/ \E c \in Calls : DropSettled(c, s)
    \/ \E c \in Calls : Abandon(c, s)
    \/ Close(s)
    \/ Drain(s)

Next == (\E c \in Calls : CallStep(c)) \/ (\E s \in Sinks : SinkStep(s))

Spec == Init /\ [][Next]_vars

\* Tasks of the runtime are polled when they can move; a sink receives as long
\* as it is open.  That it settles or loses what it holds is an assumption about
\* the interface (EveryBranchAnswered of module SinkRuntime): it needs destinations
\* that answer.  Nothing forces a sink to close or a call to be aborted.
Fairness ==
    /\ \A c \in Calls :
         /\ WF_vars(Sent(c) \/ Answer(c) \/ \E s \in Sinks : SendFails(c, s))
         /\ \A s \in Sinks :
              /\ SF_vars(Enqueue(c, s))
              /\ WF_vars(\/ Settle(c, s, TRUE) \/ Settle(c, s, FALSE)
                         \/ Abandon(c, s) \/ DropSettled(c, s))
    /\ \A s \in Sinks : WF_vars(Receive(s) \/ Drain(s))

FairSpec == Spec /\ Fairness

----------------------------------------------------------------------------
(* Properties *)

CallStates == {"idle", "sending", "waiting", "ok", "rejected", "stopped", "aborted"}

TypeOK ==
    /\ call \in [Calls -> CallStates]
    /\ envelope \in [Calls -> [Sinks -> {"none", "sending", "queued", "held",
                                         "settled", "gone"}]]
    /\ completed \in [Calls -> SUBSET Sinks]
    /\ remaining \in [Calls -> Nat]
    /\ delivered \in [Calls -> BOOLEAN]
    /\ note \in [Calls -> {"none", "true", "false"}]
    /\ queue \in [Sinks -> Seq(Calls)]
    /\ open \in [Sinks -> BOOLEAN]
    /\ written \subseteq Calls \X Sinks

\* Ok is a promise kept by every sink (Fanout::send): whatever was dropped,
\* closed or rejected in between, a call answers Ok only if each destination
\* reported the batch as delivered.
OkMeansDelivered ==
    \A c \in Calls : call[c] = "ok" =>
      \A s \in Destinations[c] : <<c, s>> \in written

AckOf(c) ==
    /\ completed[c] = In(c, "settled") \union In(c, "gone")
    /\ remaining[c] = Cardinality(Destinations[c] \ completed[c])
    /\ Destinations[c] # {} => (note[c] # "none" <=> remaining[c] = 0)

\* The count of the AckState is exact (BranchAck::complete, Drop): it never
\* underflows, an envelope counts once although it is completed twice, and the
\* answer is sent when the last branch completes and not before.
AckExact == \A c \in Calls : call[c] # "idle" => AckOf(c)

\* A batch is rejected only for cause (AckState::delivered): some sink did not
\* report it as delivered.
RejectedForCause ==
    \A c \in Calls : call[c] \in {"rejected", "stopped"} =>
      \E s \in Destinations[c] : <<c, s>> \notin written

\* A call's envelopes exist from its first poll on, for its destinations; only
\* a call that is sending owns some.
EnvelopeOf(c) ==
    /\ \A s \in Sinks : envelope[c][s] = "none" <=> call[c] = "idle" \/ s \notin Destinations[c]
    /\ call[c] # "sending" => In(c, "sending") = {}
    /\ call[c] = "idle" => /\ completed[c] = {} /\ remaining[c] = 0
                           /\ delivered[c] /\ note[c] = "none"

\* The flag of the AckState tells whether some completed branch was not
\* delivered, and the answer and the outcome of the call agree with it.
VerdictOf(c) ==
    /\ delivered[c] <=> \A s \in completed[c] : <<c, s>> \in written
    /\ \A s \in Sinks : <<c, s>> \in written => s \in completed[c]
    /\ note[c] = "true" => delivered[c]
    /\ note[c] = "false" => ~delivered[c]
    /\ call[c] = "ok" => Destinations[c] = {} \/ note[c] = "true"
    /\ call[c] \in {"rejected", "stopped"} => ~delivered[c]

\* A channel holds envelopes that are queued, each once.
QueueInv ==
    \A s \in Sinks : \A i \in 1..Len(queue[s]) :
      /\ envelope[queue[s][i]][s] = "queued"
      /\ \A j \in 1..Len(queue[s]) : queue[s][i] = queue[s][j] => i = j

\* The argument for the three properties, as an inductive invariant.
FanoutInv ==
    /\ TypeOK /\ QueueInv /\ AckExact
    /\ \A c \in Calls : EnvelopeOf(c) /\ VerdictOf(c)

\* No call hangs (Fanout::send awaits the oneshot channel forever): if the sinks
\* settle or lose what they hold, every call that was started answers or is
\* aborted, even if sinks close under it.
NoCallHangs ==
    \A c \in Calls : call[c] \in {"sending", "waiting"}
                       ~> call[c] \in {"ok", "rejected", "stopped", "aborted"}
=============================================================================
