---------------------------- MODULE FanoutProofs ----------------------------
(***************************************************************************)
(* Proofs about Fanout, for any number of calls, sinks and queue slots.    *)
(***************************************************************************)
EXTENDS Fanout, FiniteSetTheorems, TLAPS

USE DEF CallStates

\* What the invariant says about one call, in the terms of its own state.
CallInv(c) == (call[c] # "idle" => AckOf(c)) /\ EnvelopeOf(c) /\ VerdictOf(c)

LEMMA Parts == FanoutInv <=> TypeOK /\ QueueInv /\ \A c \in Calls : CallInv(c)
BY DEF FanoutInv, AckExact, CallInv

\* Destinations are finitely many sinks.
LEMMA FiniteDestinations ==
  ASSUME NEW c \in Calls, NEW S \in SUBSET Destinations[c]
  PROVE  /\ Destinations[c] \subseteq Sinks
         /\ IsFiniteSet(S) /\ Cardinality(S) \in Nat
         /\ Cardinality(S) = 0 <=> S = {}
<1>1. Destinations[c] \subseteq Sinks /\ IsFiniteSet(Sinks)
  BY FanoutAssumption
<1>2. IsFiniteSet(S)
  BY <1>1, FS_Subset
<1> QED BY <1>1, <1>2, FS_CardinalityType, FS_EmptySet

\* The state of a call that a step leaves alone.
SameCall(c) ==
    /\ call'[c] = call[c] /\ envelope'[c] = envelope[c]
    /\ completed'[c] = completed[c] /\ remaining'[c] = remaining[c]
    /\ delivered'[c] = delivered[c] /\ note'[c] = note[c]
    /\ \A s \in Sinks : <<c, s>> \in written' <=> <<c, s>> \in written

LEMMA SameCallInv ==
  ASSUME NEW c \in Calls, TypeOK, CallInv(c), SameCall(c)
  PROVE  CallInv(c)'
<1>1. \A x : In(c, x)' = In(c, x)
  BY DEF In, SameCall
<1>2. AckOf(c)' <=> AckOf(c)
  BY <1>1 DEF AckOf, SameCall
<1>3. EnvelopeOf(c)' <=> EnvelopeOf(c)
  BY <1>1 DEF EnvelopeOf, SameCall
<1>4. VerdictOf(c)' <=> VerdictOf(c)
  <2>1. completed[c] \subseteq Sinks
    BY DEF TypeOK
  <2> QED BY <2>1 DEF VerdictOf, SameCall
<1> QED BY <1>2, <1>3, <1>4 DEF CallInv, SameCall

\* Completing branches that were completed before changes nothing.
LEMMA CompleteAgain ==
  ASSUME NEW c \in Calls, NEW S \in SUBSET completed[c], NEW ok \in BOOLEAN, TypeOK,
         Complete(c, S, ok)
  PROVE  UNCHANGED <<completed, remaining, delivered, note>>
<1>1. Fresh(c, S) = {}
  BY DEF Fresh
<1>2. Cardinality({}) = 0
  BY FS_EmptySet
<1>3. completed' = [completed EXCEPT ![c] = @ \union {}] /\ note' = note
      /\ remaining' = [remaining EXCEPT ![c] = remaining[c] - 0]
      /\ delivered' = [delivered EXCEPT ![c] = delivered[c]]
  BY <1>1, <1>2 DEF Complete
<1> QED BY <1>3 DEF TypeOK

\* A step of BranchAck::complete touches the AckState of its own call only.
OnlyAck(c) ==
    /\ completed' \in [Calls -> SUBSET Sinks] /\ remaining' \in [Calls -> Nat]
    /\ delivered' \in [Calls -> BOOLEAN]
    /\ note' \in [Calls -> {"none", "true", "false"}]
    /\ \A d \in Calls : d # c =>
         /\ completed'[d] = completed[d] /\ remaining'[d] = remaining[d]
         /\ delivered'[d] = delivered[d] /\ note'[d] = note[d]

\* Completing fresh branches: they are counted once, and the last one answers.
LEMMA CompleteFresh ==
  ASSUME NEW c \in Calls, NEW S \in SUBSET Destinations[c], S # {}, S \cap completed[c] = {},
         NEW ok \in BOOLEAN, TypeOK, AckOf(c), Complete(c, S, ok)
  PROVE  /\ OnlyAck(c)
         /\ completed'[c] = completed[c] \union S
         /\ remaining'[c] = Cardinality(Destinations[c] \ (completed[c] \union S))
         /\ delivered'[c] <=> delivered[c] /\ ok
         /\ note[c] = "none"
         /\ IF Destinations[c] \subseteq completed[c] \union S
            THEN note'[c] = IF delivered'[c] THEN "true" ELSE "false"
            ELSE note'[c] = "none"
<1> DEFINE left == Destinations[c] \ completed[c]
           rest == Destinations[c] \ (completed[c] \union S)
<1>1. Fresh(c, S) = S
  BY DEF Fresh
<1>2. IsFiniteSet(left) /\ Cardinality(left) \in Nat /\ left # {} /\ Cardinality(left) # 0
  BY FiniteDestinations
<1>3. /\ IsFiniteSet(rest) /\ Cardinality(rest) \in Nat /\ Cardinality(S) \in Nat
      /\ IsFiniteSet(S) /\ (Cardinality(rest) = 0 <=> rest = {})
  BY FiniteDestinations
<1>4. Cardinality(rest) = Cardinality(left) - Cardinality(S)
  <2>1. Cardinality(left \ S) = Cardinality(left) - Cardinality(left \cap S)
    BY <1>2, <1>3, FS_Difference
  <2>2. left \cap S = S /\ left \ S = rest
    OBVIOUS
  <2> QED BY <2>1, <2>2
<1>5. note[c] = "none" /\ remaining[c] = Cardinality(left)
  BY <1>2 DEF AckOf, TypeOK
<1>6. rest = {} <=> Destinations[c] \subseteq completed[c] \union S
  OBVIOUS
<1>7. completed[c] \union S \subseteq Sinks
  BY FiniteDestinations DEF TypeOK
<1> HIDE DEF left, rest
<1>8. PICK b \in BOOLEAN : b = (delivered[c] /\ ok)
  OBVIOUS
<1>9. /\ completed' = [completed EXCEPT ![c] = @ \union S]
      /\ remaining' = [remaining EXCEPT ![c] = Cardinality(rest)]
      /\ delivered' = [delivered EXCEPT ![c] = b]
      /\ note' = IF Cardinality(rest) = 0
                 THEN [note EXCEPT ![c] = IF b THEN "true" ELSE "false"]
                 ELSE note
  BY <1>1, <1>4, <1>5, <1>8 DEF Complete, AndAlso
<1>10. OnlyAck(c)
  BY <1>3, <1>7, <1>9 DEF OnlyAck, TypeOK
<1>11. delivered'[c] = b /\ completed'[c] = completed[c] \union S
       /\ remaining'[c] = Cardinality(rest)
  BY <1>9 DEF TypeOK
<1>12. IF rest = {} THEN note'[c] = IF b THEN "true" ELSE "false" ELSE note'[c] = "none"
  BY <1>3, <1>5, <1>9 DEF TypeOK
<1> QED BY <1>5, <1>6, <1>8, <1>10, <1>11, <1>12 DEF rest

\* Envelopes move in one call and stay well formed.
LEMMA MoveFacts ==
  ASSUME NEW c \in Calls, NEW S \in SUBSET Destinations[c], NEW x, TypeOK, Move(c, S, x)
  PROVE  /\ \A s \in Sinks : envelope'[c][s] = IF s \in S THEN x ELSE envelope[c][s]
         /\ \A d \in Calls : d # c => envelope'[d] = envelope[d]
         /\ x \in {"none", "sending", "queued", "held", "settled", "gone"} =>
              envelope' \in [Calls -> [Sinks -> {"none", "sending", "queued", "held",
                                                 "settled", "gone"}]]
BY DEF Move, TypeOK

\* Branches of a live call are settled or dropped for the first time: whatever
\* becomes of the call itself, its invariant holds again.
LEMMA BranchesComplete ==
  ASSUME NEW c \in Calls, NEW S \in SUBSET Destinations[c], S # {},
         NEW ok \in BOOLEAN, NEW x \in {"settled", "gone"},
         TypeOK, CallInv(c), call[c] # "idle",
         \A s \in S : envelope[c][s] \in {"sending", "queued", "held"},
         Move(c, S, x), Complete(c, S, ok),
         call'[c] \in {call[c], "stopped", "aborted"},
         call'[c] = "stopped" => ~ok \/ call[c] = "stopped",
         call'[c] # "sending" => In(c, "sending") \subseteq S,
         \A s \in Sinks : <<c, s>> \in written' <=> <<c, s>> \in written \/ (ok /\ s \in S)
  PROVE  CallInv(c)'
<1>1. S \cap completed[c] = {} /\ AckOf(c)
  BY DEF CallInv, AckOf, In
<1>2. Destinations[c] \subseteq Sinks
  BY FiniteDestinations
<1>3. /\ completed'[c] = completed[c] \union S
      /\ remaining'[c] = Cardinality(Destinations[c] \ (completed[c] \union S))
      /\ delivered'[c] <=> delivered[c] /\ ok
      /\ note[c] = "none"
      /\ IF Destinations[c] \subseteq completed[c] \union S
         THEN note'[c] = IF delivered'[c] THEN "true" ELSE "false"
         ELSE note'[c] = "none"
  BY <1>1, CompleteFresh
<1>4. \A s \in Sinks : envelope'[c][s] = IF s \in S THEN x ELSE envelope[c][s]
  BY MoveFacts
<1>5. AckOf(c)'
  <2>1. completed'[c] = In(c, "settled")' \union In(c, "gone")'
    BY <1>2, <1>3, <1>4 DEF CallInv, AckOf, In
  <2>2. remaining'[c] = 0 <=> Destinations[c] \subseteq completed[c] \union S
    BY <1>3, FiniteDestinations
  <2>3. note'[c] # "none" <=> remaining'[c] = 0
    BY <1>3, <2>2
  <2> QED BY <1>3, <2>1, <2>3 DEF AckOf
<1>6. EnvelopeOf(c)'
  <2>1. \A s \in Sinks : envelope'[c][s] # "none" <=> envelope[c][s] # "none"
    BY <1>4
  <2>2. call'[c] # "idle"
    OBVIOUS
  <2>3. call'[c] # "sending" => In(c, "sending")' = {}
    BY <1>2, <1>4 DEF In
  <2> QED BY <2>1, <2>2, <2>3 DEF CallInv, EnvelopeOf
<1>7. VerdictOf(c)'
  <2>1. completed[c] \subseteq Sinks /\ S \subseteq Sinks
    BY <1>2 DEF TypeOK
  <2>2. \A s \in S : s \notin completed[c] /\ <<c, s>> \notin written
    BY <1>1, <1>2 DEF CallInv, VerdictOf
  <2>3. delivered'[c] <=> \A s \in completed'[c] : <<c, s>> \in written'
    BY <1>3, <2>1, <2>2 DEF CallInv, VerdictOf
  <2>4. \A s \in Sinks : <<c, s>> \in written' => s \in completed'[c]
    BY <1>3, <2>1 DEF CallInv, VerdictOf
  <2>5. (note'[c] = "true" => delivered'[c]) /\ (note'[c] = "false" => ~delivered'[c])
    BY <1>3
  <2>6. call'[c] = "ok" => Destinations[c] = {} \/ note'[c] = "true"
    BY <1>3 DEF CallInv, VerdictOf
  <2>7. call'[c] \in {"rejected", "stopped"} => ~delivered'[c]
    BY <1>3 DEF CallInv, VerdictOf
  <2> QED BY <2>3, <2>4, <2>5, <2>6, <2>7 DEF VerdictOf
<1> QED BY <1>5, <1>6, <1>7 DEF CallInv

\* The channels, when no queued envelope moves ...
LEMMA QueueSame ==
  ASSUME NEW c \in Calls, NEW S \in SUBSET Destinations[c], NEW x, TypeOK, QueueInv,
         \A s \in S : envelope[c][s] # "queued", Move(c, S, x), UNCHANGED queue
  PROVE  QueueInv'
<1>1. /\ \A s \in Sinks : envelope'[c][s] = IF s \in S THEN x ELSE envelope[c][s]
      /\ \A d \in Calls : d # c => envelope'[d] = envelope[d]
  BY MoveFacts, ZenonT(40)
<1>2. \A s \in Sinks : \A i \in 1..Len(queue[s]) : queue[s][i] \in Calls
  BY DEF TypeOK
<1> QED BY <1>1, <1>2 DEF QueueInv

\* ... and when the first envelope leaves a channel.
LEMMA QueueTail ==
  ASSUME NEW s \in Sinks, NEW x, TypeOK, QueueInv, \A c \in Calls : CallInv(c),
         queue[s] # <<>>, Move(Head(queue[s]), {s}, x),
         queue' = [queue EXCEPT ![s] = Tail(@)]
  PROVE  /\ Head(queue[s]) \in Calls
         /\ envelope[Head(queue[s])][s] = "queued"
         /\ s \in Destinations[Head(queue[s])] /\ call[Head(queue[s])] # "idle"
         /\ queue' \in [Sinks -> Seq(Calls)]
         /\ QueueInv'
<1> DEFINE q == queue[s]
           c == q[1]
<1>1. q \in Seq(Calls) /\ Len(q) >= 1 /\ Head(q) = c /\ c \in Calls
  BY DEF TypeOK
<1>2. envelope[c][s] = "queued"
  BY <1>1 DEF QueueInv
<1>3. s \in Destinations[c] /\ call[c] # "idle"
  BY <1>1, <1>2 DEF CallInv, EnvelopeOf
<1>4. /\ Tail(q) \in Seq(Calls) /\ Len(Tail(q)) = Len(q) - 1
      /\ \A i \in 1..Len(Tail(q)) : Tail(q)[i] = q[i + 1]
  BY <1>1
<1>5. /\ queue' \in [Sinks -> Seq(Calls)] /\ queue'[s] = Tail(q)
      /\ \A t \in Sinks : t # s => queue'[t] = queue[t]
  BY <1>4 DEF TypeOK
<1>6. /\ \A t \in Sinks : t # s => envelope'[c][t] = envelope[c][t]
      /\ \A d \in Calls : d # c => envelope'[d] = envelope[d]
  <2>1. envelope' = [envelope EXCEPT ![c] = [t \in Sinks |->
                       IF t \in {s} THEN x ELSE envelope[c][t]]]
    BY <1>1 DEF Move
  <2> HIDE DEF c
  <2> QED BY <1>1, <2>1 DEF TypeOK
<1>7. QueueInv'
  <2> SUFFICES ASSUME NEW t \in Sinks, NEW i \in 1..Len(queue'[t])
               PROVE  /\ envelope'[queue'[t][i]][t] = "queued"
                      /\ \A j \in 1..Len(queue'[t]) : queue'[t][i] = queue'[t][j] => i = j
    BY DEF QueueInv
  <2>1. CASE t # s
    <3>1. queue[t][i] \in Calls /\ queue'[t] = queue[t]
      BY <1>5, <2>1 DEF TypeOK
    <3> QED BY <1>6, <2>1, <3>1 DEF QueueInv
  <2>2. CASE t = s
    <3>1. i + 1 \in 1..Len(q) /\ queue'[t][i] = q[i + 1] /\ q[i + 1] \in Calls
      BY <1>1, <1>4, <1>5, <2>2
    <3>2. q[i + 1] # c
      BY <1>1, <3>1 DEF QueueInv
    <3>3. envelope'[q[i + 1]][s] = "queued"
      BY <1>6, <3>1, <3>2 DEF QueueInv
    <3>4. ASSUME NEW j \in 1..Len(queue'[t]), queue'[t][i] = queue'[t][j] PROVE i = j
      <4>1. j + 1 \in 1..Len(q) /\ queue'[t][j] = q[j + 1]
        BY <1>1, <1>4, <1>5, <2>2
      <4> QED BY <3>1, <3>4, <4>1 DEF QueueInv
    <3> QED BY <2>2, <3>1, <3>3, <3>4
  <2> QED BY <2>1, <2>2
<1> QED BY <1>1, <1>2, <1>3, <1>5, <1>7

\* Branches complete, and everything else is as it should be.
LEMMA BranchStep ==
  ASSUME NEW c \in Calls, NEW S \in SUBSET Destinations[c], S # {},
         NEW ok \in BOOLEAN, NEW x \in {"settled", "gone"},
         FanoutInv, call[c] # "idle",
         \A s \in S : envelope[c][s] \in {"sending", "queued", "held"},
         Move(c, S, x), Complete(c, S, ok),
         call' \in [Calls -> CallStates], \A d \in Calls : d # c => call'[d] = call[d],
         call'[c] \in {call[c], "stopped", "aborted"},
         call'[c] = "stopped" => ~ok \/ call[c] = "stopped",
         call'[c] # "sending" => In(c, "sending") \subseteq S,
         written' \subseteq Calls \X Sinks,
         \A d \in Calls : \A s \in Sinks :
           <<d, s>> \in written' <=> <<d, s>> \in written \/ (ok /\ d = c /\ s \in S),
         queue' \in [Sinks -> Seq(Calls)], QueueInv', open' \in [Sinks -> BOOLEAN]
  PROVE  FanoutInv'
<1>1. TypeOK /\ QueueInv /\ \A d \in Calls : CallInv(d)
  BY Parts
<1>2. AckOf(c) /\ S \cap completed[c] = {}
  BY <1>1 DEF CallInv, AckOf, In
<1>3. OnlyAck(c)
  <2>1. TypeOK
    BY <1>1
  <2>2. AckOf(c) /\ S \cap completed[c] = {} /\ Complete(c, S, ok) /\ S # {}
    BY <1>2
  <2> QED BY ONLY <2>1, <2>2, CompleteFresh, c \in Calls, S \in SUBSET Destinations[c],
                  ok \in BOOLEAN
<1>5. /\ \A d \in Calls : d # c => envelope'[d] = envelope[d]
      /\ envelope' \in [Calls -> [Sinks -> {"none", "sending", "queued", "held",
                                            "settled", "gone"}]]
  BY <1>1, MoveFacts
<1>6. TypeOK'
  BY <1>3, <1>5 DEF TypeOK, OnlyAck
<1>7. CallInv(c)'
  <2>1. TypeOK /\ CallInv(c) /\ call[c] # "idle" /\ S # {} /\ Move(c, S, x) /\ Complete(c, S, ok)
    BY <1>1
  <2>2. /\ call'[c] \in {call[c], "stopped", "aborted"}
        /\ call'[c] = "stopped" => ~ok \/ call[c] = "stopped"
        /\ call'[c] # "sending" => In(c, "sending") \subseteq S
        /\ \A s \in S : envelope[c][s] \in {"sending", "queued", "held"}
        /\ \A s \in Sinks : <<c, s>> \in written' <=> <<c, s>> \in written \/ (ok /\ s \in S)
    OBVIOUS
  <2> QED BY ONLY <2>1, <2>2, BranchesComplete, c \in Calls, ok \in BOOLEAN,
                  S \in SUBSET Destinations[c], x \in {"settled", "gone"}
<1>8. ASSUME NEW d \in Calls, d # c PROVE CallInv(d)'
  <2>1. SameCall(d)
    BY <1>3, <1>5, <1>8 DEF SameCall, OnlyAck
  <2> QED BY <1>1, <2>1, SameCallInv
<1>9. \A d \in Calls : CallInv(d)'
  BY <1>7, <1>8
<1>10. FanoutInv' <=> TypeOK' /\ QueueInv' /\ \A d \in Calls : CallInv(d)'
  BY DEF FanoutInv, AckExact, CallInv
<1> QED BY <1>6, <1>9, <1>10

\* Steps of a call that complete no branch.
LEMMA PlainStep ==
  ASSUME NEW c \in Calls, FanoutInv, TypeOK', QueueInv', CallInv(c)',
         UNCHANGED <<completed, delivered, note, written>>,
         \A d \in Calls : d # c => /\ call'[d] = call[d] /\ envelope'[d] = envelope[d]
                                   /\ remaining'[d] = remaining[d]
  PROVE  FanoutInv'
<1>1. TypeOK /\ \A d \in Calls : CallInv(d)
  BY Parts
<1>2. ASSUME NEW d \in Calls, d # c PROVE CallInv(d)'
  <2>1. SameCall(d)
    BY <1>2 DEF SameCall
  <2> QED BY <1>1, <2>1, SameCallInv
<1>3. \A d \in Calls : CallInv(d)'
  BY <1>2
<1> QED BY <1>3 DEF FanoutInv, AckExact, CallInv

LEMMA InitInv == Init => FanoutInv
<1> SUFFICES ASSUME Init PROVE FanoutInv
  OBVIOUS
<1>1. TypeOK
  BY DEF Init, TypeOK
<1>2. QueueInv
  BY DEF Init, QueueInv
<1>3. ASSUME NEW c \in Calls PROVE CallInv(c)
  <2>1. /\ call[c] = "idle" /\ completed[c] = {} /\ remaining[c] = 0 /\ delivered[c]
        /\ note[c] = "none" /\ written = {} /\ \A s \in Sinks : envelope[c][s] = "none"
    BY DEF Init
  <2>2. Destinations[c] \subseteq Sinks
    BY FiniteDestinations
  <2>3. EnvelopeOf(c)
    BY <2>1, <2>2 DEF EnvelopeOf, In
  <2>4. VerdictOf(c)
    BY <2>1 DEF VerdictOf
  <2> QED BY <2>1, <2>3, <2>4 DEF CallInv
<1> QED BY <1>1, <1>2, <1>3, Parts

\* The first poll of a call makes its envelopes, or answers Ok at once.
LEMMA SendStep ==
  ASSUME FanoutInv, NEW c \in Calls, Send(c)
  PROVE  FanoutInv'
<1>1. /\ TypeOK /\ QueueInv /\ EnvelopeOf(c) /\ VerdictOf(c) /\ call[c] = "idle"
      /\ UNCHANGED <<completed, delivered, note, queue, open, written>>
  BY Parts DEF CallInv, Send
<1>2. /\ completed[c] = {} /\ delivered[c] /\ note[c] = "none"
      /\ \A s \in Sinks : envelope[c][s] = "none"
      /\ \A s \in Sinks : <<c, s>> \notin written
  BY <1>1 DEF EnvelopeOf, VerdictOf
<1>3. Destinations[c] \subseteq Sinks /\ Cardinality(Destinations[c]) \in Nat
      /\ (Cardinality(Destinations[c]) = 0 <=> Destinations[c] = {})
  BY FiniteDestinations
<1>4. CASE Destinations[c] = {}
  <2>1. call' = [call EXCEPT ![c] = "ok"] /\ UNCHANGED <<envelope, remaining>>
    BY <1>4 DEF Send
  <2>2. TypeOK' /\ QueueInv'
    BY <1>1, <2>1 DEF TypeOK, QueueInv
  <2>3. call'[c] = "ok" /\ \A d \in Calls : d # c => call'[d] = call[d]
    BY <1>1, <2>1 DEF TypeOK
  <2>4. AckOf(c)'
    <3>1. Cardinality({}) = 0
      BY FS_EmptySet
    <3>2. In(c, "settled")' = {} /\ In(c, "gone")' = {} /\ Destinations[c] \ completed'[c] = {}
      BY <1>4 DEF In
    <3>3. completed'[c] = {} /\ remaining'[c] = 0
      BY <1>1, <1>2, <2>1 DEF EnvelopeOf
    <3> QED BY <1>4, <3>1, <3>2, <3>3 DEF AckOf
  <2>5. EnvelopeOf(c)'
    BY <1>1, <1>2, <1>4, <2>1, <2>3 DEF EnvelopeOf, In
  <2>6. VerdictOf(c)'
    BY <1>1, <1>2, <1>4, <2>3 DEF VerdictOf
  <2>7. CallInv(c)'
    BY <2>4, <2>5, <2>6 DEF CallInv
  <2> QED BY <1>1, <2>1, <2>2, <2>3, <2>7, PlainStep
<1>5. CASE Destinations[c] # {}
  <2>1. /\ call' = [call EXCEPT ![c] = "sending"]
        /\ remaining' = [remaining EXCEPT ![c] = Cardinality(Destinations[c])]
        /\ Move(c, Destinations[c], "sending")
    BY <1>5 DEF Send
  <2>2. /\ \A s \in Sinks : envelope'[c][s] = IF s \in Destinations[c] THEN "sending"
                                                               ELSE "none"
        /\ \A d \in Calls : d # c => envelope'[d] = envelope[d]
        /\ envelope' \in [Calls -> [Sinks -> {"none", "sending", "queued", "held",
                                              "settled", "gone"}]]
    BY <1>1, <1>2, <2>1 DEF Move, TypeOK
  <2>3. TypeOK'
    BY <1>1, <1>3, <2>1, <2>2 DEF TypeOK
  <2>4. QueueInv'
    BY <1>1, <1>2, <1>3, <2>1, QueueSame
  <2>5. /\ call'[c] = "sending" /\ remaining'[c] = Cardinality(Destinations[c])
        /\ \A d \in Calls : d # c => call'[d] = call[d] /\ remaining'[d] = remaining[d]
    BY <1>1, <2>1 DEF TypeOK
  <2>6. AckOf(c)'
    <3>1. In(c, "settled")' = {} /\ In(c, "gone")' = {}
      BY <1>3, <2>2 DEF In
    <3>2. Destinations[c] \ completed'[c] = Destinations[c]
      BY <1>1, <1>2
    <3> QED BY <1>1, <1>2, <1>3, <1>5, <2>5, <3>1, <3>2 DEF AckOf
  <2>7. EnvelopeOf(c)'
    BY <1>3, <2>2, <2>5 DEF EnvelopeOf, In
  <2>8. VerdictOf(c)'
    BY <1>1, <1>2, <2>5 DEF VerdictOf
  <2>9. CallInv(c)'
    BY <2>6, <2>7, <2>8 DEF CallInv
  <2> QED BY <1>1, <2>2, <2>3, <2>4, <2>5, <2>9, PlainStep
<1> QED BY <1>4, <1>5

\* An envelope changes hands without being completed.
LEMMA HandOver ==
  ASSUME FanoutInv, NEW c \in Calls, NEW s \in Destinations[c],
         NEW x \in {"queued", "held"}, envelope[c][s] \in {"sending", "queued"},
         Move(c, {s}, x), queue' \in [Sinks -> Seq(Calls)], QueueInv',
         UNCHANGED <<call, completed, remaining, delivered, note, open, written>>
  PROVE  FanoutInv'
<1>1. TypeOK /\ CallInv(c) /\ Destinations[c] \subseteq Sinks
  BY Parts, FiniteDestinations
<1>2. /\ \A t \in Sinks : envelope'[c][t] = IF t \in {s} THEN x ELSE envelope[c][t]
      /\ \A d \in Calls : d # c => envelope'[d] = envelope[d]
      /\ envelope' \in [Calls -> [Sinks -> {"none", "sending", "queued", "held",
                                            "settled", "gone"}]]
  BY <1>1 DEF Move, TypeOK
<1>3. TypeOK'
  BY <1>1, <1>2 DEF TypeOK
<1>4. /\ In(c, "settled")' = In(c, "settled") /\ In(c, "gone")' = In(c, "gone")
      /\ In(c, "sending")' \subseteq In(c, "sending")
  BY <1>1, <1>2 DEF In
<1>5. /\ AckOf(c)' <=> AckOf(c)
      /\ VerdictOf(c)' <=> VerdictOf(c)
  BY <1>4 DEF AckOf, VerdictOf
<1>6. EnvelopeOf(c)'
  BY <1>1, <1>2, <1>4 DEF CallInv, EnvelopeOf
<1>7. CallInv(c)'
  BY <1>1, <1>5, <1>6 DEF CallInv
<1> QED BY <1>2, <1>3, <1>7, PlainStep

\* A send future puts its envelope at the end of the channel.
LEMMA EnqueueStep ==
  ASSUME FanoutInv, NEW c \in Calls, NEW s \in Sinks, Enqueue(c, s)
  PROVE  FanoutInv'
<1>1. /\ s \in Destinations[c] /\ envelope[c][s] = "sending" /\ Move(c, {s}, "queued")
      /\ queue' = [queue EXCEPT ![s] = Append(@, c)]
      /\ UNCHANGED <<call, completed, remaining, delivered, note, open, written>>
  BY DEF Enqueue, In
<1>2. TypeOK /\ QueueInv
  BY Parts
<1>3. /\ \A t \in Sinks : envelope'[c][t] = IF t \in {s} THEN "queued" ELSE envelope[c][t]
      /\ \A d \in Calls : d # c => envelope'[d] = envelope[d]
  BY <1>1, <1>2 DEF Move, TypeOK
<1> DEFINE q == queue[s]
<1>4. /\ q \in Seq(Calls) /\ Append(q, c) \in Seq(Calls)
      /\ Len(Append(q, c)) = Len(q) + 1 /\ Append(q, c)[Len(q) + 1] = c
      /\ \A i \in 1..Len(q) : Append(q, c)[i] = q[i] /\ q[i] \in Calls
  BY <1>2 DEF TypeOK
<1>5. /\ queue' \in [Sinks -> Seq(Calls)] /\ queue'[s] = Append(q, c)
      /\ \A t \in Sinks : t # s => queue'[t] = queue[t]
  BY <1>1, <1>2, <1>4 DEF TypeOK
<1>6. QueueInv'
  <2> SUFFICES ASSUME NEW t \in Sinks, NEW i \in 1..Len(queue'[t])
               PROVE  /\ envelope'[queue'[t][i]][t] = "queued"
                      /\ \A j \in 1..Len(queue'[t]) : queue'[t][i] = queue'[t][j] => i = j
    BY DEF QueueInv
  <2>1. CASE t # s
    <3>1. queue[t][i] \in Calls /\ queue'[t] = queue[t]
      BY <1>2, <1>5, <2>1 DEF TypeOK
    <3> QED BY <1>2, <1>3, <2>1, <3>1 DEF QueueInv
  <2>2. CASE t = s
    <3>1. \A j \in 1..Len(q) : q[j] # c /\ envelope[q[j]][s] = "queued"
      BY <1>1, <1>2 DEF QueueInv
    <3>2. \A j, k \in 1..Len(q) : q[j] = q[k] => j = k
      BY <1>2 DEF QueueInv
    <3>3. envelope'[c][s] = "queued" /\ \A j \in 1..Len(q) : envelope'[q[j]][s] = "queued"
      BY <1>3, <1>4, <3>1
    <3> HIDE DEF q
    <3> QED BY <1>4, <1>5, <2>2, <3>1, <3>2, <3>3
  <2> QED BY <2>1, <2>2
<1> QED BY <1>1, <1>5, <1>6, HandOver

\* A sink takes the first envelope of its channel.
LEMMA ReceiveStep ==
  ASSUME FanoutInv, NEW s \in Sinks, Receive(s)
  PROVE  FanoutInv'
<1>1. TypeOK /\ QueueInv /\ \A c \in Calls : CallInv(c)
  BY Parts
<1>2. PICK c : c = Head(queue[s])
  OBVIOUS
<1>3. /\ c \in Calls /\ envelope[c][s] = "queued" /\ s \in Destinations[c]
      /\ queue' \in [Sinks -> Seq(Calls)] /\ QueueInv'
  BY <1>1, <1>2, QueueTail DEF Receive
<1>4. Move(c, {s}, "held")
  BY <1>2 DEF Receive, Move
<1> QED BY <1>3, <1>4, HandOver DEF Receive

\* All envelopes of the call are in the channels.
LEMMA SentStep ==
  ASSUME FanoutInv, NEW c \in Calls, Sent(c)
  PROVE  FanoutInv'
<1>1. TypeOK /\ QueueInv /\ CallInv(c) /\ call[c] = "sending" /\ In(c, "sending") = {}
  BY Parts DEF Sent
<1>2. /\ call'[c] = "waiting" /\ \A d \in Calls : d # c => call'[d] = call[d]
      /\ UNCHANGED <<envelope, completed, remaining, delivered, note, queue, open, written>>
  BY <1>1 DEF Sent, TypeOK
<1>3. TypeOK' /\ QueueInv'
  BY <1>1, <1>2 DEF Sent, TypeOK, QueueInv
<1>4. CallInv(c)'
  BY <1>1, <1>2 DEF CallInv, AckOf, EnvelopeOf, VerdictOf, In
<1> QED BY <1>2, <1>3, <1>4, PlainStep

\* The call answers what the AckState said.
LEMMA AnswerStep ==
  ASSUME FanoutInv, NEW c \in Calls, Answer(c)
  PROVE  FanoutInv'
<1>1. TypeOK /\ QueueInv /\ CallInv(c) /\ call[c] = "waiting"
  BY Parts DEF Answer
<1>2. /\ \/ note[c] = "true" /\ call' = [call EXCEPT ![c] = "ok"]
         \/ note[c] = "false" /\ call' = [call EXCEPT ![c] = "rejected"]
      /\ UNCHANGED <<envelope, completed, remaining, delivered, note, queue, open, written>>
  BY <1>1 DEF Answer, TypeOK
<1>3. TypeOK' /\ QueueInv' /\ \A d \in Calls : d # c => call'[d] = call[d]
  BY <1>1, <1>2 DEF TypeOK, QueueInv
<1>4. \/ note[c] = "true" /\ call'[c] = "ok"
      \/ note[c] = "false" /\ call'[c] = "rejected"
  BY <1>1, <1>2 DEF TypeOK
<1>5. CallInv(c)'
  BY <1>1, <1>2, <1>4 DEF CallInv, AckOf, EnvelopeOf, VerdictOf, In
<1> QED BY <1>2, <1>3, <1>5, PlainStep

\* A closed channel ends the call, and the envelopes it still owns are dropped.
LEMMA SendFailsStep ==
  ASSUME FanoutInv, NEW c \in Calls, NEW s \in Sinks, SendFails(c, s)
  PROVE  FanoutInv'
<1>1. TypeOK /\ QueueInv
  BY Parts
<1>2. PICK S : S = In(c, "sending")
  OBVIOUS
<1>3. /\ call[c] = "sending" /\ s \in S /\ S \in SUBSET Destinations[c] /\ S # {}
      /\ \A t \in S : envelope[c][t] = "sending"
      /\ call' = [call EXCEPT ![c] = "stopped"] /\ In(c, "sending") \subseteq S
      /\ UNCHANGED <<queue, open, written>>
  BY <1>2 DEF SendFails, In
<1>4. Move(c, S, "gone")
  BY <1>2 DEF SendFails
<1>5. Complete(c, S, FALSE)
  BY <1>2 DEF SendFails, Drop
<1>6. QueueInv'
  BY <1>1, <1>3, <1>4, QueueSame
<1>7. /\ queue' \in [Sinks -> Seq(Calls)] /\ open' \in [Sinks -> BOOLEAN]
      /\ written' \subseteq Calls \X Sinks
      /\ \A d \in Calls : \A t \in Sinks : <<d, t>> \in written' <=>
           <<d, t>> \in written \/ (FALSE /\ d = c /\ t \in S)
      /\ \A t \in S : envelope[c][t] \in {"sending", "queued", "held"}
      /\ call[c] # "idle" /\ call' \in [Calls -> CallStates] /\ call'[c] = "stopped"
      /\ \A d \in Calls : d # c => call'[d] = call[d]
  BY <1>1, <1>3 DEF TypeOK
<1> QED BY ONLY <1>3, <1>4, <1>5, <1>6, <1>7, BranchStep, FanoutInv, c \in Calls

\* A call is aborted: the envelopes it still owns are dropped.
LEMMA AbortStep ==
  ASSUME FanoutInv, NEW c \in Calls, Abort(c)
  PROVE  FanoutInv'
<1>1. TypeOK /\ QueueInv /\ CallInv(c)
  BY Parts
<1>2. PICK S : S = In(c, "sending")
  OBVIOUS
<1>3. /\ call[c] \in {"sending", "waiting"} /\ S \in SUBSET Destinations[c]
      /\ \A t \in S : envelope[c][t] = "sending"
      /\ call' = [call EXCEPT ![c] = "aborted"] /\ In(c, "sending") \subseteq S
      /\ UNCHANGED <<queue, open, written>>
  BY <1>2 DEF Abort, In
<1>4. Move(c, S, "gone")
  BY <1>2 DEF Abort
<1>5. Complete(c, S, FALSE)
  BY <1>2 DEF Abort, Drop
<1>6. QueueInv'
  BY <1>1, <1>3, <1>4, QueueSame
<1>7. CASE S # {}
  <2>1. /\ queue' \in [Sinks -> Seq(Calls)] /\ open' \in [Sinks -> BOOLEAN]
        /\ written' \subseteq Calls \X Sinks
        /\ \A d \in Calls : \A t \in Sinks : <<d, t>> \in written' <=>
             <<d, t>> \in written \/ (FALSE /\ d = c /\ t \in S)
        /\ \A t \in S : envelope[c][t] \in {"sending", "queued", "held"}
        /\ call[c] # "idle" /\ call' \in [Calls -> CallStates] /\ call'[c] = "aborted"
        /\ \A d \in Calls : d # c => call'[d] = call[d]
    BY <1>1, <1>3 DEF TypeOK
  <2> QED BY ONLY <1>3, <1>4, <1>5, <1>6, <1>7, <2>1, BranchStep, FanoutInv, c \in Calls
<1>8. CASE S = {}
  <2>1. UNCHANGED <<completed, remaining, delivered, note>>
    <3>1. S \in SUBSET completed[c]
      BY <1>8
    <3> QED BY ONLY <3>1, <1>1, <1>5, CompleteAgain, c \in Calls
  <2>2. envelope' = envelope
    <3>1. envelope' = [envelope EXCEPT ![c] = [t \in Sinks |-> envelope[c][t]]]
      BY <1>4, <1>8 DEF Move
    <3> QED BY <1>1, <3>1 DEF TypeOK
  <2>3. call'[c] = "aborted" /\ \A d \in Calls : d # c => call'[d] = call[d]
    BY <1>1, <1>3 DEF TypeOK
  <2>4. TypeOK'
    BY <1>1, <1>3, <2>1, <2>2 DEF TypeOK
  <2>5. CallInv(c)'
    BY <1>1, <1>2, <1>3, <1>8, <2>1, <2>2, <2>3 DEF CallInv, AckOf, EnvelopeOf, VerdictOf, In
  <2> QED BY <1>3, <1>6, <2>1, <2>2, <2>3, <2>4, <2>5, PlainStep
<1> QED BY <1>7, <1>8

\* One branch completes and its call stays where it is.
LEMMA OneBranch ==
  ASSUME FanoutInv, NEW c \in Calls, NEW s \in Destinations[c], NEW ok \in BOOLEAN,
         NEW x \in {"settled", "gone"}, envelope[c][s] \in {"queued", "held"},
         Move(c, {s}, x), Complete(c, {s}, ok),
         written' = IF ok THEN written \union {<<c, s>>} ELSE written,
         queue' \in [Sinks -> Seq(Calls)], QueueInv', UNCHANGED <<call, open>>
  PROVE  FanoutInv'
<1>1. TypeOK /\ CallInv(c) /\ Destinations[c] \subseteq Sinks
  BY Parts, FiniteDestinations
<1>2. PICK S : S = {s}
  OBVIOUS
<1>3. S \in SUBSET Destinations[c] /\ S # {} /\ Move(c, S, x) /\ Complete(c, S, ok)
  BY <1>2
<1>4. call[c] # "idle" /\ (call[c] # "sending" => In(c, "sending") \subseteq S)
  BY <1>1 DEF CallInv, EnvelopeOf
<1>5. /\ open' \in [Sinks -> BOOLEAN] /\ call' \in [Calls -> CallStates]
      /\ \A d \in Calls : call'[d] = call[d]
      /\ written' \subseteq Calls \X Sinks
      /\ \A d \in Calls : \A t \in Sinks : <<d, t>> \in written' <=>
           <<d, t>> \in written \/ (ok /\ d = c /\ t \in S)
      /\ \A t \in S : envelope[c][t] \in {"sending", "queued", "held"}
  BY <1>1, <1>2 DEF TypeOK
<1>6. queue' \in [Sinks -> Seq(Calls)] /\ QueueInv' /\ FanoutInv
  OBVIOUS
<1>7. /\ call'[c] \in {call[c], "stopped", "aborted"}
      /\ call'[c] = "stopped" => ~ok \/ call[c] = "stopped"
      /\ call'[c] # "sending" => In(c, "sending") \subseteq S
      /\ \A d \in Calls : d # c => call'[d] = call[d]
  BY <1>4, <1>5
<1> QED BY ONLY <1>3, <1>4, <1>5, <1>6, <1>7, BranchStep, c \in Calls, ok \in BOOLEAN,
                x \in {"settled", "gone"}, SMTT(30)

\* A sink reports what became of the batch.
LEMMA SettleStep ==
  ASSUME FanoutInv, NEW c \in Calls, NEW s \in Sinks, NEW ok \in BOOLEAN, Settle(c, s, ok)
  PROVE  FanoutInv'
<1>1. /\ s \in Destinations[c] /\ envelope[c][s] = "held" /\ Move(c, {s}, "settled")
      /\ Complete(c, {s}, ok) /\ UNCHANGED <<call, queue, open>>
      /\ written' = IF ok THEN written \union {<<c, s>>} ELSE written
  BY DEF Settle, In
<1>2. TypeOK /\ QueueInv
  BY Parts
<1>3. QueueInv'
  BY <1>1, <1>2, QueueSame
<1>4. queue' \in [Sinks -> Seq(Calls)]
  BY <1>1, <1>2 DEF TypeOK
<1> QED BY <1>1, <1>3, <1>4, OneBranch

\* An envelope is lost: its Drop completes the branch.
LEMMA AbandonStep ==
  ASSUME FanoutInv, NEW c \in Calls, NEW s \in Sinks, Abandon(c, s)
  PROVE  FanoutInv'
<1>1. /\ s \in Destinations[c] /\ envelope[c][s] = "held" /\ Move(c, {s}, "gone")
      /\ Complete(c, {s}, FALSE) /\ UNCHANGED <<call, queue, open, written>>
  BY DEF Abandon, In, Drop
<1>2. TypeOK /\ QueueInv
  BY Parts
<1>3. QueueInv'
  BY <1>1, <1>2, QueueSame
<1>4. queue' \in [Sinks -> Seq(Calls)]
  BY <1>1, <1>2 DEF TypeOK
<1> QED BY <1>1, <1>3, <1>4, OneBranch

\* A closed channel loses its envelopes one by one.
LEMMA DrainStep ==
  ASSUME FanoutInv, NEW s \in Sinks, Drain(s)
  PROVE  FanoutInv'
<1>1. TypeOK /\ QueueInv /\ \A c \in Calls : CallInv(c)
  BY Parts
<1>2. PICK c : c = Head(queue[s])
  OBVIOUS
<1>3. /\ c \in Calls /\ envelope[c][s] = "queued" /\ s \in Destinations[c]
      /\ queue' \in [Sinks -> Seq(Calls)] /\ QueueInv'
  BY <1>1, <1>2, QueueTail DEF Drain
<1>4. Move(c, {s}, "gone")
  BY <1>2 DEF Drain, Move
<1>5. Complete(c, {s}, FALSE)
  BY <1>2 DEF Drain, Drop, Complete, Fresh
<1> QED BY <1>3, <1>4, <1>5, OneBranch DEF Drain

\* The second completion of a settled envelope changes nothing.
LEMMA DropSettledStep ==
  ASSUME FanoutInv, NEW c \in Calls, NEW s \in Sinks, DropSettled(c, s)
  PROVE  FanoutInv'
<1>1. /\ s \in Destinations[c] /\ envelope[c][s] = "settled" /\ Move(c, {s}, "gone")
      /\ Complete(c, {s}, FALSE) /\ UNCHANGED <<call, queue, open, written>>
  BY DEF DropSettled, In, Drop
<1>2. TypeOK /\ QueueInv /\ CallInv(c) /\ call[c] # "idle"
  BY <1>1, Parts DEF CallInv, EnvelopeOf
<1>3. {s} \in SUBSET completed[c]
  BY <1>1, <1>2 DEF CallInv, AckOf, In
<1>4. UNCHANGED <<completed, remaining, delivered, note>>
  BY ONLY <1>1, <1>2, <1>3, CompleteAgain, c \in Calls
<1>5. QueueInv'
  BY <1>1, <1>2, QueueSame
<1>6. /\ \A t \in Sinks : envelope'[c][t] = IF t \in {s} THEN "gone" ELSE envelope[c][t]
      /\ \A d \in Calls : d # c => envelope'[d] = envelope[d]
      /\ envelope' \in [Calls -> [Sinks -> {"none", "sending", "queued", "held",
                                            "settled", "gone"}]]
  BY <1>1, <1>2 DEF Move, TypeOK
<1>7. TypeOK'
  BY <1>1, <1>2, <1>4, <1>6 DEF TypeOK
<1>8. CallInv(c)'
  <2>1. Destinations[c] \subseteq Sinks
    BY FiniteDestinations
  <2>2. /\ In(c, "settled")' \union In(c, "gone")' = In(c, "settled") \union In(c, "gone")
        /\ In(c, "sending")' = In(c, "sending")
    BY <1>1, <1>6, <2>1 DEF In
  <2>3. AckOf(c)'
    BY <1>2, <1>4, <2>2 DEF CallInv, AckOf
  <2>4. EnvelopeOf(c)'
    BY <1>1, <1>2, <1>4, <1>6, <2>2 DEF CallInv, EnvelopeOf
  <2>5. VerdictOf(c)'
    BY <1>1, <1>2, <1>4 DEF CallInv, VerdictOf
  <2> QED BY <2>3, <2>4, <2>5 DEF CallInv
<1> QED BY <1>1, <1>4, <1>5, <1>6, <1>7, <1>8, PlainStep

\* A sink's receiver goes away, or nothing happens.
LEMMA OnlyOpen ==
  ASSUME FanoutInv, open' \in [Sinks -> BOOLEAN],
         UNCHANGED <<call, envelope, completed, remaining, delivered, note, queue, written>>
  PROVE  FanoutInv'
<1>1. TypeOK /\ QueueInv /\ \A c \in Calls : CallInv(c)
  BY Parts
<1>2. TypeOK' /\ QueueInv'
  BY <1>1 DEF TypeOK, QueueInv
<1>3. \A c \in Calls : SameCall(c)
  BY DEF SameCall
<1>4. \A c \in Calls : CallInv(c)'
  BY <1>1, <1>3, SameCallInv
<1> QED BY <1>2, <1>4 DEF FanoutInv, AckExact, CallInv

\* FanoutInv is inductive.
LEMMA StepInv == FanoutInv /\ [Next]_vars => FanoutInv'
<1> SUFFICES ASSUME FanoutInv, [Next]_vars PROVE FanoutInv'
  OBVIOUS
<1>1. CASE UNCHANGED vars
  BY <1>1, OnlyOpen DEF vars, FanoutInv, TypeOK
<1>2. ASSUME NEW s \in Sinks, Close(s) PROVE FanoutInv'
  BY <1>2, OnlyOpen DEF Close, FanoutInv, TypeOK
<1>3. ASSUME NEW c \in Calls, CallStep(c) PROVE FanoutInv'
  BY <1>3, SendStep, EnqueueStep, SendFailsStep, SentStep, AnswerStep, AbortStep
  DEF CallStep
<1>4. ASSUME NEW s \in Sinks, SinkStep(s) PROVE FanoutInv'
  BY <1>2, <1>4, ReceiveStep, SettleStep, DropSettledStep, AbandonStep, DrainStep
  DEF SinkStep
<1> QED BY <1>1, <1>3, <1>4 DEF Next

\* The inductive invariant of Fanout::send and its acknowledgements.
THEOREM FanoutInvariant == Spec => []FanoutInv
BY InitInv, StepInv, PTL DEF Spec

\* The answer is Ok only when no branch is left and none has failed.
LEMMA OkIsWritten == FanoutInv => OkMeansDelivered
<1> SUFFICES ASSUME FanoutInv, NEW c \in Calls, call[c] = "ok", NEW s \in Destinations[c]
             PROVE  <<c, s>> \in written
  BY DEF OkMeansDelivered
<1>1. TypeOK /\ AckOf(c) /\ VerdictOf(c)
  BY DEF FanoutInv, AckExact
<1>2. remaining[c] = 0 /\ delivered[c]
  BY <1>1 DEF AckOf, VerdictOf
<1>3. Destinations[c] \ completed[c] = {}
  BY <1>1, <1>2, FiniteDestinations DEF AckOf
<1> QED BY <1>1, <1>2, <1>3 DEF VerdictOf

\* A call answers Ok only if every destination reported the batch as delivered.
THEOREM OkIsDelivered == Spec => []OkMeansDelivered
BY OkIsWritten, FanoutInvariant, PTL

\* The count of every AckState is exact; it never underflows.
THEOREM AckIsExact == Spec => []AckExact
<1>1. FanoutInv => AckExact
  BY DEF FanoutInv
<1> QED BY <1>1, FanoutInvariant, PTL

\* A batch is rejected only if some destination did not report it as delivered.
THEOREM RejectionHasCause == Spec => []RejectedForCause
<1>1. FanoutInv => RejectedForCause
  <2> SUFFICES ASSUME FanoutInv, NEW c \in Calls, call[c] \in {"rejected", "stopped"}
               PROVE  \E s \in Destinations[c] : <<c, s>> \notin written
    BY DEF RejectedForCause
  <2>1. AckOf(c) /\ VerdictOf(c)
    BY DEF FanoutInv, AckExact
  <2>2. PICK s \in completed[c] : <<c, s>> \notin written
    BY <2>1 DEF VerdictOf
  <2> QED BY <2>1, <2>2 DEF AckOf, In
<1> QED BY <1>1, FanoutInvariant, PTL

\* Fanout::send keeps every variable within its type.
THEOREM TypeCorrect == Spec => []TypeOK
<1>1. FanoutInv => TypeOK
  BY DEF FanoutInv
<1> QED BY <1>1, FanoutInvariant, PTL
=============================================================================
