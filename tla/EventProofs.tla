---------------------------- MODULE EventProofs ----------------------------
(***************************************************************************)
(* Proofs about the bytes of an event: how they come in (Intake) and how   *)
(* they go out to ClickHouse (JsonRow, ClickhouseSink), for any messages,  *)
(* chunks, topics, batches, payloads and keys.                             *)
(***************************************************************************)
EXTENDS Intake, ClickhouseSink, Sums

----------------------------------------------------------------------------
(* The largest of finitely many numbers *)

LEMMA MaxNumber ==
  ASSUME NEW S \in SUBSET Nat, IsFiniteSet(S), S # {}
  PROVE  Max(S) \in S /\ \A x \in S : x <= Max(S)
<1> DEFINE Good(t) == \E m \in t : \A x \in t : x <= m
           P == {n \in Nat : \A t \in SUBSET S : Cardinality(t) = n + 1 => Good(t)}
<1>0. \A t \in SUBSET S : IsFiniteSet(t) /\ Cardinality(t) \in Nat
  BY FS_Subset, FS_CardinalityType
<1>1. ASSUME NEW t \in SUBSET S, NEW n \in Nat, Cardinality(t) = n + 1
      PROVE  \E x \in t : \E r \in SUBSET S : t = r \union {x} /\ Cardinality(r) = n
  <2>1. t # {} /\ IsFiniteSet(t)
    BY <1>0, <1>1, FS_EmptySet
  <2>2. PICK x \in t : TRUE
    BY <2>1
  <2>3. Cardinality(t \ {x}) = n
    <3>1. Cardinality(t \ {x}) = Cardinality(t) - 1
      BY <2>1, FS_RemoveElement
    <3> QED BY <1>1, <3>1
  <2> QED BY <2>2, <2>3
<1>2. 0 \in P
  <2> SUFFICES ASSUME NEW t \in SUBSET S, Cardinality(t) = 0 + 1 PROVE Good(t)
    OBVIOUS
  <2>1. PICK x \in t, r \in SUBSET S : t = r \union {x} /\ Cardinality(r) = 0
    BY <1>1
  <2>2. r = {}
    BY <1>0, <2>1, FS_EmptySet
  <2> QED BY <2>1, <2>2
<1>3. ASSUME NEW n \in Nat, n \in P PROVE n + 1 \in P
  <2> SUFFICES ASSUME NEW t \in SUBSET S, Cardinality(t) = n + 1 + 1 PROVE Good(t)
    OBVIOUS
  <2>1. PICK x \in t, r \in SUBSET S : t = r \union {x} /\ Cardinality(r) = n + 1
    BY <1>1
  <2>2. PICK m \in r : \A z \in r : z <= m
    BY <1>3, <2>1
  <2>3. x \in Nat /\ m \in Nat /\ \A z \in r : z \in Nat
    BY <2>1, <2>2
  <2>4. CASE x <= m
    BY <2>1, <2>2, <2>4
  <2>5. CASE m <= x
    <3>1. \A z \in t : z <= x
      BY <2>1, <2>2, <2>3, <2>5
    <3> QED BY <3>1
  <2> QED BY <2>3, <2>4, <2>5
<1>4. P = Nat
  <2> HIDE DEF P
  <2>1. P \in SUBSET Nat
    BY DEF P
  <2> QED BY <1>2, <1>3, <2>1, SetInduction
<1>5. Good(S)
  <2>1. Cardinality(S) \in Nat /\ Cardinality(S) # 0
    BY <1>0, FS_EmptySet
  <2>2. Cardinality(S) - 1 \in Nat /\ Cardinality(S) = (Cardinality(S) - 1) + 1
    BY <2>1
  <2>3. PICK n \in Nat : Cardinality(S) = n + 1
    BY <2>2
  <2> QED BY <1>4, <2>3
<1>6. \E m \in S : \A x \in S : m >= x
  BY <1>5
<1>7. Max(S) \in S /\ \A x \in S : Max(S) >= x
  BY <1>6 DEF Max
<1> QED BY <1>7

----------------------------------------------------------------------------
(* The arena: what copying one value does *)

\* The largest chunk there can be.
Largest == Max({Chunk} \union KeySizes \union PayloadSizes)

\* Every chunk has the default size or was made for one larger value, which
\* fills it; some of the last chunk is used.
ArenaOK(a) ==
    /\ a \in [sizes : Seq(Nat), left : Nat]
    /\ \A i \in 1..Len(a.sizes) : Chunk <= a.sizes[i] /\ a.sizes[i] <= Largest
    /\ Len(a.sizes) = 0 => a.left = 0
    /\ Len(a.sizes) # 0 => /\ a.left < a.sizes[Len(a.sizes)]
                           /\ a.left # 0 => a.sizes[Len(a.sizes)] = Chunk

\* Bytes copied into the last chunk.
Used(a) == a.sizes[Len(a.sizes)] - a.left

\* The chunks before the last one cost less than twice what was copied.
Spent(a, total) ==
    Len(a.sizes) # 0 => (Len(a.sizes) - 1) * Chunk + Used(a) <= 2 * total

Cost(a, C) == SumFunctionOnSet(a.sizes, C)

\* A batch of y bytes is under assembly, with views of the chunks C: all of them
\* but the first and the last it filled alone.  `own` is what it has in the last.
Assembles(a, C, y) ==
    /\ C \subseteq 1..Len(a.sizes)
    /\ C # {} => /\ Len(a.sizes) \in C
                 /\ \E own \in Nat :
                      /\ Cost(a, C) + own <= 2 * Chunk + 2 * y
                      /\ own = Used(a) \/ (own <= Used(a) /\ Cost(a, C) <= Chunk)

\* A batch of y bytes that left, with views of the chunks C.
Assembled(a, C, y) == C \subseteq 1..Len(a.sizes) /\ Cost(a, C) <= 2 * Chunk + 2 * y

\* b has the chunks of a.
Extended(a, b) ==
    Len(a.sizes) <= Len(b.sizes) /\ \A i \in 1..Len(a.sizes) : b.sizes[i] = a.sizes[i]

LEMMA Sizes ==
  /\ Chunk \in Nat \ {0} /\ Largest \in Nat /\ Chunk <= Largest
  /\ \A n \in KeySizes \union PayloadSizes : n \in Nat /\ n <= Largest
<1> DEFINE S == {Chunk} \union KeySizes \union PayloadSizes
<1>1. S \in SUBSET Nat /\ S # {} /\ Chunk \in Nat \ {0}
  BY IntakeAssumption
<1>2. IsFiniteSet(S)
  <2>1. S = (KeySizes \union PayloadSizes) \union {Chunk}
    OBVIOUS
  <2> QED BY <2>1, IntakeAssumption, FS_AddElement
<1>3. Max(S) \in S /\ \A x \in S : x <= Max(S)
  BY <1>1, <1>2, MaxNumber
<1> QED BY <1>1, <1>3 DEF Largest

LEMMA AllocationIs ==
  ASSUME NEW n \in Nat
  PROVE  /\ Allocation(n) \in {Chunk, n} /\ Chunk <= Allocation(n) /\ n <= Allocation(n)
         /\ Allocation(n) = n \/ (Allocation(n) = Chunk /\ n <= Chunk)
<1>1. Chunk \in Nat
  BY Sizes
<1>2. \E x \in {Chunk, n} : \A z \in {Chunk, n} : x >= z
  BY <1>1
<1>3. Allocation(n) \in {Chunk, n} /\ \A z \in {Chunk, n} : Allocation(n) >= z
  BY <1>2 DEF Allocation, Max
<1> QED BY <1>1, <1>3

LEMMA CostIs ==
  ASSUME NEW a, a.sizes \in Seq(Nat), NEW C \in SUBSET (1..Len(a.sizes))
  PROVE  IsFiniteSet(C) /\ Cost(a, C) \in Nat
<1>1. Len(a.sizes) \in Nat /\ \A i \in C : a.sizes[i] \in Nat
  OBVIOUS
<1>2. IsFiniteSet(C)
  <2>1. PICK n \in Nat : n = Len(a.sizes)
    BY <1>1
  <2>2. IsFiniteSet(1..n)
    BY <2>1, FS_Interval
  <2> QED BY <2>1, <2>2, FS_Subset
<1> QED BY <1>1, <1>2, SumType DEF Cost

\* The cost of chunks does not change as chunks are added.
LEMMA CostStays ==
  ASSUME NEW a, NEW b, a.sizes \in Seq(Nat), b.sizes \in Seq(Nat), Extended(a, b),
         NEW C \in SUBSET (1..Len(a.sizes))
  PROVE  Cost(b, C) = Cost(a, C) /\ C \in SUBSET (1..Len(b.sizes))
<1>1. IsFiniteSet(C) /\ \A i \in C : b.sizes[i] = a.sizes[i]
  BY CostIs DEF Extended
<1>2. Cost(b, C) = Cost(a, C)
  BY <1>1, SumAgree DEF Cost
<1> QED BY <1>2 DEF Extended

LEMMA CopySpends ==
  ASSUME NEW a, ArenaOK(a), NEW n \in Nat, n <= Largest, NEW t \in Nat, Spent(a, t)
  PROVE  ArenaOK(copy(a, n)) /\ Extended(a, copy(a, n)) /\ Spent(copy(a, n), t + n)
<1> DEFINE b == copy(a, n)
<1>0. /\ a.sizes \in Seq(Nat) /\ a.left \in Nat /\ Len(a.sizes) \in Nat
      /\ Chunk \in Nat \ {0} /\ Largest \in Nat /\ Chunk <= Largest
  BY Sizes DEF ArenaOK
<1>1. CASE n = 0
  BY <1>0, <1>1 DEF copy, Extended, Spent
<1>2. CASE n # 0 /\ Fits(a, n)
  <2>1. b = [a EXCEPT !.left = @ - n]
    BY <1>2 DEF copy
  <2>2. b.sizes = a.sizes /\ b.left = a.left - n /\ b \in [sizes : Seq(Nat), left : Nat]
    BY <1>0, <1>2, <2>1 DEF ArenaOK, Fits
  <2>3. a.left # 0 /\ Len(a.sizes) # 0
    BY <1>0, <1>2 DEF ArenaOK, Fits
  <2> HIDE DEF b
  <2>4. ArenaOK(b)
    BY <1>0, <1>2, <2>2, <2>3 DEF ArenaOK
  <2>5. a.sizes[Len(a.sizes)] \in Nat
    BY <1>0, <2>3
  <2>6. PICK p \in Nat : p = (Len(a.sizes) - 1) * Chunk
    BY <1>0, <2>3
  <2>7. p + Used(a) <= 2 * t /\ Used(b) = Used(a) + n
    BY <1>0, <2>2, <2>3, <2>5, <2>6 DEF Spent, Used
  <2>8. p + Used(b) <= 2 * (t + n)
    BY <1>0, <2>5, <2>7 DEF Used
  <2> QED BY <2>2, <2>4, <2>6, <2>8 DEF Spent, Extended, b
<1>3. CASE n # 0 /\ ~Fits(a, n)
  <2>1. b = [sizes |-> Append(a.sizes, Allocation(n)), left |-> Allocation(n) - n]
    BY <1>3 DEF copy
  <2>2. /\ Allocation(n) \in Nat /\ n <= Allocation(n) /\ Chunk <= Allocation(n)
        /\ Allocation(n) <= Largest /\ (Allocation(n) = n \/ Allocation(n) = Chunk)
    BY <1>0, AllocationIs
  <2>3. PICK c \in Nat : c = Allocation(n)
    BY <2>2
  <2>4. /\ b.sizes = Append(a.sizes, c) /\ b.left = c - n
        /\ b.sizes \in Seq(Nat) /\ b.left \in Nat /\ b \in [sizes : Seq(Nat), left : Nat]
        /\ Len(b.sizes) = Len(a.sizes) + 1 /\ b.sizes[Len(b.sizes)] = c
        /\ \A i \in 1..Len(a.sizes) : b.sizes[i] = a.sizes[i]
    BY <1>0, <2>1, <2>2, <2>3
  <2> HIDE DEF b
  <2>5. ArenaOK(b)
    <3>1. \A i \in 1..Len(b.sizes) : i \in 1..Len(a.sizes) \/ i = Len(b.sizes)
      BY <1>0, <2>4
    <3>2. \A i \in 1..Len(b.sizes) : Chunk <= b.sizes[i] /\ b.sizes[i] <= Largest
      BY <2>2, <2>3, <2>4, <3>1 DEF ArenaOK
    <3>3. c - n < c /\ (c - n # 0 => c = Chunk)
      BY <1>3, <2>2, <2>3
    <3>4. /\ b.left < b.sizes[Len(b.sizes)]
          /\ b.left # 0 => b.sizes[Len(b.sizes)] = Chunk
      BY <2>4, <3>3
    <3>5. Len(b.sizes) # 0
      BY <1>0, <2>4
    <3> QED BY <2>4, <3>2, <3>4, <3>5 DEF ArenaOK
  <2>6. Used(b) = n
    BY <2>3, <2>4 DEF Used
  <2>7. Spent(b, t + n)
    <3>1. CASE Len(a.sizes) = 0
      <4>1. (Len(b.sizes) - 1) * Chunk = 0
        BY <1>0, <2>4, <3>1
      <4> QED BY <2>6, <4>1 DEF Spent
    <3>2. CASE Len(a.sizes) # 0
      <4>1. PICK p \in Nat : p = (Len(a.sizes) - 1) * Chunk
        BY <1>0, <3>2
      <4>2. (Len(b.sizes) - 1) * Chunk = p + Chunk
        BY <1>0, <2>4, <4>1
      <4>3. PICK s \in Nat : s = a.sizes[Len(a.sizes)] /\ Chunk <= s
        BY <1>0, <3>2 DEF ArenaOK
      <4>4. p + (s - a.left) <= 2 * t
        BY <3>2, <4>1, <4>3 DEF Spent, Used
      <4>5. a.left < n
        BY <1>0, <1>3 DEF Fits
      <4>6. p + Chunk + n <= 2 * (t + n)
        BY <1>0, <4>3, <4>4, <4>5
      <4> QED BY <2>6, <4>2, <4>6 DEF Spent
    <3> QED BY <3>1, <3>2
  <2> QED BY <2>4, <2>5, <2>7 DEF Extended, b
<1> QED BY <1>1, <1>2, <1>3

LEMMA CopyAssembles ==
  ASSUME NEW a, ArenaOK(a), NEW n \in Nat, n <= Largest, NEW C, NEW y \in Nat,
         Assembles(a, C, y)
  PROVE  Assembles(copy(a, n), C \union ViewOf(copy(a, n), n), y + n)
<1> DEFINE b == copy(a, n)
<1>0. /\ a.sizes \in Seq(Nat) /\ a.left \in Nat /\ Len(a.sizes) \in Nat
      /\ Chunk \in Nat \ {0} /\ C \in SUBSET (1..Len(a.sizes))
  BY Sizes DEF ArenaOK, Assembles
<1>1. Cost(a, C) \in Nat /\ IsFiniteSet(C)
  BY <1>0, CostIs
<1>2. CASE n = 0
  <2>1. b = a /\ ViewOf(b, n) = {} /\ y + n = y
    BY <1>2 DEF copy, ViewOf
  <2> QED BY <2>1
<1>3. CASE n # 0 /\ Fits(a, n)
  <2>1. b = [a EXCEPT !.left = @ - n] /\ ViewOf(b, n) = {Len(b.sizes)}
    BY <1>3 DEF copy, ViewOf
  <2>2. b.sizes = a.sizes /\ b.left = a.left - n
    BY <2>1 DEF ArenaOK
  <2>3. a.left # 0 /\ Len(a.sizes) # 0 /\ n <= a.left
    BY <1>0, <1>3 DEF ArenaOK, Fits
  <2>4. a.sizes[Len(a.sizes)] = Chunk /\ a.left < Chunk
    BY <2>3 DEF ArenaOK
  <2>5. Used(a) = Chunk - a.left /\ Used(b) = Used(a) + n
    BY <1>0, <2>2, <2>4 DEF Used
  <2>6. Len(b.sizes) \in 1..Len(b.sizes) /\ Len(b.sizes) = Len(a.sizes)
    BY <1>0, <2>2, <2>3
  <2> HIDE DEF b
  <2>7. CASE C = {}
    <3>1. C \union ViewOf(b, n) = {Len(a.sizes)}
      BY <2>1, <2>2, <2>7
    <3>2. Cost(b, {Len(a.sizes)}) = Chunk
      <4>1. SumFunctionOnSet(a.sizes, {} \union {Len(a.sizes)})
              = a.sizes[Len(a.sizes)] + SumFunctionOnSet(a.sizes, {})
        <5>1. IsFiniteSet({}) /\ \A x \in {} \union {Len(a.sizes)} : a.sizes[x] \in Nat
          BY <1>0, <2>4, FS_EmptySet
        <5> QED BY <5>1, SumInsert
      <4>2. SumFunctionOnSet(a.sizes, {}) = 0
        BY SumEmpty
      <4> QED BY <1>0, <2>2, <2>4, <4>1, <4>2 DEF Cost
    <3>3. Chunk + n <= 2 * Chunk + 2 * (y + n) /\ n <= Used(b) /\ Chunk <= Chunk
      BY <1>0, <2>4, <2>5
    <3> QED BY <2>6, <3>1, <3>2, <3>3 DEF Assembles, b
  <2>8. CASE C # {}
    <3>1. C \union ViewOf(b, n) = C /\ Cost(b, C) = Cost(a, C)
      BY <2>1, <2>2, <2>8 DEF Assembles, Cost
    <3>2. PICK own \in Nat :
            /\ Cost(a, C) + own <= 2 * Chunk + 2 * y
            /\ own = Used(a) \/ (own <= Used(a) /\ Cost(a, C) <= Chunk)
      BY <2>8 DEF Assembles
    <3>3. /\ Cost(b, C) + (own + n) <= 2 * Chunk + 2 * (y + n)
          /\ own + n = Used(b) \/ (own + n <= Used(b) /\ Cost(b, C) <= Chunk)
      <4>1. PICK k \in Nat : k = Cost(a, C)
        BY <1>1
      <4>2. Cost(b, C) = k
        BY <3>1, <4>1
      <4>3. k + (own + n) <= 2 * Chunk + 2 * (y + n)
        BY <1>0, <3>2, <4>1
      <4>4. own + n = Used(b) \/ (own + n <= Used(b) /\ k <= Chunk)
        BY <1>0, <2>5, <3>2, <4>1
      <4> QED BY <4>2, <4>3, <4>4
    <3>4. own + n \in Nat
      OBVIOUS
    <3>5. C \subseteq 1..Len(b.sizes) /\ Len(b.sizes) \in C
      BY <2>6, <2>8 DEF Assembles
    <3>6. Assembles(b, C, y + n)
      BY <3>3, <3>4, <3>5 DEF Assembles
    <3> QED BY <3>1, <3>6 DEF b
  <2> QED BY <2>7, <2>8
<1>4. CASE n # 0 /\ ~Fits(a, n)
  <2>1. /\ b = [sizes |-> Append(a.sizes, Allocation(n)), left |-> Allocation(n) - n]
        /\ ViewOf(b, n) = {Len(b.sizes)}
    BY <1>4 DEF copy, ViewOf
  <2>2. PICK c \in Nat : c = Allocation(n) /\ n <= c /\ Chunk <= c /\ (c = n \/ c = Chunk)
    BY <1>0, AllocationIs
  <2>3. /\ b.sizes = Append(a.sizes, c) /\ b.left = c - n
        /\ b.sizes \in Seq(Nat) /\ Len(b.sizes) = Len(a.sizes) + 1
        /\ b.sizes[Len(b.sizes)] = c
        /\ \A i \in 1..Len(a.sizes) : b.sizes[i] = a.sizes[i]
    BY <1>0, <2>1, <2>2
  <2>4. ViewOf(b, n) = {Len(b.sizes)}
    BY <2>1
  <2> HIDE DEF b
  <2>5. Extended(a, b) /\ Used(b) = n
    <3>1. Extended(a, b)
      BY <1>0, <2>3 DEF Extended
    <3>2. Used(b) = c - (c - n)
      BY <2>3 DEF Used
    <3> QED BY <2>2, <3>1, <3>2
  <2>6. Cost(b, C) = Cost(a, C) /\ C \in SUBSET (1..Len(b.sizes))
    BY <1>0, <2>3, <2>5, CostStays
  <2>7. Len(b.sizes) \notin C /\ Len(b.sizes) \in 1..Len(b.sizes)
    BY <1>0, <2>3
  <2>8. Cost(b, C \union {Len(b.sizes)}) = c + Cost(a, C)
    <3>1. \A x \in C \union {Len(b.sizes)} : b.sizes[x] \in Nat
      BY <2>3, <2>6, <2>7
    <3>2. SumFunctionOnSet(b.sizes, C \union {Len(b.sizes)})
            = b.sizes[Len(b.sizes)] + SumFunctionOnSet(b.sizes, C)
      BY <1>1, <2>7, <3>1, SumInsert
    <3> QED BY <2>3, <2>6, <3>2 DEF Cost
  <2>9. c + Cost(a, C) + n <= 2 * Chunk + 2 * (y + n)
    <3>1. PICK k \in Nat : k = Cost(a, C)
      BY <1>1
    <3>2. CASE C = {}
      <4>1. k = 0
        BY <3>1, <3>2, SumEmpty DEF Cost
      <4> QED BY <1>0, <2>2, <3>1, <4>1
    <3>3. CASE C # {}
      <4>1. PICK own \in Nat :
              /\ k + own <= 2 * Chunk + 2 * y
              /\ own = Used(a) \/ k <= Chunk
        BY <3>1, <3>3 DEF Assembles
      <4>2. CASE k <= Chunk
        BY <1>0, <2>2, <3>1, <4>2
      <4>3. CASE own = Used(a)
        <5>1. Len(a.sizes) # 0
          <6>1. Len(a.sizes) \in 1..Len(a.sizes)
            BY <3>3 DEF Assembles
          <6> QED BY <1>0, <6>1
        <5>2. PICK s \in Nat : s = a.sizes[Len(a.sizes)] /\ Chunk <= s
          BY <1>0, <5>1 DEF ArenaOK
        <5>3. own = s - a.left /\ a.left < n
          BY <1>0, <1>4, <4>3, <5>2 DEF Used, Fits
        <5>4. c <= own + n
          <6>1. PICK f \in Nat : f = a.left
            BY <1>0
          <6>2. PICK h \in Nat : h = Chunk /\ h <= s /\ (c = n \/ c = h)
            BY <1>0, <2>2, <5>2
          <6>3. own = s - f /\ f < n
            BY <5>3, <6>1
          <6> QED BY <6>2, <6>3
        <5> QED BY <1>0, <2>2, <3>1, <4>1, <5>4
      <4> QED BY <4>1, <4>2, <4>3
    <3> QED BY <3>2, <3>3
  <2>10. Assembles(b, C \union {Len(b.sizes)}, y + n)
    <3>1. /\ Cost(b, C \union {Len(b.sizes)}) + n <= 2 * Chunk + 2 * (y + n)
          /\ n = Used(b)
      BY <2>5, <2>8, <2>9
    <3> QED BY <2>6, <2>7, <3>1 DEF Assembles
  <2> QED BY <2>4, <2>10 DEF b
<1> QED BY <1>2, <1>3, <1>4

----------------------------------------------------------------------------
(* The invariants of the intake *)

EventRecord == [topic : Topics, name : Nat, bytes : Nat, chunks : SUBSET Nat]

IntakeType ==
    /\ names \in Seq(Topics) /\ last \in 0..Len(names)
    /\ pending \in Seq(EventRecord)
    /\ IsFiniteSet(batches) /\ \A b \in batches : b.events \in Seq(EventRecord)
    /\ copied \in Nat

\* The map of TopicCache is the inverse of the list of names.
NameInv ==
    /\ DOMAIN interned = {names[i] : i \in 1..Len(names)}
    /\ \A t \in DOMAIN interned : interned[t] \in 1..Len(names) /\ names[interned[t]] = t
    /\ \A i, j \in 1..Len(names) : names[i] = names[j] => i = j
    /\ \A e \in LiveEvents : e.name \in 1..Len(names) /\ names[e.name] = e.topic

ChunksOf(s) == UNION {s[i].chunks : i \in DOMAIN s}

MemoryInv ==
    /\ ArenaOK(arena) /\ Spent(arena, copied)
    /\ Assembles(arena, ChunksOf(pending), BytesOf(pending))
    /\ \A b \in batches : Assembled(arena, ChunksOf(b.events), BytesOf(b.events))

IntakeInv == IntakeType /\ NameInv /\ MemoryInv

LEMMA BytesAre ==
  ASSUME NEW s \in Seq(EventRecord)
  PROVE  /\ BytesOf(s) \in Nat
         /\ \A e \in EventRecord : BytesOf(Append(s, e)) = BytesOf(s) + e.bytes
         /\ s = <<>> => BytesOf(s) = 0
<1>0. PICK n \in Nat : n = Len(s) /\ DOMAIN s = 1..n
  OBVIOUS
<1>1. PICK f : f = [i \in DOMAIN s |-> s[i].bytes]
  OBVIOUS
<1>2. DOMAIN f = 1..n /\ \A i \in 1..n : f[i] = s[i].bytes /\ f[i] \in Nat
  <2>1. \A i \in 1..n : s[i] \in EventRecord
    BY <1>0
  <2>2. \A e \in EventRecord : e.bytes \in Nat
    BY DEF EventRecord
  <2> QED BY <1>0, <1>1, <2>1, <2>2
<1>3. IsFiniteSet(1..n)
  BY FS_Interval
<1>4. SumFunction(f) \in Nat /\ (DOMAIN f = {} => SumFunction(f) = 0)
  BY <1>2, <1>3, SumFunctionType
<1>5. BytesOf(s) = SumFunction(f)
  BY <1>1 DEF BytesOf
<1>6. ASSUME NEW e \in EventRecord PROVE BytesOf(Append(s, e)) = BytesOf(s) + e.bytes
  <2>1. PICK u : u = Append(s, e)
    OBVIOUS
  <2>2. DOMAIN u = 1..(n + 1) /\ u[n + 1] = e /\ \A i \in 1..n : u[i] = s[i]
    BY <1>0, <2>1
  <2>3. PICK h : h = [i \in DOMAIN u |-> u[i].bytes]
    OBVIOUS
  <2>4. 1..(n + 1) = (1..n) \union {n + 1} /\ n + 1 \notin 1..n
    OBVIOUS
  <2>5. /\ DOMAIN h = (1..n) \union {n + 1}
        /\ \A i \in 1..n : h[i] = f[i]
        /\ h[n + 1] = e.bytes /\ e.bytes \in Nat
    BY <1>2, <2>2, <2>3, <2>4 DEF EventRecord
  <2>6. SumFunction(h) = h[n + 1] + SumFunction(f)
    BY <1>2, <1>3, <2>4, <2>5, SumFunctionExtends
  <2>7. BytesOf(u) = SumFunction(h)
    BY <2>3 DEF BytesOf
  <2> QED BY <1>4, <1>5, <2>1, <2>5, <2>6, <2>7
<1> QED BY <1>0, <1>2, <1>4, <1>5, <1>6

LEMMA ChunksAppend ==
  ASSUME NEW s \in Seq(EventRecord), NEW e
  PROVE  ChunksOf(Append(s, e)) = ChunksOf(s) \union e.chunks
<1>0. PICK n \in Nat : n = Len(s) /\ DOMAIN s = 1..n
  OBVIOUS
<1>1. PICK u : u = Append(s, e)
  OBVIOUS
<1>2. DOMAIN u = 1..(n + 1) /\ u[n + 1] = e /\ \A i \in 1..n : u[i] = s[i]
  BY <1>0, <1>1
<1>3. 1..(n + 1) = (1..n) \union {n + 1}
  OBVIOUS
<1>4. {u[i].chunks : i \in 1..(n + 1)} = {s[i].chunks : i \in 1..n} \union {e.chunks}
  <2> HIDE DEF EventRecord
  <2>1. {u[i].chunks : i \in (1..n) \union {n + 1}} = {u[i].chunks : i \in 1..n} \union {u[n + 1].chunks}
    OBVIOUS
  <2>2. {u[i].chunks : i \in 1..n} = {s[i].chunks : i \in 1..n}
    BY <1>2
  <2> QED BY <1>2, <1>3, <2>1, <2>2
<1>5. ChunksOf(u) = UNION ({s[i].chunks : i \in 1..n} \union {e.chunks})
  BY <1>2, <1>4 DEF ChunksOf
<1>6. ChunksOf(s) = UNION {s[i].chunks : i \in 1..n}
  BY <1>0 DEF ChunksOf
<1> QED BY <1>1, <1>5, <1>6

(* What Recv makes of a message. *)
LEMMA EventIs ==
  ASSUME IntakeInv, NEW topic \in Topics, NEW key \in KeySizes, NEW payload \in PayloadSizes
  PROVE  LET e == to_event(topic, key, payload) IN
         /\ e \in EventRecord /\ e.topic = topic /\ e.name = intern(topic)
         /\ e.bytes = key + payload
         /\ e.chunks = ViewOf(copy(arena, key), key)
                         \union ViewOf(copy(copy(arena, key), payload), payload)
<1> DEFINE e == to_event(topic, key, payload)
           w == copy(arena, key)
           z == copy(w, payload)
<1>0. key \in Nat /\ payload \in Nat /\ key <= Largest /\ payload <= Largest
  BY Sizes
<1>1. ArenaOK(w)
  BY <1>0, CopySpends DEF IntakeInv, MemoryInv, IntakeType
<1>2. Spent(w, copied + key)
  BY <1>0, CopySpends DEF IntakeInv, MemoryInv, IntakeType
<1>3. ArenaOK(z)
  <2> HIDE DEF w
  <2>1. copied + key \in Nat
    BY <1>0 DEF IntakeInv, IntakeType
  <2> QED BY <1>0, <1>1, <1>2, <2>1, CopySpends
<1>4. ViewOf(w, key) \in SUBSET Nat /\ ViewOf(z, payload) \in SUBSET Nat
  <2> HIDE DEF w, z
  <2>1. Len(w.sizes) \in Nat /\ Len(z.sizes) \in Nat
    BY <1>1, <1>3 DEF ArenaOK
  <2> QED BY <2>1 DEF ViewOf
<1>5. intern(topic) \in Nat
  BY DEF intern, IntakeInv, IntakeType, NameInv
<1>6. e = [topic |-> topic, name |-> intern(topic), bytes |-> key + payload,
           chunks |-> ViewOf(w, key) \union ViewOf(z, payload)]
  BY DEF to_event
<1> HIDE DEF w, z
<1>7. key + payload \in Nat /\ ViewOf(w, key) \union ViewOf(z, payload) \in SUBSET Nat
  BY <1>0, <1>4
<1>8. e \in EventRecord
  BY ONLY <1>5, <1>6, <1>7 DEF EventRecord
<1>9. /\ e.topic = topic /\ e.name = intern(topic) /\ e.bytes = key + payload
      /\ e.chunks = ViewOf(w, key) \union ViewOf(z, payload)
  BY <1>6
<1> QED BY <1>8, <1>9 DEF w, z

LEMMA LiveSplits ==
  /\ LiveEvents = (UNION {Range(b.events) : b \in batches}) \union Range(pending)
  /\ LiveEvents' = (UNION {Range(b.events) : b \in batches'}) \union Range(pending')
<1>1. {Range(s) : s \in Live} = {Range(b.events) : b \in batches} \union {Range(pending)}
  BY DEF Live
<1>2. {Range(s) : s \in Live'} = {Range(b.events) : b \in batches'} \union {Range(pending')}
  BY DEF Live
<1>3. LiveEvents = UNION {Range(s) : s \in Live} /\ LiveEvents' = UNION {Range(s) : s \in Live'}
  BY DEF LiveEvents
<1> QED BY <1>1, <1>2, <1>3

LEMMA RecvMemory ==
  ASSUME IntakeInv, NEW topic \in Topics, NEW key \in KeySizes, NEW payload \in PayloadSizes,
         Recv(topic, key, payload)
  PROVE  MemoryInv' /\ pending' \in Seq(EventRecord) /\ copied' \in Nat
<1> DEFINE w == copy(arena, key)
           z == copy(w, payload)
<1>1. PICK e : e = to_event(topic, key, payload)
  OBVIOUS
<1>2. /\ e \in EventRecord /\ e.bytes = key + payload
      /\ e.chunks = ViewOf(w, key) \union ViewOf(z, payload)
  BY <1>1, EventIs
<1>3. /\ arena' = z /\ pending' = Append(pending, e) /\ copied' = copied + key + payload
      /\ batches' = batches
  BY <1>1 DEF Recv
<1>4. /\ ArenaOK(arena) /\ Spent(arena, copied) /\ copied \in Nat /\ pending \in Seq(EventRecord)
      /\ Assembles(arena, ChunksOf(pending), BytesOf(pending))
  BY DEF IntakeInv, IntakeType, MemoryInv
<1>5. key \in Nat /\ payload \in Nat /\ key <= Largest /\ payload <= Largest
  BY Sizes
<1>6. PICK y \in Nat : y = BytesOf(pending)
  BY <1>4, BytesAre
<1>7. PICK C : C = ChunksOf(pending)
  OBVIOUS
<1>8. /\ ArenaOK(w) /\ Extended(arena, w) /\ Spent(w, copied + key)
      /\ Assembles(w, C \union ViewOf(w, key), y + key)
  BY <1>4, <1>5, <1>6, <1>7, CopySpends, CopyAssembles
<1>9. copied + key \in Nat /\ y + key \in Nat
  BY <1>4, <1>5
<1> HIDE DEF w
<1>10. /\ ArenaOK(z) /\ Extended(w, z) /\ Spent(z, copied + key + payload)
       /\ Assembles(z, (C \union ViewOf(w, key)) \union ViewOf(z, payload), y + key + payload)
  BY <1>5, <1>8, <1>9, CopySpends, CopyAssembles
<1> HIDE DEF z
<1>11. ChunksOf(pending') = (C \union ViewOf(w, key)) \union ViewOf(z, payload)
  <2>1. ChunksOf(pending') = C \union e.chunks
    BY <1>3, <1>4, <1>7, ChunksAppend
  <2> QED BY <1>2, <2>1
<1>12. BytesOf(pending') = y + key + payload
  <2>1. BytesOf(pending') = y + e.bytes
    BY <1>2, <1>3, <1>4, <1>6, BytesAre
  <2> QED BY <1>2, <1>5, <2>1
<1>13. Extended(arena, z) /\ arena.sizes \in Seq(Nat) /\ z.sizes \in Seq(Nat)
  <2>1. arena.sizes \in Seq(Nat) /\ w.sizes \in Seq(Nat) /\ z.sizes \in Seq(Nat)
    BY <1>4, <1>8, <1>10 DEF ArenaOK
  <2> QED BY <1>8, <1>10, <2>1 DEF Extended
<1>14. ASSUME NEW b \in batches PROVE Assembled(z, ChunksOf(b.events), BytesOf(b.events))
  <2>1. Assembled(arena, ChunksOf(b.events), BytesOf(b.events))
    BY DEF IntakeInv, MemoryInv
  <2>2. Cost(z, ChunksOf(b.events)) = Cost(arena, ChunksOf(b.events))
        /\ ChunksOf(b.events) \in SUBSET (1..Len(z.sizes))
    BY <1>13, <2>1, CostStays DEF Assembled
  <2> QED BY <2>1, <2>2 DEF Assembled
<1>15. MemoryInv'
  BY <1>3, <1>10, <1>11, <1>12, <1>14 DEF MemoryInv
<1>16. pending' \in Seq(EventRecord) /\ copied' \in Nat
  BY <1>2, <1>3, <1>4, <1>5
<1> QED BY <1>15, <1>16
(* What Recv makes of the names. *)
LEMMA RecvNames ==
  ASSUME IntakeInv, NEW topic \in Topics, NEW key \in KeySizes, NEW payload \in PayloadSizes,
         Recv(topic, key, payload)
  PROVE  /\ NameInv'
         /\ names' \in Seq(Topics) /\ last' \in 0..Len(names')
<1> USE DEF IntakeInv, IntakeType
<1>1. PICK e : e = to_event(topic, key, payload)
  OBVIOUS
<1>2. e.topic = topic /\ e.name = intern(topic) /\ e \in EventRecord
  BY <1>1, EventIs
<1>3. pending' = Append(pending, e) /\ batches' = batches /\ Interned(topic)
  BY <1>1 DEF Recv
<1>4. Range(pending') = Range(pending) \union {e}
  <2>1. PICK n \in Nat : n = Len(pending) /\ DOMAIN pending = 1..n
    OBVIOUS
  <2>2. DOMAIN pending' = 1..(n + 1) /\ pending'[n + 1] = e
        /\ \A i \in 1..n : pending'[i] = pending[i]
    BY <1>2, <1>3, <2>1
  <2>3. 1..(n + 1) = (1..n) \union {n + 1}
    OBVIOUS
  <2>4. {pending'[i] : i \in (1..n) \union {n + 1}}
          = {pending[i] : i \in 1..n} \union {e}
    BY <2>2
  <2> QED BY <2>1, <2>2, <2>3, <2>4 DEF Range
<1>5. LiveEvents' = LiveEvents \union {e}
  <2>1. LiveEvents' = (UNION {Range(b.events) : b \in batches'}) \union Range(pending')
    BY LiveSplits
  <2> QED BY <1>3, <1>4, <2>1, LiveSplits
<1>6. CASE IsLast(topic) \/ topic \in DOMAIN interned
  <2>1. intern(topic) \in 1..Len(names) /\ names[intern(topic)] = topic
    BY <1>6 DEF IsLast, intern, NameInv
  <2>2. last' = intern(topic) /\ names' = names /\ interned' = interned
    BY <1>3, <2>1 DEF Interned
  <2>3. NameInv'
    BY <1>2, <1>5, <2>1, <2>2 DEF NameInv
  <2> QED BY <2>1, <2>2, <2>3
<1>7. CASE ~IsLast(topic) /\ topic \notin DOMAIN interned
  <2>1. PICK n \in Nat : n = Len(names)
    OBVIOUS
  <2>2. last' = n + 1 /\ intern(topic) = n + 1
    BY <1>3, <1>7, <2>1 DEF Interned, intern
  <2>3. /\ names' = Append(names, topic)
        /\ interned' = [t \in DOMAIN interned \union {topic} |->
                          IF t = topic THEN n + 1 ELSE interned[t]]
    BY <1>3, <2>1, <2>2 DEF Interned
  <2>4. /\ Len(names') = n + 1 /\ names'[n + 1] = topic /\ names' \in Seq(Topics)
        /\ \A i \in 1..n : names'[i] = names[i]
    BY <2>1, <2>3
  <2>5. /\ DOMAIN interned' = DOMAIN interned \union {topic} /\ interned'[topic] = n + 1
        /\ \A t \in DOMAIN interned : interned'[t] = interned[t]
    BY <1>7, <2>3
  <2>6. 1..(n + 1) = (1..n) \union {n + 1} /\ n + 1 \notin 1..n
    OBVIOUS
  <2>7. DOMAIN interned = {names[i] : i \in 1..n}
    BY <2>1 DEF NameInv
  <2>8. DOMAIN interned' = {names'[i] : i \in 1..(n + 1)}
    <3>1. {names'[i] : i \in (1..n) \union {n + 1}} = {names[i] : i \in 1..n} \union {topic}
      BY <2>4
    <3> QED BY <2>5, <2>6, <2>7, <3>1
  <2>9. \A i \in 1..n : names[i] # topic
    BY <1>7, <2>7
  <2>10. \A i, j \in 1..(n + 1) : names'[i] = names'[j] => i = j
    <3>1. \A i, j \in 1..n : names[i] = names[j] => i = j
      BY <2>1 DEF NameInv
    <3> QED BY <2>4, <2>6, <2>9, <3>1
  <2>11. \A t \in DOMAIN interned' : interned'[t] \in 1..(n + 1) /\ names'[interned'[t]] = t
    <3>1. \A t \in DOMAIN interned : interned[t] \in 1..n /\ names[interned[t]] = t
      BY <2>1 DEF NameInv
    <3> QED BY <2>4, <2>5, <2>6, <3>1
  <2>12. \A x \in LiveEvents' : x.name \in 1..(n + 1) /\ names'[x.name] = x.topic
    <3>1. \A x \in LiveEvents : x.name \in 1..n /\ names[x.name] = x.topic
      BY <2>1 DEF NameInv
    <3> QED BY <1>2, <1>5, <2>2, <2>4, <2>6, <3>1
  <2>13. NameInv'
    BY <2>4, <2>8, <2>10, <2>11, <2>12 DEF NameInv
  <2> QED BY <2>2, <2>4, <2>13
<1> QED BY <1>6, <1>7

LEMMA IntakeStart == IntakeInit => IntakeInv
<1> SUFFICES ASSUME IntakeInit PROVE IntakeInv
  OBVIOUS
<1>1. /\ arena = [sizes |-> <<>>, left |-> 0] /\ names = <<>> /\ last = 0
      /\ interned = [t \in {} |-> 0] /\ pending = <<>> /\ batches = {} /\ copied = 0
  BY DEF IntakeInit
<1>2. IntakeType
  BY <1>1, FS_EmptySet DEF IntakeType
<1>3. LiveEvents = {}
  <2>1. Range(pending) = {}
    BY <1>1 DEF Range
  <2> QED BY <1>1, <2>1, LiveSplits
<1>4. NameInv
  BY <1>1, <1>3 DEF NameInv
<1>5. ArenaOK(arena) /\ Spent(arena, copied)
  BY <1>1 DEF ArenaOK, Spent
<1>6. ChunksOf(pending) = {}
  BY <1>1 DEF ChunksOf
<1>7. Assembles(arena, {}, BytesOf(pending))
  BY DEF Assembles
<1>8. MemoryInv
  BY <1>1, <1>5, <1>6, <1>7 DEF MemoryInv
<1> QED BY <1>2, <1>4, <1>8 DEF IntakeInv

\* What leaves the assembly is within the bound of a batch that left.
LEMMA AssemblyLeaves ==
  ASSUME NEW a, ArenaOK(a), NEW C, NEW y \in Nat, Assembles(a, C, y)
  PROVE  Assembled(a, C, y)
<1>1. C \in SUBSET (1..Len(a.sizes)) /\ a.sizes \in Seq(Nat) /\ Chunk \in Nat
  BY Sizes DEF Assembles, ArenaOK
<1>2. PICK k \in Nat : k = Cost(a, C)
  BY <1>1, CostIs
<1>3. k <= 2 * Chunk + 2 * y
  <2>1. CASE C = {}
    <3>1. k = 0
      BY <1>2, <2>1, SumEmpty DEF Cost
    <3> QED BY <1>1, <3>1
  <2>2. CASE C # {}
    <3>1. PICK own \in Nat : k + own <= 2 * Chunk + 2 * y
      BY <1>2, <2>2 DEF Assembles
    <3> QED BY <1>1, <3>1
  <2> QED BY <2>1, <2>2
<1> QED BY <1>1, <1>2, <1>3 DEF Assembled

LEMMA DispatchKeeps == ASSUME IntakeInv, Dispatch PROVE IntakeInv'
<1>1. PICK d : d = [number |-> received, events |-> pending]
  OBVIOUS
<1>2. /\ batches' = batches \union {d} /\ d.events = pending /\ pending' = <<>>
      /\ UNCHANGED <<arena, names, last, interned, copied>>
  BY <1>1 DEF Dispatch
<1>3. pending \in Seq(EventRecord) /\ pending' \in Seq(EventRecord)
  BY <1>2 DEF IntakeInv, IntakeType
<1>4. IntakeType'
  <2>1. IsFiniteSet(batches')
    BY <1>2, FS_AddElement DEF IntakeInv, IntakeType
  <2> QED BY <1>2, <1>3, <2>1 DEF IntakeInv, IntakeType
<1>5. NameInv'
  <2>1. Range(pending') = {}
    BY <1>2 DEF Range
  <2>2. LiveEvents' = (UNION {Range(b.events) : b \in batches'}) \union Range(pending')
    BY LiveSplits
  <2>3. {Range(b.events) : b \in batches'} = {Range(b.events) : b \in batches} \union {Range(pending)}
    BY <1>2
  <2>4. LiveEvents' = LiveEvents
    BY <2>1, <2>2, <2>3, LiveSplits
  <2> QED BY <1>2, <2>4 DEF IntakeInv, NameInv
<1>6. MemoryInv'
  <2>1. ArenaOK(arena) /\ Spent(arena, copied)
        /\ Assembles(arena, ChunksOf(pending), BytesOf(pending))
    BY DEF IntakeInv, MemoryInv
  <2>2. Assembled(arena, ChunksOf(pending), BytesOf(pending))
    BY <1>3, <2>1, BytesAre, AssemblyLeaves
  <2>3. ChunksOf(pending') = {} /\ Assembles(arena, {}, BytesOf(pending'))
    BY <1>2 DEF ChunksOf, Assembles
  <2>4. \A b \in batches' : Assembled(arena, ChunksOf(b.events), BytesOf(b.events))
    BY <1>2, <2>2 DEF IntakeInv, MemoryInv
  <2> QED BY <1>2, <2>1, <2>3, <2>4 DEF MemoryInv
<1> QED BY <1>4, <1>5, <1>6 DEF IntakeInv

LEMMA ReleaseKeeps == ASSUME IntakeInv, Release PROVE IntakeInv'
<1>1. /\ batches' \subseteq batches
      /\ UNCHANGED <<arena, names, last, interned, pending, copied>>
  BY DEF Release
<1>2. IntakeType'
  BY <1>1, FS_Subset DEF IntakeInv, IntakeType
<1>3. NameInv'
  <2>1. LiveEvents' = (UNION {Range(b.events) : b \in batches'}) \union Range(pending')
    BY LiveSplits
  <2>2. LiveEvents' \subseteq LiveEvents
    BY <1>1, <2>1, LiveSplits
  <2> QED BY <1>1, <2>2 DEF IntakeInv, NameInv
<1>4. MemoryInv'
  BY <1>1 DEF IntakeInv, MemoryInv
<1> QED BY <1>2, <1>3, <1>4 DEF IntakeInv

LEMMA IntakeSteps == IntakeInv /\ [IntakeNext]_intakeVars => IntakeInv'
<1> SUFFICES ASSUME IntakeInv, [IntakeNext]_intakeVars PROVE IntakeInv'
  OBVIOUS
<1>1. ASSUME NEW t \in Topics, NEW k \in KeySizes, NEW p \in PayloadSizes, Recv(t, k, p)
      PROVE  IntakeInv'
  <2>1. batches' = batches
    BY <1>1 DEF Recv
  <2>2. /\ MemoryInv' /\ NameInv' /\ pending' \in Seq(EventRecord) /\ copied' \in Nat
        /\ names' \in Seq(Topics) /\ last' \in 0..Len(names')
    BY <1>1, RecvMemory, RecvNames
  <2>3. IntakeType'
    BY <2>1, <2>2 DEF IntakeInv, IntakeType
  <2> QED BY <2>2, <2>3 DEF IntakeInv
<1>2. CASE UNCHANGED intakeVars
  <2>1. UNCHANGED <<arena, names, last, interned, pending, batches, copied>>
    BY <1>2 DEF intakeVars
  <2>2. LiveEvents' = LiveEvents
    BY <2>1, LiveSplits
  <2>3. IntakeType' /\ NameInv'
    BY <2>1, <2>2 DEF IntakeInv, IntakeType, NameInv
  <2>4. MemoryInv'
    BY <2>1 DEF IntakeInv, MemoryInv
  <2> QED BY <2>3, <2>4 DEF IntakeInv
<1> QED BY <1>1, <1>2, DispatchKeeps, ReleaseKeeps DEF IntakeNext

\* The inductive invariant of the intake (to_event, BatchBuffer, TopicCache): the
\* names agree with the map that interns them, and every batch in flight keeps
\* chunks in proportion to its bytes.
THEOREM IntakeInvariant == IntakeSpec => []IntakeInv
BY IntakeStart, IntakeSteps, PTL DEF IntakeSpec

----------------------------------------------------------------------------
(* What follows for the intake *)

\* For any topics, in any order: an event carries the name of its own topic,
\* and TopicCache::intern allocates a name once.
THEOREM TopicsAreExact == IntakeSpec => []TopicsExact
<1>1. IntakeInv => TopicsExact
  <2> SUFFICES ASSUME IntakeInv PROVE TopicsExact
    OBVIOUS
  <2>1. names \in Seq(Topics)
    BY DEF IntakeInv, IntakeType
  <2>2. DOMAIN names = 1..Len(names)
    BY <2>1
  <2>3. IsInjective(names)
    BY <2>2 DEF IsInjective, IntakeInv, NameInv
  <2> QED BY <2>3 DEF TopicsExact, IntakeInv, NameInv
<1> QED BY <1>1, IntakeInvariant, PTL

\* For any chunk and any sizes of keys and payloads: BatchBuffer::copy allocates
\* less than two chunks for every chunk of bytes it copies, and one.
THEOREM AllocationsStayBounded == IntakeSpec => []AllocationsBounded
<1>1. IntakeInv => AllocationsBounded
  <2> SUFFICES ASSUME IntakeInv PROVE AllocationsBounded
    OBVIOUS
  <2>1. ArenaOK(arena) /\ Spent(arena, copied) /\ copied \in Nat /\ Chunk \in Nat \ {0}
    BY Sizes DEF IntakeInv, MemoryInv, IntakeType
  <2>2. Len(arena.sizes) \in Nat /\ arena.sizes \in Seq(Nat) /\ arena.left \in Nat
    BY <2>1 DEF ArenaOK
  <2>3. CASE Len(arena.sizes) = 0
    <3>1. (Len(arena.sizes) - 1) * Chunk = 0 - Chunk
      BY <2>1, <2>3
    <3> QED BY <2>1, <3>1 DEF AllocationsBounded
  <2>4. CASE Len(arena.sizes) # 0
    <3>1. PICK p \in Int : p = (Len(arena.sizes) - 1) * Chunk
      BY <2>1, <2>2
    <3>2. PICK s \in Nat : s = arena.sizes[Len(arena.sizes)] /\ arena.left < s
      BY <2>1, <2>2, <2>4 DEF ArenaOK
    <3>3. p + (s - arena.left) <= 2 * copied
      BY <2>1, <2>4, <3>1, <3>2 DEF Spent, Used
    <3>4. p < 2 * copied
      BY <2>1, <2>2, <3>2, <3>3
    <3> QED BY <3>1, <3>4 DEF AllocationsBounded
  <2> QED BY <2>3, <2>4
<1> QED BY <1>1, IntakeInvariant, PTL

\* The chunks of a batch, and of the events in flight.
LEMMA ResidentIs ==
  Resident = (({Len(arena.sizes)} \ {0}) \union ChunksOf(pending))
               \union UNION {ChunksOf(b.events) : b \in batches}
<1>1. ASSUME NEW s PROVE ChunksOf(s) = UNION {e.chunks : e \in Range(s)}
  BY DEF ChunksOf, Range
<1>2. UNION {e.chunks : e \in LiveEvents}
        = ChunksOf(pending) \union UNION {ChunksOf(b.events) : b \in batches}
  <2>1. ASSUME NEW c
        PROVE  (\E e \in LiveEvents : c \in e.chunks)
                 <=> \/ \E e \in Range(pending) : c \in e.chunks
                     \/ \E b \in batches : \E e \in Range(b.events) : c \in e.chunks
    BY LiveSplits
  <2>2. ASSUME NEW s, NEW c PROVE c \in ChunksOf(s) <=> \E e \in Range(s) : c \in e.chunks
    BY <1>1
  <2> QED BY <2>1, <2>2
<1> QED BY <1>2 DEF Resident
\* The batch under assembly and the arena's own chunk.
LEMMA AssemblyCost ==
  ASSUME IntakeInv,
         NEW A, A = ({Len(arena.sizes)} \ {0}) \union ChunksOf(pending)
  PROVE  /\ A \in SUBSET (1..Len(arena.sizes))
         /\ Cost(arena, A) <= Largest + Chunk * Min({Len(pending), 1}) + 2 * BytesOf(pending)
         /\ Min({Len(pending), 1}) \in Nat /\ BytesOf(pending) \in Nat
<1>1. /\ ArenaOK(arena) /\ pending \in Seq(EventRecord) /\ Chunk \in Nat \ {0} /\ Largest \in Nat
      /\ Chunk <= Largest /\ arena.sizes \in Seq(Nat) /\ Len(arena.sizes) \in Nat
      /\ Assembles(arena, ChunksOf(pending), BytesOf(pending))
  BY Sizes DEF IntakeInv, IntakeType, MemoryInv, ArenaOK
<1>2. PICK y \in Nat : y = BytesOf(pending)
  BY <1>1, BytesAre
<1>3. PICK P \in SUBSET (1..Len(arena.sizes)) : P = ChunksOf(pending)
  BY <1>1 DEF Assembles
<1>4. A \in SUBSET (1..Len(arena.sizes))
  BY <1>1, <1>3
<1>5. PICK m \in Nat : m = Min({Len(pending), 1}) /\ (Len(pending) # 0 => m = 1)
  <2>1. PICK n \in Nat : n = Len(pending)
    BY <1>1
  <2>2. \E x \in {n, 1} : \A z \in {n, 1} : x <= z
    BY <2>1
  <2>3. Min({n, 1}) \in {n, 1} /\ \A z \in {n, 1} : Min({n, 1}) <= z
    BY <2>2 DEF Min
  <2>4. Min({n, 1}) \in Nat /\ (n # 0 => Min({n, 1}) = 1)
    BY <2>1, <2>3
  <2> QED BY <2>1, <2>4
<1>6. Cost(arena, A) <= Largest + Chunk * m + 2 * y
  <2>1. CASE P = {}
    <3>1. CASE Len(arena.sizes) = 0
      <4>1. A = {}
        BY <1>3, <2>1, <3>1
      <4>2. Cost(arena, A) = 0
        BY <4>1, SumEmpty DEF Cost
      <4>3. Chunk * m \in Nat
        BY <1>1
      <4> QED BY <1>1, <4>2, <4>3
    <3>2. CASE Len(arena.sizes) # 0
      <4>1. A = {} \union {Len(arena.sizes)}
        BY <1>3, <2>1, <3>2
      <4>2. PICK s \in Nat : s = arena.sizes[Len(arena.sizes)] /\ s <= Largest
        BY <1>1, <3>2 DEF ArenaOK
      <4>3. SumFunctionOnSet(arena.sizes, {} \union {Len(arena.sizes)})
              = s + SumFunctionOnSet(arena.sizes, {})
        <5>1. IsFiniteSet({}) /\ \A x \in {} \union {Len(arena.sizes)} : arena.sizes[x] \in Nat
          BY <4>2, FS_EmptySet
        <5> QED BY <4>2, <5>1, SumInsert
      <4>4. Cost(arena, A) = s
        <5>1. SumFunctionOnSet(arena.sizes, {}) = 0
          BY SumEmpty
        <5>2. Cost(arena, A) = s + SumFunctionOnSet(arena.sizes, {})
          BY <4>1, <4>3 DEF Cost
        <5> QED BY <5>1, <5>2
      <4>5. Chunk * m \in Nat
        BY <1>1
      <4> QED BY <1>1, <4>2, <4>4, <4>5
    <3> QED BY <3>1, <3>2
  <2>2. CASE P # {}
    <3>1. Len(arena.sizes) \in P /\ \E own \in Nat : Cost(arena, P) + own <= 2 * Chunk + 2 * y
      BY <1>1, <1>2, <1>3, <2>2 DEF Assembles
    <3>2. A = P
      BY <1>3, <3>1
    <3>3. PICK k \in Nat : k = Cost(arena, P)
      BY <1>1, CostIs
    <3>4. k <= 2 * Chunk + 2 * y
      BY <1>1, <3>1, <3>3
    <3>5. m = 1
      <4>1. pending # <<>>
        BY <1>3, <2>2 DEF ChunksOf
      <4> QED BY <1>1, <1>5, <4>1
    <3>6. Chunk * m = Chunk
      BY <1>1, <3>5
    <3>7. k <= Largest + Chunk + 2 * y
      BY <1>1, <3>4
    <3> QED BY <3>2, <3>3, <3>6, <3>7
  <2> QED BY <2>1, <2>2
<1> QED BY <1>2, <1>4, <1>5, <1>6

\* For any messages and however the batches end: the chunks kept in memory are
\* within the bytes in flight, twice, and the ends of the batches.
THEOREM MemoryStaysBounded == IntakeSpec => []ArenaBounded
<1>1. IntakeInv => ArenaBounded
  <2> SUFFICES ASSUME IntakeInv PROVE ArenaBounded
    OBVIOUS
  <2>1. /\ ArenaOK(arena) /\ IsFiniteSet(batches) /\ Chunk \in Nat /\ Largest \in Nat
        /\ arena.sizes \in Seq(Nat) /\ Len(arena.sizes) \in Nat
    BY Sizes DEF IntakeInv, IntakeType, MemoryInv, ArenaOK
  <2>2. PICK D : D = 1..Len(arena.sizes)
    OBVIOUS
  <2>3. IsFiniteSet(D) /\ \A x \in D : arena.sizes[x] \in Nat
    <3>1. PICK n \in Nat : n = Len(arena.sizes)
      BY <2>1
    <3>2. IsFiniteSet(1..n)
      BY FS_Interval
    <3> QED BY <2>1, <2>2, <3>1, <3>2
  <2>4. PICK A : A = ({Len(arena.sizes)} \ {0}) \union ChunksOf(pending)
    OBVIOUS
  <2>5. /\ A \in SUBSET D
        /\ SumFunctionOnSet(arena.sizes, A)
             <= Largest + Chunk * Min({Len(pending), 1}) + 2 * BytesOf(pending)
        /\ Min({Len(pending), 1}) \in Nat /\ BytesOf(pending) \in Nat
    BY <2>2, <2>4, AssemblyCost DEF Cost
  <2>6. PICK C : C = [b \in batches |-> ChunksOf(b.events)]
    OBVIOUS
  <2>7. PICK y : y = [b \in batches |-> BytesOf(b.events)]
    OBVIOUS
  <2>8. \A b \in batches :
          /\ C[b] \in SUBSET D /\ y[b] \in Nat
          /\ SumFunctionOnSet(arena.sizes, C[b]) <= 2 * Chunk + 2 * y[b]
    <3> SUFFICES ASSUME NEW b \in batches
                 PROVE  /\ C[b] \in SUBSET D /\ y[b] \in Nat
                        /\ SumFunctionOnSet(arena.sizes, C[b]) <= 2 * Chunk + 2 * y[b]
      OBVIOUS
    <3>1. Assembled(arena, C[b], y[b])
      BY <2>6, <2>7 DEF IntakeInv, MemoryInv
    <3>2. BytesOf(b.events) \in Nat
      BY BytesAre DEF IntakeInv, IntakeType
    <3> QED BY <2>2, <2>7, <3>1, <3>2 DEF Assembled, Cost
  <2>9. PICK U : U = UNION {C[b] : b \in batches}
    OBVIOUS
  <2>10. SumFunctionOnSet(arena.sizes, U)
           <= (2 * Chunk) * Cardinality(batches) + 2 * SumFunctionOnSet(y, batches)
    <3>1. PICK k \in Nat : k = 2 * Chunk
      BY <2>1
    <3>2. PICK f : f = arena.sizes
      OBVIOUS
    <3>3. /\ \A x \in D : f[x] \in Nat
          /\ \A b \in batches : C[b] \in SUBSET D
          /\ \A b \in batches : y[b] \in Nat
          /\ \A b \in batches : SumFunctionOnSet(f, C[b]) <= k + 2 * y[b]
      BY <2>3, <2>8, <3>1, <3>2
    <3>4. SumFunctionOnSet(f, UNION {C[b] : b \in batches})
            <= k * Cardinality(batches) + 2 * SumFunctionOnSet(y, batches)
      <4>1. Family(f, D, batches, C, y, k)
        BY <2>1, <2>3, <3>3 DEF Family
      <4> QED BY <4>1, SumFamily
    <3> QED BY <2>9, <3>1, <3>2, <3>4
  <2>11. SumFunctionOnSet(y, batches) = SumFunction(y)
    BY <2>7 DEF SumFunction
  <2>12. /\ U \in SUBSET D /\ IsFiniteSet(U) /\ IsFiniteSet(A) /\ IsFiniteSet(A \union U)
         /\ \A x \in A \union U : arena.sizes[x] \in Nat
    <3>1. U \in SUBSET D /\ A \union U \in SUBSET D
      BY <2>5, <2>8, <2>9
    <3> QED BY <2>3, <2>5, <3>1, FS_Subset
  <2>13. Resident = A \union U
    <3>1. {C[b] : b \in batches} = {ChunksOf(b.events) : b \in batches}
      BY <2>6
    <3> QED BY <2>4, <2>9, <3>1, ResidentIs
  <2>14. SumFunctionOnSet(arena.sizes, A \union U)
           <= SumFunctionOnSet(arena.sizes, A) + SumFunctionOnSet(arena.sizes, U)
    BY <2>12, SumUnion
  <2>15. SumFunction([c \in Resident |-> arena.sizes[c]]) = SumFunctionOnSet(arena.sizes, A \union U)
    BY <2>12, <2>13, SumRestrict
  <2>16. PICK sA \in Nat, sU \in Nat, sR \in Nat, sY \in Nat, n \in Nat :
           /\ sA = SumFunctionOnSet(arena.sizes, A) /\ sU = SumFunctionOnSet(arena.sizes, U)
           /\ sR = SumFunctionOnSet(arena.sizes, A \union U)
           /\ sY = SumFunction(y) /\ n = Cardinality(batches)
    <3>1. SumFunctionOnSet(y, batches) \in Nat
      BY <2>1, <2>8, SumType
    <3>2. /\ SumFunctionOnSet(arena.sizes, A) \in Nat /\ SumFunctionOnSet(arena.sizes, U) \in Nat
          /\ SumFunctionOnSet(arena.sizes, A \union U) \in Nat
      BY <2>12, SumType
    <3> QED BY <2>1, <2>11, <3>1, <3>2, FS_CardinalityType
  <2>17. PICK m \in Nat, z \in Nat : m = Min({Len(pending), 1}) /\ z = BytesOf(pending)
    BY <2>5
  <2>18. sR <= Largest + Chunk * m + 2 * z + (2 * Chunk) * n + 2 * sY
    <3>1. sR <= sA + sU /\ sA <= Largest + Chunk * m + 2 * z /\ sU <= (2 * Chunk) * n + 2 * sY
      BY <2>5, <2>10, <2>11, <2>14, <2>16, <2>17
    <3>2. PICK p \in Nat, q \in Nat : p = Chunk * m /\ q = (2 * Chunk) * n
      BY <2>1
    <3> QED BY <2>1, <3>1, <3>2
  <2>19. Largest + Chunk * m + 2 * z + (2 * Chunk) * n + 2 * sY
           = Largest + Chunk * (2 * n + m) + 2 * (sY + z)
    BY <2>1
  <2>20. sR <= Largest + Chunk * (2 * n + m) + 2 * (sY + z)
    BY <2>18, <2>19
  <2> QED BY <2>7, <2>15, <2>16, <2>17, <2>20 DEF ArenaBounded, Largest
<1> QED BY <1>1, IntakeInvariant, PTL
----------------------------------------------------------------------------
(* Sequences *)

LEMMA SeqEqual ==
  ASSUME NEW T, NEW s \in Seq(T), NEW t \in Seq(T), Len(s) = Len(t),
         \A i \in 1..Len(s) : s[i] = t[i]
  PROVE  s = t
<1>1. s = [i \in 1..Len(s) |-> s[i]] /\ t = [i \in 1..Len(t) |-> t[i]]
  OBVIOUS
<1> QED BY <1>1

LEMMA ConcatFacts ==
  ASSUME NEW T, NEW s \in Seq(T), NEW t \in Seq(T)
  PROVE  /\ s \o t \in Seq(T) /\ Len(s \o t) = Len(s) + Len(t)
         /\ Len(s) \in Nat /\ Len(t) \in Nat
         /\ \A i \in 1..Len(s) : (s \o t)[i] = s[i]
         /\ \A i \in 1..Len(t) : (s \o t)[Len(s) + i] = t[i]
OBVIOUS

LEMMA ConcatAssoc ==
  ASSUME NEW T, NEW s \in Seq(T), NEW t \in Seq(T), NEW u \in Seq(T)
  PROVE  (s \o t) \o u = s \o (t \o u)
<1>1. PICK a \in Seq(T), b \in Seq(T) : a = (s \o t) \o u /\ b = s \o (t \o u)
  BY ConcatFacts
<1>2. PICK l \in Nat, m \in Nat, n \in Nat : l = Len(s) /\ m = Len(t) /\ n = Len(u)
  OBVIOUS
<1>3. Len(a) = l + m + n /\ Len(b) = l + m + n
  BY <1>1, <1>2
<1>4. ASSUME NEW i \in 1..Len(a) PROVE a[i] = b[i]
  <2>1. CASE i \in 1..l
    BY <1>1, <1>2, <2>1
  <2>2. CASE i \in (l + 1)..(l + m)
    BY <1>1, <1>2, <2>2
  <2>3. CASE i \in (l + m + 1)..(l + m + n)
    BY <1>1, <1>2, <2>3
  <2>4. i \in 1..l \/ i \in (l + 1)..(l + m) \/ i \in (l + m + 1)..(l + m + n)
    BY <1>3
  <2> QED BY <2>1, <2>2, <2>3, <2>4
<1> QED BY <1>1, <1>3, <1>4, SeqEqual

LEMMA ConcatAppend ==
  ASSUME NEW T, NEW s \in Seq(T), NEW t \in Seq(T), NEW x \in T
  PROVE  s \o Append(t, x) = Append(s \o t, x)
<1>0. s \o Append(t, x) \in Seq(T) /\ Append(s \o t, x) \in Seq(T)
  OBVIOUS
<1>1. PICK a \in Seq(T), b \in Seq(T) : a = s \o Append(t, x) /\ b = Append(s \o t, x)
  BY <1>0
<1>2. PICK l \in Nat, m \in Nat : l = Len(s) /\ m = Len(t)
  OBVIOUS
<1>3. Len(a) = l + m + 1 /\ Len(b) = l + m + 1
  BY <1>1, <1>2
<1>4. ASSUME NEW i \in 1..Len(a) PROVE a[i] = b[i]
  <2>1. CASE i \in 1..l
    BY <1>1, <1>2, <2>1
  <2>2. CASE i \in (l + 1)..(l + m)
    BY <1>1, <1>2, <2>2
  <2>3. CASE i = l + m + 1
    BY <1>1, <1>2, <2>3
  <2>4. i \in 1..l \/ i \in (l + 1)..(l + m) \/ i = l + m + 1
    BY <1>3
  <2> QED BY <2>1, <2>2, <2>3, <2>4
<1> QED BY <1>1, <1>3, <1>4, SeqEqual

LEMMA ConcatEmpty == ASSUME NEW T, NEW s \in Seq(T) PROVE s \o <<>> = s /\ <<>> \o s = s
<1>1. <<>> \in Seq(T)
  OBVIOUS
<1>2. s \o <<>> = s
  <2>1. PICK a \in Seq(T) : a = s \o <<>>
    BY <1>1
  <2>2. Len(a) = Len(s) /\ \A i \in 1..Len(a) : a[i] = s[i]
    BY <1>1, <2>1
  <2> QED BY <2>1, <2>2, SeqEqual
<1>3. <<>> \o s = s
  <2>1. PICK a \in Seq(T) : a = <<>> \o s
    BY <1>1
  <2>2. Len(a) = Len(s) /\ \A i \in 1..Len(a) : a[i] = s[i]
    BY <1>1, <2>1
  <2> QED BY <2>1, <2>2, SeqEqual
<1> QED BY <1>2, <1>3

\* A sequence that is not empty has a last element.
LEMMA SplitLast ==
  ASSUME NEW T, NEW s \in Seq(T), NEW n \in Nat, Len(s) = n + 1
  PROVE  \E t \in Seq(T), x \in T : s = Append(t, x) /\ Len(t) = n /\ x = s[n + 1]
<1>1. PICK t : t = [i \in 1..n |-> s[i]]
  OBVIOUS
<1>2. \A i \in 1..(n + 1) : s[i] \in T
  OBVIOUS
<1>3. t \in Seq(T) /\ Len(t) = n
  BY <1>1, <1>2
<1>4. PICK x \in T : x = s[n + 1]
  BY <1>2
<1>5. PICK a \in Seq(T) : a = Append(t, x)
  <2>1. Append(t, x) \in Seq(T)
    BY <1>3
  <2> QED BY <2>1
<1>6. Len(a) = n + 1 /\ \A i \in 1..(n + 1) : a[i] = s[i]
  BY <1>1, <1>3, <1>4, <1>5
<1> QED BY <1>3, <1>4, <1>5, <1>6, SeqEqual

----------------------------------------------------------------------------
(* Leaving elements out *)

\* g is the recursive function Without defines, on the first n places.
Leaves(g, s, drop, n) ==
    g = [i \in 0..n |-> IF i = 0 THEN <<>>
                        ELSE IF s[i] \in drop THEN g[i - 1] ELSE Append(g[i - 1], s[i])]

LEMMA LeavesExists ==
  ASSUME NEW s, NEW drop, NEW m \in Nat
  PROVE  \E g : Leaves(g, s, drop, m)
<1> DEFINE P == {n \in Nat : \E g : Leaves(g, s, drop, n)}
<1>1. 0 \in P
  <2>1. PICK g : g = [i \in 0..0 |-> <<>>]
    OBVIOUS
  <2>2. Leaves(g, s, drop, 0)
    BY <2>1 DEF Leaves
  <2> QED BY <2>2
<1>2. ASSUME NEW n \in Nat, n \in P PROVE n + 1 \in P
  <2>1. PICK g : Leaves(g, s, drop, n)
    BY <1>2
  <2>2. PICK h : h = [i \in 0..(n + 1) |->
                        IF i \in 0..n THEN g[i]
                        ELSE IF s[i] \in drop THEN g[i - 1] ELSE Append(g[i - 1], s[i])]
    OBVIOUS
  <2>3. \A i \in 0..n : h[i] = g[i]
    BY <2>2
  <2>4. ASSUME NEW i \in 0..(n + 1)
        PROVE  h[i] = IF i = 0 THEN <<>>
                      ELSE IF s[i] \in drop THEN h[i - 1] ELSE Append(h[i - 1], s[i])
    <3>1. CASE i \in 0..n
      <4>1. g[i] = IF i = 0 THEN <<>>
                   ELSE IF s[i] \in drop THEN g[i - 1] ELSE Append(g[i - 1], s[i])
        BY <2>1, <3>1 DEF Leaves
      <4>2. i # 0 => i - 1 \in 0..n
        BY <3>1
      <4> QED BY <2>3, <3>1, <4>1, <4>2
    <3>2. CASE i = n + 1
      <4>1. i - 1 \in 0..n /\ i \notin 0..n /\ i # 0
        BY <3>2
      <4> QED BY <2>2, <2>3, <4>1
    <3> QED BY <3>1, <3>2
  <2>5. Leaves(h, s, drop, n + 1)
    BY <2>2, <2>4 DEF Leaves
  <2> QED BY <2>5
<1>3. P = Nat
  <2> HIDE DEF P
  <2>1. P \in SUBSET Nat
    BY DEF P
  <2> QED BY <1>1, <1>2, <2>1, SetInduction
<1> QED BY <1>3

LEMMA WithoutUnfold ==
  ASSUME NEW s, NEW drop, Len(s) \in Nat
  PROVE  \E g : Leaves(g, s, drop, Len(s)) /\ Without(s, drop) = g[Len(s)]
<1> DEFINE body(g) == [i \in 0..Len(s) |-> IF i = 0 THEN <<>>
                        ELSE IF s[i] \in drop THEN g[i - 1] ELSE Append(g[i - 1], s[i])]
           chosen == CHOOSE g : g = body(g)
<1>1. \E g : g = body(g)
  <2>1. PICK g : Leaves(g, s, drop, Len(s))
    BY LeavesExists
  <2> QED BY <2>1 DEF Leaves
<1>2. chosen = body(chosen)
  BY <1>1
<1>3. Without(s, drop) = chosen[Len(s)]
  BY DEF Without
<1> HIDE DEF chosen
<1> QED BY <1>2, <1>3 DEF Leaves

\* What it computes depends on the elements only.
LEMMA LeavesAgree ==
  ASSUME NEW s, NEW t, NEW drop, NEW g, NEW h, NEW m \in Nat, NEW l \in Nat, NEW k \in Nat,
         k <= m, k <= l, Leaves(g, s, drop, m), Leaves(h, t, drop, l),
         \A i \in 1..k : s[i] = t[i]
  PROVE  g[k] = h[k]
<1> DEFINE P == {n \in Nat : n <= k => g[n] = h[n]}
<1>1. 0 \in P
  BY DEF Leaves
<1>2. ASSUME NEW n \in Nat, n \in P PROVE n + 1 \in P
  <2> SUFFICES ASSUME n + 1 <= k PROVE g[n + 1] = h[n + 1]
    OBVIOUS
  <2>1. n + 1 \in 0..m /\ n + 1 \in 0..l /\ n + 1 # 0 /\ (n + 1) - 1 = n /\ n + 1 \in 1..k
    OBVIOUS
  <2>2. g[n] = h[n]
    BY <1>2
  <2>3. g[n + 1] = IF s[n + 1] \in drop THEN g[n] ELSE Append(g[n], s[n + 1])
    BY <2>1 DEF Leaves
  <2>4. h[n + 1] = IF t[n + 1] \in drop THEN h[n] ELSE Append(h[n], t[n + 1])
    BY <2>1 DEF Leaves
  <2> QED BY <2>1, <2>2, <2>3, <2>4
<1>3. P = Nat
  <2> HIDE DEF P
  <2>1. P \in SUBSET Nat
    BY DEF P
  <2> QED BY <1>1, <1>2, <2>1, SetInduction
<1> QED BY <1>3

LEMMA WithoutEmpty == ASSUME NEW drop PROVE Without(<<>>, drop) = <<>>
<1>1. Len(<<>>) = 0
  OBVIOUS
<1>2. PICK g : Leaves(g, <<>>, drop, 0) /\ Without(<<>>, drop) = g[0]
  BY <1>1, WithoutUnfold
<1> QED BY <1>2 DEF Leaves

LEMMA WithoutAppend ==
  ASSUME NEW T, NEW s \in Seq(T), NEW x \in T, NEW drop
  PROVE  Without(Append(s, x), drop)
           = IF x \in drop THEN Without(s, drop) ELSE Append(Without(s, drop), x)
<1>1. PICK n \in Nat : n = Len(s)
  OBVIOUS
<1>2. PICK u \in Seq(T) : u = Append(s, x)
  <2>1. Append(s, x) \in Seq(T)
    OBVIOUS
  <2> QED BY <2>1
<1>3. Len(u) = n + 1 /\ u[n + 1] = x /\ \A i \in 1..n : s[i] = u[i]
  BY <1>1, <1>2
<1>4. PICK g : Leaves(g, s, drop, n) /\ Without(s, drop) = g[n]
  BY <1>1, WithoutUnfold
<1>5. PICK h : Leaves(h, u, drop, n + 1) /\ Without(u, drop) = h[n + 1]
  BY <1>3, WithoutUnfold
<1>6. g[n] = h[n]
  BY <1>3, <1>4, <1>5, LeavesAgree
<1>7. n + 1 \in 0..(n + 1) /\ n + 1 # 0 /\ (n + 1) - 1 = n
  OBVIOUS
<1>8. h[n + 1] = IF x \in drop THEN h[n] ELSE Append(h[n], x)
  BY <1>3, <1>5, <1>7 DEF Leaves
<1> QED BY <1>2, <1>4, <1>5, <1>6, <1>8

LEMMA WithoutType ==
  ASSUME NEW T, NEW s \in Seq(T), NEW drop
  PROVE  Without(s, drop) \in Seq(T \ drop) /\ Without(s, drop) \in Seq(T)
<1> DEFINE P == {n \in Nat : \A t \in Seq(T) : Len(t) = n => Without(t, drop) \in Seq(T \ drop)}
<1>1. 0 \in P
  <2>1. ASSUME NEW t \in Seq(T), Len(t) = 0 PROVE t = <<>>
    BY <2>1
  <2>2. <<>> \in Seq(T \ drop)
    OBVIOUS
  <2> QED BY <2>1, <2>2, WithoutEmpty
<1>2. ASSUME NEW n \in Nat, n \in P PROVE n + 1 \in P
  <2> SUFFICES ASSUME NEW t \in Seq(T), Len(t) = n + 1 PROVE Without(t, drop) \in Seq(T \ drop)
    OBVIOUS
  <2>1. PICK u \in Seq(T), x \in T : t = Append(u, x) /\ Len(u) = n
    BY SplitLast
  <2>2. Without(u, drop) \in Seq(T \ drop)
    BY <1>2, <2>1
  <2>3. Without(t, drop) = IF x \in drop THEN Without(u, drop) ELSE Append(Without(u, drop), x)
    BY <2>1, WithoutAppend
  <2> QED BY <2>2, <2>3
<1>3. P = Nat
  <2> HIDE DEF P
  <2>1. P \in SUBSET Nat
    BY DEF P
  <2> QED BY <1>1, <1>2, <2>1, SetInduction
<1>4. Without(s, drop) \in Seq(T \ drop)
  <2>1. Len(s) \in Nat
    OBVIOUS
  <2> QED BY <1>3, <2>1
<1>5. \A w \in Seq(T \ drop) : w \in Seq(T)
  OBVIOUS
<1> QED BY <1>4, <1>5

LEMMA WithoutConcat ==
  ASSUME NEW T, NEW s \in Seq(T), NEW e \in Seq(T), NEW drop
  PROVE  Without(s \o e, drop) = Without(s, drop) \o Without(e, drop)
<1>a. ASSUME NEW v \in Seq(T), NEW x \in T
      PROVE  Without(Append(v, x), drop)
               = IF x \in drop THEN Without(v, drop) ELSE Append(Without(v, drop), x)
  BY WithoutAppend
<1> DEFINE Good(t) == Without(s \o t, drop) = Without(s, drop) \o Without(t, drop)
           P == {n \in Nat : \A t \in Seq(T) : Len(t) = n => Good(t)}
<1>0. Without(s, drop) \in Seq(T)
  BY WithoutType
<1>1. 0 \in P
  <2>1. ASSUME NEW t \in Seq(T), Len(t) = 0 PROVE t = <<>>
    BY <2>1
  <2>2. s \o <<>> = s /\ Without(s, drop) \o <<>> = Without(s, drop)
    BY <1>0, ConcatEmpty
  <2>3. Good(<<>>)
    BY <2>2, WithoutEmpty
  <2> QED BY <2>1, <2>3
<1>2. ASSUME NEW n \in Nat, n \in P PROVE n + 1 \in P
  <2> SUFFICES ASSUME NEW t \in Seq(T), Len(t) = n + 1 PROVE Good(t)
    OBVIOUS
  <2>1. PICK u \in Seq(T), x \in T : t = Append(u, x) /\ Len(u) = n /\ x = t[n + 1]
    <3> HIDE DEF Good, P
    <3> QED BY Len(t) = n + 1, SplitLast, ZenonT(30)
  <2>2. Good(u)
    BY <1>2, <2>1
  <2>3. s \o t = Append(s \o u, x) /\ s \o u \in Seq(T)
    BY <2>1, ConcatAppend
  <2>4. Without(s \o t, drop)
          = IF x \in drop THEN Without(s \o u, drop) ELSE Append(Without(s \o u, drop), x)
    <3>1. PICK v \in Seq(T) : v = s \o u
      BY <2>3
    <3>2. Without(Append(v, x), drop) = IF x \in drop THEN Without(v, drop) ELSE Append(Without(v, drop), x)
      BY <1>a
    <3> QED BY <2>3, <3>1, <3>2
  <2>5. Without(t, drop) = IF x \in drop THEN Without(u, drop) ELSE Append(Without(u, drop), x)
    BY <1>a, <2>1
  <2>6. Without(u, drop) \in Seq(T)
    BY WithoutType
  <2>7. Without(s, drop) \o Append(Without(u, drop), x)
          = Append(Without(s, drop) \o Without(u, drop), x)
    BY <1>0, <2>6, ConcatAppend
  <2> QED BY <2>2, <2>4, <2>5, <2>7
<1>3. P = Nat
  <2> HIDE DEF P
  <2>1. P \in SUBSET Nat
    BY DEF P
  <2> QED BY <1>1, <1>2, <2>1, SetInduction
<1> QED
  <2>1. Len(e) \in Nat
    OBVIOUS
  <2> QED BY <1>3, <2>1

\* Nothing is left out of a sequence that has none of the elements, and
\* everything of one that has no others.
LEMMA WithoutNone ==
  ASSUME NEW T, NEW s \in Seq(T), NEW drop, T \intersect drop = {}
  PROVE  Without(s, drop) = s
<1> DEFINE P == {n \in Nat : \A t \in Seq(T) : Len(t) = n => Without(t, drop) = t}
<1>1. 0 \in P
  <2>1. ASSUME NEW t \in Seq(T), Len(t) = 0 PROVE t = <<>>
    BY <2>1
  <2> QED BY <2>1, WithoutEmpty
<1>2. ASSUME NEW n \in Nat, n \in P PROVE n + 1 \in P
  <2> SUFFICES ASSUME NEW t \in Seq(T), Len(t) = n + 1 PROVE Without(t, drop) = t
    OBVIOUS
  <2>1. PICK u \in Seq(T), x \in T : t = Append(u, x) /\ Len(u) = n
    BY SplitLast
  <2>2. Without(u, drop) = u /\ x \notin drop
    BY <1>2, <2>1
  <2> QED BY <2>1, <2>2, WithoutAppend
<1>3. P = Nat
  <2> HIDE DEF P
  <2>1. P \in SUBSET Nat
    BY DEF P
  <2> QED BY <1>1, <1>2, <2>1, SetInduction
<1> QED
  <2>1. Len(s) \in Nat
    OBVIOUS
  <2> QED BY <1>3, <2>1

LEMMA WithoutAll ==
  ASSUME NEW T, NEW s \in Seq(T), NEW drop, T \subseteq drop
  PROVE  Without(s, drop) = <<>>
<1>1. Without(s, drop) \in Seq(T \ drop)
  BY WithoutType
<1>2. T \ drop = {}
  OBVIOUS
<1>3. \A w \in Seq({}) : w = <<>>
  <2> SUFFICES ASSUME NEW w \in Seq({}) PROVE w = <<>>
    OBVIOUS
  <2>1. Len(w) \in Nat /\ \A i \in 1..Len(w) : w[i] \in {}
    OBVIOUS
  <2>2. Len(w) = 0
    BY <2>1
  <2> QED BY <2>2
<1> QED BY <1>1, <1>2, <1>3
----------------------------------------------------------------------------
(* Trimming a payload *)

LEMMA SeqWiden ==
  ASSUME NEW T, NEW U, T \subseteq U, NEW s \in Seq(T)
  PROVE  s \in Seq(U)
<1>1. s = [i \in 1..Len(s) |-> s[i]] /\ Len(s) \in Nat /\ \A i \in 1..Len(s) : s[i] \in U
  OBVIOUS
<1> QED BY <1>1

LEMMA HeadIs ==
  ASSUME NEW T, NEW s \in Seq(T), s # <<>>
  PROVE  Head(s) = s[1] /\ Len(s) \in Nat \ {0}
OBVIOUS

LEMMA EmptyIs == ASSUME NEW T, NEW s \in Seq(T), Len(s) = 0 PROVE s = <<>>
OBVIOUS

LEMMA AppendFacts ==
  ASSUME NEW T, NEW s \in Seq(T), NEW x \in T
  PROVE  /\ Append(s, x) \in Seq(T) /\ Append(s, x) # <<>> /\ Len(Append(s, x)) = Len(s) + 1
         /\ Append(s, x)[Len(s) + 1] = x /\ \A i \in 1..Len(s) : Append(s, x)[i] = s[i]
OBVIOUS

LEMMA Single ==
  ASSUME NEW T, NEW x \in T
  PROVE  <<x>> \in Seq(T) /\ Len(<<x>>) = 1 /\ <<x>>[1] = x
OBVIOUS

\* What payloads and rows are made of.
Marks == {"ws", "{", "}", ",", "nl"}
Tokens == Symbols \union Marks \union {Columns[i] : i \in 1..5}

LEMMA TokenFacts == /\ Whitespace \subseteq Tokens /\ "{" \in Tokens /\ "}" \in Tokens
                    /\ "," \in Tokens /\ "nl" \in Tokens
BY DEF Tokens, Marks, Whitespace

\* A stretch of whitespace.
LEMMA Blank ==
  ASSUME NEW s \in Seq(Tokens), NEW k \in Nat, NEW n \in Nat,
         \A i \in 1..n : s[k + i] \in Whitespace
  PROVE  \E w \in Seq(Whitespace) : w \in Seq(Tokens) /\ Len(w) = n /\ \A i \in 1..n : w[i] = s[k + i]
<1>1. PICK w : w = [i \in 1..n |-> s[k + i]]
  OBVIOUS
<1>2. w \in Seq(Whitespace) /\ Len(w) = n /\ \A i \in 1..n : w[i] = s[k + i]
  BY <1>1
<1>3. w \in Seq(Tokens)
  BY <1>2, TokenFacts, SeqWiden
<1> QED BY <1>2, <1>3

LEMMA CutFacts ==
  ASSUME NEW T, NEW s \in Seq(T), NEW a \in 1..Len(s), NEW b \in a..Len(s)
  PROVE  /\ SubSeq(s, a, b) \in Seq(T) /\ Len(SubSeq(s, a, b)) = b - a + 1
         /\ \A i \in 1..(b - a + 1) : SubSeq(s, a, b)[i] = s[a + i - 1]
<1>1. Len(s) \in Nat /\ a \in Nat /\ b \in Nat /\ a <= b /\ b - a + 1 \in Nat
  OBVIOUS
<1>2. Len(SubSeq(s, a, b)) = b - a + 1
  BY <1>1
<1>3. \A i \in 1..(b - a + 1) : SubSeq(s, a, b)[i] = s[a + i - 1]
  BY <1>1
<1>4. SubSeq(s, a, b) \in Seq(T)
  BY <1>1
<1> QED BY <1>2, <1>3, <1>4

LEMMA SplitFirst ==
  ASSUME NEW T, NEW s \in Seq(T), NEW n \in Nat, Len(s) = n + 1
  PROVE  \E t \in Seq(T) : s = <<s[1]>> \o t /\ Len(t) = n
<1>0. \A i \in 1..(n + 1) : s[i] \in T
  OBVIOUS
<1>1. PICK t : t = [i \in 1..n |-> s[i + 1]]
  OBVIOUS
<1>2. \A i \in 1..n : t[i] \in T
  BY <1>0, <1>1
<1>3. t \in Seq(T) /\ Len(t) = n
  BY <1>1, <1>2
<1>4. PICK e \in Seq(T) : e = <<s[1]>> /\ Len(e) = 1 /\ e[1] = s[1]
  <2>1. s[1] \in T
    BY <1>0
  <2> QED BY <2>1, Single
<1>5. PICK a \in Seq(T) : a = e \o t
  BY <1>3, ConcatFacts
<1>6. Len(a) = n + 1 /\ a[1] = s[1] /\ \A i \in 1..n : a[1 + i] = t[i]
  BY <1>3, <1>4, <1>5
<1>7. ASSUME NEW i \in 1..(n + 1) PROVE a[i] = s[i]
  <2>1. CASE i = 1
    BY <1>6, <2>1
  <2>2. CASE i # 1
    <3>1. PICK j \in 1..n : i = j + 1
      <4>1. i - 1 \in 1..n /\ i = (i - 1) + 1
        BY <2>2
      <4> QED BY <4>1
    <3> QED BY <1>1, <1>6, <3>1
  <2> QED BY <2>1, <2>2
<1>8. a = s
  BY <1>6, <1>7, SeqEqual
<1> QED BY <1>3, <1>4, <1>5, <1>8

\* Whitespace, what trim_ascii leaves, and whitespace.
LEMMA TrimSplits ==
  ASSUME NEW s \in Seq(Tokens)
  PROVE  LET t == trim_ascii(s) IN
         /\ t \in Seq(Tokens)
         /\ t # <<>> => t[1] \notin Whitespace /\ t[Len(t)] \notin Whitespace
         /\ \E pre, post \in Seq(Whitespace) : s = (pre \o t) \o post
<1> DEFINE ink == {i \in DOMAIN s : s[i] \notin Whitespace}
<1>1. PICK n \in Nat : n = Len(s) /\ DOMAIN s = 1..n /\ \A i \in 1..n : s[i] \in Tokens
  OBVIOUS
<1>2. CASE ink = {}
  <2>1. trim_ascii(s) = <<>>
    BY <1>2 DEF trim_ascii
  <2>2. \A i \in 1..n : s[i] \in Whitespace
    BY <1>1, <1>2
  <2>3. s \in Seq(Whitespace)
    <3>1. s = [i \in 1..n |-> s[i]]
      BY <1>1
    <3> QED BY <2>2, <3>1
  <2>4. <<>> \in Seq(Whitespace) /\ <<>> \in Seq(Tokens)
    OBVIOUS
  <2>5. s = (s \o <<>>) \o <<>>
    BY <2>3, ConcatEmpty
  <2> QED BY <2>1, <2>3, <2>4, <2>5
<1>3. CASE ink # {}
  <2>1. ink \in SUBSET Nat /\ IsFiniteSet(ink)
    <3>1. IsFiniteSet(1..n)
      BY FS_Interval
    <3>2. ink \in SUBSET (1..n)
      BY <1>1
    <3> QED BY <3>1, <3>2, FS_Subset
  <2>2. PICK b \in ink : b = Max(ink) /\ \A x \in ink : x <= b
    BY <1>3, <2>1, MaxNumber
  <2>3. PICK a \in ink : a = Min(ink) /\ \A x \in ink : a <= x
    <3>1. \E m \in ink : \A x \in ink : m <= x
      BY <1>3, <2>1, LeastNumber
    <3> QED BY <3>1 DEF Min
  <2>4. trim_ascii(s) = SubSeq(s, a, b)
    BY <1>3, <2>2, <2>3 DEF trim_ascii
  <2>5. a \in 1..n /\ b \in 1..n /\ a <= b /\ s[a] \notin Whitespace /\ s[b] \notin Whitespace
    BY <1>1, <2>2, <2>3
  <2>6. ASSUME NEW i \in 1..n, i < a \/ b < i PROVE s[i] \in Whitespace
    <3>1. a \in Nat /\ b \in Nat /\ (~(a <= i) \/ ~(i <= b))
      BY <2>5, <2>6
    <3>2. i \notin ink
      BY <2>2, <2>3, <3>1
    <3> QED BY <1>1, <3>2
  <2> HIDE DEF ink
  <2>7. PICK t \in Seq(Tokens) : t = SubSeq(s, a, b) /\ Len(t) = b - a + 1
                               /\ \A i \in 1..(b - a + 1) : t[i] = s[a + i - 1]
    <3>1. a \in 1..Len(s) /\ b \in a..Len(s)
      BY <1>1, <2>5
    <3>2. /\ SubSeq(s, a, b) \in Seq(Tokens) /\ Len(SubSeq(s, a, b)) = b - a + 1
          /\ \A i \in 1..(b - a + 1) : SubSeq(s, a, b)[i] = s[a + i - 1]
      BY <3>1, CutFacts
    <3> QED BY <3>2
  <2>8. Len(t) = b - a + 1 /\ \A i \in 1..Len(t) : t[i] = s[a + i - 1]
    BY <2>7
  <2>9. t # <<>> /\ t[1] \notin Whitespace /\ t[Len(t)] \notin Whitespace
    <3>1. 1 \in 1..Len(t) /\ Len(t) \in 1..Len(t) /\ a + 1 - 1 = a /\ a + Len(t) - 1 = b
      BY <2>5, <2>8
    <3> QED BY <2>5, <2>8, <3>1
  <2>10. a - 1 \in Nat /\ n - b \in Nat
    BY <2>5
  <2>12. PICK pre \in Seq(Whitespace) : /\ Len(pre) = a - 1 /\ pre \in Seq(Tokens)
                                        /\ \A i \in 1..(a - 1) : pre[i] = s[i]
    <3>1. \A i \in 1..(a - 1) : s[0 + i] \in Whitespace
      BY <2>5, <2>6
    <3>2. PICK m \in Nat, o \in Nat : m = a - 1 /\ o = 0
      BY <2>10
    <3>3. \A i \in 1..m : s[o + i] \in Whitespace
      BY <3>1, <3>2
    <3>4. PICK w \in Seq(Whitespace) :
            w \in Seq(Tokens) /\ Len(w) = m /\ \A i \in 1..m : w[i] = s[o + i]
      BY <3>3, Blank, Zenon
    <3>5. \A i \in 1..m : o + i = i
      BY <3>2
    <3> QED BY <3>2, <3>4, <3>5
  <2>13. PICK post \in Seq(Whitespace) : /\ Len(post) = n - b /\ post \in Seq(Tokens)
                                         /\ \A i \in 1..(n - b) : post[i] = s[b + i]
    <3>1. \A i \in 1..(n - b) : s[b + i] \in Whitespace
      BY <2>5, <2>6
    <3>2. b \in Nat
      BY <2>5
    <3> QED BY <2>10, <3>1, <3>2, Blank
  <2>14. PICK u \in Seq(Tokens) : u = pre \o t
    BY <2>12, ConcatFacts
  <2>15. PICK w \in Seq(Tokens) : w = u \o post
    BY <2>13, <2>14, ConcatFacts
  <2>16. Len(u) = b /\ (\A i \in 1..(a - 1) : u[i] = s[i]) /\ (\A i \in a..b : u[i] = s[i])
    <3>1. Len(u) = b
      <4>1. Len(u) = Len(pre) + Len(t)
        BY <2>12, <2>14, ConcatFacts
      <4> QED BY <2>5, <2>8, <2>12, <4>1
    <3>2. ASSUME NEW i \in 1..(a - 1) PROVE u[i] = s[i]
      <4>1. u[i] = pre[i]
        BY <2>12, <2>14, ConcatFacts
      <4> QED BY <2>12, <4>1
    <3>3. ASSUME NEW i \in a..b PROVE u[i] = s[i]
      <4>1. PICK j \in 1..Len(t) : i = (a - 1) + j
        <5>1. i - a + 1 \in 1..Len(t) /\ i = (a - 1) + (i - a + 1)
          BY <2>5, <2>8
        <5> QED BY <5>1
      <4>2. u[Len(pre) + j] = t[j]
        BY <2>12, <2>14, ConcatFacts
      <4>3. a + j - 1 = i
        BY <2>5, <2>8, <4>1
      <4> QED BY <2>8, <2>12, <4>1, <4>2, <4>3
    <3> QED BY <3>1, <3>2, <3>3
  <2>17. Len(w) = n /\ (\A i \in 1..b : w[i] = u[i]) /\ (\A i \in (b + 1)..n : w[i] = s[i])
    <3>1. Len(w) = n
      <4>1. Len(w) = Len(u) + Len(post)
        BY <2>13, <2>15, ConcatFacts
      <4> QED BY <2>5, <2>13, <2>16, <4>1
    <3>2. \A i \in 1..b : w[i] = u[i]
      BY <2>13, <2>15, <2>16, ConcatFacts
    <3>3. ASSUME NEW i \in (b + 1)..n PROVE w[i] = s[i]
      <4>1. PICK j \in 1..Len(post) : i = b + j
        <5>1. i - b \in 1..Len(post) /\ i = b + (i - b)
          BY <2>5, <2>13
        <5> QED BY <5>1
      <4>2. w[Len(u) + j] = post[j]
        BY <2>13, <2>15, ConcatFacts
      <4>3. post[j] = s[i]
        BY <2>13, <4>1
      <4> QED BY <2>16, <4>1, <4>2, <4>3
    <3> QED BY <3>1, <3>2, <3>3
  <2>18. w = s
    <3>1. ASSUME NEW i \in 1..n PROVE w[i] = s[i]
      <4>1. CASE i \in 1..(a - 1)
        <5>1. i \in 1..b
          BY <2>5, <4>1
        <5> QED BY <2>16, <2>17, <4>1, <5>1
      <4>2. CASE i \in a..b
        <5>1. i \in 1..b
          BY <2>5, <4>2
        <5> QED BY <2>16, <2>17, <4>2, <5>1
      <4>3. CASE i \in (b + 1)..n
        BY <2>17, <4>3
      <4> QED BY <2>5, <4>1, <4>2, <4>3
    <3> QED BY <1>1, <2>17, <3>1, SeqEqual
  <2> QED BY <2>4, <2>7, <2>9, <2>12, <2>13, <2>14, <2>15, <2>18
<1> QED BY <1>2, <1>3

LEMMA InkType == ASSUME NEW s \in Seq(Tokens) PROVE Ink(s) \in Seq(Tokens)
BY WithoutType DEF Ink

LEMMA InkConcat ==
  ASSUME NEW s \in Seq(Tokens), NEW t \in Seq(Tokens)
  PROVE  s \o t \in Seq(Tokens) /\ Ink(s \o t) = Ink(s) \o Ink(t)
<1>1. Without(s \o t, Whitespace) = Without(s, Whitespace) \o Without(t, Whitespace)
  BY WithoutConcat
<1> QED BY <1>1, ConcatFacts DEF Ink

LEMMA InkTrim ==
  ASSUME NEW s \in Seq(Tokens)
  PROVE  Ink(trim_ascii(s)) = Ink(s)
<1>1. PICK t : t = trim_ascii(s)
  OBVIOUS
<1>2. PICK pre, post \in Seq(Whitespace) : s = (pre \o t) \o post
  BY <1>1, TrimSplits
<1>3. t \in Seq(Tokens)
  BY <1>1, TrimSplits
<1>4. \A w \in Seq(Whitespace) : w \in Seq(Tokens)
  <2>1. Whitespace \subseteq Tokens
    BY TokenFacts
  <2> QED BY <2>1, SeqWiden
<1>5. Ink(pre) = <<>> /\ Ink(post) = <<>>
  BY WithoutAll DEF Ink
<1>6. PICK u \in Seq(Tokens) : u = pre \o t /\ Ink(u) = Ink(pre) \o Ink(t)
  BY <1>3, <1>4, InkConcat
<1>7. Ink(s) = Ink(u) \o Ink(post)
  BY <1>2, <1>4, <1>6, InkConcat
<1>8. Ink(t) \in Seq(Tokens) /\ <<>> \o Ink(t) = Ink(t) /\ Ink(t) \o <<>> = Ink(t)
  BY <1>3, InkType, ConcatEmpty
<1> QED BY <1>1, <1>5, <1>6, <1>7, <1>8

\* The ends of a text that begins and ends with ink.
LEMMA InkEnds ==
  ASSUME NEW t \in Seq(Tokens), t # <<>>, t[1] \notin Whitespace, t[Len(t)] \notin Whitespace
  PROVE  /\ Ink(t) # <<>> /\ Ink(t) \in Seq(Tokens)
         /\ Head(Ink(t)) = t[1] /\ Last(Ink(t)) = t[Len(t)]
<1>1. PICK n \in Nat : Len(t) = n + 1
  <2>1. Len(t) \in Nat /\ Len(t) # 0
    OBVIOUS
  <2>2. Len(t) - 1 \in Nat /\ Len(t) = (Len(t) - 1) + 1
    BY <2>1
  <2> QED BY <2>2
<1>2. PICK u \in Seq(Tokens) : t = <<t[1]>> \o u /\ Len(u) = n
  BY <1>1, SplitFirst, Zenon
<1>3. PICK v \in Seq(Tokens), x \in Tokens : t = Append(v, x) /\ Len(v) = n /\ x = t[n + 1]
  BY <1>1, SplitLast, SMTT(60)
<1>4. Ink(u) \in Seq(Tokens) /\ Ink(v) \in Seq(Tokens) /\ Ink(t) \in Seq(Tokens)
  BY InkType
<1>5. Ink(t) = Append(Ink(v), x)
  <2>1. x \notin Whitespace
    BY <1>1, <1>3
  <2>2. Without(Append(v, x), Whitespace) = Append(Without(v, Whitespace), x)
    BY <2>1, WithoutAppend
  <2> QED BY <1>3, <2>2 DEF Ink
<1>6. Ink(t) = <<t[1]>> \o Ink(u)
  <2>1. t[1] \in Tokens \ Whitespace
    BY <1>1
  <2>2. PICK e \in Seq(Tokens \ Whitespace) : e = <<t[1]>> /\ e \in Seq(Tokens)
    BY <2>1, Single
  <2>3. Ink(e) = e
    BY WithoutNone DEF Ink
  <2>4. Ink(e \o u) = Ink(e) \o Ink(u)
    BY <2>2, InkConcat
  <2> QED BY <1>2, <2>2, <2>3, <2>4
<1>7. Ink(t) # <<>> /\ Last(Ink(t)) = x
  <2>1. Ink(t) # <<>> /\ Ink(t)[Len(Ink(t))] = x
    BY <1>4, <1>5, AppendFacts
  <2> QED BY <2>1 DEF Last
<1>8. Head(Ink(t)) = t[1]
  <2>1. t[1] \in Tokens
    BY <1>1
  <2> QED BY <1>4, <1>6, <2>1
<1> QED BY <1>1, <1>3, <1>4, <1>7, <1>8

\* No object is refused.
LEMMA ObjectAccepted ==
  ASSUME NEW s \in Seq(Tokens), IsObject(s)
  PROVE  Rejection(s) = "none"
<1>1. PICK t \in Seq(Tokens) :
        /\ t = trim_ascii(s) /\ Ink(t) = Ink(s)
        /\ t # <<>> => t[1] \notin Whitespace /\ t[Len(t)] \notin Whitespace
  BY TrimSplits, InkTrim
<1>2. Len(Ink(s)) >= 2 /\ Head(Ink(s)) = "{" /\ Last(Ink(s)) = "}"
  BY DEF IsObject
<1>3. t # <<>>
  <2> SUFFICES ASSUME t = <<>> PROVE FALSE
    OBVIOUS
  <2>1. Ink(t) = <<>>
    BY WithoutEmpty DEF Ink
  <2>2. Len(Ink(t)) = 0
    BY <2>1
  <2>3. Len(Ink(s)) = 0
    BY <1>1, <2>2
  <2>4. 0 >= 2
    BY <1>2, <2>3
  <2> QED BY <2>4
<1>4. Head(t) = "{" /\ Last(t) = "}"
  <2>1. t[1] \notin Whitespace /\ t[Len(t)] \notin Whitespace
    BY <1>1, <1>3
  <2>2. Head(Ink(t)) = t[1] /\ Last(Ink(t)) = t[Len(t)]
    BY <1>3, <2>1, InkEnds
  <2>3. Head(t) = t[1]
    BY <1>3, HeadIs
  <2>4. Last(t) = t[Len(t)]
    BY DEF Last
  <2> QED BY <1>1, <1>2, <2>2, <2>3, <2>4
<1>5. trim_ascii(s) # <<>> /\ Head(trim_ascii(s)) = "{" /\ Last(trim_ascii(s)) = "}"
  BY <1>1, <1>3, <1>4
<1> QED BY <1>5, Zenon DEF Rejection
----------------------------------------------------------------------------
(* Flattening *)

\* g is the recursive function FlattenSeq defines, on the first n places.
Flattens(g, s, n) == g = [i \in 1..n |-> IF i = 1 THEN s[i] ELSE g[i - 1] \o s[i]]

LEMMA FlattensExists ==
  ASSUME NEW s, NEW m \in Nat
  PROVE  \E g : Flattens(g, s, m)
<1> DEFINE P == {n \in Nat : \E g : Flattens(g, s, n)}
<1>1. 0 \in P
  <2>1. PICK g : g = [i \in 1..0 |-> <<>>]
    OBVIOUS
  <2>2. Flattens(g, s, 0)
    BY <2>1 DEF Flattens
  <2> QED BY <2>2
<1>2. ASSUME NEW n \in Nat, n \in P PROVE n + 1 \in P
  <2>1. PICK g : Flattens(g, s, n)
    BY <1>2
  <2>2. PICK h : h = [i \in 1..(n + 1) |-> IF i \in 1..n THEN g[i]
                                           ELSE IF i = 1 THEN s[i] ELSE g[i - 1] \o s[i]]
    OBVIOUS
  <2>3. \A i \in 1..n : h[i] = g[i]
    BY <2>2
  <2>4. ASSUME NEW i \in 1..(n + 1)
        PROVE  h[i] = IF i = 1 THEN s[i] ELSE h[i - 1] \o s[i]
    <3>1. i # 1 => i - 1 \in 1..n
      OBVIOUS
    <3>2. CASE i \in 1..n
      <4>1. g[i] = IF i = 1 THEN s[i] ELSE g[i - 1] \o s[i]
        BY <2>1, <3>2 DEF Flattens
      <4> QED BY <2>3, <3>1, <3>2, <4>1
    <3>3. CASE i \notin 1..n
      BY <2>2, <2>3, <3>1, <3>3
    <3> QED BY <3>2, <3>3
  <2>5. Flattens(h, s, n + 1)
    BY <2>2, <2>4 DEF Flattens
  <2> QED BY <2>5
<1>3. P = Nat
  <2> HIDE DEF P
  <2>1. P \in SUBSET Nat
    BY DEF P
  <2> QED BY <1>1, <1>2, <2>1, SetInduction
<1> QED BY <1>3

LEMMA FlattenUnfold ==
  ASSUME NEW s, NEW n \in Nat, Len(s) = n
  PROVE  /\ n = 0 => FlattenSeq(s) = s
         /\ n # 0 => \E g : Flattens(g, s, n) /\ FlattenSeq(s) = g[n]
<1> DEFINE body(g) == [i \in 1..n |-> IF i = 1 THEN s[i] ELSE g[i - 1] \o s[i]]
           chosen == CHOOSE g : g = body(g)
<1>1. \E g : g = body(g)
  <2>1. PICK g : Flattens(g, s, n)
    BY FlattensExists
  <2> QED BY <2>1 DEF Flattens
<1>2. chosen = body(chosen)
  BY <1>1
<1>3. n = 0 => FlattenSeq(s) = s
  BY DEF FlattenSeq
<1>4. n # 0 => FlattenSeq(s) = chosen[n]
  BY Zenon DEF FlattenSeq
<1> HIDE DEF chosen
<1> QED BY <1>2, <1>3, <1>4 DEF Flattens

LEMMA FlattensAgree ==
  ASSUME NEW s, NEW t, NEW g, NEW h, NEW m \in Nat, NEW l \in Nat, NEW k \in Nat,
         k # 0, k <= m, k <= l, Flattens(g, s, m), Flattens(h, t, l),
         \A i \in 1..k : s[i] = t[i]
  PROVE  g[k] = h[k]
<1> DEFINE P == {n \in Nat : n # 0 /\ n <= k => g[n] = h[n]}
<1>1. 0 \in P
  OBVIOUS
<1>2. ASSUME NEW n \in Nat, n \in P PROVE n + 1 \in P
  <2> SUFFICES ASSUME n + 1 <= k PROVE g[n + 1] = h[n + 1]
    OBVIOUS
  <2>1. n + 1 \in 1..m /\ n + 1 \in 1..l /\ (n + 1) - 1 = n /\ n + 1 \in 1..k
    OBVIOUS
  <2>2. n # 0 => g[n] = h[n]
    BY <1>2
  <2>3. g[n + 1] = IF n + 1 = 1 THEN s[n + 1] ELSE g[n] \o s[n + 1]
    BY <2>1 DEF Flattens
  <2>4. h[n + 1] = IF n + 1 = 1 THEN t[n + 1] ELSE h[n] \o t[n + 1]
    BY <2>1 DEF Flattens
  <2>5. n + 1 = 1 <=> n = 0
    OBVIOUS
  <2> QED BY <2>1, <2>2, <2>3, <2>4, <2>5
<1>3. P = Nat
  <2> HIDE DEF P
  <2>1. P \in SUBSET Nat
    BY DEF P
  <2> QED BY <1>1, <1>2, <2>1, SetInduction
<1> QED BY <1>3

LEMMA FlattenEmpty == FlattenSeq(<<>>) = <<>>
<1>1. Len(<<>>) = 0
  OBVIOUS
<1> QED BY <1>1, FlattenUnfold

LEMMA FlattenAppend ==
  ASSUME NEW T, NEW s \in Seq(Seq(T)), NEW x \in Seq(T)
  PROVE  FlattenSeq(Append(s, x)) = FlattenSeq(s) \o x
<1>1. PICK n \in Nat : n = Len(s)
  OBVIOUS
<1>2. PICK u \in Seq(Seq(T)) : u = Append(s, x) /\ Len(u) = n + 1 /\ u[n + 1] = x
                               /\ \A i \in 1..n : s[i] = u[i]
  <2>1. PICK U : U = Seq(T)
    OBVIOUS
  <2>2. s \in Seq(U) /\ x \in U
    BY <2>1
  <2>3. /\ Append(s, x) \in Seq(U) /\ Len(Append(s, x)) = Len(s) + 1
        /\ Append(s, x)[Len(s) + 1] = x /\ \A i \in 1..Len(s) : Append(s, x)[i] = s[i]
    BY <2>2, AppendFacts
  <2>4. PICK u : u = Append(s, x)
    OBVIOUS
  <2>5. /\ u \in Seq(U) /\ Len(u) = n + 1 /\ u[n + 1] = x /\ \A i \in 1..n : s[i] = u[i]
    BY <1>1, <2>3, <2>4
  <2> QED BY <2>1, <2>4, <2>5
<1>3. PICK h : Flattens(h, u, n + 1) /\ FlattenSeq(u) = h[n + 1]
  <2>1. PICK k \in Nat : k = n + 1 /\ k # 0
    OBVIOUS
  <2>2. Len(u) = k
    BY <1>2, <2>1
  <2>3. \E h : Flattens(h, u, k) /\ FlattenSeq(u) = h[k]
    BY <2>1, <2>2, FlattenUnfold
  <2> QED BY <2>1, <2>3
<1>4. h[n + 1] = IF n + 1 = 1 THEN x ELSE h[n] \o x
  <2>1. n + 1 \in 1..(n + 1) /\ (n + 1) - 1 = n
    OBVIOUS
  <2> QED BY <1>2, <1>3, <2>1 DEF Flattens
<1>5. CASE n = 0
  <2>1. s = <<>>
    BY <1>1, <1>5, EmptyIs
  <2>2. <<>> \o x = x
    BY ConcatEmpty
  <2> QED BY <1>2, <1>3, <1>4, <1>5, <2>1, <2>2, FlattenEmpty
<1>6. CASE n # 0
  <2>1. PICK g : Flattens(g, s, n) /\ FlattenSeq(s) = g[n]
    BY <1>1, <1>6, FlattenUnfold
  <2>2. g[n] = h[n]
    <3>1. PICK l \in Nat : l = n + 1 /\ n <= l
      OBVIOUS
    <3>2. Flattens(h, u, l) /\ Flattens(g, s, n) /\ n <= n /\ \A i \in 1..n : s[i] = u[i]
      BY <1>2, <1>3, <2>1, <3>1
    <3> QED BY <1>6, <3>1, <3>2, FlattensAgree
  <2>3. n + 1 # 1
    BY <1>6
  <2> QED BY <1>2, <1>3, <1>4, <2>1, <2>2, <2>3
<1> QED BY <1>5, <1>6

LEMMA FlattenType ==
  ASSUME NEW T, NEW s \in Seq(Seq(T))
  PROVE  FlattenSeq(s) \in Seq(T)
<1> DEFINE P == {n \in Nat : \A t \in Seq(Seq(T)) : Len(t) = n => FlattenSeq(t) \in Seq(T)}
<1>1. 0 \in P
  <2>1. ASSUME NEW t \in Seq(Seq(T)), Len(t) = 0 PROVE t = <<>>
    BY <2>1
  <2>2. <<>> \in Seq(T)
    OBVIOUS
  <2> QED BY <2>1, <2>2, FlattenEmpty
<1>2. ASSUME NEW n \in Nat, n \in P PROVE n + 1 \in P
  <2> SUFFICES ASSUME NEW t \in Seq(Seq(T)), Len(t) = n + 1 PROVE FlattenSeq(t) \in Seq(T)
    OBVIOUS
  <2>1. PICK u \in Seq(Seq(T)), x \in Seq(T) : t = Append(u, x) /\ Len(u) = n /\ x = t[n + 1]
    <3> HIDE DEF P
    <3> QED BY Len(t) = n + 1, SplitLast, ZenonT(30)
  <2>2. FlattenSeq(u) \in Seq(T)
    BY <1>2, <2>1
  <2>3. FlattenSeq(t) = FlattenSeq(u) \o x
    BY <2>1, FlattenAppend
  <2> QED BY <2>2, <2>3, ConcatFacts
<1>3. P = Nat
  <2> HIDE DEF P
  <2>1. P \in SUBSET Nat
    BY DEF P
  <2> QED BY <1>1, <1>2, <2>1, SetInduction
<1> QED
  <2>1. Len(s) \in Nat
    OBVIOUS
  <2> QED BY <1>3, <2>1

LEMMA FlattenConcat ==
  ASSUME NEW T, NEW s \in Seq(Seq(T)), NEW e \in Seq(Seq(T))
  PROVE  FlattenSeq(s \o e) = FlattenSeq(s) \o FlattenSeq(e)
<1>a. \A a, b, c \in Seq(T) : (a \o b) \o c = a \o (b \o c)
  BY ConcatAssoc
<1> DEFINE Good(t) == FlattenSeq(s \o t) = FlattenSeq(s) \o FlattenSeq(t)
           P == {n \in Nat : \A t \in Seq(Seq(T)) : Len(t) = n => Good(t)}
<1>0. FlattenSeq(s) \in Seq(T)
  BY FlattenType
<1>1. 0 \in P
  <2>1. ASSUME NEW t \in Seq(Seq(T)), Len(t) = 0 PROVE t = <<>>
    BY <2>1
  <2>2. s \o <<>> = s /\ FlattenSeq(s) \o <<>> = FlattenSeq(s)
    BY <1>0, ConcatEmpty
  <2>3. Good(<<>>)
    BY <2>2, FlattenEmpty
  <2> QED BY <2>1, <2>3
<1>2. ASSUME NEW n \in Nat, n \in P PROVE n + 1 \in P
  <2> SUFFICES ASSUME NEW t \in Seq(Seq(T)), Len(t) = n + 1 PROVE Good(t)
    OBVIOUS
  <2>1. PICK u \in Seq(Seq(T)), x \in Seq(T) : t = Append(u, x) /\ Len(u) = n /\ x = t[n + 1]
    <3> HIDE DEF Good, P
    <3> QED BY Len(t) = n + 1, SplitLast, ZenonT(30)
  <2>2. Good(u)
    BY <1>2, <2>1
  <2>3. s \o t = Append(s \o u, x) /\ s \o u \in Seq(Seq(T))
    BY <2>1, ConcatAppend, ConcatFacts
  <2>4. FlattenSeq(s \o t) = FlattenSeq(s \o u) \o x
    <3>1. PICK v \in Seq(Seq(T)) : v = s \o u
      BY <2>3
    <3>2. FlattenSeq(Append(v, x)) = FlattenSeq(v) \o x
      BY FlattenAppend
    <3> QED BY <2>3, <3>1, <3>2
  <2>5. FlattenSeq(t) = FlattenSeq(u) \o x /\ FlattenSeq(u) \in Seq(T)
    BY <2>1, FlattenAppend, FlattenType
  <2>6. (FlattenSeq(s) \o FlattenSeq(u)) \o x = FlattenSeq(s) \o (FlattenSeq(u) \o x)
    <3>1. PICK a \in Seq(T), b \in Seq(T) : a = FlattenSeq(s) /\ b = FlattenSeq(u)
      BY <1>0, <2>5
    <3>2. (a \o b) \o x = a \o (b \o x)
      BY <1>a
    <3> QED BY <3>1, <3>2
  <2> QED BY <2>2, <2>4, <2>5, <2>6
<1>3. P = Nat
  <2> HIDE DEF P
  <2>1. P \in SUBSET Nat
    BY DEF P
  <2> QED BY <1>1, <1>2, <2>1, SetInduction
<1> QED
  <2>1. Len(e) \in Nat
    OBVIOUS
  <2> QED BY <1>3, <2>1
----------------------------------------------------------------------------
(* The round trip of a key *)

\* The characters of escaped text.
Escaping == {"\"", "\\", "n", "r", "t", "u", "ctl", "U+FFFD"}

Read(key) == [j \in DOMAIN key |-> Lossy(key[j])]
Escaped(key) == [i \in DOMAIN key |-> Escape(Lossy(key[i]))]

After(c) == CASE c = "n" -> "nl" [] c = "r" -> "cr" [] c = "t" -> "tab" [] OTHER -> c

\* One step of ReadString at place i, given what is read from the places after.
ReadStep(text, i, g) ==
    IF i > Len(text) THEN <<"invalid">>
    ELSE IF text[i] = "\"" THEN (IF i = Len(text) THEN <<>> ELSE <<"invalid">>)
    ELSE IF text[i] = "\\" THEN
           (IF i + 2 > Len(text) THEN <<"invalid">>
            ELSE IF text[i + 1] = "u" THEN <<text[i + 2]>> \o g[i + 3]
            ELSE <<After(text[i + 1])>> \o g[i + 2])
    ELSE IF text[i] \in {"nl", "cr", "tab", "ctl", "bad"} THEN <<"invalid">>
    ELSE <<text[i]>> \o g[i + 1]

Reads(g, text, D) == g = [i \in D |-> ReadStep(text, i, g)]

LEMMA ReadStepAgrees ==
  ASSUME NEW text, Len(text) \in Nat, NEW i \in 1..(Len(text) + 1), NEW g, NEW h,
         \A j \in (i + 1)..(Len(text) + 1) : g[j] = h[j]
  PROVE  ReadStep(text, i, g) = ReadStep(text, i, h)
<1>1. CASE i > Len(text)
  BY <1>1 DEF ReadStep
<1>2. CASE i <= Len(text)
  <2>1. g[i + 1] = h[i + 1]
    BY <1>2
  <2>2. ~(i + 2 > Len(text)) => g[i + 2] = h[i + 2] /\ g[i + 3] = h[i + 3]
    BY <1>2
  <2> QED BY <2>1, <2>2 DEF ReadStep
<1> QED BY <1>1, <1>2

LEMMA ReadsExist ==
  ASSUME NEW text, Len(text) \in Nat
  PROVE  \E g : Reads(g, text, 1..(Len(text) + 1))
<1>0. PICK L \in Nat : L = Len(text)
  OBVIOUS
<1> DEFINE D(n) == {i \in 1..(L + 1) : L + 1 <= i + n}
           P == {n \in Nat : \E g : Reads(g, text, D(n))}
<1>1. 0 \in P
  <2>1. PICK g : g = [i \in D(0) |-> <<"invalid">>]
    OBVIOUS
  <2>2. ASSUME NEW i \in D(0) PROVE ReadStep(text, i, g) = <<"invalid">>
    <3>1. i > Len(text)
      BY <1>0
    <3> QED BY <3>1 DEF ReadStep
  <2>3. g = [i \in D(0) |-> ReadStep(text, i, g)]
    BY <2>1, <2>2
  <2> QED BY <2>3 DEF Reads
<1>2. ASSUME NEW n \in Nat, n \in P PROVE n + 1 \in P
  <2>1. PICK g : Reads(g, text, D(n))
    BY <1>2
  <2>2. PICK h : h = [i \in D(n + 1) |-> IF i \in D(n) THEN g[i] ELSE ReadStep(text, i, g)]
    OBVIOUS
  <2>3. D(n) \subseteq D(n + 1) /\ \A i \in D(n) : h[i] = g[i]
    BY <2>2
  <2>4. ASSUME NEW i \in D(n + 1) PROVE h[i] = ReadStep(text, i, h)
    <3>1. \A j \in (i + 1)..(L + 1) : j \in D(n)
      OBVIOUS
    <3>2. ReadStep(text, i, g) = ReadStep(text, i, h)
      <4>1. i \in 1..(Len(text) + 1) /\ \A j \in (i + 1)..(Len(text) + 1) : g[j] = h[j]
        BY <1>0, <2>3, <3>1
      <4> HIDE DEF D, P
      <4> QED BY <4>1, ReadStepAgrees
    <3>3. CASE i \in D(n)
      <4>1. g[i] = ReadStep(text, i, g)
        BY <2>1, <3>3 DEF Reads
      <4> QED BY <2>3, <3>2, <3>3, <4>1
    <3>4. CASE i \notin D(n)
      BY <2>2, <3>2, <3>4
    <3> QED BY <3>3, <3>4
  <2>5. Reads(h, text, D(n + 1))
    BY <2>2, <2>4 DEF Reads
  <2>6. \E f : Reads(f, text, D(n + 1))
    <3> HIDE DEF D
    <3> QED BY <2>5
  <2>7. n + 1 \in Nat
    OBVIOUS
  <2> HIDE DEF D
  <2> QED BY <2>6, <2>7
<1>3. P = Nat
  <2> HIDE DEF P
  <2>1. P \in SUBSET Nat
    BY DEF P
  <2> QED BY <1>1, <1>2, <2>1, SetInduction
<1>4. D(L) = 1..(L + 1)
  OBVIOUS
<1>5. L \in P
  BY <1>3
<1> QED BY <1>0, <1>4, <1>5

LEMMA ReadUnfold ==
  ASSUME NEW text, Len(text) \in Nat
  PROVE  \E g : /\ Reads(g, text, 1..(Len(text) + 1))
                /\ Len(text) >= 2 /\ text[1] = "\"" => ReadString(text) = g[2]
<1> DEFINE chosen == CHOOSE g : g = [i \in 1..(Len(text) + 1) |-> ReadStep(text, i, g)]
<1>1. \E g : g = [i \in 1..(Len(text) + 1) |-> ReadStep(text, i, g)]
  BY ReadsExist DEF Reads
<1>2. chosen = [i \in 1..(Len(text) + 1) |-> ReadStep(text, i, chosen)]
  BY <1>1
<1>3. Len(text) >= 2 /\ text[1] = "\"" => ReadString(text) = chosen[2]
  BY Zenon DEF ReadString, ReadStep, After
<1> HIDE DEF chosen
<1> QED BY <1>2, <1>3 DEF Reads

LEMMA Pair ==
  ASSUME NEW T, NEW x \in T, NEW y \in T
  PROVE  <<x, y>> \in Seq(T) /\ Len(<<x, y>>) = 2 /\ <<x, y>>[1] = x /\ <<x, y>>[2] = y
OBVIOUS

LEMMA Triple ==
  ASSUME NEW T, NEW x \in T, NEW y \in T, NEW z \in T
  PROVE  /\ <<x, y, z>> \in Seq(T) /\ Len(<<x, y, z>>) = 3
         /\ <<x, y, z>>[1] = x /\ <<x, y, z>>[2] = y /\ <<x, y, z>>[3] = z
OBVIOUS

\* e is what a reader takes for d.
Escapes(e, d) ==
    \/ /\ Len(e) = 1 /\ e[1] = d
       /\ d \notin {"\"", "\\", "nl", "cr", "tab", "ctl", "bad"}
    \/ /\ Len(e) = 2 /\ e[1] = "\\" /\ e[2] # "u" /\ After(e[2]) = d
    \/ /\ Len(e) = 3 /\ e[1] = "\\" /\ e[2] = "u" /\ e[3] = d

\* What one character is escaped to.
LEMMA EscapeIs ==
  ASSUME NEW K, NEW c \in K, NEW d, d = Lossy(c), NEW e, e = Escape(d)
  PROVE  /\ d # "bad" /\ d \in K \union Escaping
         /\ e \in Seq(K \union Escaping)
         /\ Escapes(e, d)
<1> USE DEF Escapes
<1> DEFINE U == K \union Escaping
<1>1. d # "bad" /\ d \in U
  BY DEF Lossy, Escaping
<1>2. /\ "\"" \in U /\ "\\" \in U /\ "n" \in U /\ "r" \in U /\ "t" \in U /\ "u" \in U
      /\ "ctl" \in U
  BY DEF Escaping
<1> HIDE DEF U
<1>a. ASSUME NEW x \in U, x # "u", After(x) = d, e = <<"\\", x>>
      PROVE  e \in Seq(U) /\ Len(e) = 2 /\ e[1] = "\\" /\ e[2] # "u" /\ After(e[2]) = d
  <2>1. PICK b \in U : b = "\\"
    BY <1>2
  <2>2. PICK q : q = <<b, x>>
    OBVIOUS
  <2>3. q \in Seq(U) /\ Len(q) = 2 /\ q[1] = b /\ q[2] = x
    BY <2>2, Pair
  <2>4. e = q
    BY <1>a, <2>1, <2>2
  <2> QED BY <1>a, <2>1, <2>3, <2>4
<1>3. CASE d = "\""
  <2>1. e = <<"\\", "\"">> /\ After("\"") = d
    BY <1>3 DEF Escape, After
  <2> QED BY <1>1, <1>2, <1>a, <2>1 DEF U
<1>4. CASE d = "\\"
  <2>1. e = <<"\\", "\\">> /\ After("\\") = d
    BY <1>4 DEF Escape, After
  <2> QED BY <1>1, <1>2, <1>a, <2>1 DEF U
<1>5. CASE d = "nl"
  <2>1. e = <<"\\", "n">> /\ After("n") = d
    BY <1>5 DEF Escape, After
  <2> QED BY <1>1, <1>2, <1>a, <2>1 DEF U
<1>6. CASE d = "cr"
  <2>1. e = <<"\\", "r">> /\ After("r") = d
    BY <1>6 DEF Escape, After
  <2> QED BY <1>1, <1>2, <1>a, <2>1 DEF U
<1>7. CASE d = "tab"
  <2>1. e = <<"\\", "t">> /\ After("t") = d
    BY <1>7 DEF Escape, After
  <2> QED BY <1>1, <1>2, <1>a, <2>1 DEF U
<1>8. CASE d = "ctl"
  <2>1. e = <<"\\", "u", d>>
    BY <1>8 DEF Escape
  <2>2. e \in Seq(U) /\ Len(e) = 3 /\ e[1] = "\\" /\ e[2] = "u" /\ e[3] = d
    <3>1. PICK b \in U, v \in U : b = "\\" /\ v = "u"
      BY <1>2
    <3>2. PICK q : q = <<b, v, d>>
      OBVIOUS
    <3>3. q \in Seq(U) /\ Len(q) = 3 /\ q[1] = b /\ q[2] = v /\ q[3] = d
      BY <1>1, <3>2, Triple
    <3>4. e = q
      BY <2>1, <3>1, <3>2
    <3> QED BY <3>1, <3>3, <3>4
  <2> QED BY <1>1, <2>2 DEF U
<1>9. CASE d \notin {"\"", "\\", "nl", "cr", "tab", "ctl"}
  <2>1. e = <<d>>
    BY <1>9 DEF Escape
  <2>2. e \in Seq(U) /\ Len(e) = 1 /\ e[1] = d
    BY <1>1, <2>1, Single
  <2>3. d \notin {"\"", "\\", "nl", "cr", "tab", "ctl", "bad"}
    BY <1>1, <1>9
  <2> QED BY <1>1, <2>2, <2>3 DEF U
<1> QED BY <1>3, <1>4, <1>5, <1>6, <1>7, <1>8, <1>9
Mapped(f, s) == [i \in DOMAIN s |-> f[s[i]]]

Maps(f, K, T) == \A c \in K : f[c] \in T

LEMMA ConsFacts ==
  ASSUME NEW T, NEW c \in T, NEW r \in Seq(T)
  PROVE  /\ Cons(c, r) \in Seq(T) /\ Len(Cons(c, r)) = Len(r) + 1
         /\ Cons(c, r)[1] = c /\ \A i \in 1..Len(r) : Cons(c, r)[1 + i] = r[i]
<1>1. PICK e \in Seq(T) : e = <<c>> /\ Len(e) = 1 /\ e[1] = c
  BY Single
<1>2. /\ e \o r \in Seq(T) /\ Len(e \o r) = 1 + Len(r) /\ (e \o r)[1] = c
      /\ \A i \in 1..Len(r) : (e \o r)[1 + i] = r[i]
  BY <1>1, ConcatFacts
<1> QED BY <1>1, <1>2 DEF Cons

LEMMA MappedCons ==
  ASSUME NEW K, NEW T, NEW f, Maps(f, K, T), NEW c \in K, NEW r \in Seq(K)
  PROVE  /\ Mapped(f, r) \in Seq(T) /\ Len(Mapped(f, r)) = Len(r)
         /\ Mapped(f, Cons(c, r)) = Cons(f[c], Mapped(f, r))
<1>1. PICK n \in Nat : n = Len(r) /\ DOMAIN r = 1..n /\ \A i \in 1..n : r[i] \in K
  OBVIOUS
<1>2. PICK m : m = Mapped(f, r)
  OBVIOUS
<1>3. m = [i \in 1..n |-> f[r[i]]]
  BY <1>1, <1>2 DEF Mapped
<1>4. \A i \in 1..n : f[r[i]] \in T
  BY <1>1 DEF Maps
<1>5. m \in Seq(T) /\ Len(m) = n
  BY <1>3, <1>4
<1>6. PICK k : k = Cons(c, r)
  OBVIOUS
<1>6a. k \in Seq(K) /\ Len(k) = n + 1 /\ k[1] = c /\ \A i \in 1..n : k[1 + i] = r[i]
  <2>1. /\ Cons(c, r) \in Seq(K) /\ Len(Cons(c, r)) = Len(r) + 1
        /\ Cons(c, r)[1] = c /\ \A i \in 1..Len(r) : Cons(c, r)[1 + i] = r[i]
    BY ConsFacts
  <2> QED BY <1>1, <1>6, <2>1
<1>7. PICK q : q = Cons(f[c], m)
  OBVIOUS
<1>7a. q \in Seq(T) /\ Len(q) = n + 1 /\ q[1] = f[c] /\ \A i \in 1..n : q[1 + i] = m[i]
  <2>1. PICK d \in T : d = f[c]
    BY DEF Maps
  <2>2. PICK v \in Seq(T) : v = m
    BY <1>5
  <2>3. /\ Cons(d, v) \in Seq(T) /\ Len(Cons(d, v)) = Len(v) + 1
        /\ Cons(d, v)[1] = d /\ \A i \in 1..Len(v) : Cons(d, v)[1 + i] = v[i]
    BY ConsFacts
  <2> QED BY <1>5, <1>7, <2>1, <2>2, <2>3
<1>8. DOMAIN k = 1..(n + 1) /\ DOMAIN q = 1..(n + 1)
  BY <1>6a, <1>7a
<1>9. ASSUME NEW i \in 1..(n + 1) PROVE q[i] = f[k[i]]
  <2>1. CASE i = 1
    BY <1>6a, <1>7a, <2>1
  <2>2. CASE i # 1
    <3>1. PICK j \in 1..n : i = 1 + j
      <4>1. i - 1 \in 1..n /\ i = 1 + (i - 1)
        BY <2>2
      <4> QED BY <4>1
    <3> QED BY <1>3, <1>6a, <1>7a, <3>1
  <2> QED BY <2>1, <2>2
<1>10. q = [i \in 1..(n + 1) |-> q[i]]
  BY <1>7a, <1>8
<1>11. Mapped(f, k) = q
  BY <1>8, <1>9, <1>10 DEF Mapped
<1> QED BY <1>1, <1>2, <1>5, <1>6, <1>7, <1>11

\* The text of a key without its quotes.
Within(key) == FlattenSeq(Escaped(key))

LEMMA KeyCons ==
  ASSUME NEW K, NEW c \in K, NEW r \in Seq(K)
  PROVE  /\ Within(r) \in Seq(K \union Escaping)
         /\ Within(Cons(c, r)) = Escape(Lossy(c)) \o Within(r)
         /\ Read(Cons(c, r)) = Cons(Lossy(c), Read(r))
<1> DEFINE U == K \union Escaping
<1>1. PICK f : f = [x \in K |-> Escape(Lossy(x))]
  OBVIOUS
<1>2. PICK g : g = [x \in K |-> Lossy(x)]
  OBVIOUS
<1>3. ASSUME NEW x \in K PROVE f[x] \in Seq(U) /\ g[x] \in U
  <2>1. Lossy(x) \in U /\ Escape(Lossy(x)) \in Seq(U)
    BY EscapeIs
  <2> QED BY <1>1, <1>2, <2>1
<1>4. PICK V : V = Seq(U)
  OBVIOUS
<1>5. ASSUME NEW s \in Seq(K) PROVE Escaped(s) = Mapped(f, s) /\ Read(s) = Mapped(g, s)
  <2>1. \A i \in DOMAIN s : s[i] \in K
    OBVIOUS
  <2> QED BY <1>1, <1>2, <2>1 DEF Escaped, Read, Mapped
<1>6. Cons(c, r) \in Seq(K)
  BY ConsFacts
<1>7. /\ Mapped(f, r) \in Seq(V) /\ Mapped(f, Cons(c, r)) = Cons(f[c], Mapped(f, r))
      /\ Mapped(g, Cons(c, r)) = Cons(g[c], Mapped(g, r))
  <2>1. Maps(f, K, V) /\ Maps(g, K, U)
    BY <1>3, <1>4 DEF Maps
  <2> HIDE DEF U
  <2>2. /\ Mapped(f, r) \in Seq(V) /\ Len(Mapped(f, r)) = Len(r)
        /\ Mapped(f, Cons(c, r)) = Cons(f[c], Mapped(f, r))
    BY <2>1, MappedCons
  <2>3. /\ Mapped(g, r) \in Seq(U) /\ Len(Mapped(g, r)) = Len(r)
        /\ Mapped(g, Cons(c, r)) = Cons(g[c], Mapped(g, r))
    BY <2>1, MappedCons
  <2> QED BY <2>2, <2>3
<1>8. Read(Cons(c, r)) = Cons(Lossy(c), Read(r))
  BY <1>2, <1>5, <1>6, <1>7
<1>9. PICK e \in Seq(U) : e = f[c] /\ e = Escape(Lossy(c))
  BY <1>1, <1>3
<1>10. PICK m \in Seq(Seq(U)) : m = Mapped(f, r) /\ m = Escaped(r)
  BY <1>4, <1>5, <1>7
<1> HIDE DEF U
<1>11. Escaped(Cons(c, r)) = Cons(e, m)
  BY <1>5, <1>6, <1>7, <1>9, <1>10
<1>12. FlattenSeq(m) \in Seq(U)
  BY FlattenType
<1>13. FlattenSeq(Cons(e, m)) = e \o FlattenSeq(m)
  <2>1. PICK W : W = Seq(U)
    OBVIOUS
  <2>2. PICK s \in Seq(Seq(U)) : s = <<e>>
    BY <2>1, Single
  <2>3. FlattenSeq(s \o m) = FlattenSeq(s) \o FlattenSeq(m)
    BY FlattenConcat
  <2>4. s = Append(<<>>, e) /\ <<>> \in Seq(Seq(U))
    BY <2>2
  <2>5. FlattenSeq(Append(<<>>, e)) = FlattenSeq(<<>>) \o e
    BY <2>4, FlattenAppend
  <2>6. <<>> \o e = e
    BY ConcatEmpty
  <2> QED BY <2>2, <2>3, <2>4, <2>5, <2>6, FlattenEmpty DEF Cons
<1> QED BY <1>8, <1>9, <1>10, <1>11, <1>12, <1>13 DEF Within, U

LEMMA KeyEmpty == Within(<<>>) = <<>> /\ Read(<<>>) = <<>>
<1>1. Escaped(<<>>) = <<>> /\ Read(<<>>) = <<>>
  BY DEF Escaped, Read
<1> QED BY <1>1, FlattenEmpty DEF Within

\* The text continues with e after place p.
Stands(text, p, e) == \A k \in 1..Len(e) : text[p + k] = e[k]

\* A reader that is at one character of the key reads it and goes to the next.
LEMMA ReadOne ==
  ASSUME NEW text, NEW l \in Nat, l = Len(text), NEW g, Reads(g, text, 1..(l + 1)),
         NEW p \in Nat, NEW e, NEW d, NEW n \in Nat, n = Len(e), p + n + 1 <= l,
         Stands(text, p, e), Escapes(e, d)
  PROVE  g[p + 1] = Cons(d, g[p + n + 1])
<1>0. \A k \in 1..n : text[p + k] = e[k]
  BY DEF Stands
<1>1. PICK i \in Nat : i = p + 1
  OBVIOUS
<1>2. i \in 1..(l + 1) /\ ~(i > l)
  BY <1>1
<1>3. g[i] = ReadStep(text, i, g)
  BY <1>1, <1>2 DEF Reads
<1>4. CASE /\ Len(e) = 1 /\ e[1] = d
           /\ d \notin {"\"", "\\", "nl", "cr", "tab", "ctl", "bad"}
  <2>1. text[i] = d
    <3>0. n = 1
      BY <1>4
    <3>1. 1 \in 1..n /\ p + 1 = i
      BY <1>1, <3>0
    <3>2. text[p + 1] = e[1]
      BY <1>0, <3>1
    <3> QED BY <1>4, <3>1, <3>2
  <2>2. ReadStep(text, i, g) = <<d>> \o g[i + 1]
    BY <1>1, <1>2, <1>4, <2>1 DEF ReadStep
  <2>3. i + 1 = p + n + 1
    BY <1>1, <1>4
  <2> QED BY <1>1, <1>3, <2>2, <2>3 DEF Cons
<1>5. CASE Len(e) = 2 /\ e[1] = "\\" /\ e[2] # "u" /\ After(e[2]) = d
  <2>1. text[i] = "\\" /\ text[i + 1] = e[2]
    <3>1. i + 1 = p + 2 /\ 1 \in 1..n /\ 2 \in 1..n
      BY <1>1, <1>5
    <3> QED BY <1>0, <1>1, <1>5, <3>1
  <2>2. ~(i + 2 > l)
    BY <1>1, <1>5
  <2>3. ReadStep(text, i, g) = <<d>> \o g[i + 2]
    BY <1>1, <1>2, <1>5, <2>1, <2>2 DEF ReadStep
  <2>4. i + 2 = p + n + 1
    BY <1>1, <1>5
  <2> QED BY <1>1, <1>3, <2>3, <2>4 DEF Cons
<1>6. CASE Len(e) = 3 /\ e[1] = "\\" /\ e[2] = "u" /\ e[3] = d
  <2>1. text[i] = "\\" /\ text[i + 1] = "u" /\ text[i + 2] = d
    <3>1. i + 1 = p + 2 /\ i + 2 = p + 3 /\ 1 \in 1..n /\ 2 \in 1..n /\ 3 \in 1..n
      BY <1>1, <1>6
    <3> QED BY <1>0, <1>1, <1>6, <3>1
  <2>2. ~(i + 2 > l)
    BY <1>1, <1>6
  <2>3. ReadStep(text, i, g) = <<d>> \o g[i + 3]
    BY <1>1, <1>2, <1>6, <2>1, <2>2 DEF ReadStep
  <2>4. i + 3 = p + n + 1
    BY <1>1, <1>6
  <2> QED BY <1>1, <1>3, <2>3, <2>4 DEF Cons
<1> QED BY <1>4, <1>5, <1>6 DEF Escapes

Quote == "\""
Closing == <<Quote>>

Joins(text, s, e, w, q) == text = ((s \o e) \o w) \o q

\* Where four sequences that are joined end.
LEMMA Joined ==
  ASSUME NEW U, NEW s \in Seq(U), NEW e \in Seq(U), NEW w \in Seq(U), NEW q \in Seq(U),
         NEW text, Joins(text, s, e, w, q)
  PROVE  /\ Len(text) = Len(s) + Len(e) + Len(w) + Len(q)
         /\ Stands(text, Len(s), e)
<1>0. ASSUME NEW x \in Seq(U), NEW y \in Seq(U)
      PROVE  /\ x \o y \in Seq(U) /\ Len(x \o y) = Len(x) + Len(y)
             /\ \A k \in 1..Len(x) : (x \o y)[k] = x[k]
             /\ \A k \in 1..Len(y) : (x \o y)[Len(x) + k] = y[k]
  OBVIOUS
<1>1. PICK b \in Seq(U) : b = s \o e /\ Len(b) = Len(s) + Len(e)
                          /\ \A k \in 1..Len(e) : b[Len(s) + k] = e[k]
  <2>1. /\ s \o e \in Seq(U) /\ Len(s \o e) = Len(s) + Len(e)
        /\ \A k \in 1..Len(e) : (s \o e)[Len(s) + k] = e[k]
    BY <1>0
  <2> QED BY <2>1
<1>2. PICK a \in Seq(U) : a = b \o w /\ Len(a) = Len(b) + Len(w)
                          /\ \A k \in 1..Len(b) : a[k] = b[k]
  BY <1>0
<1>3. PICK t \in Seq(U) : t = a \o q /\ Len(t) = Len(a) + Len(q)
                          /\ \A k \in 1..Len(a) : t[k] = a[k]
  BY <1>0
<1>4. PICK ls \in Nat, le \in Nat, lw \in Nat, lq \in Nat :
        ls = Len(s) /\ le = Len(e) /\ lw = Len(w) /\ lq = Len(q)
  OBVIOUS
<1>5. ASSUME NEW k \in 1..le PROVE t[ls + k] = e[k]
  <2>1. ls + k \in 1..(ls + le) /\ ls + k \in 1..(ls + le + lw)
    OBVIOUS
  <2> QED BY <1>1, <1>2, <1>3, <1>4, <2>1
<1>6. Len(t) = ls + le + lw + lq
  BY <1>1, <1>2, <1>3, <1>4
<1> QED BY <1>1, <1>2, <1>3, <1>4, <1>5, <1>6 DEF Stands, Joins

\* A quote at the end of the text ends it.
LEMMA ReadClose ==
  ASSUME NEW text, NEW i \in Nat, i = Len(text), text[i] = Quote, NEW g
  PROVE  ReadStep(text, i, g) = <<>>
<1>1. ~(i > Len(text))
  OBVIOUS
<1> QED BY <1>1, Zenon DEF ReadStep, Quote

Alphabet(U, K) == U = K \union Escaping
ReadsOn(g, text, K, U) == \A rest \in Seq(K), pre \in Seq(U) :
    text = (pre \o Within(rest)) \o Closing => g[Len(pre) + 1] = Read(rest)

\* A reader that has what is before a part of the key reads that part.
LEMMA ReadFrom ==
  ASSUME NEW K, NEW U, Alphabet(U, K),
         NEW text, NEW l \in Nat, l = Len(text), NEW g, Reads(g, text, 1..(l + 1))
  PROVE  ReadsOn(g, text, K, U)
<1>a. ASSUME NEW s \in Seq(U), NEW e \in Seq(U), NEW w \in Seq(U), NEW q \in Seq(U),
             Joins(text, s, e, w, q)
      PROVE  l = Len(s) + Len(e) + Len(w) + Len(q) /\ Stands(text, Len(s), e)
  <2>1. /\ Len(text) = Len(s) + Len(e) + Len(w) + Len(q)
        /\ Stands(text, Len(s), e)
    BY <1>a, Joined
  <2> QED BY <2>1
<1>b. ASSUME NEW p \in Nat, NEW e, NEW d, NEW n \in Nat, n = Len(e), p + n + 1 <= l,
             Stands(text, p, e), Escapes(e, d)
      PROVE  g[p + 1] = Cons(d, g[p + n + 1])
  BY <1>b, ReadOne
<1>c. \A a, b, c \in Seq(U) : (a \o b) \o c = a \o (b \o c)
  BY ConcatAssoc
<1> DEFINE Good(rest) == \A pre \in Seq(U) :
             text = (pre \o Within(rest)) \o Closing => g[Len(pre) + 1] = Read(rest)
           P == {n \in Nat : \A rest \in Seq(K) : Len(rest) = n => Good(rest)}
<1>0. Closing \in Seq(U) /\ Len(Closing) = 1 /\ Closing[1] = Quote
  <2>1. Quote \in U
    BY DEF Alphabet, Escaping, Quote
  <2> QED BY <2>1, Single DEF Closing
<1>1. 0 \in P
  <2> SUFFICES ASSUME NEW rest \in Seq(K), Len(rest) = 0, NEW pre \in Seq(U),
                      text = (pre \o Within(rest)) \o Closing
               PROVE  g[Len(pre) + 1] = Read(rest)
    OBVIOUS
  <2>1. rest = <<>>
    BY EmptyIs
  <2>2. text = pre \o Closing
    BY <2>1, KeyEmpty, ConcatEmpty
  <2>3. PICK q \in Seq(U), p \in Nat : q = Closing /\ p = Len(pre)
    BY <1>0
  <2>4. /\ Len(pre \o q) = Len(pre) + Len(q)
        /\ \A i \in 1..Len(q) : (pre \o q)[Len(pre) + i] = q[i]
    BY ConcatFacts
  <2>5. l = p + 1 /\ text[p + 1] = Quote
    <3>0. Len(q) = 1
      BY <1>0, <2>3
    <3>1. 1 \in 1..Len(q)
      BY <3>0
    <3> QED BY <1>0, <2>2, <2>3, <2>4, <3>1
  <2>6. g[p + 1] = ReadStep(text, p + 1, g)
    <3>1. p + 1 \in 1..(l + 1)
      BY <2>5
    <3> QED BY <3>1 DEF Reads
  <2>7. ReadStep(text, p + 1, g) = <<>>
    BY <2>5, ReadClose
  <2> QED BY <2>1, <2>3, <2>6, <2>7, KeyEmpty
<1>2. ASSUME NEW n \in Nat, n \in P PROVE n + 1 \in P
  <2> SUFFICES ASSUME NEW rest \in Seq(K), Len(rest) = n + 1, NEW pre \in Seq(U),
                      text = (pre \o Within(rest)) \o Closing
               PROVE  g[Len(pre) + 1] = Read(rest)
    OBVIOUS
  <2>0. \A r \in Seq(K) : Len(r) = n => Good(r)
    BY <1>2
  <2> HIDE DEF Good, P
  <2>1. PICK c \in K, r \in Seq(K) : rest = Cons(c, r) /\ Len(r) = n
    <3>1. PICK r \in Seq(K) : rest = <<rest[1]>> \o r /\ Len(r) = n
      BY SplitFirst
    <3>2. rest[1] \in K
      OBVIOUS
    <3>3. rest = Cons(rest[1], r)
      BY <3>1 DEF Cons
    <3> QED BY <3>1, <3>2, <3>3
  <2>2. PICK d : d = Lossy(c)
    OBVIOUS
  <2>3. PICK e \in Seq(U) : e = Escape(d) /\ Escapes(e, d)
    <3>1. PICK f : f = Escape(d)
      OBVIOUS
    <3>2. f \in Seq(K \union Escaping) /\ Escapes(f, d)
      BY <2>2, <3>1, EscapeIs
    <3> QED BY <3>1, <3>2 DEF Alphabet
  <2>4. PICK w \in Seq(U) : w = Within(r) /\ Within(rest) = e \o w
    <3>1. /\ Within(r) \in Seq(K \union Escaping)
          /\ Within(Cons(c, r)) = Escape(Lossy(c)) \o Within(r)
      BY KeyCons
    <3> QED BY <2>1, <2>2, <2>3, <3>1 DEF Alphabet
  <2>5. Read(rest) = Cons(d, Read(r))
    <3>1. Read(Cons(c, r)) = Cons(Lossy(c), Read(r))
      BY KeyCons
    <3> QED BY <2>1, <2>2, <3>1
  <2>6. PICK q \in Seq(U), p \in Nat, m \in Nat : q = Closing /\ p = Len(pre) /\ m = Len(e)
    BY <1>0
  <2>7. text = ((pre \o e) \o w) \o q
    <3>1. (pre \o e) \o w = pre \o (e \o w)
      BY <1>c
    <3> QED BY <2>4, <2>6, <3>1
  <2>8. g[p + m + 1] = Read(r)
    <3>1. \A pre2 \in Seq(U) :
             text = (pre2 \o Within(r)) \o Closing => g[Len(pre2) + 1] = Read(r)
      BY <2>0, <2>1 DEF Good
    <3>2. PICK b \in Seq(U) : b = pre \o e /\ Len(b) = p + m
      <4>1. pre \o e \in Seq(U) /\ Len(pre \o e) = Len(pre) + Len(e)
        BY ConcatFacts
      <4> QED BY <2>6, <4>1
    <3>3. text = (b \o Within(r)) \o Closing
      BY <2>4, <2>6, <2>7, <3>2
    <3> QED BY <3>1, <3>2, <3>3
  <2>9. p + m + 1 <= l /\ Stands(text, p, e)
    <3>1. l = Len(pre) + Len(e) + Len(w) + Len(q) /\ Stands(text, Len(pre), e)
      BY <1>a, <2>7 DEF Joins
    <3>2. PICK lw \in Nat : lw = Len(w)
      OBVIOUS
    <3>3. l = p + m + lw + 1
      BY <1>0, <2>6, <2>7, <3>1, <3>2
    <3> QED BY <2>6, <3>1, <3>2, <3>3
  <2>10. g[p + 1] = Cons(d, g[p + m + 1])
    BY <1>b, <2>3, <2>6, <2>9
  <2> QED BY <2>5, <2>6, <2>8, <2>10
<1>3. P = Nat
  <2> HIDE DEF P
  <2>1. P \in SUBSET Nat
    BY DEF P
  <2> QED BY <1>1, <1>2, <2>1, SetInduction
<1>4. \A n \in Nat : \A rest \in Seq(K) : Len(rest) = n => Good(rest)
  BY <1>3
<1> HIDE DEF Good, P
<1>5. \A rest \in Seq(K) : Good(rest)
  BY <1>4
<1> QED BY <1>5 DEF Good, ReadsOn

\* What write_json_string writes reads back as the key.
LEMMA KeyReadsBack ==
  ASSUME NEW K, NEW key \in Seq(K)
  PROVE  ReadString(write_json_string(key)) = Read(key)
<1>1. PICK U : U = K \union Escaping
  OBVIOUS
<1>2. PICK q \in Seq(U) : q = Closing /\ Len(q) = 1 /\ q[1] = Quote
  <2>1. Quote \in U
    BY <1>1 DEF Escaping, Quote
  <2> QED BY <2>1, Single DEF Closing
<1>3. PICK w \in Seq(U) : w = Within(key)
  <2>1. Within(key) \in Seq(U)
    <3>1. CASE key = <<>>
      <4>1. <<>> \in Seq(U)
        OBVIOUS
      <4> QED BY <3>1, <4>1, KeyEmpty
    <3>2. CASE key # <<>>
      <4>1. PICK f : f = [x \in K |-> Escape(Lossy(x))]
        OBVIOUS
      <4>2. Escaped(key) \in Seq(Seq(U))
        <5>1. PICK V : V = Seq(U)
          OBVIOUS
        <5>2. ASSUME NEW x \in K PROVE Escape(Lossy(x)) \in V
          BY <1>1, <5>1, EscapeIs
        <5>3. PICK n \in Nat : n = Len(key) /\ DOMAIN key = 1..n /\ \A i \in 1..n : key[i] \in K
          OBVIOUS
        <5>4. Escaped(key) = [i \in 1..n |-> Escape(Lossy(key[i]))]
          BY <5>3 DEF Escaped
        <5>5. \A i \in 1..n : Escape(Lossy(key[i])) \in V
          BY <5>2, <5>3
        <5>6. Escaped(key) \in Seq(V)
          BY <5>4, <5>5
        <5> QED BY <5>1, <5>6
      <4> QED BY <4>2, FlattenType DEF Within
    <3> QED BY <3>1, <3>2
  <2> QED BY <2>1
<1>4. PICK text : text = (q \o w) \o q
  OBVIOUS
<1>5. write_json_string(key) = text
  BY <1>2, <1>3, <1>4 DEF write_json_string, Within, Escaped, Closing, Quote
<1>6. PICK b \in Seq(U) : b = q \o w /\ Len(b) = 1 + Len(w) /\ b[1] = q[1]
  <2>1. /\ q \o w \in Seq(U) /\ Len(q \o w) = Len(q) + Len(w)
        /\ \A i \in 1..Len(q) : (q \o w)[i] = q[i]
    BY ConcatFacts
  <2>2. 1 \in 1..Len(q)
    BY <1>2
  <2> QED BY <1>2, <2>1, <2>2
<1>7. PICK l \in Nat : l = Len(text) /\ l >= 2 /\ text[1] = Quote
  <2>1. /\ Len(b \o q) = Len(b) + Len(q)
        /\ \A i \in 1..Len(b) : (b \o q)[i] = b[i]
    BY ConcatFacts
  <2>2. PICK m \in Nat : m = Len(w)
    OBVIOUS
  <2>3. 1 \in 1..Len(b)
    BY <1>6, <2>2
  <2>4. Len(text) = m + 2
    BY <1>2, <1>4, <1>6, <2>1, <2>2
  <2> QED BY <1>2, <1>4, <1>6, <2>1, <2>3, <2>4
<1>8. PICK g : Reads(g, text, 1..(l + 1)) /\ ReadString(text) = g[2]
  <2>1. Len(text) >= 2 /\ text[1] = "\""
    BY <1>7 DEF Quote
  <2>2. \E g : /\ Reads(g, text, 1..(Len(text) + 1))
               /\ Len(text) >= 2 /\ text[1] = "\"" => ReadString(text) = g[2]
    BY <1>7, ReadUnfold
  <2>3. PICK g : /\ Reads(g, text, 1..(Len(text) + 1))
                 /\ Len(text) >= 2 /\ text[1] = "\"" => ReadString(text) = g[2]
    BY <2>2
  <2>4. ReadString(text) = g[2]
    BY <2>1, <2>3
  <2> QED BY <1>7, <2>3, <2>4
<1>9. g[Len(q) + 1] = Read(key)
  <2>1. ReadsOn(g, text, K, U)
    <3>1. Alphabet(U, K)
      BY <1>1 DEF Alphabet
    <3>2. l = Len(text) /\ Reads(g, text, 1..(l + 1))
      BY <1>7, <1>8
    <3> QED BY <3>1, <3>2, ReadFrom
  <2>2. text = (q \o Within(key)) \o Closing
    BY <1>2, <1>3, <1>4
  <2> QED BY <2>1, <2>2 DEF ReadsOn
<1>10. Len(q) + 1 = 2
  BY <1>2
<1> QED BY <1>5, <1>8, <1>9, <1>10

----------------------------------------------------------------------------
(* A row *)

\* Members with commas between them, as in IsObject.
Alternates(s) ==
    /\ s = <<>> \/ Len(s) % 2 = 1
    /\ \A i \in 1..Len(s) : IF i % 2 = 1 THEN s[i] \notin Punctuation ELSE s[i] = ","

Comma == <<",">>

LEMMA Parity ==
  ASSUME NEW m \in Nat, NEW n \in Nat, m % 2 = 1
  PROVE  (m + 1 + n) % 2 = n % 2 /\ (m + 1) % 2 = 0 /\ 0 # 1
OBVIOUS

LEMMA MembersConcat ==
  ASSUME NEW s \in Seq(Tokens), NEW t \in Seq(Tokens)
  PROVE  Without(s \o t, Punctuation) = Without(s, Punctuation) \o Without(t, Punctuation)
BY WithoutConcat

LEMMA AlternatesJoin ==
  ASSUME NEW a \in Seq(Tokens), NEW b \in Seq(Tokens), Alternates(a), Alternates(b),
         a # <<>>, b # <<>>
  PROVE  LET c == (a \o Comma) \o b IN
         /\ c \in Seq(Tokens) /\ c # <<>> /\ Alternates(c)
         /\ Without(c, Punctuation) = Without(a, Punctuation) \o Without(b, Punctuation)
<1>1. PICK x \in Seq(Tokens) : x = Comma /\ Len(x) = 1 /\ x[1] = ","
  BY TokenFacts, Single DEF Comma
<1>2. PICK m \in Nat, n \in Nat : m = Len(a) /\ n = Len(b)
  OBVIOUS
<1>3. ASSUME NEW s \in Seq(Tokens), NEW t \in Seq(Tokens)
      PROVE  /\ s \o t \in Seq(Tokens) /\ Len(s \o t) = Len(s) + Len(t)
             /\ \A i \in 1..Len(s) : (s \o t)[i] = s[i]
             /\ \A i \in 1..Len(t) : (s \o t)[Len(s) + i] = t[i]
             /\ Without(s \o t, Punctuation) = Without(s, Punctuation) \o Without(t, Punctuation)
  <2>1. Without(s \o t, Punctuation) = Without(s, Punctuation) \o Without(t, Punctuation)
    BY MembersConcat
  <2> QED BY <2>1
<1>4. PICK d \in Seq(Tokens) :
        /\ d = a \o x /\ Len(d) = m + 1
        /\ \A i \in 1..m : d[i] = a[i]
        /\ d[m + 1] = ","
        /\ Without(d, Punctuation) = Without(a, Punctuation) \o Without(x, Punctuation)
  <2>0. Len(x) = 1
    BY <1>1
  <2>1. 1 \in 1..Len(x)
    BY <2>0
  <2>2. /\ a \o x \in Seq(Tokens) /\ Len(a \o x) = Len(a) + Len(x)
        /\ \A i \in 1..Len(a) : (a \o x)[i] = a[i]
        /\ \A i \in 1..Len(x) : (a \o x)[Len(a) + i] = x[i]
        /\ Without(a \o x, Punctuation) = Without(a, Punctuation) \o Without(x, Punctuation)
    BY <1>3
  <2> QED BY <1>1, <1>2, <2>1, <2>2
<1>5. PICK c \in Seq(Tokens) :
        /\ c = d \o b /\ Len(c) = m + 1 + n
        /\ \A i \in 1..(m + 1) : c[i] = d[i]
        /\ \A i \in 1..n : c[m + 1 + i] = b[i]
        /\ Without(c, Punctuation) = Without(d, Punctuation) \o Without(b, Punctuation)
  <2>1. /\ d \o b \in Seq(Tokens) /\ Len(d \o b) = Len(d) + Len(b)
        /\ \A i \in 1..Len(d) : (d \o b)[i] = d[i]
        /\ \A i \in 1..Len(b) : (d \o b)[Len(d) + i] = b[i]
        /\ Without(d \o b, Punctuation) = Without(d, Punctuation) \o Without(b, Punctuation)
    BY <1>3
  <2> QED BY <1>2, <1>4, <2>1
<1>6. m % 2 = 1 /\ n % 2 = 1
  BY <1>2 DEF Alternates
<1>7. Len(c) % 2 = 1
  <2>1. (m + 1 + n) % 2 = n % 2
    BY <1>6, Parity
  <2> QED BY <1>5, <1>6, <2>1
<1>8. ASSUME NEW i \in 1..Len(c)
      PROVE  IF i % 2 = 1 THEN c[i] \notin Punctuation ELSE c[i] = ","
  <2>1. CASE i \in 1..m
    <3>1. c[i] = a[i]
      <4>1. i \in 1..(m + 1)
        BY <2>1
      <4> QED BY <1>4, <1>5, <2>1, <4>1
    <3>2. IF i % 2 = 1 THEN a[i] \notin Punctuation ELSE a[i] = ","
      BY <1>2, <2>1 DEF Alternates
    <3> QED BY <3>1, <3>2
  <2>2. CASE i = m + 1
    <3>1. i % 2 # 1
      BY <1>6, <2>2, Parity
    <3>2. c[i] = ","
      <4>1. m + 1 \in 1..(m + 1)
        OBVIOUS
      <4> QED BY <1>4, <1>5, <2>2, <4>1
    <3> QED BY <3>1, <3>2
  <2>3. CASE i \in (m + 2)..(m + 1 + n)
    <3>1. PICK j \in 1..n : i = m + 1 + j
      <4>1. i - m - 1 \in 1..n /\ i = m + 1 + (i - m - 1)
        BY <2>3
      <4> QED BY <4>1
    <3>2. i % 2 = j % 2
      <4>1. PICK k \in Nat : k = j
        OBVIOUS
      <4>2. (m + 1 + k) % 2 = k % 2
        BY <1>6, Parity
      <4> QED BY <3>1, <4>1, <4>2
    <3>3. c[i] = b[j]
      BY <1>5, <3>1
    <3>4. IF j % 2 = 1 THEN b[j] \notin Punctuation ELSE b[j] = ","
      BY <1>2 DEF Alternates
    <3> QED BY <3>2, <3>3, <3>4
  <2>4. i \in 1..m \/ i = m + 1 \/ i \in (m + 2)..(m + 1 + n)
    BY <1>5
  <2> QED BY <2>1, <2>2, <2>3, <2>4
<1>9. Alternates(c)
  BY <1>7, <1>8 DEF Alternates
<1>10. c # <<>>
  <2>1. Len(c) # 0
    BY <1>5
  <2> QED BY <2>1
<1>11. Without(c, Punctuation) = Without(a, Punctuation) \o Without(b, Punctuation)
  <2>1. Without(x, Punctuation) = <<>>
    <3>1. x \in Seq({","})
      BY <1>1, Single DEF Comma
    <3>2. {","} \subseteq Punctuation
      BY DEF Punctuation
    <3> QED BY <3>1, <3>2, WithoutAll
  <2>2. Without(a, Punctuation) \in Seq(Tokens)
    BY WithoutType
  <2>3. Without(a, Punctuation) \o <<>> = Without(a, Punctuation)
    BY <2>2, ConcatEmpty
  <2> QED BY <1>4, <1>5, <2>1, <2>3
<1>12. c = (a \o Comma) \o b
  BY <1>1, <1>4, <1>5
<1> QED BY <1>9, <1>10, <1>11, <1>12

Led(members) == [i \in DOMAIN members |-> IF i = 1 THEN members[i] ELSE Comma \o members[i]]

LEMMA LedAppend ==
  ASSUME NEW ms \in Seq(Seq(Tokens)), NEW e \in Seq(Tokens)
  PROVE  /\ Led(ms) \in Seq(Seq(Tokens)) /\ Len(Led(ms)) = Len(ms)
         /\ Led(Append(ms, e)) = Append(Led(ms), IF Len(ms) = 0 THEN e ELSE Comma \o e)
<1>1. PICK V : V = Seq(Tokens)
  OBVIOUS
<1>2. ASSUME NEW t \in V PROVE Comma \o t \in V
  <2>1. Comma \in Seq(Tokens)
    BY TokenFacts, Single DEF Comma
  <2> QED BY <1>1, <1>2, <2>1, ConcatFacts
<1>3. PICK n \in Nat : n = Len(ms) /\ DOMAIN ms = 1..n /\ \A i \in 1..n : ms[i] \in V
  BY <1>1
<1>4. PICK f : f = [t \in V |-> Comma \o t]
  OBVIOUS
<1>5. \A t \in V : f[t] \in V /\ f[t] = Comma \o t
  BY <1>2, <1>4
<1>6. PICK g : g = [i \in 1..n |-> IF i = 1 THEN ms[i] ELSE f[ms[i]]]
  OBVIOUS
<1>7. g \in Seq(V) /\ Len(g) = n
  <2>1. \A i \in 1..n : (IF i = 1 THEN ms[i] ELSE f[ms[i]]) \in V
    BY <1>3, <1>5
  <2> QED BY <1>6, <2>1
<1>8. Led(ms) = g
  <2>1. \A i \in 1..n : f[ms[i]] = Comma \o ms[i]
    BY <1>3, <1>5
  <2> QED BY <1>3, <1>6, <2>1 DEF Led
<1>9. PICK u \in Seq(V) : u = Append(ms, e) /\ Len(u) = n + 1 /\ u[n + 1] = e
                         /\ \A i \in 1..n : u[i] = ms[i]
  <2>1. ms \in Seq(V) /\ e \in V
    BY <1>1
  <2>2. /\ Append(ms, e) \in Seq(V) /\ Append(ms, e) # <<>> /\ Len(Append(ms, e)) = Len(ms) + 1
        /\ Append(ms, e)[Len(ms) + 1] = e
        /\ \A i \in 1..Len(ms) : Append(ms, e)[i] = ms[i]
    BY <2>1, AppendFacts
  <2> QED BY <1>3, <2>2
<1>10. DOMAIN u = 1..(n + 1) /\ \A i \in 1..(n + 1) : u[i] \in V
  BY <1>9
<1>11. Led(u) = [i \in 1..(n + 1) |-> IF i = 1 THEN u[i] ELSE f[u[i]]]
  <2>1. \A i \in 1..(n + 1) : f[u[i]] = Comma \o u[i]
    BY <1>5, <1>10
  <2> QED BY <1>10, <2>1 DEF Led
<1>12. PICK x \in V : x = (IF n = 0 THEN e ELSE f[e]) /\ x = (IF Len(ms) = 0 THEN e ELSE Comma \o e)
  <2>1. e \in V /\ f[e] \in V /\ f[e] = Comma \o e
    BY <1>1, <1>5
  <2> QED BY <1>3, <2>1
<1>13. PICK h : h = Led(u)
  OBVIOUS
<1>14. h = Append(g, x)
  <2>1. \A i \in 1..n : h[i] = g[i]
    BY <1>6, <1>9, <1>11, <1>13
  <2>2. h[n + 1] = x
    BY <1>9, <1>11, <1>12, <1>13
  <2>3. h \in Seq(V) /\ Len(h) = n + 1
    <3>1. \A i \in 1..(n + 1) : (IF i = 1 THEN u[i] ELSE f[u[i]]) \in V
      BY <1>5, <1>10
    <3>2. n + 1 \in Nat
      OBVIOUS
    <3>3. PICK o \in Nat : o = n + 1 /\ h \in [1..o -> V]
      BY <1>11, <1>13, <3>1, <3>2
    <3>4. h \in Seq(V) /\ Len(h) = o
      BY <3>3
    <3> QED BY <3>3, <3>4
  <2>4. PICK k \in Seq(V) : k = Append(g, x) /\ Len(k) = n + 1 /\ k[n + 1] = x
                            /\ \A i \in 1..n : k[i] = g[i]
    <3>1. /\ Append(g, x) \in Seq(V) /\ Append(g, x) # <<>> /\ Len(Append(g, x)) = Len(g) + 1
          /\ Append(g, x)[Len(g) + 1] = x
          /\ \A i \in 1..Len(g) : Append(g, x)[i] = g[i]
      BY <1>7, AppendFacts
    <3> QED BY <1>7, <3>1
  <2>5. \A i \in 1..Len(h) : h[i] = k[i]
    BY <2>1, <2>2, <2>3, <2>4
  <2>6. h = k
    BY <2>3, <2>4, <2>5, SeqEqual
  <2> QED BY <2>4, <2>6
<1> QED BY <1>1, <1>3, <1>7, <1>8, <1>9, <1>12, <1>13, <1>14

LEMMA SeparateAppend ==
  ASSUME NEW ms \in Seq(Seq(Tokens)), NEW e \in Seq(Tokens)
  PROVE  /\ separate(ms) \in Seq(Tokens)
         /\ Len(ms) = 0 => separate(Append(ms, e)) = e
         /\ Len(ms) # 0 => separate(Append(ms, e)) = (separate(ms) \o Comma) \o e
<1>1. \A t : separate(t) = FlattenSeq(Led(t))
  BY DEF separate, Led, Comma
<1>2. PICK g \in Seq(Seq(Tokens)) :
        /\ g = Led(ms) /\ Len(g) = Len(ms)
        /\ Led(Append(ms, e)) = Append(g, IF Len(ms) = 0 THEN e ELSE Comma \o e)
  BY LedAppend
<1>3. FlattenSeq(g) \in Seq(Tokens)
  BY FlattenType
<1>4. Comma \in Seq(Tokens)
  BY TokenFacts, Single DEF Comma
<1>5. CASE Len(ms) = 0
  <2>1. FlattenSeq(Append(g, e)) = FlattenSeq(g) \o e
    BY FlattenAppend
  <2>2. g = <<>>
    BY <1>2, <1>5, EmptyIs
  <2>3. <<>> \o e = e
    BY ConcatEmpty
  <2> QED BY <1>1, <1>2, <1>3, <1>5, <2>1, <2>2, <2>3, FlattenEmpty
<1>6. CASE Len(ms) # 0
  <2>1. PICK x \in Seq(Tokens) : x = Comma \o e
    BY <1>4, ConcatFacts
  <2>2. FlattenSeq(Append(g, x)) = FlattenSeq(g) \o x
    BY FlattenAppend
  <2>3. (FlattenSeq(g) \o Comma) \o e = FlattenSeq(g) \o (Comma \o e)
    BY <1>3, <1>4, ConcatAssoc
  <2> QED BY <1>1, <1>2, <1>3, <1>6, <2>1, <2>2, <2>3
<1> QED BY <1>5, <1>6

ColumnNames == {Columns[i] : i \in 1..5}

LEMMA NamesAre ==
  ASSUME NEW c \in ColumnNames
  PROVE  c \in Tokens /\ c \notin Punctuation /\ c \notin Whitespace
<1>1. PICK i \in 1..5 : c = Columns[i]
  BY DEF ColumnNames
<1>2. c \in {"topic", "partition", "offset", "timestamp", "key"}
  <2>1. i = 1 \/ i = 2 \/ i = 3 \/ i = 4 \/ i = 5
    OBVIOUS
  <2>2. /\ Columns[1] = "topic" /\ Columns[2] = "partition" /\ Columns[3] = "offset"
        /\ Columns[4] = "timestamp" /\ Columns[5] = "key"
    BY DEF Columns
  <2> QED BY <1>1, <2>1, <2>2
<1>3. c \in Tokens
  BY <1>1 DEF Tokens
<1>4. c \notin Punctuation /\ c \notin Whitespace
  BY <1>2, Zenon DEF Punctuation, Whitespace
<1> QED BY <1>3, <1>4

LEMMA InjectedIs ==
  ASSUME NEW set
  PROVE  Injected(set) \in Seq(ColumnNames)
<1>1. Columns \in Seq(ColumnNames)
  <2>1. Len(Columns) = 5 /\ Columns = [i \in 1..5 |-> Columns[i]]
    BY DEF Columns
  <2> QED BY <2>1 DEF ColumnNames
<1> QED BY <1>1, WithoutType DEF Injected

\* Members and commas, and nothing else.
Separated(s) == Alternates(s) /\ Ink(s) = s

LEMMA OneColumn ==
  ASSUME NEW c \in ColumnNames
  PROVE  /\ <<c>> \in Seq(Tokens) /\ <<c>> \in Seq(ColumnNames) /\ <<c>> # <<>>
         /\ Separated(<<c>>) /\ Without(<<c>>, Punctuation) = <<c>>
<1>1. PICK s \in Seq(ColumnNames) : s = <<c>> /\ Len(s) = 1 /\ s[1] = c
  BY Single
<1>2. s \in Seq(Tokens)
  <2>1. c \in Tokens
    BY NamesAre
  <2> QED BY <1>1, <2>1, Single
<1>3. ColumnNames \intersect Punctuation = {} /\ ColumnNames \intersect Whitespace = {}
  BY NamesAre, Zenon
<1>4. Without(s, Punctuation) = s /\ Without(s, Whitespace) = s
  BY <1>3, WithoutNone
<1>5. Alternates(s)
  <2>1. 1 % 2 = 1 /\ \A i \in 1..1 : i = 1
    OBVIOUS
  <2>2. s[1] \notin Punctuation
    BY <1>1, NamesAre
  <2> QED BY <1>1, <2>1, <2>2 DEF Alternates
<1>6. s # <<>>
  BY <1>1
<1> QED BY <1>1, <1>2, <1>4, <1>5, <1>6 DEF Separated, Ink

LEMMA CommaIs == Comma \in Seq(Tokens) /\ Ink(Comma) = Comma
<1>1. Comma \in Seq({","})
  BY Single DEF Comma
<1>2. {","} \intersect Whitespace = {}
  BY Zenon DEF Whitespace
<1>3. Comma \in Seq(Tokens)
  BY TokenFacts, Single DEF Comma
<1> QED BY <1>1, <1>2, <1>3, WithoutNone DEF Ink

\* Joining with a comma keeps what holds of the parts.
LEMMA InkJoin ==
  ASSUME NEW a \in Seq(Tokens), NEW b \in Seq(Tokens)
  PROVE  Ink((a \o Comma) \o b) = (Ink(a) \o Comma) \o Ink(b)
<1>1. PICK k \in Seq(Tokens) : k = Comma /\ Ink(k) = Comma
  BY CommaIs
<1>2. a \o k \in Seq(Tokens) /\ Ink(a \o k) = Ink(a) \o Ink(k)
  BY InkConcat
<1>3. PICK d \in Seq(Tokens) : d = a \o k
  BY <1>2
<1>4. Ink(d \o b) = Ink(d) \o Ink(b)
  BY InkConcat
<1> QED BY <1>1, <1>2, <1>3, <1>4

LEMMA SeparatedJoin ==
  ASSUME NEW a \in Seq(Tokens), NEW b \in Seq(Tokens), Separated(a), Separated(b),
         a # <<>>, b # <<>>
  PROVE  Separated((a \o Comma) \o b)
<1>1. Alternates((a \o Comma) \o b)
  BY AlternatesJoin DEF Separated
<1>2. Ink((a \o Comma) \o b) = (a \o Comma) \o b
  BY InkJoin DEF Separated
<1> QED BY <1>1, <1>2 DEF Separated

\* The metadata members of a row.
Singles(cols) == [i \in DOMAIN cols |-> <<cols[i]>>]

LEMMA SinglesAppend ==
  ASSUME NEW cols \in Seq(ColumnNames), NEW c \in ColumnNames
  PROVE  /\ Singles(cols) \in Seq(Seq(Tokens)) /\ Len(Singles(cols)) = Len(cols)
         /\ Singles(Append(cols, c)) = Append(Singles(cols), <<c>>)
<1>1. PICK V : V = Seq(Tokens)
  OBVIOUS
<1>2. PICK f : f = [x \in ColumnNames |-> <<x>>]
  OBVIOUS
<1>3. \A x \in ColumnNames : f[x] \in V /\ f[x] = <<x>>
  <2> SUFFICES ASSUME NEW x \in ColumnNames PROVE <<x>> \in V
    BY <1>2
  <2> QED BY <1>1, OneColumn
<1>4. PICK n \in Nat : n = Len(cols) /\ DOMAIN cols = 1..n /\ \A i \in 1..n : cols[i] \in ColumnNames
  OBVIOUS
<1>5. PICK g : g = [i \in 1..n |-> f[cols[i]]]
  OBVIOUS
<1>6. g \in Seq(V) /\ Len(g) = n
  <2>1. \A i \in 1..n : f[cols[i]] \in V
    BY <1>3, <1>4
  <2> QED BY <1>5, <2>1
<1>7. Singles(cols) = g
  BY <1>3, <1>4, <1>5 DEF Singles
<1>8. PICK u \in Seq(ColumnNames) : u = Append(cols, c) /\ Len(u) = n + 1 /\ u[n + 1] = c
                              /\ \A i \in 1..n : u[i] = cols[i]
  <2>2. /\ Append(cols, c) \in Seq(ColumnNames) /\ Append(cols, c) # <<>>
        /\ Len(Append(cols, c)) = Len(cols) + 1
        /\ Append(cols, c)[Len(cols) + 1] = c
        /\ \A i \in 1..Len(cols) : Append(cols, c)[i] = cols[i]
    BY AppendFacts
  <2> QED BY <1>4, <2>2
<1>9. DOMAIN u = 1..(n + 1) /\ \A i \in 1..(n + 1) : u[i] \in ColumnNames
  BY <1>8
<1>10. PICK h : h = [i \in 1..(n + 1) |-> f[u[i]]]
  OBVIOUS
<1>11. Singles(u) = h
  BY <1>3, <1>9, <1>10 DEF Singles
<1>12. h \in Seq(V) /\ Len(h) = n + 1
  <2>1. \A i \in 1..(n + 1) : f[u[i]] \in V
    BY <1>3, <1>9
  <2> QED BY <1>10, <2>1
<1>13. PICK x \in V : x = f[c] /\ x = <<c>>
  BY <1>3
<1>14. PICK k \in Seq(V) : k = Append(g, x) /\ Len(k) = n + 1 /\ k[n + 1] = x
                          /\ \A i \in 1..n : k[i] = g[i]
  <2>1. /\ Append(g, x) \in Seq(V) /\ Append(g, x) # <<>> /\ Len(Append(g, x)) = Len(g) + 1
        /\ Append(g, x)[Len(g) + 1] = x
        /\ \A i \in 1..Len(g) : Append(g, x)[i] = g[i]
    BY <1>6, AppendFacts
  <2> QED BY <1>6, <2>1
<1>15. \A i \in 1..(n + 1) : h[i] = k[i]
  <2> SUFFICES ASSUME NEW i \in 1..(n + 1) PROVE h[i] = k[i]
    OBVIOUS
  <2>1. CASE i \in 1..n
    BY <1>5, <1>8, <1>10, <1>14, <2>1
  <2>2. CASE i = n + 1
    BY <1>8, <1>10, <1>13, <1>14, <2>2
  <2> QED BY <2>1, <2>2
<1>16. h = k
  <2>1. \A i \in 1..Len(h) : h[i] = k[i]
    BY <1>12, <1>15
  <2> QED BY <1>12, <1>14, <2>1, SeqEqual
<1> QED BY <1>1, <1>4, <1>6, <1>7, <1>8, <1>11, <1>13, <1>14, <1>16

\* The metadata members with their commas.
Leading(cols) == separate(Singles(cols))

LEMMA LeadingIs ==
  ASSUME NEW cols \in Seq(ColumnNames)
  PROVE  /\ Leading(cols) \in Seq(Tokens) /\ Separated(Leading(cols))
         /\ Without(Leading(cols), Punctuation) = cols
         /\ Leading(cols) = <<>> <=> cols = <<>>
<1> DEFINE Good(r) == /\ Leading(r) \in Seq(Tokens) /\ Separated(Leading(r))
                      /\ Without(Leading(r), Punctuation) = r
                      /\ Leading(r) = <<>> <=> r = <<>>
           P == {n \in Nat : \A r \in Seq(ColumnNames) : Len(r) = n => Good(r)}
<1>a. ASSUME NEW s \in Seq(Seq(Tokens)), NEW e \in Seq(Tokens)
      PROVE  /\ separate(s) \in Seq(Tokens)
             /\ Len(s) = 0 => separate(Append(s, e)) = e
             /\ Len(s) # 0 => separate(Append(s, e)) = (separate(s) \o Comma) \o e
  BY SeparateAppend
<1>1. 0 \in P
  <2> SUFFICES Good(<<>>)
    <3>1. ASSUME NEW r \in Seq(ColumnNames), Len(r) = 0 PROVE r = <<>>
      BY <3>1
    <3> QED BY <3>1
  <2>1. Singles(<<>>) = <<>>
    BY DEF Singles
  <2>2. Led(<<>>) = <<>>
    BY DEF Led
  <2>3. Leading(<<>>) = <<>>
    <3>1. separate(<<>>) = FlattenSeq(Led(<<>>))
      BY DEF separate, Led, Comma
    <3> QED BY <2>1, <2>2, <3>1, FlattenEmpty DEF Leading
  <2>4. Alternates(<<>>)
    BY DEF Alternates
  <2>5. Without(<<>>, Whitespace) = <<>> /\ Without(<<>>, Punctuation) = <<>>
    BY WithoutEmpty
  <2>6. <<>> \in Seq(Tokens)
    OBVIOUS
  <2>7. Separated(<<>>)
    BY <2>4, <2>5 DEF Separated, Ink
  <2> QED BY <2>3, <2>5, <2>6, <2>7
<1>2. ASSUME NEW n \in Nat, n \in P PROVE n + 1 \in P
  <2> SUFFICES ASSUME NEW t \in Seq(ColumnNames), Len(t) = n + 1 PROVE Good(t)
    OBVIOUS
  <2>0. \A r \in Seq(ColumnNames) : Len(r) = n => Good(r)
    BY <1>2
  <2> HIDE DEF Good, P
  <2>1. PICK r \in Seq(ColumnNames), c \in ColumnNames : t = Append(r, c) /\ Len(r) = n /\ c = t[n + 1]
    BY Len(t) = n + 1, SplitLast, ZenonT(30)
  <2>2. /\ Leading(r) \in Seq(Tokens) /\ Separated(Leading(r))
        /\ Without(Leading(r), Punctuation) = r
        /\ Leading(r) = <<>> <=> r = <<>>
    BY <2>0, <2>1 DEF Good
  <2>3. PICK e \in Seq(Tokens) : /\ e = <<c>> /\ e # <<>> /\ e \in Seq(ColumnNames)
                                /\ Separated(e) /\ Without(e, Punctuation) = e
    BY OneColumn
  <2>4. PICK s \in Seq(Seq(Tokens)) :
          s = Singles(r) /\ Len(s) = n /\ Singles(Append(r, c)) = Append(s, e)
    BY <2>1, <2>3, SinglesAppend
  <2>5. t # <<>>
    <3>1. Len(t) # 0
      OBVIOUS
    <3> QED BY <3>1
  <2>6. CASE n = 0
    <3>1. Leading(t) = e
      BY <1>a, <2>1, <2>4, <2>6 DEF Leading
    <3>2. r = <<>>
      BY <2>1, <2>6, EmptyIs
    <3>3. t = e
      BY <2>1, <2>3, <3>2
    <3> QED BY <2>3, <2>5, <3>1, <3>3 DEF Good
  <2>7. CASE n # 0
    <3>1. Leading(t) = (Leading(r) \o Comma) \o e
      BY <1>a, <2>1, <2>4, <2>7 DEF Leading
    <3>2. PICK f \in Seq(Tokens) : f = Leading(r) /\ f # <<>> /\ Separated(f) /\ Without(f, Punctuation) = r
      <4>1. r # <<>>
        BY <2>1, <2>7
      <4> QED BY <2>2, <4>1
    <3>3. /\ (f \o Comma) \o e \in Seq(Tokens) /\ (f \o Comma) \o e # <<>>
          /\ Without((f \o Comma) \o e, Punctuation) = Without(f, Punctuation) \o Without(e, Punctuation)
      BY <2>3, <3>2, AlternatesJoin DEF Separated
    <3>4. Separated((f \o Comma) \o e)
      BY <2>3, <3>2, SeparatedJoin
    <3>5. r \o e = t
      <4>1. <<>> \in Seq(ColumnNames) /\ e = Append(<<>>, c)
        BY <2>3
      <4>2. r \o Append(<<>>, c) = Append(r \o <<>>, c)
        BY <4>1, ConcatAppend
      <4>3. r \o <<>> = r
        BY ConcatEmpty
      <4> QED BY <2>1, <4>1, <4>2, <4>3
    <3> QED BY <2>3, <2>5, <3>1, <3>2, <3>3, <3>4, <3>5 DEF Good
  <2> QED BY <2>6, <2>7
<1>3. P = Nat
  <2> HIDE DEF P
  <2>1. P \in SUBSET Nat
    BY DEF P
  <2> QED BY <1>1, <1>2, <2>1, SetInduction
<1>4. \A n \in Nat : \A r \in Seq(ColumnNames) : Len(r) = n => Good(r)
  BY <1>3
<1> HIDE DEF Good, P
<1>5. Good(cols)
  BY <1>4
<1> QED BY <1>5 DEF Good

\* A sequence with its first and last element apart.
LEMMA Inner ==
  ASSUME NEW T, NEW s \in Seq(T), NEW n \in Nat, Len(s) = n + 2
  PROVE  /\ SubSeq(s, 2, n + 1) \in Seq(T)
         /\ s = (<<s[1]>> \o SubSeq(s, 2, n + 1)) \o <<s[n + 2]>>
<1>1. PICK u \in Seq(T) : u = SubSeq(s, 2, n + 1) /\ Len(u) = n /\ \A i \in 1..n : u[i] = s[i + 1]
  <2>1. CASE n = 0
    <3>1. SubSeq(s, 2, n + 1) = <<>> /\ <<>> \in Seq(T)
      BY <2>1
    <3>2. PICK u \in Seq(T) : u = SubSeq(s, 2, n + 1) /\ u = <<>>
      BY <3>1
    <3>3. Len(u) = n /\ \A i \in 1..n : u[i] = s[i + 1]
      BY <2>1, <3>2
    <3> QED BY <3>2, <3>3
  <2>2. CASE n # 0
    <3>1. 2 \in 1..Len(s) /\ n + 1 \in 2..Len(s)
      BY <2>2
    <3>2. /\ SubSeq(s, 2, n + 1) \in Seq(T) /\ Len(SubSeq(s, 2, n + 1)) = n + 1 - 2 + 1
          /\ \A i \in 1..(n + 1 - 2 + 1) : SubSeq(s, 2, n + 1)[i] = s[2 + i - 1]
      BY <3>1, CutFacts
    <3>3. n + 1 - 2 + 1 = n /\ \A i \in 1..n : 2 + i - 1 = i + 1
      OBVIOUS
    <3> QED BY <3>2, <3>3
  <2> QED BY <2>1, <2>2
<1>2. PICK a \in T, b \in T : a = s[1] /\ b = s[n + 2]
  <2>1. s[1] \in T /\ s[n + 2] \in T
    OBVIOUS
  <2> QED BY <2>1
<1>3. PICK x \in Seq(T) : x = <<a>> /\ Len(x) = 1 /\ x[1] = a
  BY Single
<1>3y. PICK y \in Seq(T) : y = <<b>> /\ Len(y) = 1 /\ y[1] = b
  BY Single
<1>4. PICK v \in Seq(T) : v = x \o u /\ Len(v) = n + 1 /\ v[1] = a
                          /\ \A i \in 1..n : v[1 + i] = u[i]
  <2>1. /\ x \o u \in Seq(T) /\ Len(x \o u) = Len(x) + Len(u)
        /\ \A i \in 1..Len(x) : (x \o u)[i] = x[i]
        /\ \A i \in 1..Len(u) : (x \o u)[Len(x) + i] = u[i]
    BY ConcatFacts
  <2>2. 1 \in 1..Len(x) /\ Len(x) + Len(u) = n + 1
    BY <1>1, <1>3
  <2>3. PICK v \in Seq(T) : v = x \o u
    BY <2>1
  <2>4. v[1] = a
    BY <1>3, <2>1, <2>2, <2>3
  <2>5. \A i \in 1..n : v[1 + i] = u[i]
    BY <1>1, <1>3, <2>1, <2>3
  <2>6. Len(v) = n + 1
    BY <2>1, <2>2, <2>3
  <2> QED BY <2>3, <2>4, <2>5, <2>6
<1>5. PICK w \in Seq(T) : w = v \o y /\ Len(w) = n + 2 /\ w[n + 2] = b
                          /\ \A i \in 1..(n + 1) : w[i] = v[i]
  <2>1. /\ v \o y \in Seq(T) /\ Len(v \o y) = Len(v) + Len(y)
        /\ \A i \in 1..Len(v) : (v \o y)[i] = v[i]
        /\ \A i \in 1..Len(y) : (v \o y)[Len(v) + i] = y[i]
    BY ConcatFacts
  <2>2. 1 \in 1..Len(y) /\ Len(v) + Len(y) = n + 2 /\ n + 2 = n + 1 + 1
    BY <1>3y, <1>4
  <2>3. PICK w \in Seq(T) : w = v \o y
    BY <2>1
  <2>4. w[n + 2] = b
    BY <1>3y, <1>4, <2>1, <2>2, <2>3
  <2>5. \A i \in 1..(n + 1) : w[i] = v[i]
    BY <1>4, <2>1, <2>3
  <2>6. Len(w) = n + 2
    BY <2>1, <2>2, <2>3
  <2> QED BY <2>3, <2>4, <2>5, <2>6
<1>6. ASSUME NEW i \in 1..(n + 2) PROVE s[i] = w[i]
  <2>1. CASE i = 1
    <3>1. 1 \in 1..(n + 1)
      OBVIOUS
    <3> QED BY <1>2, <1>4, <1>5, <2>1, <3>1
  <2>2. CASE i = n + 2
    BY <1>2, <1>5, <2>2
  <2>3. CASE i \in 2..(n + 1)
    <3>1. PICK j \in 1..n : i = 1 + j /\ j + 1 = i
      <4>1. i - 1 \in 1..n /\ i = 1 + (i - 1) /\ (i - 1) + 1 = i
        BY <2>3
      <4> QED BY <4>1
    <3>2. i \in 1..(n + 1)
      BY <2>3
    <3> QED BY <1>1, <1>4, <1>5, <3>1, <3>2
  <2>4. i = 1 \/ i = n + 2 \/ i \in 2..(n + 1)
    OBVIOUS
  <2> QED BY <2>1, <2>2, <2>3, <2>4
<1>7. s = w
  <2>1. Len(s) = Len(w) /\ \A i \in 1..Len(s) : s[i] = w[i]
    BY <1>5, <1>6
  <2> QED BY <2>1, SeqEqual
<1> QED BY <1>1, <1>2, <1>3, <1>3y, <1>4, <1>5, <1>7

Open == <<"{">>
Close == <<"}">>

LEMMA BracesAre ==
  /\ Open \in Seq(Tokens) /\ Ink(Open) = Open /\ Without(Open, Punctuation) = <<>>
  /\ Close \in Seq(Tokens) /\ Ink(Close) = Close /\ Without(Close, Punctuation) = <<>>
<1>1. Open \in Seq({"{"}) /\ Close \in Seq({"}"})
  BY Single DEF Open, Close
<1>2. {"{"} \intersect Whitespace = {} /\ {"}"} \intersect Whitespace = {}
  BY Zenon DEF Whitespace
<1>3. {"{"} \subseteq Punctuation /\ {"}"} \subseteq Punctuation
  BY DEF Punctuation
<1>4. Without(Open, Whitespace) = Open
  BY <1>1, <1>2, WithoutNone
<1>5. Without(Close, Whitespace) = Close
  BY <1>1, <1>2, WithoutNone
<1>6. Without(Open, Punctuation) = <<>>
  BY <1>1, <1>3, WithoutAll
<1>7. Without(Close, Punctuation) = <<>>
  BY <1>1, <1>3, WithoutAll
<1>8. Open \in Seq(Tokens) /\ Close \in Seq(Tokens)
  BY TokenFacts, Single DEF Open, Close
<1> QED BY <1>4, <1>5, <1>6, <1>7, <1>8 DEF Ink

Encloses(w, a, u, b) == w = (<<a>> \o u) \o <<b>>

LEMMA MiddleIs ==
  ASSUME NEW T, NEW a \in T, NEW b \in T, NEW u \in Seq(T), NEW w, Encloses(w, a, u, b)
  PROVE  /\ w \in Seq(T) /\ Len(w) = Len(u) + 2 /\ Head(w) = a /\ Last(w) = b
         /\ SubSeq(w, 2, Len(w) - 1) = u
<1>1. PICK n \in Nat : n = Len(u)
  OBVIOUS
<1>2. PICK x \in Seq(T) : x = <<a>> /\ Len(x) = 1 /\ x[1] = a
  BY Single
<1>3. PICK y \in Seq(T) : y = <<b>> /\ Len(y) = 1 /\ y[1] = b
  BY Single
<1>4. PICK v \in Seq(T) : v = x \o u
  BY ConcatFacts
<1>5. /\ Len(v) = Len(x) + Len(u) /\ \A i \in 1..Len(x) : v[i] = x[i]
      /\ \A i \in 1..Len(u) : v[Len(x) + i] = u[i]
  BY <1>4, ConcatFacts
<1>6. w = v \o y
  BY <1>2, <1>3, <1>4 DEF Encloses
<1>7. /\ v \o y \in Seq(T) /\ Len(v \o y) = Len(v) + Len(y)
      /\ \A i \in 1..Len(v) : (v \o y)[i] = v[i]
      /\ \A i \in 1..Len(y) : (v \o y)[Len(v) + i] = y[i]
  BY ConcatFacts
<1>8. w \in Seq(T) /\ Len(w) = n + 2 /\ Len(v) = n + 1
  BY <1>1, <1>2, <1>3, <1>5, <1>6, <1>7
<1>9. w[1] = a
  <2>1. 1 \in 1..Len(x) /\ 1 \in 1..Len(v)
    BY <1>2, <1>8
  <2> QED BY <1>2, <1>5, <1>6, <1>7, <2>1
<1>10. w[n + 2] = b
  <2>1. 1 \in 1..Len(y) /\ n + 2 = Len(v) + 1
    BY <1>3, <1>8
  <2> QED BY <1>3, <1>6, <1>7, <2>1
<1>11. ASSUME NEW i \in 1..n PROVE w[1 + i] = u[i]
  <2>1. 1 + i \in 1..Len(v)
    BY <1>8
  <2> QED BY <1>1, <1>2, <1>5, <1>6, <1>7, <2>1
<1>12. Head(w) = a /\ Last(w) = b
  <2>1. w # <<>>
    <3>1. Len(w) # 0
      BY <1>8
    <3> QED BY <3>1
  <2>2. Head(w) = w[1]
    BY <1>8, <2>1, HeadIs
  <2> QED BY <1>8, <1>9, <1>10, <2>2 DEF Last
<1>13. PICK c \in Seq(T) : c = SubSeq(w, 2, n + 1)
  <2>1. SubSeq(w, 2, n + 1) \in Seq(T)
    BY <1>8, Inner
  <2> QED BY <2>1
<1>14. c = u
  <2>1. CASE n = 0
    <3>1. c = <<>>
      BY <1>13, <2>1
    <3>2. u = <<>>
      BY <1>1, <2>1, EmptyIs
    <3> QED BY <3>1, <3>2
  <2>2. CASE n # 0
    <3>1. 2 \in 1..Len(w) /\ n + 1 \in 2..Len(w)
      BY <1>8, <2>2
    <3>2. /\ SubSeq(w, 2, n + 1) \in Seq(T) /\ Len(SubSeq(w, 2, n + 1)) = n + 1 - 2 + 1
          /\ \A i \in 1..(n + 1 - 2 + 1) : SubSeq(w, 2, n + 1)[i] = w[2 + i - 1]
      BY <1>8, <3>1, CutFacts
    <3>3. n + 1 - 2 + 1 = n /\ \A i \in 1..n : 2 + i - 1 = 1 + i
      OBVIOUS
    <3>4. Len(c) = Len(u) /\ \A i \in 1..Len(c) : c[i] = u[i]
      BY <1>1, <1>11, <1>13, <3>2, <3>3
    <3> QED BY <3>4, SeqEqual
  <2> QED BY <2>1, <2>2
<1>15. Len(w) - 1 = n + 1
  BY <1>8
<1> QED BY <1>1, <1>8, <1>12, <1>13, <1>14, <1>15

Wraps(w, v) ==
    /\ Len(w) >= 2 /\ Head(w) = "{" /\ Last(w) = "}"
    /\ v = <<>> \/ Len(v) % 2 = 1
    /\ \A i \in DOMAIN v : IF i % 2 = 1 THEN v[i] \notin Punctuation ELSE v[i] = ","

LEMMA ObjectIs ==
  ASSUME NEW s
  PROVE  IsObject(s) <=> Wraps(Ink(s), SubSeq(Ink(s), 2, Len(Ink(s)) - 1))
BY DEF IsObject, Wraps

\* An object is what alternates, in braces.
LEMMA BracedObject ==
  ASSUME NEW u \in Seq(Tokens), NEW s, Ink(s) = (Open \o u) \o Close
  PROVE  (IsObject(s) <=> Alternates(u)) /\ Members(s) = Without(u, Punctuation)
<1>1. PICK w : w = (<<"{">> \o u) \o <<"}">> /\ w = Ink(s)
  BY DEF Open, Close
<1>2. /\ w \in Seq(Tokens) /\ Len(w) = Len(u) + 2 /\ Head(w) = "{" /\ Last(w) = "}"
      /\ SubSeq(w, 2, Len(w) - 1) = u
  <2>1. PICK a \in Tokens, b \in Tokens : a = "{" /\ b = "}"
    BY TokenFacts
  <2>2. Encloses(w, a, u, b)
    BY <1>1, <2>1 DEF Encloses
  <2>3. /\ w \in Seq(Tokens) /\ Len(w) = Len(u) + 2 /\ Head(w) = a /\ Last(w) = b
        /\ SubSeq(w, 2, Len(w) - 1) = u
    BY <2>2, MiddleIs
  <2> QED BY <2>1, <2>3
<1>3. DOMAIN u = 1..Len(u)
  OBVIOUS
<1>4. Len(w) >= 2
  <2>1. Len(w) = Len(u) + 2
    BY <1>2
  <2> QED BY <2>1
<1>5. IsObject(s) <=> Alternates(u)
  <2>1. IsObject(s) <=> Wraps(w, u)
    <3>1. IsObject(s) <=> Wraps(Ink(s), SubSeq(Ink(s), 2, Len(Ink(s)) - 1))
      BY ObjectIs
    <3>2. Ink(s) = w /\ SubSeq(w, 2, Len(w) - 1) = u
      BY <1>1, <1>2
    <3> QED BY ONLY <3>1, <3>2
  <2> QED BY <1>2, <1>3, <1>4, <2>1 DEF Alternates, Wraps
<1>6. Members(s) = Without(u, Punctuation)
  <2>1. PICK d \in Seq(Tokens) : d = Open \o u
    BY BracesAre, ConcatFacts
  <2>2. Without(d \o Close, Punctuation) = Without(d, Punctuation) \o Without(Close, Punctuation)
    BY BracesAre, MembersConcat
  <2>3. Without(Open \o u, Punctuation) = Without(Open, Punctuation) \o Without(u, Punctuation)
    BY BracesAre, MembersConcat
  <2>4. Without(u, Punctuation) \in Seq(Tokens)
    BY WithoutType
  <2>5. /\ <<>> \o Without(u, Punctuation) = Without(u, Punctuation)
        /\ Without(u, Punctuation) \o <<>> = Without(u, Punctuation)
    BY <2>4, ConcatEmpty
  <2> QED BY <2>1, <2>2, <2>3, <2>5, BracesAre DEF Members
<1> QED BY <1>5, <1>6

LEMMA BracedInk ==
  ASSUME NEW u \in Seq(Tokens)
  PROVE  /\ (Open \o u) \o Close \in Seq(Tokens)
         /\ Ink((Open \o u) \o Close) = (Open \o Ink(u)) \o Close
<1>1. PICK a \in Seq(Tokens), b \in Seq(Tokens) : a = Open /\ b = Close
  BY BracesAre
<1>2. a \o u \in Seq(Tokens) /\ Ink(a \o u) = Ink(a) \o Ink(u)
  BY InkConcat
<1>3. PICK d \in Seq(Tokens) : d = a \o u
  BY <1>2
<1>4. d \o b \in Seq(Tokens) /\ Ink(d \o b) = Ink(d) \o Ink(b)
  BY InkConcat
<1> QED BY <1>1, <1>2, <1>3, <1>4, BracesAre

LEMMA InkTwice == ASSUME NEW s \in Seq(Tokens) PROVE Ink(Ink(s)) = Ink(s)
<1>1. PICK T : T = Tokens \ Whitespace
  OBVIOUS
<1>2. Ink(s) \in Seq(T) /\ T \intersect Whitespace = {}
  BY <1>1, WithoutType DEF Ink
<1> QED BY <1>2, WithoutNone DEF Ink

LEMMA BodyIs ==
  ASSUME NEW p \in Seq(Tokens), Rejection(p) = "none"
  PROVE  /\ object_body(p) \in Seq(Tokens)
         /\ object_body(p) # <<>> => Ink(object_body(p)) # <<>>
         /\ Ink(p) = (Open \o Ink(object_body(p))) \o Close
<1>1. PICK t \in Seq(Tokens) : t = trim_ascii(p) /\ Ink(t) = Ink(p)
  BY TrimSplits, InkTrim
<1>2. t # <<>> /\ Head(t) = "{" /\ Last(t) = "}"
  BY <1>1 DEF Rejection
<1>3. Head(t) = t[1] /\ Len(t) \in Nat \ {0} /\ Last(t) = t[Len(t)]
  BY <1>2, HeadIs DEF Last
<1>4. Len(t) # 1
  <2>1. t[1] # t[Len(t)]
    BY <1>2, <1>3, Zenon
  <2> QED BY <2>1
<1>5. PICK n \in Nat : Len(t) = n + 2
  <2>1. PICK m \in Nat : m = Len(t) /\ m # 0 /\ m # 1
    BY <1>3, <1>4
  <2>2. m - 2 \in Nat /\ m = (m - 2) + 2
    BY <2>1
  <2> QED BY <2>1, <2>2
<1>6. PICK mid \in Seq(Tokens) : mid = SubSeq(t, 2, n + 1) /\ t = (<<t[1]>> \o mid) \o <<t[n + 2]>>
  <2>1. /\ SubSeq(t, 2, n + 1) \in Seq(Tokens)
        /\ t = (<<t[1]>> \o SubSeq(t, 2, n + 1)) \o <<t[n + 2]>>
    BY <1>5, Inner
  <2> QED BY <2>1
<1>7. t = (Open \o mid) \o Close
  <2>1. t[1] = "{" /\ t[n + 2] = "}"
    BY <1>2, <1>3, <1>5
  <2> QED BY <1>6, <2>1 DEF Open, Close
<1>8. Ink(p) = (Open \o Ink(mid)) \o Close
  <2>1. Ink((Open \o mid) \o Close) = (Open \o Ink(mid)) \o Close
    BY BracedInk
  <2> QED BY <1>1, <1>7, <2>1
<1>10. PICK b \in Seq(Tokens) : b = trim_ascii(mid) /\ Ink(b) = Ink(mid)
  BY TrimSplits, InkTrim
<1>11. b = object_body(p)
  <2>1. Len(t) - 1 = n + 1
    BY <1>5
  <2> QED BY <1>1, <1>6, <1>10, <2>1 DEF object_body
<1>12. b # <<>> => Ink(b) # <<>>
  <2>1. b # <<>> => b[1] \notin Whitespace /\ b[Len(b)] \notin Whitespace
    BY <1>10, TrimSplits
  <2> QED BY <2>1, InkEnds
<1> QED BY <1>8, <1>10, <1>11, <1>12

\* The members of a row: the columns, then the body.
LEMMA SplicedIs ==
  ASSUME NEW cols \in Seq(ColumnNames), NEW b \in Seq(Tokens),
         b # <<>> => Ink(b) # <<>>,
         NEW x, x = separate(Singles(cols) \o Spliced(b))
  PROVE  /\ x \in Seq(Tokens)
         /\ Alternates(Ink(b)) =>
              /\ Alternates(Ink(x))
              /\ Without(Ink(x), Punctuation) = cols \o Without(Ink(b), Punctuation)
<1>1. PICK f \in Seq(Tokens) : /\ f = Leading(cols) /\ Separated(f)
                               /\ Without(f, Punctuation) = cols
                               /\ f = <<>> <=> cols = <<>>
  <2>1. /\ Leading(cols) \in Seq(Tokens) /\ Separated(Leading(cols))
        /\ Without(Leading(cols), Punctuation) = cols
        /\ Leading(cols) = <<>> <=> cols = <<>>
    BY LeadingIs
  <2> QED BY <2>1
<1>2. PICK s \in Seq(Seq(Tokens)) : s = Singles(cols) /\ Len(s) = Len(cols)
  <2>1. PICK c \in ColumnNames : TRUE
    <3>1. Columns[1] \in ColumnNames
      BY DEF ColumnNames
    <3> QED BY <3>1
  <2>2. Singles(cols) \in Seq(Seq(Tokens)) /\ Len(Singles(cols)) = Len(cols)
    BY SinglesAppend
  <2> QED BY <2>2
<1>3. CASE b = <<>>
  <2>1. s \o <<>> = s
    BY ConcatEmpty
  <2>2. x = f
    BY <1>1, <1>2, <1>3, <2>1 DEF Spliced, Leading
  <2>3. Ink(b) = <<>> /\ Without(Ink(b), Punctuation) = <<>>
    BY <1>3, WithoutEmpty DEF Ink
  <2>4. cols \o <<>> = cols
    BY ConcatEmpty
  <2> QED BY <1>1, <2>2, <2>3, <2>4 DEF Separated
<1>4. CASE b # <<>>
  <2>1. s \o Spliced(b) = Append(s, b)
    <3>1. Spliced(b) = <<b>>
      BY <1>4 DEF Spliced
    <3>2. PICK V : V = Seq(Tokens)
      OBVIOUS
    <3>3. s \in Seq(V) /\ <<>> \in Seq(V) /\ b \in V
      BY <3>2
    <3>4. s \o Append(<<>>, b) = Append(s \o <<>>, b)
      BY <3>3, ConcatAppend
    <3>5. s \o <<>> = s
      BY ConcatEmpty
    <3>6. <<b>> = Append(<<>>, b)
      OBVIOUS
    <3> QED BY <3>1, <3>4, <3>5, <3>6
  <2>2. x = separate(Append(s, b))
    BY <1>2, <2>1
  <2>3. /\ Len(s) = 0 => separate(Append(s, b)) = b
        /\ Len(s) # 0 => separate(Append(s, b)) = (separate(s) \o Comma) \o b
    BY SeparateAppend
  <2>4. CASE Len(s) = 0
    <3>1. x = b
      BY <2>2, <2>3, <2>4
    <3>2. cols = <<>>
      BY <1>2, <2>4, EmptyIs
    <3>3. Ink(b) \in Seq(Tokens)
      BY InkType
    <3>4. Without(Ink(b), Punctuation) \in Seq(Tokens)
      BY <3>3, WithoutType
    <3>5. <<>> \o Without(Ink(b), Punctuation) = Without(Ink(b), Punctuation)
      BY <3>4, ConcatEmpty
    <3> QED BY <3>1, <3>2, <3>5
  <2>5. CASE Len(s) # 0
    <3>1. x = (f \o Comma) \o b
      BY <1>1, <1>2, <2>2, <2>3, <2>5 DEF Leading
    <3>2. f # <<>>
      BY <1>1, <1>2, <2>5
    <3>3. PICK d \in Seq(Tokens) : d = f \o Comma
      BY CommaIs, ConcatFacts
    <3>4. x \in Seq(Tokens)
      <4>1. d \o b \in Seq(Tokens)
        BY ConcatFacts
      <4> QED BY <3>1, <3>3, <4>1
    <3>6. PICK k \in Seq(Tokens) : k = Ink(b)
      BY InkType
    <3>7. Ink(x) = (f \o Comma) \o k
      <4>1. Ink((f \o Comma) \o b) = (Ink(f) \o Comma) \o Ink(b)
        BY InkJoin
      <4> QED BY <1>1, <3>1, <3>6, <4>1 DEF Separated
    <3>8. ASSUME Alternates(k)
          PROVE  /\ Alternates((f \o Comma) \o k)
                 /\ Without((f \o Comma) \o k, Punctuation)
                      = Without(f, Punctuation) \o Without(k, Punctuation)
      <4>1. k # <<>> /\ Alternates(f)
        BY <1>1, <1>4, <3>6 DEF Separated
      <4> QED BY <3>2, <3>8, <4>1, AlternatesJoin
    <3> QED BY <1>1, <3>4, <3>6, <3>7, <3>8
  <2> QED BY <2>4, <2>5
<1> QED BY <1>3, <1>4

\* What a reader finds in one piece of the buffer.
Carries(piece, p, set) == IsObject(piece) /\ Members(piece) = Injected(set) \o Members(p)

\* The token that ends a piece.
Brace == "}"

NoBrace(s) == s \in Seq(Tokens \ {Brace})

\* Members and commas, with a brace in front.
LEMMA OpenedIs ==
  ASSUME NEW u \in Seq(Tokens), Alternates(u)
  PROVE  Open \o u \in Seq(Tokens) /\ NoBrace(Open \o u)
<1>1. PICK T : T = Tokens \ {Brace}
  OBVIOUS
<1>2. PICK n \in Nat : n = Len(u) /\ u = [i \in 1..n |-> u[i]]
  OBVIOUS
<1>3. ASSUME NEW i \in 1..n PROVE u[i] \in T
  <2>1. IF i % 2 = 1 THEN u[i] \notin Punctuation ELSE u[i] = ","
    BY <1>2 DEF Alternates
  <2>2. u[i] # Brace
    <3>1. CASE i % 2 = 1
      <4>1. u[i] \notin Punctuation
        BY <2>1, <3>1
      <4> QED BY <4>1, Zenon DEF Punctuation, Brace
    <3>2. CASE i % 2 # 1
      <4>1. u[i] = ","
        BY <2>1, <3>2
      <4> QED BY <4>1, Zenon DEF Brace
    <3> QED BY <3>1, <3>2
  <2>3. u[i] \in Tokens
    BY <1>2
  <2> QED BY <1>1, <2>2, <2>3
<1>4. u \in Seq(T)
  BY <1>2, <1>3
<1>5. PICK a \in T : a = "{"
  <2>1. "{" # Brace
    BY Zenon DEF Brace
  <2> QED BY <1>1, <2>1, TokenFacts
<1>6. PICK e \in Seq(T) : e = Open
  BY <1>5, Single DEF Open
<1>7. e \o u \in Seq(T)
  BY <1>4, <1>6, ConcatFacts
<1>8. Open \o u \in Seq(Tokens)
  BY BracesAre, ConcatFacts
<1> QED BY <1>1, <1>6, <1>7, <1>8 DEF NoBrace

\* write_row writes tokens, and of an object one piece, with its closing brace.
LEMMA RowWritten ==
  ASSUME NEW p \in Seq(Tokens), Rejection(p) = "none", NEW set
  PROVE  /\ write_row(p, set) \in Seq(Tokens)
         /\ IsObject(p) => \E line \in Seq(Tokens) :
              /\ NoBrace(line) /\ Ink(write_row(p, set)) = Append(line, Brace)
              /\ Carries(Append(line, Brace), p, set)
<1>1. PICK b \in Seq(Tokens) : /\ b = object_body(p)
                               /\ b # <<>> => Ink(b) # <<>>
                               /\ Ink(p) = (Open \o Ink(b)) \o Close
  <2>1. /\ object_body(p) \in Seq(Tokens)
        /\ object_body(p) # <<>> => Ink(object_body(p)) # <<>>
        /\ Ink(p) = (Open \o Ink(object_body(p))) \o Close
    BY BodyIs
  <2> QED BY <2>1
<1>2. PICK cols \in Seq(ColumnNames) : cols = Injected(set)
  BY InjectedIs
<1>3. PICK x : x = separate(Singles(cols) \o Spliced(b))
  OBVIOUS
<1>4. /\ x \in Seq(Tokens)
      /\ Alternates(Ink(b)) =>
           /\ Alternates(Ink(x))
           /\ Without(Ink(x), Punctuation) = cols \o Without(Ink(b), Punctuation)
  BY <1>1, <1>3, SplicedIs
<1>5. PICK row \in Seq(Tokens) : row = (Open \o x) \o Close /\ Ink(row) = (Open \o Ink(x)) \o Close
  BY <1>4, BracedInk
<1>6. write_row(p, set) = Append(row, "nl")
  <2>1. write_row(p, set) = (Open \o x) \o <<"}", "nl">>
    BY <1>1, <1>2, <1>3 DEF write_row, Singles, Open
  <2>2. PICK d \in Seq(Tokens) : d = Open \o x
    BY <1>4, BracesAre, ConcatFacts
  <2>3. PICK k \in Tokens, e \in Tokens : k = "}" /\ e = "nl"
    BY TokenFacts
  <2>4. <<k, e>> = Append(<<k>>, e) /\ <<k>> \in Seq(Tokens)
    OBVIOUS
  <2>5. PICK c \in Seq(Tokens) : c = <<k>>
    BY <2>4
  <2>6. d \o Append(c, e) = Append(d \o c, e)
    BY ConcatAppend
  <2> QED BY <1>5, <2>1, <2>2, <2>3, <2>4, <2>5, <2>6 DEF Close
<1>7. PICK e \in Tokens : e = "nl" /\ e \in Whitespace
  BY TokenFacts DEF Whitespace
<1>8. write_row(p, set) \in Seq(Tokens)
  BY <1>6, <1>7, AppendFacts
<1>9. Ink(write_row(p, set)) = Ink(row)
  <2>1. Without(Append(row, e), Whitespace) = Without(row, Whitespace)
    BY <1>7, WithoutAppend
  <2> QED BY <1>6, <1>7, <2>1 DEF Ink
<1>10. ASSUME IsObject(p)
       PROVE  \E line \in Seq(Tokens) :
                /\ NoBrace(line) /\ Ink(write_row(p, set)) = Append(line, Brace)
                /\ Carries(Append(line, Brace), p, set)
  <2>1. PICK u \in Seq(Tokens) : u = Ink(x) /\ Ink(u) = u
    BY <1>4, InkType, InkTwice
  <2>2. Ink(b) \in Seq(Tokens)
    BY InkType
  <2>3. Alternates(Ink(b)) /\ Members(p) = Without(Ink(b), Punctuation)
    BY <1>1, <1>10, <2>2, BracedObject
  <2>4. Alternates(u) /\ Without(u, Punctuation) = cols \o Members(p)
    BY <1>4, <2>1, <2>3
  <2>5. PICK line \in Seq(Tokens) : line = Open \o u /\ NoBrace(line)
    BY <2>4, OpenedIs
  <2>6. PICK k \in Tokens : k = Brace
    BY TokenFacts DEF Brace
  <2>7. line \o Close = Append(line, k)
    <3>0. <<>> \in Seq(Tokens) /\ <<k>> = Append(<<>>, k)
      OBVIOUS
    <3>1. Close = Append(<<>>, k)
      BY <2>6, <3>0 DEF Close, Brace
    <3>2. line \o Append(<<>>, k) = Append(line \o <<>>, k)
      BY <3>0, ConcatAppend
    <3>3. line \o <<>> = line
      BY ConcatEmpty
    <3> QED BY <3>1, <3>2, <3>3
  <2>8. PICK piece : piece = (Open \o u) \o Close
    OBVIOUS
  <2>9. piece = Append(line, Brace)
    BY <2>5, <2>6, <2>7, <2>8
  <2>10. Ink(write_row(p, set)) = piece
    BY <1>5, <1>9, <2>1, <2>8
  <2>11. Ink(piece) = piece
    BY <2>1, <2>8, BracedInk
  <2>12. (IsObject(piece) <=> Alternates(u)) /\ Members(piece) = Without(u, Punctuation)
    BY <2>8, <2>11, BracedObject
  <2>13. Carries(piece, p, set)
    BY <1>2, <2>4, <2>12 DEF Carries
  <2> QED BY <2>5, <2>9, <2>10, <2>13
<1> QED BY <1>8, <1>10

----------------------------------------------------------------------------
(* A write to ClickHouse *)

Dropped == (1..(next - 1)) \ Sent

SinkType ==
    /\ events \in Seq(Message)
    /\ schema \in {"event", "json"}
    /\ next \in 1..(Len(events) + 1)
    /\ outcome \in [written : Nat, dropped : Nat]

\* Nothing is stored before write_batches returns, and the insert ends only when
\* every event was looked at.
StoredInv ==
    /\ pc # "returned" => stored = {} /\ result = "none"
    /\ pc = "end" => next = Len(events) + 1
    /\ outcome.written = 0 => Sent = {}
    /\ OkMeansStored

\* The count and the first of the events refused so far.
DroppedInv ==
    /\ outcome.dropped = Cardinality(Dropped)
    /\ Dropped = {} => first_rejection = 0
    /\ Dropped # {} => first_rejection \in Dropped /\ \A i \in Dropped : first_rejection <= i

SinkInv == SinkType /\ StoredInv /\ DroppedInv

\* The events offered are sent or dropped.
LEMMA OneMore ==
  ASSUME SinkInv, UNCHANGED config, next' = next + 1, next <= Len(events)
  PROVE  LET taken == schema = "event" \/ Rejection(Offered.payload) = "none" IN
         /\ next' \in 1..(Len(events) + 1)
         /\ taken => Sent' = Sent \union {next} /\ Dropped' = Dropped
         /\ ~taken => Sent' = Sent /\ Dropped' = Dropped \union {next} /\ next \notin Dropped
<1>1. next \in Nat \ {0} /\ Len(events) \in Nat
  BY DEF SinkInv, SinkType
<1>2. 1..(next' - 1) = (1..(next - 1)) \union {next} /\ next \notin 1..(next - 1)
  BY <1>1
<1>3. events' = events /\ schema' = schema
  BY DEF config
<1> DEFINE Taken(i) == schema = "event" \/ Rejection(events[i].payload) = "none"
<1>4. Sent = {i \in 1..(next - 1) : Taken(i)}
      /\ Sent' = {i \in (1..(next - 1)) \union {next} : Taken(i)}
  BY <1>2, <1>3 DEF Sent
<1>5. next' \in 1..(Len(events) + 1)
  BY <1>1
<1>6. Taken(next) <=> (schema = "event" \/ Rejection(Offered.payload) = "none")
  BY DEF Offered
<1> HIDE DEF Taken
<1>7. Taken(next) => Sent' = Sent \union {next} /\ Dropped' = Dropped
  BY <1>2, <1>4 DEF Dropped
<1>8. ~Taken(next) => Sent' = Sent /\ Dropped' = Dropped \union {next} /\ next \notin Dropped
  BY <1>2, <1>4 DEF Dropped
<1> QED BY <1>5, <1>6, <1>7, <1>8

LEMMA NoMore ==
  ASSUME UNCHANGED <<config, next>>
  PROVE  Sent' = Sent /\ Dropped' = Dropped /\ events' = events /\ schema' = schema
         /\ MaySkip' = MaySkip
BY DEF config, Sent, Dropped, MaySkip

LEMMA DroppedFinite == ASSUME SinkInv PROVE IsFiniteSet(Dropped)
<1>1. next - 1 \in Nat /\ 1 \in Int
  BY DEF SinkInv, SinkType
<1>2. IsFiniteSet(1..(next - 1))
  <2>1. PICK n \in Nat : n = next - 1
    BY <1>1
  <2>2. IsFiniteSet(1..n)
    BY FS_Interval
  <2> QED BY <2>1, <2>2
<1> QED BY <1>2, FS_Subset DEF Dropped

LEMMA SinkStarts == Init => SinkInv
<1> SUFFICES ASSUME Init PROVE SinkInv
  OBVIOUS
<1>1. SinkType
  BY EventAssumption DEF Init, SinkType
<1>2. 1..(next - 1) = {}
  BY DEF Init
<1>3. Sent = {} /\ Dropped = {}
  BY <1>2 DEF Sent, Dropped
<1>4. StoredInv
  BY <1>3 DEF Init, StoredInv, OkMeansStored
<1>5. DroppedInv
  BY <1>3, FS_EmptySet DEF Init, DroppedInv
<1> QED BY <1>1, <1>4, <1>5 DEF SinkInv

\* The steps that offer no event.
LEMMA OtherKeep ==
  ASSUME SinkInv, UNCHANGED <<config, next, outcome, first_rejection>>,
         StoredInv'
  PROVE  SinkInv'
<1>1. Sent' = Sent /\ Dropped' = Dropped /\ events' = events /\ schema' = schema
  BY NoMore
<1>2. SinkType'
  BY <1>1 DEF SinkInv, SinkType
<1>3. DroppedInv'
  BY <1>1 DEF SinkInv, DroppedInv
<1> QED BY <1>2, <1>3 DEF SinkInv

\* The steps that write a row.
LEMMA WrittenKeeps ==
  ASSUME SinkInv, pc = "rows", next <= Len(events),
         schema = "event" \/ Rejection(Offered.payload) = "none",
         outcome' = [outcome EXCEPT !.written = @ + 1], next' = next + 1,
         UNCHANGED <<config, pc, first_rejection, stored, result>>
  PROVE  SinkInv'
<1>1. /\ next' \in 1..(Len(events) + 1) /\ Dropped' = Dropped /\ events' = events
      /\ schema' = schema
  BY OneMore DEF config
<1>2. /\ outcome' \in [written : Nat, dropped : Nat] /\ outcome'.dropped = outcome.dropped
      /\ outcome'.written # 0
  <2>1. outcome.written \in Nat /\ outcome.dropped \in Nat
    BY DEF SinkInv, SinkType
  <2>2. outcome' = [written |-> outcome.written + 1, dropped |-> outcome.dropped]
    BY DEF SinkInv, SinkType
  <2>3. outcome.written + 1 \in Nat /\ outcome.written + 1 # 0
    BY <2>1
  <2> QED BY <2>1, <2>2, <2>3
<1>3. SinkType'
  BY <1>1, <1>2 DEF SinkInv, SinkType
<1>4. StoredInv'
  BY <1>2 DEF SinkInv, StoredInv, OkMeansStored
<1>5. DroppedInv'
  BY <1>1, <1>2 DEF SinkInv, DroppedInv
<1> QED BY <1>3, <1>4, <1>5 DEF SinkInv

LEMMA DroppedKeeps == ASSUME SinkInv, JsonRowDropped PROVE SinkInv'
<1>1. /\ pc = "rows" /\ next <= Len(events) /\ next' = next + 1 /\ UNCHANGED config
      /\ schema = "json" /\ Rejection(Offered.payload) # "none"
      /\ outcome' = [outcome EXCEPT !.dropped = @ + 1]
      /\ first_rejection' = (IF first_rejection = 0 THEN next ELSE first_rejection)
      /\ UNCHANGED <<pc, stored, result>>
  BY DEF JsonRowDropped, CountDropped
<1>2. /\ next' \in 1..(Len(events) + 1) /\ Sent' = Sent /\ next \notin Dropped
      /\ Dropped' = Dropped \union {next}
  BY <1>1, OneMore
<1>3. events' = events /\ schema' = schema
  BY <1>1 DEF config
<1>4. /\ outcome' \in [written : Nat, dropped : Nat]
      /\ outcome'.dropped = outcome.dropped + 1 /\ outcome'.written = outcome.written
  <2>1. outcome.written \in Nat /\ outcome.dropped \in Nat
    BY DEF SinkInv, SinkType
  <2>2. outcome' = [written |-> outcome.written, dropped |-> outcome.dropped + 1]
    BY <1>1 DEF SinkInv, SinkType
  <2> QED BY <2>1, <2>2
<1>5. SinkType'
  BY <1>2, <1>3, <1>4 DEF SinkInv, SinkType
<1>6. StoredInv'
  BY <1>1, <1>2, <1>4 DEF SinkInv, StoredInv, OkMeansStored
<1>7. DroppedInv'
  <2>1. Cardinality(Dropped \union {next}) = Cardinality(Dropped) + 1
    BY <1>2, DroppedFinite, FS_AddElement
  <2>2. outcome'.dropped = Cardinality(Dropped')
    BY <1>2, <1>4, <2>1 DEF SinkInv, DroppedInv
  <2>3. next \in Nat \ {0} /\ \A i \in Dropped : i \in Nat /\ i # 0 /\ i < next
    BY DEF SinkInv, SinkType, Dropped
  <2>4. first_rejection' \in Dropped' /\ \A i \in Dropped' : first_rejection' <= i
    BY <1>1, <1>2, <2>3 DEF SinkInv, DroppedInv
  <2> QED BY <1>2, <2>2, <2>4 DEF DroppedInv
<1> QED BY <1>5, <1>6, <1>7 DEF SinkInv

LEMMA SinkSteps == SinkInv /\ [Next]_vars => SinkInv'
<1> SUFFICES ASSUME SinkInv, [Next]_vars PROVE SinkInv'
  OBVIOUS
<1>0. ASSUME UNCHANGED <<config, next, outcome, first_rejection>>
      PROVE  Sent' = Sent /\ events' = events /\ schema' = schema /\ MaySkip' = MaySkip
  BY <1>0, NoMore
<1>1. CASE OpenInsert
  <2>1. UNCHANGED <<config, next, outcome, first_rejection, stored>>
    BY <1>1 DEF OpenInsert
  <2>2. /\ pc = "open"
        /\ (pc' = "rows" /\ result' = result) \/ (pc' = "returned" /\ result' = "err")
    BY <1>1 DEF OpenInsert, Returns
  <2>3. StoredInv'
    BY <1>0, <2>1, <2>2 DEF SinkInv, StoredInv, OkMeansStored
  <2> QED BY <2>1, <2>3, OtherKeep
<1>2. CASE WriteEventRow
  <2>1. CASE outcome' = [outcome EXCEPT !.written = @ + 1]
    <3>1. CASE next' = next + 1 /\ UNCHANGED <<pc, stored, result>>
      BY <1>2, <2>1, <3>1, WrittenKeeps DEF WriteEventRow
    <3>2. CASE UNCHANGED <<outcome, next>> /\ Returns("err")
      <4>1. UNCHANGED <<config, next, outcome, first_rejection>>
        BY <1>2, <3>2 DEF WriteEventRow
      <4>2. StoredInv'
        BY <1>0, <3>2, <4>1 DEF SinkInv, StoredInv, OkMeansStored, Returns
      <4> QED BY <4>1, <4>2, OtherKeep
    <3> QED BY <1>2, <2>1, <3>1, <3>2 DEF WriteEventRow
  <2>2. CASE outcome' # [outcome EXCEPT !.written = @ + 1]
    <3>1. UNCHANGED <<outcome, next, config, first_rejection>> /\ Returns("err")
      BY <1>2, <2>2 DEF WriteEventRow
    <3>2. StoredInv'
      BY <1>0, <3>1 DEF SinkInv, StoredInv, OkMeansStored, Returns
    <3> QED BY <3>1, <3>2, OtherKeep
  <2> QED BY <2>1, <2>2
<1>3. CASE JsonRowWritten
  BY <1>3, WrittenKeeps DEF JsonRowWritten
<1>4. CASE JsonRowDropped
  BY <1>4, DroppedKeeps
<1>5. CASE ReturnEarly
  <2>1. /\ UNCHANGED <<config, next, outcome, first_rejection, stored>>
        /\ pc = "rows" /\ pc' = "returned" /\ result' = "ok"
        /\ next > Len(events) /\ outcome.written = 0
    BY <1>5 DEF ReturnEarly, NothingToInsert, Returns
  <2>2. next = Len(events) + 1
    BY <2>1 DEF SinkInv, SinkType
  <2>3. StoredInv'
    BY <1>0, <2>1, <2>2 DEF SinkInv, StoredInv, OkMeansStored
  <2> QED BY <2>1, <2>3, OtherKeep
<1>6. CASE RowsDone
  <2>1. /\ UNCHANGED <<config, next, outcome, first_rejection, stored, result>>
        /\ pc = "rows" /\ pc' = "end" /\ next > Len(events)
    BY <1>6 DEF RowsDone
  <2>2. next = Len(events) + 1
    BY <2>1 DEF SinkInv, SinkType
  <2>3. StoredInv'
    BY <1>0, <2>1, <2>2 DEF SinkInv, StoredInv, OkMeansStored
  <2> QED BY <2>1, <2>3, OtherKeep
<1>7. CASE InsertEnds
  <2>1. /\ UNCHANGED <<config, next, outcome, first_rejection>>
        /\ pc = "end" /\ pc' = "returned" /\ result' = "ok"
        /\ ~MaySkip => stored' = stored \union Sent
    BY <1>7 DEF InsertEnds, Returns
  <2>2. next' = Len(events') + 1 /\ (~MaySkip' => stored' = Sent')
    <3>1. next = Len(events) + 1 /\ stored \union Sent = Sent
      BY <2>1 DEF SinkInv, StoredInv
    <3>2. next' = next /\ events' = events /\ MaySkip' = MaySkip /\ Sent' = Sent
      BY <1>0, <2>1
    <3>3. ~MaySkip' => ~MaySkip
      BY ONLY <3>2
    <3>4. ~MaySkip' => stored' = Sent'
      BY ONLY <2>1, <3>1, <3>2, <3>3
    <3>5. next' = Len(events') + 1
      BY <3>1, <3>2
    <3> QED BY <3>4, <3>5
  <2>3. outcome'.written = 0 => Sent' = {}
    BY <1>0, <2>1 DEF SinkInv, StoredInv
  <2>4. StoredInv'
    BY <2>1, <2>2, <2>3 DEF StoredInv, OkMeansStored
  <2> QED BY <2>1, <2>4, OtherKeep
<1>8. CASE InsertFails
  <2>1. /\ UNCHANGED <<config, next, outcome, first_rejection>>
        /\ pc' = "returned" /\ result' = "err"
    BY <1>8 DEF InsertFails, Returns, EndError
  <2>2. StoredInv'
    BY <1>0, <2>1 DEF SinkInv, StoredInv, OkMeansStored
  <2> QED BY <2>1, <2>2, OtherKeep
<1>9. CASE UNCHANGED vars
  <2>1. UNCHANGED <<config, next, outcome, first_rejection, pc, stored, result>>
    BY <1>9 DEF vars
  <2>2. StoredInv'
    BY <1>0, <2>1 DEF SinkInv, StoredInv, OkMeansStored
  <2> QED BY <2>1, <2>2, OtherKeep
<1> QED BY <1>1, <1>2, <1>3, <1>4, <1>5, <1>6, <1>7, <1>8, <1>9 DEF Next

\* The inductive invariant of a write (ClickhouseSink::write_batches): types, what
\* each place in the write implies for the table and the result, and the events
\* offered so far split into those sent and those counted as dropped.
THEOREM SinkInvariant == Spec => []SinkInv
BY SinkStarts, SinkSteps, PTL DEF Spec

\* For any events and any metadata columns: Ok means the table has every event
\* that was not dropped, unless ClickHouse was told it may skip rows.
THEOREM OkIsStored == Spec => []OkMeansStored
<1>1. SinkInv => OkMeansStored
  BY DEF SinkInv, StoredInv
<1> QED BY <1>1, SinkInvariant, PTL

\* For any events: a key of any symbols, escaped by write_json_string, reads back
\* as its text.
THEOREM KeysAlwaysSurvive == Spec => []KeysSurvive
<1>1. ASSUME SinkInv PROVE KeysSurvive
  <2> SUFFICES ASSUME NEW i \in DOMAIN events
               PROVE  ReadString(write_json_string(events[i].key)) = Read(events[i].key)
    BY DEF KeysSurvive, Read
  <2>1. events \in Seq(Message)
    BY <1>1 DEF SinkInv, SinkType
  <2>2. events[i] \in Message
    BY <2>1
  <2>3. PICK key \in Seq(Symbols) : key = events[i].key
    BY <2>2 DEF Message
  <2>4. ReadString(write_json_string(key)) = Read(key)
    BY KeyReadsBack
  <2> QED BY <2>3, <2>4
<1> QED BY <1>1, SinkInvariant, PTL

\* The payload of an event is made of tokens.
LEMMA PayloadOf ==
  ASSUME SinkInv, NEW i \in 1..Len(events)
  PROVE  events[i].payload \in Seq(Tokens)
<1>1. events \in Seq(Message)
  BY DEF SinkInv, SinkType
<1>2. events[i] \in Message
  BY <1>1
<1>3. PICK p \in Seq(Symbols) : p = events[i].payload
  BY <1>2 DEF Message
<1>4. Symbols \subseteq Tokens
  BY DEF Tokens
<1> QED BY <1>3, <1>4, SeqWiden

\* For any events: write_json_rows drops no object (object_body accepts whatever
\* is one), counts what it drops and reports the first of it.
THEOREM DropsHaveCause == Spec => []DroppedForCause
<1>1. ASSUME SinkInv PROVE DroppedForCause
  <2>1. ASSUME NEW i \in 1..(next - 1), IsObject(events[i].payload) PROVE i \in Sent
    <3>0. i \in 1..Len(events)
      <4>1. next \in 1..(Len(events) + 1) /\ Len(events) \in Nat
        BY <1>1 DEF SinkInv, SinkType
      <4> QED BY <4>1
    <3>1. PICK p \in Seq(Tokens) : p = events[i].payload
      BY <1>1, <3>0, PayloadOf
    <3>2. Rejection(p) = "none"
      BY <2>1, <3>1, ObjectAccepted
    <3> QED BY <3>1, <3>2 DEF Sent
  <2>2. outcome.dropped = Cardinality(Dropped)
    BY <1>1 DEF SinkInv, DroppedInv
  <2>3. first_rejection = IF Dropped = {} THEN 0 ELSE Min(Dropped)
    <3>1. CASE Dropped = {}
      BY <1>1, <3>1 DEF SinkInv, DroppedInv
    <3>2. CASE Dropped # {}
      <4>1. first_rejection \in Dropped /\ \A i \in Dropped : first_rejection <= i
        BY <1>1, <3>2 DEF SinkInv, DroppedInv
      <4>2. \A i \in Dropped : i \in Int
        BY <1>1 DEF Dropped, SinkInv, SinkType
      <4>3. Min(Dropped) \in Dropped /\ \A i \in Dropped : Min(Dropped) <= i
        BY <4>1 DEF Min
      <4>4. first_rejection = Min(Dropped)
        BY <4>1, <4>2, <4>3
      <4> QED BY <3>2, <4>4
    <3> QED BY <3>1, <3>2
  <2> QED BY <2>1, <2>2, <2>3 DEF DroppedForCause, Dropped
<1> QED BY <1>1, SinkInvariant, PTL

----------------------------------------------------------------------------
(* The rows of a buffer *)

Ends(b) == {i \in DOMAIN b : b[i] = Brace}
Before(b, e) == {0} \union {i \in Ends(b) : i < e}
RowAt(b, e) == <<Cardinality({i \in Ends(b) : i <= e}), SubSeq(b, Max(Before(b, e)) + 1, e)>>
RowsOf(b) == {RowAt(b, e) : e \in Ends(b)}
Closed(b) == b = <<>> \/ b[Len(b)] = Brace

LEMMA RowsAre == Rows = RowsOf(Ink(buffer))
BY DEF Rows, Pieces, RowsOf, RowAt, Ends, Before, Brace

LEMMA EndsFinite ==
  ASSUME NEW b \in Seq(Tokens)
  PROVE  /\ IsFiniteSet(Ends(b)) /\ Ends(b) \subseteq 1..Len(b)
         /\ \A e : IsFiniteSet(Before(b, e)) /\ Before(b, e) \in SUBSET Nat
<1>1. PICK n \in Nat : n = Len(b) /\ DOMAIN b = 1..n
  OBVIOUS
<1>2. Ends(b) \subseteq 1..n
  BY <1>1 DEF Ends
<1>3. IsFiniteSet(1..n)
  BY FS_Interval
<1>4. IsFiniteSet(Ends(b))
  BY <1>2, <1>3, FS_Subset
<1>5. ASSUME NEW e PROVE IsFiniteSet(Before(b, e)) /\ Before(b, e) \in SUBSET Nat
  <2>1. IsFiniteSet({i \in Ends(b) : i < e})
    <3>1. {i \in Ends(b) : i < e} \subseteq Ends(b)
      OBVIOUS
    <3> QED BY <1>4, <3>1, FS_Subset
  <2>2. IsFiniteSet({0})
    BY FS_Singleton
  <2>3. IsFiniteSet({0} \union {i \in Ends(b) : i < e})
    BY <2>1, <2>2, FS_Union
  <2>4. {i \in Ends(b) : i < e} \subseteq Nat
    BY <1>2
  <2> QED BY <2>3, <2>4 DEF Before
<1> QED BY <1>1, <1>2, <1>4, <1>5

\* Where a maximum is known.
LEMMA MaxIs ==
  ASSUME NEW S \in SUBSET Nat, IsFiniteSet(S), NEW m \in S, \A x \in S : x <= m
  PROVE  Max(S) = m
<1>1. Max(S) \in S /\ \A x \in S : x <= Max(S)
  BY MaxNumber
<1>2. m \in Nat /\ Max(S) \in Nat /\ m <= Max(S) /\ Max(S) <= m
  BY <1>1
<1> QED BY <1>2

LEMMA RowsGrow ==
  ASSUME NEW b \in Seq(Tokens), NEW line \in Seq(Tokens), NoBrace(line), Closed(b),
         NEW c, c = b \o Append(line, Brace)
  PROVE  /\ c \in Seq(Tokens) /\ Closed(c)
         /\ Cardinality(Ends(c)) = Cardinality(Ends(b)) + 1
         /\ RowsOf(c) = RowsOf(b) \union {<<Cardinality(Ends(b)) + 1, Append(line, Brace)>>}
<1>0. PICK x \in Tokens : x = Brace
  BY TokenFacts DEF Brace
<1>1. PICK u \in Seq(Tokens) : u = Append(line, x)
  BY AppendFacts
<1>2. /\ Len(u) = Len(line) + 1 /\ u[Len(line) + 1] = x /\ \A i \in 1..Len(line) : u[i] = line[i]
  BY <1>1, AppendFacts
<1>3. c = b \o u
  BY <1>0, <1>1
<1>4. /\ b \o u \in Seq(Tokens) /\ Len(b \o u) = Len(b) + Len(u)
      /\ \A i \in 1..Len(b) : (b \o u)[i] = b[i]
      /\ \A i \in 1..Len(u) : (b \o u)[Len(b) + i] = u[i]
  BY ConcatFacts
<1>5. PICK l \in Nat, r \in Nat, z \in Nat : l = Len(b) /\ r = Len(line) /\ z = l + r + 1
  OBVIOUS
<1>6. c \in Seq(Tokens) /\ Len(c) = z /\ DOMAIN c = 1..z /\ DOMAIN b = 1..l
  BY <1>2, <1>3, <1>4, <1>5
<1>7. \A i \in 1..l : c[i] = b[i]
  BY <1>3, <1>4, <1>5
<1>8. c[z] = x
  <2>1. r + 1 \in 1..Len(u) /\ z = l + (r + 1)
    BY <1>2, <1>5
  <2> QED BY <1>2, <1>3, <1>4, <1>5, <2>1
<1>9. \A i \in 1..r : c[l + i] = line[i]
  <2> SUFFICES ASSUME NEW i \in 1..r PROVE c[l + i] = line[i]
    OBVIOUS
  <2>1. i \in 1..Len(u)
    BY <1>2, <1>5
  <2> QED BY <1>2, <1>3, <1>4, <1>5, <2>1
<1>10. \A i \in 1..r : line[i] # x
  <2>1. line \in Seq(Tokens \ {Brace})
    BY DEF NoBrace
  <2>2. PICK T : T = Tokens \ {x}
    OBVIOUS
  <2>3. line \in Seq(T)
    BY <1>0, <2>1, <2>2
  <2>4. \A i \in 1..r : line[i] \in T
    BY <1>5, <2>3
  <2> QED BY <2>2, <2>4
<1>11. Ends(b) = {i \in 1..l : b[i] = x} /\ Ends(c) = {i \in 1..z : c[i] = x}
  BY <1>0, <1>6 DEF Ends
<1>12. Ends(c) = Ends(b) \union {z} /\ z \notin Ends(b) /\ \A i \in Ends(b) : i \in 1..l /\ i < z
  <2>1. ASSUME NEW i \in 1..z, c[i] = x PROVE i = z \/ i \in Ends(b)
    <3>1. CASE i \in 1..l
      BY <1>7, <1>11, <2>1, <3>1
    <3>2. CASE i \in (l + 1)..(l + r)
      <4>1. PICK j \in 1..r : i = l + j
        <5>1. i - l \in 1..r /\ i = l + (i - l)
          BY <3>2
        <5> QED BY <5>1
      <4> QED BY <1>9, <1>10, <2>1, <4>1
    <3>3. i \in 1..l \/ i \in (l + 1)..(l + r) \/ i = z
      BY <1>5
    <3> QED BY <3>1, <3>2, <3>3
  <2>2. z \in 1..z /\ \A i \in 1..l : i \in 1..z /\ i < z
    BY <1>5
  <2>3. Ends(b) \subseteq Ends(c) /\ z \in Ends(c)
    BY <1>7, <1>8, <1>11, <2>2
  <2>4. \A i \in Ends(b) : i \in 1..l /\ i < z
    BY <1>11, <2>2
  <2>5. z \notin Ends(b)
    BY <2>4
  <2>6. Ends(c) \subseteq Ends(b) \union {z}
    BY <1>11, <2>1
  <2> QED BY <2>3, <2>4, <2>5, <2>6
<1>13. PICK k \in Nat : k = Cardinality(Ends(b)) /\ Cardinality(Ends(c)) = k + 1
  <2>1. IsFiniteSet(Ends(b))
    BY EndsFinite
  <2>2. Cardinality(Ends(b)) \in Nat /\ Cardinality(Ends(b) \union {z}) = Cardinality(Ends(b)) + 1
    BY <1>12, <2>1, FS_CardinalityType, FS_AddElement
  <2> QED BY <1>12, <2>2
<1>14. Closed(c)
  BY <1>0, <1>6, <1>8 DEF Closed
<1>15. ASSUME NEW e \in Ends(b) PROVE RowAt(c, e) = RowAt(b, e)
  <2>1. e \in 1..l /\ e < z
    BY <1>12
  <2>2. {i \in Ends(c) : i <= e} = {i \in Ends(b) : i <= e}
    BY <1>12, <2>1
  <2>3. Before(c, e) = Before(b, e)
    BY <1>12, <2>1 DEF Before
  <2>4. PICK m \in Nat : m = Max(Before(b, e)) /\ m < e
    <3>1. IsFiniteSet(Before(b, e)) /\ Before(b, e) \in SUBSET Nat
      BY EndsFinite
    <3>2. Before(b, e) # {}
      BY DEF Before
    <3>3. Max(Before(b, e)) \in Before(b, e)
      BY <3>1, <3>2, MaxNumber
    <3>4. \A i \in Before(b, e) : i < e
      BY <2>1 DEF Before
    <3> QED BY <3>1, <3>3, <3>4
  <2>5. SubSeq(c, m + 1, e) = SubSeq(b, m + 1, e)
    <3>1. m + 1 \in 1..l /\ e \in (m + 1)..l /\ m + 1 \in 1..z /\ e \in (m + 1)..z
      BY <1>5, <2>1, <2>4
    <3>2. PICK v \in Seq(Tokens) :
            v = SubSeq(b, m + 1, e) /\ Len(v) = e - (m + 1) + 1
            /\ \A i \in 1..(e - (m + 1) + 1) : v[i] = b[m + 1 + i - 1]
      <4>1. PICK a0 \in 1..Len(b), b0 \in (m + 1)..Len(b) : a0 = m + 1 /\ b0 = e
        BY <1>5, <3>1
      <4>2. /\ SubSeq(b, a0, b0) \in Seq(Tokens) /\ Len(SubSeq(b, a0, b0)) = b0 - a0 + 1
            /\ \A i \in 1..(b0 - a0 + 1) : SubSeq(b, a0, b0)[i] = b[a0 + i - 1]
        BY <4>1, CutFacts
      <4> QED BY <4>1, <4>2
    <3>3. PICK w \in Seq(Tokens) :
            w = SubSeq(c, m + 1, e) /\ Len(w) = e - (m + 1) + 1
            /\ \A i \in 1..(e - (m + 1) + 1) : w[i] = c[m + 1 + i - 1]
      <4>1. PICK a0 \in 1..Len(c), b0 \in (m + 1)..Len(c) : a0 = m + 1 /\ b0 = e
        BY <1>6, <3>1
      <4>2. /\ SubSeq(c, a0, b0) \in Seq(Tokens) /\ Len(SubSeq(c, a0, b0)) = b0 - a0 + 1
            /\ \A i \in 1..(b0 - a0 + 1) : SubSeq(c, a0, b0)[i] = c[a0 + i - 1]
        <5>1. c \in Seq(Tokens) /\ b0 \in a0..Len(c)
          BY <1>6, <4>1
        <5> QED BY <5>1, CutFacts
      <4> QED BY <4>1, <4>2
    <3>4. ASSUME NEW i \in 1..Len(v) PROVE v[i] = w[i]
      <4>1. m + 1 + i - 1 \in 1..l
        <5>1. PICK n \in Nat : n = Len(v) /\ n = e - (m + 1) + 1
          BY <3>2
        <5>2. i \in 1..n /\ e \in Nat
          BY <2>1, <5>1
        <5> QED BY <2>1, <5>1, <5>2
      <4> QED BY <1>7, <3>2, <3>3, <4>1
    <3>5. v = w
      BY <3>2, <3>3, <3>4, SeqEqual
    <3> QED BY <3>2, <3>3, <3>5
  <2> QED BY <2>2, <2>3, <2>4, <2>5 DEF RowAt
<1>16. RowAt(c, z) = <<k + 1, u>>
  <2>1. {i \in Ends(c) : i <= z} = Ends(c)
    BY <1>12
  <2>2. Before(c, z) = {0} \union Ends(b)
    BY <1>12 DEF Before
  <2>3. Max(Before(c, z)) = l
    <3>1. IsFiniteSet(Before(c, z)) /\ Before(c, z) \in SUBSET Nat
      BY <1>6, EndsFinite
    <3>2. l \in Before(c, z)
      <4>1. CASE b = <<>>
        BY <1>5, <2>2, <4>1
      <4>2. CASE b # <<>>
        <5>1. b[l] = x /\ l \in 1..l
          <6>1. b[Len(b)] = Brace
            BY <4>2 DEF Closed
          <6>2. Len(b) # 0
            BY <4>2
          <6> QED BY <1>0, <1>5, <6>1, <6>2
        <5> QED BY <1>11, <2>2, <5>1
      <4> QED BY <4>1, <4>2
    <3>3. \A i \in Before(c, z) : i <= l
      BY <1>12, <2>2
    <3> QED BY <3>1, <3>2, <3>3, MaxIs
  <2>4. SubSeq(c, l + 1, z) = u
    <3>1. PICK a0 \in 1..Len(c), b0 \in (l + 1)..Len(c) : a0 = l + 1 /\ b0 = z
      <4>1. l + 1 \in 1..z /\ z \in (l + 1)..z
        BY <1>5
      <4> QED BY <1>6, <4>1
    <3>2. /\ SubSeq(c, a0, b0) \in Seq(Tokens) /\ Len(SubSeq(c, a0, b0)) = b0 - a0 + 1
          /\ \A i \in 1..(b0 - a0 + 1) : SubSeq(c, a0, b0)[i] = c[a0 + i - 1]
      <4>1. c \in Seq(Tokens) /\ b0 \in a0..Len(c)
        BY <1>6, <3>1
      <4> QED BY <4>1, CutFacts
    <3>3. PICK v \in Seq(Tokens) : v = SubSeq(c, l + 1, z)
      BY <3>1, <3>2
    <3>4. b0 - a0 + 1 = r + 1 /\ \A i \in 1..(r + 1) : a0 + i - 1 = l + i
      BY <1>5, <3>1
    <3>5. Len(v) = r + 1 /\ \A i \in 1..(r + 1) : v[i] = c[l + i]
      BY <3>1, <3>2, <3>3, <3>4
    <3>6. Len(u) = r + 1 /\ \A i \in 1..(r + 1) : c[l + i] = u[i]
      BY <1>2, <1>3, <1>4, <1>5
    <3>7. Len(v) = Len(u) /\ \A i \in 1..Len(v) : v[i] = u[i]
      BY <3>5, <3>6
    <3>8. v = u
      BY <3>7, SeqEqual
    <3> QED BY <3>3, <3>8
  <2> QED BY <1>13, <2>1, <2>3, <2>4 DEF RowAt
<1>17. RowsOf(c) = RowsOf(b) \union {RowAt(c, z)}
  <2>1. PICK S : S = Ends(b)
    OBVIOUS
  <2>2. RowsOf(c) = {RowAt(c, e) : e \in S \union {z}} /\ RowsOf(b) = {RowAt(b, e) : e \in S}
    BY <1>12, <2>1 DEF RowsOf
  <2>3. \A e \in S : RowAt(c, e) = RowAt(b, e)
    BY <1>15, <2>1
  <2> QED BY ONLY <2>2, <2>3
<1> QED BY <1>0, <1>1, <1>6, <1>13, <1>14, <1>16, <1>17

\* The place of an event among those that were sent.
Rank(S, i) == Cardinality({j \in S : j <= i})

LEMMA RankUnique ==
  ASSUME NEW S \in SUBSET Nat, IsFiniteSet(S), NEW i \in S, NEW k \in S, Rank(S, i) = Rank(S, k)
  PROVE  i = k
<1>1. ASSUME NEW x \in S, NEW y \in S, x < y PROVE Rank(S, x) # Rank(S, y)
  <2>1. PICK A : A = {j \in S : j <= x}
    OBVIOUS
  <2>2. PICK B : B = {j \in S : j <= y}
    OBVIOUS
  <2>3. A \union {y} \subseteq B /\ y \notin A
    <3>1. x \in Nat /\ y \in Nat /\ ~(y <= x)
      BY <1>1
    <3>2. \A j \in S : j \in Nat
      OBVIOUS
    <3>3. \A j \in A : j \in S /\ j <= y
      BY <1>1, <2>1, <3>1, <3>2
    <3>4. y \in B
      BY <2>2, <3>1
    <3>5. y \notin A
      BY <2>1, <3>1
    <3> QED BY <2>2, <3>3, <3>4, <3>5
  <2>4. IsFiniteSet(A) /\ IsFiniteSet(B)
    BY <2>1, <2>2, FS_Subset
  <2>5. Cardinality(A) \in Nat /\ Cardinality(B) \in Nat
    BY <2>4, FS_CardinalityType
  <2>6. Cardinality(A \union {y}) = Cardinality(A) + 1
    BY <2>3, <2>4, FS_AddElement
  <2>7. Cardinality(A \union {y}) <= Cardinality(B)
    BY <2>3, <2>4, FS_Subset
  <2>8. Cardinality(A) # Cardinality(B)
    BY <2>5, <2>6, <2>7
  <2> QED BY <2>1, <2>2, <2>8 DEF Rank
<1>2. i \in Nat /\ k \in Nat
  OBVIOUS
<1>3. ~(i < k) /\ ~(k < i)
  BY <1>1
<1> QED BY <1>2, <1>3

\* The k pieces of the ink b are the rows of the k events of S.
Traced(row, S, k, ev, set) ==
    /\ row[1] \in 1..k
    /\ \E i \in S : Rank(S, i) = row[1] /\ Carries(row[2], ev[i].payload, set)

Holds(b, S, k, ev, set) ==
    /\ b \in Seq(Tokens) /\ Closed(b)
    /\ Cardinality(Ends(b)) = k /\ Cardinality(S) = k
    /\ IsFiniteSet(RowsOf(b)) /\ Cardinality(RowsOf(b)) = k
    /\ \A row \in RowsOf(b) : Traced(row, S, k, ev, set)

LEMMA HoldsGrow ==
  ASSUME NEW b, NEW n \in Nat, NEW S \in SUBSET (1..(n - 1)), NEW k \in Nat, NEW ev, NEW set,
         Holds(b, S, k, ev, set),
         NEW line \in Seq(Tokens), NoBrace(line),
         Carries(Append(line, Brace), ev[n].payload, set),
         NEW c, c = b \o Append(line, Brace)
  PROVE  Holds(c, S \union {n}, k + 1, ev, set)
<1> DEFINE V == S \union {n}
           new == <<k + 1, Append(line, Brace)>>
<1>1. PICK a \in Seq(Tokens) : a = b /\ Closed(a) /\ Cardinality(Ends(a)) = k
  BY DEF Holds
<1>2. /\ c \in Seq(Tokens) /\ Closed(c)
      /\ Cardinality(Ends(c)) = Cardinality(Ends(a)) + 1
      /\ RowsOf(c) = RowsOf(a) \union {<<Cardinality(Ends(a)) + 1, Append(line, Brace)>>}
  <2>1. c = a \o Append(line, Brace)
    BY <1>1
  <2> QED BY <1>1, <2>1, RowsGrow
<1>3. RowsOf(c) = RowsOf(b) \union {new} /\ Cardinality(Ends(c)) = k + 1
  BY <1>1, <1>2
<1>4. IsFiniteSet(S) /\ IsFiniteSet(V) /\ Cardinality(V) = k + 1 /\ n \notin S
  <2>1. n \notin S
    OBVIOUS
  <2>2. IsFiniteSet(S)
    <3>1. CASE n = 0
      <4>1. S = {}
        BY <3>1
      <4> QED BY <4>1, FS_EmptySet
    <3>2. CASE n # 0
      <4>1. PICK m \in Nat : m = n - 1
        BY <3>2
      <4>2. IsFiniteSet(1..m)
        BY FS_Interval
      <4> QED BY <4>1, <4>2, FS_Subset
    <3> QED BY <3>1, <3>2
  <2>3. IsFiniteSet(V) /\ Cardinality(V) = Cardinality(S) + 1
    BY <2>1, <2>2, FS_AddElement
  <2>4. Cardinality(S) = k
    BY DEF Holds
  <2> QED BY <2>1, <2>2, <2>3, <2>4
<1>5. \A i \in S : Rank(V, i) = Rank(S, i)
  <2> SUFFICES ASSUME NEW i \in S PROVE Rank(V, i) = Rank(S, i)
    OBVIOUS
  <2>1. i < n /\ i \in Nat
    OBVIOUS
  <2>2. {j \in V : j <= i} = {j \in S : j <= i}
    BY <2>1
  <2> QED BY <2>2 DEF Rank
<1>6. Rank(V, n) = k + 1
  <2>1. \A i \in S : i <= n
    OBVIOUS
  <2>2. {j \in V : j <= n} = V
    <3>1. \A j \in V : j <= n
      BY <2>1
    <3> QED BY <3>1
  <2> QED BY <1>4, <2>2 DEF Rank
<1>7. new \notin RowsOf(b)
  <2>1. \A row \in RowsOf(b) : row[1] \in 1..k
    BY DEF Holds, Traced
  <2>2. new[1] = k + 1
    OBVIOUS
  <2>3. k + 1 \notin 1..k
    OBVIOUS
  <2> QED BY <2>1, <2>2, <2>3
<1>8. IsFiniteSet(RowsOf(c)) /\ Cardinality(RowsOf(c)) = k + 1
  <2>1. IsFiniteSet(RowsOf(b)) /\ Cardinality(RowsOf(b)) = k
    BY DEF Holds
  <2> HIDE DEF new
  <2>2. /\ IsFiniteSet(RowsOf(b) \union {new})
        /\ Cardinality(RowsOf(b) \union {new}) = Cardinality(RowsOf(b)) + 1
    BY <1>7, <2>1, FS_AddElement
  <2> QED BY <1>3, <2>1, <2>2
<1>9. ASSUME NEW row \in RowsOf(c) PROVE Traced(row, V, k + 1, ev, set)
  <2>1. CASE row \in RowsOf(b)
    <3>1. Traced(row, S, k, ev, set)
      BY <2>1 DEF Holds
    <3>2. row[1] \in 1..(k + 1)
      <4>1. row[1] \in 1..k
        BY <3>1 DEF Traced
      <4> QED BY <4>1
    <3>3. PICK i \in S : Rank(S, i) = row[1] /\ Carries(row[2], ev[i].payload, set)
      BY <3>1 DEF Traced
    <3>4. i \in V /\ Rank(V, i) = row[1]
      BY <1>5, <3>3
    <3> QED BY <3>2, <3>3, <3>4 DEF Traced
  <2>2. CASE row = new
    <3>1. row[1] = k + 1 /\ row[2] = Append(line, Brace)
      BY <2>2
    <3>2. k + 1 \in 1..(k + 1) /\ n \in V
      OBVIOUS
    <3> QED BY <1>6, <3>1, <3>2 DEF Traced
  <2> HIDE DEF new
  <2> QED BY <1>3, <2>1, <2>2
<1> HIDE DEF V
<1>10. Holds(c, V, k + 1, ev, set)
  BY <1>2, <1>3, <1>4, <1>8, <1>9 DEF Holds
<1> QED BY <1>10 DEF V

----------------------------------------------------------------------------
(* The rows in the buffer of a write *)

AllSentAreObjects == \A i \in Sent : IsObject(events[i].payload)

\* The buffer holds a row for each event that was sent, if they are all objects.
BufferInv ==
    schema = "json" =>
      /\ buffer \in Seq(Tokens)
      /\ AllSentAreObjects => Holds(Ink(buffer), Sent, outcome.written, events, metadata)

LEMMA BufferStarts == Init => BufferInv
<1> SUFFICES ASSUME Init
             PROVE  /\ buffer \in Seq(Tokens)
                    /\ Holds(Ink(buffer), Sent, outcome.written, events, metadata)
  BY DEF BufferInv
<1>1. buffer = <<>> /\ outcome.written = 0
  BY DEF Init
<1>2. Sent = {}
  <2>1. 1..(next - 1) = {}
    BY DEF Init
  <2> QED BY <2>1 DEF Sent
<1>3. Ends(<<>>) = {} /\ RowsOf(<<>>) = {}
  BY DEF Ends, RowsOf
<1>4. <<>> \in Seq(Tokens) /\ Closed(<<>>)
  BY DEF Closed
<1>5. Ink(<<>>) = <<>>
  BY WithoutEmpty DEF Ink
<1> QED BY <1>1, <1>2, <1>3, <1>4, <1>5, FS_EmptySet DEF Holds

LEMMA RowBuffered ==
  ASSUME SinkInv, BufferInv, JsonRowWritten
  PROVE  BufferInv'
<1>1. /\ schema = "json" /\ next <= Len(events) /\ Rejection(Offered.payload) = "none"
      /\ buffer' = buffer \o write_row(Offered.payload, metadata)
      /\ outcome' = [outcome EXCEPT !.written = @ + 1] /\ next' = next + 1
      /\ UNCHANGED config
  BY DEF JsonRowWritten
<1>2. next \in 1..Len(events) /\ next \in Nat
  <2>1. next \in 1..(Len(events) + 1) /\ Len(events) \in Nat
    BY DEF SinkInv, SinkType
  <2> QED BY <1>1, <2>1
<1>3. PICK p \in Seq(Tokens) : p = events[next].payload /\ p = Offered.payload
  BY <1>2, PayloadOf DEF Offered
<1>4. PICK row \in Seq(Tokens) : row = write_row(p, metadata)
  BY <1>1, <1>3, RowWritten
<1>5. PICK b \in Seq(Tokens) : b = buffer
  BY <1>1 DEF BufferInv
<1>6. buffer' \in Seq(Tokens) /\ Ink(buffer') = Ink(b) \o Ink(row)
  BY <1>1, <1>3, <1>4, <1>5, InkConcat
<1>7. Sent' = Sent \union {next} /\ events' = events /\ metadata' = metadata
  BY <1>1, OneMore DEF config
<1>8. PICK k \in Nat : k = outcome.written /\ outcome'.written = k + 1
  BY <1>1 DEF SinkInv, SinkType
<1>9. ASSUME AllSentAreObjects'
      PROVE  Holds(Ink(buffer'), Sent \union {next}, k + 1, events, metadata)
  <2>1. AllSentAreObjects /\ IsObject(p)
    BY <1>3, <1>7, <1>9 DEF AllSentAreObjects
  <2>2. Holds(Ink(b), Sent, k, events, metadata)
    BY <1>1, <1>5, <1>8, <2>1 DEF BufferInv
  <2>3. PICK line \in Seq(Tokens) :
          /\ NoBrace(line) /\ Ink(row) = Append(line, Brace)
          /\ Carries(Append(line, Brace), p, metadata)
    BY <1>1, <1>3, <1>4, <2>1, RowWritten
  <2>4. Sent \in SUBSET (1..(next - 1))
    BY DEF Sent
  <2>5. PICK ink, longer : ink = Ink(b) /\ longer = Ink(buffer')
    OBVIOUS
  <2>6. longer = ink \o Append(line, Brace)
    BY <1>6, <2>3, <2>5
  <2>7. Holds(longer, Sent \union {next}, k + 1, events, metadata)
    BY <1>2, <1>3, <2>2, <2>3, <2>4, <2>5, <2>6, HoldsGrow
  <2> QED BY <2>5, <2>7
<1> QED BY <1>6, <1>7, <1>8, <1>9 DEF BufferInv

LEMMA BufferSteps == SinkInv /\ BufferInv /\ [Next]_vars => BufferInv'
<1> SUFFICES ASSUME SinkInv, BufferInv, [Next]_vars PROVE BufferInv'
  OBVIOUS
<1>1. ASSUME UNCHANGED <<config, next, buffer, outcome>> PROVE BufferInv'
  <2>1. Sent' = Sent /\ events' = events /\ schema' = schema /\ metadata' = metadata
    BY <1>1, NoMore DEF config
  <2> QED BY <1>1, <2>1 DEF BufferInv, AllSentAreObjects
<1>2. CASE JsonRowWritten
  BY <1>2, RowBuffered
<1>3. CASE JsonRowDropped
  <2>1. /\ UNCHANGED <<config, buffer>> /\ next' = next + 1 /\ next <= Len(events)
        /\ schema = "json" /\ Rejection(Offered.payload) # "none"
        /\ outcome' = CountDropped(outcome)
    BY <1>3 DEF JsonRowDropped
  <2>2. Sent' = Sent
    BY <2>1, OneMore
  <2>3. outcome'.written = outcome.written
    BY <2>1 DEF CountDropped, SinkInv, SinkType
  <2>4. events' = events /\ schema' = schema /\ metadata' = metadata /\ buffer' = buffer
    BY <2>1 DEF config
  <2> QED BY <2>2, <2>3, <2>4 DEF BufferInv, AllSentAreObjects
<1>4. CASE WriteEventRow
  BY <1>4 DEF WriteEventRow, config, BufferInv
<1>5. CASE OpenInsert
  BY <1>1, <1>5 DEF OpenInsert
<1>6. CASE ReturnEarly
  BY <1>1, <1>6 DEF ReturnEarly
<1>7. CASE RowsDone
  BY <1>1, <1>7 DEF RowsDone
<1>8. CASE InsertEnds
  BY <1>1, <1>8 DEF InsertEnds
<1>9. CASE InsertFails
  BY <1>1, <1>9 DEF InsertFails
<1>10. CASE UNCHANGED vars
  BY <1>1, <1>10 DEF vars
<1> QED BY <1>2, <1>3, <1>4, <1>5, <1>6, <1>7, <1>8, <1>9, <1>10 DEF Next

\* What write_json_rows has written, for any events: as long as it was given
\* objects, what a reader finds in the buffer is as many pieces as events were
\* sent, whatever newlines they hold, and the n-th is the row of the n-th of them.
THEOREM BufferInvariant == Spec => []BufferInv
<1>1. Init => BufferInv
  BY BufferStarts
<1> QED BY <1>1, BufferSteps, SinkInvariant, PTL DEF Spec

\* For any events, symbols and metadata columns: as long as the payloads sent are
\* objects, write_row makes one row for each that is counted as written, an object
\* with the configured columns in front of the payload's own members.
THEOREM RowsAlwaysStandAlone == Spec => []RowsStandAlone
<1>1. ASSUME SinkInv, BufferInv PROVE RowsStandAlone
  <2> SUFFICES ASSUME schema = "json", AllSentAreObjects
               PROVE  /\ Cardinality(Rows) = outcome.written
                      /\ \A row \in Rows : Carries(row[2], events[Source(row[1])].payload, metadata)
    BY DEF RowsStandAlone, AllSentAreObjects, Carries
  <2>1. Holds(Ink(buffer), Sent, outcome.written, events, metadata)
    BY <1>1 DEF BufferInv
  <2>2. Cardinality(Rows) = outcome.written
    BY <2>1, RowsAre DEF Holds
  <2>3. Sent \in SUBSET Nat /\ IsFiniteSet(Sent)
    <3>1. PICK n \in Nat : n = next - 1
      BY <1>1 DEF SinkInv, SinkType
    <3>2. Sent \subseteq 1..n
      BY <3>1 DEF Sent
    <3>3. IsFiniteSet(1..n)
      BY FS_Interval
    <3>4. IsFiniteSet(Sent)
      BY <3>2, <3>3, FS_Subset
    <3>5. Sent \in SUBSET Nat
      BY <3>2
    <3> QED BY <3>4, <3>5
  <2>4. ASSUME NEW row \in Rows
        PROVE  Carries(row[2], events[Source(row[1])].payload, metadata)
    <3>1. PICK i \in Sent : Rank(Sent, i) = row[1] /\ Carries(row[2], events[i].payload, metadata)
      BY <2>1, RowsAre DEF Holds, Traced
    <3>2. PICK s : s = Source(row[1])
      OBVIOUS
    <3>3. s \in Sent /\ Rank(Sent, s) = row[1]
      BY <3>1, <3>2 DEF Source, Rank
    <3>4. s = i
      BY <2>3, <3>1, <3>3, RankUnique
    <3> QED BY <3>1, <3>2, <3>4
  <2> QED BY <2>2, <2>4
<1> QED BY <1>1, SinkInvariant, BufferInvariant, PTL

=============================================================================
