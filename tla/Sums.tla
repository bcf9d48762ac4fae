-------------------------------- MODULE Sums --------------------------------
(***************************************************************************)
(* What the proofs need of SumFunction, the sum of the values of a         *)
(* function of finite domain (module Functions): its type, and how it      *)
(* changes when the domain grows by one element.                           *)
(*                                                                         *)
(* The induction theorems of the library take the property as an operator, *)
(* which the provers cannot instantiate.  Here an inductive argument is    *)
(* about the set of numbers that have the property, and rests on the least *)
(* element of its complement.                                              *)
(***************************************************************************)
EXTENDS Integers, FiniteSets, Functions, FiniteSetTheorems, WellFoundedInduction, TLAPS

----------------------------------------------------------------------------
(* Induction on sets of numbers *)

\* A nonempty set of naturals has a least element.
LEMMA LeastNumber ==
  ASSUME NEW T \in SUBSET Nat, T # {}
  PROVE  \E m \in T : \A n \in T : m <= n
<1> DEFINE R == {p \in Nat \X Nat : p[1] < p[2]}
<1>1. IsWellFoundedOn(R, Nat)
  BY NatLessThanWellFounded DEF OpToRel
<1>2. PICK m \in T : \A n \in T : ~(<<n, m>> \in R)
  <2> HIDE DEF R
  <2> QED BY <1>1, WFMin
<1>3. \A n \in T : ~(n < m)
  BY <1>2
<1> QED BY <1>3

\* A set of naturals with 0 and closed under successor is Nat.
LEMMA SetInduction ==
  ASSUME NEW T \in SUBSET Nat, 0 \in T, \A n \in Nat : n \in T => n + 1 \in T
  PROVE  T = Nat
<1> SUFFICES ASSUME T # Nat PROVE FALSE
  OBVIOUS
<1>1. PICK m \in Nat \ T : \A n \in Nat \ T : m <= n
  BY LeastNumber
<1>2. m # 0 /\ m - 1 \in Nat
  BY <1>1
<1>3. m - 1 \in T
  BY <1>1, <1>2
<1> QED BY <1>1, <1>2, <1>3
----------------------------------------------------------------------------
(* The fold *)

\* What MapThenFoldSet picks next, and what it leaves.
Pick(s) == CHOOSE x \in s : TRUE
Rest(s) == s \ {Pick(s)}

LEMMA PickFacts ==
  ASSUME NEW s, IsFiniteSet(s), s # {}
  PROVE  /\ Pick(s) \in s /\ Rest(s) \subseteq s /\ IsFiniteSet(Rest(s))
         /\ Cardinality(s) \in Nat /\ Cardinality(Rest(s)) = Cardinality(s) - 1
         /\ Cardinality(s) # 0
<1>1. Pick(s) \in s
  BY DEF Pick
<1> QED BY <1>1, FS_RemoveElement, FS_CardinalityType, FS_EmptySet DEF Rest

\* g is the recursive function MapThenFoldSet defines, on the sets in D.
Folds(g, f, D) == g = [s \in D |-> IF s = {} THEN 0 ELSE f[Pick(s)] + g[Rest(s)]]

Upto(S, n) == {s \in SUBSET S : Cardinality(s) <= n}

\* Such a function exists on the subsets of a finite set.
LEMMA FoldExists ==
  ASSUME NEW f, NEW S, IsFiniteSet(S)
  PROVE  \E g : Folds(g, f, SUBSET S)
<1> DEFINE T == {n \in Nat : \E g : Folds(g, f, Upto(S, n))}
<1>0. \A s \in SUBSET S : IsFiniteSet(s) /\ Cardinality(s) \in Nat /\ Cardinality(s) <= Cardinality(S)
  BY FS_Subset, FS_CardinalityType
<1>1. 0 \in T
  <2> DEFINE g == [s \in Upto(S, 0) |-> 0]
  <2>1. \A s \in Upto(S, 0) : s = {}
    BY <1>0, FS_EmptySet DEF Upto
  <2>2. Folds(g, f, Upto(S, 0))
    BY <2>1 DEF Folds
  <2> HIDE DEF g
  <2> QED BY <2>2
<1>2. ASSUME NEW n \in Nat, n \in T PROVE n + 1 \in T
  <2>1. PICK g : Folds(g, f, Upto(S, n))
    BY <1>2
  <2> DEFINE h == [s \in Upto(S, n + 1) |-> IF s \in Upto(S, n) THEN g[s]
                                            ELSE f[Pick(s)] + g[Rest(s)]]
  <2>2. ASSUME NEW s \in Upto(S, n + 1), s # {} 
        PROVE Rest(s) \in Upto(S, n) /\ h[Rest(s)] = g[Rest(s)]
    <3>1. s \in SUBSET S /\ Cardinality(s) <= n + 1 /\ IsFiniteSet(s)
      BY <1>0 DEF Upto
    <3>2. Rest(s) \in SUBSET S /\ Cardinality(Rest(s)) = Cardinality(s) - 1 /\ Cardinality(s) \in Nat
      BY <2>2, <3>1, PickFacts
    <3>3. Rest(s) \in Upto(S, n) /\ Rest(s) \in Upto(S, n + 1)
      BY <3>1, <3>2 DEF Upto
    <3> QED BY <3>3
  <2>3. {} \in Upto(S, n) /\ Upto(S, n) \subseteq Upto(S, n + 1)
    <3>1. Cardinality({}) = 0 
      BY FS_EmptySet
    <3> QED BY <1>0, <3>1 DEF Upto
  <2>4. \A s \in Upto(S, n) : g[s] = IF s = {} THEN 0 ELSE f[Pick(s)] + g[Rest(s)]
    BY <2>1 DEF Folds
  <2>5. ASSUME NEW s \in Upto(S, n + 1) 
        PROVE h[s] = IF s = {} THEN 0 ELSE f[Pick(s)] + h[Rest(s)]
    BY <2>2, <2>3, <2>4
  <2>6. Folds(h, f, Upto(S, n + 1))
    <3>1. h = [s \in Upto(S, n + 1) |-> h[s]]
      OBVIOUS
    <3> HIDE DEF h
    <3> QED BY <2>5, <3>1 DEF Folds
  <2> HIDE DEF h
  <2> QED BY <2>6
<1>3. T = Nat
  <2> HIDE DEF T
  <2>1. T \in SUBSET Nat
    BY DEF T
  <2> QED BY <1>1, <1>2, <2>1, SetInduction
<1>4. Cardinality(S) \in T
  BY <1>0, <1>3
<1>5. Upto(S, Cardinality(S)) = SUBSET S
  BY <1>0 DEF Upto
<1> QED BY <1>4, <1>5

\* SumFunctionOnSet is its value.
LEMMA SumUnfold ==
  ASSUME NEW f, NEW S, IsFiniteSet(S)
  PROVE  \E g : Folds(g, f, SUBSET S) /\ SumFunctionOnSet(f, S) = g[S]
<1> DEFINE g == CHOOSE h : h = [s \in SUBSET S |-> IF s = {} THEN 0 ELSE f[Pick(s)] + h[Rest(s)]]
<1>1. Folds(g, f, SUBSET S)
  <2>1. \E h : h = [s \in SUBSET S |-> IF s = {} THEN 0 ELSE f[Pick(s)] + h[Rest(s)]]
    <3>1. \E h : Folds(h, f, SUBSET S)
      BY FoldExists
    <3> QED BY <3>1 DEF Folds
  <2> QED BY <2>1 DEF Folds
<1>2. SumFunctionOnSet(f, S) = g[S]
  BY DEF SumFunctionOnSet, FoldFunctionOnSet, MapThenFoldSet, Pick, Rest
<1> HIDE DEF g
<1> QED BY <1>1, <1>2

\* Two folds agree where both are defined, if what they add agrees.
LEMMA FoldUnique ==
  ASSUME NEW f, NEW e, NEW S, NEW T \in SUBSET S, NEW g, NEW h, IsFiniteSet(S),
         Folds(g, f, SUBSET S), Folds(h, e, SUBSET T), \A x \in T : f[x] = e[x]
  PROVE  g[T] = h[T]
<1> DEFINE P == {n \in Nat : \A t \in SUBSET T : Cardinality(t) = n => g[t] = h[t]}
<1>0. \A t \in SUBSET T : IsFiniteSet(t) /\ Cardinality(t) \in Nat
  BY FS_Subset, FS_CardinalityType
<1>1. /\ \A t \in SUBSET T : g[t] = IF t = {} THEN 0 ELSE f[Pick(t)] + g[Rest(t)]
      /\ \A t \in SUBSET T : h[t] = IF t = {} THEN 0 ELSE e[Pick(t)] + h[Rest(t)]
  <2>1. SUBSET T \subseteq SUBSET S
    OBVIOUS
  <2> QED BY <2>1 DEF Folds
<1>2. 0 \in P
  BY <1>0, <1>1, FS_EmptySet
<1>3. ASSUME NEW n \in Nat, n \in P PROVE n + 1 \in P
  <2> SUFFICES ASSUME NEW t \in SUBSET T, Cardinality(t) = n + 1 PROVE g[t] = h[t]
    OBVIOUS
  <2>1. t # {} /\ IsFiniteSet(t)
    BY <1>0, FS_EmptySet
  <2>2. Pick(t) \in t /\ Rest(t) \subseteq t /\ Cardinality(Rest(t)) = n
    BY <2>1, PickFacts
  <2>3. g[Rest(t)] = h[Rest(t)] /\ f[Pick(t)] = e[Pick(t)]
    BY <1>3, <2>2
  <2> QED BY <1>1, <2>1, <2>3
<1>4. P = Nat
  <2> HIDE DEF P
  <2>1. P \in SUBSET Nat
    BY DEF P
  <2> QED BY <1>2, <1>3, <2>1, SetInduction
<1> QED BY <1>0, <1>4

\* A fold of naturals is a natural.
LEMMA FoldType ==
  ASSUME NEW f, NEW S, NEW g, IsFiniteSet(S), Folds(g, f, SUBSET S),
         \A x \in S : f[x] \in Nat
  PROVE  \A s \in SUBSET S : g[s] \in Nat
<1> DEFINE P == {n \in Nat : \A s \in SUBSET S : Cardinality(s) = n => g[s] \in Nat}
<1>0. \A s \in SUBSET S : IsFiniteSet(s) /\ Cardinality(s) \in Nat
  BY FS_Subset, FS_CardinalityType
<1>1. \A s \in SUBSET S : g[s] = IF s = {} THEN 0 ELSE f[Pick(s)] + g[Rest(s)]
  BY DEF Folds
<1>2. 0 \in P
  BY <1>0, <1>1, FS_EmptySet
<1>3. ASSUME NEW n \in Nat, n \in P PROVE n + 1 \in P
  <2> SUFFICES ASSUME NEW s \in SUBSET S, Cardinality(s) = n + 1 PROVE g[s] \in Nat
    OBVIOUS
  <2>1. s # {} /\ IsFiniteSet(s)
    BY <1>0, FS_EmptySet
  <2>2. Pick(s) \in s /\ Rest(s) \subseteq s /\ Cardinality(Rest(s)) = n
    BY <2>1, PickFacts
  <2>3. g[Rest(s)] \in Nat /\ f[Pick(s)] \in Nat
    BY <1>3, <2>2
  <2> QED BY <1>1, <2>1, <2>3
<1>4. P = Nat
  <2> HIDE DEF P
  <2>1. P \in SUBSET Nat
    BY DEF P
  <2> QED BY <1>2, <1>3, <2>1, SetInduction
<1> QED BY <1>0, <1>4

\* The sum does not depend on the order of the picks.
LEMMA FoldRemoves ==
  ASSUME NEW f, NEW S, NEW g, IsFiniteSet(S), Folds(g, f, SUBSET S),
         \A y \in S : f[y] \in Nat, NEW s \in SUBSET S, NEW x \in s
  PROVE  g[s] = f[x] + g[s \ {x}]
<1> DEFINE Good(t) == \A y \in t : g[t] = f[y] + g[t \ {y}]
           P == {n \in Nat : \A t \in SUBSET S : Cardinality(t) = n => Good(t)}
<1>0. \A t \in SUBSET S : IsFiniteSet(t) /\ Cardinality(t) \in Nat /\ g[t] \in Nat
  BY FS_Subset, FS_CardinalityType, FoldType
<1>1. \A t \in SUBSET S : g[t] = IF t = {} THEN 0 ELSE f[Pick(t)] + g[Rest(t)]
  BY DEF Folds
<1>2. 0 \in P
  BY <1>0, FS_EmptySet
<1>3. ASSUME NEW n \in Nat, n \in P PROVE n + 1 \in P
  <2> SUFFICES ASSUME NEW t \in SUBSET S, Cardinality(t) = n + 1, NEW y \in t
               PROVE  g[t] = f[y] + g[t \ {y}]
    OBVIOUS
  <2> DEFINE p == Pick(t)
             r == Rest(t) \ {y}
  <2>1. t # {} /\ IsFiniteSet(t)
    BY <1>0, FS_EmptySet
  <2>2. p \in t /\ Rest(t) \subseteq t /\ Cardinality(Rest(t)) = n
    BY <2>1, PickFacts
  <2>3. g[t] = f[p] + g[Rest(t)]
    BY <1>1, <2>1
  <2>4. CASE y = p
    BY <2>3, <2>4 DEF Rest
  <2>5. CASE y # p
    <3>1. Cardinality(t \ {y}) = n
      <4>1. Cardinality(t \ {y}) = Cardinality(t) - 1
        BY <2>1, FS_RemoveElement
      <4> QED BY <4>1
    <3>2. Good(t \ {y}) /\ Good(Rest(t))
      BY <1>3, <2>2, <3>1
    <3>3. p \in t \ {y} /\ y \in Rest(t) /\ (t \ {y}) \ {p} = r
      BY <2>2, <2>5 DEF Rest
    <3>4. g[t \ {y}] = f[p] + g[r] /\ g[Rest(t)] = f[y] + g[r]
      BY <3>2, <3>3
    <3>5. g[r] \in Nat /\ f[p] \in Nat /\ f[y] \in Nat
      BY <1>0, <2>2
    <3> QED BY <2>3, <3>4, <3>5
  <2> QED BY <2>4, <2>5
<1>4. P = Nat
  <2> HIDE DEF P
  <2>1. P \in SUBSET Nat
    BY DEF P
  <2> QED BY <1>2, <1>3, <2>1, SetInduction
<1> QED BY <1>0, <1>4

----------------------------------------------------------------------------
(* Sums *)

\* Sums over a set of indices.
LEMMA SumEmpty == ASSUME NEW f PROVE SumFunctionOnSet(f, {}) = 0
<1>1. IsFiniteSet({})
  BY FS_EmptySet
<1>2. PICK g : Folds(g, f, SUBSET {}) /\ SumFunctionOnSet(f, {}) = g[{}]
  BY <1>1, SumUnfold
<1> QED BY <1>2 DEF Folds

LEMMA SumType ==
  ASSUME NEW f, NEW S, IsFiniteSet(S), \A x \in S : f[x] \in Nat
  PROVE  SumFunctionOnSet(f, S) \in Nat
<1>1. PICK g : Folds(g, f, SUBSET S) /\ SumFunctionOnSet(f, S) = g[S]
  BY SumUnfold
<1>2. \A s \in SUBSET S : g[s] \in Nat
  BY <1>1, FoldType
<1> QED BY <1>1, <1>2

LEMMA SumAgree ==
  ASSUME NEW f, NEW e, NEW S, IsFiniteSet(S), \A x \in S : f[x] = e[x]
  PROVE  SumFunctionOnSet(f, S) = SumFunctionOnSet(e, S)
<1>1. PICK g : Folds(g, f, SUBSET S) /\ SumFunctionOnSet(f, S) = g[S]
  BY SumUnfold
<1>2. PICK h : Folds(h, e, SUBSET S) /\ SumFunctionOnSet(e, S) = h[S]
  BY SumUnfold
<1>3. g[S] = h[S]
  BY <1>1, <1>2, FoldUnique
<1> QED BY <1>1, <1>2, <1>3

LEMMA SumRemove ==
  ASSUME NEW f, NEW S, IsFiniteSet(S), \A x \in S : f[x] \in Nat
  PROVE  \A x \in S : SumFunctionOnSet(f, S) = f[x] + SumFunctionOnSet(f, S \ {x})
<1>1. PICK g : Folds(g, f, SUBSET S) /\ SumFunctionOnSet(f, S) = g[S]
  BY SumUnfold
<1>2. \A s \in SUBSET S : \A x \in s : g[s] = f[x] + g[s \ {x}]
  <2> SUFFICES ASSUME NEW s \in SUBSET S, NEW x \in s PROVE g[s] = f[x] + g[s \ {x}]
    OBVIOUS
  <2> QED BY <1>1, FoldRemoves
<1>3. ASSUME NEW T \in SUBSET S PROVE g[T] = SumFunctionOnSet(f, T)
  <2>1. IsFiniteSet(T)
    BY FS_Subset
  <2>2. PICK h : Folds(h, f, SUBSET T) /\ SumFunctionOnSet(f, T) = h[T]
    BY <2>1, SumUnfold
  <2>3. g[T] = h[T]
    BY <1>1, <2>2, FoldUnique
  <2> QED BY <2>2, <2>3
<1> QED BY <1>1, <1>2, <1>3

\* One more element.
LEMMA SumInsert ==
  ASSUME NEW f, NEW S, IsFiniteSet(S), NEW x, x \notin S, \A y \in S \union {x} : f[y] \in Nat
  PROVE  SumFunctionOnSet(f, S \union {x}) = f[x] + SumFunctionOnSet(f, S)
<1> DEFINE T == S \union {x}
<1>1. IsFiniteSet(T) /\ T \ {x} = S /\ x \in T
  BY FS_AddElement
<1>2. \A y \in T : f[y] \in Nat
  OBVIOUS
<1> HIDE DEF T
<1>3. SumFunctionOnSet(f, T) = f[x] + SumFunctionOnSet(f, T \ {x})
  BY <1>1, <1>2, SumRemove
<1> QED BY <1>1, <1>3 DEF T

\* What is in two sets is counted at most twice.
LEMMA SumUnion ==
  ASSUME NEW f, NEW S, NEW U, IsFiniteSet(S), IsFiniteSet(U), \A x \in S \union U : f[x] \in Nat
  PROVE  SumFunctionOnSet(f, S \union U) <= SumFunctionOnSet(f, S) + SumFunctionOnSet(f, U)
<1> DEFINE Good(t) == SumFunctionOnSet(f, t \union U)
                        <= SumFunctionOnSet(f, t) + SumFunctionOnSet(f, U)
           P == {n \in Nat : \A t \in SUBSET S : Cardinality(t) = n => Good(t)}
<1>0. \A t \in SUBSET S : IsFiniteSet(t) /\ Cardinality(t) \in Nat
  BY FS_Subset, FS_CardinalityType
<1>1. SumFunctionOnSet(f, U) \in Nat
  BY SumType
<1>2. 0 \in P
  <2>1. ASSUME NEW t \in SUBSET S, Cardinality(t) = 0 PROVE Good(t)
    <3>1. t = {} /\ t \union U = U
      BY <1>0, <2>1, FS_EmptySet
    <3>2. SumFunctionOnSet(f, {}) = 0
      BY SumEmpty
    <3> QED BY <1>1, <3>1, <3>2
  <2> QED BY <2>1
<1>3. ASSUME NEW n \in Nat, n \in P PROVE n + 1 \in P
  <2> SUFFICES ASSUME NEW t \in SUBSET S, Cardinality(t) = n + 1 PROVE Good(t)
    OBVIOUS
  <2>1. t # {} /\ IsFiniteSet(t)
    BY <1>0, FS_EmptySet
  <2>2. PICK x \in t : TRUE
    BY <2>1
  <2>3. PICK r : r = t \ {x}
    OBVIOUS
  <2>4. r \in SUBSET S /\ Cardinality(r) = n /\ IsFiniteSet(r) /\ x \notin r /\ t = r \union {x}
    <3>1. Cardinality(t \ {x}) = Cardinality(t) - 1
      BY <2>1, FS_RemoveElement
    <3> QED BY <1>0, <2>3, <3>1
  <2>5. SumFunctionOnSet(f, r \union U) <= SumFunctionOnSet(f, r) + SumFunctionOnSet(f, U)
    BY <1>3, <2>4
  <2>6. SumFunctionOnSet(f, t) = f[x] + SumFunctionOnSet(f, r)
    BY <2>4, SumInsert
  <2>7. IsFiniteSet(r \union U) /\ f[x] \in Nat
    BY <2>4, FS_Union
  <2>8. /\ SumFunctionOnSet(f, r) \in Nat /\ SumFunctionOnSet(f, r \union U) \in Nat
    BY <2>4, <2>7, SumType
  <2> DEFINE wt == SumFunctionOnSet(f, t \union U)
             wr == SumFunctionOnSet(f, r \union U)
             st == SumFunctionOnSet(f, t)
             sr == SumFunctionOnSet(f, r)
             su == SumFunctionOnSet(f, U)
  <2>0. wr <= sr + su /\ st = f[x] + sr /\ {wr, sr, su, f[x]} \subseteq Nat
    BY <1>1, <2>5, <2>6, <2>7, <2>8
  <2>9. CASE x \in U
    <3>1. t \union U = r \union U
      BY <2>4, <2>9
    <3>2. wt = wr
      BY <3>1
    <3> HIDE DEF wt, wr, st, sr, su
    <3>3. wt <= st + su
      BY <2>0, <3>2
    <3> QED BY <3>3 DEF wt, st, su
  <2>10. CASE x \notin U
    <3>1. t \union U = (r \union U) \union {x} /\ x \notin r \union U
      BY <2>4, <2>10
    <3>2. SumFunctionOnSet(f, (r \union U) \union {x}) = f[x] + SumFunctionOnSet(f, r \union U)
      BY <2>4, <2>7, <3>1, SumInsert
    <3>3. wt = f[x] + wr
      BY <3>1, <3>2
    <3> HIDE DEF wt, wr, st, sr, su
    <3>4. wt <= st + su
      BY <2>0, <3>3
    <3> QED BY <3>4 DEF wt, st, su
  <2> QED BY <2>9, <2>10
<1>4. P = Nat
  <2> HIDE DEF P
  <2>1. P \in SUBSET Nat
    BY DEF P
  <2> QED BY <1>2, <1>3, <2>1, SetInduction
<1>5. Good(S)
  BY <1>0, <1>4
<1> QED BY <1>5

\* A family of sets C[b] within D, each with a sum within k and twice y[b].
Family(f, D, B, C, y, k) ==
    /\ IsFiniteSet(D) /\ \A x \in D : f[x] \in Nat
    /\ IsFiniteSet(B) /\ \A b \in B : C[b] \in SUBSET D
    /\ k \in Nat /\ \A b \in B : y[b] \in Nat
    /\ \A b \in B : SumFunctionOnSet(f, C[b]) <= k + 2 * y[b]

LEMMA SumFamily ==
  ASSUME NEW f, NEW D, NEW B, NEW C, NEW y, NEW k, Family(f, D, B, C, y, k)
  PROVE  SumFunctionOnSet(f, UNION {C[b] : b \in B})
           <= k * Cardinality(B) + 2 * SumFunctionOnSet(y, B)
<1> USE DEF Family
<1> DEFINE All(t) == UNION {C[b] : b \in t}
           Good(t) == SumFunctionOnSet(f, All(t))
                        <= k * Cardinality(t) + 2 * SumFunctionOnSet(y, t)
           P == {n \in Nat : \A t \in SUBSET B : Cardinality(t) = n => Good(t)}
<1>0. \A t \in SUBSET B : IsFiniteSet(t) /\ Cardinality(t) \in Nat
  BY FS_Subset, FS_CardinalityType
<1>1. ASSUME NEW d \in SUBSET D
      PROVE  IsFiniteSet(d) /\ SumFunctionOnSet(f, d) \in Nat
  <2>1. IsFiniteSet(d)
    BY FS_Subset
  <2> QED BY <2>1, SumType
<1>2. 0 \in P
  <2>1. ASSUME NEW t \in SUBSET B, Cardinality(t) = 0 PROVE Good(t)
    <3>1. t = {}
      BY <1>0, <2>1, FS_EmptySet
    <3>2. SumFunctionOnSet(f, {}) = 0 /\ SumFunctionOnSet(y, {}) = 0
      BY SumEmpty
    <3>3. All(t) = {}
      BY <3>1
    <3> QED BY <2>1, <3>1, <3>2, <3>3
  <2> QED BY <2>1
<1>3. ASSUME NEW n \in Nat, n \in P PROVE n + 1 \in P
  <2> SUFFICES ASSUME NEW t \in SUBSET B, Cardinality(t) = n + 1 PROVE Good(t)
    OBVIOUS
  <2>1. t # {} /\ IsFiniteSet(t)
    BY <1>0, FS_EmptySet
  <2>2. PICK b \in t : TRUE
    BY <2>1
  <2>3. PICK r : r = t \ {b}
    OBVIOUS
  <2>4. r \in SUBSET B /\ Cardinality(r) = n /\ IsFiniteSet(r) /\ b \notin r /\ t = r \union {b}
    <3>1. Cardinality(t \ {b}) = Cardinality(t) - 1
      BY <2>1, FS_RemoveElement
    <3> QED BY <1>0, <2>3, <3>1
  <2>5. SumFunctionOnSet(f, All(r)) <= k * n + 2 * SumFunctionOnSet(y, r)
    BY <1>3, <2>4
  <2>6. SumFunctionOnSet(y, t) = y[b] + SumFunctionOnSet(y, r) /\ SumFunctionOnSet(y, r) \in Nat
    BY <2>4, SumInsert, SumType
  <2>7. All(t) = C[b] \union All(r) /\ C[b] \in SUBSET D /\ All(r) \in SUBSET D
    BY <2>4
  <2> HIDE DEF All
  <2>8. /\ IsFiniteSet(C[b]) /\ SumFunctionOnSet(f, C[b]) \in Nat
        /\ IsFiniteSet(All(r)) /\ SumFunctionOnSet(f, All(r)) \in Nat
    BY <1>1, <2>7
  <2>9. /\ SumFunctionOnSet(f, All(t)) <= SumFunctionOnSet(f, C[b]) + SumFunctionOnSet(f, All(r))
        /\ SumFunctionOnSet(f, All(t)) \in Nat
    <3>1. \A x \in C[b] \union All(r) : f[x] \in Nat
      BY <2>7
    <3>2. SumFunctionOnSet(f, C[b] \union All(r))
            <= SumFunctionOnSet(f, C[b]) + SumFunctionOnSet(f, All(r))
      BY <2>8, <3>1, SumUnion
    <3>3. All(t) \in SUBSET D
      BY <2>7
    <3> QED BY <1>1, <2>7, <3>2, <3>3
  <2>10. SumFunctionOnSet(f, C[b]) <= k + 2 * y[b] /\ y[b] \in Nat
    BY <2>4
  <2>11. PICK u \in Nat, v \in Nat, w \in Nat, m \in Nat, z \in Nat :
           /\ u = SumFunctionOnSet(f, All(t)) /\ v = SumFunctionOnSet(f, C[b])
           /\ w = SumFunctionOnSet(f, All(r)) /\ m = SumFunctionOnSet(y, r) /\ z = y[b]
    BY <2>6, <2>8, <2>9, <2>10
  <2>12. u <= v + w /\ v <= k + 2 * z /\ w <= k * n + 2 * m
    BY <2>5, <2>9, <2>10, <2>11
  <2>13. k * (n + 1) = k * n + k /\ k * n \in Nat
    OBVIOUS
  <2>14. u <= k * (n + 1) + 2 * (z + m)
    BY <2>12, <2>13
  <2> QED BY <2>6, <2>11, <2>14
<1>4. P = Nat
  <2> HIDE DEF P
  <2>1. P \in SUBSET Nat
    BY DEF P
  <2> QED BY <1>2, <1>3, <2>1, SetInduction
<1>5. Good(B)
  BY <1>0, <1>4
<1> QED BY <1>5

----------------------------------------------------------------------------
(* Sums of functions *)

\* The sum of naturals over a finite domain is a natural, and 0 if it is empty.
THEOREM SumFunctionType ==
  ASSUME NEW f, IsFiniteSet(DOMAIN f), \A x \in DOMAIN f : f[x] \in Nat
  PROVE  SumFunction(f) \in Nat /\ (DOMAIN f = {} => SumFunction(f) = 0)
BY SumType, SumEmpty DEF SumFunction

\* The sum of a function cut to a set.
LEMMA SumRestrict ==
  ASSUME NEW f, NEW S, IsFiniteSet(S)
  PROVE  SumFunction([x \in S |-> f[x]]) = SumFunctionOnSet(f, S)
<1>1. PICK g : g = [x \in S |-> f[x]]
  OBVIOUS
<1>2. DOMAIN g = S /\ \A x \in S : g[x] = f[x]
  BY <1>1
<1>3. SumFunctionOnSet(g, S) = SumFunctionOnSet(f, S)
  BY <1>2, SumAgree
<1> QED BY <1>1, <1>2, <1>3 DEF SumFunction

\* A function with one more element in its domain has the greater sum by its
\* value there.
THEOREM SumFunctionExtends ==
  ASSUME NEW f, NEW h, NEW x, IsFiniteSet(DOMAIN f), x \notin DOMAIN f,
         DOMAIN h = DOMAIN f \union {x}, \A y \in DOMAIN f : h[y] = f[y],
         \A y \in DOMAIN h : h[y] \in Nat
  PROVE  SumFunction(h) = h[x] + SumFunction(f)
<1> DEFINE D == DOMAIN f
<1>1. SumFunctionOnSet(h, D \union {x}) = h[x] + SumFunctionOnSet(h, D)
  BY SumInsert
<1>2. SumFunctionOnSet(h, D) = SumFunctionOnSet(f, D)
  BY SumAgree
<1> QED BY <1>1, <1>2 DEF SumFunction

=============================================================================
