-------------------------------- MODULE Sums --------------------------------
(***************************************************************************)
(* Lemmas about finite sets of numbers and about SumFunctionOnSet, the sum *)
(* of a function over a finite set.                                        *)
(*                                                                         *)
(* Induction is by a set: a set of natural numbers that contains 0 and the *)
(* successor of each of its members contains them all.  Each lemma takes   *)
(* the set of the numbers n for which it holds of all sets of n elements.  *)
(***************************************************************************)
EXTENDS Integers, FiniteSets, FiniteSetsExt, Functions, FiniteSetTheorems,
        WellFoundedInduction, TLAPS

(* Induction, with a set for the property: the least number outside of P     *)
(* would be neither 0 nor a successor.                                       *)
LEMMA NatSet ==
    ASSUME NEW P, 0 \in P, \A n \in Nat : n \in P => n + 1 \in P
    PROVE  Nat \subseteq P
<1> SUFFICES ASSUME Nat \ P # {} PROVE FALSE
  OBVIOUS
<1>1. PICK x \in Nat \ P : \A y \in Nat \ P : <<y, x>> \notin OpToRel(<, Nat)
  BY NatLessThanWellFounded, WFMin, Zenon
<1>2. \A y \in Nat \ P : ~(y < x)
  BY <1>1 DEF OpToRel
<1>3. x # 0 /\ x - 1 \in Nat
  OBVIOUS
<1> QED
  BY <1>2, <1>3

(* What a set leaves when it gives up one of its n + 1 elements.             *)
LEMMA OneLess ==
    ASSUME NEW n \in Nat, NEW S, IsFiniteSet(S), Cardinality(S) = n + 1, NEW x \in S
    PROVE  IsFiniteSet(S \ {x}) /\ Cardinality(S \ {x}) = n
<1>1. IsFiniteSet(S \ {x}) /\ Cardinality(S \ {x}) = Cardinality(S) - 1
  BY FS_RemoveElement
<1> QED
  BY <1>1

LEMMA SomeLeft ==
    ASSUME NEW n \in Nat, NEW S, Cardinality(S) = n + 1
    PROVE  S # {}
<1>1. Cardinality({}) = 0
  BY FS_EmptySet
<1> QED
  BY <1>1

-----------------------------------------------------------------------------
(* Least and greatest numbers of a set *)

LEMMA MinExists ==
    ASSUME NEW S \in SUBSET Nat, S # {}
    PROVE  Min(S) \in S /\ \A y \in S : Min(S) <= y
<1>1. \E x \in S : \A y \in S : <<y, x>> \notin OpToRel(<, Nat)
  BY NatLessThanWellFounded, WFMin, Zenon
<1>2. \E x \in S : \A y \in S : x <= y
  <2>1. PICK x \in S : \A y \in S : <<y, x>> \notin OpToRel(<, Nat)
    BY <1>1, Zenon
  <2>2. \A y \in S : ~(y < x)
    BY <2>1 DEF OpToRel
  <2> QED
    BY <2>2
<1> QED
  BY <1>2, Zenon DEF Min

LEMMA MaxExists ==
    ASSUME NEW S \in SUBSET Nat, S # {}, IsFiniteSet(S)
    PROVE  Max(S) \in S /\ \A y \in S : Max(S) >= y
<1> DEFINE P == {n \in Nat : \A T \in SUBSET Nat :
                    IsFiniteSet(T) /\ Cardinality(T) = n /\ T # {} =>
                        \E x \in T : \A y \in T : x >= y}
<1>1. 0 \in P
  BY FS_EmptySet
<1>2. ASSUME NEW n \in Nat, n \in P PROVE n + 1 \in P
  <2> SUFFICES ASSUME NEW T \in SUBSET Nat, IsFiniteSet(T), Cardinality(T) = n + 1, T # {}
               PROVE  \E x \in T : \A y \in T : x >= y
    OBVIOUS
  <2>1. PICK a \in T : TRUE
    OBVIOUS
  <2>2. IsFiniteSet(T \ {a}) /\ Cardinality(T \ {a}) = n /\ T \ {a} \in SUBSET Nat
    BY OneLess
  <2>3. CASE T \ {a} = {}
    BY <2>1, <2>3
  <2>4. CASE T \ {a} # {}
    <3>1. PICK x \in T \ {a} : \A y \in T \ {a} : x >= y
      BY <1>2, <2>2, <2>4
    <3> QED
      BY <2>1, <3>1
  <2> QED
    BY <2>3, <2>4
<1>3. Nat \subseteq P
  <2> HIDE DEF P
  <2> QED
    BY <1>1, <1>2, NatSet
<1>4. \E x \in S : \A y \in S : x >= y
  BY <1>3, FS_CardinalityType
<1> QED
  BY <1>4, Zenon DEF Max

-----------------------------------------------------------------------------
(* The recursion behind a sum has a solution, and only one *)

First(s) == CHOOSE x \in s : TRUE

\* g sums h over the sets in D.
Adds(h, D, g) ==
    g = [s \in D |-> IF s = {} THEN 0 ELSE h[First(s)] + g[s \ {First(s)}]]

LEMMA SumIsRecursion ==
    ASSUME NEW S, NEW h
    PROVE  SumFunctionOnSet(h, S) = (CHOOSE g : Adds(h, SUBSET S, g))[S]
  BY DEF SumFunctionOnSet, FoldFunctionOnSet, MapThenFoldSet, Adds, First

LEMMA FirstIn ==
    ASSUME NEW s, s # {}
    PROVE  First(s) \in s
  BY DEF First

UpTo(S, n) == {s \in SUBSET S : Cardinality(s) <= n}

LEMMA AddsExists ==
    ASSUME NEW S, IsFiniteSet(S), NEW h
    PROVE  \E g : Adds(h, SUBSET S, g)
<1> DEFINE P == {n \in Nat : \E g : Adds(h, UpTo(S, n), g)}
<1>c. \A s \in SUBSET S : IsFiniteSet(s) /\ Cardinality(s) \in Nat
  BY FS_Subset, FS_CardinalityType
<1>1. 0 \in P
  <2> DEFINE g == [s \in UpTo(S, 0) |-> 0]
  <2>1. \A s \in UpTo(S, 0) : s = {}
    BY <1>c, FS_EmptySet DEF UpTo
  <2>2. Adds(h, UpTo(S, 0), g)
    BY <2>1 DEF Adds
  <2> QED
    BY <2>2
<1>2. ASSUME NEW n \in Nat, n \in P PROVE n + 1 \in P
  <2>1. PICK g : Adds(h, UpTo(S, n), g)
    BY <1>2
  <2> DEFINE k == [s \in UpTo(S, n + 1) |->
                     IF s = {} THEN 0 ELSE h[First(s)] + g[s \ {First(s)}]]
  <2>2. \A s \in UpTo(S, n) : s \in UpTo(S, n + 1) /\ k[s] = g[s]
    <3>1. \A s \in UpTo(S, n) : s \in UpTo(S, n + 1)
      BY <1>c DEF UpTo
    <3> QED
      BY <2>1, <3>1 DEF Adds
  <2>3. \A s \in UpTo(S, n + 1) : s # {} => s \ {First(s)} \in UpTo(S, n)
    <3> SUFFICES ASSUME NEW s \in UpTo(S, n + 1), s # {}
                 PROVE  s \ {First(s)} \in UpTo(S, n)
      OBVIOUS
    <3>1. Cardinality(s \ {First(s)}) = Cardinality(s) - 1
      BY <1>c, FirstIn, FS_RemoveElement DEF UpTo
    <3> QED
      BY <1>c, <3>1 DEF UpTo
  <2>4. Adds(h, UpTo(S, n + 1), k)
    <3>1. k = [s \in UpTo(S, n + 1) |->
                 IF s = {} THEN 0 ELSE h[First(s)] + k[s \ {First(s)}]]
      BY <2>2, <2>3
    <3> QED
      BY <3>1, Zenon DEF Adds
  <2> QED
    BY <2>4
<1>3. Nat \subseteq P
  <2> HIDE DEF P
  <2> QED
    BY <1>1, <1>2, NatSet
<1>4. UpTo(S, Cardinality(S)) = SUBSET S /\ Cardinality(S) \in Nat
  BY FS_Subset, FS_CardinalityType DEF UpTo
<1> QED
  BY <1>3, <1>4

LEMMA AddsUnique ==
    ASSUME NEW S, IsFiniteSet(S), NEW T \in SUBSET S, NEW h, NEW g, NEW k,
           Adds(h, SUBSET S, g), Adds(h, SUBSET T, k)
    PROVE  g[T] = k[T]
<1> DEFINE P == {n \in Nat : \A s \in SUBSET T : Cardinality(s) = n => g[s] = k[s]}
<1>c. \A s \in SUBSET T : IsFiniteSet(s) /\ Cardinality(s) \in Nat /\ s \in SUBSET S
  BY FS_Subset, FS_CardinalityType
<1>1. 0 \in P
  BY <1>c, FS_EmptySet DEF Adds
<1>2. ASSUME NEW n \in Nat, n \in P PROVE n + 1 \in P
  <2> SUFFICES ASSUME NEW s \in SUBSET T, Cardinality(s) = n + 1
               PROVE  g[s] = k[s]
    OBVIOUS
  <2>1. s # {}
    BY SomeLeft
  <2>2. Cardinality(s \ {First(s)}) = n /\ s \ {First(s)} \in SUBSET T
    <3>1. First(s) \in s /\ IsFiniteSet(s)
      BY <1>c, <2>1, FirstIn
    <3> QED
      BY <3>1, OneLess
  <2>3. g[s \ {First(s)}] = k[s \ {First(s)}]
    BY <1>2, <2>2
  <2> QED
    BY <1>c, <2>1, <2>3 DEF Adds
<1>3. Nat \subseteq P
  <2> HIDE DEF P
  <2> QED
    BY <1>1, <1>2, NatSet
<1> QED
  BY <1>3, <1>c

(* A sum can be taken one element at a time, *)
LEMMA SumUnfold ==
    ASSUME NEW S, IsFiniteSet(S), NEW h
    PROVE  SumFunctionOnSet(h, S) =
             IF S = {} THEN 0
             ELSE h[First(S)] + SumFunctionOnSet(h, S \ {First(S)})
<1> DEFINE g == CHOOSE k : Adds(h, SUBSET S, k)
           T == S \ {First(S)}
           k == CHOOSE j : Adds(h, SUBSET T, j)
<1>1. Adds(h, SUBSET S, g)
  BY AddsExists
<1>2. IsFiniteSet(T) /\ T \in SUBSET S
  BY FS_Subset
<1>3. Adds(h, SUBSET T, k)
  BY <1>2, AddsExists
<1>4. SumFunctionOnSet(h, S) = g[S] /\ SumFunctionOnSet(h, T) = k[T]
  BY SumIsRecursion
<1> HIDE DEF g, k, T
<1>5. g[T] = k[T]
  BY <1>1, <1>2, <1>3, AddsUnique
<1>6. g[S] = IF S = {} THEN 0 ELSE h[First(S)] + g[T]
  <2>1. g = [s \in SUBSET S |-> IF s = {} THEN 0 ELSE h[First(s)] + g[s \ {First(s)}]]
    BY <1>1 DEF Adds
  <2>2. S \in SUBSET S
    OBVIOUS
  <2>3. g[S] = IF S = {} THEN 0 ELSE h[First(S)] + g[S \ {First(S)}]
    BY <2>1, <2>2, Zenon
  <2> QED
    BY <2>3, Zenon DEF T
<1> QED
  BY <1>4, <1>5, <1>6, Zenon DEF T

(* and it is a number if what is summed is, *)
LEMMA SumType ==
    ASSUME NEW S, IsFiniteSet(S), NEW h, \A x \in S : h[x] \in Int
    PROVE  SumFunctionOnSet(h, S) \in Int
<1> DEFINE P == {n \in Nat : \A T \in SUBSET S :
                                Cardinality(T) = n => SumFunctionOnSet(h, T) \in Int}
<1>c. \A T \in SUBSET S : IsFiniteSet(T) /\ Cardinality(T) \in Nat
  BY FS_Subset, FS_CardinalityType
<1>1. 0 \in P
  <2> SUFFICES ASSUME NEW T \in SUBSET S, Cardinality(T) = 0
               PROVE  SumFunctionOnSet(h, T) \in Int
    OBVIOUS
  <2>1. T = {}
    BY <1>c, FS_EmptySet
  <2> QED
    BY <1>c, <2>1, SumUnfold
<1>2. ASSUME NEW n \in Nat, n \in P PROVE n + 1 \in P
  <2> SUFFICES ASSUME NEW T \in SUBSET S, Cardinality(T) = n + 1
               PROVE  SumFunctionOnSet(h, T) \in Int
    OBVIOUS
  <2>1. T # {} /\ First(T) \in T /\ IsFiniteSet(T)
    BY <1>c, SomeLeft, FirstIn
  <2>2. Cardinality(T \ {First(T)}) = n /\ T \ {First(T)} \in SUBSET S
    BY <2>1, OneLess
  <2>3. SumFunctionOnSet(h, T \ {First(T)}) \in Int
    BY <1>2, <2>2
  <2>4. SumFunctionOnSet(h, T) = h[First(T)] + SumFunctionOnSet(h, T \ {First(T)})
    BY <2>1, SumUnfold, Zenon
  <2> QED
    BY <2>1, <2>3, <2>4
<1>3. Nat \subseteq P
  <2> HIDE DEF P
  <2> QED
    BY <1>1, <1>2, NatSet
<1> QED
  BY <1>3, <1>c

(* in whatever order.                                                        *)
LEMMA SumRemove ==
    ASSUME NEW S, IsFiniteSet(S), NEW h, \A x \in S : h[x] \in Int, NEW a \in S
    PROVE  SumFunctionOnSet(h, S) = h[a] + SumFunctionOnSet(h, S \ {a})
<1> DEFINE P == {n \in Nat : \A T \in SUBSET S : Cardinality(T) = n =>
                    \A x \in T : SumFunctionOnSet(h, T) = h[x] + SumFunctionOnSet(h, T \ {x})}
<1>c. \A T \in SUBSET S : IsFiniteSet(T) /\ Cardinality(T) \in Nat
  BY FS_Subset, FS_CardinalityType
<1>1. 0 \in P
  <2> SUFFICES ASSUME NEW T \in SUBSET S, Cardinality(T) = 0 PROVE T = {}
    OBVIOUS
  <2> QED
    BY <1>c, FS_EmptySet
<1>2. ASSUME NEW n \in Nat, n \in P PROVE n + 1 \in P
  <2> SUFFICES ASSUME NEW T \in SUBSET S, Cardinality(T) = n + 1, NEW x \in T
               PROVE  SumFunctionOnSet(h, T) = h[x] + SumFunctionOnSet(h, T \ {x})
    OBVIOUS
  <2> DEFINE f == First(T)
             R == (T \ {f}) \ {x}
  <2>1. T # {} /\ f \in T /\ IsFiniteSet(T)
    BY <1>c, FirstIn
  <2>2. SumFunctionOnSet(h, T) = h[f] + SumFunctionOnSet(h, T \ {f})
    BY <2>1, SumUnfold, Zenon
  <2> HIDE DEF f
  <2>3. CASE x = f
    BY <2>2, <2>3
  <2>4. CASE x # f
    <3>1. /\ Cardinality(T \ {f}) = n /\ T \ {f} \in SUBSET S /\ x \in T \ {f}
          /\ Cardinality(T \ {x}) = n /\ T \ {x} \in SUBSET S /\ f \in T \ {x}
      BY <2>1, <2>4, OneLess
    <3>2. SumFunctionOnSet(h, T \ {f}) = h[x] + SumFunctionOnSet(h, R)
      BY <1>2, <3>1
    <3>3. SumFunctionOnSet(h, T \ {x}) = h[f] + SumFunctionOnSet(h, R)
      <4>1. R = (T \ {x}) \ {f}
        OBVIOUS
      <4> HIDE DEF R
      <4> QED
        BY <1>2, <3>1, <4>1
    <3>4. R \in SUBSET S /\ h[x] \in Int /\ h[f] \in Int
      BY <2>1
    <3> HIDE DEF R
    <3>5. SumFunctionOnSet(h, R) \in Int
      BY <1>c, <3>4, SumType
    <3> QED
      BY <2>2, <3>2, <3>3, <3>4, <3>5
  <2> QED
    BY <2>3, <2>4
<1>3. Nat \subseteq P
  <2> HIDE DEF P
  <2> QED
    BY <1>1, <1>2, NatSet
<1> QED
  BY <1>3, <1>c

\* f is a times h, and more by q for the members of R.
Linear(S, f, a, h, q, R) ==
    /\ a \in Int /\ q \in Int
    /\ \A x \in S : h[x] \in Int
    /\ \A x \in S \cap R : f[x] = a * h[x] + q
    /\ \A x \in S \ R : f[x] = a * h[x]

LEMMA SumLinear ==
    ASSUME NEW S, IsFiniteSet(S), NEW f, NEW a, NEW h, NEW q, NEW R,
           Linear(S, f, a, h, q, R)
    PROVE  SumFunctionOnSet(f, S) = a * SumFunctionOnSet(h, S) + q * Cardinality(S \cap R)
<1> USE DEF Linear
<1> DEFINE P == {n \in Nat : \A T \in SUBSET S : Cardinality(T) = n =>
                    SumFunctionOnSet(f, T) = a * SumFunctionOnSet(h, T)
                                             + q * Cardinality(T \cap R)}
<1>c. \A T \in SUBSET S : /\ IsFiniteSet(T) /\ Cardinality(T) \in Nat
                          /\ IsFiniteSet(T \cap R) /\ Cardinality(T \cap R) \in Nat
  <2> SUFFICES ASSUME NEW T \in SUBSET S
               PROVE  /\ IsFiniteSet(T) /\ Cardinality(T) \in Nat
                      /\ IsFiniteSet(T \cap R) /\ Cardinality(T \cap R) \in Nat
    OBVIOUS
  <2>1. T \cap R \in SUBSET S
    OBVIOUS
  <2> QED
    BY <2>1, FS_Subset, FS_CardinalityType
<1>1. 0 \in P
  <2> SUFFICES ASSUME NEW T \in SUBSET S, Cardinality(T) = 0
               PROVE  SumFunctionOnSet(f, T) = a * SumFunctionOnSet(h, T)
                                               + q * Cardinality(T \cap R)
    OBVIOUS
  <2>1. T = {} /\ Cardinality({}) = 0 /\ IsFiniteSet({})
    BY <1>c, FS_EmptySet
  <2>2. SumFunctionOnSet(f, {}) = 0 /\ SumFunctionOnSet(h, {}) = 0
    BY <2>1, SumUnfold
  <2>3. T \cap R = {}
    BY <2>1
  <2> QED
    BY <2>1, <2>2, <2>3
<1>2. ASSUME NEW n \in Nat, n \in P PROVE n + 1 \in P
  <2> SUFFICES ASSUME NEW T \in SUBSET S, Cardinality(T) = n + 1
               PROVE  SumFunctionOnSet(f, T) = a * SumFunctionOnSet(h, T)
                                               + q * Cardinality(T \cap R)
    OBVIOUS
  <2>1. PICK x \in T : TRUE
    BY SomeLeft
  <2> DEFINE U == T \ {x}
             hU == SumFunctionOnSet(h, U)
             c == Cardinality(U \cap R)
             bonus == IF x \in R THEN q ELSE 0
  <2>2. IsFiniteSet(T) /\ U \in SUBSET S /\ Cardinality(U) = n
    BY <1>c, OneLess
  <2>3. SumFunctionOnSet(f, U) = a * hU + q * c
    BY <1>2, <2>2
  <2>4. h[x] \in Int /\ f[x] = a * h[x] + bonus
    OBVIOUS
  <2>5. \A y \in T : f[y] \in Int /\ h[y] \in Int
    OBVIOUS
  <2>6. SumFunctionOnSet(f, T) = f[x] + SumFunctionOnSet(f, U)
    BY <2>2, <2>5, SumRemove
  <2>7. SumFunctionOnSet(h, T) = h[x] + hU
    BY <2>2, <2>5, SumRemove
  <2>8. hU \in Int /\ c \in Nat
    BY <1>c, <2>2, SumType
  <2>9. q * Cardinality(T \cap R) = q * c + bonus
    <3>1. CASE x \in R
      <4>1. T \cap R = (U \cap R) \cup {x} /\ x \notin U \cap R /\ IsFiniteSet(U \cap R)
        BY <1>c, <2>2, <3>1
      <4>2. Cardinality(T \cap R) = c + 1
        BY <4>1, FS_AddElement
      <4> HIDE DEF c
      <4> QED
        BY <2>8, <3>1, <4>2
    <3>2. CASE x \notin R
      <4>1. T \cap R = U \cap R
        BY <3>2
      <4>2. Cardinality(T \cap R) = c
        BY <4>1
      <4> HIDE DEF c
      <4> QED
        BY <2>8, <3>2, <4>2
    <3> QED
      BY <3>1, <3>2
  <2>10. a * (h[x] + hU) = a * h[x] + a * hU
    <3> HIDE DEF hU
    <3> QED
      BY <2>4, <2>8
  <2>11. bonus \in Int /\ a * h[x] \in Int /\ a * hU \in Int /\ q * c \in Int
    <3> HIDE DEF hU, c
    <3> QED
      BY <2>4, <2>8
  <2> HIDE DEF U, hU, c, bonus
  <2> QED
    BY <2>3, <2>4, <2>6, <2>7, <2>9, <2>10, <2>11
<1>3. Nat \subseteq P
  <2> HIDE DEF P
  <2> QED
    BY <1>1, <1>2, NatSet
<1> QED
  BY <1>3, <1>c

=============================================================================
