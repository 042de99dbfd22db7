-------------------------------- MODULE Sums --------------------------------
(***************************************************************************)
(* The sum of a function's values over a finite set, as SumFunctionOnSet   *)
(* of the community module Functions computes it: the elements are taken   *)
(* out one after the other, in an order that CHOOSE fixes.  What is proved *)
(* here is that any element may be taken out first, and what follows: how  *)
(* a sum grows with its set and with the values of its function.           *)
(***************************************************************************)
EXTENDS Integers, Functions, FiniteSetTheorems, WellFoundedInduction, TLAPS

LOCAL First(s) == CHOOSE x \in s : TRUE

(* The equation that the fold solves, on a collection of sets. *)
LOCAL Adds(F, D, g) ==
  g = [s \in D |-> IF s = {} THEN 0 ELSE F[First(s)] + g[s \ {First(s)}]]

LOCAL UpTo(T, n) == {s \in SUBSET T : Cardinality(s) <= n}

LEMMA SumUnfolds ==
  ASSUME NEW F, NEW T
  PROVE  SumFunctionOnSet(F, T) = (CHOOSE g : Adds(F, SUBSET T, g))[T]
  BY DEF SumFunctionOnSet, FoldFunctionOnSet, MapThenFoldSet, Adds, First

(* A non-empty set of naturals has a least element. *)
LEMMA LeastNatural ==
  ASSUME NEW S, S \subseteq Nat, S # {}
  PROVE  \E x \in S : \A y \in S : x <= y
  <1>1. PICK x \in S : \A y \in S : ~(<<y, x>> \in OpToRel(<, Nat))
    BY NatLessThanWellFounded, WFMin
  <1>2. \A y \in S : <<y, x>> \in Nat \X Nat
    OBVIOUS
  <1>3. \A y \in S : ~(y < x)
    BY <1>1, <1>2 DEF OpToRel
  <1>4. QED
    BY <1>3

(* Of the finite sets in a collection one is smallest. *)
LEMMA SmallestSet ==
  ASSUME NEW C, C # {}, \A s \in C : IsFiniteSet(s)
  PROVE  \E s \in C : \A t \in C : Cardinality(s) <= Cardinality(t)
  <1> DEFINE K == {Cardinality(s) : s \in C}
  <1>1. K \subseteq Nat /\ K # {}
    BY FS_CardinalityType
  <1>2. PICK k \in K : \A j \in K : k <= j
    <2> HIDE DEF K
    <2>1. QED
      BY <1>1, LeastNatural
  <1>3. QED
    BY <1>2

LEMMA FirstIsIn ==
  ASSUME NEW s, s # {}
  PROVE  First(s) \in s
  BY DEF First

LEMMA Smaller ==
  ASSUME NEW s, IsFiniteSet(s), NEW x \in s
  PROVE  /\ IsFiniteSet(s \ {x})
         /\ Cardinality(s) \in Nat
         /\ Cardinality(s \ {x}) = Cardinality(s) - 1
         /\ Cardinality(s \ {x}) \in Nat
  BY FS_RemoveElement, FS_CardinalityType

(* The equation has at most one solution. *)
LEMMA AddsOnce ==
  ASSUME NEW F, NEW T, IsFiniteSet(T), NEW g, NEW h, Adds(F, SUBSET T, g), Adds(F, SUBSET T, h),
         NEW s \in SUBSET T
  PROVE  g[s] = h[s]
  <1> DEFINE C == {t \in SUBSET T : g[t] # h[t]}
  <1>1. SUFFICES ASSUME C # {} PROVE FALSE
    OBVIOUS
  <1>2. \A t \in SUBSET T : IsFiniteSet(t)
    BY FS_Subset
  <1>3. PICK t \in C : \A u \in C : Cardinality(t) <= Cardinality(u)
    <2>1. \A u \in C : IsFiniteSet(u)
      BY <1>2
    <2> HIDE DEF C
    <2>2. QED
      BY <1>1, <2>1, SmallestSet
  <1>4. t # {}
    BY <1>3 DEF Adds
  <1>5. First(t) \in t /\ t \ {First(t)} \in SUBSET T
    BY <1>4, FirstIsIn
  <1>6. g[t \ {First(t)}] = h[t \ {First(t)}]
    BY <1>2, <1>3, <1>5, Smaller
  <1>7. /\ g[t] = F[First(t)] + g[t \ {First(t)}]
        /\ h[t] = F[First(t)] + h[t \ {First(t)}]
    BY <1>4 DEF Adds
  <1>8. QED
    BY <1>3, <1>6, <1>7

(* It has one on the sets of at most n elements, for every n. *)
LEMMA AddsUpTo ==
  ASSUME NEW F, NEW T, IsFiniteSet(T), NEW n \in Nat
  PROVE  \E g : Adds(F, UpTo(T, n), g)
  <1> DEFINE C == {k \in Nat : ~ \E g : Adds(F, UpTo(T, k), g)}
  <1>1. SUFFICES ASSUME C # {} PROVE FALSE
    OBVIOUS
  <1>2. PICK k \in C : \A j \in C : k <= j
    <2> HIDE DEF C
    <2>1. C \subseteq Nat
      BY DEF C
    <2>2. QED
      BY <1>1, <2>1, LeastNatural
  <1>3. \A s \in SUBSET T : IsFiniteSet(s) /\ Cardinality(s) \in Nat
    BY FS_Subset, FS_CardinalityType
  <1>4. CASE k = 0
    <2>1. \A s \in UpTo(T, 0) : s = {}
      BY <1>3, FS_EmptySet DEF UpTo
    <2>2. Adds(F, UpTo(T, 0), [s \in UpTo(T, 0) |-> 0])
      BY <2>1 DEF Adds
    <2>3. QED
      BY <1>2, <1>4, <2>2
  <1>5. CASE k # 0
    <2>1. k \in Nat /\ k - 1 \in Nat
      BY <1>2, <1>5
    <2>2. k - 1 \notin C
      <3> HIDE DEF C
      <3>1. QED
        BY <1>2, <2>1
    <2>3. PICK g : Adds(F, UpTo(T, k - 1), g)
      BY <2>1, <2>2
    <2> DEFINE h == [s \in UpTo(T, k) |->
                       IF s = {} THEN 0 ELSE F[First(s)] + g[s \ {First(s)}]]
    <2>4. ASSUME NEW s \in UpTo(T, k), s # {}
          PROVE  h[s \ {First(s)}] = g[s \ {First(s)}]
      <3> DEFINE t == s \ {First(s)}
      <3>1. /\ s \in SUBSET T /\ Cardinality(s) <= k
            /\ t \in SUBSET T /\ Cardinality(t) = Cardinality(s) - 1
        BY <1>3, <2>4, FirstIsIn, Smaller DEF UpTo
      <3>2. t \in UpTo(T, k - 1) /\ t \in UpTo(T, k)
        BY <1>3, <2>1, <3>1 DEF UpTo
      <3> HIDE DEF t
      <3>3. g[t] = IF t = {} THEN 0 ELSE F[First(t)] + g[t \ {First(t)}]
        BY <2>3, <3>2 DEF Adds
      <3>4. QED
        BY <3>2, <3>3 DEF t
    <2>5. Adds(F, UpTo(T, k), h)
      BY <2>4 DEF Adds
    <2>6. QED
      BY <1>2, <2>5
  <1>6. QED
    BY <1>4, <1>5

LEMMA AddsSolved ==
  ASSUME NEW F, NEW T, IsFiniteSet(T)
  PROVE  Adds(F, SUBSET T, CHOOSE g : Adds(F, SUBSET T, g))
  <1> DEFINE n == Cardinality(T)
  <1>1. n \in Nat
    BY FS_CardinalityType
  <1>2. UpTo(T, n) = SUBSET T
    BY FS_Subset DEF UpTo
  <1> HIDE DEF n
  <1>3. \E g : Adds(F, SUBSET T, g)
    <2>1. \E g : Adds(F, UpTo(T, n), g)
      BY <1>1, AddsUpTo
    <2>2. QED
      BY <1>2, <2>1
  <1>4. QED
    BY <1>3

(* The fold over a part of T is what the fold over T computes for it. *)
LEMMA SumOfPart ==
  ASSUME NEW F, NEW T, IsFiniteSet(T), NEW s \in SUBSET T
  PROVE  SumFunctionOnSet(F, s) = (CHOOSE g : Adds(F, SUBSET T, g))[s]
  <1> DEFINE g == CHOOSE g : Adds(F, SUBSET T, g)
             h == CHOOSE h : Adds(F, SUBSET s, h)
             r == [t \in SUBSET s |-> g[t]]
  <1>1. IsFiniteSet(s) /\ s \in SUBSET s
    BY FS_Subset
  <1>2. Adds(F, SUBSET T, g) /\ Adds(F, SUBSET s, h)
    BY <1>1, AddsSolved
  <1> HIDE DEF g, h
  <1>3. Adds(F, SUBSET s, r)
    <2>1. ASSUME NEW t \in SUBSET s
          PROVE  r[t] = IF t = {} THEN 0 ELSE F[First(t)] + r[t \ {First(t)}]
      <3>1. t \in SUBSET T /\ t \ {First(t)} \in SUBSET s
        OBVIOUS
      <3>2. g[t] = IF t = {} THEN 0 ELSE F[First(t)] + g[t \ {First(t)}]
        BY <1>2, <3>1 DEF Adds
      <3>3. QED
        BY <3>1, <3>2
    <2>2. QED
      BY <2>1 DEF Adds
  <1>4. r[s] = h[s]
    <2> HIDE DEF r
    <2>1. QED
      BY <1>1, <1>2, <1>3, AddsOnce
  <1>5. SumFunctionOnSet(F, s) = h[s]
    BY SumUnfolds DEF h
  <1>6. QED
    BY <1>1, <1>4, <1>5 DEF g

-----------------------------------------------------------------------------
(* The sum over nothing is zero. *)
THEOREM SumOfNone == ASSUME NEW F PROVE SumFunctionOnSet(F, {}) = 0
  <1> DEFINE g == CHOOSE g : Adds(F, SUBSET {}, g)
  <1>1. Adds(F, SUBSET {}, g)
    BY FS_EmptySet, AddsSolved
  <1> HIDE DEF g
  <1>2. g[{}] = 0
    BY <1>1 DEF Adds
  <1>3. QED
    BY <1>2, SumUnfolds DEF g

LEMMA SumOfFirst ==
  ASSUME NEW F, NEW S, IsFiniteSet(S), S # {}
  PROVE  SumFunctionOnSet(F, S) = F[First(S)] + SumFunctionOnSet(F, S \ {First(S)})
  <1> DEFINE g == CHOOSE g : Adds(F, SUBSET S, g)
             s == S \ {First(S)}
  <1>1. Adds(F, SUBSET S, g)
    BY AddsSolved
  <1>2. s \in SUBSET S /\ S \in SUBSET S
    OBVIOUS
  <1>3. SumFunctionOnSet(F, s) = g[s] /\ SumFunctionOnSet(F, S) = g[S]
    BY <1>2, SumOfPart
  <1> HIDE DEF g
  <1>4. g[S] = F[First(S)] + g[s]
    BY <1>1, <1>2 DEF Adds
  <1>5. QED
    BY <1>3, <1>4

(* A sum of naturals is a natural. *)
THEOREM SumIsNat ==
  ASSUME NEW F, NEW S, IsFiniteSet(S), \A x \in S : F[x] \in Nat
  PROVE  SumFunctionOnSet(F, S) \in Nat
  <1> DEFINE C == {s \in SUBSET S : SumFunctionOnSet(F, s) \notin Nat}
  <1>1. SUFFICES ASSUME C # {} PROVE FALSE
    OBVIOUS
  <1>2. \A s \in SUBSET S : IsFiniteSet(s)
    BY FS_Subset
  <1>3. PICK s \in C : \A t \in C : Cardinality(s) <= Cardinality(t)
    <2>1. \A t \in C : IsFiniteSet(t)
      BY <1>2
    <2> HIDE DEF C
    <2>2. QED
      BY <1>1, <2>1, SmallestSet
  <1>4. s # {}
    BY <1>3, SumOfNone
  <1>5. First(s) \in s /\ s \ {First(s)} \in SUBSET S
    BY <1>4, FirstIsIn
  <1>6. SumFunctionOnSet(F, s \ {First(s)}) \in Nat
    BY <1>2, <1>3, <1>5, Smaller
  <1>7. SumFunctionOnSet(F, s) = F[First(s)] + SumFunctionOnSet(F, s \ {First(s)})
    BY <1>2, <1>3, <1>4, SumOfFirst
  <1>8. QED
    BY <1>3, <1>5, <1>6, <1>7

(* Any element may be taken out first. *)
THEOREM SumTakesOut ==
  ASSUME NEW F, NEW S, IsFiniteSet(S), \A x \in S : F[x] \in Nat, NEW x \in S
  PROVE  SumFunctionOnSet(F, S) = F[x] + SumFunctionOnSet(F, S \ {x})
  <1> DEFINE Sum(s) == SumFunctionOnSet(F, s)
             C == {s \in SUBSET S : \E y \in s : Sum(s) # F[y] + Sum(s \ {y})}
  <1>1. SUFFICES ASSUME C # {} PROVE FALSE
    OBVIOUS
  <1>2. \A s \in SUBSET S : IsFiniteSet(s) /\ Sum(s) \in Nat
    BY FS_Subset, SumIsNat
  <1>3. PICK s \in C : \A t \in C : Cardinality(s) <= Cardinality(t)
    <2>1. \A t \in C : IsFiniteSet(t)
      BY <1>2
    <2> HIDE DEF C
    <2>2. QED
      BY <1>1, <2>1, SmallestSet
  <1>4. PICK y \in s : Sum(s) # F[y] + Sum(s \ {y})
    BY <1>3
  <1> DEFINE z == First(s)
  <1>5. z \in s /\ s \in SUBSET S
    BY <1>4, FirstIsIn
  <1>6. Sum(s) = F[z] + Sum(s \ {z})
    BY <1>2, <1>4, <1>5, SumOfFirst
  <1> HIDE DEF z, Sum
  <1>7. y # z
    BY <1>4, <1>6
  <1> DEFINE a == s \ {z}
             b == s \ {y}
             c == s \ {y, z}
  <1>8. /\ y \in a /\ z \in b /\ a \in SUBSET S /\ b \in SUBSET S /\ c \in SUBSET S
        /\ a \ {y} = c /\ b \ {z} = c
    BY <1>4, <1>5, <1>7
  <1>9. /\ Cardinality(a) < Cardinality(s) /\ Cardinality(b) < Cardinality(s)
        /\ Cardinality(a) \in Nat /\ Cardinality(b) \in Nat /\ Cardinality(s) \in Nat
    BY <1>2, <1>4, <1>5, Smaller
  <1> HIDE DEF a, b, c
  <1>10. a \notin C /\ b \notin C
    <2> HIDE DEF C
    <2>1. QED
      BY <1>3, <1>9
  <1>11. Sum(a) = F[y] + Sum(c) /\ Sum(b) = F[z] + Sum(c)
    BY <1>8, <1>10
  <1>12. F[y] \in Nat /\ F[z] \in Nat /\ Sum(c) \in Nat
    BY <1>2, <1>4, <1>5, <1>8
  <1>13. Sum(s) = F[z] + Sum(a) /\ Sum(s) # F[y] + Sum(b)
    BY <1>4, <1>6 DEF a, b
  <1>14. QED
    BY <1>11, <1>12, <1>13

(* The sum of n equal numbers. *)
THEOREM SumOfEqual ==
  ASSUME NEW F, NEW S, IsFiniteSet(S), NEW q \in Nat, \A x \in S : F[x] = q
  PROVE  SumFunctionOnSet(F, S) = Cardinality(S) * q
  <1> DEFINE Sum(s) == SumFunctionOnSet(F, s)
             C == {s \in SUBSET S : Sum(s) # Cardinality(s) * q}
  <1>1. SUFFICES ASSUME C # {} PROVE FALSE
    OBVIOUS
  <1>2. \A s \in SUBSET S : IsFiniteSet(s)
    BY FS_Subset
  <1>3. PICK s \in C : \A t \in C : Cardinality(s) <= Cardinality(t)
    <2>1. \A t \in C : IsFiniteSet(t)
      BY <1>2
    <2> HIDE DEF C
    <2>2. QED
      BY <1>1, <2>1, SmallestSet
  <1>4. s # {}
    BY <1>3, SumOfNone, FS_EmptySet
  <1>5. PICK x \in s : TRUE
    BY <1>4
  <1> DEFINE t == s \ {x}
             n == Cardinality(t)
  <1>6. /\ s \in SUBSET S /\ t \in SUBSET S
        /\ Cardinality(s) = n + 1 /\ n \in Nat /\ Cardinality(s) \in Nat
    BY <1>2, <1>3, <1>5, Smaller
  <1>7. Sum(s) = F[x] + Sum(t)
    BY <1>2, <1>3, <1>5, SumTakesOut
  <1> HIDE DEF t, n, Sum
  <1>8. Sum(t) = n * q
    BY <1>3, <1>6 DEF n
  <1>9. (n + 1) * q = q + n * q
    BY <1>6
  <1>10. QED
    BY <1>3, <1>5, <1>6, <1>7, <1>8, <1>9

(* The sum over a part is no more than that over the whole. *)
THEOREM SumOfPartIsLess ==
  ASSUME NEW F, NEW S, IsFiniteSet(S), \A x \in S : F[x] \in Nat, NEW T, T \subseteq S
  PROVE  SumFunctionOnSet(F, T) <= SumFunctionOnSet(F, S)
  <1> DEFINE Sum(s) == SumFunctionOnSet(F, s)
             C == {s \in SUBSET S : T \subseteq s /\ ~(Sum(T) <= Sum(s))}
  <1>1. SUFFICES ASSUME C # {} PROVE FALSE
    OBVIOUS
  <1>2. \A s \in SUBSET S : IsFiniteSet(s) /\ Sum(s) \in Nat
    BY FS_Subset, SumIsNat
  <1>3. PICK s \in C : \A t \in C : Cardinality(s) <= Cardinality(t)
    <2>1. \A t \in C : IsFiniteSet(t)
      BY <1>2
    <2> HIDE DEF C
    <2>2. QED
      BY <1>1, <2>1, SmallestSet
  <1>4. s # T
    BY <1>2, <1>3
  <1>5. PICK x \in s : x \notin T
    BY <1>3, <1>4
  <1> DEFINE t == s \ {x}
  <1>6. /\ s \in SUBSET S /\ t \in SUBSET S /\ T \subseteq t
        /\ Cardinality(t) \in Nat /\ Cardinality(s) = Cardinality(t) + 1
    BY <1>2, <1>3, <1>5, Smaller
  <1>7. Sum(s) = F[x] + Sum(t)
    BY <1>2, <1>3, <1>5, SumTakesOut
  <1> HIDE DEF t, Sum
  <1>8. Sum(T) <= Sum(t)
    BY <1>3, <1>6
  <1>9. F[x] \in Nat /\ Sum(t) \in Nat /\ Sum(T) \in Nat
    BY <1>2, <1>3, <1>5, <1>6
  <1>10. QED
    BY <1>3, <1>7, <1>8, <1>9

(* The sum depends on the values on the set only. *)
THEOREM SumOfSame ==
  ASSUME NEW F, NEW G, NEW S, IsFiniteSet(S), \A x \in S : F[x] = G[x]
  PROVE  SumFunctionOnSet(F, S) = SumFunctionOnSet(G, S)
  <1> DEFINE g == CHOOSE g : Adds(F, SUBSET S, g)
             h == CHOOSE h : Adds(G, SUBSET S, h)
  <1>1. Adds(F, SUBSET S, g) /\ Adds(G, SUBSET S, h)
    BY AddsSolved
  <1>2. SumFunctionOnSet(F, S) = g[S] /\ SumFunctionOnSet(G, S) = h[S]
    BY SumUnfolds
  <1> HIDE DEF g, h
  <1>3. ASSUME NEW s \in SUBSET S, s # {}
        PROVE  F[First(s)] = G[First(s)]
    BY <1>3, FirstIsIn
  <1>4. Adds(G, SUBSET S, g)
    BY <1>1, <1>3 DEF Adds
  <1>5. QED
    BY <1>1, <1>2, <1>4, AddsOnce

(* An element more. *)
THEOREM SumPutsIn ==
  ASSUME NEW F, NEW S, IsFiniteSet(S), \A x \in S : F[x] \in Nat,
         NEW x, x \notin S, F[x] \in Nat
  PROVE  SumFunctionOnSet(F, S \cup {x}) = F[x] + SumFunctionOnSet(F, S)
  <1> DEFINE T == S \cup {x}
  <1>1. IsFiniteSet(T) /\ x \in T /\ T \ {x} = S /\ \A y \in T : F[y] \in Nat
    BY FS_AddElement
  <1> HIDE DEF T
  <1>2. SumFunctionOnSet(F, T) = F[x] + SumFunctionOnSet(F, S)
    BY <1>1, SumTakesOut
  <1>3. QED
    BY <1>2 DEF T
=============================================================================
