----------------------------- MODULE SignalsProofs -----------------------------
(***************************************************************************)
(* What of Signals holds for any fills at any times, any coins and any     *)
(* lapses: a lifecycle that is called FULL is the whole of the position,   *)
(* the capital carried from fill to fill is the one it is rebuilt to, and  *)
(* an intent follows from the moments at which capital was put in.         *)
(*                                                                         *)
(* The fills of a lifecycle are a part of those that can be read back, and *)
(* these are a part of the fills that were made.  The first sections say   *)
(* how the places in one correspond to places in the other, and what       *)
(* Reconstruct finds in a sequence of fills.  The next ones relate it to   *)
(* the fills of the position on the exchange, to its capital, and to the   *)
(* capital of each moment, which is a sum in an order left to SetToSeq.    *)
(***************************************************************************)
EXTENDS Signals, SumTheorems, FiniteSetTheorems, TLAPS

-----------------------------------------------------------------------------
(* The k-th of a set of numbers.                                           *)

UpTo(S, i) == {j \in S : j <= i}

LEMMA UpToFinite ==
  ASSUME NEW S \in SUBSET Nat, IsFiniteSet(S), NEW i
  PROVE  IsFiniteSet(UpTo(S, i)) /\ Cardinality(UpTo(S, i)) \in 0..Cardinality(S)
<1>1. UpTo(S, i) \subseteq S
  BY DEF UpTo
<1> QED BY <1>1, FS_Subset, FS_CardinalityType

LEMMA UpToGrows ==
  ASSUME NEW S \in SUBSET Nat, IsFiniteSet(S), NEW i \in S, NEW j \in S, i < j
  PROVE  Cardinality(UpTo(S, i)) < Cardinality(UpTo(S, j))
<1>0. i \in Nat /\ j \in Nat /\ \A k \in S : k \in Nat
  OBVIOUS
<1>1. UpTo(S, i) \subseteq UpTo(S, j) /\ j \in UpTo(S, j) /\ j \notin UpTo(S, i)
  <2>1. ASSUME NEW l \in UpTo(S, i) PROVE l \in UpTo(S, j)
    <3>1. l \in S /\ l \in Nat /\ l <= i
      BY DEF UpTo
    <3> QED BY <1>0, <3>1 DEF UpTo
  <2>2. j <= j /\ ~(j <= i)
    BY <1>0
  <2> QED BY <2>1, <2>2 DEF UpTo
<1>2. UpTo(S, i) \cup {j} \subseteq UpTo(S, j)
  BY <1>1
<1>3. IsFiniteSet(UpTo(S, i)) /\ Cardinality(UpTo(S, i)) \in Nat
      /\ IsFiniteSet(UpTo(S, j)) /\ Cardinality(UpTo(S, j)) \in Nat
  BY UpToFinite, FS_CardinalityType
<1>4. Cardinality(UpTo(S, i) \cup {j}) = Cardinality(UpTo(S, i)) + 1
  BY <1>1, <1>3, FS_AddElement
<1>5. Cardinality(UpTo(S, i) \cup {j}) <= Cardinality(UpTo(S, j))
  BY <1>2, <1>3, FS_Subset
<1> QED BY <1>3, <1>4, <1>5

\* There is a k-th one.
LEMMA NthExists ==
  ASSUME NEW S \in SUBSET Nat, IsFiniteSet(S), NEW k \in 1..Cardinality(S)
  PROVE  \E i \in S : Cardinality(UpTo(S, i)) = k
<1> DEFINE High == {i \in S : Cardinality(UpTo(S, i)) >= k}
<1>0. Cardinality(S) \in Nat
  BY FS_CardinalityType
<1>1. \A i : Cardinality(UpTo(S, i)) \in Nat /\ IsFiniteSet(UpTo(S, i))
  BY UpToFinite, FS_CardinalityType
<1>2. High # {}
  <2>1. S # {}
    BY <1>0, FS_EmptySet
  <2>2. PICK m \in S : \A i \in S : i <= m
    BY <2>1, FiniteMaximum
  <2>3. UpTo(S, m) = S
    BY <2>2 DEF UpTo
  <2> QED BY <2>2, <2>3, <1>0
<1>3. PICK i \in High : \A j \in High : i <= j
  BY <1>2, NatLeast
<1>4. i \in S /\ Cardinality(UpTo(S, i)) >= k
  BY <1>3
<1>5. UpTo(S, i) = (UpTo(S, i) \ {i}) \cup {i}
  BY <1>4 DEF UpTo
<1>6. Cardinality(UpTo(S, i) \ {i}) = Cardinality(UpTo(S, i)) - 1
  BY <1>1, <1>4, <1>5, FS_RemoveElement
<1>7. CASE UpTo(S, i) \ {i} = {}
  BY <1>1, <1>4, <1>6, <1>7, FS_EmptySet
<1>8. CASE UpTo(S, i) \ {i} # {}
  <2>1. IsFiniteSet(UpTo(S, i) \ {i}) /\ UpTo(S, i) \ {i} \in SUBSET Int
    <3>1. UpTo(S, i) \subseteq Nat
      BY DEF UpTo
    <3> QED BY <1>1, <3>1, FS_Subset
  <2>2. PICK j \in UpTo(S, i) \ {i} : \A l \in UpTo(S, i) \ {i} : l <= j
    BY <1>8, <2>1, FiniteMaximum
  <2>3. j \in S /\ j < i /\ j \in Nat /\ i \in Nat
    BY <1>4, <2>2 DEF UpTo
  <2>4. UpTo(S, j) = UpTo(S, i) \ {i}
    <3>1. ASSUME NEW l \in UpTo(S, j) PROVE l \in UpTo(S, i) \ {i}
      <4>1. l \in S /\ l \in Nat /\ l <= j
        BY DEF UpTo
      <4> QED BY <2>3, <4>1 DEF UpTo
    <3>2. ASSUME NEW l \in UpTo(S, i) \ {i} PROVE l \in UpTo(S, j)
      BY <2>2 DEF UpTo
    <3> QED BY <3>1, <3>2
  <2>5. j \notin High
    BY <1>3, <2>3
  <2>6. Cardinality(UpTo(S, j)) < k
    BY <1>1, <2>3, <2>5
  <2> QED BY <1>1, <1>4, <1>6, <2>4, <2>6
<1> QED BY <1>7, <1>8

LEMMA NthIs ==
  ASSUME NEW S \in SUBSET Nat, IsFiniteSet(S), NEW k \in 1..Cardinality(S)
  PROVE  Nth(S, k) \in S /\ Cardinality(UpTo(S, Nth(S, k))) = k
<1>1. \E i \in S : Cardinality({j \in S : j <= i}) = k
  BY NthExists DEF UpTo
<1> QED BY <1>1 DEF Nth, UpTo

\* The k-th ones run through the set in the order of the numbers.
LEMMA NthRuns ==
  ASSUME NEW S \in SUBSET Nat, IsFiniteSet(S)
  PROVE  /\ \A k, l \in 1..Cardinality(S) : k < l => Nth(S, k) < Nth(S, l)
         /\ \A i \in S : \E k \in 1..Cardinality(S) : i = Nth(S, k)
<1>0. Cardinality(S) \in Nat
  BY FS_CardinalityType
<1>a. \A x \in S : x \in Int
  OBVIOUS
<1>1. ASSUME NEW k \in 1..Cardinality(S), NEW l \in 1..Cardinality(S), k < l
      PROVE  Nth(S, k) < Nth(S, l)
  <2>1. /\ Nth(S, k) \in S /\ Cardinality(UpTo(S, Nth(S, k))) = k
        /\ Nth(S, l) \in S /\ Cardinality(UpTo(S, Nth(S, l))) = l
    BY NthIs
  <2>2. CASE Nth(S, l) < Nth(S, k)
    <3>1. Cardinality(UpTo(S, Nth(S, l))) < Cardinality(UpTo(S, Nth(S, k)))
      BY <2>1, <2>2, UpToGrows
    <3> QED BY <1>0, <1>1, <2>1, <3>1
  <2>3. CASE Nth(S, l) = Nth(S, k)
    <3>1. k = l
      BY <2>1, <2>3
    <3> QED BY <1>0, <1>1, <3>1
  <2>4. Nth(S, k) \in Int /\ Nth(S, l) \in Int
    BY <1>a, <2>1, Zenon
  <2> QED BY <2>2, <2>3, <2>4
<1>2. ASSUME NEW i \in S PROVE \E k \in 1..Cardinality(S) : i = Nth(S, k)
  <2> DEFINE k == Cardinality(UpTo(S, i))
  <2>1. k \in 1..Cardinality(S)
    <3>1. i \in UpTo(S, i)
      BY DEF UpTo
    <3>2. k \in 0..Cardinality(S) /\ k # 0
      BY <3>1, UpToFinite, FS_EmptySet
    <3> QED BY <3>2, FS_CardinalityType
  <2>2. Nth(S, k) \in S /\ Cardinality(UpTo(S, Nth(S, k))) = k
    BY <2>1, NthIs
  <2>3. i = Nth(S, k)
    <3>1. CASE i < Nth(S, k)
      <4>1. Cardinality(UpTo(S, i)) < Cardinality(UpTo(S, Nth(S, k)))
        BY <2>2, <3>1, UpToGrows
      <4>2. k < k /\ k \in Int
        BY <2>1, <2>2, <4>1
      <4> HIDE DEF k
      <4> QED BY <4>2
    <3>2. CASE Nth(S, k) < i
      <4>1. Cardinality(UpTo(S, Nth(S, k))) < Cardinality(UpTo(S, i))
        BY <2>2, <3>2, UpToGrows
      <4>2. k < k /\ k \in Int
        BY <2>1, <2>2, <4>1
      <4> HIDE DEF k
      <4> QED BY <4>2
    <3>3. Nth(S, k) \in Int /\ i \in Int
      BY <1>a, <2>2, Zenon
    <3> QED BY <3>1, <3>2, <3>3
  <2> QED BY <2>1, <2>3
<1> QED BY <1>1, <1>2

\* Whatever runs through a set in order gives the k-th ones of it.
LEMMA NthUnique ==
  ASSUME NEW S \in SUBSET Nat, IsFiniteSet(S), NEW m \in Nat, NEW g \in [1..m -> S],
         \A k, l \in 1..m : k < l => g[k] < g[l], \A i \in S : \E k \in 1..m : i = g[k]
  PROVE  Cardinality(S) = m /\ \A k \in 1..m : Nth(S, k) = g[k]
<1>0. /\ \A x \in S : x \in Nat
      /\ \A k \in 1..m : g[k] \in S
  OBVIOUS
<1>a. \A k, l \in 1..m : g[k] = g[l] => k = l
  <2> SUFFICES ASSUME NEW k \in 1..m, NEW l \in 1..m, g[k] = g[l], k # l PROVE FALSE
    OBVIOUS
  <2>1. g[k] \in Nat /\ g[l] \in Nat
    BY <1>0, Zenon
  <2>2. k < l \/ l < k
    OBVIOUS
  <2>3. g[k] < g[l] \/ g[l] < g[k]
    BY <2>2
  <2> QED BY <2>1, <2>3
<1>1. Cardinality(S) = m
  <2>1. g \in Bijection(1..m, S)
    BY <1>a DEF Bijection, Injection, Surjection, IsInjective
  <2> QED BY <2>1, FS_CountingElements DEF ExistsBijection
<1>2. ASSUME NEW k \in 1..m PROVE Cardinality(UpTo(S, g[k])) = k
  <2> DEFINE h == [l \in 1..k |-> g[l]]
  <2>1. ASSUME NEW l \in 1..k PROVE h[l] \in UpTo(S, g[k])
    <3>1. l \in 1..m /\ (l = k \/ l < k)
      OBVIOUS
    <3>2. g[l] \in Nat /\ g[k] \in Nat /\ g[l] \in S
      BY <1>0, <3>1, Zenon
    <3>3. g[l] <= g[k]
      BY <3>1, <3>2
    <3> QED BY <3>2, <3>3 DEF UpTo
  <2>2. ASSUME NEW i \in UpTo(S, g[k]) PROVE \E l \in 1..k : h[l] = i
    <3>1. i \in S /\ i <= g[k]
      BY DEF UpTo
    <3>2. PICK l \in 1..m : i = g[l]
      BY <3>1
    <3>3. g[l] \in Nat /\ g[k] \in Nat
      BY <1>0, Zenon
    <3>4. ~(k < l)
      <4> SUFFICES ASSUME k < l PROVE FALSE
        OBVIOUS
      <4>1. g[k] < g[l]
        OBVIOUS
      <4> QED BY <3>1, <3>2, <3>3, <4>1
    <3>5. l \in 1..k
      BY <3>4
    <3> QED BY <3>2, <3>5
  <2>3. \A l, j \in 1..k : h[l] = h[j] => l = j
    BY <1>a
  <2>4. h \in [1..k -> UpTo(S, g[k])]
    BY <2>1
  <2> HIDE DEF h
  <2>5. h \in Bijection(1..k, UpTo(S, g[k]))
    BY <2>2, <2>3, <2>4 DEF Bijection, Injection, Surjection, IsInjective
  <2> QED BY <2>5, FS_CountingElements DEF ExistsBijection
<1>3. ASSUME NEW k \in 1..m PROVE Nth(S, k) = g[k]
  <2>1. Nth(S, k) \in S /\ Cardinality(UpTo(S, Nth(S, k))) = k
    BY <1>1, NthIs
  <2>2. g[k] \in S /\ Cardinality(UpTo(S, g[k])) = k
    BY <1>0, <1>2
  <2>3. k \in Nat /\ ~(k < k)
    OBVIOUS
  <2>4. ~(Nth(S, k) < g[k])
    BY <2>1, <2>2, <2>3, UpToGrows
  <2>5. ~(g[k] < Nth(S, k))
    BY <2>1, <2>2, <2>3, UpToGrows
  <2>6. Nth(S, k) \in Nat /\ g[k] \in Nat
    BY <1>0, <2>1, <2>2, Zenon
  <2> QED BY <2>4, <2>5, <2>6
<1> QED BY <1>1, <1>3

\* The fills at one more place, beyond the others.
LEMMA OneMorePlace ==
  ASSUME NEW S \in SUBSET Nat, IsFiniteSet(S), NEW n \in Nat, \A i \in S : i < n
  PROVE  /\ Cardinality(S \cup {n}) = Cardinality(S) + 1 /\ Cardinality(S) \in Nat
         /\ \A k \in 1..Cardinality(S) : Nth(S \cup {n}, k) = Nth(S, k)
         /\ Nth(S \cup {n}, Cardinality(S) + 1) = n
<1> DEFINE m == Cardinality(S)
           g == [k \in 1..(m + 1) |-> IF k = m + 1 THEN n ELSE Nth(S, k)]
           T == S \cup {n}
<1>1. /\ m \in Nat /\ m + 1 \in Nat /\ m + 1 \in 1..(m + 1)
      /\ \A k \in 1..(m + 1) : k # m + 1 => k \in 1..m
      /\ \A k \in 1..m : k \in 1..(m + 1) /\ k # m + 1
  BY FS_CardinalityType
<1>2. \A k \in 1..m : Nth(S, k) \in S
  BY NthIs
<1>3. /\ \A k, l \in 1..m : k < l => Nth(S, k) < Nth(S, l)
      /\ \A i \in S : \E k \in 1..m : i = Nth(S, k)
  BY NthRuns
<1> HIDE DEF m
<1>4. g[m + 1] = n /\ \A k \in 1..m : g[k] = Nth(S, k)
  BY <1>1
<1>5. g \in [1..(m + 1) -> T]
  BY <1>1, <1>2
<1> HIDE DEF g
<1>6. ASSUME NEW k \in 1..(m + 1), NEW l \in 1..(m + 1), k < l PROVE g[k] < g[l]
  <2>1. k \in 1..m
    BY <1>1, <1>6
  <2>2. CASE l = m + 1
    BY <1>2, <1>4, <2>1, <2>2
  <2>3. CASE l # m + 1
    BY <1>1, <1>3, <1>4, <1>6, <2>1, <2>3
  <2> QED BY <2>2, <2>3
<1>7. ASSUME NEW i \in T PROVE \E k \in 1..(m + 1) : i = g[k]
  <2>1. CASE i = n
    BY <1>1, <1>4, <2>1
  <2>2. CASE i \in S
    BY <1>1, <1>3, <1>4, <2>2
  <2> QED BY <2>1, <2>2
<1>8. T \in SUBSET Nat /\ IsFiniteSet(T)
  BY FS_AddElement
<1> HIDE DEF T
<1>9. Cardinality(T) = m + 1 /\ \A k \in 1..(m + 1) : Nth(T, k) = g[k]
  BY <1>1, <1>5, <1>6, <1>7, <1>8, NthUnique
<1> QED BY <1>1, <1>4, <1>9 DEF m, T

-----------------------------------------------------------------------------
(* The capital that fills add up to, one after the other.                  *)

FoldOf(fs) == FoldLeft(Absorb, Nothing, fs)

\* FoldLeft takes the numbers of the fills away from the set of all of them.
Takes(fs, S, g) ==
  g = [s \in S |-> IF s = {} THEN Nothing ELSE Absorb(g[s \ {Max(s)}], fs[Max(s)])]

LEMMA TakesExists ==
  ASSUME NEW fs, NEW n \in Nat
  PROVE  \E g : Takes(fs, SUBSET (1..n), g)
<1> DEFINE D == 1..n
           Small(k) == {s \in SUBSET D : Cardinality(s) <= k}
           T == {k \in Nat : \E g : Takes(fs, Small(k), g)}
<1>1. \A s \in SUBSET D : /\ IsFiniteSet(s) /\ Cardinality(s) \in Nat /\ Cardinality(s) <= n
                          /\ Cardinality(s) = 0 <=> s = {}
  <2>1. IsFiniteSet(D) /\ Cardinality(D) = n
    BY FS_Interval
  <2> HIDE DEF D
  <2>2. \A s \in SUBSET D : IsFiniteSet(s) /\ Cardinality(s) <= n
    BY <2>1, FS_Subset
  <2>3. \A s \in SUBSET D : Cardinality(s) \in Nat /\ (Cardinality(s) = 0 <=> s = {})
    BY <2>2, FS_CardinalityType, FS_EmptySet
  <2> QED BY <2>2, <2>3
<1>2. \A s \in SUBSET D : s # {} => /\ Max(s) \in s /\ s \ {Max(s)} \in SUBSET D
                                    /\ Cardinality(s \ {Max(s)}) = Cardinality(s) - 1
  <2> SUFFICES ASSUME NEW s \in SUBSET D, s # {}
               PROVE  Max(s) \in s /\ Cardinality(s \ {Max(s)}) = Cardinality(s) - 1
    OBVIOUS
  <2>1. s \in SUBSET Int
    OBVIOUS
  <2>2. PICK x \in s : \A y \in s : y <= x
    BY <1>1, <2>1, FiniteMaximum
  <2>3. Max(s) = x
    BY <2>1, <2>2, MaxIs
  <2> QED BY <1>1, <2>3, FS_RemoveElement
<1> HIDE DEF D
<1>3. 0 \in T
  <2> DEFINE g == [s \in Small(0) |-> Nothing]
  <2>1. \A s \in Small(0) : s = {}
    BY <1>1
  <2>2. Takes(fs, Small(0), g)
    BY <2>1 DEF Takes
  <2> QED BY <2>2
<1>4. ASSUME NEW k \in Nat, k \in T PROVE k + 1 \in T
  <2>1. PICK g : Takes(fs, Small(k), g)
    BY <1>4
  <2> DEFINE h == [s \in Small(k + 1) |->
                     IF s = {} THEN Nothing ELSE Absorb(g[s \ {Max(s)}], fs[Max(s)])]
  <2>2. \A s \in Small(k) : s \in Small(k + 1)
    BY <1>1
  <2>3. \A s \in Small(k + 1) : s # {} => s \ {Max(s)} \in Small(k)
    BY <1>1, <1>2
  <2>4. \A s \in Small(k) : g[s] = IF s = {} THEN Nothing ELSE Absorb(g[s \ {Max(s)}], fs[Max(s)])
    BY <2>1 DEF Takes
  <2>5. \A s \in Small(k) : h[s] = g[s]
    BY <2>2, <2>4
  <2>6. \A s \in Small(k + 1) : s # {} => h[s \ {Max(s)}] = g[s \ {Max(s)}]
    BY <2>3, <2>5
  <2>7. h = [s \in Small(k + 1) |->
               IF s = {} THEN Nothing ELSE Absorb(h[s \ {Max(s)}], fs[Max(s)])]
    BY <2>6
  <2> HIDE DEF h
  <2>8. Takes(fs, Small(k + 1), h)
    BY <2>7 DEF Takes
  <2> QED BY <2>8
<1> HIDE DEF T
<1>5. n \in T
  BY <1>3, <1>4, NatInduct
<1>6. Small(n) = SUBSET D
  BY <1>1
<1> QED BY <1>5, <1>6 DEF T, D

LEMMA FoldRuns ==
  ASSUME NEW F, NEW fs \in Seq(F)
  PROVE  \E a : /\ a[0] = Nothing /\ FoldOf(fs) = a[Len(fs)]
                /\ \A k \in 1..Len(fs) : a[k] = Absorb(a[k - 1], fs[k])
<1> DEFINE n == Len(fs)
           iter == CHOOSE g : Takes(fs, SUBSET (1..n), g)
           a == [k \in 0..n |-> iter[1..k]]
<1>1. n \in Nat /\ DOMAIN fs = 1..n
  OBVIOUS
<1>2. FoldOf(fs) = iter[1..n]
  BY <1>1 DEF FoldOf, FoldLeft, MapThenFoldSet, Takes
<1>3. Takes(fs, SUBSET (1..n), iter)
  BY <1>1, TakesExists
<1> HIDE DEF iter
<1>4. \A s \in SUBSET (1..n) :
        iter[s] = IF s = {} THEN Nothing ELSE Absorb(iter[s \ {Max(s)}], fs[Max(s)])
  BY <1>3 DEF Takes
<1>5. ASSUME NEW k \in 1..n PROVE iter[1..k] = Absorb(iter[1..(k - 1)], fs[k])
  <2>0. k \in Nat /\ k >= 1 /\ k <= n
    BY <1>1
  <2>1. k \in 1..k /\ 1..k \in SUBSET (1..n) /\ 1..k # {} /\ 1..k \in SUBSET Int
        /\ (1..k) \ {k} = 1..(k - 1) /\ \A x \in 1..k : x <= k
    <3>1. k \in 1..k /\ \A x \in 1..k : x <= k
      BY <2>0
    <3>2. 1..k \in SUBSET (1..n) /\ 1..k \in SUBSET Int
      BY <1>1, <2>0
    <3>3. (1..k) \ {k} = 1..(k - 1)
      BY <2>0
    <3> QED BY <3>1, <3>2, <3>3
  <2>2. Max(1..k) = k
    BY <2>1, MaxIs
  <2> QED BY <1>4, <2>1, <2>2
<1>6. iter[1..0] = Nothing
  <2>1. 1..0 = {} /\ 1..0 \in SUBSET (1..n)
    OBVIOUS
  <2> QED BY <1>4, <2>1
<1>7. a[0] = Nothing /\ FoldOf(fs) = a[n]
  BY <1>1, <1>2, <1>6
<1>8. ASSUME NEW k \in 1..n PROVE a[k] = Absorb(a[k - 1], fs[k])
  <2>1. k \in 0..n /\ k - 1 \in 0..n
    BY <1>1
  <2>2. a[k] = iter[1..k] /\ a[k - 1] = iter[1..(k - 1)]
    BY <2>1
  <2> QED BY <1>5, <2>2
<1> QED BY <1>7, <1>8

LEMMA FoldAppend ==
  ASSUME NEW F, NEW fs \in Seq(F), NEW f \in F
  PROVE  FoldOf(Append(fs, f)) = Absorb(FoldOf(fs), f)
<1> DEFINE n == Len(fs)
           more == Append(fs, f)
<1>1. /\ n \in Nat /\ more \in Seq(F) /\ Len(more) = n + 1 /\ more[n + 1] = f
      /\ \A k \in 1..n : more[k] = fs[k]
  OBVIOUS
<1>2. PICK a : /\ a[0] = Nothing /\ FoldOf(fs) = a[n]
               /\ \A k \in 1..n : a[k] = Absorb(a[k - 1], fs[k])
  BY FoldRuns
<1>3. PICK b : /\ b[0] = Nothing /\ FoldOf(more) = b[Len(more)]
               /\ \A k \in 1..Len(more) : b[k] = Absorb(b[k - 1], more[k])
  BY <1>1, FoldRuns
<1> DEFINE T == {k \in Nat : k <= n => a[k] = b[k]}
<1>4. 0 \in T
  BY <1>2, <1>3
<1> HIDE DEF more
<1>5. ASSUME NEW k \in Nat, k \in T PROVE k + 1 \in T
  <2> SUFFICES ASSUME k + 1 <= n PROVE a[k + 1] = b[k + 1]
    OBVIOUS
  <2>1. a[k] = b[k] /\ k + 1 \in 1..n /\ k + 1 \in 1..(n + 1) /\ (k + 1) - 1 = k
    BY <1>1, <1>5
  <2>2. a[k + 1] = Absorb(a[k], fs[k + 1])
    BY <1>2, <2>1
  <2>3. b[k + 1] = Absorb(b[k], more[k + 1])
    BY <1>1, <1>3, <2>1
  <2> QED BY <1>1, <2>1, <2>2, <2>3
<1> HIDE DEF T
<1>6. n \in T
  BY <1>1, <1>4, <1>5, NatInduct
<1>7. a[n] = b[n]
  BY <1>1, <1>6 DEF T
<1>8. n + 1 \in 1..Len(more) /\ (n + 1) - 1 = n
  BY <1>1
<1>9. b[n + 1] = Absorb(b[n], more[n + 1])
  BY <1>3, <1>8
<1> QED BY <1>1, <1>2, <1>3, <1>7, <1>9 DEF more

LEMMA FoldOne ==
  ASSUME NEW F, NEW f \in F
  PROVE  FoldOf(<<f>>) = Absorb(Nothing, f)
<1>1. <<f>> \in Seq(F) /\ Len(<<f>>) = 1 /\ <<f>>[1] = f
  OBVIOUS
<1>2. PICK a : /\ a[0] = Nothing /\ FoldOf(<<f>>) = a[Len(<<f>>)]
               /\ \A k \in 1..Len(<<f>>) : a[k] = Absorb(a[k - 1], <<f>>[k])
  BY <1>1, FoldRuns
<1>3. a[1] = Absorb(a[1 - 1], <<f>>[1])
  BY <1>1, <1>2
<1> QED BY <1>1, <1>2, <1>3

-----------------------------------------------------------------------------
(* What Reconstruct finds in a sequence of fills.                          *)

Chained(fs, p) == \A k \in (p + 1)..Len(fs) : After(fs[k - 1]) = fs[k].start
Crosses(f, expected) == Sign(After(f)) = Sign(expected) /\ Sign(f.start) # Sign(expected)

\* The lifecycle that ends in expected begins at p.
Begins(fs, p, expected) ==
  /\ p \in 1..Len(fs) /\ Chained(fs, p) /\ Crosses(fs[p], expected)
  /\ \A k \in (p + 1)..Len(fs) : ~Crosses(fs[k], expected)

LEMMA SuffixIs ==
  ASSUME NEW F, NEW fs \in Seq(F), fs # <<>>
  PROVE  \E first \in 1..Len(fs) :
           /\ Suffix(fs) = SubSeq(fs, first, Len(fs)) /\ Chained(fs, first)
           /\ first > 1 => After(fs[first - 1]) # fs[first].start
<1> DEFINE n == Len(fs)
           Good(s) == /\ \A k \in (s + 1)..n : After(fs[k - 1]) = fs[k].start
                      /\ s > 1 => After(fs[s - 1]) # fs[s].start
           T == {s \in 1..n : Chained(fs, s)}
<1>1. n \in Nat \ {0}
  OBVIOUS
<1>2. n \in T
  BY <1>1 DEF Chained
<1>3. PICK first \in T : \A s \in T : first <= s
  <2>1. T \in SUBSET Nat
    OBVIOUS
  <2> QED BY <1>2, <2>1, NatLeast
<1>4. Good(first)
  <2>1. first \in 1..n /\ \A k \in (first + 1)..n : After(fs[k - 1]) = fs[k].start
    BY <1>3 DEF Chained
  <2>2. ASSUME first > 1, After(fs[first - 1]) = fs[first].start PROVE FALSE
    <3>1. \A k \in ((first - 1) + 1)..n : After(fs[k - 1]) = fs[k].start
      BY <1>1, <2>1, <2>2
    <3>2. first - 1 \in T
      BY <1>1, <2>1, <2>2, <3>1 DEF Chained
    <3> QED BY <1>3, <2>1, <3>2
  <2> QED BY <2>1, <2>2
<1>5. Suffix(fs) = SubSeq(fs, CHOOSE s \in 1..n : Good(s), n)
  BY DEF Suffix
<1>6. (CHOOSE s \in 1..n : Good(s)) \in 1..n /\ Good(CHOOSE s \in 1..n : Good(s))
  BY <1>3, <1>4
<1> QED BY <1>5, <1>6 DEF Chained

\* The status and the fills of a lifecycle, and the capital in these.
LEMMA LifeIs ==
  ASSUME NEW fs, NEW expected, NEW vouched
  PROVE  LET life == Reconstruct(fs, expected, vouched)
             suffix == Suffix(fs)
             bs == Boundaries(suffix, expected)
         IN IF fs = <<>> \/ After(fs[Len(fs)]) # expected THEN life.status = "INSUFFICIENT"
            ELSE /\ life.status = "FULL" <=> bs # {}
                 /\ bs # {} => life.fills = SubSeq(suffix, Max(bs), Len(suffix))
                 /\ life.rebuilt = FoldOf(life.fills).capital
<1> DEFINE suffix == Suffix(fs)
           bs == Boundaries(suffix, expected)
           part == IF bs = {} THEN suffix ELSE SubSeq(suffix, Max(bs), Len(suffix))
           life == Reconstruct(fs, expected, vouched)
<1>1. IF fs = <<>> \/ After(fs[Len(fs)]) # expected THEN life.status = "INSUFFICIENT"
      ELSE /\ life.status = "FULL" <=> bs # {}
           /\ life.fills = part /\ life.rebuilt = FoldOf(part).capital
  BY DEF Reconstruct, Boundary, FoldOf
<1> QED BY <1>1

\* A sequence of fills that begins where the side was taken is found, and nothing else.
LEMMA Rebuilt ==
  ASSUME NEW F, NEW fs \in Seq(F), NEW expected, NEW vouched,
         fs # <<>>, After(fs[Len(fs)]) = expected
  PROVE  LET life == Reconstruct(fs, expected, vouched)
         IN /\ \A p : Begins(fs, p, expected) =>
                 life.status = "FULL" /\ life.fills = SubSeq(fs, p, Len(fs))
            /\ life.status = "FULL" =>
                 \E p : Begins(fs, p, expected) /\ life.fills = SubSeq(fs, p, Len(fs))
<1> DEFINE n == Len(fs)
           suffix == Suffix(fs)
           bs == Boundaries(suffix, expected)
<1>1. PICK first \in 1..n :
        /\ suffix = SubSeq(fs, first, n) /\ Chained(fs, first)
        /\ first > 1 => After(fs[first - 1]) # fs[first].start
  BY SuffixIs
<1>2. n \in Nat /\ first \in Nat /\ first >= 1 /\ first <= n
  BY <1>1
<1>3. /\ suffix \in Seq(F) /\ Len(suffix) = n - first + 1
      /\ DOMAIN suffix = 1..(n - first + 1)
      /\ \A i \in 1..(n - first + 1) : suffix[i] = fs[first + i - 1]
  BY <1>1, <1>2
<1> HIDE DEF suffix, n
<1>4. bs = {i \in 1..(n - first + 1) : Crosses(fs[first + i - 1], expected)}
  BY <1>3 DEF Boundaries, Crosses
<1>5. \A b \in 1..(n - first + 1) : SubSeq(suffix, b, Len(suffix)) = SubSeq(fs, first + b - 1, n)
  <2> SUFFICES ASSUME NEW b \in 1..(n - first + 1)
               PROVE  SubSeq(suffix, b, Len(suffix)) = SubSeq(fs, first + b - 1, n)
    OBVIOUS
  <2>1. SubSeq(suffix, b, Len(suffix)) = [k \in 1..(n - first + 1 - b + 1) |-> suffix[b + k - 1]]
    BY <1>2, <1>3
  <2>2. SubSeq(fs, first + b - 1, n) = [k \in 1..(n - (first + b - 1) + 1) |-> fs[first + b - 1 + k - 1]]
    BY <1>2 DEF n
  <2>3. n - first + 1 - b + 1 = n - (first + b - 1) + 1
    BY <1>2
  <2>4. \A k \in 1..(n - first + 1 - b + 1) : suffix[b + k - 1] = fs[first + b - 1 + k - 1]
    <3> SUFFICES ASSUME NEW k \in 1..(n - first + 1 - b + 1)
                 PROVE  suffix[b + k - 1] = fs[first + b - 1 + k - 1]
      OBVIOUS
    <3>1. b + k - 1 \in 1..(n - first + 1)
      BY <1>2
    <3>2. first + (b + k - 1) - 1 = first + b - 1 + k - 1
      BY <1>2
    <3> QED BY <1>3, <3>1, <3>2
  <2> QED BY <2>1, <2>2, <2>3, <2>4
<1>6. ASSUME NEW p, Begins(fs, p, expected)
      PROVE  /\ p - first + 1 \in bs /\ first + (p - first + 1) - 1 = p
             /\ Max(bs) = p - first + 1
  <2>1. p \in 1..n /\ Chained(fs, p) /\ Crosses(fs[p], expected)
        /\ \A k \in (p + 1)..n : ~Crosses(fs[k], expected)
    BY <1>6 DEF Begins, n
  <2>2. first <= p
    <3> SUFFICES ASSUME p < first PROVE FALSE
      BY <1>2, <2>1
    <3>1. first \in (p + 1)..n /\ first > 1
      BY <1>2, <2>1
    <3> QED BY <1>1, <2>1, <3>1 DEF Chained, n
  <2>3. first + (p - first + 1) - 1 = p /\ p - first + 1 \in 1..(n - first + 1)
    BY <1>2, <2>1, <2>2
  <2>4. p - first + 1 \in bs
    BY <1>4, <2>1, <2>3
  <2>5. ASSUME NEW i \in bs PROVE i <= p - first + 1
    <3>1. i \in 1..(n - first + 1) /\ Crosses(fs[first + i - 1], expected)
      BY <1>4
    <3>2. first + i - 1 \notin (p + 1)..n
      BY <2>1, <3>1
    <3> QED BY <1>2, <2>1, <3>1, <3>2
  <2>6. bs \in SUBSET Int
    BY <1>4
  <2> HIDE DEF bs
  <2> QED BY <2>3, <2>4, <2>5, <2>6, MaxIs
<1>7. ASSUME bs # {}
      PROVE  Max(bs) \in bs /\ Begins(fs, first + Max(bs) - 1, expected)
  <2>1. IsFiniteSet(1..(n - first + 1))
    BY <1>2, FS_Interval
  <2>2. bs \in SUBSET Int /\ IsFiniteSet(bs)
    <3>1. bs \subseteq 1..(n - first + 1)
      BY <1>4
    <3> HIDE DEF bs
    <3>2. bs \in SUBSET Int
      BY <3>1
    <3>3. IsFiniteSet(bs)
      BY <2>1, <3>1, FS_Subset, Zenon
    <3> QED BY <3>2, <3>3
  <2>3. PICK b \in bs : \A i \in bs : i <= b
    BY <1>7, <2>2, FiniteMaximum
  <2> HIDE DEF bs
  <2>4. Max(bs) = b
    BY <2>2, <2>3, MaxIs
  <2> USE DEF bs
  <2>5. b \in 1..(n - first + 1) /\ Crosses(fs[first + b - 1], expected)
    BY <1>4
  <2>6. ASSUME NEW k \in (first + b - 1 + 1)..n PROVE ~Crosses(fs[k], expected)
    <3>1. k - first + 1 \in 1..(n - first + 1) /\ first + (k - first + 1) - 1 = k /\ ~(k - first + 1 <= b)
      BY <1>2, <2>5
    <3> QED BY <1>4, <2>3, <3>1
  <2>7. Chained(fs, first + b - 1)
    <3>1. (first + b - 1 + 1)..n \subseteq (first + 1)..n
      BY <1>2, <2>5
    <3> QED BY <1>1, <3>1 DEF Chained, n
  <2>8. first + b - 1 \in 1..n
    BY <1>2, <2>5
  <2> QED BY <2>4, <2>5, <2>6, <2>7, <2>8 DEF Begins, n
<1> DEFINE life == Reconstruct(fs, expected, vouched)
<1>8. /\ life.status = "FULL" <=> bs # {}
      /\ bs # {} => life.fills = SubSeq(suffix, Max(bs), Len(suffix))
  BY LifeIs DEF suffix
<1>9. bs \subseteq 1..(n - first + 1)
  BY <1>4
<1> HIDE DEF life, bs
<1>10. ASSUME NEW p, Begins(fs, p, expected)
       PROVE  life.status = "FULL" /\ life.fills = SubSeq(fs, p, n)
  <2>1. /\ p - first + 1 \in bs /\ first + (p - first + 1) - 1 = p
        /\ Max(bs) = p - first + 1
    BY <1>6, <1>10
  <2> QED BY <1>5, <1>8, <1>9, <2>1
<1>11. ASSUME life.status = "FULL"
       PROVE  \E p : Begins(fs, p, expected) /\ life.fills = SubSeq(fs, p, n)
  <2>1. Max(bs) \in bs /\ Begins(fs, first + Max(bs) - 1, expected)
    BY <1>7, <1>8, <1>11
  <2> QED BY <1>5, <1>8, <1>9, <1>11, <2>1
<1> QED BY <1>10, <1>11 DEF life, n

\* Fills that follow each other and never turn stay on the side of the first one.
LEMMA StaysOnSide ==
  ASSUME NEW fs \in Seq(Fill), NEW p \in 1..Len(fs), Chained(fs, p),
         \A k \in (p + 1)..Len(fs) : Sign(fs[k].start) = Sign(After(fs[k]))
  PROVE  \A k \in p..Len(fs) : Sign(After(fs[k])) = Sign(After(fs[p]))
<1> DEFINE Off == {k \in p..Len(fs) : Sign(After(fs[k])) # Sign(After(fs[p]))}
<1> SUFFICES ASSUME Off # {} PROVE FALSE
  OBVIOUS
<1>1. PICK k \in Off : \A l \in Off : k <= l
  <2>1. Off \in SUBSET Nat
    OBVIOUS
  <2> QED BY <2>1, NatLeast
<1>2. k \in (p + 1)..Len(fs) /\ k - 1 \in p..Len(fs) /\ ~(k <= k - 1)
  BY <1>1
<1>3. Sign(After(fs[k - 1])) = Sign(After(fs[p]))
  BY <1>1, <1>2
<1> QED BY <1>1, <1>2, <1>3 DEF Chained

\* A lifecycle that ends on the side on which it begins has not been off it.
LEMMA NeverLeaves ==
  ASSUME NEW fs \in Seq(Fill), NEW p, NEW expected, Begins(fs, p, expected),
         After(fs[Len(fs)]) = expected
  PROVE  \A k \in p..Len(fs) : Sign(After(fs[k])) = Sign(expected)
<1> DEFINE n == Len(fs)
           Off == {k \in p..n : Sign(After(fs[k])) # Sign(expected)}
<1> SUFFICES ASSUME Off # {} PROVE FALSE
  OBVIOUS
<1>0. p \in 1..n /\ n \in Nat
  BY DEF Begins
<1>1. PICK k \in Off : \A l \in Off : l <= k
  <2>1. Off \in SUBSET Int /\ Off \subseteq p..n
    OBVIOUS
  <2>2. IsFiniteSet(Off)
    <3>1. IsFiniteSet(p..n)
      BY <1>0, FS_Interval
    <3> HIDE DEF Off
    <3> QED BY <2>1, <3>1, FS_Subset, Zenon
  <2> HIDE DEF Off
  <2> QED BY <2>1, <2>2, FiniteMaximum
<1>2. k \in p..n /\ Sign(After(fs[k])) # Sign(expected)
  BY <1>1
<1>3. k # n
  BY <1>2
<1>4. k + 1 \in (p + 1)..n /\ k + 1 \in p..n /\ ~(k + 1 <= k) /\ (k + 1) - 1 = k
  BY <1>0, <1>2, <1>3
<1>5. fs[k + 1].start = After(fs[k])
  BY <1>4 DEF Begins, Chained
<1>6. Sign(After(fs[k + 1])) = Sign(expected)
  BY <1>1, <1>4
<1> QED BY <1>2, <1>4, <1>5, <1>6 DEF Begins, Crosses

-----------------------------------------------------------------------------
(* The fills that can be read back, and those that were made.              *)

Known(c) == AllFills(c, fills, journal)
Place(c, k) == Nth(Readable(c), k)

LEMMA OfFinite ==
  ASSUME TypeOK, NEW c
  PROVE  /\ Of(c) \in SUBSET Nat /\ IsFiniteSet(Of(c)) /\ Of(c) \subseteq DOMAIN fills
         /\ Readable(c) \in SUBSET Nat /\ IsFiniteSet(Readable(c)) /\ Readable(c) \subseteq Of(c)
         /\ Turns(c) \in SUBSET Nat /\ IsFiniteSet(Turns(c)) /\ Turns(c) \subseteq Of(c)
<1>1. DOMAIN fills = 1..Len(fills) /\ IsFiniteSet(DOMAIN fills)
  BY FS_Interval DEF TypeOK
<1>2. Of(c) \subseteq DOMAIN fills /\ Readable(c) \subseteq Of(c) /\ Turns(c) \subseteq Of(c)
  BY DEF Of, Readable, Turns
<1>3. IsFiniteSet(Of(c))
  BY <1>1, <1>2, FS_Subset
<1>4. IsFiniteSet(Readable(c)) /\ IsFiniteSet(Turns(c))
  BY <1>2, <1>3, FS_Subset
<1>5. Of(c) \subseteq Nat
  BY <1>1, <1>2
<1> QED BY <1>2, <1>3, <1>4, <1>5

\* The k-th fill that is known is the one at the k-th readable place.
LEMMA KnownIs ==
  ASSUME TypeOK, NEW c \in Coins, c \notin mixed
  PROVE  /\ Known(c) \in Seq(Fill) /\ Len(Known(c)) \in Nat
         /\ \A k \in 1..Len(Known(c)) :
              /\ Place(c, k) \in Readable(c) /\ Place(c, k) \in Nat
              /\ Known(c)[k] = fills[Place(c, k)] /\ Known(c)[k].id = Place(c, k)
         /\ \A k, l \in 1..Len(Known(c)) : k < l => Place(c, k) < Place(c, l)
         /\ \A i \in Readable(c) : \E k \in 1..Len(Known(c)) : i = Place(c, k)
<1> DEFINE R == Readable(c)
<1>1. R \in SUBSET Nat /\ IsFiniteSet(R) /\ R \subseteq DOMAIN fills
  BY OfFinite
<1>2. {i \in DOMAIN fills \cap journal : fills[i].coin = c /\ fills[i].time >= JoinedAt} = R
  BY DEF Readable, Of
<1>3. Known(c) = [k \in 1..Cardinality(R) |-> fills[Place(c, k)]]
  BY <1>2 DEF Known, AllFills, Place
<1> HIDE DEF R
<1>4. Cardinality(R) \in Nat
  BY <1>1, FS_CardinalityType
<1>5. /\ \A k \in 1..Cardinality(R) : Place(c, k) \in R
      /\ \A k, l \in 1..Cardinality(R) : k < l => Place(c, k) < Place(c, l)
      /\ \A i \in R : \E k \in 1..Cardinality(R) : i = Place(c, k)
  BY <1>1, NthIs, NthRuns DEF Place, R
<1>6. \A i \in R : fills[i] \in Fill /\ fills[i].id = i
  BY <1>1 DEF TypeOK
<1>7. Known(c) \in Seq(Fill) /\ Len(Known(c)) = Cardinality(R)
  BY <1>3, <1>4, <1>5, <1>6
<1> QED BY <1>1, <1>3, <1>4, <1>5, <1>6, <1>7 DEF R

\* From a place after which nothing is missing, the known fills are those of the
\* exchange: they follow each other, up to the position.
LEMMA NothingMissing ==
  ASSUME IInv, NEW c \in Coins, c \notin mixed, NEW p \in 1..Len(Known(c)),
         \A i \in Of(c) : i > Place(c, p) => i \in Readable(c)
  PROVE  /\ Chained(Known(c), p)
         /\ After(Known(c)[Len(Known(c))]) = position[c]
         /\ \A j \in Of(c) : j <= Place(c, Len(Known(c)))
         /\ \A i \in Of(c) : i >= Place(c, p) => \E k \in p..Len(Known(c)) : i = Place(c, k)
<1> DEFINE fs == Known(c)
           n == Len(fs)
<1>0. TypeOK /\ Follows
  BY DEF IInv
<1>1. /\ fs \in Seq(Fill) /\ n \in Nat /\ p \in 1..n
      /\ \A k \in 1..n : Place(c, k) \in Readable(c) /\ Place(c, k) \in Nat
                         /\ fs[k] = fills[Place(c, k)]
      /\ \A k, l \in 1..n : k < l => Place(c, k) < Place(c, l)
      /\ \A i \in Readable(c) : \E k \in 1..n : i = Place(c, k)
  BY <1>0, KnownIs
<1>2. Readable(c) \subseteq Of(c) /\ Of(c) \in SUBSET Nat
  BY <1>0, OfFinite
<1> HIDE DEF fs, n
<1>3. ASSUME NEW i \in Of(c), i >= Place(c, p) PROVE \E k \in p..n : i = Place(c, k)
  <2>1. i \in Nat /\ Place(c, p) \in Nat
    BY <1>1, <1>2
  <2>2. i \in Readable(c)
    BY <1>1, <1>3, <2>1
  <2>3. PICK k \in 1..n : i = Place(c, k)
    BY <1>1, <2>2
  <2>4. ~(k < p)
    <3> SUFFICES ASSUME k < p PROVE FALSE
      OBVIOUS
    <3>1. Place(c, k) < Place(c, p)
      BY <1>1
    <3> QED BY <1>3, <2>1, <2>3, <3>1
  <2> QED BY <1>1, <2>3, <2>4
<1>4. ASSUME NEW k \in (p + 1)..n PROVE After(fs[k - 1]) = fs[k].start
  <2> DEFINE i == Place(c, k - 1)
  <2>1. k \in 1..n /\ k - 1 \in 1..n /\ k - 1 < k /\ k - 1 >= p
    BY <1>1
  <2>2. i < Place(c, k) /\ i \in Of(c) /\ Place(c, k) \in Of(c) /\ i \in Nat /\ Place(c, k) \in Nat
    BY <1>1, <1>2, <2>1
  <2>3. i >= Place(c, p)
    <3>1. CASE k - 1 = p
      BY <2>2, <3>1
    <3>2. CASE k - 1 > p
      <4>1. Place(c, p) < i
        BY <1>1, <2>1, <3>2
      <4> QED BY <1>1, <2>2, <4>1
    <3> QED BY <1>1, <2>1, <3>1, <3>2
  <2> HIDE DEF i
  <2>4. ~(Place(c, k) <= i)
    BY <2>2
  <2>5. PICK j \in Of(c) : /\ i < j /\ \A l \in Of(c) : i < l => j <= l
                           /\ fills[j].start = After(fills[i])
    BY <1>0, <2>2, <2>4 DEF Follows
  <2>6. j <= Place(c, k) /\ j \in Nat
    BY <1>2, <2>2, <2>5
  <2>7. j >= Place(c, p)
    BY <1>1, <2>2, <2>3, <2>5, <2>6
  <2>8. PICK l \in p..n : j = Place(c, l)
    BY <1>3, <2>7
  <2>9. l = k
    <3>0. l \in 1..n
      BY <1>1
    <3>1. CASE l > k
      <4>1. Place(c, k) < j
        BY <1>1, <2>1, <2>8, <3>0, <3>1
      <4> QED BY <2>2, <2>6, <4>1
    <3>2. CASE l < k - 1
      <4>1. j < i
        BY <1>1, <2>1, <2>8, <3>0, <3>2 DEF i
      <4> QED BY <2>2, <2>5, <2>6, <4>1
    <3>3. CASE l = k - 1
      <4>1. j = i
        BY <2>8, <3>3 DEF i
      <4> QED BY <2>2, <2>5, <4>1
    <3> QED BY <2>1, <3>0, <3>1, <3>2, <3>3
  <2> QED BY <1>1, <2>1, <2>5, <2>8, <2>9 DEF i
<1>5. n \in 1..n /\ Place(c, n) \in Of(c)
  BY <1>1, <1>2
<1>6. ASSUME NEW j \in Of(c) PROVE j <= Place(c, n)
  <2>1. j \in Nat /\ Place(c, n) \in Nat /\ Place(c, p) \in Nat
    BY <1>1, <1>2, <1>5
  <2>2. CASE j < Place(c, p)
    <3>1. p = n \/ Place(c, p) < Place(c, n)
      BY <1>1, <1>5
    <3> QED BY <2>1, <2>2, <3>1
  <2>3. CASE j >= Place(c, p)
    <3>1. PICK k \in p..n : j = Place(c, k)
      BY <1>3, <2>3
    <3>2. k \in 1..n /\ (k = n \/ k < n)
      BY <1>1
    <3>3. k = n \/ Place(c, k) < Place(c, n)
      BY <1>1, <1>5, <3>2
    <3> QED BY <2>1, <3>1, <3>3
  <2> QED BY <2>1, <2>2, <2>3
<1>7. position[c] = After(fills[Place(c, n)])
  BY <1>0, <1>5, <1>6 DEF Follows
<1> QED BY <1>1, <1>3, <1>4, <1>5, <1>6, <1>7 DEF Chained, fs, n

LEMMA IdsOfRest ==
  ASSUME TypeOK, NEW c \in Coins, c \notin mixed, NEW p \in 1..Len(Known(c))
  PROVE  Ids(SubSeq(Known(c), p, Len(Known(c)))) = {Place(c, k) : k \in p..Len(Known(c))}
<1> DEFINE fs == Known(c)
           n == Len(fs)
           rest == SubSeq(fs, p, n)
<1>1. fs \in Seq(Fill) /\ n \in Nat /\ p \in 1..n /\ \A k \in 1..n : fs[k].id = Place(c, k)
  BY KnownIs
<1> HIDE DEF fs, n
<1>2. DOMAIN rest = 1..(n - p + 1) /\ \A k \in 1..(n - p + 1) : rest[k] = fs[p + k - 1]
  BY <1>1 DEF n
<1> HIDE DEF rest
<1>3. ASSUME NEW k \in 1..(n - p + 1) PROVE rest[k].id = Place(c, p + k - 1) /\ p + k - 1 \in p..n
  BY <1>1, <1>2
<1>4. ASSUME NEW k \in p..n PROVE k - p + 1 \in 1..(n - p + 1) /\ p + (k - p + 1) - 1 = k
  BY <1>1
<1>5. Ids(rest) = {rest[k].id : k \in 1..(n - p + 1)}
  BY <1>2 DEF Ids
<1>6. {rest[k].id : k \in 1..(n - p + 1)} \subseteq {Place(c, k) : k \in p..n}
  BY <1>3
<1>7. ASSUME NEW k \in p..n PROVE Place(c, k) \in {rest[l].id : l \in 1..(n - p + 1)}
  <2>1. Place(c, k) = rest[k - p + 1].id /\ k - p + 1 \in 1..(n - p + 1)
    BY <1>3, <1>4
  <2> QED BY <2>1
<1> QED BY <1>5, <1>6, <1>7 DEF rest, fs, n

-----------------------------------------------------------------------------
(* What is judged of a coin in one state.                                  *)

\* A position that is known from its first fill is FULL, with its fills.
LEMMA WholeIsFull ==
  ASSUME IInv, NEW c \in Coins, assets[c] # Nil, KnownWhole(c), Max(Of(c)) \in handled
  PROVE  LET life == Reconstruct(Known(c), assets[c].size, assets[c].capital)
         IN /\ life.status = "FULL" /\ Ids(life.fills) = PositionOf(c)
            /\ life.fills = FillsAt(PositionOf(c)) /\ life.rebuilt = FoldOf(life.fills).capital
<1> DEFINE fs == Known(c)
           n == Len(fs)
           j == Max(Turns(c))
<1>0. TypeOK /\ RowsFollow /\ c \notin mixed /\ Turns(c) # {} /\ PositionOf(c) \subseteq Readable(c)
  BY DEF IInv, KnownWhole
<1>1. /\ Of(c) \in SUBSET Nat /\ IsFiniteSet(Of(c)) /\ Readable(c) \subseteq Of(c)
      /\ Turns(c) \in SUBSET Nat /\ IsFiniteSet(Turns(c)) /\ Turns(c) \subseteq Of(c)
  BY <1>0, OfFinite
<1>2. j \in Turns(c) /\ j \in Nat /\ \A i \in Turns(c) : i <= j
  <2>1. PICK i \in Turns(c) : \A k \in Turns(c) : k <= i
    BY <1>0, <1>1, FiniteMaximum
  <2>2. j = i
    BY <1>1, <2>1, MaxIs
  <2> QED BY <1>1, <2>1, <2>2
<1> HIDE DEF j
<1>3. PositionOf(c) = {i \in Of(c) : i >= j}
  BY <1>0 DEF PositionOf, j
<1>4. j \in Readable(c) /\ \A i \in Of(c) : i > j => i \in Readable(c)
  BY <1>0, <1>1, <1>2, <1>3
<1>5. /\ fs \in Seq(Fill) /\ n \in Nat
      /\ \A k \in 1..n : Place(c, k) \in Readable(c) /\ Place(c, k) \in Nat
                         /\ fs[k] = fills[Place(c, k)]
      /\ \A k, l \in 1..n : k < l => Place(c, k) < Place(c, l)
  BY <1>0, KnownIs
<1>6. PICK p \in 1..n : j = Place(c, p)
  BY <1>0, <1>4, KnownIs
<1>7. /\ Chained(fs, p) /\ After(fs[n]) = position[c]
      /\ \A i \in Of(c) : i <= Place(c, n)
      /\ \A i \in Of(c) : i >= j => \E k \in p..n : i = Place(c, k)
  BY <1>0, <1>4, <1>6, NothingMissing
<1>8. Ids(SubSeq(fs, p, n)) = {Place(c, k) : k \in p..n}
  BY <1>0, <1>6, IdsOfRest
<1> HIDE DEF fs, n
<1>9. n \in 1..n /\ p \in 1..n /\ n \in p..n /\ p \in p..n /\ fs # <<>>
  BY <1>5, <1>6 DEF n
<1>10. ASSUME NEW k \in (p + 1)..n
       PROVE  Sign(fs[k].start) = Sign(After(fs[k]))
  <2>1. k \in 1..n /\ p < k
    BY <1>9
  <2>2. j < Place(c, k) /\ Place(c, k) \in Of(c) /\ Place(c, k) \in Nat
    BY <1>1, <1>5, <1>6, <1>9, <2>1
  <2>3. Place(c, k) \notin Turns(c)
    BY <1>2, <2>2
  <2> QED BY <1>5, <2>1, <2>2, <2>3 DEF Turns
<1>11. \A k \in p..n : Sign(After(fs[k])) = Sign(After(fs[p]))
  BY <1>5, <1>7, <1>9, <1>10, StaysOnSide DEF n
<1>12. assets[c].size = After(fs[n])
  <2>1. Place(c, n) \in Of(c)
    BY <1>1, <1>5, <1>9
  <2>2. Max(Of(c)) = Place(c, n)
    BY <1>1, <1>7, <2>1, MaxIs
  <2>3. LastHandled(c)
    BY <1>7, <2>1, <2>2 DEF LastHandled
  <2> QED BY <1>0, <1>7, <2>3 DEF RowsFollow
<1>13. Begins(fs, p, assets[c].size)
  <2>1. Sign(fs[p].start) # Sign(After(fs[p])) /\ Sign(After(fs[p])) = Sign(assets[c].size)
    BY <1>2, <1>5, <1>6, <1>9, <1>11, <1>12 DEF Turns
  <2>2. ASSUME NEW k \in (p + 1)..n PROVE ~Crosses(fs[k], assets[c].size)
    <3>1. k \in p..n
      BY <1>9
    <3> QED BY <1>10, <1>11, <2>1, <3>1 DEF Crosses
  <2> QED BY <1>7, <1>9, <2>1, <2>2 DEF Begins, Crosses, n
<1> DEFINE life == Reconstruct(fs, assets[c].size, assets[c].capital)
<1>14. life.status = "FULL" /\ life.fills = SubSeq(fs, p, n)
  BY <1>5, <1>9, <1>12, <1>13, Rebuilt, ZenonT(60) DEF n
<1> HIDE DEF life
<1>15. {Place(c, k) : k \in p..n} = PositionOf(c)
  <2>1. ASSUME NEW k \in p..n PROVE Place(c, k) \in PositionOf(c)
    <3>1. k \in 1..n /\ (k = p \/ p < k)
      BY <1>9
    <3>2. Place(c, k) >= j /\ Place(c, k) \in Of(c)
      BY <1>1, <1>2, <1>5, <1>6, <1>9, <3>1
    <3> QED BY <1>3, <3>2
  <2>2. ASSUME NEW i \in PositionOf(c) PROVE i \in {Place(c, k) : k \in p..n}
    BY <1>3, <1>7
  <2> QED BY <2>1, <2>2
<1>16. SubSeq(fs, p, n) = FillsAt(PositionOf(c))
  <2> DEFINE m == n - p + 1
             g == [k \in 1..m |-> Place(c, p + k - 1)]
  <2>1. m \in Nat /\ \A k \in 1..m : p + k - 1 \in p..n /\ p + k - 1 \in 1..n
    BY <1>9
  <2>2. PositionOf(c) \in SUBSET Nat /\ IsFiniteSet(PositionOf(c))
    BY <1>1, <1>3, FS_Subset
  <2>3. g \in [1..m -> PositionOf(c)]
    BY <1>15, <2>1
  <2>4. \A k, l \in 1..m : k < l => g[k] < g[l]
    <3> SUFFICES ASSUME NEW k \in 1..m, NEW l \in 1..m, k < l PROVE g[k] < g[l]
      OBVIOUS
    <3>1. p + k - 1 < p + l - 1 /\ p + k - 1 \in 1..n /\ p + l - 1 \in 1..n
      BY <1>9, <2>1
    <3> QED BY <1>5, <3>1 DEF n
  <2>5. \A i \in PositionOf(c) : \E k \in 1..m : i = g[k]
    <3> SUFFICES ASSUME NEW i \in PositionOf(c) PROVE \E k \in 1..m : i = g[k]
      OBVIOUS
    <3>1. PICK k \in p..n : i = Place(c, k)
      BY <1>15
    <3>2. k - p + 1 \in 1..m /\ p + (k - p + 1) - 1 = k
      BY <1>9
    <3> QED BY <3>1, <3>2
  <2> HIDE DEF m, g
  <2>6. Cardinality(PositionOf(c)) = m /\ \A k \in 1..m : Nth(PositionOf(c), k) = g[k]
    BY <2>1, <2>2, <2>3, <2>4, <2>5, NthUnique
  <2>7. FillsAt(PositionOf(c)) = [k \in 1..m |-> fills[g[k]]]
    BY <2>6 DEF FillsAt
  <2>8. SubSeq(fs, p, n) = [k \in 1..m |-> fs[p + k - 1]]
    BY <1>5, <1>9 DEF m, n
  <2>9. \A k \in 1..m : fs[p + k - 1] = fills[g[k]]
    BY <1>5, <2>1 DEF g, n
  <2> QED BY <2>7, <2>8, <2>9
<1>17. life.rebuilt = FoldOf(life.fills).capital
  BY <1>9, <1>12, LifeIs DEF life, n
<1> QED BY <1>8, <1>14, <1>15, <1>16, <1>17 DEF life, fs, n

\* A lifecycle that is FULL, and has lost nothing after its first fill, is the position.
LEMMA FullHasWhole ==
  ASSUME IInv, NEW c \in Coins, NEW expected, NEW vouched,
         Reconstruct(Known(c), expected, vouched).status = "FULL",
         \A i \in Of(c) : i > Min(Ids(Reconstruct(Known(c), expected, vouched).fills))
                            => i \in Readable(c)
  PROVE  KnownWhole(c) /\ Ids(Reconstruct(Known(c), expected, vouched).fills) = PositionOf(c)
<1> DEFINE fs == Known(c)
           n == Len(fs)
           life == Reconstruct(fs, expected, vouched)
<1>0. TypeOK
  BY DEF IInv
<1>1. fs # <<>> /\ After(fs[n]) = expected
  BY LifeIs
<1>2. c \notin mixed
  BY <1>1 DEF Known, AllFills
<1>3. /\ fs \in Seq(Fill) /\ n \in Nat
      /\ \A k \in 1..n : Place(c, k) \in Readable(c) /\ Place(c, k) \in Nat
                         /\ fs[k] = fills[Place(c, k)]
      /\ \A k, l \in 1..n : k < l => Place(c, k) < Place(c, l)
  BY <1>0, <1>2, KnownIs
<1>4. PICK p : Begins(fs, p, expected) /\ life.fills = SubSeq(fs, p, n)
  BY <1>1, <1>3, Rebuilt
<1>5. p \in 1..n
  BY <1>4 DEF Begins
<1>6. Ids(life.fills) = {Place(c, k) : k \in p..n}
  BY <1>0, <1>2, <1>4, <1>5, IdsOfRest
<1> DEFINE j == Place(c, p)
<1>7. Min(Ids(life.fills)) = j
  <2>1. j \in Ids(life.fills) /\ \A i \in Ids(life.fills) : j <= i
    <3>1. p \in p..n
      BY <1>3, <1>5
    <3>2. ASSUME NEW k \in p..n PROVE j <= Place(c, k)
      <4>1. k \in 1..n /\ (k = p \/ p < k)
        BY <1>3, <1>5
      <4> QED BY <1>3, <1>5, <4>1
    <3> HIDE DEF n, life, j
    <3>3. j \in {Place(c, k) : k \in p..n}
      BY <3>1 DEF j
    <3> QED BY <1>6, <3>2, <3>3
  <2>2. \A i \in Ids(life.fills) : i \in Nat
    <3>1. \A k \in p..n : Place(c, k) \in Nat
      BY <1>3, <1>5
    <3> HIDE DEF n, life
    <3> QED BY <1>6, <3>1
  <2> HIDE DEF j, life
  <2>3. \A i \in Ids(life.fills) : (\A k \in Ids(life.fills) : i <= k) => i = j
    <3>1. \A i \in Ids(life.fills) : i <= j => i = j
      BY <2>1, <2>2
    <3> QED BY <2>1, <3>1
  <2> QED BY <2>1, <2>3 DEF Min
<1>8. \A i \in Of(c) : i > j => i \in Readable(c)
  BY <1>7
<1>9. \A i \in Of(c) : i >= j => \E k \in p..n : i = Place(c, k)
  BY <1>2, <1>5, <1>8, NothingMissing
<1>10. \A k \in p..n : Sign(After(fs[k])) = Sign(expected)
  BY <1>1, <1>3, <1>4, NeverLeaves
<1>11. /\ Of(c) \in SUBSET Nat /\ Readable(c) \subseteq Of(c)
       /\ Turns(c) \in SUBSET Nat /\ Turns(c) \subseteq Of(c)
  BY <1>0, OfFinite
<1> HIDE DEF life, fs, n
<1>12. j \in Turns(c)
  <2>1. p \in p..n /\ j \in Of(c)
    BY <1>3, <1>5, <1>11
  <2>2. Sign(fs[p].start) # Sign(expected) /\ Sign(After(fs[p])) = Sign(expected)
    BY <1>4, <1>10, <2>1 DEF Begins, Crosses
  <2> QED BY <1>3, <1>5, <2>1, <2>2 DEF Turns
<1>13. ASSUME NEW i \in Turns(c) PROVE i <= j
  <2> SUFFICES ASSUME i > j PROVE FALSE
    BY <1>3, <1>5, <1>11
  <2>1. i \in Of(c) /\ i >= j /\ i # j /\ i \in Nat
    BY <1>3, <1>5, <1>11
  <2>2. PICK k \in p..n : i = Place(c, k)
    BY <1>9, <2>1
  <2>3. k # p
    BY <2>1, <2>2
  <2>4. k \in (p + 1)..n /\ k \in 1..n /\ k - 1 \in p..n
    BY <1>3, <1>5, <2>3
  <2>5. fs[k].start = After(fs[k - 1])
    BY <1>4, <2>4 DEF Begins, Chained, n
  <2>6. Sign(fs[k].start) = Sign(expected) /\ Sign(After(fs[k])) = Sign(expected)
    BY <1>10, <2>2, <2>4, <2>5
  <2> QED BY <1>3, <2>2, <2>4, <2>6 DEF Turns
<1>14. Max(Turns(c)) = j
  <2> HIDE DEF j
  <2> QED BY <1>11, <1>12, <1>13, MaxIs
<1>15. PositionOf(c) = {i \in Of(c) : i >= j}
  BY <1>12, <1>14 DEF PositionOf
<1>16. j \in Readable(c) /\ j \in Nat
  BY <1>3, <1>5
<1>17. PositionOf(c) \subseteq Readable(c)
  BY <1>8, <1>11, <1>15, <1>16
<1>18. {Place(c, k) : k \in p..n} = PositionOf(c)
  <2>1. ASSUME NEW k \in p..n PROVE Place(c, k) \in PositionOf(c)
    <3>1. k \in 1..n /\ (k = p \/ p < k)
      BY <1>3, <1>5
    <3>2. Place(c, k) >= j /\ Place(c, k) \in Of(c)
      BY <1>3, <1>5, <1>11, <3>1
    <3> QED BY <1>15, <3>2
  <2>2. ASSUME NEW i \in PositionOf(c) PROVE i \in {Place(c, k) : k \in p..n}
    BY <1>9, <1>15
  <2> QED BY <2>1, <2>2
<1> QED BY <1>2, <1>6, <1>12, <1>17, <1>18 DEF KnownWhole, life, fs

\* The last fill of a coin is one of its position.
LEMMA LastInPosition ==
  ASSUME TypeOK, NEW c, Turns(c) # {}
  PROVE  /\ Max(Turns(c)) \in Turns(c) /\ \A i \in Turns(c) : i <= Max(Turns(c))
         /\ Max(Of(c)) \in PositionOf(c) /\ \A i \in Of(c) : i <= Max(Of(c))
<1>1. /\ Of(c) \in SUBSET Nat /\ IsFiniteSet(Of(c)) /\ Of(c) \in SUBSET Int
      /\ Turns(c) \in SUBSET Nat /\ IsFiniteSet(Turns(c)) /\ Turns(c) \in SUBSET Int
      /\ Turns(c) \subseteq Of(c)
  BY OfFinite
<1>2. PICK j \in Turns(c) : \A k \in Turns(c) : k <= j
  BY <1>1, FiniteMaximum
<1>3. Max(Turns(c)) = j
  BY <1>1, <1>2, MaxIs
<1>4. PICK i \in Of(c) : \A k \in Of(c) : k <= i
  BY <1>1, FiniteMaximum
<1>5. Max(Of(c)) = i
  BY <1>1, <1>4, MaxIs
<1>6. i >= j
  BY <1>1, <1>2, <1>4
<1>7. i \in PositionOf(c)
  BY <1>3, <1>6 DEF PositionOf
<1> QED BY <1>2, <1>3, <1>4, <1>5, <1>7

LEMMA FullWhileJudged == ASSUME IInv PROVE FullIsWhole
<1> SUFFICES ASSUME result # Nil, NEW c \in DOMAIN result.lives
             PROVE  LET life == result.lives[c]
                        ids  == Ids(life.fills)
                    IN /\ KnownWhole(c) /\ Max(Of(c)) \in handled =>
                            life.status = "FULL" /\ ids = PositionOf(c)
                       /\ life.status = "FULL" /\ (\A i \in Of(c) : i > Min(ids) => i \in Readable(c)) =>
                            KnownWhole(c) /\ ids = PositionOf(c)
  BY DEF FullIsWhole
<1>1. /\ c \in Coins /\ assets[c] # Nil
      /\ result.lives[c] = Reconstruct(Known(c), assets[c].size, assets[c].capital)
  BY DEF IInv, LivesFollow, Known
<1> QED BY <1>1, WholeIsFull, FullHasWhole

LEMMA CapitalWhileJudged == ASSUME IInv PROVE CapitalAgrees
<1> SUFFICES ASSUME result # Nil, NEW c \in DOMAIN result.lives, KnownWhole(c),
                    PositionOf(c) \subseteq handled
             PROVE  assets[c].capital \approx result.lives[c].rebuilt
  BY DEF CapitalAgrees
<1>1. /\ c \in Coins /\ assets[c] # Nil /\ c \notin mixed /\ Turns(c) # {}
      /\ result.lives[c] = Reconstruct(Known(c), assets[c].size, assets[c].capital)
  BY DEF IInv, LivesFollow, Known, KnownWhole
<1>2. Max(Of(c)) \in PositionOf(c)
  BY <1>1, LastInPosition DEF IInv
<1>3. result.lives[c].rebuilt = FoldOf(FillsAt(PositionOf(c))).capital
  BY <1>1, <1>2, WholeIsFull
<1>4. FoldOf(FillsAt(PositionOf(c))).capital = assets[c].capital
  BY <1>1 DEF IInv, CapitalFollows, FoldOf
<1>5. result.lives[c].rebuilt = assets[c].capital
  BY <1>3, <1>4
<1> QED BY <1>5 DEF \approx

-----------------------------------------------------------------------------
(* The invariant.                                                          *)

LEMMA InitIInv == Init => IInv
<1> SUFFICES ASSUME Init PROVE IInv
  OBVIOUS
<1>1. TypeOK
  BY OpeningsAssumption DEF Init, TypeOK
<1>2. \A c : Of(c) = {}
  BY DEF Init, Of
<1>3. Follows /\ RowsFollow /\ LivesFollow
  BY <1>2 DEF Init, Follows, RowsFollow, LastHandled, LivesFollow
<1>4. CapitalFollows
  BY <1>2 DEF CapitalFollows, Turns
<1>5. Timely /\ IntentFollows
  BY DEF Init, Timely, IntentFollows
<1> QED BY <1>1, <1>3, <1>4, <1>5 DEF IInv

LEMMA SetHeldIInv == ASSUME IInv, NEW a, SetHeld(a) PROVE IInv'
<1>1. UNCHANGED <<mixed, fills, position, journal, handled, assets>> /\ result' = Nil
  BY DEF SetHeld
<1>2. \A c : Of(c)' = Of(c) /\ (LastHandled(c)' <=> LastHandled(c))
  BY <1>1 DEF Of, LastHandled
<1>3. TypeOK' /\ LivesFollow'
  BY <1>1 DEF IInv, TypeOK, LivesFollow
<1>4. Follows'
  BY <1>1, <1>2 DEF IInv, Follows
<1>5. RowsFollow'
  BY <1>1, <1>2 DEF IInv, RowsFollow
<1>6. CapitalFollows'
  <2>1. \A c : Turns(c)' = Turns(c) /\ PositionOf(c)' = PositionOf(c)
    BY <1>1, <1>2 DEF Turns, PositionOf
  <2>2. \A S : FillsAt(S)' = FillsAt(S)
    BY <1>1 DEF FillsAt
  <2> QED BY <1>1, <2>1, <2>2 DEF IInv, CapitalFollows
<1>7. Timely' /\ IntentFollows'
  BY <1>1 DEF IInv, Timely, IntentFollows
<1> QED BY <1>3, <1>4, <1>5, <1>6, <1>7 DEF IInv

\* The fill that is made.
LEMMA NextFill ==
  ASSUME IInv, NEW m \in Moves, Trade(m)
  PROVE  /\ m.coin \in Coins /\ Next_(m) \in Fill /\ Next_(m).coin = m.coin
         /\ Next_(m).id = Len(fills) + 1 /\ Next_(m).start = position[m.coin]
         /\ After(Next_(m)) = position'[m.coin] /\ Len(fills) \in Nat
         /\ fills' \in Seq(Fill) /\ Len(fills') = Len(fills) + 1
         /\ fills'[Len(fills) + 1] = Next_(m)
         /\ \A i \in 1..Len(fills) : fills'[i] = fills[i]
         /\ position' \in [Coins -> Int]
         /\ \A c \in Coins \ {m.coin} : position'[c] = position[c]
<1> USE DEF IInv, TypeOK
<1>1. m.coin \in Coins /\ m.delta \in Int \ {0} /\ m.wait \in Nat
  BY MovesAssumption
<1>2. position[m.coin] \in Int /\ Len(fills) \in Nat /\ fills \in Seq(Fill)
  BY <1>1
<1>3. Now \in Nat
  <2>1. CASE fills = <<>>
    BY <2>1 DEF Now
  <2>2. CASE fills # <<>>
    <3>1. fills[Len(fills)] \in Fill
      BY <1>2, <2>2
    <3>2. fills[Len(fills)].time \in Nat
      BY <3>1 DEF Fill
    <3> QED BY <2>2, <3>2 DEF Now
  <2> QED BY <2>1, <2>2
<1>4. Prices[Len(fills) + 1] \in Nat
  BY <1>2, PricesAssumption DEF Trade
<1>5. /\ Next_(m) \in Fill /\ Next_(m).coin = m.coin /\ Next_(m).id = Len(fills) + 1
      /\ Next_(m).start = position[m.coin] /\ Next_(m).delta = m.delta
  BY <1>1, <1>2, <1>3, <1>4 DEF Next_, Fill
<1> HIDE DEF IInv, TypeOK
<1>6. fills' = Append(fills, Next_(m)) /\ position' = [position EXCEPT ![m.coin] = @ + m.delta]
  BY DEF Trade
<1>7. position \in [Coins -> Int]
  BY DEF IInv, TypeOK
<1>8. /\ position' \in [Coins -> Int] /\ position'[m.coin] = position[m.coin] + m.delta
      /\ \A c \in Coins \ {m.coin} : position'[c] = position[c]
  BY <1>1, <1>6, <1>7
<1>9. /\ fills' \in Seq(Fill) /\ Len(fills') = Len(fills) + 1
      /\ fills'[Len(fills) + 1] = Next_(m)
      /\ \A i \in 1..Len(fills) : fills'[i] = fills[i]
  BY <1>2, <1>5, <1>6
<1> QED BY <1>1, <1>2, <1>5, <1>8, <1>9 DEF After

\* One more place, of the coin of the fill, and the last one.
LEMMA NextPlace ==
  ASSUME IInv, NEW m \in Moves, Trade(m)
  PROVE  /\ \A c : c # m.coin => Of(c)' = Of(c)
         /\ Of(m.coin)' = Of(m.coin) \cup {Len(fills) + 1}
         /\ \A c : \A i \in Of(c) : i \in Nat /\ i < Len(fills) + 1 /\ fills'[i] = fills[i]
<1> DEFINE n == Len(fills) + 1
<1>1. /\ DOMAIN fills = 1..Len(fills) /\ DOMAIN fills' = 1..n /\ Len(fills) \in Nat
      /\ fills'[n].coin = m.coin /\ \A i \in 1..Len(fills) : fills'[i] = fills[i]
  BY NextFill DEF IInv, TypeOK
<1> HIDE DEF n
<1>2. 1..n = (1..Len(fills)) \cup {n} /\ n \notin 1..Len(fills)
  BY <1>1 DEF n
<1>3. \A c : Of(c)' = Of(c) \cup {i \in {n} : m.coin = c}
  <2> SUFFICES ASSUME NEW c PROVE Of(c)' = Of(c) \cup {i \in {n} : m.coin = c}
    OBVIOUS
  <2>1. Of(c)' = {i \in 1..n : fills'[i].coin = c} /\ Of(c) = {i \in 1..Len(fills) : fills[i].coin = c}
    BY <1>1 DEF Of
  <2> QED BY <1>1, <1>2, <2>1
<1>4. \A c : \A i \in Of(c) : i \in Nat /\ i < n /\ fills'[i] = fills[i]
  BY <1>1 DEF Of, n
<1> QED BY <1>3, <1>4 DEF n

LEMMA TradeFollows == ASSUME IInv, NEW m \in Moves, Trade(m) PROVE Follows'
<1> DEFINE n == Len(fills) + 1
<1>1. /\ m.coin \in Coins /\ fills'[n].start = position[m.coin]
      /\ After(fills'[n]) = position'[m.coin] /\ n \in Nat
      /\ \A c \in Coins \ {m.coin} : position'[c] = position[c]
  BY NextFill
<1>2. /\ \A c : c # m.coin => Of(c)' = Of(c)
      /\ Of(m.coin)' = Of(m.coin) \cup {n}
      /\ \A c : \A i \in Of(c) : i \in Nat /\ i < n /\ fills'[i] = fills[i]
  BY NextPlace
<1> HIDE DEF n
<1>3. ASSUME NEW c \in Coins, NEW i \in Of(c)'
      PROVE  IF \A j \in Of(c)' : j <= i THEN position'[c] = After(fills'[i])
             ELSE \E j \in Of(c)' : /\ i < j /\ \A k \in Of(c)' : i < k => j <= k
                                    /\ fills'[j].start = After(fills'[i])
  <2>1. CASE c # m.coin
    <3>1. Of(c)' = Of(c) /\ position'[c] = position[c] /\ \A j \in Of(c) : fills'[j] = fills[j]
      BY <1>1, <1>2, <2>1
    <3> QED BY <1>3, <3>1 DEF IInv, Follows
  <2>2. CASE c = m.coin /\ i = n
    <3>1. \A j \in Of(c)' : j <= i
      BY <1>1, <1>2, <2>2
    <3> QED BY <1>1, <2>2, <3>1
  <2>3. CASE c = m.coin /\ i # n
    <3>1. i \in Of(c) /\ i \in Nat /\ i < n /\ n \in Of(c)' /\ fills'[i] = fills[i]
      BY <1>2, <1>3, <2>3
    <3>2. ~(\A j \in Of(c)' : j <= i)
      BY <1>1, <3>1
    <3>3. CASE \A j \in Of(c) : j <= i
      <4>1. position[c] = After(fills[i])
        BY <3>1, <3>3 DEF IInv, Follows
      <4>2. \A k \in Of(c)' : i < k => n <= k
        BY <1>1, <1>2, <2>3, <3>1, <3>3
      <4> QED BY <1>1, <2>3, <3>1, <3>2, <4>1, <4>2
    <3>4. CASE ~\A j \in Of(c) : j <= i
      <4>1. PICK j \in Of(c) : /\ i < j /\ \A k \in Of(c) : i < k => j <= k
                               /\ fills[j].start = After(fills[i])
        BY <3>1, <3>4 DEF IInv, Follows
      <4>2. j \in Of(c)' /\ j \in Nat /\ j < n /\ fills'[j] = fills[j]
        BY <1>2, <2>3
      <4>3. \A k \in Of(c)' : i < k => j <= k
        BY <1>1, <1>2, <2>3, <4>1, <4>2
      <4> QED BY <3>1, <3>2, <4>1, <4>2, <4>3
    <3> QED BY <3>3, <3>4
  <2> QED BY <2>1, <2>2, <2>3
<1> QED BY <1>3 DEF Follows

\* The fills that turn the position, and the fills of the position, after the fill.
LEMMA NextTurns ==
  ASSUME IInv, NEW m \in Moves, Trade(m)
  PROVE  LET c == m.coin
             n == Len(fills) + 1
             f == Next_(m)
         IN /\ \A d : d # c => Turns(d)' = Turns(d) /\ PositionOf(d)' = PositionOf(d)
            /\ Sign(f.start) # Sign(After(f)) => Turns(c)' # {} /\ PositionOf(c)' = {n}
            /\ Sign(f.start) = Sign(After(f)) =>
                 /\ Turns(c)' = Turns(c)
                 /\ Turns(c) # {} => PositionOf(c)' = PositionOf(c) \cup {n}
<1> DEFINE c == m.coin
           n == Len(fills) + 1
           f == Next_(m)
<1>1. n \in Nat /\ fills'[n] = f /\ TypeOK
  BY NextFill DEF IInv
<1>2. /\ \A d : d # c => Of(d)' = Of(d)
      /\ Of(c)' = Of(c) \cup {n}
      /\ \A d : \A i \in Of(d) : i \in Nat /\ i < n /\ fills'[i] = fills[i]
  BY NextPlace
<1>3. \A d : /\ Turns(d) = {i \in Of(d) : Sign(fills[i].start) # Sign(After(fills[i]))}
             /\ Turns(d)' = {i \in Of(d)' : Sign(fills'[i].start) # Sign(After(fills'[i]))}
  BY DEF Turns
<1>4. \A d : /\ PositionOf(d) = IF Turns(d) = {} THEN Of(d) ELSE {i \in Of(d) : i >= Max(Turns(d))}
             /\ PositionOf(d)' = IF Turns(d)' = {} THEN Of(d)' ELSE {i \in Of(d)' : i >= Max(Turns(d)')}
  BY DEF PositionOf
<1> HIDE DEF n, f
<1>5. ASSUME NEW d, d # c PROVE Turns(d)' = Turns(d) /\ PositionOf(d)' = PositionOf(d)
  <2>1. Of(d)' = Of(d) /\ \A i \in Of(d) : fills'[i] = fills[i]
    BY <1>2, <1>5
  <2>2. Turns(d)' = Turns(d)
    BY <1>3, <2>1
  <2> QED BY <1>4, <2>1, <2>2
<1>6. ASSUME Sign(f.start) # Sign(After(f)) PROVE Turns(c)' # {} /\ PositionOf(c)' = {n}
  <2>1. n \in Turns(c)'
    BY <1>1, <1>2, <1>3, <1>6
  <2>2. \A i \in Of(c)' : i \in Int /\ i <= n
    BY <1>1, <1>2
  <2>3. Turns(c)' \in SUBSET Int /\ \A i \in Turns(c)' : i <= n
    BY <1>3, <2>2
  <2>4. Max(Turns(c)') = n
    BY <2>1, <2>3, MaxIs
  <2>5. PositionOf(c)' = {i \in Of(c)' : i >= n}
    BY <1>4, <2>1, <2>4
  <2> QED BY <1>1, <1>2, <2>1, <2>2, <2>5
<1>7. ASSUME Sign(f.start) = Sign(After(f))
      PROVE  /\ Turns(c)' = Turns(c)
             /\ Turns(c) # {} => PositionOf(c)' = PositionOf(c) \cup {n}
  <2>1. Turns(c)' = Turns(c)
    BY <1>1, <1>2, <1>3, <1>7
  <2>2. ASSUME Turns(c) # {} PROVE PositionOf(c)' = PositionOf(c) \cup {n}
    <3>1. Max(Turns(c)) \in Turns(c)
      BY <1>1, <2>2, LastInPosition
    <3>2. Max(Turns(c)) \in Nat /\ n >= Max(Turns(c))
      BY <1>1, <1>2, <1>3, <3>1
    <3>3. PositionOf(c)' = {i \in Of(c) \cup {n} : i >= Max(Turns(c))}
      BY <1>2, <1>4, <2>1, <2>2
    <3>4. PositionOf(c) = {i \in Of(c) : i >= Max(Turns(c))}
      BY <1>4, <2>2
    <3> QED BY <3>2, <3>3, <3>4
  <2> QED BY <2>1, <2>2
<1> QED BY <1>5, <1>6, <1>7 DEF n, f

-----------------------------------------------------------------------------
(* The capital of a row, and of a fold over the fills.                     *)

\* A fill that leaves a position open turns it, adds to it or takes from it.
LEMMA KindIs ==
  ASSUME NEW f \in Fill, After(f) # 0
  PROVE  IF Sign(f.start) # Sign(After(f)) THEN Kind(f) \in {"OPEN", "REVERSAL"}
         ELSE f.start # 0 /\ Kind(f) \in {"INCREASE", "REDUCTION"}
<1> DEFINE a == f.start
           b == After(f)
<1>1. a \in Int /\ b \in Int /\ f.delta \in Int
  BY DEF Fill, After
<1>2. Sign(a) = Sign(b) => a # 0 /\ ~(a * b < 0)
  <2> HIDE DEF a, b
  <2>1. ASSUME a > 0, b > 0 PROVE ~(a * b < 0)
    BY <1>1, <2>1
  <2>2. ASSUME a < 0, b < 0 PROVE ~(a * b < 0)
    BY <1>1, <2>2
  <2>3. b # 0
    BY DEF b
  <2> QED BY <1>1, <2>1, <2>2, <2>3 DEF Sign
<1>3. Sign(a) # Sign(b) => a = 0 \/ a * b < 0
  <2> HIDE DEF a, b
  <2>1. ASSUME a > 0, b < 0 PROVE a * b < 0
    BY <1>1, <2>1
  <2>2. ASSUME a < 0, b > 0 PROVE a * b < 0
    BY <1>1, <2>2
  <2>3. b # 0
    BY DEF b
  <2> QED BY <1>1, <2>1, <2>2, <2>3 DEF Sign
<1> HIDE DEF a
<1>4. /\ a = 0 => Kind(f) = "OPEN"
      /\ a # 0 /\ a * b < 0 => Kind(f) = "REVERSAL"
      /\ a # 0 /\ ~(a * b < 0) => Kind(f) \in {"INCREASE", "REDUCTION"}
  <2> DEFINE none == f.start = 0
             over == f.start * After(f) < 0
             same == f.start * f.delta > 0
  <2>1. Kind(f) = CASE none -> "OPEN" [] After(f) = 0 -> "FULL_CLOSE"
                    [] ~none /\ over -> "REVERSAL" [] ~none /\ same -> "INCREASE"
                    [] OTHER -> "REDUCTION"
    BY DEF Kind
  <2>2. (none <=> a = 0) /\ (over <=> a * b < 0) /\ After(f) # 0
    BY DEF a
  <2>3. over => ~same
    <3>1. \A x, y \in Int : x * (x + y) < 0 => ~(x * y > 0)
      <4> SUFFICES ASSUME NEW x \in Int, NEW y \in Int, x * (x + y) < 0, x * y > 0 PROVE FALSE
        OBVIOUS
      <4>1. CASE x > 0
        <5>1. y > 0
          BY <4>1
        <5>2. x * (x + y) >= 0
          BY <4>1, <5>1
        <5> QED BY <5>2
      <4>2. CASE x < 0
        <5>1. y < 0
          BY <4>2
        <5>2. x * (x + y) >= 0
          BY <4>2, <5>1
        <5> QED BY <5>2
      <4> QED BY <4>1, <4>2
    <3>2. f.start \in Int /\ f.delta \in Int /\ After(f) = f.start + f.delta
      BY DEF Fill, After
    <3> QED BY <3>1, <3>2
  <2> HIDE DEF none, over, same
  <2>4. none => Kind(f) = "OPEN"
    BY <2>1
  <2>5. ~none /\ over => Kind(f) = "REVERSAL"
    BY <2>1, <2>2, <2>3
  <2>6. ~none /\ ~over => Kind(f) \in {"INCREASE", "REDUCTION"}
    BY <2>1, <2>2
  <2> QED BY <2>2, <2>4, <2>5, <2>6
<1>5. ASSUME Sign(a) # Sign(b) PROVE Kind(f) \in {"OPEN", "REVERSAL"}
  BY <1>3, <1>4, <1>5
<1>6. ASSUME Sign(a) = Sign(b) PROVE a # 0 /\ Kind(f) \in {"INCREASE", "REDUCTION"}
  BY <1>2, <1>4, <1>6
<1> QED BY <1>5, <1>6 DEF a

LEMMA AddedType ==
  ASSUME NEW f \in Fill
  PROVE  /\ Added(f) \in Int \X Int /\ Zero ++ Added(f) = Added(f)
         /\ Size(After(f)) \in Int /\ Size(f.start) \in Int
<1>1. f.start \in Int /\ f.delta \in Int /\ f.price \in Int /\ After(f) \in Int
  BY DEF Fill, After
<1>2. Size(After(f)) \in Int /\ Size(f.start) \in Int /\ Size(f.delta) \in Int
  BY <1>1 DEF Size
<1> DEFINE s == IF Kind(f) = "REVERSAL" THEN Size(After(f)) ELSE Size(f.delta)
<1>3. Added(f) = <<s * f.price, 1>>
  BY DEF Added, Q
<1>4. s \in Int
  BY <1>2
<1> HIDE DEF s
<1>5. s * f.price \in Int
  BY <1>1, <1>4
<1> DEFINE x == s * f.price
<1> HIDE DEF x
<1>6. Added(f) = <<x, 1>> /\ x \in Int
  BY <1>3, <1>5 DEF x
<1>7. Zero ++ <<x, 1>> = <<x, 1>>
  BY <1>6 DEF ++, Zero, Q
<1> QED BY <1>2, <1>6, <1>7

LEMMA CapitalType ==
  ASSUME NEW f \in Fill, NEW prior, prior = Nil \/ prior \in Row
  PROVE  Capital(f, prior) \in Int \X Int
<1>1. Added(f) \in Int \X Int /\ Size(After(f)) \in Int /\ Size(f.start) \in Int
  BY AddedType
<1>2. prior # Nil => prior.capital \in Int \X Int
  BY DEF Row
<1>3. \A p, q \in Int \X Int : p ++ q \in Int \X Int /\ p ** q \in Int \X Int
  <2> SUFFICES ASSUME NEW p \in Int \X Int, NEW q \in Int \X Int
               PROVE  p ++ q \in Int \X Int /\ p ** q \in Int \X Int
    OBVIOUS
  <2>1. p[1] \in Int /\ p[2] \in Int /\ q[1] \in Int /\ q[2] \in Int
    OBVIOUS
  <2> QED BY <2>1 DEF ++, **, Q
<1>4. Q(Size(After(f)), Size(f.start)) \in Int \X Int /\ Zero \in Int \X Int
  BY <1>1 DEF Q, Zero
<1>5. CASE Kind(f) \in {"OPEN", "REVERSAL"}
  BY <1>1, <1>5 DEF Capital
<1>6. CASE Kind(f) = "INCREASE"
  BY <1>1, <1>2, <1>3, <1>4, <1>6 DEF Capital
<1>7. CASE Kind(f) = "REDUCTION"
  BY <1>2, <1>3, <1>4, <1>7 DEF Capital
<1>8. CASE Kind(f) \notin {"OPEN", "REVERSAL", "INCREASE", "REDUCTION"}
  BY <1>4, <1>8 DEF Capital
<1> QED BY <1>5, <1>6, <1>7, <1>8

\* One more fill changes the capital in the row as it changes the capital of the fold.
LEMMA AbsorbsLike ==
  ASSUME NEW f \in Fill, After(f) # 0, NEW acc, NEW prior
  PROVE  LET acc1 == Absorb(acc, f)
         IN /\ Sign(f.start) # Sign(After(f)) /\ acc = Nothing =>
                 acc1 = [events |-> acc1.events, capital |-> Capital(f, prior)]
            /\ /\ Sign(f.start) = Sign(After(f)) /\ prior # Nil
               /\ acc = [events |-> acc.events, capital |-> prior.capital]
               => acc1 = [events |-> acc1.events, capital |-> Capital(f, prior)]
<1> DEFINE acc1 == Absorb(acc, f)
           last == acc.events[Len(acc.events)]
           merges == acc.events # <<>> /\ last.time = f.time
           event == [id |-> f.id, time |-> f.time,
                     added |-> IF merges THEN last.added ++ Added(f) ELSE Added(f)]
           grown == IF merges THEN Append(Front(acc.events), event) ELSE Append(acc.events, event)
<1>1. Kind(f) \in Entries =>
        acc1 = [events |-> grown,
                capital |-> IF Kind(f) = "REVERSAL" THEN Added(f) ELSE acc.capital ++ Added(f)]
  <2> HIDE DEF event
  <2>1. Absorb(acc, f) =
          CASE Kind(f) \in Entries ->
                 [events  |-> IF merges THEN Append(Front(acc.events), event)
                                        ELSE Append(acc.events, event),
                  capital |-> IF Kind(f) = "REVERSAL" THEN Added(f) ELSE acc.capital ++ Added(f)]
            [] Kind(f) = "REDUCTION" ->
                 [acc EXCEPT !.capital = @ ** Q(Size(After(f)), Size(f.start))]
            [] Kind(f) = "FULL_CLOSE" -> [acc EXCEPT !.capital = Zero]
    BY DEF Absorb, event
  <2> QED BY <2>1 DEF Entries
<1>2. Kind(f) = "REDUCTION" =>
        acc1 = [acc EXCEPT !.capital = @ ** Q(Size(After(f)), Size(f.start))]
  BY DEF Absorb, Entries
<1> HIDE DEF acc1, grown
<1>3. ASSUME Sign(f.start) # Sign(After(f)), acc = Nothing
      PROVE  acc1 = [events |-> acc1.events, capital |-> Capital(f, prior)]
  <2>1. Kind(f) \in {"OPEN", "REVERSAL"}
    BY <1>3, KindIs
  <2>2. Capital(f, prior) = Added(f)
    BY <2>1 DEF Capital
  <2>3. acc.capital ++ Added(f) = Added(f)
    BY <1>3, AddedType DEF Nothing
  <2>4. acc1 = [events |-> grown, capital |-> Added(f)]
    BY <1>1, <2>1, <2>3 DEF Entries
  <2> QED BY <2>2, <2>4
<1>4. ASSUME Sign(f.start) = Sign(After(f)), prior # Nil,
             acc = [events |-> acc.events, capital |-> prior.capital]
      PROVE  acc1 = [events |-> acc1.events, capital |-> Capital(f, prior)]
  <2>1. acc.capital = prior.capital
    BY <1>4
  <2>2. CASE Kind(f) = "INCREASE"
    <3>1. Capital(f, prior) = prior.capital ++ Added(f)
      BY <1>4, <2>2 DEF Capital
    <3>2. acc1 = [events |-> grown, capital |-> prior.capital ++ Added(f)]
      BY <1>1, <2>1, <2>2 DEF Entries
    <3> QED BY <3>1, <3>2
  <2>3. CASE Kind(f) = "REDUCTION"
    <3>1. Capital(f, prior) = prior.capital ** Q(Size(After(f)), Size(f.start))
      BY <1>4, <2>3 DEF Capital
    <3> DEFINE p == Q(Size(After(f)), Size(f.start))
    <3>2. acc1 = [acc EXCEPT !.capital = acc.capital ** p]
      BY <1>2, <2>3
    <3> HIDE DEF p
    <3>3. acc1 = [events |-> acc.events, capital |-> prior.capital ** p]
      BY <1>4, <2>1, <3>2
    <3> QED BY <3>1, <3>3 DEF p
  <2> QED BY <1>4, <2>2, <2>3, KindIs
<1> QED BY <1>3, <1>4 DEF acc1

-----------------------------------------------------------------------------
(* The capital that fills add up to, in whatever order.                    *)

Amounts(made) == [i \in DOMAIN made |-> Added(made[i])[1]]
AddedBy(made, S) == FoldLeft(LAMBDA q, i : q ++ Added(made[i]), Zero, SetToSeq(S))

LEMMA AmountIs ==
  ASSUME NEW f \in Fill
  PROVE  Added(f)[1] \in Int /\ Added(f) = <<Added(f)[1], 1>>
<1>1. Added(f) \in Int \X Int
  BY AddedType
<1>2. Added(f)[2] = 1
  BY DEF Added, Q
<1> QED BY <1>1, <1>2

LEMMA WholesAdd ==
  ASSUME NEW a \in Int, NEW b \in Int
  PROVE  <<a, 1>> ++ <<b, 1>> = <<a + b, 1>>
BY DEF ++, Q

LEMMA AmountsIntegral ==
  ASSUME NEW made \in Seq(Fill), NEW S \in SUBSET DOMAIN made
  PROVE  /\ Integral(Amounts(made), S) /\ IsFiniteSet(S)
         /\ \A i \in S : Added(made[i]) = <<Amounts(made)[i], 1>>
         /\ SumFunctionOnSet(Amounts(made), S) \in Int
<1>1. \A i \in S : made[i] \in Fill /\ Amounts(made)[i] = Added(made[i])[1]
  BY DEF Amounts
<1>2. Integral(Amounts(made), S) /\ \A i \in S : Added(made[i]) = <<Amounts(made)[i], 1>>
  BY <1>1, AmountIs DEF Integral
<1>3. IsFiniteSet(S)
  <2>1. DOMAIN made = 1..Len(made) /\ IsFiniteSet(1..Len(made))
    BY FS_Interval
  <2> QED BY <2>1, FS_Subset
<1> QED BY <1>2, <1>3, SumType

\* A finite set is run through once.
LEMMA SeqOfSet ==
  ASSUME NEW S, IsFiniteSet(S)
  PROVE  /\ SetToSeq(S) \in Seq(S) /\ Len(SetToSeq(S)) = Cardinality(S)
         /\ \A k, l \in 1..Len(SetToSeq(S)) : SetToSeq(S)[k] = SetToSeq(S)[l] => k = l
         /\ \A x \in S : \E k \in 1..Len(SetToSeq(S)) : x = SetToSeq(S)[k]
<1> DEFINE n == Cardinality(S)
           g == SetToSeq(S)
<1>1. n \in Nat
  BY FS_CardinalityType
<1>2. \E h \in [1..n -> S] : IsInjective(h)
  <2>1. IsFiniteSet(1..n) /\ Cardinality(1..n) = n
    BY <1>1, FS_Interval
  <2>2. ExistsBijection(1..n, S)
    BY <2>1, FS_SameCardinalityBij
  <2> QED BY <2>2 DEF ExistsBijection, Bijection, Injection, IsInjective
<1>3. g \in [1..n -> S] /\ IsInjective(g)
  BY <1>2 DEF SetToSeq
<1> HIDE DEF g
<1>4. g \in Injection(1..n, S)
  BY <1>3 DEF Injection, IsInjective
<1>5. g \in Surjection(1..n, S)
  <2>1. Cardinality(1..n) = n
    BY <1>1, FS_Interval
  <2> QED BY <1>4, <2>1, FS_Injection
<1>6. g \in Seq(S) /\ Len(g) = n
  BY <1>1, <1>3
<1>7. \A k, l \in 1..n : g[k] = g[l] => k = l
  BY <1>3 DEF IsInjective
<1>8. \A x \in S : \E k \in 1..n : x = g[k]
  BY <1>5 DEF Surjection
<1> QED BY <1>6, <1>7, <1>8 DEF g

\* The sum that the fold takes away from the places of a sequence, the last one first.
TakesSum(made, seq, S, g) ==
  g = [s \in S |-> IF s = {} THEN Zero ELSE g[s \ {Max(s)}] ++ Added(made[seq[Max(s)]])]

LEMMA SumOfSet ==
  ASSUME NEW made \in Seq(Fill), NEW S \in SUBSET DOMAIN made
  PROVE  AddedBy(made, S) = <<SumFunctionOnSet(Amounts(made), S), 1>>
<1> DEFINE seq == SetToSeq(S)
           n == Len(seq)
           At(s) == {seq[k] : k \in s}
           Sum(A) == SumFunctionOnSet(Amounts(made), A)
           iter == CHOOSE g : TakesSum(made, seq, SUBSET (1..n), g)
<1>0. /\ seq \in Seq(S) /\ n \in Nat /\ DOMAIN seq = 1..n
      /\ \A k \in 1..n : seq[k] \in S
      /\ \A k, l \in 1..n : seq[k] = seq[l] => k = l
      /\ \A x \in S : \E k \in 1..n : x = seq[k]
  <2>1. IsFiniteSet(S)
    BY AmountsIntegral
  <2> QED BY <2>1, SeqOfSet
<1>1. AddedBy(made, S) = iter[1..n]
  BY <1>0 DEF AddedBy, FoldLeft, MapThenFoldSet, TakesSum
<1> HIDE DEF seq
<1>2. ASSUME NEW s \in SUBSET (1..n), s # {}
      PROVE  /\ Max(s) \in s /\ s \ {Max(s)} \in SUBSET (1..n)
             /\ At(s) = At(s \ {Max(s)}) \cup {seq[Max(s)]}
             /\ seq[Max(s)] \notin At(s \ {Max(s)}) /\ seq[Max(s)] \in S
  <2>1. s \in SUBSET Int /\ IsFiniteSet(s)
    <3>1. IsFiniteSet(1..n)
      BY <1>0, FS_Interval
    <3>2. IsFiniteSet(s)
      BY <3>1, FS_Subset
    <3>3. s \in SUBSET Int
      BY <1>0
    <3> QED BY <3>2, <3>3
  <2>2. PICK m \in s : \A x \in s : x <= m
    BY <1>2, <2>1, FiniteMaximum
  <2>3. Max(s) = m
    BY <2>1, <2>2, MaxIs
  <2>4. At(s) = At(s \ {m}) \cup {seq[m]}
    BY <2>2
  <2>5. seq[m] \notin At(s \ {m})
    BY <1>0, <2>2
  <2> QED BY <1>0, <2>2, <2>3, <2>4, <2>5
<1>3. \A s \in SUBSET (1..n) : At(s) \in SUBSET S
  BY <1>0
<1>4. Sum({}) = 0
  BY SumEmpty
<1>5. ASSUME NEW s \in SUBSET (1..n), s # {}
      PROVE  <<Sum(At(s)), 1>> = <<Sum(At(s \ {Max(s)})), 1>> ++ Added(made[seq[Max(s)]])
  <2> DEFINE A == At(s \ {Max(s)})
             x == seq[Max(s)]
  <2>1. At(s) = A \cup {x} /\ x \notin A /\ x \in S /\ A \in SUBSET S
    BY <1>2, <1>3, <1>5
  <2> HIDE DEF A, x
  <2>2. A \cup {x} \in SUBSET DOMAIN made /\ A \in SUBSET DOMAIN made
    BY <2>1
  <2>3. /\ Integral(Amounts(made), A \cup {x}) /\ IsFiniteSet(A)
        /\ Added(made[x]) = <<Amounts(made)[x], 1>> /\ Sum(A) \in Int
    <3>1. x \in A \cup {x}
      OBVIOUS
    <3> QED BY <2>2, <3>1, AmountsIntegral
  <2>4. Sum(A \cup {x}) = Sum(A) + Amounts(made)[x] /\ Amounts(made)[x] \in Int
    <3>1. Sum(A \cup {x}) = Sum(A) + Amounts(made)[x]
      BY <2>1, <2>3, SumAdd
    <3>2. x \in A \cup {x}
      OBVIOUS
    <3> QED BY <2>3, <3>1, <3>2 DEF Integral
  <2>5. <<Sum(A), 1>> ++ <<Amounts(made)[x], 1>> = <<Sum(A) + Amounts(made)[x], 1>>
    BY <2>3, <2>4, WholesAdd
  <2>6. <<Sum(A \cup {x}), 1>> = <<Sum(A), 1>> ++ Added(made[x])
    BY <2>3, <2>4, <2>5
  <2> QED BY <2>1, <2>6 DEF A, x
<1>6. TakesSum(made, seq, SUBSET (1..n), iter)
  <2> DEFINE h == [s \in SUBSET (1..n) |-> <<Sum(At(s)), 1>>]
  <2> HIDE DEF Sum
  <2>1. \A s \in SUBSET (1..n) : s # {} => h[s \ {Max(s)}] = <<Sum(At(s \ {Max(s)})), 1>>
    BY <1>2
  <2>2. h[{}] = Zero
    <3>1. At({}) = {} /\ {} \in SUBSET (1..n)
      OBVIOUS
    <3> QED BY <1>4, <3>1 DEF Zero, Q
  <2>3. h = [s \in SUBSET (1..n) |-> IF s = {} THEN Zero
                                     ELSE h[s \ {Max(s)}] ++ Added(made[seq[Max(s)]])]
    <3>1. ASSUME NEW s \in SUBSET (1..n)
          PROVE  h[s] = IF s = {} THEN Zero ELSE h[s \ {Max(s)}] ++ Added(made[seq[Max(s)]])
      <4>1. CASE s = {}
        BY <2>2, <4>1
      <4>2. CASE s # {}
        <5>1. h[s] = <<Sum(At(s)), 1>>
          OBVIOUS
        <5> HIDE DEF h
        <5> QED BY <1>5, <2>1, <4>2, <5>1
      <4> QED BY <4>1, <4>2
    <3>2. h = [s \in SUBSET (1..n) |-> h[s]]
      OBVIOUS
    <3> HIDE DEF h
    <3> QED BY <3>1, <3>2
  <2> HIDE DEF h
  <2>4. TakesSum(made, seq, SUBSET (1..n), h)
    BY <2>3 DEF TakesSum
  <2> QED BY <2>4
<1> HIDE DEF iter
<1>7. \A s \in SUBSET (1..n) :
        iter[s] = IF s = {} THEN Zero ELSE iter[s \ {Max(s)}] ++ Added(made[seq[Max(s)]])
  BY <1>6 DEF TakesSum
<1> DEFINE T == {k \in Nat : k <= n => iter[1..k] = <<Sum(At(1..k)), 1>>}
<1>8. 0 \in T
  <2>1. 1..0 = {} /\ {} \in SUBSET (1..n) /\ At({}) = {}
    OBVIOUS
  <2>2. iter[{}] = Zero
    BY <1>7, <2>1
  <2> HIDE DEF Sum
  <2> QED BY <1>4, <2>1, <2>2 DEF Zero, Q
<1>9. ASSUME NEW k \in Nat, k \in T PROVE k + 1 \in T
  <2> SUFFICES ASSUME k + 1 <= n PROVE iter[1..(k + 1)] = <<Sum(At(1..(k + 1))), 1>>
    OBVIOUS
  <2> DEFINE s == 1..(k + 1)
  <2>1. /\ s \in SUBSET (1..n) /\ s # {} /\ k + 1 \in s /\ s \ {k + 1} = 1..k
        /\ s \in SUBSET Int /\ \A x \in s : x <= k + 1
    <3>1. k + 1 \in s /\ \A x \in s : x <= k + 1
      OBVIOUS
    <3>2. s \in SUBSET (1..n) /\ s \in SUBSET Int
      BY <1>0
    <3>3. s \ {k + 1} = 1..k
      OBVIOUS
    <3> QED BY <3>1, <3>2, <3>3
  <2>2. iter[1..k] = <<Sum(At(1..k)), 1>>
    <3>1. k <= n
      BY <1>0
    <3> HIDE DEF Sum, At, n, s
    <3> QED BY <1>9, <3>1
  <2> HIDE DEF s, Sum, At
  <2>3. Max(s) = k + 1
    BY <2>1, MaxIs
  <2>4. iter[s] = iter[1..k] ++ Added(made[seq[k + 1]])
    BY <1>7, <2>1, <2>3
  <2>5. <<Sum(At(s)), 1>> = <<Sum(At(1..k)), 1>> ++ Added(made[seq[k + 1]])
    BY <1>5, <2>1, <2>3
  <2> QED BY <2>2, <2>4, <2>5 DEF s
<1> HIDE DEF T
<1>10. n \in T
  BY <1>0, <1>8, <1>9, NatInduct
<1>11. At(1..n) = S
  BY <1>0
<1>12. iter[1..n] = <<Sum(At(1..n)), 1>>
  BY <1>0, <1>10 DEF T
<1> HIDE DEF At, Sum
<1>13. iter[1..n] = <<Sum(S), 1>>
  BY <1>11, <1>12
<1> QED BY <1>1, <1>13 DEF Sum

-----------------------------------------------------------------------------
(* The moments at which capital was put in.                                *)

Event == [id : Nat, time : Nat, added : Int \X Int]

\* fs is a part of the fills that were made, in their order.
Part(made, fs) ==
  /\ made \in Seq(Fill) /\ fs \in Seq(Fill)
  /\ \A k \in 1..Len(fs) : fs[k].id \in DOMAIN made /\ made[fs[k].id] = fs[k]
  /\ \A k, l \in 1..Len(fs) : k < l => fs[k].id < fs[l].id /\ fs[k].time <= fs[l].time

\* The entries among the first k fills, and those of them at the time t.
Entered(fs, k) == {fs[l].id : l \in {j \in 1..k : Kind(fs[j]) \in Entries}}
During(made, S, t) == {i \in S : made[i].time = t}

\* The events are the moments of these entries, each with what all of them added.
Moments(made, fs, k, ev) ==
  /\ ev \in Seq(Event) /\ Len(ev) <= k
  /\ \A i, j \in 1..Len(ev) : i < j => ev[i].time < ev[j].time
  /\ \A j \in 1..Len(ev) :
       LET now == During(made, Entered(fs, k), ev[j].time)
       IN /\ now # {} /\ ev[j].added = <<SumFunctionOnSet(Amounts(made), now), 1>>
          /\ \E l \in 1..k : ev[j].id = fs[l].id
  /\ \A i \in Entered(fs, k) : \E j \in 1..Len(ev) : ev[j].time = made[i].time

LEMMA EntriesAre ==
  ASSUME NEW made, NEW fs, Part(made, fs), NEW k \in 0..Len(fs)
  PROVE  /\ Entered(fs, k) \in SUBSET DOMAIN made
         /\ \A i \in Entered(fs, k) : \E l \in 1..k : i = fs[l].id /\ made[i] = fs[l]
         /\ \A i \in Entered(fs, k) : Kind(made[i]) \in Entries
<1>1. \A l \in 1..k : l \in 1..Len(fs)
  BY DEF Part
<1>2. \A i \in Entered(fs, k) :
        \E l \in 1..k : i = fs[l].id /\ made[i] = fs[l] /\ Kind(fs[l]) \in Entries
  BY <1>1 DEF Entered, Part
<1>3. \A i \in Entered(fs, k) : i \in DOMAIN made
  BY <1>1, <1>2 DEF Part
<1> QED BY <1>2, <1>3

\* One more fill is an entry after all the others, or none.
LEMMA OneMoreEntry ==
  ASSUME NEW made, NEW fs, Part(made, fs), NEW k \in Nat, k + 1 \in 1..Len(fs)
  PROVE  LET f == fs[k + 1]
             E == Entered(fs, k)
         IN /\ f \in Fill /\ f.id \in DOMAIN made /\ made[f.id] = f
            /\ f.id \notin E /\ \A i \in E : made[i].time \in Nat /\ made[i].time <= f.time
            /\ Entered(fs, k + 1) = IF Kind(f) \in Entries THEN E \cup {f.id} ELSE E
<1> DEFINE f == fs[k + 1]
           E == Entered(fs, k)
           J(n) == {j \in 1..n : Kind(fs[j]) \in Entries}
<1>1. /\ fs \in Seq(Fill) /\ Len(fs) \in Nat /\ k \in 0..Len(fs)
      /\ \A l \in 1..k : l \in 1..Len(fs) /\ l < k + 1 /\ l \in Nat
  BY DEF Part
<1>2. f \in Fill /\ f.id \in DOMAIN made /\ made[f.id] = f
  BY <1>1 DEF Part
<1>3. \A l \in 1..k : /\ fs[l].id < f.id /\ fs[l].time <= f.time /\ fs[l] \in Fill
  BY <1>1 DEF Part
<1>4. \A i \in E : \E l \in 1..k : i = fs[l].id /\ made[i] = fs[l]
  BY <1>1, EntriesAre
<1>5. \A i \in E : made[i].time \in Nat /\ made[i].time <= f.time
  BY <1>3, <1>4 DEF Fill
<1>6. f.id \notin E
  <2>1. \A l \in 1..k : fs[l].id \in Int /\ f.id \in Int
    BY <1>2, <1>3 DEF Fill
  <2> QED BY <1>3, <1>4, <2>1
<1>7. J(k + 1) = IF Kind(f) \in Entries THEN J(k) \cup {k + 1} ELSE J(k)
  <2>1. 1..(k + 1) = (1..k) \cup {k + 1}
    OBVIOUS
  <2> QED BY <2>1
<1>8. Entered(fs, k + 1) = {fs[l].id : l \in J(k + 1)} /\ E = {fs[l].id : l \in J(k)}
  BY DEF Entered
<1> HIDE DEF J
<1>9. Entered(fs, k + 1) = IF Kind(f) \in Entries THEN E \cup {f.id} ELSE E
  BY <1>7, <1>8
<1> QED BY <1>2, <1>5, <1>6, <1>9

Kinds == {"OPEN", "INCREASE", "REVERSAL", "REDUCTION", "FULL_CLOSE"}

LEMMA KindType == ASSUME NEW f PROVE Kind(f) \in Kinds
BY DEF Kind, Kinds

\* What Absorb makes of the events.
LEMMA AbsorbIs ==
  ASSUME NEW acc, NEW f, acc = [events |-> acc.events, capital |-> acc.capital]
  PROVE  LET ev == acc.events
             next == Absorb(acc, f)
             last == ev[Len(ev)]
             merges == ev # <<>> /\ last.time = f.time
             event == [id |-> f.id, time |-> f.time,
                       added |-> IF merges THEN last.added ++ Added(f) ELSE Added(f)]
         IN /\ next = [events |-> next.events, capital |-> next.capital]
            /\ next.events = IF Kind(f) \notin Entries THEN ev
                             ELSE IF merges THEN Append(Front(ev), event) ELSE Append(ev, event)
<1> DEFINE ev == acc.events
           next == Absorb(acc, f)
           last == ev[Len(ev)]
           merges == ev # <<>> /\ last.time = f.time
           event == [id |-> f.id, time |-> f.time,
                     added |-> IF merges THEN last.added ++ Added(f) ELSE Added(f)]
           more == IF merges THEN Append(Front(ev), event) ELSE Append(ev, event)
           capital == IF Kind(f) = "REVERSAL" THEN Added(f) ELSE acc.capital ++ Added(f)
           left == acc.capital ** Q(Size(After(f)), Size(f.start))
           kind == Kind(f)
<1>1. next = CASE kind \in Entries -> [events |-> more, capital |-> capital]
               [] kind = "REDUCTION" -> [acc EXCEPT !.capital = left]
               [] kind = "FULL_CLOSE" -> [acc EXCEPT !.capital = Zero]
  BY DEF Absorb
<1>2. kind \in Kinds
  BY KindType
<1> HIDE DEF next, more, capital, left, kind
<1>3. \A x : [acc EXCEPT !.capital = x] = [events |-> ev, capital |-> x]
  OBVIOUS
<1>4. CASE kind \in Entries
  <2>1. next = [events |-> more, capital |-> capital]
    BY <1>1, <1>4 DEF Entries
  <2> QED BY <1>4, <2>1 DEF next, more, kind
<1>5. CASE kind = "REDUCTION"
  <2>1. next = [events |-> ev, capital |-> left] /\ kind \notin Entries
    BY <1>1, <1>3, <1>5 DEF Entries
  <2> QED BY <2>1 DEF next, more, kind
<1>6. CASE kind = "FULL_CLOSE"
  <2>1. next = [events |-> ev, capital |-> Zero] /\ kind \notin Entries
    BY <1>1, <1>3, <1>6 DEF Entries
  <2> QED BY <2>1 DEF next, more, kind
<1> QED BY <1>2, <1>4, <1>5, <1>6 DEF Kinds, Entries

LEMMA LastReplaced ==
  ASSUME NEW ev \in Seq(Event), ev # <<>>, NEW e \in Event
  PROVE  LET g == Append(Front(ev), e)
         IN /\ g \in Seq(Event) /\ Len(g) = Len(ev) /\ g[Len(ev)] = e
            /\ \A j \in 1..(Len(ev) - 1) : g[j] = ev[j]
<1>1. Len(ev) \in Nat /\ Len(ev) >= 1
  OBVIOUS
<1> DEFINE front == Front(ev)
<1>2. /\ front \in Seq(Event) /\ Len(front) = Len(ev) - 1
      /\ \A j \in 1..(Len(ev) - 1) : front[j] = ev[j]
  <2>1. front = SubSeq(ev, 1, Len(ev) - 1)
    BY DEF Front
  <2>2. front = [j \in 1..(Len(ev) - 1) |-> ev[j]]
    BY <1>1, <2>1
  <2>3. \A j \in 1..(Len(ev) - 1) : ev[j] \in Event
    BY <1>1
  <2> HIDE DEF front
  <2> QED BY <1>1, <2>2, <2>3
<1> HIDE DEF front
<1> DEFINE g == Append(front, e)
<1>3. /\ g \in Seq(Event) /\ Len(g) = Len(front) + 1 /\ g[Len(front) + 1] = e
      /\ \A j \in 1..Len(front) : g[j] = front[j]
  BY <1>2
<1> HIDE DEF g
<1> QED BY <1>1, <1>2, <1>3 DEF g, front

\* Another entry, at the last moment or later, keeps the events as they should be.
LEMMA EntryMoments ==
  ASSUME NEW made, NEW fs, Part(made, fs), NEW k \in Nat, k + 1 \in 1..Len(fs),
         Kind(fs[k + 1]) \in Entries,
         NEW ev, Moments(made, fs, k, ev), NEW g \in Seq(Event), NEW m \in Nat, Len(g) = m,
         m >= 1, m <= k + 1, g[m].id = fs[k + 1].id, g[m].time = fs[k + 1].time,
         g[m].added = <<SumFunctionOnSet(Amounts(made),
                          During(made, Entered(fs, k), fs[k + 1].time) \cup {fs[k + 1].id}), 1>>,
         \A j \in 1..(m - 1) : j \in 1..Len(ev) /\ g[j] = ev[j] /\ ev[j].time < fs[k + 1].time,
         \A j \in 1..Len(ev) : j \in 1..(m - 1) \/ ev[j].time = fs[k + 1].time
  PROVE  Moments(made, fs, k + 1, g)
<1> DEFINE f == fs[k + 1]
           E == Entered(fs, k)
           More == E \cup {f.id}
           Sum(S) == SumFunctionOnSet(Amounts(made), S)
<1>1. /\ f \in Fill /\ f.id \in DOMAIN made /\ made[f.id] = f /\ Entered(fs, k + 1) = More
  BY OneMoreEntry
<1>2. /\ ev \in Seq(Event)
      /\ \A i, j \in 1..Len(ev) : i < j => ev[i].time < ev[j].time
      /\ \A j \in 1..Len(ev) : /\ During(made, E, ev[j].time) # {}
                               /\ ev[j].added = <<Sum(During(made, E, ev[j].time)), 1>>
                               /\ \E l \in 1..k : ev[j].id = fs[l].id
      /\ \A i \in E : \E j \in 1..Len(ev) : ev[j].time = made[i].time
  BY DEF Moments
<1> HIDE DEF E, Sum
<1>3. /\ During(made, More, f.time) = During(made, E, f.time) \cup {f.id}
      /\ \A t : t # f.time => During(made, More, t) = During(made, E, t)
  BY <1>1 DEF During
<1>4. \A j \in 1..m : j \in 1..(m - 1) \/ j = m
  OBVIOUS
<1>5. \A j \in 1..(m - 1) : /\ j \in 1..m /\ g[j] = ev[j] /\ j \in 1..Len(ev)
                            /\ ev[j] \in Event /\ ev[j].time < f.time
  BY <1>2
<1>6. g[m].id = f.id /\ g[m].time = f.time
      /\ g[m].added = <<Sum(During(made, More, f.time)), 1>>
  BY <1>3 DEF Sum, E
<1>7. f.time \in Nat /\ \A j \in 1..(m - 1) : ev[j].time \in Nat
  BY <1>1, <1>5 DEF Fill, Event
<1> HIDE DEF f, More
<1>8. ASSUME NEW i \in 1..m, NEW j \in 1..m, i < j PROVE g[i].time < g[j].time
  <2>1. i \in 1..(m - 1)
    BY <1>8
  <2>2. CASE j = m
    BY <1>5, <1>6, <2>1, <2>2
  <2>3. CASE j # m
    <3>1. j \in 1..(m - 1)
      BY <1>4, <2>3
    <3> QED BY <1>2, <1>5, <1>8, <2>1, <3>1
  <2> QED BY <2>2, <2>3
<1>9. ASSUME NEW j \in 1..m
      PROVE  LET now == During(made, More, g[j].time)
             IN /\ now # {} /\ g[j].added = <<Sum(now), 1>>
                /\ \E l \in 1..(k + 1) : g[j].id = fs[l].id
  <2>1. CASE j = m
    <3>1. k + 1 \in 1..(k + 1) /\ g[j].id = fs[k + 1].id
      BY <1>6, <2>1 DEF f
    <3> QED BY <1>3, <1>6, <2>1, <3>1
  <2>2. CASE j \in 1..(m - 1)
    <3>1. g[j] = ev[j] /\ j \in 1..Len(ev) /\ ev[j].time # f.time
      BY <1>5, <1>7, <2>2
    <3>2. \A l \in 1..k : l \in 1..(k + 1)
      OBVIOUS
    <3> QED BY <1>2, <1>3, <3>1, <3>2
  <2> QED BY <1>4, <2>1, <2>2
<1>10. ASSUME NEW i \in More PROVE \E j \in 1..m : g[j].time = made[i].time
  <2>1. m \in 1..m
    OBVIOUS
  <2>2. CASE i = f.id
    BY <1>1, <1>6, <2>1, <2>2
  <2>3. CASE i \in E
    <3>1. PICK j \in 1..Len(ev) : ev[j].time = made[i].time
      BY <1>2, <2>3
    <3>2. j \in 1..(m - 1) \/ ev[j].time = f.time
      BY DEF f
    <3> QED BY <1>5, <1>6, <2>1, <3>1, <3>2
  <2> QED BY <2>2, <2>3 DEF More
<1> HIDE DEF Moments, During
<1> QED BY <1>1, <1>8, <1>9, <1>10 DEF Moments, Sum

LEMMA AbsorbMoments ==
  ASSUME NEW made, NEW fs, Part(made, fs), NEW k \in Nat, k + 1 \in 1..Len(fs),
         NEW acc, acc = [events |-> acc.events, capital |-> acc.capital],
         Moments(made, fs, k, acc.events)
  PROVE  LET next == Absorb(acc, fs[k + 1])
         IN /\ next = [events |-> next.events, capital |-> next.capital]
            /\ Moments(made, fs, k + 1, next.events)
<1> DEFINE f == fs[k + 1]
           E == Entered(fs, k)
           ev == acc.events
           n == Len(ev)
           last == ev[n]
           merges == ev # <<>> /\ last.time = f.time
           event == [id |-> f.id, time |-> f.time,
                     added |-> IF merges THEN last.added ++ Added(f) ELSE Added(f)]
           next == Absorb(acc, f)
           Sum(S) == SumFunctionOnSet(Amounts(made), S)
<1>1. /\ f \in Fill /\ f.id \in DOMAIN made /\ made[f.id] = f
      /\ f.id \notin E /\ \A i \in E : made[i].time \in Nat /\ made[i].time <= f.time
      /\ Entered(fs, k + 1) = IF Kind(f) \in Entries THEN E \cup {f.id} ELSE E
  BY OneMoreEntry
<1>2. /\ next = [events |-> next.events, capital |-> next.capital]
      /\ next.events = IF Kind(f) \notin Entries THEN ev
                       ELSE IF merges THEN Append(Front(ev), event) ELSE Append(ev, event)
  BY AbsorbIs
<1>3. /\ ev \in Seq(Event) /\ n \in Nat /\ n <= k
      /\ \A i, j \in 1..n : i < j => ev[i].time < ev[j].time
      /\ \A j \in 1..n : /\ During(made, E, ev[j].time) # {}
                         /\ ev[j].added = <<Sum(During(made, E, ev[j].time)), 1>>
                         /\ \E l \in 1..k : ev[j].id = fs[l].id
      /\ \A i \in E : \E j \in 1..n : ev[j].time = made[i].time
  BY DEF Moments
<1>4. f.id \in Nat /\ f.time \in Nat /\ Added(f) = <<Amounts(made)[f.id], 1>>
      /\ Amounts(made)[f.id] \in Int /\ made \in Seq(Fill)
  BY <1>1, AmountIs DEF Fill, Amounts, Part
<1>5. /\ IsFiniteSet(During(made, E, f.time)) /\ Sum(During(made, E, f.time)) \in Int
      /\ Sum(During(made, E, f.time) \cup {f.id})
           = Sum(During(made, E, f.time)) + Amounts(made)[f.id]
  <2> DEFINE now == During(made, E, f.time)
  <2>1. E \in SUBSET DOMAIN made
    <3>1. k \in 0..Len(fs)
      OBVIOUS
    <3> QED BY <3>1, EntriesAre
  <2>2. now \in SUBSET DOMAIN made /\ now \cup {f.id} \in SUBSET DOMAIN made /\ f.id \notin now
    BY <1>1, <2>1 DEF During
  <2> HIDE DEF now, f
  <2>3. /\ IsFiniteSet(now) /\ Sum(now) \in Int
        /\ Integral(Amounts(made), now \cup {f.id})
    BY <1>4, <2>2, AmountsIntegral
  <2> QED BY <2>2, <2>3, SumAdd DEF now
<1> HIDE DEF Sum, next, f, E
<1>6. \A i \in E : \A t : made[i].time = t => i \in During(made, E, t)
  BY DEF During
<1>7. \A j \in 1..n : ev[j].time <= f.time /\ ev[j] \in Event /\ ev[j].time \in Nat
  <2> SUFFICES ASSUME NEW j \in 1..n PROVE ev[j].time <= f.time /\ ev[j] \in Event /\ ev[j].time \in Nat
    OBVIOUS
  <2>1. PICK i \in During(made, E, ev[j].time) : TRUE
    BY <1>3
  <2>2. i \in E /\ made[i].time = ev[j].time
    BY DEF During
  <2>3. ev[j] \in Event
    BY <1>3
  <2> QED BY <1>1, <2>2, <2>3
<1>8. CASE Kind(f) \notin Entries
  <2>1. next.events = ev /\ Entered(fs, k + 1) = E
    BY <1>1, <1>2, <1>8
  <2>2. n <= k + 1 /\ \A l \in 1..k : l \in 1..(k + 1)
    BY <1>3
  <2>3. Moments(made, fs, k + 1, ev)
    BY <1>3, <2>1, <2>2 DEF Moments, Sum
  <2> QED BY <1>2, <2>1, <2>3 DEF next, f
<1>9. CASE Kind(f) \in Entries /\ merges
  <2>1. n \in 1..n /\ n >= 1 /\ ev # <<>> /\ last.time = f.time
    BY <1>3, <1>9
  <2> DEFINE g == Append(Front(ev), event)
  <2>2. last.added ++ Added(f) = <<Sum(During(made, E, f.time) \cup {f.id}), 1>>
    BY <1>3, <1>4, <1>5, <2>1, WholesAdd, ZenonT(60)
  <2>3. event = [id |-> f.id, time |-> f.time,
                 added |-> <<Sum(During(made, E, f.time) \cup {f.id}), 1>>]
    BY <1>9, <2>2
  <2> HIDE DEF event
  <2>4. event \in Event
    <3>1. Sum(During(made, E, f.time) \cup {f.id}) \in Int
      BY <1>4, <1>5
    <3> QED BY <1>4, <2>3, <3>1 DEF Event
  <2>5. /\ g \in Seq(Event) /\ Len(g) = n /\ g[n] = event
        /\ \A j \in 1..(n - 1) : g[j] = ev[j]
    BY <1>3, <2>1, <2>4, LastReplaced
  <2> HIDE DEF g
  <2>6. \A j \in 1..(n - 1) : j \in 1..n /\ g[j] = ev[j] /\ ev[j].time < f.time
    <3> SUFFICES ASSUME NEW j \in 1..(n - 1)
                 PROVE  j \in 1..n /\ g[j] = ev[j] /\ ev[j].time < f.time
      OBVIOUS
    <3>1. j \in 1..n /\ j < n
      BY <1>3
    <3>2. ev[j].time < ev[n].time
      BY <1>3, <2>1, <3>1
    <3> QED BY <2>1, <2>5, <3>1, <3>2
  <2>7. \A j \in 1..n : j \in 1..(n - 1) \/ ev[j].time = f.time
    BY <1>3, <2>1
  <2>8. g[n].id = f.id /\ g[n].time = f.time
        /\ g[n].added = <<Sum(During(made, E, f.time) \cup {f.id}), 1>>
    BY <2>3, <2>5
  <2>9. Moments(made, fs, k + 1, g)
    <3>1. n <= k + 1 /\ n >= 1 /\ n \in Nat /\ Len(ev) = n /\ Moments(made, fs, k, ev)
      BY <1>3, <2>1
    <3>2. g \in Seq(Event) /\ Len(g) = n
      BY <2>5
    <3>3. Kind(fs[k + 1]) \in Entries
      BY <1>9 DEF f
    <3> HIDE DEF n, ev, merges, last
    <3> QED BY <2>6, <2>7, <2>8, <3>1, <3>2, <3>3, EntryMoments DEF f, E, Sum
  <2> QED BY <1>2, <1>9, <2>9 DEF g, next, f
<1>10. CASE Kind(f) \in Entries /\ ~merges
  <2>1. \A j \in 1..n : ev[j].time < f.time
    <3> SUFFICES ASSUME NEW j \in 1..n PROVE ev[j].time < f.time
      OBVIOUS
    <3>1. n \in 1..n /\ ev # <<>> /\ (j = n \/ j < n)
      BY <1>3
    <3>2. last.time # f.time
      BY <1>10, <3>1
    <3>3. last.time < f.time
      BY <1>4, <1>7, <3>1, <3>2
    <3>4. j < n => ev[j].time < ev[n].time
      BY <1>3, <3>1
    <3> QED BY <1>4, <1>7, <3>1, <3>3, <3>4, SMTT(30)
  <2>2. During(made, E, f.time) = {}
    <3> SUFFICES ASSUME NEW i \in During(made, E, f.time) PROVE FALSE
      OBVIOUS
    <3>1. i \in E /\ made[i].time = f.time
      BY DEF During
    <3>2. PICK j \in 1..n : ev[j].time = made[i].time
      BY <1>3, <3>1
    <3> QED BY <1>4, <2>1, <3>1, <3>2
  <2>3. Added(f) = <<Sum(During(made, E, f.time) \cup {f.id}), 1>>
    BY <1>4, <1>5, <2>2, SumEmpty DEF Sum
  <2> DEFINE g == Append(ev, event)
  <2>4. event = [id |-> f.id, time |-> f.time,
                 added |-> <<Sum(During(made, E, f.time) \cup {f.id}), 1>>]
    BY <1>10, <2>3
  <2> HIDE DEF event
  <2>5. event \in Event
    <3>1. Sum(During(made, E, f.time) \cup {f.id}) \in Int
      BY <1>4, <1>5
    <3> QED BY <1>4, <2>4, <3>1 DEF Event
  <2>6. /\ g \in Seq(Event) /\ Len(g) = n + 1 /\ g[n + 1] = event
        /\ \A j \in 1..n : g[j] = ev[j]
    BY <1>3, <2>5
  <2> HIDE DEF g
  <2>7. /\ n + 1 \in Nat /\ n + 1 >= 1 /\ n + 1 <= k + 1
        /\ \A j \in 1..((n + 1) - 1) : j \in 1..n
        /\ \A j \in 1..n : j \in 1..((n + 1) - 1)
    BY <1>3
  <2>8. g[n + 1].id = f.id /\ g[n + 1].time = f.time
        /\ g[n + 1].added = <<Sum(During(made, E, f.time) \cup {f.id}), 1>>
    BY <2>4, <2>6
  <2>9. \A j \in 1..((n + 1) - 1) : j \in 1..n /\ g[j] = ev[j] /\ ev[j].time < f.time
    BY <2>1, <2>6, <2>7
  <2>10. Moments(made, fs, k + 1, g)
    BY <1>3, <1>10, <2>6, <2>7, <2>8, <2>9, EntryMoments DEF f, E, Sum
  <2> QED BY <1>2, <1>10, <2>10 DEF g, next, f
<1> QED BY <1>8, <1>9, <1>10

\* The events of the fold are the moments at which capital was put in.
LEMMA EventsAreMoments ==
  ASSUME NEW made, NEW fs, Part(made, fs)
  PROVE  Moments(made, fs, Len(fs), FoldOf(fs).events)
<1>1. fs \in Seq(Fill) /\ Len(fs) \in Nat
  BY DEF Part
<1>2. PICK a : /\ a[0] = Nothing /\ FoldOf(fs) = a[Len(fs)]
               /\ \A k \in 1..Len(fs) : a[k] = Absorb(a[k - 1], fs[k])
  BY <1>1, FoldRuns
<1> DEFINE Good(k) == /\ a[k] = [events |-> a[k].events, capital |-> a[k].capital]
                      /\ Moments(made, fs, k, a[k].events)
           T == {k \in Nat : k <= Len(fs) => Good(k)}
<1>3. 0 \in T
  <2>1. Entered(fs, 0) = {}
    BY DEF Entered
  <2>2. a[0].events = <<>> /\ a[0] = [events |-> a[0].events, capital |-> a[0].capital]
    BY <1>2 DEF Nothing
  <2>3. Moments(made, fs, 0, <<>>)
    BY <2>1 DEF Moments
  <2> QED BY <2>2, <2>3
<1>4. ASSUME NEW k \in Nat, k \in T PROVE k + 1 \in T
  <2> SUFFICES ASSUME k + 1 <= Len(fs) PROVE Good(k + 1)
    OBVIOUS
  <2>1. k + 1 \in 1..Len(fs) /\ (k + 1) - 1 = k /\ k <= Len(fs)
    BY <1>1
  <2>2. Good(k) /\ a[k + 1] = Absorb(a[k], fs[k + 1])
    BY <1>2, <1>4, <2>1
  <2> QED BY <2>1, <2>2, AbsorbMoments
<1> HIDE DEF T
<1>5. Len(fs) \in T
  BY <1>1, <1>3, <1>4, NatInduct
<1>6. Moments(made, fs, Len(fs), a[Len(fs)].events)
  BY <1>1, <1>5 DEF T
<1> QED BY <1>2, <1>6

-----------------------------------------------------------------------------
(* The events of a lifecycle.                                              *)

\* A lifecycle with events ends in the expected size, and its events are those of its
\* fills, which are the last of those that were read.
LEMMA EventsAre ==
  ASSUME NEW fs \in Seq(Fill), NEW expected, NEW vouched,
         Reconstruct(fs, expected, vouched).events # <<>>
  PROVE  LET life == Reconstruct(fs, expected, vouched)
         IN /\ fs # <<>> /\ After(fs[Len(fs)]) = expected
            /\ life.events = FoldOf(life.fills).events
            /\ \E p \in 1..Len(fs) : life.fills = SubSeq(fs, p, Len(fs))
<1> DEFINE suffix == Suffix(fs)
           bs == Boundaries(suffix, expected)
           part == IF bs = {} THEN suffix ELSE SubSeq(suffix, Max(bs), Len(suffix))
           life == Reconstruct(fs, expected, vouched)
<1>1. IF fs = <<>> \/ After(fs[Len(fs)]) # expected THEN life.events = <<>>
      ELSE /\ life.status = "FULL" <=> bs # {}
           /\ life.fills = part /\ life.events = FoldOf(part).events
  BY DEF Reconstruct, Boundary, FoldOf
<1> HIDE DEF life
<1>2. /\ fs # <<>> /\ After(fs[Len(fs)]) = expected
      /\ life.status = "FULL" <=> bs # {}
      /\ life.fills = part /\ life.events = FoldOf(part).events
  BY <1>1 DEF life
<1>3. CASE bs = {}
  BY <1>2, <1>3, SuffixIs DEF life
<1>4. CASE bs # {}
  <2>1. \E p : Begins(fs, p, expected) /\ life.fills = SubSeq(fs, p, Len(fs))
    BY <1>2, <1>4, Rebuilt DEF life
  <2> QED BY <1>2, <2>1 DEF Begins, life
<1> QED BY <1>3, <1>4

\* The last known fills of a coin are a part of those that were made.
LEMMA RestIsPart ==
  ASSUME TypeOK, Timely, NEW c \in Coins, c \notin mixed, NEW p \in 1..Len(Known(c))
  PROVE  LET rest == SubSeq(Known(c), p, Len(Known(c)))
         IN /\ Part(fills, rest) /\ Len(rest) = Len(Known(c)) - p + 1
            /\ \A k \in 1..Len(rest) : rest[k].id \in Of(c)
<1> DEFINE fs == Known(c)
           n == Len(fs)
           rest == SubSeq(fs, p, n)
<1>1. /\ fs \in Seq(Fill) /\ n \in Nat /\ p \in 1..n
      /\ \A k \in 1..n : /\ Place(c, k) \in Readable(c) /\ Place(c, k) \in Nat
                         /\ fs[k] = fills[Place(c, k)] /\ fs[k].id = Place(c, k)
      /\ \A k, l \in 1..n : k < l => Place(c, k) < Place(c, l)
  BY KnownIs
<1>2. Readable(c) \subseteq Of(c) /\ Of(c) \subseteq DOMAIN fills /\ fills \in Seq(Fill)
  BY OfFinite DEF TypeOK
<1> HIDE DEF fs
<1>3. /\ rest \in Seq(Fill) /\ Len(rest) = n - p + 1
      /\ \A k \in 1..(n - p + 1) : rest[k] = fs[p + k - 1]
  <2>1. rest = [k \in 1..(n - p + 1) |-> fs[p + k - 1]] /\ n - p + 1 \in Nat
    <3>1. n - p + 1 \in Nat
      BY <1>1
    <3>2. rest = [k \in 1..(n - p + 1) |-> fs[p + k - 1]]
      BY <1>1
    <3> QED BY <3>1, <3>2
  <2>2. \A k \in 1..(n - p + 1) : fs[p + k - 1] \in Fill
    <3>1. \A k \in 1..(n - p + 1) : p + k - 1 \in 1..n
      BY <1>1
    <3> QED BY <1>1, <3>1
  <2> HIDE DEF rest
  <2> QED BY <2>1, <2>2
<1> HIDE DEF rest
<1>4. ASSUME NEW k \in 1..Len(rest)
      PROVE  /\ p + k - 1 \in 1..n /\ rest[k] = fs[p + k - 1]
             /\ rest[k].id = Place(c, p + k - 1) /\ rest[k].id \in Of(c)
             /\ fills[rest[k].id] = rest[k] /\ rest[k].id \in DOMAIN fills
  <2>1. p + k - 1 \in 1..n
    BY <1>1, <1>3
  <2>2. rest[k] = fs[p + k - 1]
    BY <1>3
  <2> QED BY <1>1, <1>2, <2>1, <2>2
<1>5. ASSUME NEW k \in 1..Len(rest), NEW l \in 1..Len(rest), k < l
      PROVE  rest[k].id < rest[l].id /\ rest[k].time <= rest[l].time
  <2>1. p + k - 1 < p + l - 1
    BY <1>1, <1>3, <1>5
  <2>2. rest[k].id < rest[l].id
    BY <1>1, <1>4, <2>1
  <2>3. rest[k].id \in Nat /\ rest[l].id \in Nat
    BY <1>1, <1>4
  <2>4. fills[rest[k].id].time <= fills[rest[l].id].time
    <3>1. rest[k].id <= rest[l].id
      BY <2>2, <2>3
    <3>2. rest[k].id \in DOMAIN fills /\ rest[l].id \in DOMAIN fills
      BY <1>4
    <3> QED BY <3>1, <3>2 DEF Timely
  <2> QED BY <1>4, <2>2, <2>4
<1>6. Part(fills, rest)
  BY <1>2, <1>3, <1>4, <1>5 DEF Part
<1> QED BY <1>3, <1>4, <1>6 DEF rest, fs

LEMMA LifeFollows ==
  ASSUME TypeOK, Timely, NEW c \in Coins, NEW expected, NEW vouched,
         Reconstruct(Known(c), expected, vouched).events # <<>>
  PROVE  LET fs == Known(c)
             life == Reconstruct(fs, expected, vouched)
             ev == life.events
         IN /\ c \notin mixed /\ fs # <<>> /\ After(fs[Len(fs)]) = expected
            /\ \E p \in 1..Len(fs) : life.fills = SubSeq(fs, p, Len(fs))
            /\ Part(fills, life.fills) /\ \A k \in 1..Len(life.fills) : life.fills[k].id \in Of(c)
            /\ Moments(fills, life.fills, Len(life.fills), ev)
            /\ \E k \in 1..Len(life.fills) : ev[Len(ev)].id = life.fills[k].id
<1> DEFINE fs == Known(c)
           life == Reconstruct(fs, expected, vouched)
           ev == life.events
<1>1. c \notin mixed
  <2> SUFFICES ASSUME c \in mixed PROVE FALSE
    OBVIOUS
  <2>1. fs = <<>>
    BY DEF Known, AllFills
  <2>2. life.events = <<>>
    BY <2>1 DEF Reconstruct
  <2> QED BY <2>2
<1>2. fs \in Seq(Fill)
  BY <1>1, KnownIs
<1>3. /\ fs # <<>> /\ After(fs[Len(fs)]) = expected
      /\ life.events = FoldOf(life.fills).events
      /\ \E p \in 1..Len(fs) : life.fills = SubSeq(fs, p, Len(fs))
  BY <1>2, EventsAre
<1> HIDE DEF life, fs
<1>4. /\ Part(fills, life.fills)
      /\ \A k \in 1..Len(life.fills) : life.fills[k].id \in Of(c)
  BY <1>1, <1>3, RestIsPart DEF fs
<1>5. Moments(fills, life.fills, Len(life.fills), ev)
  BY <1>3, <1>4, EventsAreMoments
<1>6. ev \in Seq(Event) /\ ev # <<>> /\ \A j \in 1..Len(ev) :
        \E k \in 1..Len(life.fills) : ev[j].id = life.fills[k].id
  BY <1>5 DEF Moments, life, fs
<1>7. Len(ev) \in 1..Len(ev)
  BY <1>6
<1> QED BY <1>1, <1>3, <1>4, <1>5, <1>6, <1>7 DEF life, fs

\* The last event of a lifecycle is a fill of its coin.
LEMMA EventOfCoin ==
  ASSUME NEW c \in Coins, NEW expected, NEW vouched
  PROVE  TypeOK /\ Timely =>
           LET ev == Reconstruct(Known(c), expected, vouched).events
           IN ev # <<>> => ev[Len(ev)].id \in Of(c)
BY LifeFollows

LEMMA EventOfCoinNext ==
  ASSUME NEW c \in Coins, NEW expected, NEW vouched
  PROVE  TypeOK' /\ Timely' =>
           LET ev == Reconstruct(Known(c)', expected, vouched).events
           IN ev # <<>> => ev[Len(ev)].id \in Of(c)'
<1>1. TypeOK /\ Timely =>
           LET ev == Reconstruct(Known(c), expected, vouched).events
           IN ev # <<>> => ev[Len(ev)].id \in Of(c)
  BY EventOfCoin
<1>2. (TypeOK /\ Timely =>
           LET ev == Reconstruct(Known(c), expected, vouched).events
           IN ev # <<>> => ev[Len(ev)].id \in Of(c))'
  BY <1>1, PTL
<1> QED BY <1>2

-----------------------------------------------------------------------------
(* An intent.                                                              *)

\* A fill that adds to a position leaves one.
LEMMA EntryLeavesPosition ==
  ASSUME NEW f \in Fill, Kind(f) \in {"OPEN", "INCREASE"}
  PROVE  /\ After(f) # 0
         /\ Kind(f) = "OPEN" => Sign(f.start) # Sign(After(f))
<1>1. After(f) # 0
  <2> SUFFICES ASSUME After(f) = 0 PROVE FALSE
    OBVIOUS
  <2>1. f.start \in Int /\ f.delta \in Int \ {0} /\ f.start + f.delta = 0
    BY DEF Fill, After
  <2>2. f.start # 0 /\ f.start * 0 = 0
    BY <2>1
  <2>3. ~(f.start * f.delta > 0)
    <3>1. \A x, y \in Int : x + y = 0 => ~(x * y > 0)
      <4> SUFFICES ASSUME NEW x \in Int, NEW y \in Int, x + y = 0, x * y > 0 PROVE FALSE
        OBVIOUS
      <4>1. y = -x
        OBVIOUS
      <4>2. x * y = -(x * x)
        BY <4>1
      <4>3. x * x >= 0
        OBVIOUS
      <4> QED BY <4>2, <4>3
    <3> QED BY <2>1, <3>1
  <2> DEFINE none == f.start = 0
             over == f.start * After(f) < 0
             same == f.start * f.delta > 0
  <2>4. Kind(f) = CASE none -> "OPEN" [] After(f) = 0 -> "FULL_CLOSE"
                    [] ~none /\ over -> "REVERSAL" [] ~none /\ same -> "INCREASE"
                    [] OTHER -> "REDUCTION"
    BY DEF Kind
  <2>5. ~none /\ ~over /\ ~same
    BY <2>2, <2>3
  <2> HIDE DEF none, over, same
  <2>6. Kind(f) = "FULL_CLOSE"
    BY <2>4, <2>5
  <2> QED BY <2>6
<1>2. ASSUME Kind(f) = "OPEN" PROVE Sign(f.start) # Sign(After(f))
  BY <1>1, <1>2, KindIs
<1> QED BY <1>1, <1>2

\* What accelerates has a last velocity above the one before it.
LEMMA AccelerationIs ==
  ASSUME NEW ev \in Seq(Event), NEW n \in Nat, n = Len(ev), n >= 3, Zero \prec Acceleration(ev)
  PROVE  Velocity(ev, n - 1) \prec Velocity(ev, n)
<1> DEFINE v == Velocity(ev, n)
           u == Velocity(ev, n - 1)
           w == Q(ev[n].time - ev[n - 1].time, 1)
<1>1. \A j \in 2..n : Velocity(ev, j) \in Int \X Int
  <2> SUFFICES ASSUME NEW j \in 2..n PROVE Velocity(ev, j) \in Int \X Int
    OBVIOUS
  <2>1. ev[j] \in Event /\ ev[j - 1] \in Event
    OBVIOUS
  <2>2. ev[j].added \in Int \X Int /\ ev[j].time - ev[j - 1].time \in Int
    <3>1. ev[j].added \in Int \X Int /\ ev[j].time \in Nat /\ ev[j - 1].time \in Nat
      BY <2>1 DEF Event
    <3> QED BY <3>1
  <2> DEFINE a == ev[j].added
             d == ev[j].time - ev[j - 1].time
  <2>3. Velocity(ev, j) = <<a[1] * 1, a[2] * d>>
    BY DEF Velocity, Over, Q
  <2> HIDE DEF a, d
  <2>4. a[1] \in Int /\ a[2] \in Int /\ d \in Int
    BY <2>2 DEF a, d
  <2>5. a[1] * 1 \in Int /\ a[2] * d \in Int
    BY <2>4
  <2> QED BY <2>3, <2>5
<1>2. u \in Int \X Int /\ v \in Int \X Int
  <2>1. n \in 2..n /\ n - 1 \in 2..n
    OBVIOUS
  <2> QED BY <1>1, <2>1
<1>3. Acceleration(ev) = Over(v -- u, w) /\ w[1] \in Int /\ w[2] = 1
  <2>1. n \in 1..n /\ n - 1 \in 1..n
    OBVIOUS
  <2>2. ev[n] \in Event /\ ev[n - 1] \in Event
    BY <2>1
  <2>3. ev[n].time \in Nat /\ ev[n - 1].time \in Nat
    BY <2>2 DEF Event
  <2>4. w[1] = ev[n].time - ev[n - 1].time /\ w[2] = 1
    BY DEF Q
  <2> QED BY <2>3, <2>4 DEF Acceleration
<1> HIDE DEF u, v, w
<1>4. Acceleration(ev)[1] = (v[1] * u[2] - u[1] * v[2]) * 1
  BY <1>3 DEF Over, --, Q
<1>5. v[1] * u[2] \in Int /\ u[1] * v[2] \in Int
  <2>1. v[1] \in Int /\ v[2] \in Int /\ u[1] \in Int /\ u[2] \in Int
    BY <1>2
  <2> QED BY <2>1
<1>6. 0 * Acceleration(ev)[2] < Acceleration(ev)[1] * 1
  BY DEF \prec, Zero, Q
<1>7. 0 * Acceleration(ev)[2] = 0
  <2>1. Acceleration(ev)[2] = (v[2] * u[2]) * w[1]
    BY <1>3 DEF Over, --, Q
  <2>2. v[2] \in Int /\ u[2] \in Int /\ w[1] \in Int
    BY <1>2, <1>3
  <2> DEFINE b == v[2] * u[2]
  <2>3. b \in Int
    BY <2>2
  <2> HIDE DEF b
  <2>4. b * w[1] \in Int
    BY <2>2, <2>3
  <2>5. Acceleration(ev)[2] \in Int
    BY <2>1, <2>4 DEF b
  <2> QED BY <2>5
<1> DEFINE x == v[1] * u[2]
           y == u[1] * v[2]
<1> HIDE DEF x, y
<1>8. 0 < (x - y) * 1 * 1 /\ x \in Int /\ y \in Int
  BY <1>4, <1>5, <1>6, <1>7 DEF x, y
<1>9. y < x
  BY <1>8
<1> QED BY <1>9 DEF \prec, u, v, x, y

\* A fill that leaves the side it came from is a lifecycle of its own.
LEMMA OpensAlone ==
  ASSUME NEW fs \in Seq(Fill), NEW expected, NEW vouched, fs # <<>>,
         After(fs[Len(fs)]) = expected, Sign(fs[Len(fs)].start) # Sign(expected)
  PROVE  Len(Reconstruct(fs, expected, vouched).fills) = 1
<1> DEFINE n == Len(fs)
           life == Reconstruct(fs, expected, vouched)
<1>1. n \in Nat /\ n \in 1..n /\ \A k : k \notin (n + 1)..n
  OBVIOUS
<1>2. Begins(fs, n, expected)
  BY <1>1 DEF Begins, Chained, Crosses
<1>3. life.fills = SubSeq(fs, n, n)
  BY <1>2, Rebuilt
<1> HIDE DEF life
<1> QED BY <1>1, <1>3 DEF life

\* The moments of the fills of a lifecycle, in the words of the intent.
InMoments(made, fs, ev) ==
  LET entries == {i \in Ids(fs) : Kind(made[i]) \in Entries}
      times == {made[i].time : i \in entries}
  IN /\ times = {ev[j].time : j \in 1..Len(ev)} /\ times \in SUBSET Nat
     /\ Cardinality(times) = Len(ev)
     /\ \A j \in 2..Len(ev) : Max({u \in times : u < ev[j].time}) = ev[j - 1].time
     /\ \A j \in 1..Len(ev) :
          AddedBy(made, {i \in entries : made[i].time = ev[j].time}) = ev[j].added

LEMMA MomentsAre ==
  ASSUME NEW made, NEW fs, Part(made, fs), NEW ev, Moments(made, fs, Len(fs), ev)
  PROVE  InMoments(made, fs, ev)
<1> DEFINE entries == {i \in Ids(fs) : Kind(made[i]) \in Entries}
           times == {made[i].time : i \in entries}
           n == Len(ev)
           E == Entered(fs, Len(fs))
<1>1. /\ ev \in Seq(Event) /\ n \in Nat
      /\ \A i, j \in 1..n : i < j => ev[i].time < ev[j].time
      /\ \A j \in 1..n :
           LET now == During(made, E, ev[j].time)
           IN now # {} /\ ev[j].added = <<SumFunctionOnSet(Amounts(made), now), 1>>
      /\ \A i \in E : \E j \in 1..n : ev[j].time = made[i].time
  BY DEF Moments
<1>2. fs \in Seq(Fill) /\ made \in Seq(Fill) /\ Len(fs) \in Nat /\ DOMAIN fs = 1..Len(fs)
  BY DEF Part
<1>3. entries = E
  BY <1>2 DEF Ids, Entered, Part
<1>4. E \in SUBSET DOMAIN made
  <2>1. Len(fs) \in 0..Len(fs)
    BY <1>2
  <2> QED BY <2>1, EntriesAre
<1> HIDE DEF entries, E
<1>5. times = {ev[j].time : j \in 1..n}
  <2>1. ASSUME NEW j \in 1..n PROVE \E i \in E : made[i].time = ev[j].time
    <3>1. PICK i \in During(made, E, ev[j].time) : TRUE
      BY <1>1
    <3> QED BY <3>1 DEF During
  <2>2. \A i \in E : \E j \in 1..n : ev[j].time = made[i].time
    BY <1>1
  <2>3. ASSUME NEW t \in times PROVE t \in {ev[j].time : j \in 1..n}
    <3>1. PICK i \in E : t = made[i].time
      BY <1>3
    <3> QED BY <2>2, <3>1
  <2>4. ASSUME NEW j \in 1..n PROVE ev[j].time \in times
    BY <1>3, <2>1
  <2> QED BY <2>3, <2>4
<1>6. \A j \in 1..n : ev[j].time \in Nat
  <2>1. \A j \in 1..n : ev[j] \in Event
    BY <1>1
  <2> QED BY <2>1 DEF Event
<1> HIDE DEF times
<1>7. times \in SUBSET Nat
  BY <1>5, <1>6
<1>8. Cardinality(times) = n
  <2> DEFINE h == [j \in 1..n |-> ev[j].time]
  <2>1. h \in [1..n -> times]
    BY <1>5
  <2>2. \A i, j \in 1..n : h[i] = h[j] => i = j
    <3> SUFFICES ASSUME NEW i \in 1..n, NEW j \in 1..n, ev[i].time = ev[j].time, i # j PROVE FALSE
      OBVIOUS
    <3>1. i < j \/ j < i
      OBVIOUS
    <3>2. ev[i].time < ev[j].time \/ ev[j].time < ev[i].time
      BY <1>1, <3>1
    <3> QED BY <1>6, <3>2
  <2>3. \A t \in times : \E j \in 1..n : h[j] = t
    BY <1>5
  <2> HIDE DEF h
  <2>4. h \in Bijection(1..n, times)
    BY <2>1, <2>2, <2>3 DEF Bijection, Injection, Surjection, IsInjective
  <2> QED BY <1>1, <2>4, FS_CountingElements DEF ExistsBijection
<1>9. ASSUME NEW j \in 2..n PROVE Max({u \in times : u < ev[j].time}) = ev[j - 1].time
  <2> DEFINE U == {u \in times : u < ev[j].time}
  <2>1. j \in 1..n /\ j - 1 \in 1..n /\ j - 1 < j
    BY <1>1
  <2>2. ev[j - 1].time \in U /\ U \in SUBSET Int
    BY <1>1, <1>5, <1>7, <2>1
  <2>3. ASSUME NEW u \in U PROVE u <= ev[j - 1].time
    <3>1. PICK i \in 1..n : u = ev[i].time
      BY <1>5
    <3>2. u < ev[j].time
      OBVIOUS
    <3>3. ~(j <= i)
      <4> SUFFICES ASSUME j <= i PROVE FALSE
        OBVIOUS
      <4>1. j = i \/ j < i
        BY <1>1, <2>1
      <4>2. ev[j].time <= ev[i].time
        BY <1>1, <1>6, <2>1, <4>1
      <4> QED BY <1>6, <2>1, <3>1, <3>2, <4>2
    <3>4. i = j - 1 \/ i < j - 1
      BY <1>1, <2>1, <3>3
    <3> QED BY <1>1, <1>6, <2>1, <3>1, <3>4
  <2> HIDE DEF U
  <2> QED BY <2>2, <2>3, MaxIs DEF U
<1>10. ASSUME NEW j \in 1..n
       PROVE  AddedBy(made, {i \in entries : made[i].time = ev[j].time}) = ev[j].added
  <2> DEFINE now == During(made, E, ev[j].time)
  <2>1. now \in SUBSET DOMAIN made
    BY <1>4 DEF During
  <2>2. {i \in entries : made[i].time = ev[j].time} = now
    BY <1>3 DEF During
  <2> QED BY <1>1, <1>2, <2>1, <2>2, SumOfSet
<1> QED BY <1>5, <1>7, <1>8, <1>9, <1>10 DEF InMoments, times, entries

LEMMA IntentWhileJudged == ASSUME IInv PROVE IntentIsJustified
<1> SUFFICES ASSUME result # Nil, result.decision \in {"INITIAL_ENTRY", "ROTATE"}
             PROVE  IntentIsJustified
  BY DEF IntentIsJustified
<1> DEFINE c == result.challenger
           f == fills[result.trigger]
           life == result.lives[c]
           ev == life.events
           n == Len(ev)
           fs == Known(c)
           entries == {i \in Ids(life.fills) : Kind(fills[i]) \in Entries}
           times == {fills[i].time : i \in entries}
           Before(t) == Max({u \in times : u < t})
           In(t) == AddedBy(fills, {i \in entries : fills[i].time = t})
           Speed(t) == Over(In(t), Q(t - Before(t), 1))
<1>1. /\ c \in DOMAIN result.lives /\ c # held
      /\ result.trigger = Len(fills) /\ Kind(f) \in {"OPEN", "INCREASE"}
      /\ n >= 3 /\ Zero \prec Acceleration(ev) /\ ev[n].id = f.id
  BY DEF IInv, IntentFollows, Accelerates
<1>2. c \in Coins /\ life = Reconstruct(fs, assets[c].size, assets[c].capital)
  BY <1>1 DEF IInv, LivesFollow, Known
<1>3. ev # <<>>
  BY <1>1
<1> DEFINE expected == assets[c].size
<1>4. /\ c \notin mixed /\ fs # <<>> /\ After(fs[Len(fs)]) = expected
      /\ \E p \in 1..Len(fs) : life.fills = SubSeq(fs, p, Len(fs))
      /\ Part(fills, life.fills)
      /\ \A k \in 1..Len(life.fills) : life.fills[k].id \in Of(c)
      /\ Moments(fills, life.fills, Len(life.fills), ev)
      /\ \E k \in 1..Len(life.fills) : ev[n].id = life.fills[k].id
  <2> DEFINE capital == assets[c].capital
           again == Reconstruct(fs, expected, capital)
  <2>1. TypeOK /\ Timely /\ again.events # <<>> /\ life = again
    BY <1>2, <1>3 DEF IInv
  <2> HIDE DEF c, expected, capital
  <2>2. /\ c \notin mixed /\ fs # <<>> /\ After(fs[Len(fs)]) = expected
        /\ \E p \in 1..Len(fs) : again.fills = SubSeq(fs, p, Len(fs))
        /\ Part(fills, again.fills)
        /\ \A k \in 1..Len(again.fills) : again.fills[k].id \in Of(c)
        /\ Moments(fills, again.fills, Len(again.fills), again.events)
        /\ \E k \in 1..Len(again.fills) : again.events[Len(again.events)].id = again.fills[k].id
    BY <1>2, <2>1, LifeFollows
  <2>3. ev = again.events /\ life.fills = again.fills /\ n = Len(again.events)
    BY <2>1
  <2> HIDE DEF life, again, ev, n, fs, expected
  <2>4. \E p \in 1..Len(fs) : life.fills = SubSeq(fs, p, Len(fs))
    BY <2>2, <2>3
  <2>5. Part(fills, life.fills)
    BY <2>2, <2>3
  <2>6. \A k \in 1..Len(life.fills) : life.fills[k].id \in Of(c)
    BY <2>2, <2>3
  <2>7. Moments(fills, life.fills, Len(life.fills), ev)
    BY <2>2, <2>3
  <2>8. \E k \in 1..Len(life.fills) : ev[n].id = life.fills[k].id
    BY <2>2, <2>3
  <2> QED BY <2>2, <2>4, <2>5, <2>6, <2>7, <2>8
<1>5. /\ fs \in Seq(Fill) /\ Len(fs) \in Nat /\ Len(fs) \in 1..Len(fs)
      /\ \A k \in 1..Len(fs) : Place(c, k) \in Readable(c) /\ Place(c, k) \in Nat
                               /\ fs[k] = fills[Place(c, k)]
      /\ \A k, l \in 1..Len(fs) : k < l => Place(c, k) < Place(c, l)
      /\ \A i \in Readable(c) : \E k \in 1..Len(fs) : i = Place(c, k)
  <2>1. /\ fs \in Seq(Fill) /\ Len(fs) \in Nat
        /\ \A k \in 1..Len(fs) : Place(c, k) \in Readable(c) /\ Place(c, k) \in Nat
                                 /\ fs[k] = fills[Place(c, k)]
        /\ \A k, l \in 1..Len(fs) : k < l => Place(c, k) < Place(c, l)
        /\ \A i \in Readable(c) : \E k \in 1..Len(fs) : i = Place(c, k)
    BY <1>2, <1>4, KnownIs DEF IInv
  <2>2. Len(fs) \in 1..Len(fs)
    BY <1>4, <2>1
  <2> QED BY <2>1, <2>2
<1>6. fills \in Seq(Fill) /\ Len(fills) \in Nat /\ DOMAIN fills = 1..Len(fills)
      /\ \A i \in DOMAIN fills : fills[i].id = i
  BY DEF IInv, TypeOK
<1> HIDE DEF life, c, fs, f
\* The trigger is the last fill of all, and one of the lifecycle.
<1>7. PICK q \in 1..Len(life.fills) : ev[n].id = life.fills[q].id
  BY <1>4
<1>8. /\ life.fills[q].id \in DOMAIN fills /\ fills[life.fills[q].id] = life.fills[q]
      /\ life.fills[q].id \in Of(c) /\ life.fills \in Seq(Fill)
  BY <1>4 DEF Part
<1>9. Len(fills) \in DOMAIN fills /\ f.id = Len(fills) /\ f \in Fill
  <2>1. fills # <<>>
    BY <1>6, <1>8
  <2>2. Len(fills) \in DOMAIN fills
    BY <1>6, <2>1
  <2> QED BY <1>1, <1>6, <2>2 DEF f
<1>10. life.fills[q].id = Len(fills) /\ life.fills[q] = f /\ Len(fills) \in Of(c)
  BY <1>1, <1>7, <1>8, <1>9 DEF f
<1>11. f.coin = c
  BY <1>1, <1>10 DEF Of, f
\* It is the last one that is known, so that the position it leaves is expected.
<1>12. fs[Len(fs)] = f
  <2>1. PICK p \in 1..Len(fs) : life.fills = SubSeq(fs, p, Len(fs))
    BY <1>4
  <2>2. p + q - 1 \in 1..Len(fs) /\ life.fills[q] = fs[p + q - 1]
    BY <1>5, <2>1
  <2> DEFINE k == p + q - 1
  <2> HIDE DEF k
  <2>3. k \in 1..Len(fs) /\ fs[k] = fills[Place(c, k)] /\ fs[k] = f
    BY <1>5, <1>10, <2>2 DEF k
  <2>4. \A l \in 1..Len(fs) : Place(c, l) \in DOMAIN fills
    BY <1>5, OfFinite DEF IInv
  <2>5. Place(c, k) = Len(fills)
    BY <1>6, <1>9, <2>3, <2>4
  <2>6. ~(k < Len(fs))
    <3> SUFFICES ASSUME k < Len(fs) PROVE FALSE
      OBVIOUS
    <3>1. Place(c, k) < Place(c, Len(fs))
      BY <1>5, <2>3
    <3>2. Place(c, Len(fs)) \in 1..Len(fills)
      BY <1>5, <1>6, <2>4
    <3> QED BY <1>6, <2>5, <3>1, <3>2
  <2>7. k = Len(fs)
    BY <1>5, <2>3, <2>6
  <2> QED BY <2>3, <2>7
<1>13. Kind(f) = "INCREASE"
  <2> SUFFICES ASSUME Kind(f) = "OPEN" PROVE FALSE
    BY <1>1
  <2>1. Sign(f.start) # Sign(After(f))
    BY <1>1, <1>9, EntryLeavesPosition
  <2>2. Sign(fs[Len(fs)].start) # Sign(expected)
    BY <1>4, <1>12, <2>1
  <2>3. Len(Reconstruct(fs, expected, assets[c].capital).fills) = 1
    <3>1. fs \in Seq(Fill) /\ fs # <<>> /\ After(fs[Len(fs)]) = expected
      BY <1>4, <1>5
    <3> DEFINE vouched == assets[c].capital
    <3> HIDE DEF expected, vouched
    <3>2. Len(Reconstruct(fs, expected, vouched).fills) = 1
      BY <2>2, <3>1, OpensAlone
    <3> QED BY <3>2 DEF vouched
  <2>4. Len(life.fills) = 1
    BY <1>2, <2>3
  <2>5. n <= 1
    BY <1>4, <2>4 DEF Moments
  <2>6. n \in Nat
    BY <1>4 DEF Moments
  <2> QED BY <1>1, <2>5, <2>6
\* The moments of the lifecycle are those of its events.
<1>14. /\ times = {ev[j].time : j \in 1..n} /\ times \in SUBSET Nat
       /\ Cardinality(times) = n
       /\ \A j \in 2..n : Before(ev[j].time) = ev[j - 1].time
       /\ \A j \in 1..n : In(ev[j].time) = ev[j].added
  <2>1. InMoments(fills, life.fills, ev)
    BY <1>4, MomentsAre
  <2> QED BY <2>1 DEF InMoments
<1>15. /\ ev \in Seq(Event) /\ n \in Nat
       /\ \A i, j \in 1..n : i < j => ev[i].time < ev[j].time
  <2>1. Moments(fills, life.fills, Len(life.fills), ev)
    BY <1>4
  <2> HIDE DEF ev
  <2>2. ev \in Seq(Event) /\ \A i, j \in 1..n : i < j => ev[i].time < ev[j].time
    BY <2>1 DEF Moments
  <2> QED BY <2>2
<1>16. result.trigger \in entries
  <2>1. Len(fills) \in Ids(life.fills)
    BY <1>8, <1>10 DEF Ids
  <2> QED BY <1>1, <1>13, <2>1 DEF f, Entries
<1>17. f.time \in times /\ \A t \in times : t <= f.time
  <2>1. f.time \in times
    BY <1>16 DEF f
  <2>2. ASSUME NEW i \in entries PROVE fills[i].time <= f.time
    <3>1. i \in DOMAIN fills
      <4>1. PICK k \in DOMAIN life.fills : i = life.fills[k].id
        BY DEF Ids
      <4>2. k \in 1..Len(life.fills)
        BY <1>8
      <4> QED BY <1>4, <4>1, <4>2 DEF Part
    <3>2. i <= Len(fills)
      BY <1>6, <3>1
    <3> QED BY <1>1, <1>9, <3>1, <3>2 DEF IInv, Timely, f
  <2> QED BY <2>1, <2>2
<1> HIDE DEF entries, times, Before, In
<1>18. f.time = Max(times)
  <2>1. times \in SUBSET Int
    BY <1>14
  <2> QED BY <1>17, <2>1, MaxIs
<1>19. f.time = ev[n].time
  <2>1. PICK j \in 1..n : f.time = ev[j].time
    BY <1>14, <1>17
  <2>2. n \in 1..n /\ (j = n \/ j < n)
    BY <1>1, <1>15
  <2>3. ev[n].time \in times /\ ev[n].time \in Nat
    BY <1>14, <1>15, <2>2
  <2>4. ev[n].time <= f.time
    BY <1>17, <2>3
  <2>5. j < n => ev[j].time < ev[n].time
    BY <1>15, <2>2
  <2>6. f.time \in Nat
    BY <1>14, <1>17
  <2> QED BY <2>1, <2>2, <2>3, <2>4, <2>5, <2>6
<1>20. ASSUME NEW j \in 2..n PROVE Speed(ev[j].time) = Velocity(ev, j)
  <2>1. j \in 1..n
    BY <1>15
  <2>2. Before(ev[j].time) = ev[j - 1].time /\ In(ev[j].time) = ev[j].added
    BY <1>14, <2>1
  <2> QED BY <2>2 DEF Velocity
<1>21. Speed(Before(f.time)) \prec Speed(f.time)
  <2>1. n \in 2..n /\ n - 1 \in 2..n
    BY <1>1, <1>15
  <2>2. Before(f.time) = ev[n - 1].time
    BY <1>14, <1>19, <2>1
  <2>3. Speed(f.time) = Velocity(ev, n) /\ Speed(Before(f.time)) = Velocity(ev, n - 1)
    BY <1>19, <1>20, <2>1, <2>2
  <2>4. Velocity(ev, n - 1) \prec Velocity(ev, n)
    BY <1>1, <1>15, AccelerationIs
  <2> QED BY <2>3, <2>4
<1> HIDE DEF Speed
<1>22. /\ f.coin = c /\ c # held /\ Kind(f) = "INCREASE" /\ f.time = Max(times)
       /\ Cardinality(times) >= 3 /\ Speed(Before(f.time)) \prec Speed(f.time)
  BY <1>1, <1>11, <1>13, <1>14, <1>18, <1>21
<1> QED BY <1>22 DEF IntentIsJustified, c, f, life, entries, times, Before, In, Speed, AddedBy

-----------------------------------------------------------------------------
(* _process_event.                                                         *)

\* The rows that a fill is judged on.
RowsFor(m) ==
  LET f == Next_(m)
      c == m.coin
  IN [assets EXCEPT ![c] = IF After(f) = 0 THEN Nil
                           ELSE [size |-> After(f), capital |-> Capital(f, PriorRow(c))]]

LEMMA ProcessIs ==
  ASSUME IInv, NEW m \in Moves, Trade(m), Process(m)
  PROVE  /\ assets' = RowsFor(m)
         /\ result'.lives = [d \in {e \in Coins : RowsFor(m)[e] # Nil} |->
                               Reconstruct(AllFills(d, fills, journal)', RowsFor(m)[d].size,
                                           RowsFor(m)[d].capital)]
         /\ journal' = journal \cup {Len(fills) + 1} /\ handled' = handled \cup {Len(fills) + 1}
<1> DEFINE rows == RowsFor(m)
<1>1. /\ assets' = rows /\ result' = Judged(rows, Next_(m))
      /\ journal' = journal \cup {Next_(m).id} /\ handled' = handled \cup {Next_(m).id}
  BY DEF Process, RowsFor
<1>2. fills' = Append(fills, Next_(m)) /\ mixed' = mixed /\ Next_(m).id = Len(fills) + 1
  BY NextFill DEF Trade
<1> HIDE DEF rows
<1>3. Judged(rows, Next_(m)).lives =
        [d \in {e \in Coins : rows[e] # Nil} |->
           Reconstruct(AllFills(d, Append(fills, Next_(m)), journal \cup {Next_(m).id}),
                       rows[d].size, rows[d].capital)]
  BY DEF Judged
<1>4. \A d : AllFills(d, Append(fills, Next_(m)), journal \cup {Next_(m).id})
               = AllFills(d, fills, journal)'
  BY <1>1, <1>2 DEF AllFills
<1> QED BY <1>1, <1>2, <1>3, <1>4 DEF rows

LEMMA ProcessRows ==
  ASSUME IInv, NEW m \in Moves, Trade(m), Process(m)
  PROVE  LET c == m.coin
             f == Next_(m)
         IN /\ assets' \in [Coins -> Row \cup {Nil}]
            /\ \A d \in Coins \ {c} : assets'[d] = assets[d]
            /\ IF After(f) = 0 THEN assets'[c] = Nil
               ELSE assets'[c] # Nil /\ assets'[c].size = After(f)
                    /\ assets'[c].capital = Capital(f, PriorRow(c))
<1> DEFINE c == m.coin
           f == Next_(m)
           row == [size |-> After(f), capital |-> Capital(f, PriorRow(c))]
<1>1. c \in Coins /\ f \in Fill /\ After(f) \in Int /\ assets \in [Coins -> Row \cup {Nil}]
  BY NextFill DEF IInv, TypeOK
<1>2. PriorRow(c) = Nil \/ PriorRow(c) \in Row
  BY <1>1 DEF PriorRow
<1>3. Capital(f, PriorRow(c)) \in Int \X Int
  BY <1>1, <1>2, CapitalType
<1>4. row \in Row /\ row # Nil
  BY <1>1, <1>3, NilAssumption DEF Row
<1>5. assets' = [assets EXCEPT ![c] = IF After(f) = 0 THEN Nil ELSE row]
  BY ProcessIs DEF RowsFor
<1>6. row.size = After(f) /\ row.capital = Capital(f, PriorRow(c))
  OBVIOUS
<1> HIDE DEF row, f
<1> QED BY <1>1, <1>4, <1>5, <1>6 DEF f

\* What the fills at old places were, they are after the next fill.
LEMMA OldFills ==
  ASSUME IInv, NEW m \in Moves, Trade(m), NEW d, Turns(d) # {}
  PROVE  /\ PositionOf(d) \in SUBSET Nat /\ IsFiniteSet(PositionOf(d))
         /\ \A i \in PositionOf(d) : i < Len(fills) + 1
         /\ FillsAt(PositionOf(d)) \in Seq(Fill)
         /\ FillsAt(PositionOf(d)) = [k \in 1..Cardinality(PositionOf(d)) |->
                                        fills'[Nth(PositionOf(d), k)]]
<1>1. /\ Of(d) \in SUBSET Nat /\ IsFiniteSet(Of(d)) /\ fills \in Seq(Fill)
      /\ \A i \in Of(d) : i \in DOMAIN fills
  BY OfFinite DEF IInv, TypeOK, Of
<1>2. \A i \in Of(d) : i < Len(fills) + 1 /\ fills'[i] = fills[i]
  BY NextPlace
<1>3. PositionOf(d) \subseteq Of(d)
  BY DEF PositionOf
<1>4. PositionOf(d) \in SUBSET Nat /\ IsFiniteSet(PositionOf(d))
  BY <1>1, <1>3, FS_Subset
<1>5. Cardinality(PositionOf(d)) \in Nat
  BY <1>4, FS_CardinalityType
<1>6. \A k \in 1..Cardinality(PositionOf(d)) : Nth(PositionOf(d), k) \in Of(d)
  BY <1>3, <1>4, NthIs
<1>7. \A i \in Of(d) : fills[i] \in Fill
  BY <1>1
<1>8. FillsAt(PositionOf(d)) \in Seq(Fill)
  BY <1>5, <1>6, <1>7 DEF FillsAt
<1>9. FillsAt(PositionOf(d)) = [k \in 1..Cardinality(PositionOf(d)) |->
                                  fills'[Nth(PositionOf(d), k)]]
  BY <1>2, <1>6 DEF FillsAt
<1> QED BY <1>2, <1>3, <1>4, <1>8, <1>9

\* The capital in the row of the fill is what the fills of its position add up to.
LEMMA ProcessCapital ==
  ASSUME IInv, NEW m \in Moves, Trade(m), Process(m),
         m.coin \notin mixed, Turns(m.coin)' # {}, After(Next_(m)) # 0,
         PositionOf(m.coin)' \subseteq handled'
  PROVE  LET acc == FoldOf(FillsAt(PositionOf(m.coin)))'
         IN acc = [events |-> acc.events, capital |-> assets'[m.coin].capital]
<1> DEFINE c == m.coin
           f == Next_(m)
           n == Len(fills) + 1
           S == PositionOf(c)
           acc == FoldOf(FillsAt(S))
<1>1. /\ c \in Coins /\ f \in Fill /\ f.start = position[c] /\ n \in Nat
      /\ fills'[n] = f
  BY NextFill
<1>2. handled' = handled \cup {n}
  BY ProcessIs
<1>3. assets'[c].capital = Capital(f, PriorRow(c))
  BY ProcessRows
<1>4. PriorRow(c) = assets[c]
  BY DEF PriorRow
<1>5. acc' = FoldOf([k \in 1..Cardinality(S') |-> fills'[Nth(S', k)]])
  BY DEF FillsAt
<1>6. CASE Sign(f.start) # Sign(After(f))
  <2>1. S' = {n}
    BY <1>6, NextTurns
  <2>2. Cardinality({n}) = 1 /\ Nth({n}, 1) = n
    <3>1. {} \in SUBSET Nat /\ IsFiniteSet({}) /\ Cardinality({}) = 0 /\ {} \cup {n} = {n}
      BY FS_EmptySet
    <3>2. /\ Cardinality({} \cup {n}) = Cardinality({}) + 1
          /\ Nth({} \cup {n}, Cardinality({}) + 1) = n
      BY <1>1, <3>1, OneMorePlace
    <3> QED BY <3>1, <3>2
  <2> HIDE DEF f, n
  <2>3. [k \in 1..1 |-> fills'[Nth({n}, k)]] = <<f>>
    BY <1>1, <2>2
  <2>4. acc' = Absorb(Nothing, f)
    BY <1>1, <1>5, <2>1, <2>2, <2>3, FoldOne
  <2> QED BY <1>1, <1>3, <1>6, <2>4, AbsorbsLike DEF f
<1>7. CASE Sign(f.start) = Sign(After(f))
  <2>1. Turns(c)' = Turns(c) /\ Turns(c) # {} /\ S' = S \cup {n}
    BY <1>7, NextTurns
  <2>2. /\ S \in SUBSET Nat /\ IsFiniteSet(S) /\ (\A i \in S : i < n)
        /\ FillsAt(S) \in Seq(Fill)
        /\ FillsAt(S) = [k \in 1..Cardinality(S) |-> fills'[Nth(S, k)]]
    BY <2>1, OldFills
  <2>3. S \subseteq handled
    <3> HIDE DEF S, n
    <3>1. ASSUME NEW i \in S PROVE i \in handled
      <4>1. i \in handled \cup {n} /\ i # n
        BY <1>1, <1>2, <2>1, <2>2, <3>1 DEF S
      <4> QED BY <4>1
    <3> QED BY <3>1
  <2>4. LastHandled(c)
    BY <2>1, <2>3, LastInPosition DEF IInv, LastHandled, PositionOf
  <2>5. assets[c] # Nil
    BY <1>1, <1>7, <2>4, KindIs DEF IInv, RowsFollow
  <2>6. acc = [events |-> acc.events, capital |-> assets[c].capital]
    BY <1>1, <2>1, <2>3, <2>5 DEF IInv, CapitalFollows, FoldOf
  <2>7. /\ Cardinality(S \cup {n}) = Cardinality(S) + 1 /\ Cardinality(S) \in Nat
        /\ \A k \in 1..Cardinality(S) : Nth(S \cup {n}, k) = Nth(S, k)
        /\ Nth(S \cup {n}, Cardinality(S) + 1) = n
    BY <1>1, <2>2, OneMorePlace
  <2> DEFINE q == Cardinality(S)
  <2>8. [k \in 1..(q + 1) |-> fills'[Nth(S \cup {n}, k)]] = Append(FillsAt(S), f)
    <3>1. Len(FillsAt(S)) = q
      BY <2>2, <2>7
    <3>2. Append(FillsAt(S), f) = [k \in 1..(q + 1) |-> IF k = q + 1 THEN f ELSE FillsAt(S)[k]]
      <4> DEFINE fs == FillsAt(S)
      <4>1. fs \in Seq(Fill) /\ f \in Fill /\ Len(fs) = q
        BY <1>1, <2>2, <3>1
      <4> HIDE DEF fs, f, q
      <4>2. Append(fs, f) = [k \in 1..(Len(fs) + 1) |-> IF k = Len(fs) + 1 THEN f ELSE fs[k]]
        <5>1. /\ Append(fs, f) \in Seq(Fill) /\ Len(Append(fs, f)) = Len(fs) + 1
              /\ \A k \in 1..(Len(fs) + 1) :
                   Append(fs, f)[k] = IF k = Len(fs) + 1 THEN f ELSE fs[k]
          BY <4>1
        <5> DEFINE more == Append(fs, f)
        <5>2. more \in Seq(Fill)
          BY <5>1
        <5> HIDE DEF more
        <5>3. more = [k \in 1..Len(more) |-> more[k]]
          BY <5>2
        <5> QED BY <5>1, <5>3 DEF more
      <4> QED BY <4>1, <4>2 DEF fs
    <3>3. \A k \in 1..(q + 1) : k = q + 1 \/ k \in 1..q
      BY <2>7
    <3>4. \A k \in 1..q : FillsAt(S)[k] = fills'[Nth(S, k)]
      BY <2>2
    <3> HIDE DEF f, n, S
    <3> QED BY <1>1, <2>7, <3>2, <3>3, <3>4
  <2>9. acc' = FoldOf([k \in 1..(q + 1) |-> fills'[Nth(S \cup {n}, k)]])
    BY <1>5, <2>1, <2>7
  <2>10. acc' = Absorb(acc, f)
    BY <1>1, <2>2, <2>8, <2>9, FoldAppend
  <2> HIDE DEF f, acc
  <2> QED BY <1>1, <1>3, <1>4, <1>7, <2>5, <2>6, <2>10, AbsorbsLike DEF f, acc
<1> QED BY <1>6, <1>7

\* A fill is not made before those that were made already.
LEMMA TradeTimely == ASSUME IInv, NEW m \in Moves, Trade(m) PROVE Timely'
<1> DEFINE n == Len(fills)
<1>1. /\ n \in Nat /\ DOMAIN fills = 1..n /\ fills' \in Seq(Fill) /\ Len(fills') = n + 1
      /\ fills'[n + 1] = Next_(m) /\ \A i \in 1..n : fills'[i] = fills[i]
  BY NextFill DEF IInv, TypeOK
<1>2. DOMAIN fills' = 1..(n + 1) /\ fills \in Seq(Fill)
  BY <1>1 DEF IInv, TypeOK
<1>3. \A i \in 1..(n + 1) : fills'[i].time \in Nat
  <2>1. \A i \in 1..(n + 1) : fills'[i] \in Fill
    BY <1>1
  <2> QED BY <2>1 DEF Fill
<1>4. ASSUME NEW i \in 1..n PROVE fills[i].time <= Next_(m).time
  <2>1. fills # <<>> /\ n \in 1..n /\ i <= n
    BY <1>1, <1>2
  <2>2. fills[i].time <= fills[n].time
    BY <1>1, <2>1 DEF IInv, Timely
  <2>3. Next_(m).time = fills[n].time + m.wait /\ m.wait \in Nat
    BY <2>1, MovesAssumption DEF Next_, Now
  <2>4. fills[i].time \in Nat /\ fills[n].time \in Nat
    <3>1. fills[i] \in Fill /\ fills[n] \in Fill
      BY <1>2, <2>1
    <3> QED BY <3>1 DEF Fill
  <2> QED BY <2>2, <2>3, <2>4
<1> SUFFICES ASSUME NEW i \in 1..(n + 1), NEW j \in 1..(n + 1), i <= j
             PROVE  fills'[i].time <= fills'[j].time
  BY <1>2 DEF Timely
<1>5. CASE j = n + 1
  <2>1. i = n + 1 \/ i \in 1..n
    BY <1>1
  <2> QED BY <1>1, <1>3, <1>4, <1>5, <2>1
<1>6. CASE j # n + 1
  <2>1. i \in 1..n /\ j \in 1..n
    BY <1>1, <1>6
  <2> QED BY <1>1, <2>1 DEF IInv, Timely
<1> QED BY <1>5, <1>6

\* What is decided upon is the one coin whose last event is the fill, the coin of the fill.
LEMMA ProcessIntent ==
  ASSUME IInv, NEW m \in Moves, Trade(m), Process(m), TypeOK', Timely'
  PROVE  IntentFollows'
<1> DEFINE f == Next_(m)
           n == Len(fills) + 1
           rows == RowsFor(m)
           judged == Judged(rows, f)
           lives == judged.lives
           eligible == judged.eligible
<1>1. /\ n \in Nat /\ f.id = n /\ f.coin = m.coin /\ m.coin \in Coins
      /\ fills' \in Seq(Fill) /\ Len(fills') = n /\ fills'[n] = f
  BY NextFill
<1>2. result' = judged /\ held' = held
  BY DEF Process, RowsFor
<1>3. lives = [d \in {e \in Coins : rows[e] # Nil} |->
                 Reconstruct(Known(d)', rows[d].size, rows[d].capital)]
  BY <1>2, ProcessIs DEF Known
<1>4. /\ judged.trigger = f.id
      /\ eligible = {d \in {e \in Coins : rows[e] # Nil} :
                       Eligible(lives[d], judged.shares[d], share[d], f, d = held)}
      /\ judged.challenger = IF eligible = {} THEN Nil
                             ELSE CHOOSE d \in eligible :
                                    \A e \in eligible \ {d} : ~Outranks(lives[e], lives[d])
      /\ judged.decision \in {"INITIAL_ENTRY", "ROTATE"} => eligible # {}
  <2>1. ASSUME NEW x, NEW y, NEW z,
               Decision(~(eligible = {}), held # Nil, x, y, z) \in {"INITIAL_ENTRY", "ROTATE"}
        PROVE  eligible # {}
    <3> HIDE DEF judged
    <3> QED BY <2>1 DEF Decision
  <2>2. \E x, y, z : judged.decision = Decision(~(eligible = {}), held # Nil, x, y, z)
    BY DEF Judged
  <2>3. /\ judged.trigger = f.id
        /\ eligible = {d \in {e \in Coins : rows[e] # Nil} :
                         Eligible(lives[d], judged.shares[d], share[d], f, d = held)}
    BY DEF Judged
  <2>4. judged.challenger = IF eligible = {} THEN Nil
                            ELSE CHOOSE d \in eligible :
                                   \A e \in eligible \ {d} : ~Outranks(lives[e], lives[d])
    BY DEF Judged
  <2> HIDE DEF judged
  <2> QED BY <2>1, <2>2, <2>3, <2>4
<1> HIDE DEF f, n, rows, judged
<1>5. ASSUME NEW d \in eligible
      PROVE  /\ d \in DOMAIN lives /\ d # held /\ Kind(f) \in {"OPEN", "INCREASE"}
             /\ Accelerates(lives[d].events) /\ Zero \prec Acceleration(lives[d].events)
             /\ lives[d].events[Len(lives[d].events)].id = f.id /\ d = m.coin
  <2> DEFINE ev == lives[d].events
  <2>1. /\ d \in DOMAIN lives /\ d \in Coins /\ d # held /\ Kind(f) \in {"OPEN", "INCREASE"}
        /\ Accelerates(ev) /\ Zero \prec Acceleration(ev) /\ ev[Len(ev)].id = f.id
    BY <1>3, <1>4 DEF Eligible
  <2>2. ev = Reconstruct(Known(d)', rows[d].size, rows[d].capital).events
    BY <1>3, <2>1
  <2> HIDE DEF ev
  <2>3. ev # <<>>
    BY <2>1 DEF Accelerates
  <2>4. ev[Len(ev)].id \in Of(d)'
    BY <2>1, <2>2, <2>3, EventOfCoinNext
  <2>5. fills'[n].coin = d
    BY <1>1, <2>1, <2>4 DEF Of
  <2> QED BY <1>1, <2>1, <2>5 DEF ev
<1>6. ASSUME judged.decision \in {"INITIAL_ENTRY", "ROTATE"}
      PROVE  judged.challenger \in eligible
  <2>1. eligible = {m.coin}
    BY <1>4, <1>5, <1>6
  <2>2. \A e \in eligible \ {m.coin} : ~Outranks(lives[e], lives[m.coin])
    BY <2>1
  <2> QED BY <1>4, <2>1, <2>2
<1>7. result'.lives = lives /\ result'.trigger = n /\ Len(fills') = n
  BY <1>1, <1>2, <1>4
<1> QED BY <1>1, <1>2, <1>5, <1>6, <1>7 DEF IntentFollows

LEMMA TradeIInv == ASSUME IInv, NEW m \in Moves, Trade(m) PROVE IInv'
<1> DEFINE n == Len(fills) + 1
           c == m.coin
<1>1. /\ c \in Coins /\ n \in Nat /\ Len(fills) \in Nat /\ fills' \in Seq(Fill) /\ Len(fills') = n
      /\ fills'[n].id = n /\ \A i \in 1..Len(fills) : fills'[i] = fills[i]
      /\ position' \in [Coins -> Int]
      /\ After(Next_(m)) = position'[c] /\ \A d \in Coins \ {c} : position'[d] = position[d]
  BY NextFill
<1>2. /\ \A d : d # c => Of(d)' = Of(d)
      /\ Of(c)' = Of(c) \cup {n}
      /\ \A d : \A i \in Of(d) : i \in Nat /\ i < n
  BY NextPlace
<1>3. handled \subseteq journal /\ journal \subseteq 1..Len(fills) /\ mixed' = mixed
  BY DEF IInv, TypeOK, Trade
<1>4. DOMAIN fills' = 1..n /\ \A i \in DOMAIN fills' : fills'[i].id = i
  <2>1. DOMAIN fills' = 1..n
    BY <1>1
  <2>2. \A i \in 1..Len(fills) : fills[i].id = i
    BY DEF IInv, TypeOK
  <2>3. ASSUME NEW i \in 1..n PROVE fills'[i].id = i
    <3>1. i = n \/ i \in 1..Len(fills)
      BY <1>1
    <3> QED BY <1>1, <2>2, <3>1
  <2> QED BY <2>1, <2>3
<1>5. Follows'
  BY TradeFollows
<1>6. 1..n = (1..Len(fills)) \cup {n} /\ n \notin 1..Len(fills)
  BY <1>1
\* The capital of the coins that the fill is not of.
<1>7. ASSUME NEW d \in Coins \ mixed, d # c, assets'[d] = assets[d], assets[d] # Nil,
             handled' \subseteq handled \cup {n}, Turns(d)' # {}, PositionOf(d)' \subseteq handled'
      PROVE  LET acc == FoldOf(FillsAt(PositionOf(d)))'
             IN acc = [events |-> acc.events, capital |-> assets'[d].capital]
  <2>1. Turns(d) # {} /\ PositionOf(d)' = PositionOf(d)
    BY <1>7, NextTurns
  <2>2. /\ \A i \in PositionOf(d) : i < n
        /\ FillsAt(PositionOf(d)) = [k \in 1..Cardinality(PositionOf(d)) |->
                                       fills'[Nth(PositionOf(d), k)]]
    BY <2>1, OldFills
  <2>3. FillsAt(PositionOf(d))' = [k \in 1..Cardinality(PositionOf(d)') |->
                                     fills'[Nth(PositionOf(d)', k)]]
    BY DEF FillsAt
  <2>4. FillsAt(PositionOf(d))' = FillsAt(PositionOf(d))
    BY <2>1, <2>2, <2>3
  <2>5. PositionOf(d) \subseteq handled
    <3> HIDE DEF n
    <3>1. ~(n < n)
      BY <1>1
    <3> QED BY <1>7, <2>1, <2>2, <3>1
  <2> QED BY <1>7, <2>1, <2>4, <2>5 DEF IInv, CapitalFollows, FoldOf
<1>8. CapitalFollows' <=>
        \A d \in Coins \ mixed :
          Turns(d)' # {} /\ PositionOf(d)' \subseteq handled' /\ assets'[d] # Nil =>
            LET acc == FoldOf(FillsAt(PositionOf(d)))'
            IN acc = [events |-> acc.events, capital |-> assets'[d].capital]
  BY <1>3 DEF CapitalFollows, FoldOf
<1>9. Timely'
  BY TradeTimely
<1> HIDE DEF n
<1>10. CASE Process(m)
  <2>1. journal' = journal \cup {n} /\ handled' = handled \cup {n}
    BY <1>10, ProcessIs DEF n
  <2>a. /\ assets' \in [Coins -> Row \cup {Nil}]
        /\ \A d \in Coins \ {c} : assets'[d] = assets[d]
        /\ IF position'[c] = 0 THEN assets'[c] = Nil
           ELSE assets'[c] # Nil /\ assets'[c].size = position'[c]
    BY <1>1, <1>10, ProcessRows
  <2>2. TypeOK'
    <3>1. handled' \subseteq journal' /\ journal' \subseteq DOMAIN fills'
      BY <1>3, <1>4, <1>6, <2>1
    <3> QED BY <1>1, <1>4, <2>a, <3>1 DEF TypeOK
  <2>3. ASSUME NEW d \in Coins \ {c} PROVE LastHandled(d)' <=> LastHandled(d)
    <3>1. Of(d)' = Of(d) /\ n \notin Of(d)
      BY <1>2, <1>1
    <3>2. Of(d)' \cap handled' = Of(d) \cap handled
      BY <2>1, <3>1
    <3> QED BY <3>1, <3>2 DEF LastHandled
  <2>4. RowsFollow'
    <3> SUFFICES ASSUME NEW d \in Coins, LastHandled(d)'
                 PROVE  IF position'[d] = 0 THEN assets'[d] = Nil
                        ELSE assets'[d] # Nil /\ assets'[d].size = position'[d]
      BY DEF RowsFollow
    <3>1. CASE d = c
      BY <2>a, <3>1
    <3>2. CASE d # c
      BY <1>1, <2>a, <2>3, <3>2 DEF IInv, RowsFollow
    <3> QED BY <3>1, <3>2
  <2>5. CapitalFollows'
    <3> SUFFICES ASSUME NEW d \in Coins \ mixed,
                        Turns(d)' # {}, PositionOf(d)' \subseteq handled', assets'[d] # Nil
                 PROVE  LET acc == FoldOf(FillsAt(PositionOf(d)))'
                        IN acc = [events |-> acc.events, capital |-> assets'[d].capital]
      BY <1>8
    <3>1. CASE d = c
      <4>1. After(Next_(m)) # 0
        BY <1>1, <2>a, <3>1
      <4> QED BY <1>10, <3>1, <4>1, ProcessCapital
    <3>2. CASE d # c
      BY <1>7, <2>1, <2>a, <3>2
    <3> QED BY <3>1, <3>2
  <2>6. LivesFollow'
    <3>1. result'.lives = [d \in {e \in Coins : assets'[e] # Nil} |->
                             Reconstruct(AllFills(d, fills, journal)', assets'[d].size, assets'[d].capital)]
      BY <1>10, ProcessIs
    <3> QED BY <3>1 DEF LivesFollow
  <2>7. IntentFollows'
    BY <1>10, <1>9, <2>2, ProcessIntent
  <2> QED BY <1>5, <1>9, <2>2, <2>4, <2>5, <2>6, <2>7 DEF IInv
<1>11. CASE Skip(m) \/ Miss(m)
  <2>1. /\ result' = Nil /\ handled' = handled /\ assets' = assets
        /\ journal' = journal \/ journal' = journal \cup {n}
    BY <1>11, NextFill DEF Skip, Miss, n
  <2>2. TypeOK'
    <3>1. handled' \subseteq journal' /\ journal' \subseteq DOMAIN fills'
      BY <1>3, <1>4, <1>6, <2>1
    <3> QED BY <1>1, <1>4, <2>1, <3>1 DEF IInv, TypeOK
  <2>3. n \notin handled'
    BY <1>3, <1>6, <2>1
  <2>4. RowsFollow'
    <3> SUFFICES ASSUME NEW d \in Coins, LastHandled(d)'
                 PROVE  IF position'[d] = 0 THEN assets'[d] = Nil
                        ELSE assets'[d] # Nil /\ assets'[d].size = position'[d]
      BY DEF RowsFollow
    <3>1. d # c
      <4> SUFFICES ASSUME d = c PROVE FALSE
        OBVIOUS
      <4>1. PICK i \in Of(c)' \cap handled' : \A j \in Of(c)' : j <= i
        BY DEF LastHandled
      <4>2. n <= i /\ i \in 1..Len(fills)
        BY <1>2, <1>3, <2>1, <4>1
      <4> QED BY <1>1, <4>2 DEF n
    <3>2. LastHandled(d)
      BY <1>2, <2>1, <3>1 DEF LastHandled
    <3> QED BY <1>1, <2>1, <3>1, <3>2 DEF IInv, RowsFollow
  <2>5. CapitalFollows'
    <3> SUFFICES ASSUME NEW d \in Coins \ mixed,
                        Turns(d)' # {}, PositionOf(d)' \subseteq handled', assets'[d] # Nil
                 PROVE  LET acc == FoldOf(FillsAt(PositionOf(d)))'
                        IN acc = [events |-> acc.events, capital |-> assets'[d].capital]
      BY <1>8
    <3>1. d # c
      <4> SUFFICES ASSUME d = c PROVE FALSE
        OBVIOUS
      <4>1. n \in PositionOf(c)'
        <5>1. CASE Sign(Next_(m).start) # Sign(After(Next_(m)))
          BY <5>1, NextTurns DEF n
        <5>2. CASE Sign(Next_(m).start) = Sign(After(Next_(m)))
          BY <5>2, NextTurns DEF n
        <5> QED BY <5>1, <5>2
      <4> QED BY <2>3, <4>1
    <3> QED BY <1>7, <2>1, <3>1
  <2>6. LivesFollow' /\ IntentFollows'
    BY <2>1 DEF LivesFollow, IntentFollows
  <2> QED BY <1>5, <1>9, <2>2, <2>4, <2>5, <2>6 DEF IInv
<1> QED BY <1>10, <1>11 DEF Trade

-----------------------------------------------------------------------------
(* What holds of every behaviour.                                          *)

\* The fills of a coin follow each other up to its position; a row whose last fill was
\* handled has the size of the position, and the capital in it is what the fills of the
\* position add up to when all of them were handled; what is judged rests on the rows and
\* on the fills that can be read; and the coin of an intent accelerates, with the fill that
\* triggers it as its last moment of entry (_process_event, processing.py:34-108).
THEOREM Invariant == Spec => []IInv
<1>1. IInv /\ [Next]_vars => IInv'
  <2> SUFFICES ASSUME IInv, [Next]_vars PROVE IInv'
    OBVIOUS
  <2>1. CASE UNCHANGED vars
    <3>1. \A c : Of(c)' = Of(c) /\ (LastHandled(c)' <=> LastHandled(c))
      BY <2>1 DEF vars, Of, LastHandled
    <3>2. TypeOK'
      BY <2>1 DEF vars, IInv, TypeOK
    <3>3. Follows'
      BY <2>1, <3>1 DEF vars, IInv, Follows
    <3>4. RowsFollow'
      BY <2>1, <3>1 DEF vars, IInv, RowsFollow
    <3>5. CapitalFollows'
      <4>1. \A c : Turns(c)' = Turns(c) /\ PositionOf(c)' = PositionOf(c)
        BY <2>1, <3>1 DEF vars, Turns, PositionOf
      <4>2. \A S : FillsAt(S)' = FillsAt(S)
        BY <2>1 DEF vars, FillsAt
      <4> QED BY <2>1, <4>1, <4>2 DEF vars, IInv, CapitalFollows
    <3>6. LivesFollow'
      BY <2>1, <3>1 DEF vars, IInv, LivesFollow, AllFills
    <3>7. Timely' /\ IntentFollows'
      BY <2>1 DEF vars, IInv, Timely, IntentFollows
    <3> QED BY <3>2, <3>3, <3>4, <3>5, <3>6, <3>7 DEF IInv
  <2>2. CASE Next
    BY <2>2, TradeIInv, SetHeldIInv DEF Next
  <2> QED BY <2>1, <2>2
<1> QED BY <1>1, InitIInv, PTL DEF Spec

\* FULL_HISTORY is what it says, for any coins, fills, times and lapses: a position that
\* can be read from its first fill on is FULL, with exactly its fills, once its last one
\* was handled; and a lifecycle that is FULL otherwise has lost a fill after its first
\* (reconstruct_lifecycle, hrs_processing.py:52-94).
THEOREM FullHistory == Spec => []FullIsWhole
<1>1. IInv => FullIsWhole
  BY FullWhileJudged
<1> QED BY <1>1, Invariant, PTL

\* The capital carried in the row from fill to fill is the capital that rebuilding the
\* lifecycle from its fills gives, at any prices and for any sequence of increases,
\* reductions and reversals (processing.py:49-53, hrs_processing.py:76-90).
THEOREM CapitalCarried == Spec => []CapitalAgrees
<1>1. IInv => CapitalAgrees
  BY CapitalWhileJudged
<1> QED BY <1>1, Invariant, PTL

\* An intent follows from what the leader did, for any coins, fills, prices, times and
\* lapses: the fill that triggers it is of the coin it names, which is not held, and
\* increased the position, at the third moment of entry or later, and the capital that the
\* fills of this moment put in, per unit of time, is more than that of the moment before
\* (hrs_processing.py:76-86, 109-120).
THEOREM IntentsAreJustified == Spec => []IntentIsJustified
<1>1. IInv => IntentIsJustified
  BY IntentWhileJudged
<1> QED BY <1>1, Invariant, PTL
=============================================================================
