------------------------------ MODULE SumTheorems ------------------------------
(***************************************************************************)
(* Induction, and what it says of the sum of a function over a finite set. *)
(*                                                                         *)
(* The sums of the project are SumFunctionOnSet of the community modules,  *)
(* which adds the elements in the order that CHOOSE takes them.  Here it is*)
(* shown that the order does not matter.  The induction principles are     *)
(* about sets of numbers or of finite sets, not about predicates, so that  *)
(* a use of them names the set.                                            *)
(***************************************************************************)
EXTENDS Integers, FiniteSets, FiniteSetsExt, FiniteSetTheorems, TLAPS

-----------------------------------------------------------------------------
(* Induction.                                                              *)

LEMMA NatLeast ==
  ASSUME NEW T \in SUBSET Nat, T # {}
  PROVE  \E n \in T : \A m \in T : n <= m
<1> DEFINE Less == {p \in Nat \X Nat : p[1] < p[2]}
<1>1. IsWellFoundedOn(Less, Nat)
  BY NatLessThanWellFounded DEF OpToRel
<1>2. \A m, n \in Nat : m < n => <<m, n>> \in Less
  OBVIOUS
<1> HIDE DEF Less
<1>3. PICK n \in T : \A m \in T : <<m, n>> \notin Less
  BY <1>1, WFMin
<1>4. ASSUME NEW m \in T PROVE n <= m
  <2>1. m \in Nat /\ n \in Nat /\ ~(m < n)
    BY <1>2, <1>3
  <2> QED BY <2>1
<1> QED BY <1>4

LEMMA NatInduct ==
  ASSUME NEW T, 0 \in T, \A n \in Nat : n \in T => n + 1 \in T
  PROVE  Nat \subseteq T
<1> SUFFICES ASSUME Nat \ T # {} PROVE FALSE
  OBVIOUS
<1>1. PICK n \in Nat \ T : \A m \in Nat \ T : n <= m
  BY NatLeast
<1>2. n # 0 /\ n - 1 \in Nat /\ n - 1 \in T
  BY <1>1
<1> QED BY <1>1, <1>2

\* Among subsets of a finite set there is one that has no other of them as a subset.
LEMMA LeastSubset ==
  ASSUME NEW S, IsFiniteSet(S), NEW T \in SUBSET SUBSET S, T # {}
  PROVE  \E A \in T : \A B \in T : B \subseteq A => B = A
<1>1. IsWellFoundedOn(StrictSubsetOrdering(S), SUBSET S)
  BY FS_StrictSubsetOrderingWellFounded, FS_FiniteSubsetsOfFinite
<1>2. PICK A \in T : \A B \in T : <<B, A>> \notin StrictSubsetOrdering(S)
  BY <1>1, WFMin
<1>3. \A B \in T : B \subseteq A => B = A
  BY <1>2 DEF StrictSubsetOrdering
<1> QED BY <1>3

LEMMA FiniteInduct ==
  ASSUME NEW S, IsFiniteSet(S), NEW T, {} \in T,
         \A A \in SUBSET S, x \in S : A \in T /\ x \notin A => A \cup {x} \in T
  PROVE  SUBSET S \subseteq T
<1> SUFFICES ASSUME (SUBSET S) \ T # {} PROVE FALSE
  OBVIOUS
<1> DEFINE U == (SUBSET S) \ T
<1>0. U \in SUBSET SUBSET S /\ U # {}
  OBVIOUS
<1> HIDE DEF U
<1>1. PICK A \in U : \A B \in U : B \subseteq A => B = A
  BY <1>0, LeastSubset
<1> USE DEF U
<1>2. PICK x : x \in A
  BY <1>1
<1>3. A \ {x} \in T
  BY <1>1, <1>2
<1>4. (A \ {x}) \cup {x} = A
  BY <1>2
<1> QED BY <1>1, <1>2, <1>3, <1>4

\* Finitely many numbers have a largest one.
LEMMA FiniteMaximum ==
  ASSUME NEW S \in SUBSET Int, IsFiniteSet(S), S # {}
  PROVE  \E m \in S : \A x \in S : x <= m
<1> DEFINE T == {A \in SUBSET S : A = {} \/ \E m \in A : \A x \in A : x <= m}
<1>1. {} \in T
  OBVIOUS
<1>2. ASSUME NEW A \in SUBSET S, NEW x \in S, A \in T, x \notin A PROVE A \cup {x} \in T
  <2>1. CASE A = {}
    BY <2>1
  <2>2. ASSUME NEW m \in A, \A y \in A : y <= m PROVE A \cup {x} \in T
    <3>1. CASE x <= m
      BY <2>2, <3>1
    <3>2. CASE m < x
      <4>1. \A y \in A \cup {x} : y <= x
        BY <2>2, <3>2
      <4> QED BY <4>1
    <3> QED BY <3>1, <3>2
  <2> QED BY <1>2, <2>1, <2>2
<1> HIDE DEF T
<1>3. SUBSET S \subseteq T
  BY <1>1, <1>2, FiniteInduct
<1>4. S \in T
  BY <1>3
<1> QED BY <1>4 DEF T

\* The largest number of a set that has one.
LEMMA MaxIs ==
  ASSUME NEW S \in SUBSET Int, NEW m \in S, \A x \in S : x <= m
  PROVE  Max(S) = m
<1>1. \A y \in S : m >= y
  OBVIOUS
<1>2. \A x \in S : (\A y \in S : x >= y) => x = m
  <2>1. \A x \in S : x >= m => x = m
    OBVIOUS
  <2> QED BY <2>1
<1> QED BY <1>1, <1>2 DEF Max

-----------------------------------------------------------------------------
(* Sums.                                                                   *)

Integral(f, S) == \A x \in S : f[x] \in Int

\* g has the sum of f over every subset of S.
Sums(f, S, g) ==
  /\ g \in [SUBSET S -> Int]
  /\ g[{}] = 0
  /\ \A A \in SUBSET S, x \in S : x \notin A => g[A \cup {x}] = g[A] + f[x]

LEMMA SumsMore ==
  ASSUME NEW f, NEW A, NEW x, x \notin A, f[x] \in Int, NEW g, Sums(f, A, g),
         Integral(f, A)
  PROVE  \E h : Sums(f, A \cup {x}, h)
<1> DEFINE h == [B \in SUBSET (A \cup {x}) |-> IF x \in B THEN g[B \ {x}] + f[x] ELSE g[B]]
<1>0. /\ g \in [SUBSET A -> Int] /\ g[{}] = 0
      /\ \A B \in SUBSET A, y \in A : y \notin B => g[B \cup {y}] = g[B] + f[y]
  BY DEF Sums
<1>1. \A B \in SUBSET (A \cup {x}) :
        IF x \in B THEN B \ {x} \in SUBSET A /\ g[B \ {x}] \in Int
                   ELSE B \in SUBSET A /\ g[B] \in Int
  BY <1>0
<1>2. h \in [SUBSET (A \cup {x}) -> Int]
  BY <1>1
<1>3. h[{}] = 0
  BY <1>0
<1>4. ASSUME NEW B \in SUBSET (A \cup {x}), NEW y \in A \cup {x}, y \notin B
      PROVE  h[B \cup {y}] = h[B] + f[y]
  <2>1. CASE y = x
    <3>1. (B \cup {y}) \ {x} = B /\ B \in SUBSET A
      BY <1>4, <2>1
    <3> QED BY <1>4, <2>1, <3>1
  <2>2. CASE y # x /\ x \in B
    <3>1. /\ (B \cup {y}) \ {x} = (B \ {x}) \cup {y} /\ B \ {x} \in SUBSET A
          /\ y \in A /\ y \notin B \ {x}
      BY <1>4, <2>2
    <3>2. g[(B \ {x}) \cup {y}] = g[B \ {x}] + f[y]
      BY <1>0, <3>1
    <3>3. h[B \cup {y}] = g[(B \ {x}) \cup {y}] + f[x] /\ h[B] = g[B \ {x}] + f[x]
      BY <1>4, <2>2, <3>1
    <3>4. g[B \ {x}] \in Int /\ f[y] \in Int
      BY <1>0, <3>1 DEF Integral
    <3> QED BY <3>2, <3>3, <3>4
  <2>3. CASE y # x /\ x \notin B
    BY <1>0, <1>4, <2>3
  <2> QED BY <2>1, <2>2, <2>3
<1> HIDE DEF h
<1>5. Sums(f, A \cup {x}, h)
  BY <1>2, <1>3, <1>4 DEF Sums
<1> QED BY <1>5

LEMMA SumsExist ==
  ASSUME NEW f, NEW S, IsFiniteSet(S), Integral(f, S)
  PROVE  \E g : Sums(f, S, g)
<1> DEFINE T == {A \in SUBSET S : \E g : Sums(f, A, g)}
<1>1. {} \in T
  <2>1. Sums(f, {}, [A \in SUBSET {} |-> 0])
    BY DEF Sums
  <2> QED BY <2>1
<1>2. ASSUME NEW A \in SUBSET S, NEW x \in S, A \in T, x \notin A
      PROVE  A \cup {x} \in T
  <2>1. PICK g : Sums(f, A, g)
    BY <1>2
  <2>2. f[x] \in Int /\ Integral(f, A)
    BY DEF Integral
  <2>3. \E h : Sums(f, A \cup {x}, h)
    BY <1>2, <2>1, <2>2, SumsMore
  <2> QED BY <2>3
<1> HIDE DEF T
<1>3. S \in T
  BY <1>1, <1>2, FiniteInduct
<1> QED BY <1>3 DEF T

\* The order in which the elements are taken does not matter.
LEMMA SumIs ==
  ASSUME NEW f, NEW S, IsFiniteSet(S), Integral(f, S), NEW g, Sums(f, S, g)
  PROVE  SumFunctionOnSet(f, S) = g[S]
<1> DEFINE some(s) == CHOOSE x \in s : TRUE
           Adds(iter) == iter = [s \in SUBSET S |-> IF s = {} THEN 0
                                                    ELSE f[some(s)] + iter[s \ {some(s)}]]
           sum == CHOOSE iter : Adds(iter)
<1>1. SumFunctionOnSet(f, S) = sum[S]
  BY DEF SumFunctionOnSet, FoldFunctionOnSet, MapThenFoldSet
<1>2. /\ g \in [SUBSET S -> Int] /\ g[{}] = 0
      /\ \A A \in SUBSET S, x \in S : x \notin A => g[A \cup {x}] = g[A] + f[x]
  BY DEF Sums
<1>3. \A s \in SUBSET S : s # {} => some(s) \in s
  OBVIOUS
<1> HIDE DEF some
<1>4. Adds(g)
  <2>1. ASSUME NEW s \in SUBSET S, s # {}
        PROVE  g[s] = f[some(s)] + g[s \ {some(s)}]
    <3>1. some(s) \in S /\ s \ {some(s)} \in SUBSET S /\ (s \ {some(s)}) \cup {some(s)} = s
      BY <1>3, <2>1
    <3>2. g[s] = g[s \ {some(s)}] + f[some(s)]
      BY <1>2, <3>1
    <3>3. g[s \ {some(s)}] \in Int /\ f[some(s)] \in Int
      BY <1>2, <3>1 DEF Integral
    <3> QED BY <3>2, <3>3
  <2> QED BY <1>2, <2>1
<1>5. Adds(sum)
  BY <1>4
<1> HIDE DEF sum
<1>6. ASSUME sum # g PROVE FALSE
  <2> DEFINE U == {A \in SUBSET S : sum[A] # g[A]}
  <2>1. U \in SUBSET SUBSET S /\ U # {}
    BY <1>2, <1>5, <1>6
  <2> HIDE DEF U
  <2>2. PICK A \in U : \A B \in U : B \subseteq A => B = A
    BY <2>1, LeastSubset
  <2> USE DEF U
  <2>3. A # {}
    BY <1>2, <1>5, <2>2
  <2>4. some(A) \in A /\ A \ {some(A)} \in SUBSET S /\ A \ {some(A)} # A
    BY <1>3, <2>2, <2>3
  <2>5. sum[A \ {some(A)}] = g[A \ {some(A)}]
    BY <2>2, <2>4
  <2> QED BY <1>4, <1>5, <2>2, <2>3, <2>4, <2>5
<1> QED BY <1>1, <1>6

\* The sum of no numbers.
LEMMA SumEmpty == ASSUME NEW f PROVE SumFunctionOnSet(f, {}) = 0
<1>1. Integral(f, {}) /\ IsFiniteSet({})
  BY FS_EmptySet DEF Integral
<1>2. PICK g : Sums(f, {}, g)
  BY <1>1, SumsExist
<1> QED BY <1>1, <1>2, SumIs DEF Sums

LEMMA SumType ==
  ASSUME NEW f, NEW S, IsFiniteSet(S), Integral(f, S)
  PROVE  SumFunctionOnSet(f, S) \in Int
<1>1. PICK g : Sums(f, S, g)
  BY SumsExist
<1>2. g[S] \in Int
  BY <1>1 DEF Sums
<1> QED BY <1>1, <1>2, SumIs

\* One element more, or less.
LEMMA SumAdd ==
  ASSUME NEW f, NEW S, IsFiniteSet(S), NEW x, x \notin S, Integral(f, S \cup {x})
  PROVE  SumFunctionOnSet(f, S \cup {x}) = SumFunctionOnSet(f, S) + f[x]
<1>1. IsFiniteSet(S \cup {x})
  BY FS_AddElement
<1>2. PICK g : Sums(f, S \cup {x}, g)
  BY <1>1, SumsExist
<1> DEFINE h == [A \in SUBSET S |-> g[A]]
<1>3. Sums(f, S, h)
  <2>1. SUBSET S \subseteq SUBSET (S \cup {x})
    OBVIOUS
  <2>2. /\ g \in [SUBSET (S \cup {x}) -> Int] /\ g[{}] = 0
        /\ \A A \in SUBSET (S \cup {x}), y \in S \cup {x} : y \notin A => g[A \cup {y}] = g[A] + f[y]
    BY <1>2 DEF Sums
  <2>3. h \in [SUBSET S -> Int] /\ h[{}] = 0
    BY <2>1, <2>2
  <2>4. \A A \in SUBSET S, y \in S : y \notin A => h[A \cup {y}] = h[A] + f[y]
    BY <2>1, <2>2
  <2> HIDE DEF h
  <2> QED BY <2>3, <2>4 DEF Sums
<1>4. SumFunctionOnSet(f, S) = h[S] /\ h[S] = g[S]
  <2>1. Integral(f, S)
    BY DEF Integral
  <2> QED BY <1>3, <2>1, SumIs
<1>5. SumFunctionOnSet(f, S \cup {x}) = g[S \cup {x}]
  BY <1>1, <1>2, SumIs
<1> QED BY <1>2, <1>4, <1>5 DEF Sums

LEMMA SumRemove ==
  ASSUME NEW f, NEW S, IsFiniteSet(S), NEW x \in S, Integral(f, S)
  PROVE  SumFunctionOnSet(f, S \ {x}) = SumFunctionOnSet(f, S) - f[x]
<1>1. IsFiniteSet(S \ {x}) /\ (S \ {x}) \cup {x} = S /\ x \notin S \ {x}
  BY FS_RemoveElement
<1>2. Integral(f, S \ {x}) /\ f[x] \in Int
  BY DEF Integral
<1>3. SumFunctionOnSet(f, S) = SumFunctionOnSet(f, S \ {x}) + f[x]
  BY <1>1, SumAdd
<1>4. SumFunctionOnSet(f, S \ {x}) \in Int
  BY <1>1, <1>2, SumType
<1> QED BY <1>2, <1>3, <1>4

\* Functions that agree on the set have the same sum over it.
LEMMA SumAgree ==
  ASSUME NEW f, NEW g, NEW S, IsFiniteSet(S), Integral(f, S), \A x \in S : g[x] = f[x]
  PROVE  SumFunctionOnSet(g, S) = SumFunctionOnSet(f, S)
<1>1. PICK h : Sums(f, S, h)
  BY SumsExist
<1>2. Sums(g, S, h)
  BY <1>1 DEF Sums
<1>3. Integral(g, S)
  BY DEF Integral
<1> QED BY <1>1, <1>2, <1>3, SumIs
================================================================================
