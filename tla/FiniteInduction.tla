-------------------------- MODULE FiniteInduction --------------------------
(***************************************************************************)
(* Facts that the proofs of several modules rest on: subsets of finite     *)
(* sets, greatest and least elements, and induction and recursion up to a  *)
(* number.  Induction is stated of a set and recursion of a function, not  *)
(* of an operator; both rest on the well-foundedness of inclusion.         *)
(***************************************************************************)
EXTENDS Integers, FiniteSets, FiniteSetTheorems, WellFoundedInduction, TLAPS

LEMMA SubsetOfFinite ==
  ASSUME NEW S, IsFiniteSet(S), NEW T, T \subseteq S
  PROVE  IsFiniteSet(T) /\ Cardinality(T) \in Nat /\ Cardinality(T) <= Cardinality(S)
<1>1. T \in SUBSET S
  OBVIOUS
<1>2. IsFiniteSet(T) /\ Cardinality(T) <= Cardinality(S)
  BY <1>1, FS_Subset
<1> QED BY <1>2, FS_CardinalityType

\* Values that finitely many things have include a greatest. A smallest set of
\* things without one cannot exist.
LEMMA Greatest ==
  ASSUME NEW I, IsFiniteSet(I), I # {}, NEW f \in [I -> Int]
  PROVE  \E k \in I : \A j \in I : f[j] <= f[k]
<1> DEFINE has(S)  == \E k \in S : \A j \in S : f[j] <= f[k]
           without == {S \in SUBSET I : S # {} /\ ~has(S)}
<1>1. without = {}
  <2>1. SUFFICES ASSUME without # {} PROVE FALSE
    OBVIOUS
  <2>2. without \subseteq FiniteSubsetsOf(I)
    BY FS_FiniteSubsetsOfFinite
  <2>3. PICK S \in without : \A R \in without : ~(<<R, S>> \in StrictSubsetOrdering(I))
    <3> HIDE DEF without
    <3> QED BY <2>1, <2>2, FS_StrictSubsetOrderingWellFounded, WFMin
  <2>4. PICK x \in S : TRUE
    OBVIOUS
  <2> DEFINE R == S \ {x}
  <2>5. <<R, S>> \in StrictSubsetOrdering(I)
    BY DEF StrictSubsetOrdering
  <2>6. R = {} \/ has(R)
    <3>1. R \notin without
      BY <2>3, <2>5
    <3> QED BY <3>1
  <2>7. \A j \in S : f[j] \in Int /\ (j = x \/ j \in R)
    OBVIOUS
  <2>8. CASE R = {}
    <3>1. \A j \in S : f[j] <= f[x]
      BY <2>7, <2>8
    <3> QED BY <3>1
  <2>9. CASE has(R)
    <3>1. PICK k \in R : \A j \in R : f[j] <= f[k]
      BY <2>9
    <3>2. CASE f[x] <= f[k]
      <4>1. \A j \in S : f[j] <= f[k]
        BY <2>7, <3>1, <3>2
      <4> QED BY <4>1
    <3>3. CASE ~(f[x] <= f[k])
      <4>1. \A j \in S : f[j] <= f[x]
        BY <2>7, <3>1, <3>3
      <4> QED BY <4>1
    <3> QED BY <3>2, <3>3
  <2> QED BY <2>6, <2>8, <2>9
<1> QED BY <1>1

\* A finite set of integers has a greatest element.
LEMMA GreatestElement ==
  ASSUME NEW S, IsFiniteSet(S), S # {}, S \subseteq Int
  PROVE  \E x \in S : \A y \in S : y <= x
<1> DEFINE f == [x \in S |-> x]
<1>1. f \in [S -> Int] /\ \A x \in S : f[x] = x
  OBVIOUS
<1> HIDE DEF f
<1>2. PICK x \in S : \A y \in S : f[y] <= f[x]
  BY <1>1, Greatest
<1> QED BY <1>1, <1>2

\* And a least one.
LEMMA LeastElement ==
  ASSUME NEW S, IsFiniteSet(S), S # {}, S \subseteq Int
  PROVE  \E x \in S : \A y \in S : x <= y
<1> DEFINE f == [x \in S |-> -x]
<1>1. f \in [S -> Int] /\ \A x \in S : f[x] = -x
  OBVIOUS
<1> HIDE DEF f
<1>2. PICK x \in S : \A y \in S : f[y] <= f[x]
  BY <1>1, Greatest
<1>3. \A y \in S : x \in Int /\ y \in Int /\ -y <= -x
  BY <1>1, <1>2
<1> QED BY <1>3

-----------------------------------------------------------------------------
(* Induction and recursion up to a number, for sets and functions: a least   *)
(* counterexample cannot exist.                                              *)

\* A set that has zero, and with a number below n the next, has all up to n.
LEMMA Counting ==
  ASSUME NEW n \in Nat, NEW T, 0 \in T,
         \A i \in 0..(n - 1) : i \in T => i + 1 \in T
  PROVE  \A i \in 0..n : i \in T
<1> DEFINE missing == {i \in 0..n : i \notin T}
<1>1. missing = {}
  <2>1. SUFFICES ASSUME missing # {} PROVE FALSE
    OBVIOUS
  <2>2. missing \subseteq 0..n /\ missing \subseteq Int /\ IsFiniteSet(0..n)
    BY FS_Interval
  <2>3. PICK k \in missing : \A i \in missing : k <= i
    <3> HIDE DEF missing
    <3> QED BY <2>1, <2>2, SubsetOfFinite, LeastElement
  <2>4. k \in 0..n /\ k # 0
    OBVIOUS
  <2>5. k - 1 \in 0..(n - 1) /\ k - 1 \in 0..n /\ k - 1 + 1 = k /\ ~(k <= k - 1)
    BY <2>4
  <2>6. k - 1 \in T
    BY <2>3, <2>5
  <2> QED BY <2>5, <2>6
<1> QED BY <1>1

\* A function of the numbers up to n that begins with a and goes on by step.
Recurs(f, a, step, A, n) ==
  f \in [0..n -> A] /\ f[0] = a /\ \A i \in 1..n : f[i] = step[<<i, f[i - 1]>>]

\* A value at zero and one that follows from the one before define a function.
LEMMA Recursion ==
  ASSUME NEW A, NEW a \in A, NEW step \in [Nat \X A -> A], NEW n \in Nat
  PROVE  \E f : Recurs(f, a, step, A, n)
<1> DEFINE Is(f, m) == Recurs(f, a, step, A, m)
           T == {m \in Nat : \E f : Is(f, m)}
<1> USE DEF Recurs
<1>1. 0 \in T
  <2>1. Is([i \in 0..0 |-> a], 0)
    OBVIOUS
  <2> QED BY <2>1
<1>2. ASSUME NEW m \in 0..(n - 1), m \in T PROVE m + 1 \in T
  <2>1. PICK f : Is(f, m)
    BY <1>2
  <2> DEFINE g == [i \in 0..(m + 1) |-> IF i = m + 1 THEN step[<<m + 1, f[m]>>] ELSE f[i]]
  <2>2. m \in Nat /\ m + 1 \in Nat /\ m + 1 \in 0..(m + 1) /\ m + 1 # 0
    OBVIOUS
  <2>3. f[m] \in A /\ <<m + 1, f[m]>> \in Nat \X A
    BY <2>1, <2>2
  <2>4. step[<<m + 1, f[m]>>] \in A
    BY <2>3
  <2>5. \A i \in 0..(m + 1) : i = m + 1 \/ i \in 0..m
    BY <2>2
  <2>6. g \in [0..(m + 1) -> A]
    BY <2>1, <2>4, <2>5
  <2>7. g[0] = a /\ g[m + 1] = step[<<m + 1, f[m]>>] /\ \A i \in 0..m : g[i] = f[i]
    BY <2>1, <2>2
  <2> HIDE DEF g
  <2>8. \A i \in 1..(m + 1) : g[i] = step[<<i, g[i - 1]>>]
    <3>1. TAKE i \in 1..(m + 1)
    <3>2. i - 1 \in 0..m
      BY <2>2
    <3>3. CASE i = m + 1
      <4>1. i - 1 = m
        BY <2>2, <3>3
      <4> QED BY <2>7, <3>2, <3>3, <4>1
    <3>4. CASE i # m + 1
      <4>1. i \in 1..m /\ i \in 0..m
        BY <2>2, <3>4
      <4> QED BY <2>1, <2>7, <3>2, <4>1
    <3> QED BY <3>3, <3>4
  <2>9. Is(g, m + 1)
    BY <2>6, <2>7, <2>8
  <2> HIDE DEF Is
  <2> QED BY <2>2, <2>9
<1>3. n \in T
  <2> HIDE DEF T
  <2>1. n \in 0..n
    OBVIOUS
  <2> QED BY <1>1, <1>2, <2>1, Counting
<1>4. PICK f : Is(f, n)
  BY <1>3
<1> QED BY <1>4

=============================================================================
