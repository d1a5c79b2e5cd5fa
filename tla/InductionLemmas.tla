-------------------------- MODULE InductionLemmas --------------------------
(* Induction over numbers and finite sets, in the form of sets: what holds *)
(* is the membership of a set, so that the well-founded orders of the      *)
(* library can be used.  From it, that a fold along a list exists.         *)
EXTENDS Naturals, Sequences, FiniteSetTheorems, WellFoundedInduction, TLAPS

LEMMA Smallest ==
    ASSUME NEW T \in SUBSET Nat, T # {}
    PROVE  \E m \in T : \A k \in T : m <= k
<1> DEFINE R == OpToRel(<, Nat)
<1>1. IsWellFoundedOn(R, Nat)
  BY NatLessThanWellFounded
<1>2. \A k, m \in Nat : k < m => <<k, m>> \in R
  BY DEF OpToRel
<1> HIDE DEF R
<1>3. PICK m \in T : \A k \in T : ~(<<k, m>> \in R)
  BY <1>1, WFMin
<1>4. ASSUME NEW k \in T PROVE m <= k
  <2>1. k \in Nat /\ m \in Nat /\ ~(<<k, m>> \in R)
    BY <1>3
  <2>2. ~(k < m)
    BY <1>2, <2>1
  <2> QED
    BY <2>1, <2>2
<1> QED
  BY <1>4

LEMMA CountingUp ==
    ASSUME NEW P, 0 \in P, \A n \in Nat : n \in P => n + 1 \in P
    PROVE  Nat \subseteq P
<1> DEFINE T == {n \in Nat : n \notin P}
<1> SUFFICES ASSUME T # {} PROVE FALSE
  OBVIOUS
<1>1. PICK m \in T : \A k \in T : m <= k
  BY Smallest
<1>2. m # 0 /\ m - 1 \in Nat /\ m - 1 \notin T
  BY <1>1
<1> QED
  BY <1>1, <1>2

LEMMA GrowingSets ==
    ASSUME NEW S, IsFiniteSet(S), NEW P,
           \A s \in SUBSET S : (\A t \in SUBSET s : t # s => t \in P) => s \in P
    PROVE  SUBSET S \subseteq P
<1> DEFINE T == {s \in SUBSET S : s \notin P}
<1> SUFFICES ASSUME T # {} PROVE FALSE
  OBVIOUS
<1> DEFINE R == StrictSubsetOrdering(S)
<1>1. IsWellFoundedOn(R, SUBSET S)
  <2>1. IsWellFoundedOn(R, FiniteSubsetsOf(S))
    BY FS_StrictSubsetOrderingWellFounded
  <2>2. FiniteSubsetsOf(S) = SUBSET S
    BY FS_FiniteSubsetsOfFinite
  <2> QED
    BY <2>1, <2>2
<1>2. \A s, t \in SUBSET S : t \subseteq s /\ t # s => <<t, s>> \in R
  BY DEF StrictSubsetOrdering
<1>3. T \subseteq SUBSET S
  OBVIOUS
<1> HIDE DEF R, T
<1>4. PICK s \in T : \A t \in T : ~(<<t, s>> \in R)
  BY <1>1, <1>3, WFMin
<1> USE DEF T
<1>5. ASSUME NEW t \in SUBSET s, t # s, t \notin P
      PROVE  FALSE
  <2>1. t \in T /\ t \in SUBSET S /\ s \in SUBSET S /\ t \subseteq s
    BY <1>5
  <2>2. <<t, s>> \in R
    BY <1>2, <1>5, <2>1
  <2> QED
    BY <1>4, <2>1, <2>2
<1> QED
  BY <1>4, <1>5

-----------------------------------------------------------------------------
(* Folds.                                                                  *)

\* What a step makes of a start, one index after the other.
IsFold(f, n, start, step) ==
    f = [i \in 0 .. n |-> IF i = 0 THEN start ELSE step[<<i, f[i - 1]>>]]

LEMMA FoldExists ==
    ASSUME NEW n \in Nat, NEW A, NEW start \in A, NEW step \in [(1 .. n) \X A -> A]
    PROVE  \E f \in [0 .. n -> A] : IsFold(f, n, start, step)
<1> DEFINE P == {m \in Nat : m <= n => \E f \in [0 .. m -> A] : IsFold(f, m, start, step)}
<1>1. 0 \in P
  <2> DEFINE f == [i \in 0 .. 0 |-> start]
  <2>1. f \in [0 .. 0 -> A] /\ IsFold(f, 0, start, step)
    BY DEF IsFold
  <2> QED
    BY <2>1
<1>2. ASSUME NEW m \in Nat, m \in P
      PROVE  m + 1 \in P
  <2> SUFFICES ASSUME m + 1 <= n
               PROVE  \E f \in [0 .. m + 1 -> A] : IsFold(f, m + 1, start, step)
    OBVIOUS
  <2>1. PICK g \in [0 .. m -> A] : IsFold(g, m, start, step)
    BY <1>2
  <2> DEFINE f == [i \in 0 .. m + 1 |-> IF i = m + 1 THEN step[<<m + 1, g[m]>>] ELSE g[i]]
  <2>2. m + 1 \in 1 .. n /\ g[m] \in A
    BY <2>1
  <2>3. step[<<m + 1, g[m]>>] \in A
    BY <2>2
  <2>4. f \in [0 .. m + 1 -> A]
    BY <2>1, <2>3
  <2>5. \A i \in 0 .. m : g[i] = IF i = 0 THEN start ELSE step[<<i, g[i - 1]>>]
    BY <2>1 DEF IsFold
  <2>6. ASSUME NEW i \in 0 .. m + 1
        PROVE  f[i] = IF i = 0 THEN start ELSE step[<<i, f[i - 1]>>]
    <3>1. CASE i = m + 1
      <4>1. i # 0 /\ i - 1 = m /\ f[m] = g[m]
        BY <3>1
      <4> QED
        BY <3>1, <4>1
    <3>2. CASE i = 0
      <4>1. 0 # m + 1 /\ 0 \in 0 .. m /\ 0 \in 0 .. m + 1
        OBVIOUS
      <4>2. f[0] = g[0] /\ g[0] = start
        BY <2>5, <4>1
      <4> QED
        BY <3>2, <4>2
    <3>3. CASE i # 0 /\ i # m + 1
      <4>1. i \in 0 .. m /\ i - 1 \in 0 .. m
        BY <3>3
      <4>2. f[i] = g[i] /\ f[i - 1] = g[i - 1]
        BY <4>1
      <4> QED
        BY <2>5, <3>3, <4>1, <4>2
    <3> QED
      BY <3>1, <3>2, <3>3
  <2>7. IsFold(f, m + 1, start, step)
    BY <2>6 DEF IsFold
  <2> QED
    BY <2>4, <2>7
<1> HIDE DEF P
<1>3. n \in P
  BY <1>1, <1>2, CountingUp
<1> QED
  BY <1>3 DEF P

=============================================================================
