----------------------- MODULE AllocationReduceProofs -----------------------
(* Proofs about AllocationReduce, for any deployments, amounts, plans and   *)
(* numbers of runs: first the invariant, then lemmas about the finite sums  *)
(* that the model takes from the community modules, then the steps.         *)
EXTENDS AllocationReduce, InductionLemmas, FiniteSetTheorems, TLAPS

(* What the runs know.                                                     *)

Idle(r) == runs[r] = IdleRun

\* What a run has read, and that the memory of the coordinator starts empty.
MemoryOK ==
    /\ \A r \in Runs :
          /\ runs[r].at \in {"decide", "fetch"} => runs[r].excess <= runs[r].used
          /\ runs[r].at = "fetch" => runs[r].excess > 0
    /\ last = NoPlan => lastTotal = 0 /\ \A r \in Runs : ~Sending(r)

\* As long as no two runs met: the only run that is under way works on the last
\* plan, at an entry that has not succeeded.
AloneOK ==
    ~overlapped =>
        /\ \A r, s \in Runs : ~Idle(r) /\ ~Idle(s) => r = s
        /\ \A r \in Runs : Sending(r) =>
              runs[r].plan = last /\ Target(r) \notin plans[last].success

\* While no receipt was lost either, only entries that have succeeded were
\* executed, and the one whose receipt is on its way.
RemovedOK ==
    (~overlapped /\ ~lost /\ last # NoPlan) =>
        plans[last].removed \subseteq
            plans[last].success \cup {Target(r) : r \in {s \in Runs : Sending(s) /\ runs[s].mined}}

IInv == TypeOK /\ MemoryOK /\ AloneOK /\ RemovedOK /\ TotalIsUnfinished
-----------------------------------------------------------------------------
(* Finite sums.                                                            *)

Picked(s) == CHOOSE x \in s : TRUE

LEMMA PickedIn == ASSUME NEW s, s # {} PROVE Picked(s) \in s
  BY DEF Picked

SumStep(f, g, s) == IF s = {} THEN 0 ELSE f[Picked(s)] + g[s \ {Picked(s)}]

IsSum(f, S, g) == g = [s \in SUBSET S |-> SumStep(f, g, s)]

LEMMA SumIter ==
    ASSUME NEW f, NEW S, NEW h, IsSum(f, S, h)
    PROVE  \E g : IsSum(f, S, g) /\ SumFunctionOnSet(f, S) = g[S]
<1> DEFINE it == CHOOSE g : g = [s \in SUBSET S |->
                    IF s = {} THEN 0
                    ELSE f[CHOOSE y \in s : TRUE] + g[s \ {CHOOSE y \in s : TRUE}]]
<1>1. SumFunctionOnSet(f, S) = it[S]
  BY DEF SumFunctionOnSet, FoldFunctionOnSet, MapThenFoldSet
<1>2. IsSum(f, S, it)
  BY DEF IsSum, SumStep, Picked
<1> QED
  BY <1>1, <1>2

LEMMA SumExists ==
    ASSUME NEW S, IsFiniteSet(S), NEW f, \A x \in S : f[x] \in Int
    PROVE  \E g \in [SUBSET S -> Int] : IsSum(f, S, g)
<1> DEFINE Upto(n) == {s \in SUBSET S : Cardinality(s) <= n}
           P == {n \in Nat : \E g \in [Upto(n) -> Int] :
                    \A s \in Upto(n) : g[s] = SumStep(f, g, s)}
<1>0. \A s \in SUBSET S : IsFiniteSet(s) /\ Cardinality(s) \in Nat
  BY FS_Subset, FS_CardinalityType
<1>1. 0 \in P
  <2>1. Upto(0) = {{}}
    BY <1>0, FS_EmptySet
  <2> DEFINE g == [s \in Upto(0) |-> 0]
  <2>2. g \in [Upto(0) -> Int] /\ \A s \in Upto(0) : g[s] = SumStep(f, g, s)
    BY <2>1 DEF SumStep
  <2> QED
    BY <2>2
<1>2. ASSUME NEW n \in Nat, n \in P
      PROVE  n + 1 \in P
  <2>1. PICK g \in [Upto(n) -> Int] : \A s \in Upto(n) : g[s] = SumStep(f, g, s)
    BY <1>2
  <2> DEFINE h == [s \in Upto(n + 1) |-> SumStep(f, g, s)]
  <2>2. ASSUME NEW s \in Upto(n + 1), s # {}
        PROVE  /\ Picked(s) \in S
               /\ s \ {Picked(s)} \in Upto(n)
    <3>1. Picked(s) \in s
      BY <2>2, PickedIn
    <3>2. Cardinality(s \ {Picked(s)}) = Cardinality(s) - 1
      BY <1>0, <3>1, FS_RemoveElement
    <3> QED
      BY <1>0, <3>1, <3>2
  <2>3. Upto(n) \subseteq Upto(n + 1)
    BY <1>0
  <2>4. \A s \in Upto(n + 1) : SumStep(f, g, s) \in Int
    BY <2>1, <2>2 DEF SumStep
  <2>5. \A s \in Upto(n) : h[s] = g[s]
    BY <2>1, <2>3
  <2>6. \A s \in Upto(n + 1) : SumStep(f, h, s) = SumStep(f, g, s)
    <3> HIDE DEF h, Upto
    <3> QED
      BY <2>2, <2>5 DEF SumStep
  <2>7. h \in [Upto(n + 1) -> Int] /\ \A s \in Upto(n + 1) : h[s] = SumStep(f, h, s)
    BY <2>4, <2>6
  <2> HIDE DEF h, Upto
  <2> QED
    BY <2>7
<1> HIDE DEF P
<1>3. Cardinality(S) \in P
  BY <1>0, <1>1, <1>2, CountingUp
<1> USE DEF P
<1>4. Upto(Cardinality(S)) = SUBSET S
  BY FS_Subset
<1>5. PICK g \in [SUBSET S -> Int] : \A s \in SUBSET S : g[s] = SumStep(f, g, s)
  BY <1>3, <1>4
<1> QED
  BY <1>5 DEF IsSum

LEMMA SumUnique ==
    ASSUME NEW S, NEW f, NEW g, IsSum(f, S, g),
           NEW T \in SUBSET S, IsFiniteSet(T), NEW h, IsSum(f, T, h)
    PROVE  h[T] = g[T]
<1> DEFINE P == {s \in SUBSET T : h[s] = g[s]}
<1>1. ASSUME NEW s \in SUBSET T, \A t \in SUBSET s : t # s => t \in P
      PROVE  s \in P
  <2>1. g[s] = SumStep(f, g, s) /\ h[s] = SumStep(f, h, s)
    BY <1>1 DEF IsSum
  <2>2. CASE s = {}
    BY <2>1, <2>2 DEF SumStep
  <2>3. CASE s # {}
    <3>1. s \ {Picked(s)} \in SUBSET s /\ s \ {Picked(s)} # s
      BY <2>3, PickedIn
    <3>2. g[s \ {Picked(s)}] = h[s \ {Picked(s)}]
      BY <1>1, <3>1
    <3> QED
      BY <2>1, <2>3, <3>2 DEF SumStep
  <2> QED
    BY <2>2, <2>3
<1> HIDE DEF P
<1>2. T \in P
  BY <1>1, GrowingSets
<1> QED
  BY <1>2 DEF P

\* The sum of the community module is the value of such a function.
LEMMA SumIs ==
    ASSUME NEW S, IsFiniteSet(S), NEW f, NEW g, IsSum(f, S, g)
    PROVE  \A T \in SUBSET S : SumFunctionOnSet(f, T) = g[T]
<1> SUFFICES ASSUME NEW T \in SUBSET S PROVE SumFunctionOnSet(f, T) = g[T]
  OBVIOUS
<1> DEFINE k == [s \in SUBSET T |-> g[s]]
<1>1. IsFiniteSet(T)
  BY FS_Subset
<1>2. IsSum(f, T, k)
  <2>1. ASSUME NEW s \in SUBSET T
        PROVE  g[s] = SumStep(f, k, s)
    BY PickedIn DEF IsSum, SumStep
  <2> QED
    BY <2>1 DEF IsSum
<1>3. PICK h : IsSum(f, T, h) /\ SumFunctionOnSet(f, T) = h[T]
  BY <1>2, SumIter
<1> QED
  BY <1>1, <1>3, SumUnique

\* Any element of a set may be added last.
LEMMA SumWithout ==
    ASSUME NEW S, IsFiniteSet(S), NEW f, \A x \in S : f[x] \in Int
    PROVE  /\ SumFunctionOnSet(f, {}) = 0
           /\ \A T \in SUBSET S : SumFunctionOnSet(f, T) \in Int
           /\ \A T \in SUBSET S : \A x \in T :
                 SumFunctionOnSet(f, T) = f[x] + SumFunctionOnSet(f, T \ {x})
<1>1. PICK g \in [SUBSET S -> Int] : IsSum(f, S, g)
  BY SumExists
<1>2. \A T \in SUBSET S : SumFunctionOnSet(f, T) = g[T]
  BY <1>1, SumIs
<1>3. \A T \in SUBSET S : g[T] = SumStep(f, g, T)
  BY <1>1 DEF IsSum
<1> DEFINE P == {T \in SUBSET S : \A x \in T : g[T] = f[x] + g[T \ {x}]}
<1>4. ASSUME NEW T \in SUBSET S, \A t \in SUBSET T : t # T => t \in P
      PROVE  T \in P
  <2> SUFFICES ASSUME NEW x \in T PROVE g[T] = f[x] + g[T \ {x}]
    OBVIOUS
  <2> DEFINE y == Picked(T)
  <2>1. y \in T /\ g[T] = f[y] + g[T \ {y}]
    BY <1>3, PickedIn DEF SumStep
  <2>2. CASE x = y
    BY <2>1, <2>2
  <2>3. CASE x # y
    <3>1. T \ {y} \in P /\ T \ {x} \in P
      BY <1>4, <2>1
    <3>2. g[T \ {y}] = f[x] + g[(T \ {y}) \ {x}]
      BY <2>3, <3>1
    <3>3. g[T \ {x}] = f[y] + g[(T \ {x}) \ {y}]
      BY <2>1, <2>3, <3>1
    <3>4. (T \ {x}) \ {y} = (T \ {y}) \ {x}
      OBVIOUS
    <3>5. /\ f[x] \in Int /\ f[y] \in Int
          /\ g[(T \ {x}) \ {y}] \in Int
      BY <1>1, <2>1
    <3> DEFINE gy == g[T \ {y}]
               gx == g[T \ {x}]
               gxy == g[(T \ {x}) \ {y}]
    <3>6. gy = f[x] + gxy /\ gx = f[y] + gxy /\ g[T] = f[y] + gy /\ gxy \in Int
      BY <2>1, <3>2, <3>3, <3>4, <3>5
    <3> HIDE DEF y, gy, gx, gxy
    <3>7. g[T] = f[x] + gx
      BY <3>5, <3>6
    <3> QED
      BY <3>7 DEF gx
  <2> QED
    BY <2>2, <2>3
<1>5. SUBSET S \subseteq P
  <2> HIDE DEF P
  <2> QED
    BY <1>4, GrowingSets
<1>6. SumFunctionOnSet(f, {}) = 0
  BY <1>2, <1>3 DEF SumStep
<1>7. \A T \in SUBSET S : SumFunctionOnSet(f, T) \in Int
  BY <1>2
<1>8. \A T \in SUBSET S : \A x \in T :
                 SumFunctionOnSet(f, T) = f[x] + SumFunctionOnSet(f, T \ {x})
  BY <1>2, <1>5
<1> QED
  BY <1>6, <1>7, <1>8

\* Sums of natural numbers.
LEMMA SumNat ==
    ASSUME NEW S, IsFiniteSet(S), NEW f, \A x \in S : f[x] \in Nat
    PROVE  \A T \in SUBSET S : SumFunctionOnSet(f, T) \in Nat
<1>1. /\ SumFunctionOnSet(f, {}) = 0
      /\ \A T \in SUBSET S : \A x \in T :
            SumFunctionOnSet(f, T) = f[x] + SumFunctionOnSet(f, T \ {x})
  <2>1. \A x \in S : f[x] \in Int
    OBVIOUS
  <2> QED
    BY <2>1, SumWithout
<1> DEFINE P == {T \in SUBSET S : SumFunctionOnSet(f, T) \in Nat}
<1>2. ASSUME NEW T \in SUBSET S, \A t \in SUBSET T : t # T => t \in P
      PROVE  T \in P
  <2>1. CASE T = {}
    BY <1>1, <2>1
  <2>2. CASE T # {}
    <3>1. PICK x \in T : TRUE
      BY <2>2
    <3>2. T \ {x} \in P /\ f[x] \in Nat
      BY <1>2
    <3>3. SumFunctionOnSet(f, T) = f[x] + SumFunctionOnSet(f, T \ {x})
      BY <1>1
    <3> QED
      BY <3>2, <3>3
  <2> QED
    BY <2>1, <2>2
<1> HIDE DEF P
<1>3. SUBSET S \subseteq P
  BY <1>2, GrowingSets
<1> QED
  BY <1>3 DEF P

LEMMA SumOfPart ==
    ASSUME NEW S, IsFiniteSet(S), NEW f, \A x \in S : f[x] \in Nat, NEW T \in SUBSET S
    PROVE  SumFunctionOnSet(f, T) <= SumFunctionOnSet(f, S)
<1>1. \A U \in SUBSET S : SumFunctionOnSet(f, U) \in Nat
  BY SumNat
<1>2. \A U \in SUBSET S : \A x \in U :
         SumFunctionOnSet(f, U) = f[x] + SumFunctionOnSet(f, U \ {x})
  <2>1. \A x \in S : f[x] \in Int
    OBVIOUS
  <2>2. /\ SumFunctionOnSet(f, {}) = 0
        /\ \A U \in SUBSET S : SumFunctionOnSet(f, U) \in Int
        /\ \A U \in SUBSET S : \A x \in U :
              SumFunctionOnSet(f, U) = f[x] + SumFunctionOnSet(f, U \ {x})
    BY <2>1, SumWithout
  <2> QED
    BY <2>2
<1> DEFINE P == {U \in SUBSET S : \A V \in SUBSET U :
                    SumFunctionOnSet(f, V) <= SumFunctionOnSet(f, U)}
<1>3. ASSUME NEW U \in SUBSET S, \A t \in SUBSET U : t # U => t \in P
      PROVE  U \in P
  <2> SUFFICES ASSUME NEW V \in SUBSET U
               PROVE  SumFunctionOnSet(f, V) <= SumFunctionOnSet(f, U)
    OBVIOUS
  <2>1. CASE V = U
    BY <1>1, <2>1
  <2>2. CASE V # U
    <3>1. PICK x \in U : x \notin V
      BY <2>2
    <3>2. U \ {x} \in P /\ V \in SUBSET (U \ {x})
      BY <1>3, <3>1
    <3>3. SumFunctionOnSet(f, V) <= SumFunctionOnSet(f, U \ {x})
      BY <3>2
    <3>4. /\ SumFunctionOnSet(f, V) \in Nat /\ SumFunctionOnSet(f, U \ {x}) \in Nat
          /\ f[x] \in Nat
      BY <1>1
    <3>5. SumFunctionOnSet(f, U) = f[x] + SumFunctionOnSet(f, U \ {x})
      BY <1>2
    <3> QED
      BY <3>3, <3>4, <3>5
  <2> QED
    BY <2>1, <2>2
<1> HIDE DEF P
<1>4. S \in P
  BY <1>3, GrowingSets
<1> QED
  BY <1>4 DEF P

\* What holds of every term holds of the sum.
LEMMA SumScaled ==
    ASSUME NEW S, IsFiniteSet(S), NEW m \in Nat, NEW n \in Nat,
           NEW f, \A x \in S : f[x] \in Nat, NEW g, \A x \in S : g[x] \in Nat,
           \A x \in S : m * f[x] <= n * g[x]
    PROVE  m * SumFunctionOnSet(f, S) <= n * SumFunctionOnSet(g, S)
<1>1. \A T \in SUBSET S : SumFunctionOnSet(f, T) \in Nat /\ SumFunctionOnSet(g, T) \in Nat
  BY SumNat
<1>2. /\ SumFunctionOnSet(f, {}) = 0 /\ SumFunctionOnSet(g, {}) = 0
      /\ \A T \in SUBSET S : \A x \in T :
            /\ SumFunctionOnSet(f, T) = f[x] + SumFunctionOnSet(f, T \ {x})
            /\ SumFunctionOnSet(g, T) = g[x] + SumFunctionOnSet(g, T \ {x})
  <2>1. \A x \in S : f[x] \in Int
    OBVIOUS
  <2>2. \A x \in S : g[x] \in Int
    OBVIOUS
  <2> QED
    BY <2>1, <2>2, SumWithout
<1> DEFINE P == {T \in SUBSET S : m * SumFunctionOnSet(f, T) <= n * SumFunctionOnSet(g, T)}
<1>3. ASSUME NEW T \in SUBSET S, \A t \in SUBSET T : t # T => t \in P
      PROVE  T \in P
  <2>1. CASE T = {}
    BY <1>2, <2>1
  <2>2. CASE T # {}
    <3>1. PICK x \in T : TRUE
      BY <2>2
    <3> DEFINE a == SumFunctionOnSet(f, T \ {x})
               b == SumFunctionOnSet(g, T \ {x})
    <3>2. m * a <= n * b
      <4>1. T \ {x} \in P
        BY <1>3, <3>1
      <4> QED
        BY <4>1
    <3>3. a \in Nat /\ b \in Nat /\ f[x] \in Nat /\ g[x] \in Nat
      BY <1>1
    <3>4. SumFunctionOnSet(f, T) = f[x] + a /\ SumFunctionOnSet(g, T) = g[x] + b
      BY <1>2
    <3>5. m * f[x] <= n * g[x]
      OBVIOUS
    <3> HIDE DEF a, b
    <3>6. m * (f[x] + a) <= n * (g[x] + b)
      <4> DEFINE u == f[x]
                 v == g[x]
      <4>1. u \in Nat /\ v \in Nat /\ m * u <= n * v
        BY <3>3, <3>5
      <4> HIDE DEF u, v
      <4>2. m * (u + a) = m * u + m * a /\ n * (v + b) = n * v + n * b
        BY <3>3, <4>1
      <4>3. m * u \in Nat /\ m * a \in Nat /\ n * v \in Nat /\ n * b \in Nat
        BY <3>3, <4>1
      <4>4. m * (u + a) <= n * (v + b)
        BY <3>2, <4>1, <4>2, <4>3
      <4> QED
        BY <4>4 DEF u, v
    <3> QED
      BY <3>4, <3>6
  <2> QED
    BY <2>1, <2>2
<1> HIDE DEF P
<1>4. S \in P
  BY <1>3, GrowingSets
<1> QED
  BY <1>4 DEF P

LEMMA Division ==
    ASSUME NEW a \in Nat, NEW b \in Nat \ {0}
    PROVE  a \div b \in Nat /\ b * (a \div b) <= a
  OBVIOUS

LEMMA Cancel ==
    ASSUME NEW a \in Int, NEW b \in Int, NEW c \in Nat \ {0}, c * a <= c * b
    PROVE  a <= b
  OBVIOUS
-----------------------------------------------------------------------------
(* The plan for an excess.                                                 *)

LEMMA UsedIs ==
    ASSUME ReduceAssumption, alloc \in [Deployments -> Nat]
    PROVE  Used \in Nat /\ Used = SumFunctionOnSet(alloc, Deployments)
<1>1. Used = SumFunctionOnSet(alloc, Deployments)
  BY DEF Used, SumFunction
<1> QED
  BY <1>1, SumNat DEF ReduceAssumption

shares(excess, used) == [d \in Deployments |-> Share(excess, used, d)]

LEMMA ShareType ==
    ASSUME index \in [Deployments -> Nat], NEW excess \in Nat, NEW used \in Nat \ {0}
    PROVE  /\ shares(excess, used) \in [Deployments -> Nat]
           /\ \A d \in Deployments : /\ shares(excess, used)[d] = Share(excess, used, d)
                                     /\ used * Share(excess, used, d) <= excess * index[d]
<1>1. ASSUME NEW d \in Deployments
      PROVE  /\ Share(excess, used, d) \in Nat
             /\ used * Share(excess, used, d) <= excess * index[d]
  <2> DEFINE a == excess * index[d]
  <2>1. a \in Nat
    OBVIOUS
  <2> HIDE DEF a
  <2>2. a \div used \in Nat /\ used * (a \div used) <= a
    BY <2>1, Division
  <2> QED
    BY <2>2 DEF a, Share
<1> QED
  BY <1>1 DEF shares

\* One step of the loop.
RestStep(order, excess, used, g, i) ==
    IF i = Len(order) THEN excess - SumFunctionOnSet(shares(excess, used), Listed)
    ELSE IF index[order[i + 1]] >= shares(excess, used)[order[i + 1]] + g[i + 1] THEN 0
    ELSE g[i + 1] - (index[order[i + 1]] - shares(excess, used)[order[i + 1]])

LEMMA RestIs ==
    ASSUME ReduceAssumption, index \in [Deployments -> Nat],
           NEW order \in Seq(Deployments), NEW excess \in Nat, NEW used \in Nat \ {0}
    PROVE  /\ Rest(order, excess, used) \in [1 .. Len(order) -> Int]
           /\ \A i \in 1 .. Len(order) :
                 Rest(order, excess, used)[i]
                    = RestStep(order, excess, used, Rest(order, excess, used), i)
<1> DEFINE n == Len(order)
           Step(g, i) == RestStep(order, excess, used, g, i)
           Final(k) == {i \in 1 .. n : n - i <= k}
           P == {k \in Nat : \E g \in [Final(k) -> Int] : \A i \in Final(k) : g[i] = Step(g, i)}
<1>1. /\ n \in Nat
      /\ \A i \in 1 .. n : order[i] \in Deployments
      /\ \A d \in Deployments : shares(excess, used)[d] \in Int /\ index[d] \in Int
      /\ SumFunctionOnSet(shares(excess, used), Listed) \in Int
  <2>1. shares(excess, used) \in [Deployments -> Nat]
    BY ShareType
  <2>2. Listed \in SUBSET Deployments /\ IsFiniteSet(Deployments)
    BY DEF Listed, ReduceAssumption
  <2>3. \A x \in Deployments : shares(excess, used)[x] \in Nat
    BY <2>1
  <2>4. \A T \in SUBSET Deployments : SumFunctionOnSet(shares(excess, used), T) \in Nat
    BY <2>2, <2>3, SumNat
  <2> QED
    BY <2>1, <2>2, <2>4
<1>2. ASSUME NEW g, NEW i \in 1 .. n, i # n => g[i + 1] \in Int
      PROVE  Step(g, i) \in Int
  <2>1. i # n => i + 1 \in 1 .. n
    BY <1>1
  <2> QED
    BY <1>1, <1>2, <2>1 DEF RestStep
<1>3. 0 \in P
  <2> DEFINE h == [i \in Final(0) |-> Step(<<>>, i)]
  <2>1. \A i \in Final(0) : i = n
    BY <1>1
  <2>2. \A i \in Final(0) : h[i] \in Int /\ h[i] = Step(h, i)
    BY <1>2, <2>1 DEF RestStep
  <2>3. h \in [Final(0) -> Int]
    BY <2>2
  <2> QED
    BY <2>2, <2>3
<1>4. ASSUME NEW k \in Nat, k \in P
      PROVE  k + 1 \in P
  <2>1. PICK g \in [Final(k) -> Int] : \A i \in Final(k) : g[i] = Step(g, i)
    BY <1>4
  <2> DEFINE h == [i \in Final(k + 1) |-> Step(g, i)]
  <2>2. \A i \in Final(k + 1) : i \in 1 .. n /\ (i # n => i + 1 \in Final(k))
    BY <1>1
  <2>3. \A i \in Final(k + 1) : Step(g, i) \in Int
    BY <1>2, <2>1, <2>2
  <2>4. Final(k) \subseteq Final(k + 1)
    BY <1>1
  <2>5. \A i \in Final(k) : h[i] = g[i]
    BY <2>1, <2>4
  <2>6. \A i \in Final(k + 1) : Step(h, i) = Step(g, i)
    <3> HIDE DEF h, Final
    <3> QED
      BY <2>2, <2>5 DEF RestStep
  <2>7. h \in [Final(k + 1) -> Int] /\ \A i \in Final(k + 1) : h[i] = Step(h, i)
    BY <2>3, <2>6
  <2> HIDE DEF h, Final, Step
  <2> QED
    BY <2>7
<1>5. n \in P
  <2> HIDE DEF P
  <2> QED
    BY <1>1, <1>3, <1>4, CountingUp
<1>6. Final(n) = 1 .. n
  BY <1>1
<1>7. PICK h \in [1 .. n -> Int] : \A i \in 1 .. n : h[i] = Step(h, i)
  BY <1>5, <1>6
<1>8. h = [i \in 1 .. n |-> Step(h, i)]
  BY <1>7
<1> DEFINE it == CHOOSE f : f = [i \in 1 .. n |-> Step(f, i)]
<1>9. it = [i \in 1 .. n |-> Step(it, i)]
  BY <1>8
<1>10. Rest(order, excess, used) = it
  BY Zenon DEF Rest, RestStep, shares
<1>11. ASSUME NEW f, f = [i \in 1 .. n |-> Step(f, i)]
       PROVE  f \in [1 .. n -> Int]
  <2> DEFINE Q == {k \in Nat : \A i \in 1 .. n : n - i <= k => f[i] \in Int}
  <2>1. \A i \in 1 .. n : f[i] = Step(f, i)
    BY <1>11
  <2>2. 0 \in Q
    <3>1. \A i \in 1 .. n : n - i <= 0 => i = n
      BY <1>1
    <3> HIDE DEF Step
    <3> QED
      BY <1>2, <2>1, <3>1
  <2>3. ASSUME NEW k \in Nat, k \in Q
        PROVE  k + 1 \in Q
    <3>1. \A i \in 1 .. n : n - i <= k + 1 /\ i # n => i + 1 \in 1 .. n /\ n - (i + 1) <= k
      BY <1>1
    <3>2. \A i \in 1 .. n : n - i <= k + 1 /\ i # n => f[i + 1] \in Int
      BY <2>3, <3>1
    <3> HIDE DEF Step
    <3> QED
      BY <1>2, <2>1, <3>2
  <2>4. n \in Q
    <3> HIDE DEF Q
    <3> QED
      BY <1>1, <2>2, <2>3, CountingUp
  <2>5. \A i \in 1 .. n : f[i] \in Int
    BY <1>1, <2>4
  <2> HIDE DEF Step
  <2> QED
    BY <1>11, <2>5
<1>12. /\ it \in [1 .. n -> Int]
       /\ \A i \in 1 .. n : it[i] = Step(it, i)
  <2> HIDE DEF it, Step
  <2> QED
    BY <1>9, <1>11
<1> QED
  BY <1>10, <1>12

\* The index answers with every deployment that it lists, in some order.
LEMMA OrderIs ==
    ASSUME ReduceAssumption, NEW order \in SetToSeqs(Listed)
    PROVE  /\ order \in Seq(Deployments)
           /\ DOMAIN order = 1 .. Len(order)
           /\ \A d \in Listed : \E i \in 1 .. Len(order) : order[i] = d
<1> DEFINE n == Cardinality(Listed)
<1>1. Listed \in SUBSET Deployments
  BY DEF Listed
<1>2. IsFiniteSet(Listed) /\ n \in Nat
  BY <1>1, FS_Subset, FS_CardinalityType DEF ReduceAssumption
<1>3. /\ order \in [1 .. n -> Listed]
      /\ \A i, j \in 1 .. n : i # j => order[i] # order[j]
  BY DEF SetToSeqs
<1>4. order \in Seq(Deployments) /\ Len(order) = n /\ DOMAIN order = 1 .. n
  BY <1>1, <1>2, <1>3
<1>5. order \in Injection(1 .. n, Listed)
  BY <1>3 DEF Injection, IsInjective
<1>6. Cardinality(1 .. n) = n
  <2>1. 1 \in Int /\ n \in Int
    BY <1>2
  <2>2. Cardinality(1 .. n) = IF 1 > n THEN 0 ELSE n - 1 + 1
    BY <2>1, FS_Interval
  <2> QED
    BY <1>2, <2>2
<1>7. order \in Surjection(1 .. n, Listed)
  BY <1>2, <1>5, <1>6, FS_Injection
<1> QED
  BY <1>4, <1>7 DEF Surjection

\* The amount of the i-th deployment.
AmountAt(order, excess, used, i) ==
    IF index[order[i]] >= Share(excess, used, order[i]) + Rest(order, excess, used)[i]
    THEN Share(excess, used, order[i]) + Rest(order, excess, used)[i]
    ELSE index[order[i]]

LEMMA FillIs ==
    ASSUME ReduceAssumption, NEW order \in SetToSeqs(Listed), NEW excess, NEW used,
           NEW d \in Listed
    PROVE  \E i \in 1 .. Len(order) :
              order[i] = d /\ Fill(order, excess, used)[d] = AmountAt(order, excess, used, i)
<1> DEFINE i == CHOOSE j \in DOMAIN order : order[j] = d
<1>1. DOMAIN order = 1 .. Len(order) /\ \E j \in DOMAIN order : order[j] = d
  BY OrderIs
<1>2. i \in 1 .. Len(order) /\ order[i] = d
  BY <1>1
<1>3. Fill(order, excess, used)[d] =
         IF index[d] >= Share(excess, used, d) + Rest(order, excess, used)[i]
         THEN Share(excess, used, d) + Rest(order, excess, used)[i] ELSE index[d]
  BY DEF Fill, Listed
<1> QED
  BY <1>2, <1>3 DEF AmountAt

LEMMA FillType ==
    ASSUME ReduceAssumption, index \in [Deployments -> Nat],
           NEW order \in SetToSeqs(Listed), NEW excess \in Nat, NEW used \in Nat \ {0}
    PROVE  Fill(order, excess, used) \in [Deployments -> Int]
<1> DEFINE fill == Fill(order, excess, used)
<1>1. fill = [d \in Deployments |-> fill[d]]
  BY DEF Fill
<1>2. ASSUME NEW d \in Deployments
      PROVE  fill[d] \in Int
  <2>1. CASE d \notin Listed
    BY <2>1 DEF Fill
  <2>2. CASE d \in Listed
    <3>1. PICK i \in 1 .. Len(order) :
             order[i] = d /\ fill[d] = AmountAt(order, excess, used, i)
      BY <2>2, FillIs
    <3>2. order \in Seq(Deployments)
      BY OrderIs
    <3>3. Rest(order, excess, used)[i] \in Int
      <4>1. Rest(order, excess, used) \in [1 .. Len(order) -> Int]
        BY <3>2, RestIs
      <4> QED
        BY <4>1
    <3>4. Share(excess, used, d) \in Nat
      BY ShareType
    <3> QED
      BY <3>1, <3>3, <3>4 DEF AmountAt
  <2> QED
    BY <2>1, <2>2
<1> HIDE DEF fill
<1>3. fill \in [Deployments -> Int]
  BY <1>1, <1>2
<1> QED
  BY <1>3 DEF fill

\* Whatever the rounding: no share is more than the allocation it is taken from,
\* and what is left of the remainder never becomes negative.
LEMMA ShareFits ==
    ASSUME index \in [Deployments -> Nat],
           NEW excess \in Nat, NEW used \in Nat \ {0}, excess <= used, NEW d \in Deployments
    PROVE  Share(excess, used, d) \in 0 .. index[d]
<1> DEFINE a == Share(excess, used, d)
           b == index[d]
<1>1. a \in Nat /\ b \in Nat /\ used * a <= excess * b
  BY ShareType
<1> HIDE DEF a, b
<1>2. excess * b <= used * b
  BY <1>1
<1>3. used * a <= used * b
  BY <1>1, <1>2
<1>4. a <= b
  BY <1>1, <1>3, Cancel
<1> QED
  BY <1>1, <1>4 DEF a, b

LEMMA RestNat ==
    ASSUME ReduceAssumption, index \in [Deployments -> Nat],
           NEW order \in Seq(Deployments), NEW excess \in Nat, NEW used \in Nat \ {0},
           used = SumFunctionOnSet(index, Deployments)
    PROVE  \A i \in 1 .. Len(order) : Rest(order, excess, used)[i] \in Nat
<1> DEFINE n == Len(order)
           rest == Rest(order, excess, used)
           share == shares(excess, used)
           P == {k \in Nat : \A i \in 1 .. n : n - i <= k => rest[i] >= 0}
<1>1. /\ n \in Nat /\ rest \in [1 .. n -> Int]
      /\ \A i \in 1 .. n : rest[i] = RestStep(order, excess, used, rest, i)
      /\ \A i \in 1 .. n : order[i] \in Deployments
  BY RestIs
<1>2. /\ share \in [Deployments -> Nat]
      /\ \A d \in Deployments : used * share[d] <= excess * index[d]
  BY ShareType
<1>3. excess - SumFunctionOnSet(share, Listed) >= 0
  <2> DEFINE a == SumFunctionOnSet(share, Listed)
             b == SumFunctionOnSet(index, Listed)
  <2>1. IsFiniteSet(Deployments) /\ Listed \in SUBSET Deployments /\ IsFiniteSet(Listed)
    BY FS_Subset DEF ReduceAssumption, Listed
  <2>2. \A d \in Deployments : share[d] \in Nat /\ index[d] \in Nat
    BY <1>2
  <2>3. a \in Nat /\ b \in Nat
    BY <2>1, <2>2, SumNat
  <2>4. used * a <= excess * b
    <3>1. \A d \in Listed : share[d] \in Nat /\ index[d] \in Nat
                           /\ used * share[d] <= excess * index[d]
      BY <1>2, <2>1, <2>2
    <3> HIDE DEF share
    <3> QED
      BY <2>1, <3>1, SumScaled
  <2>5. b <= used
    BY <2>1, <2>2, SumOfPart
  <2> HIDE DEF a, b
  <2>6. excess * b <= excess * used
    BY <2>3, <2>5
  <2>7. excess * used = used * excess /\ used * excess \in Nat /\ used * a \in Nat
        /\ excess * b \in Nat
    BY <2>3
  <2>8. used * a <= used * excess
    BY <2>4, <2>6, <2>7
  <2>9. a <= excess
    <3>1. a \in Int /\ excess \in Int
      BY <2>3
    <3> QED
      BY <2>8, <3>1, Cancel
  <2> QED
    BY <2>3, <2>9 DEF a
<1>4. 0 \in P
  <2>1. \A i \in 1 .. n : n - i <= 0 => i = n
    BY <1>1
  <2> HIDE DEF rest, share
  <2> QED
    BY <1>1, <1>3, <2>1 DEF RestStep, share
<1>5. ASSUME NEW k \in Nat, k \in P
      PROVE  k + 1 \in P
  <2> SUFFICES ASSUME NEW i \in 1 .. n, n - i <= k + 1 PROVE rest[i] >= 0
    OBVIOUS
  <2>1. CASE i = n
    BY <1>1, <1>3, <2>1 DEF RestStep
  <2>2. CASE i # n
    <3> DEFINE d == order[i + 1]
               r == rest[i + 1]
    <3>1. i + 1 \in 1 .. n /\ n - (i + 1) <= k
      BY <1>1, <2>2
    <3>2. r >= 0 /\ r \in Int /\ d \in Deployments
      BY <1>1, <1>5, <3>1
    <3>3. share[d] \in Nat /\ index[d] \in Nat
      BY <1>2, <3>2
    <3>4. rest[i] = IF index[d] >= share[d] + r THEN 0 ELSE r - (index[d] - share[d])
      BY <1>1, <2>2 DEF RestStep
    <3> HIDE DEF rest, share, d, r
    <3> QED
      BY <3>2, <3>3, <3>4
  <2> QED
    BY <2>1, <2>2
<1>6. n \in P
  <2> HIDE DEF P
  <2> QED
    BY <1>1, <1>4, <1>5, CountingUp
<1> HIDE DEF rest
<1>7. \A i \in 1 .. n : rest[i] >= 0
  BY <1>1, <1>6
<1>8. \A i \in 1 .. n : rest[i] \in Nat
  BY <1>1, <1>7
<1> QED
  BY <1>8 DEF rest

LEMMA FillFits ==
    ASSUME ReduceAssumption, index \in [Deployments -> Nat],
           NEW order \in SetToSeqs(Listed), NEW excess \in Nat, NEW used \in Nat \ {0},
           excess <= used, used = SumFunctionOnSet(index, Deployments),
           NEW d \in Deployments
    PROVE  Fill(order, excess, used)[d] \in 0 .. index[d]
<1>1. CASE d \notin Listed
  BY <1>1 DEF Fill
<1>2. CASE d \in Listed
  <2>1. PICK i \in 1 .. Len(order) :
           order[i] = d /\ Fill(order, excess, used)[d] = AmountAt(order, excess, used, i)
    BY <1>2, FillIs
  <2>2. order \in Seq(Deployments)
    BY OrderIs
  <2>3. Rest(order, excess, used)[i] \in Nat
    BY <2>2, RestNat
  <2>4. Share(excess, used, d) \in 0 .. index[d]
    BY ShareFits
  <2> QED
    BY <2>1, <2>3, <2>4 DEF AmountAt
<1> QED
  BY <1>1, <1>2
-----------------------------------------------------------------------------
(* The runs.                                                               *)

LEMMA NextEntryIs ==
    ASSUME NEW plan \in Plan, NEW from \in Nat \ {0}, NextEntry(plan, from) # 0
    PROVE  /\ NextEntry(plan, from) \in 1 .. Len(plan.order)
           /\ plan.order[NextEntry(plan, from)] \notin plan.success
<1> DEFINE I == {i \in from .. Len(plan.order) : plan.order[i] \notin plan.success}
<1>1. NextEntry(plan, from) = IF I # {} THEN Min(I) ELSE 0
  BY DEF NextEntry, SelectInSubSeq
<1>2. I # {} /\ NextEntry(plan, from) = Min(I)
  BY <1>1
<1>3. Len(plan.order) \in Nat
  BY DEF Plan
<1>4. I \in SUBSET Nat /\ I \subseteq 1 .. Len(plan.order)
  BY <1>3
<1>5. Min(I) \in I
  <2> HIDE DEF I
  <2>1. \E m \in I : \A k \in I : m <= k
    BY <1>2, <1>4, Smallest
  <2> QED
    BY <2>1 DEF Min
<1> QED
  BY <1>2, <1>4, <1>5

LEMMA RunIs ==
    ASSUME TypeOK, NEW r \in Runs
    PROVE  /\ runs[r].at \in {"idle", "decide", "fetch", "send"}
           /\ runs[r].at = "idle" => Idle(r)
           /\ runs[r].at \in {"decide", "fetch"} => runs[r].excess \in Int /\ runs[r].used \in Nat
           /\ Sending(r) =>
                 /\ runs[r].plan \in PlanIds /\ runs[r].entry \in Nat \ {0}
                 /\ plans[runs[r].plan] \in Plan
                 /\ Target(r) \in Deployments
                 /\ Amount(r) \in Int
<1>1. runs[r] \in Run
  BY DEF TypeOK
<1>2. ASSUME Sending(r)
      PROVE  /\ runs[r].plan \in PlanIds /\ runs[r].entry \in Nat \ {0}
             /\ plans[runs[r].plan] \in Plan
             /\ runs[r].entry \in 1 .. Len(plans[runs[r].plan].order)
  <2>1. runs[r] \in [at: {"send"}, plan: PlanIds, entry: Nat \ {0}, mined: BOOLEAN]
    BY <1>1, <1>2 DEF Run, Sending
  <2>2. plans[runs[r].plan] \in Plan
    BY <1>2, <2>1 DEF TypeOK, Sending
  <2>3. Len(plans[runs[r].plan].order) \in Nat
    BY <2>2 DEF Plan
  <2> QED
    BY <1>2, <2>1, <2>2, <2>3 DEF TypeOK, Sending
<1>3. ASSUME Sending(r)
      PROVE  Target(r) \in Deployments /\ Amount(r) \in Int
  <2> DEFINE plan == plans[runs[r].plan]
  <2>1. plan \in Plan /\ runs[r].entry \in 1 .. Len(plan.order)
    BY <1>2, <1>3
  <2>2. plan.order[runs[r].entry] \in Deployments
    BY <2>1 DEF Plan
  <2> QED
    BY <2>1, <2>2 DEF Plan, Target, Amount
<1>4. /\ runs[r].at \in {"idle", "decide", "fetch", "send"}
      /\ runs[r].at = "idle" => Idle(r)
      /\ runs[r].at \in {"decide", "fetch"} => runs[r].excess \in Int /\ runs[r].used \in Nat
  BY <1>1 DEF Run, Idle, IdleRun
<1> QED
  BY <1>2, <1>3, <1>4

\* A heap that has what memory has, in the same order.
Keeps(heap) ==
    /\ heap \in [PlanIds -> Plan \cup {NoPlan}]
    /\ \A p \in PlanIds : plans[p] # NoPlan =>
          heap[p] # NoPlan /\ heap[p].order = plans[p].order

\* A run is about to send an entry of p that has not succeeded.
Sends(next, heap, p) ==
    /\ next \in Run /\ next.at = "send" /\ next.plan = p /\ ~next.mined
    /\ p \in PlanIds /\ heap[p] # NoPlan
    /\ next.entry <= Len(heap[p].order)
    /\ heap[p].order[next.entry] \notin heap[p].success

Fetches(next) ==
    /\ next \in [at: {"fetch"}, excess: Int, used: Nat]
    /\ next.excess > 0 /\ next.excess <= next.used

LEMMA NextIs ==
    ASSUME NEW next, NEW heap, NEW p
    PROVE  /\ next = IdleRun => next.at # "send"
           /\ Sends(next, heap, p) => next.at = "send" /\ next.plan = p
  BY DEF IdleRun, Sends

LEMMA GoOnIs ==
    ASSUME NEW r \in Runs, NEW p \in PlanIds, NEW heap, heap[p] \in Plan, heap[p] # NoPlan,
           NEW from \in Nat \ {0}, GoOn(r, p, from, heap)
    PROVE  \E next : Proceed(r, next, heap) /\ (next = IdleRun \/ Sends(next, heap, p))
<1> DEFINE i == NextEntry(heap[p], from)
<1>1. CASE i = 0
  BY <1>1 DEF GoOn
<1>2. CASE i # 0
  <2>1. i \in 1 .. Len(heap[p].order) /\ heap[p].order[i] \notin heap[p].success
    BY <1>2, NextEntryIs
  <2> DEFINE next == [at |-> "send", plan |-> p, entry |-> i, mined |-> FALSE]
  <2>2. Proceed(r, next, heap)
    BY <1>2 DEF GoOn
  <2> HIDE DEF i
  <2>3. Len(heap[p].order) \in Nat
    BY DEF Plan
  <2>4. next \in Run
    <3>1. next \in [at: {"send"}, plan: PlanIds, entry: Nat \ {0}, mined: BOOLEAN]
      BY <2>1, <2>3
    <3> QED
      BY <3>1 DEF Run
  <2>5. Sends(next, heap, p)
    BY <2>1, <2>3, <2>4 DEF Sends
  <2> QED
    BY <2>2, <2>5
<1> QED
  BY <1>1, <1>2

\* What the last plan of a heap has to be like when the run r, alone, goes on.
AloneWith(heap, next) ==
    /\ next.at = "send" => next.plan = last'
    /\ last' # NoPlan =>
          /\ lastTotal' = SumFunctionOnSet(heap[last'].toReduce,
                                          Deployments \ heap[last'].success)
          /\ ~lost' => heap[last'].removed \subseteq heap[last'].success

LEMMA ProceedOK ==
    ASSUME ReduceAssumption, TypeOK, MemoryOK, NEW r \in Runs,
           NEW heap, Keeps(heap), NEW next, Proceed(r, next, heap),
           next = IdleRun \/ Fetches(next) \/ \E p \in PlanIds : Sends(next, heap, p),
           UNCHANGED chainVars,
           last' \in PlanIds \cup {NoPlan}, lastTotal' \in Int,
           overlapped' \in BOOLEAN, lost' \in BOOLEAN,
           last' # NoPlan => heap[last'] # NoPlan,
           last' = NoPlan => last = NoPlan /\ lastTotal' = 0 /\ next.at # "send",
           ~overlapped' => AloneWith(heap, next) /\ \A s \in Runs : s # r => Idle(s)
    PROVE  IInv'
<1>1. /\ runs \in [Runs -> Run] /\ runs' = [runs EXCEPT ![r] = next]
      /\ plans' = [p \in PlanIds |->
                     IF p = last' \/ \E s \in Runs : runs'[s].at = "send" /\ runs'[s].plan = p
                     THEN heap[p] ELSE NoPlan]
  BY DEF Proceed, TypeOK
<1>2. /\ heap \in [PlanIds -> Plan \cup {NoPlan}]
      /\ \A p \in PlanIds : plans[p] # NoPlan =>
            heap[p] # NoPlan /\ heap[p].order = plans[p].order
  BY DEF Keeps
<1>3. /\ next \in Run /\ next.at \in {"idle", "fetch", "send"}
      /\ next.at = "idle" => next = IdleRun
      /\ next.at = "fetch" => next.excess > 0 /\ next.excess <= next.used
      /\ next.at = "send" =>
            /\ next.plan \in PlanIds /\ heap[next.plan] # NoPlan
            /\ next.entry <= Len(heap[next.plan].order)
            /\ heap[next.plan].order[next.entry] \notin heap[next.plan].success
            /\ ~next.mined
  <2>1. CASE next = IdleRun
    BY <2>1 DEF IdleRun, Run
  <2>2. CASE Fetches(next)
    <3>1. next \in [at: {"decide", "fetch"}, excess: Int, used: Nat]
      BY <2>2 DEF Fetches
    <3>2. next \in Run
      BY <3>1 DEF Run
    <3> QED
      BY <2>2, <3>2 DEF Fetches
  <2>3. ASSUME NEW p \in PlanIds, Sends(next, heap, p)
        PROVE  <1>3!1 /\ <1>3!2 /\ <1>3!3 /\ <1>3!4
    BY <2>3 DEF Sends
  <2> QED
    BY <2>1, <2>2, <2>3
<1>4. /\ runs'[r] = next
      /\ \A s \in Runs : s # r => runs'[s] = runs[s]
  BY <1>1
<1>5. ASSUME NEW p \in PlanIds,
             p = last' \/ \E s \in Runs : runs'[s].at = "send" /\ runs'[s].plan = p
      PROVE  plans'[p] = heap[p]
  BY <1>1, <1>5
<1>6. runs' \in [Runs -> Run]
  BY <1>1, <1>3
<1>7. plans' \in [PlanIds -> Plan \cup {NoPlan}]
  BY <1>1, <1>2
<1>8. ASSUME NEW s \in Runs, runs'[s].at = "send"
      PROVE  /\ plans'[runs'[s].plan] # NoPlan
             /\ runs'[s].entry <= Len(plans'[runs'[s].plan].order)
             /\ plans'[runs'[s].plan] = heap[runs'[s].plan]
  <2>1. CASE s = r
    BY <1>3, <1>4, <1>5, <1>8, <2>1
  <2>2. CASE s # r
    <3>1. runs[s].at = "send" /\ runs'[s] = runs[s]
      BY <1>4, <1>8, <2>2
    <3>2. /\ runs[s].plan \in PlanIds /\ plans[runs[s].plan] # NoPlan
          /\ runs[s].entry <= Len(plans[runs[s].plan].order)
      BY <3>1, RunIs DEF TypeOK, Sending
    <3>3. /\ heap[runs[s].plan] # NoPlan
          /\ heap[runs[s].plan].order = plans[runs[s].plan].order
      BY <1>2, <3>2
    <3>4. plans'[runs[s].plan] = heap[runs[s].plan]
      BY <1>5, <1>8, <3>1, <3>2
    <3> QED
      BY <3>1, <3>2, <3>3, <3>4
  <2> QED
    BY <2>1, <2>2
<1>9. last' # NoPlan => plans'[last'] = heap[last'] /\ plans'[last'] # NoPlan
  BY <1>5
<1>10. TypeOK'
  BY <1>6, <1>7, <1>8, <1>9 DEF TypeOK, chainVars
<1>11. MemoryOK'
  <2>1. ASSUME NEW s \in Runs
        PROVE  /\ runs'[s].at \in {"decide", "fetch"} => runs'[s].excess <= runs'[s].used
               /\ runs'[s].at = "fetch" => runs'[s].excess > 0
               /\ last' = NoPlan => runs'[s].at # "send"
    <3>1. CASE s = r
      BY <1>3, <1>4, <3>1
    <3>2. CASE s # r
      BY <1>4, <3>2 DEF MemoryOK, Sending
    <3> QED
      BY <3>1, <3>2
  <2> QED
    BY <2>1 DEF MemoryOK, Sending
<1>12. ASSUME ~overlapped', NEW s \in Runs, ~(runs'[s] = IdleRun)
       PROVE  s = r
  BY <1>4, <1>12 DEF Idle
<1>13. ASSUME ~overlapped', NEW s \in Runs, runs'[s].at = "send"
       PROVE  /\ s = r /\ runs'[s].plan = last' /\ ~runs'[s].mined
              /\ plans'[last'].order[runs'[s].entry] \notin plans'[last'].success
  <2>1. s = r
    BY <1>12, <1>13 DEF IdleRun
  <2>2. runs'[s] = next
    BY <1>4, <2>1
  <2>3. next.at = "send" /\ next.plan = last'
    BY <1>13, <2>2 DEF AloneWith
  <2>4. last' \in PlanIds /\ plans'[last'] = heap[last']
    BY <1>3, <1>8, <1>13, <2>2, <2>3
  <2> QED
    BY <1>3, <2>1, <2>2, <2>3, <2>4
<1>14. AloneOK'
  BY <1>12, <1>13 DEF AloneOK, Idle, Sending, Target
<1>15. RemovedOK'
  BY <1>9 DEF RemovedOK, AloneWith
<1>16. TotalIsUnfinished'
  BY <1>9 DEF TotalIsUnfinished, Unfinished, AloneWith
<1> QED
  BY <1>10, <1>11, <1>14, <1>15, <1>16 DEF IInv

\* Plans with other entries succeeded or removed.
LEMMA PlanWith ==
    ASSUME NEW k \in Plan, NEW S \in SUBSET Deployments
    PROVE  /\ [k EXCEPT !.success = S] \in Plan /\ [k EXCEPT !.success = S].success = S
           /\ [k EXCEPT !.success = S].order = k.order
           /\ [k EXCEPT !.success = S].toReduce = k.toReduce
           /\ [k EXCEPT !.success = S].removed = k.removed
           /\ [k EXCEPT !.removed = S] \in Plan /\ [k EXCEPT !.removed = S].removed = S
           /\ [k EXCEPT !.removed = S].order = k.order
           /\ [k EXCEPT !.removed = S].toReduce = k.toReduce
           /\ [k EXCEPT !.removed = S].success = k.success
  BY DEF Plan

LEMMA BeginStep ==
    ASSUME ReduceAssumption, IInv, NEW r \in Runs, Begin(r)
    PROVE  IInv'
<1> DEFINE next == [at |-> "decide", excess |-> Used - total, used |-> Used]
<1>1. /\ Idle(r) /\ runs' = [runs EXCEPT ![r] = next]
      /\ overlapped' = (overlapped \/ \E s \in Runs : runs[s] # IdleRun)
      /\ UNCHANGED <<alloc, total, index, changes, plans, last, lastTotal, lost>>
  BY DEF Begin, Idle, chainVars
<1>2. Used \in Nat /\ total \in Nat
  BY UsedIs DEF IInv, TypeOK, ReduceAssumption
<1>3. next \in Run /\ next.at = "decide" /\ next.excess <= next.used
  <2>1. next \in [at: {"decide", "fetch"}, excess: Int, used: Nat]
    BY <1>2
  <2> QED
    BY <1>2, <2>1 DEF Run
<1> HIDE DEF next
<1>4. /\ runs'[r] = next /\ runs' \in [Runs -> Run]
      /\ \A s \in Runs : s # r => runs'[s] = runs[s]
  BY <1>1, <1>3 DEF IInv, TypeOK
<1>5. overlapped' \in BOOLEAN
  BY <1>1
<1>6. TypeOK'
  BY <1>1, <1>3, <1>4, <1>5 DEF IInv, TypeOK
<1>7. MemoryOK'
  BY <1>1, <1>3, <1>4 DEF IInv, MemoryOK, Sending
<1>8. ~overlapped' => /\ ~overlapped /\ \A s \in Runs : runs[s] = IdleRun
                      /\ \A s \in Runs : s # r => runs'[s] = IdleRun
  BY <1>1, <1>4
<1>9. AloneOK'
  BY <1>3, <1>4, <1>8 DEF AloneOK, Idle, Sending, IdleRun
<1>10. RemovedOK'
  <2> SUFFICES ASSUME ~overlapped', ~lost', last' # NoPlan
               PROVE  plans'[last'].removed \subseteq plans'[last'].success
    BY DEF RemovedOK
  <2>1. \A s \in Runs : ~Sending(s)
    BY <1>8 DEF Sending, IdleRun
  <2> QED
    BY <1>1, <1>8, <2>1 DEF IInv, RemovedOK
<1>11. TotalIsUnfinished'
  BY <1>1, <1>8 DEF IInv, TotalIsUnfinished, Unfinished
<1> QED
  BY <1>6, <1>7, <1>9, <1>10, <1>11 DEF IInv

\* While only r is under way and has no receipt to wait for, the last plan is as
\* it has to be when r goes on.
LEMMA AloneNow ==
    ASSUME IInv, NEW r \in Runs, ~Idle(r), ~overlapped
    PROVE  /\ \A s \in Runs : s # r => Idle(s)
           /\ last # NoPlan =>
                 /\ lastTotal = SumFunctionOnSet(plans[last].toReduce,
                                                Deployments \ plans[last].success)
                 /\ ~lost /\ ~(Sending(r) /\ runs[r].mined) =>
                       plans[last].removed \subseteq plans[last].success
                 /\ ~lost => plans[last].removed \subseteq plans[last].success \cup {Target(r)}
<1>1. \A s \in Runs : s # r => Idle(s)
  BY DEF IInv, AloneOK
<1>2. \A s \in Runs : Sending(s) => s = r
  BY <1>1 DEF Idle, IdleRun, Sending
<1>3. /\ ~(Sending(r) /\ runs[r].mined) =>
             {Target(s) : s \in {q \in Runs : Sending(q) /\ runs[q].mined}} = {}
      /\ {Target(s) : s \in {q \in Runs : Sending(q) /\ runs[q].mined}} \subseteq {Target(r)}
  BY <1>2
<1> QED
  BY <1>1, <1>3 DEF IInv, RemovedOK, TotalIsUnfinished, Unfinished

LEMMA AbortStep ==
    ASSUME ReduceAssumption, IInv, NEW r \in Runs, Abort(r)
    PROVE  IInv'
<1>1. /\ runs[r].at \in {"decide", "fetch"} /\ Proceed(r, IdleRun, plans)
      /\ UNCHANGED <<chainVars, last, lastTotal, overlapped, lost>>
  BY DEF Abort
<1>2. ~Idle(r) /\ ~Sending(r)
  BY <1>1 DEF Idle, IdleRun, Sending
<1>3. ~overlapped' => AloneWith(plans, IdleRun) /\ \A s \in Runs : s # r => Idle(s)
  BY <1>1, <1>2, AloneNow DEF AloneWith, IdleRun
<1>4. TypeOK /\ MemoryOK /\ Keeps(plans)
  BY DEF IInv, TypeOK, Keeps
<1>5. /\ last' \in PlanIds \cup {NoPlan} /\ lastTotal' \in Int
      /\ overlapped' \in BOOLEAN /\ lost' \in BOOLEAN
      /\ last' # NoPlan => plans[last'] # NoPlan
      /\ last' = NoPlan => last = NoPlan /\ lastTotal' = 0 /\ IdleRun.at # "send"
  BY <1>1, <1>4 DEF TypeOK, MemoryOK, IdleRun
<1> QED
  BY <1>1, <1>3, <1>4, <1>5, ProceedOK

LEMMA DecideStep ==
    ASSUME ReduceAssumption, IInv, NEW r \in Runs, Decide(r)
    PROVE  IInv'
<1> DEFINE excess == runs[r].excess
           fetch == [runs[r] EXCEPT !.at = "fetch"]
<1>1. /\ runs[r].at = "decide"
      /\ UNCHANGED <<chainVars, last, lastTotal, overlapped, lost>>
  BY DEF Decide
<1>2. TypeOK /\ MemoryOK /\ Keeps(plans)
  BY DEF IInv, TypeOK, Keeps
<1>3. ~Idle(r) /\ ~Sending(r)
  BY <1>1 DEF Idle, IdleRun, Sending
<1>4. runs[r] \in [at: {"decide", "fetch"}, excess: Int, used: Nat] /\ excess <= runs[r].used
  BY <1>1, <1>2 DEF TypeOK, Run, MemoryOK
<1>5. ASSUME NEW next, Proceed(r, next, plans),
             next = IdleRun \/ Fetches(next) \/ Sends(next, plans, last)
      PROVE  IInv'
  <2>1. next.at = "send" => last # NoPlan /\ next.plan = last /\ last \in PlanIds
    <3>1. next = IdleRun \/ Fetches(next) => next.at # "send"
      BY DEF IdleRun, Fetches
    <3>2. Sends(next, plans, last) => next.plan = last /\ last \in PlanIds
      BY DEF Sends
    <3>3. NoPlan \notin PlanIds
      BY DEF ReduceAssumption
    <3> QED
      BY <1>5, <3>1, <3>2, <3>3
  <2>2. ~overlapped' => AloneWith(plans, next) /\ \A s \in Runs : s # r => Idle(s)
    BY <1>1, <1>3, <2>1, AloneNow DEF AloneWith
  <2>3. /\ last' \in PlanIds \cup {NoPlan} /\ lastTotal' \in Int
        /\ overlapped' \in BOOLEAN /\ lost' \in BOOLEAN
        /\ last' # NoPlan => plans[last'] # NoPlan
        /\ last' = NoPlan => last = NoPlan /\ lastTotal' = 0 /\ next.at # "send"
    BY <1>1, <1>2, <2>1 DEF TypeOK, MemoryOK
  <2>4. next = IdleRun \/ Fetches(next) \/ \E p \in PlanIds : Sends(next, plans, p)
    BY <1>5 DEF Sends
  <2> QED
    BY <1>1, <1>2, <1>5, <2>2, <2>3, <2>4, ProceedOK
<1>6. CASE excess <= 0
  BY <1>5, <1>6 DEF Decide
<1>7. CASE excess > 0 /\ excess = lastTotal
  <2>1. GoOn(r, last, 1, plans)
    BY <1>4, <1>7 DEF Decide
  <2>2. last # NoPlan /\ last \in PlanIds /\ plans[last] \in Plan /\ plans[last] # NoPlan
    BY <1>2, <1>7 DEF TypeOK, MemoryOK
  <2>3. \E next : Proceed(r, next, plans) /\ (next = IdleRun \/ Sends(next, plans, last))
    BY <2>1, <2>2, GoOnIs
  <2> QED
    BY <1>5, <2>3
<1>8. CASE excess > 0 /\ excess # lastTotal
  <2>1. Proceed(r, fetch, plans)
    BY <1>4, <1>8 DEF Decide
  <2>2. Fetches(fetch)
    BY <1>4, <1>8 DEF Fetches
  <2> QED
    BY <1>5, <2>1, <2>2
<1> QED
  BY <1>4, <1>6, <1>7, <1>8

LEMMA HeapWith ==
    ASSUME TypeOK, NEW p \in PlanIds, NEW k \in Plan, k # NoPlan,
           plans[p] = NoPlan \/ k.order = plans[p].order
    PROVE  Keeps([plans EXCEPT ![p] = k]) /\ [plans EXCEPT ![p] = k][p] = k
  BY DEF TypeOK, Keeps

LEMMA PlanNotNone ==
    ASSUME ReduceAssumption, NEW k \in Plan
    PROVE  k # NoPlan
  BY DEF ReduceAssumption

\* The plan of a run that has read the stake.
LEMMA NewPlanType ==
    ASSUME ReduceAssumption, TypeOK, MemoryOK, NEW r \in Runs, runs[r].at = "fetch",
           NEW order \in SetToSeqs(Listed)
    PROVE  /\ NewPlan(order, runs[r].excess, runs[r].used) \in Plan
           /\ NewPlan(order, runs[r].excess, runs[r].used).toReduce
                 = Fill(order, runs[r].excess, runs[r].used)
           /\ NewPlan(order, runs[r].excess, runs[r].used).success = {}
           /\ NewPlan(order, runs[r].excess, runs[r].used).removed = {}
           /\ runs[r].excess \in Nat /\ runs[r].used \in Nat \ {0}
           /\ runs[r].excess <= runs[r].used
<1>1. runs[r].excess \in Int /\ runs[r].used \in Nat
  BY RunIs
<1>2. runs[r].excess > 0 /\ runs[r].excess <= runs[r].used
  BY DEF MemoryOK
<1>3. runs[r].excess \in Nat /\ runs[r].used \in Nat \ {0}
  BY <1>1, <1>2
<1>4. Fill(order, runs[r].excess, runs[r].used) \in [Deployments -> Int]
  BY <1>3, FillType DEF TypeOK
<1>5. order \in Seq(Deployments)
  BY OrderIs
<1> QED
  BY <1>2, <1>3, <1>4, <1>5 DEF NewPlan, Plan

LEMMA FetchStep ==
    ASSUME ReduceAssumption, IInv, NEW r \in Runs, Fetch(r)
    PROVE  IInv'
<1> DEFINE others == \E s \in Runs \ {r} : runs[s] # IdleRun
           plan(order) == NewPlan(order, runs[r].excess, runs[r].used)
<1>1. /\ runs[r].at = "fetch" /\ UNCHANGED chainVars
      /\ \E order \in SetToSeqs(Listed), p \in PlanIds :
            /\ plans[p] = NoPlan
            /\ \/ /\ SumFunction(plan(order).toReduce) = runs[r].excess
                  /\ last' = p /\ lastTotal' = runs[r].excess
                  /\ overlapped' = (overlapped /\ others) /\ lost' = (lost /\ others)
                  /\ GoOn(r, p, 1, [plans EXCEPT ![p] = plan(order)])
               \/ /\ UNCHANGED <<last, lastTotal, overlapped, lost>>
                  /\ Proceed(r, IdleRun, plans)
  BY DEF Fetch
<1>2. TypeOK /\ MemoryOK /\ Keeps(plans)
  BY DEF IInv, TypeOK, Keeps
<1>3. ~Idle(r) /\ ~Sending(r)
  BY <1>1 DEF Idle, IdleRun, Sending
<1>4. ASSUME UNCHANGED <<last, lastTotal, overlapped, lost>>, Proceed(r, IdleRun, plans)
      PROVE  IInv'
  <2>1. ~overlapped' => AloneWith(plans, IdleRun) /\ \A s \in Runs : s # r => Idle(s)
    BY <1>3, <1>4, AloneNow DEF AloneWith, IdleRun
  <2>2. /\ last' \in PlanIds \cup {NoPlan} /\ lastTotal' \in Int
        /\ overlapped' \in BOOLEAN /\ lost' \in BOOLEAN
        /\ last' # NoPlan => plans[last'] # NoPlan
        /\ last' = NoPlan => last = NoPlan /\ lastTotal' = 0 /\ IdleRun.at # "send"
    BY <1>2, <1>4 DEF TypeOK, MemoryOK, IdleRun
  <2> QED
    BY <1>1, <1>2, <1>4, <2>1, <2>2, ProceedOK
<1>5. ASSUME NEW order \in SetToSeqs(Listed), NEW p \in PlanIds, plans[p] = NoPlan,
             SumFunction(plan(order).toReduce) = runs[r].excess,
             last' = p, lastTotal' = runs[r].excess,
             overlapped' = (overlapped /\ others), lost' = (lost /\ others),
             GoOn(r, p, 1, [plans EXCEPT ![p] = plan(order)])
      PROVE  IInv'
  <2> DEFINE k == plan(order)
             heap == [plans EXCEPT ![p] = k]
  <2>1. /\ k \in Plan /\ k.success = {} /\ k.removed = {} /\ runs[r].excess \in Nat
        /\ k.toReduce = Fill(order, runs[r].excess, runs[r].used)
    BY <1>1, <1>2, NewPlanType
  <2>2. DOMAIN k.toReduce = Deployments
    BY <2>1 DEF Fill
  <2>3. runs[r].excess = SumFunctionOnSet(k.toReduce, Deployments)
    BY <1>5, <2>2 DEF SumFunction
  <2> HIDE DEF k
  <2>4. k # NoPlan /\ p # NoPlan
    BY <2>1, PlanNotNone DEF ReduceAssumption
  <2>5. Keeps(heap) /\ heap[p] = k
    BY <1>2, <1>5, <2>1, <2>4, HeapWith
  <2>6. GoOn(r, p, 1, heap)
    BY <1>5 DEF k
  <2> HIDE DEF heap
  <2>7. PICK next : Proceed(r, next, heap) /\ (next = IdleRun \/ Sends(next, heap, p))
    BY <2>1, <2>4, <2>5, <2>6, GoOnIs
  <2>8. next.at = "send" => next.plan = p
    BY <2>7, NextIs
  <2>9. AloneWith(heap, next)
    <3>1. Deployments \ k.success = Deployments /\ k.removed \subseteq k.success
      BY <2>1
    <3> QED
      BY <1>5, <2>3, <2>5, <2>8, <3>1 DEF AloneWith
  <2>10. ~overlapped' => \A s \in Runs : s # r => Idle(s)
    <3>1. CASE ~overlapped
      BY <1>3, <3>1, AloneNow
    <3>2. CASE ~others
      BY <3>2 DEF Idle
    <3> QED
      BY <1>5, <3>1, <3>2
  <2>11. /\ last' \in PlanIds \cup {NoPlan} /\ lastTotal' \in Int
         /\ last' # NoPlan => heap[last'] # NoPlan
         /\ last' = NoPlan => last = NoPlan /\ lastTotal' = 0 /\ next.at # "send"
    BY <1>5, <2>1, <2>4, <2>5
  <2>12. overlapped' \in BOOLEAN /\ lost' \in BOOLEAN
    BY <1>5
  <2>13. next = IdleRun \/ Fetches(next) \/ \E q \in PlanIds : Sends(next, heap, q)
    BY <2>7
  <2> QED
    BY <1>1, <1>2, <2>5, <2>7, <2>9, <2>10, <2>11, <2>12, <2>13, ProceedOK
<1> QED
  BY <1>1, <1>4, <1>5

LEMMA SucceedStep ==
    ASSUME ReduceAssumption, IInv, NEW r \in Runs, Succeed(r)
    PROVE  IInv'
<1> DEFINE p == runs[r].plan
           t == Target(r)
           k == [plans[p] EXCEPT !.success = @ \cup {t}]
           heap == [plans EXCEPT ![p] = k]
<1>1. /\ Sending(r) /\ runs[r].mined
      /\ lastTotal' = lastTotal - Amount(r)
      /\ UNCHANGED <<chainVars, last, overlapped, lost>>
      /\ GoOn(r, p, runs[r].entry + 1, heap)
  BY DEF Succeed, Succeeded
<1>2. TypeOK /\ MemoryOK
  BY DEF IInv
<1>3. /\ p \in PlanIds /\ runs[r].entry \in Nat \ {0} /\ plans[p] \in Plan
      /\ t \in Deployments /\ Amount(r) \in Int /\ Amount(r) = plans[p].toReduce[t]
  BY <1>1, <1>2, RunIs DEF Amount
<1>4. ~Idle(r)
  BY <1>1 DEF Idle, IdleRun, Sending
<1>5. /\ k \in Plan /\ k.success = plans[p].success \cup {t} /\ k.order = plans[p].order
      /\ k.toReduce = plans[p].toReduce /\ k.removed = plans[p].removed
  BY <1>3 DEF Plan
<1> HIDE DEF k, p, t
<1>6. k # NoPlan /\ NoPlan \notin PlanIds
  BY <1>5, PlanNotNone DEF ReduceAssumption
<1>7. Keeps(heap) /\ heap[p] = k
  BY <1>2, <1>3, <1>5, <1>6, HeapWith
<1> HIDE DEF heap
<1>8. PICK next : Proceed(r, next, heap) /\ (next = IdleRun \/ Sends(next, heap, p))
  <2>1. runs[r].entry + 1 \in Nat \ {0} /\ heap[p] \in Plan /\ heap[p] # NoPlan
    BY <1>3, <1>5, <1>6, <1>7
  <2> QED
    BY <1>1, <1>3, <2>1, GoOnIs
<1>9. next.at = "send" => next.plan = p
  BY <1>8, NextIs
<1>10. last # NoPlan /\ last \in PlanIds /\ plans[last] # NoPlan
  BY <1>1, <1>2 DEF TypeOK, MemoryOK
<1>11. ASSUME ~overlapped'
       PROVE  AloneWith(heap, next) /\ \A s \in Runs : s # r => Idle(s)
  <2>1. p = last /\ t \notin plans[p].success
    BY <1>1, <1>11 DEF IInv, AloneOK, p, t
  <2>2. /\ \A s \in Runs : s # r => Idle(s)
        /\ lastTotal = SumFunctionOnSet(plans[p].toReduce, Deployments \ plans[p].success)
        /\ ~lost => plans[p].removed \subseteq plans[p].success \cup {t}
    BY <1>1, <1>4, <1>10, <1>11, <2>1, AloneNow DEF t
  <2> DEFINE f == plans[p].toReduce
             U == Deployments \ plans[p].success
  <2>3. SumFunctionOnSet(f, U) = f[t] + SumFunctionOnSet(f, U \ {t})
        /\ SumFunctionOnSet(f, U \ {t}) \in Int
    <3>1. IsFiniteSet(Deployments) /\ \A x \in Deployments : f[x] \in Int
      BY <1>3 DEF ReduceAssumption, Plan
    <3>2. U \in SUBSET Deployments /\ U \ {t} \in SUBSET Deployments /\ t \in U
      BY <1>3, <2>1
    <3> HIDE DEF f, U
    <3>3. /\ \A T \in SUBSET Deployments : SumFunctionOnSet(f, T) \in Int
          /\ \A T \in SUBSET Deployments : \A x \in T :
                 SumFunctionOnSet(f, T) = f[x] + SumFunctionOnSet(f, T \ {x})
      BY <3>1, SumWithout
    <3> QED
      BY <3>2, <3>3
  <2>4. Deployments \ k.success = U \ {t}
    BY <1>5
  <2>5. lastTotal' = SumFunctionOnSet(k.toReduce, Deployments \ k.success)
    <3>1. lastTotal' = SumFunctionOnSet(f, U) - f[t]
      BY <1>1, <1>3, <2>2
    <3>2. f[t] \in Int
      BY <1>3
    <3> DEFINE a == SumFunctionOnSet(f, U \ {t})
               b == f[t]
    <3>3. lastTotal' = (b + a) - b /\ a \in Int /\ b \in Int
      BY <2>3, <3>1, <3>2
    <3> HIDE DEF a, b
    <3>4. lastTotal' = a
      BY <3>3
    <3> QED
      BY <1>5, <2>4, <3>4 DEF a
  <2>6. AloneWith(heap, next)
    BY <1>1, <1>5, <1>7, <1>9, <2>1, <2>2, <2>5 DEF AloneWith
  <2> QED
    BY <2>2, <2>6
<1>12. /\ last' \in PlanIds \cup {NoPlan} /\ lastTotal' \in Int
       /\ overlapped' \in BOOLEAN /\ lost' \in BOOLEAN
       /\ last' # NoPlan => heap[last'] # NoPlan
       /\ last' = NoPlan => last = NoPlan /\ lastTotal' = 0 /\ next.at # "send"
  BY <1>1, <1>2, <1>3, <1>7, <1>10 DEF TypeOK, Keeps
<1>13. next = IdleRun \/ Fetches(next) \/ \E q \in PlanIds : Sends(next, heap, q)
  BY <1>3, <1>8
<1>14. UNCHANGED chainVars
  BY <1>1
<1> QED
  BY <1>2, <1>7, <1>8, <1>11, <1>12, <1>13, <1>14, ProceedOK

LEMMA FailStep ==
    ASSUME ReduceAssumption, IInv, NEW r \in Runs, Fail(r)
    PROVE  IInv'
<1> DEFINE p == runs[r].plan
           t == Target(r)
           k == [plans[p] EXCEPT !.success = @ \ {t}]
           heap == [plans EXCEPT ![p] = k]
<1>1. /\ Sending(r) /\ lost' = (lost \/ runs[r].mined)
      /\ UNCHANGED <<chainVars, last, lastTotal, overlapped>>
      /\ Proceed(r, IdleRun, heap)
  BY DEF Fail, FailedAgain
<1>2. TypeOK /\ MemoryOK
  BY DEF IInv
<1>3. p \in PlanIds /\ plans[p] \in Plan /\ t \in Deployments
  BY <1>1, <1>2, RunIs
<1>4. ~Idle(r)
  BY <1>1 DEF Idle, IdleRun, Sending
<1>5. /\ k \in Plan /\ k.success = plans[p].success \ {t} /\ k.order = plans[p].order
      /\ k.toReduce = plans[p].toReduce /\ k.removed = plans[p].removed
  BY <1>3 DEF Plan
<1> HIDE DEF k, p, t
<1>6. k # NoPlan /\ NoPlan \notin PlanIds
  BY <1>5, PlanNotNone DEF ReduceAssumption
<1>7. Keeps(heap) /\ heap[p] = k
  BY <1>2, <1>3, <1>5, <1>6, HeapWith
<1> HIDE DEF heap
<1>8. last # NoPlan /\ last \in PlanIds /\ plans[last] # NoPlan
  BY <1>1, <1>2 DEF TypeOK, MemoryOK
<1>9. ASSUME ~overlapped'
      PROVE  AloneWith(heap, IdleRun) /\ \A s \in Runs : s # r => Idle(s)
  <2>1. p = last /\ t \notin plans[p].success
    BY <1>1, <1>9 DEF IInv, AloneOK, p, t
  <2>2. /\ \A s \in Runs : s # r => Idle(s)
        /\ lastTotal = SumFunctionOnSet(plans[p].toReduce, Deployments \ plans[p].success)
        /\ ~lost' => plans[p].removed \subseteq plans[p].success
    BY <1>1, <1>4, <1>8, <1>9, <2>1, AloneNow
  <2>3. k.success = plans[p].success
    BY <1>5, <2>1
  <2>4. AloneWith(heap, IdleRun)
    BY <1>1, <1>5, <1>7, <2>1, <2>2, <2>3 DEF AloneWith, IdleRun
  <2> QED
    BY <2>2, <2>4
<1>10. /\ last' \in PlanIds \cup {NoPlan} /\ lastTotal' \in Int
       /\ last' # NoPlan => heap[last'] # NoPlan
       /\ last' = NoPlan => last = NoPlan /\ lastTotal' = 0 /\ IdleRun.at # "send"
  BY <1>1, <1>2, <1>7, <1>8 DEF TypeOK, Keeps, IdleRun
<1>11. overlapped' \in BOOLEAN /\ lost' \in BOOLEAN
  BY <1>1, <1>2 DEF TypeOK
<1>12. UNCHANGED chainVars
  BY <1>1
<1> QED
  BY <1>1, <1>2, <1>7, <1>9, <1>10, <1>11, <1>12, ProceedOK

LEMMA MineStep ==
    ASSUME ReduceAssumption, IInv, NEW r \in Runs, Mine(r)
    PROVE  IInv'
<1> DEFINE p == runs[r].plan
           t == Target(r)
           k == [plans[p] EXCEPT !.removed = @ \cup {t}]
           next == [runs[r] EXCEPT !.mined = TRUE]
<1>1. /\ Sending(r) /\ Amount(r) \in 0 .. alloc[t]
      /\ alloc' = [alloc EXCEPT ![t] = @ - Amount(r)]
      /\ plans' = [plans EXCEPT ![p] = k] /\ runs' = [runs EXCEPT ![r] = next]
      /\ lost' = (lost \/ runs[r].mined)
      /\ UNCHANGED <<total, index, changes, last, lastTotal, overlapped>>
  BY DEF Mine
<1>2. TypeOK /\ MemoryOK
  BY DEF IInv
<1>3. /\ p \in PlanIds /\ plans[p] \in Plan /\ t \in Deployments
      /\ runs[r] \in Run /\ runs[r].at = "send"
  BY <1>1, <1>2, RunIs DEF TypeOK, Sending
<1>4. /\ next \in Run /\ next.at = "send" /\ next.plan = p
      /\ next.entry = runs[r].entry /\ next.mined
  <2>1. runs[r] \in [at: {"send"}, plan: PlanIds, entry: Nat \ {0}, mined: BOOLEAN]
    BY <1>3 DEF Run
  <2>2. next \in [at: {"send"}, plan: PlanIds, entry: Nat \ {0}, mined: BOOLEAN]
    BY <2>1
  <2> QED
    BY <1>3, <2>1, <2>2 DEF Run
<1>5. /\ k \in Plan /\ k.removed = plans[p].removed \cup {t} /\ k.order = plans[p].order
      /\ k.toReduce = plans[p].toReduce /\ k.success = plans[p].success
  BY <1>3 DEF Plan
<1>6. alloc' \in [Deployments -> Nat]
  <2>1. alloc[t] \in Nat /\ Amount(r) \in 0 .. alloc[t]
    BY <1>1, <1>2, <1>3 DEF TypeOK
  <2>2. alloc[t] - Amount(r) \in Nat
    BY <2>1
  <2> QED
    BY <1>1, <1>2, <2>2 DEF TypeOK
<1> HIDE DEF k, p, t, next
<1>7. k # NoPlan
  BY <1>5, PlanNotNone
<1>8. /\ plans' \in [PlanIds -> Plan \cup {NoPlan}] /\ plans'[p] = k
      /\ \A q \in PlanIds : q # p => plans'[q] = plans[q]
      /\ runs' \in [Runs -> Run] /\ runs'[r] = next
      /\ \A s \in Runs : s # r => runs'[s] = runs[s]
  BY <1>1, <1>2, <1>3, <1>4, <1>5 DEF TypeOK
<1>9. \A q \in PlanIds : /\ plans[q] # NoPlan => plans'[q] # NoPlan
                         /\ plans[q] # NoPlan => plans'[q].order = plans[q].order
                         /\ plans[q] # NoPlan => plans'[q].success = plans[q].success
                         /\ plans[q] # NoPlan => plans'[q].toReduce = plans[q].toReduce
  BY <1>5, <1>7, <1>8
<1>10. \A s \in Runs : /\ runs'[s].at = runs[s].at
                       /\ runs[s].at = "send" =>
                             runs'[s].plan = runs[s].plan /\ runs'[s].entry = runs[s].entry
                       /\ s # r => runs'[s] = runs[s]
  BY <1>3, <1>4, <1>8 DEF p
<1>11. \A s \in Runs : runs[s].at = "send" =>
          /\ runs[s].plan \in PlanIds /\ plans[runs[s].plan] # NoPlan
          /\ runs[s].entry <= Len(plans[runs[s].plan].order)
  BY <1>2, RunIs DEF TypeOK, Sending
<1>12. TypeOK'
  <2>1. lost' \in BOOLEAN
    BY <1>1
  <2>2. last # NoPlan => plans'[last] # NoPlan
    BY <1>2, <1>9 DEF TypeOK
  <2>3. \A s \in Runs : runs'[s].at = "send" =>
           /\ plans'[runs'[s].plan] # NoPlan
           /\ runs'[s].entry <= Len(plans'[runs'[s].plan].order)
    BY <1>9, <1>10, <1>11
  <2> QED
    BY <1>1, <1>2, <1>6, <1>8, <2>1, <2>2, <2>3 DEF TypeOK
<1>13. MemoryOK'
  <2>1. \A s \in Runs : runs'[s].at \in {"decide", "fetch"} => runs'[s] = runs[s]
    BY <1>3, <1>10
  <2> QED
    BY <1>1, <1>2, <1>10, <2>1 DEF MemoryOK, Sending
<1>14. last # NoPlan /\ last \in PlanIds /\ plans[last] # NoPlan
  BY <1>1, <1>2 DEF TypeOK, MemoryOK
<1>15. ASSUME ~overlapped
       PROVE  /\ p = last /\ t \notin plans[p].success
              /\ \A s \in Runs : s # r => Idle(s)
  BY <1>1, <1>3, <1>15 DEF IInv, AloneOK, p, t, Idle, IdleRun, Sending
<1>16. Target(r)' = t
  BY <1>3, <1>4, <1>5, <1>8 DEF Target, t, p
<1>17. AloneOK'
  <2> SUFFICES ASSUME ~overlapped' PROVE AloneOK'
    BY DEF AloneOK
  <2>1. \A s \in Runs : s # r => runs'[s] = IdleRun
    BY <1>1, <1>8, <1>15 DEF Idle
  <2>2. /\ runs'[r].plan = last' /\ t \notin plans'[last'].success
    BY <1>1, <1>4, <1>5, <1>8, <1>15
  <2>3. \A s \in Runs : runs'[s].at = "send" => s = r
    BY <2>1 DEF IdleRun
  <2> QED
    BY <1>16, <2>1, <2>2, <2>3 DEF AloneOK, Idle, Sending
<1>18. RemovedOK'
  <2> SUFFICES ASSUME ~overlapped', ~lost'
               PROVE  plans'[last'].removed \subseteq plans'[last'].success
                         \cup {Target(s)' : s \in {q \in Runs : Sending(q)' /\ runs'[q].mined}}
    BY DEF RemovedOK
  <2>1. ~overlapped /\ ~lost /\ ~runs[r].mined
    BY <1>1
  <2>2. plans[last].removed \subseteq plans[last].success
    BY <1>1, <1>3, <1>14, <2>1, AloneNow DEF Idle, IdleRun
  <2>3. t \in {Target(s)' : s \in {q \in Runs : Sending(q)' /\ runs'[q].mined}}
    BY <1>4, <1>8, <1>16 DEF Sending
  <2> QED
    BY <1>1, <1>5, <1>8, <1>15, <2>1, <2>2, <2>3
<1>19. TotalIsUnfinished'
  BY <1>1, <1>9, <1>14 DEF IInv, TotalIsUnfinished, Unfinished
<1> QED
  BY <1>12, <1>13, <1>17, <1>18, <1>19 DEF IInv

LEMMA RestartStep ==
    ASSUME ReduceAssumption, IInv, Restart
    PROVE  IInv'
<1>1. /\ plans' = [p \in PlanIds |-> NoPlan] /\ last' = NoPlan /\ lastTotal' = 0
      /\ runs' = [r \in Runs |-> IdleRun] /\ ~overlapped' /\ ~lost'
      /\ UNCHANGED <<alloc, total, index, changes>>
  BY DEF Restart, chainVars
<1>2. IdleRun \in Run /\ IdleRun.at = "idle"
  BY DEF Run, IdleRun
<1>3. \A r \in Runs : runs'[r] = IdleRun
  BY <1>1
<1>4. overlapped' \in BOOLEAN /\ lost' \in BOOLEAN
  BY DEF Restart
<1>5. TypeOK'
  BY <1>1, <1>2, <1>4 DEF IInv, TypeOK
<1>6. MemoryOK' /\ RemovedOK' /\ TotalIsUnfinished'
  BY <1>1, <1>2, <1>3 DEF MemoryOK, RemovedOK, TotalIsUnfinished, Sending
<1>7. AloneOK'
  BY <1>2, <1>3 DEF AloneOK, Idle, Sending
<1> QED
  BY <1>5, <1>6, <1>7 DEF IInv

\* Whatever happens to the contract and its index.
LEMMA ChainStep ==
    ASSUME ReduceAssumption, IInv, UNCHANGED memoryVars, Delegate \/ OwnerChange \/ CatchUp
    PROVE  IInv'
<1>1. /\ alloc' \in [Deployments -> Nat] /\ total' \in Stakes
      /\ index' \in [Deployments -> Nat] /\ changes' \in 0 .. MaxChanges
  <2>1. CASE Delegate
    BY <2>1 DEF Delegate, Count, IInv, TypeOK, ReduceAssumption
  <2>2. CASE OwnerChange
    BY <2>2 DEF OwnerChange, Count, IInv, TypeOK, ReduceAssumption
  <2>3. CASE CatchUp
    BY <2>3 DEF CatchUp, IInv, TypeOK
  <2> QED
    BY <2>1, <2>2, <2>3
<1>2. TypeOK'
  BY <1>1 DEF IInv, TypeOK, memoryVars
<1>3. MemoryOK' /\ AloneOK' /\ RemovedOK' /\ TotalIsUnfinished'
  BY DEF IInv, MemoryOK, AloneOK, RemovedOK, TotalIsUnfinished, memoryVars, Idle, Sending,
         Target, Unfinished
<1> QED
  BY <1>2, <1>3 DEF IInv

LEMMA InitOK ==
    ASSUME ReduceAssumption, Init
    PROVE  IInv
<1>1. IdleRun \in Run /\ IdleRun.at = "idle"
  BY DEF Run, IdleRun
<1>2. overlapped \in BOOLEAN /\ lost \in BOOLEAN
  BY DEF Init
<1>3. TypeOK
  BY <1>1, <1>2 DEF Init, TypeOK, ReduceAssumption
<1>4. MemoryOK /\ RemovedOK /\ TotalIsUnfinished
  BY <1>1 DEF Init, MemoryOK, RemovedOK, TotalIsUnfinished, Sending
<1>5. AloneOK
  BY <1>1 DEF Init, AloneOK, Idle, Sending
<1> QED
  BY <1>3, <1>4, <1>5 DEF IInv

LEMMA StepOK ==
    ASSUME ReduceAssumption, IInv, [Next]_reduceVars
    PROVE  IInv'
<1>1. ASSUME NEW r \in Runs, RunStep(r)
      PROVE  IInv'
  BY <1>1, BeginStep, DecideStep, FetchStep, AbortStep, MineStep, SucceedStep, FailStep
     DEF RunStep
<1>2. CASE Delegate \/ OwnerChange \/ CatchUp
  BY <1>2, ChainStep DEF Delegate, OwnerChange, CatchUp
<1>3. CASE UNCHANGED reduceVars
  BY <1>3 DEF reduceVars, chainVars, memoryVars, IInv, TypeOK, MemoryOK, AloneOK, RemovedOK,
              TotalIsUnfinished, Idle, Sending, Target, Unfinished
<1> QED
  BY <1>1, <1>2, <1>3, RestartStep DEF Next
-----------------------------------------------------------------------------
(* Every reachable state satisfies the invariant (reward.service.ts         *)
(* 255-355): what the runs have read, which run is alone, and what the last *)
(* plan says of the entries it has removed.                                 *)
THEOREM Inductive == Spec => []IInv
<1>1. Init => IInv
  BY InitOK, ReduceAssumption
<1>2. IInv /\ [Next]_reduceVars => IInv'
  BY StepOK, ReduceAssumption
<1> QED
  BY <1>1, <1>2, PTL DEF Spec

(* The state of the job is well typed: the amounts stay numbers although    *)
(* they are divided, and every run works on an entry of a plan that exists. *)
THEOREM TypeCorrect == Spec => []TypeOK
  BY Inductive, PTL DEF IInv

(* The total that is compared with the excess is what the last plan has     *)
(* still to remove, as long as no two runs met (reward.service.ts 265-273,  *)
(* 325-326, 344-350).                                                       *)
THEOREM TotalSafe == Spec => []TotalIsUnfinished
  BY Inductive, PTL DEF IInv

(* No entry of a plan is removed twice, however often the plan is used      *)
(* again, unless two runs met or a receipt was lost (reward.service.ts      *)
(* 335-350).                                                                *)
THEOREM RemovalSafe == Spec => RemovedOnce
<1> DEFINE Once == \A r \in Runs : (Mine(r) /\ ~overlapped' /\ ~lost') =>
                      Target(r) \notin plans[runs[r].plan].removed
<1>1. IInv => Once
  <2> SUFFICES ASSUME IInv, NEW r \in Runs, Mine(r), ~overlapped', ~lost'
               PROVE  Target(r) \notin plans[runs[r].plan].removed
    OBVIOUS
  <2>1. Sending(r) /\ ~overlapped /\ ~lost /\ ~runs[r].mined
    BY DEF Mine
  <2>2. ~Idle(r)
    BY <2>1 DEF Idle, IdleRun, Sending
  <2>3. last # NoPlan
    BY <2>1 DEF IInv, MemoryOK
  <2>4. plans[last].removed \subseteq plans[last].success
    BY <2>1, <2>2, <2>3, AloneNow
  <2> QED
    BY <2>1, <2>4 DEF IInv, AloneOK
<1>2. IInv => [Once]_reduceVars
  BY <1>1
<1> QED
  BY Inductive, <1>2, PTL DEF RemovedOnce

(* A plan made from an index that is up to date takes from every deployment *)
(* at most what it has, and nothing negative, whatever the numbers and      *)
(* their rounding (reward.service.ts 284-316).                              *)
THEOREM PlanSafe == Spec => PlanFits
<1> DEFINE Fits == \A r \in Runs :
                      (Fetch(r) /\ last' # last /\ index = alloc /\ runs[r].used = Used) =>
                          \A d \in Deployments : plans'[last'].toReduce[d] \in 0 .. alloc[d]
<1>1. IInv => Fits
  <2> SUFFICES ASSUME IInv, NEW r \in Runs, Fetch(r), last' # last, index = alloc,
                      runs[r].used = Used, NEW d \in Deployments
               PROVE  plans'[last'].toReduce[d] \in 0 .. alloc[d]
    OBVIOUS
  <2> DEFINE plan(order) == NewPlan(order, runs[r].excess, runs[r].used)
  <2>1. runs[r].at = "fetch" /\ TypeOK /\ MemoryOK
    BY DEF Fetch, IInv
  <2>2. PICK order \in SetToSeqs(Listed), p \in PlanIds :
           last' = p /\ GoOn(r, p, 1, [plans EXCEPT ![p] = plan(order)])
    BY DEF Fetch
  <2>3. plans'[p] = [plans EXCEPT ![p] = plan(order)][p]
    BY <2>2 DEF GoOn, Proceed
  <2>4. plans'[p] = plan(order)
    BY <2>1, <2>2, <2>3 DEF TypeOK
  <2>5. /\ plan(order).toReduce = Fill(order, runs[r].excess, runs[r].used)
        /\ runs[r].excess \in Nat /\ runs[r].used \in Nat \ {0}
        /\ runs[r].excess <= runs[r].used
    BY <2>1, NewPlanType, ReduceAssumption
  <2>6. runs[r].used = SumFunctionOnSet(index, Deployments)
    BY <2>1, UsedIs, ReduceAssumption DEF TypeOK
  <2>7. Fill(order, runs[r].excess, runs[r].used)[d] \in 0 .. index[d]
    BY <2>1, <2>5, <2>6, FillFits, ReduceAssumption DEF TypeOK
  <2> QED
    BY <2>2, <2>4, <2>5, <2>7
<1>2. IInv => [Fits]_reduceVars
  BY <1>1
<1> QED
  BY Inductive, <1>2, PTL DEF PlanFits
=============================================================================
