------------------------- MODULE ChannelCacheProofs -------------------------
(* Proofs about ChannelCache, for any number of tasks, any amounts, prices *)
(* and rows.                                                               *)
EXTENDS CacheParts, TLAPS

\* What a waiting task carries, one fact per kind of task.
LEMMA TaskFields ==
    ASSUME NEW t \in Task
    PROVE  /\ t.pc = "single" => /\ t.snap \in StateCache /\ t.spent \in Amounts
                                 /\ t.final \in BOOLEAN /\ t.cost \in Nat
           /\ t.pc = "multiple" => t.snap \in StateCache /\ t.cost \in Nat
           /\ t.pc \in {"pay", "paid"} =>
                 t.snap \in StateCache /\ t.spent \in Amounts /\ t.final \in BOOLEAN
           /\ t.pc \in {"idle", "single", "multiple", "pay", "paid"}
           /\ t.pc = "idle" => t = IdleTask
  BY DEF Task, Idle, SingleTask, MultipleTask, PayTask, IdleTask

LEMMA PollFields ==
    ASSUME NEW p \in Poll
    PROVE  /\ p.pc = "fetched" => p.item \in Row
           /\ p.pc = "merging" => p.item \in Row /\ p.snap \in StateCache \cup {NoCache}
  BY DEF Poll, Idle, Fetched, Merging

LEMMA IdleType == IdleTask \in Task /\ IdleTask \in Poll
  BY DEF IdleTask, Task, Poll, Idle

LEMMA LargerType == \A a, b \in Nat : /\ Larger(a, b) \in {a, b}
                                      /\ a <= Larger(a, b)
                                      /\ b <= Larger(a, b)
  BY DEF Larger

LEMMA RememberType ==
    ASSUME NEW h \in History, NEW r \in Row
    PROVE  /\ Remember(h, r) \in History
           /\ Remember(h, r).signed = h.signed
           /\ Remember(h, r).bill = Larger(h.bill, r.spent)
           /\ Remember(h, r).ceiling =
                 Larger(h.ceiling, Larger(r.spent, r.total + r.price))
           /\ h.gap <= Remember(h, r).gap
           /\ r.spent <= r.remote + Remember(h, r).gap
<1>1. Larger(h.bill, r.spent) \in Nat
  BY LargerType DEF History, Row
<1>2. Larger(h.ceiling, Larger(r.spent, r.total + r.price)) \in Nat
  <2>1. Larger(r.spent, r.total + r.price) \in Nat
    BY LargerType DEF Row
  <2> QED
    BY <2>1, LargerType DEF History
<1> DEFINE gap == IF r.spent > r.remote + h.gap THEN r.spent - r.remote ELSE h.gap
<1>3. gap \in Nat /\ h.gap <= gap /\ r.spent <= r.remote + gap
  BY DEF History, Row
<1> QED
  BY <1>1, <1>2, <1>3 DEF Remember, History

LEMMA MergeType ==
    ASSUME NEW c \in StateCache \cup {NoCache}, NEW r \in Row
    PROVE  Merge(c, r) \in StateCache
<1>1. CASE c = NoCache
  BY <1>1 DEF Merge, StateCache, Row
<1>2. CASE c \in StateCache /\ c # NoCache
  BY <1>2, LargerType DEF Merge, StateCache, Row
<1> QED
  BY <1>1, <1>2

LEMMA InitType == Init => TypeOK
<1> SUFFICES ASSUME Init
             PROVE  TypeOK
  OBVIOUS
<1>1. row \in Row
  BY ConstantsAssumption DEF Init
<1>2. [signed |-> {0}, bill |-> 0, ceiling |-> 0, gap |-> 0] \in History
  BY DEF History
<1>3. hist \in History
  BY <1>1, <1>2, RememberType DEF Init
<1> QED
  BY <1>1, <1>3, IdleType DEF Init, TypeOK

\* The history only grows, and stays well typed.
LEMMA SignType ==
    ASSUME NEW h \in History, NEW v \in Amounts
    PROVE  [h EXCEPT !.signed = @ \cup {v}] \in History
  BY ConstantsAssumption DEF History

LEMMA BillType ==
    ASSUME NEW h \in History, NEW n \in Nat
    PROVE  [h EXCEPT !.bill = @ + n] \in History
  BY DEF History

LEMMA SpawnType ==
    ASSUME TypeOK, NEW m \in Update, Spawn(m)
    PROVE  outbox' \in [Update -> Nat]
  BY DEF TypeOK, Spawn

LEMMA DoneType ==
    ASSUME TypeOK, NEW h \in Handlers, Done(h)
    PROVE  tasks' \in [Handlers -> Task]
  BY IdleType DEF TypeOK, Done

LEMMA TaskType ==
    ASSUME TypeOK, NEW h \in Handlers, NEW t \in Task,
           tasks' = [tasks EXCEPT ![h] = t]
    PROVE  tasks' \in [Handlers -> Task]
  BY DEF TypeOK

LEMMA TypeStep == TypeOK /\ [Next]_vars => TypeOK'
<1> SUFFICES ASSUME TypeOK, [Next]_vars
             PROVE  TypeOK'
  OBVIOUS
<1>1. ASSUME NEW h \in Handlers, Request(h), UNCHANGED row
      PROVE  TypeOK'
  <2>1. ASSUME NEW v \in Amounts, NEW final \in BOOLEAN, NEW u \in UnitCosts,
               BeginSingle(h, v, final, u)
        PROVE  TypeOK'
    <3> DEFINE used == cache.price * u.times
               times == IF cache.spent + used > v + used
                        THEN cache.times + u.overflow ELSE cache.times
               snap == [cache EXCEPT !.times = times]
               t == [pc |-> "single", snap |-> snap, spent |-> v, final |-> final,
                     cost |-> used]
    <3>1. cache \in StateCache
      BY <2>1 DEF BeginSingle, Accepting, TypeOK
    <3>2. used \in Nat /\ times \in Nat
      BY <3>1, ConstantsAssumption DEF StateCache
    <3>3. tasks' = [tasks EXCEPT ![h] = t]
      BY <2>1 DEF BeginSingle
    <3> HIDE DEF used, times
    <3>4. snap \in StateCache
      BY <3>1, <3>2 DEF StateCache
    <3> HIDE DEF snap
    <3>5. t \in Task
      BY <3>2, <3>4 DEF Task, SingleTask
    <3>6. hist' \in History
      BY <2>1, SignType DEF BeginSingle, TypeOK
    <3> QED
      BY <1>1, <2>1, <3>3, <3>5, <3>6, TaskType DEF BeginSingle, TypeOK
  <2>2. ASSUME NEW start \in Amounts, NEW end \in Amounts, NEW u \in UnitCosts,
               BeginMultiple(h, start, end, u)
        PROVE  TypeOK'
    <3> DEFINE cost == cache.price * u.times
               snap == [cache EXCEPT !.spent = @ + cost]
               t == [pc |-> "multiple", cost |-> cost, snap |-> snap]
    <3>1. cache \in StateCache
      BY <2>2 DEF BeginMultiple, Accepting, TypeOK
    <3>2. cost \in Nat
      BY <3>1, ConstantsAssumption DEF StateCache
    <3>3. tasks' = [tasks EXCEPT ![h] = t]
      BY <2>2 DEF BeginMultiple
    <3> HIDE DEF cost
    <3>4. snap \in StateCache
      BY <3>1, <3>2 DEF StateCache
    <3> HIDE DEF snap
    <3>5. t \in Task
      BY <3>2, <3>4 DEF Task, MultipleTask
    <3> QED
      BY <1>1, <2>2, <3>3, <3>5, TaskType DEF BeginMultiple, TypeOK
  <2>3. ASSUME NEW v \in Amounts, NEW final \in BOOLEAN, BeginPay(h, v, final)
        PROVE  TypeOK'
    <3> DEFINE t == [pc |-> "pay", snap |-> cache, spent |-> v, final |-> final]
    <3>1. tasks' = [tasks EXCEPT ![h] = t]
      BY <2>3 DEF BeginPay
    <3>2. t \in Task
      BY <2>3 DEF BeginPay, Accepting, TypeOK, Task, PayTask
    <3>3. hist' \in History
      BY <2>3, SignType DEF BeginPay, TypeOK
    <3> QED
      BY <1>1, <2>3, <3>1, <3>2, <3>3, TaskType DEF BeginPay, TypeOK
  <2> QED
    BY <1>1, <2>1, <2>2, <2>3 DEF Request
<1>2. ASSUME NEW h \in Handlers, TaskStep(h), UNCHANGED row
      PROVE  TypeOK'
  <2> DEFINE t == tasks[h]
  <2>0. t \in Task
    BY DEF TypeOK
  <2>1. CASE PostSingle(h)
    <3>1. t.snap \in StateCache /\ t.spent \in Amounts /\ t.final \in BOOLEAN
      BY <2>0, <2>1, TaskFields DEF PostSingle
    <3>2. t.spent \in Nat /\ t.snap.price \in Nat
      BY <3>1, ConstantsAssumption DEF StateCache
    <3>3. [t.snap EXCEPT !.spent = @ + t.snap.price, !.remote = t.spent] \in StateCache
      <4> DEFINE c == t.snap
      <4>1. c \in StateCache /\ c.spent + c.price \in Nat
        BY <3>1 DEF StateCache
      <4> HIDE DEF c
      <4>2. [c EXCEPT !.spent = c.spent + c.price, !.remote = t.spent] \in StateCache
        BY <3>2, <4>1 DEF StateCache
      <4> QED
        BY <4>2 DEF c
    <3>4. cache' \in StateCache \cup {NoCache}
      BY <2>1, <3>3 DEF PostSingle
    <3>5. outbox' \in [Update -> Nat]
      BY <2>1, <3>1, SpawnType DEF PostSingle, Update
    <3>6. hist' \in History
      BY <2>1, <3>2, BillType DEF PostSingle, TypeOK
    <3> QED
      BY <1>2, <2>1, <3>4, <3>5, <3>6, DoneType DEF PostSingle, TypeOK
  <2>2. CASE PostMultiple(h)
    <3>1. t.snap \in StateCache /\ t.cost \in Nat
      BY <2>0, <2>2, TaskFields DEF PostMultiple
    <3>2. hist' \in History
      BY <2>2, <3>1, BillType DEF PostMultiple, TypeOK
    <3> QED
      BY <1>2, <2>2, <3>1, <3>2, DoneType DEF PostMultiple, TypeOK
  <2>3. CASE PayFetched(h)
    <3>1. [t EXCEPT !.pc = "paid"] \in Task
      <4>1. t \in PayTask
        BY <2>0, <2>3 DEF PayFetched, Task, Idle, SingleTask, MultipleTask, PayTask
      <4> HIDE DEF t
      <4>2. [t EXCEPT !.pc = "paid"] \in PayTask
        BY <4>1 DEF PayTask
      <4> QED
        BY <4>2 DEF Task
    <3>2. Done(h) \/ tasks' = [tasks EXCEPT ![h] = [t EXCEPT !.pc = "paid"]]
      BY <2>3 DEF PayFetched
    <3> QED
      BY <1>2, <2>3, <3>1, <3>2, DoneType, TaskType DEF PayFetched, TypeOK
  <2>4. CASE PostPay(h)
    <3>1. t.snap \in StateCache /\ t.spent \in Amounts /\ t.final \in BOOLEAN
      BY <2>0, <2>4, TaskFields DEF PostPay
    <3>2. [t.snap EXCEPT !.remote = t.spent] \in StateCache
      BY <3>1, ConstantsAssumption DEF StateCache
    <3>3. cache' \in StateCache \cup {NoCache}
      BY <2>4, <3>2 DEF PostPay, TypeOK
    <3>4. outbox' \in [Update -> Nat]
      BY <2>4, <3>1, SpawnType DEF PostPay, Update
    <3> QED
      BY <1>2, <2>4, <3>3, <3>4, DoneType DEF PostPay, TypeOK
  <2>5. CASE Abandon(h)
    BY <1>2, <2>5, DoneType DEF Abandon, TypeOK
  <2> QED
    BY <1>2, <2>1, <2>2, <2>3, <2>4, <2>5 DEF TaskStep
<1>3. CASE Evict /\ UNCHANGED row
  BY <1>3 DEF Evict, TypeOK
<1>4. CASE Polling /\ UNCHANGED row
  <2>1. CASE PollFetch
    BY <1>4, <2>1 DEF PollFetch, TypeOK, Poll, Fetched
  <2>2. CASE PollRead
    <3>1. poll.item \in Row
      BY <2>2, PollFields DEF PollRead, TypeOK
    <3>2. poll' \in Poll
      BY <2>2, <3>1, IdleType DEF PollRead, TypeOK, Poll, Merging
    <3> QED
      BY <1>4, <2>2, <3>2 DEF PollRead, TypeOK
  <2>3. CASE PollWrite
    BY <1>4, <2>3, PollFields, MergeType, IdleType DEF PollWrite, TypeOK
  <2>4. CASE PollDrop
    BY <1>4, <2>4, IdleType DEF PollDrop, TypeOK
  <2> QED
    BY <1>4, <2>1, <2>2, <2>3, <2>4 DEF Polling
<1>5. ASSUME NEW m \in Update, Take(m), UNCHANGED row
      PROVE  TypeOK'
  BY <1>5 DEF Take, TypeOK
<1>6. ASSUME NEW r \in Rows, RowChange(r)
      PROVE  TypeOK'
  BY <1>6, ConstantsAssumption, RememberType DEF RowChange, TypeOK
<1>7. CASE UNCHANGED vars
  BY <1>7 DEF vars, TypeOK
<1> QED
  BY <1>1, <1>2, <1>3, <1>4, <1>5, <1>6, <1>7 DEF Next, ProxyNext

\* Every reachable state is well typed, whatever the tasks, amounts and rows.
THEOREM TypeCorrect == Spec => []TypeOK
  BY InitType, TypeStep, PTL DEF Spec
-----------------------------------------------------------------------------
(* The inductive invariant.  A task or the poll may store what it read at  *)
(* any later moment, so what the properties say of the key must hold of    *)
(* every snapshot, and what a task checked before it called the endpoint   *)
(* must be remembered until it charges.                                    *)

CopyOK(c, h) ==
    /\ c.remote \in h.signed
    /\ c.spent <= h.bill
    /\ c.spent <= h.ceiling
    /\ c.total + c.price <= h.ceiling
    /\ "single" \notin Modes => c.spent <= c.remote + Larger(2 * RangeMax, h.gap)

RowOK(r, h) ==
    /\ r.remote \in h.signed
    /\ r.spent <= h.bill
    /\ r.spent <= h.ceiling
    /\ r.total + r.price <= h.ceiling
    /\ r.spent <= r.remote + h.gap

TaskOK(t, h) ==
    /\ t.pc = "single" => /\ CopyOK(t.snap, h)
                          /\ t.snap.spent + t.cost <= t.snap.total
                          /\ t.spent \in h.signed
                          /\ "single" \in Modes
    /\ t.pc = "multiple" => CopyOK(t.snap, [h EXCEPT !.bill = @ + t.cost])
    /\ t.pc \in {"pay", "paid"} => CopyOK(t.snap, h) /\ t.spent \in h.signed

PollOK(p, h) ==
    /\ p.pc \in {"fetched", "merging"} => RowOK(p.item, h)
    /\ p.pc = "merging" /\ p.snap # NoCache => CopyOK(p.snap, h)

IInv ==
    /\ cache # NoCache => CopyOK(cache, hist)
    /\ \A h \in Handlers : TaskOK(tasks[h], hist)
    /\ PollOK(poll, hist)
    /\ RowOK(row, hist)

\* The four safety properties are what the invariant says of the key.
LEMMA IInvSafe ==
    IInv => /\ RemoteWasSigned
            /\ NoPhantomCharge
            /\ SpentWithinFunds
            /\ UnpaidWithinTwoRanges
  BY DEF IInv, CopyOK, RemoteWasSigned, NoPhantomCharge, SpentWithinFunds,
         UnpaidWithinTwoRanges

Grows(h, k) ==
    /\ h.signed \subseteq k.signed
    /\ h.bill <= k.bill
    /\ h.ceiling <= k.ceiling
    /\ h.gap <= k.gap

\* What holds of a copy, a row, a task or the poll goes on holding while the
\* history grows.
LEMMA CopyGrows ==
    ASSUME NEW c \in StateCache, NEW h \in History, NEW k \in History,
           Grows(h, k), CopyOK(c, h)
    PROVE  CopyOK(c, k)
<1>1. /\ c.remote \in k.signed
      /\ c.spent <= k.bill
      /\ c.spent <= k.ceiling
      /\ c.total + c.price <= k.ceiling
  BY DEF CopyOK, Grows, History, StateCache
<1>2. ASSUME "single" \notin Modes
      PROVE  c.spent <= c.remote + Larger(2 * RangeMax, k.gap)
  <2>1. c.spent <= c.remote + Larger(2 * RangeMax, h.gap)
    BY <1>2 DEF CopyOK
  <2> QED
    BY <2>1, ConstantsAssumption DEF Larger, Grows, History, StateCache
<1> QED
  BY <1>1, <1>2 DEF CopyOK

LEMMA RowGrows ==
    ASSUME NEW r \in Row, NEW h \in History, NEW k \in History,
           Grows(h, k), RowOK(r, h)
    PROVE  RowOK(r, k)
  BY DEF RowOK, Grows, History, Row

LEMMA TaskGrows ==
    ASSUME NEW t \in Task, NEW h \in History, NEW k \in History,
           Grows(h, k), TaskOK(t, h)
    PROVE  TaskOK(t, k)
<1>1. CASE t.pc = "single"
  BY <1>1, TaskFields, CopyGrows DEF TaskOK, Grows
<1>2. CASE t.pc = "multiple"
  <2> DEFINE h1 == [h EXCEPT !.bill = @ + t.cost]
             k1 == [k EXCEPT !.bill = @ + t.cost]
  <2>1. t.snap \in StateCache /\ t.cost \in Nat
    BY <1>2, TaskFields
  <2>2. h1 \in History /\ k1 \in History
    BY <2>1, BillType
  <2>3. Grows(h1, k1)
    BY <2>1 DEF Grows, History
  <2>4. CopyOK(t.snap, h1)
    BY <1>2 DEF TaskOK
  <2> HIDE DEF h1, k1
  <2>5. CopyOK(t.snap, k1)
    BY <2>1, <2>2, <2>3, <2>4, CopyGrows
  <2> QED
    BY <1>2, <2>5 DEF TaskOK, k1
<1>3. CASE t.pc \in {"pay", "paid"}
  BY <1>3, TaskFields, CopyGrows DEF TaskOK, Grows
<1>4. CASE t.pc = "idle"
  BY <1>4 DEF TaskOK
<1> QED
  BY <1>1, <1>2, <1>3, <1>4, TaskFields

LEMMA PollGrows ==
    ASSUME NEW p \in Poll, NEW h \in History, NEW k \in History,
           Grows(h, k), PollOK(p, h)
    PROVE  PollOK(p, k)
<1>1. p.pc \in {"fetched", "merging"} => RowOK(p.item, k)
  BY PollFields, RowGrows DEF PollOK
<1>2. p.pc = "merging" /\ p.snap # NoCache => CopyOK(p.snap, k)
  BY PollFields, CopyGrows DEF PollOK
<1> QED
  BY <1>1, <1>2 DEF PollOK

LEMMA IdleOK == \A h : TaskOK(IdleTask, h) /\ PollOK(IdleTask, h)
  BY DEF TaskOK, PollOK, IdleTask

LEMMA RememberGrows ==
    ASSUME NEW h \in History, NEW r \in Row
    PROVE  Grows(h, Remember(h, r))
<1>1. Larger(r.spent, r.total + r.price) \in Nat
  BY LargerType DEF Row
<1> QED
  BY <1>1, RememberType, LargerType DEF Grows, History, Row

\* A row that was just reported is covered by the history.
LEMMA RememberOK ==
    ASSUME NEW h \in History, NEW r \in Row, r.remote \in h.signed
    PROVE  RowOK(r, Remember(h, r))
<1> DEFINE most == Larger(r.spent, r.total + r.price)
<1>1. most \in Nat /\ r.spent <= most /\ r.total + r.price <= most
  BY LargerType DEF Row
<1>2. Larger(h.ceiling, most) \in Nat /\ most <= Larger(h.ceiling, most)
  BY <1>1, LargerType DEF History
<1>3. Remember(h, r).ceiling = Larger(h.ceiling, most)
  BY RememberType
<1> HIDE DEF most
<1>4. r.spent <= Remember(h, r).ceiling /\ r.total + r.price <= Remember(h, r).ceiling
  BY <1>1, <1>2, <1>3 DEF Row
<1>5. r.spent <= Remember(h, r).bill
  BY RememberType, LargerType DEF History, Row
<1> QED
  BY <1>4, <1>5, RememberType DEF RowOK

\* Merging a covered row into a covered copy gives a covered copy.
LEMMA MergeOK ==
    ASSUME NEW c \in StateCache \cup {NoCache}, NEW r \in Row, NEW h \in History,
           c # NoCache => CopyOK(c, h), RowOK(r, h)
    PROVE  CopyOK(Merge(c, r), h)
<1>1. CASE c = NoCache
  <2>1. /\ Merge(c, r).spent = r.spent /\ Merge(c, r).remote = r.remote
        /\ Merge(c, r).total = r.total /\ Merge(c, r).price = r.price
    BY <1>1 DEF Merge
  <2>2. h.gap <= Larger(2 * RangeMax, h.gap) /\ Larger(2 * RangeMax, h.gap) \in Nat
    BY LargerType, ConstantsAssumption DEF History
  <2> QED
    BY <2>1, <2>2 DEF CopyOK, RowOK, Row, History
<1>2. CASE c # NoCache
  <2>1. /\ Merge(c, r).spent = Larger(c.spent, r.spent)
        /\ Merge(c, r).remote = Larger(c.remote, r.remote)
        /\ Merge(c, r).total = r.total /\ Merge(c, r).price = r.price
    BY <1>2 DEF Merge, StateCache
  <2>2. h.gap <= Larger(2 * RangeMax, h.gap) /\ Larger(2 * RangeMax, h.gap) \in Nat
    BY LargerType, ConstantsAssumption DEF History
  <2>3. ASSUME "single" \notin Modes
        PROVE  Merge(c, r).spent <= Merge(c, r).remote + Larger(2 * RangeMax, h.gap)
    <3>1. /\ c.spent <= c.remote + Larger(2 * RangeMax, h.gap)
          /\ r.spent <= r.remote + h.gap
      BY <1>2, <2>3 DEF CopyOK, RowOK
    <3>2. /\ c.remote <= Merge(c, r).remote /\ r.remote <= Merge(c, r).remote
          /\ Merge(c, r).remote \in Nat
      BY <1>2, <2>1, LargerType DEF StateCache, Row
    <3>3. Merge(c, r).spent \in {c.spent, r.spent}
      BY <1>2, <2>1, LargerType DEF StateCache, Row
    <3> HIDE DEF Merge
    <3> QED
      BY <1>2, <2>2, <3>1, <3>2, <3>3 DEF StateCache, Row, History
  <2>4. /\ Merge(c, r).spent \in {c.spent, r.spent}
        /\ Merge(c, r).remote \in {c.remote, r.remote}
    BY <1>2, <2>1, LargerType DEF StateCache, Row
  <2> QED
    BY <1>2, <2>1, <2>3, <2>4 DEF CopyOK, RowOK
<1> QED
  BY <1>1, <1>2

LEMMA InitIInv == Init => IInv
<1> SUFFICES ASSUME Init
             PROVE  IInv
  OBVIOUS
<1> DEFINE h == [signed |-> {0}, bill |-> 0, ceiling |-> 0, gap |-> 0]
<1>1. row \in Row /\ h \in History
  BY ConstantsAssumption DEF Init, History
<1>2. row.remote \in h.signed /\ hist = Remember(h, row)
  BY DEF Init
<1> HIDE DEF h
<1>3. RowOK(row, hist)
  BY <1>1, <1>2, RememberOK
<1> QED
  BY <1>3, IdleOK DEF Init, IInv

\* Storing the snapshot of an answered query of the single mode.
LEMMA PostSingleOK ==
    ASSUME TypeOK, IInv, NEW j \in Handlers, PostSingle(j)
    PROVE  cache' # NoCache => CopyOK(cache', hist')
<1> DEFINE t == tasks[j]
           c == t.snap
           charged == [c EXCEPT !.spent = @ + c.price, !.remote = t.spent]
<1>1. t \in Task /\ TaskOK(t, hist) /\ t.pc = "single"
  BY DEF TypeOK, IInv, PostSingle
<1>2. c \in StateCache /\ t.spent \in Nat /\ t.cost \in Nat
  BY <1>1, TaskFields, ConstantsAssumption
<1>3. /\ CopyOK(c, hist) /\ c.spent + t.cost <= c.total
      /\ t.spent \in hist.signed /\ "single" \in Modes
  BY <1>1 DEF TaskOK
<1>4. /\ charged.spent = c.spent + c.price /\ charged.remote = t.spent
      /\ charged.total = c.total /\ charged.price = c.price
  BY <1>2 DEF StateCache
<1>5. /\ hist'.signed = hist.signed /\ hist'.ceiling = hist.ceiling
      /\ hist'.bill = hist.bill + c.price
  BY DEF PostSingle, TypeOK, History
<1>6. cache' \in {NoCache, charged}
  BY DEF PostSingle
<1>7. hist \in History
  BY DEF TypeOK
<1> HIDE DEF t, c, charged
<1>8. CopyOK(charged, hist')
  BY <1>2, <1>3, <1>4, <1>5, <1>7 DEF CopyOK, StateCache, History
<1> QED
  BY <1>6, <1>8

\* An admitted query of the multiple mode stays within two ranges of what
\* is paid, and within the funds.
LEMMA BeginMultipleOK ==
    ASSUME NEW c \in StateCache, NEW h \in History, CopyOK(c, h), NEW cost \in Nat,
           NEW start \in Nat, NEW end \in Nat,
           Balanced(c, cost, start, end),
           Activity(c, cost, start, end) # "Inactive2"
    PROVE  CopyOK([c EXCEPT !.spent = @ + cost], [h EXCEPT !.bill = @ + cost])
<1> DEFINE d == [c EXCEPT !.spent = @ + cost]
           k == [h EXCEPT !.bill = @ + cost]
<1>1. /\ d.spent = c.spent + cost /\ d.remote = c.remote
      /\ d.total = c.total /\ d.price = c.price
  BY DEF StateCache
<1>2. /\ k.bill = h.bill + cost /\ k.signed = h.signed
      /\ k.ceiling = h.ceiling /\ k.gap = h.gap
  BY DEF History
<1>3. start <= end /\ end - start <= RangeMax /\ c.spent + cost <= c.total
  BY DEF Balanced, Affordable
<1>4. c.spent + cost <= end
  <2>1. (end - start) \div 2 <= end - start
    BY <1>3
  <2> QED
    BY <1>3, <2>1 DEF Activity, StateCache
<1>5. start <= end - start \/ c.remote >= start - (end - start)
  BY <1>3 DEF Activity, StateCache
<1>6. c.spent + cost <= c.remote + 2 * RangeMax
  BY <1>3, <1>4, <1>5, ConstantsAssumption DEF StateCache
<1>7. 2 * RangeMax <= Larger(2 * RangeMax, h.gap)
      /\ Larger(2 * RangeMax, h.gap) \in Nat
  BY LargerType, ConstantsAssumption DEF History
<1> HIDE DEF d, k
<1>8. d.spent <= d.remote + Larger(2 * RangeMax, k.gap)
  BY <1>1, <1>2, <1>6, <1>7, ConstantsAssumption DEF StateCache, History
<1>9. d.spent <= k.ceiling
  BY <1>1, <1>2, <1>3 DEF CopyOK, StateCache, History
<1>10. d.remote \in k.signed /\ d.spent <= k.bill /\ d.total + d.price <= k.ceiling
  BY <1>1, <1>2 DEF CopyOK, StateCache, History
<1>11. CopyOK(d, k)
  BY <1>8, <1>9, <1>10 DEF CopyOK
<1> QED
  BY <1>11 DEF d, k

\* The history only grows.
LEMMA HistGrows ==
    ASSUME TypeOK, [Next]_vars
    PROVE  Grows(hist, hist')
<1>0. hist \in History
  BY DEF TypeOK
<1>1. CASE UNCHANGED hist
  BY <1>0, <1>1 DEF Grows, History
<1>2. CASE \E v \in Amounts : hist' = [hist EXCEPT !.signed = @ \cup {v}]
  BY <1>0, <1>2 DEF Grows, History
<1>3. CASE \E n \in Nat : hist' = [hist EXCEPT !.bill = @ + n]
  BY <1>0, <1>3 DEF Grows, History
<1>4. ASSUME NEW h \in Handlers, Request(h)
      PROVE  Grows(hist, hist')
  BY <1>1, <1>2, <1>4 DEF Request, BeginSingle, BeginMultiple, BeginPay
<1>5. ASSUME NEW h \in Handlers, TaskStep(h)
      PROVE  Grows(hist, hist')
  <2>0. tasks[h] \in Task
    BY DEF TypeOK
  <2>1. CASE PostSingle(h)
    BY <1>3, <2>0, <2>1, TaskFields DEF PostSingle, StateCache
  <2>2. CASE PostMultiple(h)
    BY <1>3, <2>0, <2>2, TaskFields DEF PostMultiple
  <2>3. CASE PayFetched(h) \/ PostPay(h) \/ Abandon(h)
    BY <1>1, <2>3 DEF PayFetched, PostPay, Abandon
  <2> QED
    BY <1>5, <2>1, <2>2, <2>3 DEF TaskStep
<1>6. CASE Evict \/ Polling \/ \E m \in Update : Take(m)
  BY <1>1, <1>6 DEF Evict, Polling, PollFetch, PollRead, PollWrite, PollDrop, Take
<1>7. ASSUME NEW r \in Rows, RowChange(r)
      PROVE  Grows(hist, hist')
  BY <1>0, <1>7, RememberGrows, ConstantsAssumption DEF RowChange
<1>8. CASE UNCHANGED vars
  BY <1>1, <1>8 DEF vars
<1> QED
  BY <1>4, <1>5, <1>6, <1>7, <1>8 DEF Next, ProxyNext

LEMMA IInvStep == TypeOK /\ TypeOK' /\ IInv /\ [Next]_vars => IInv'
<1> SUFFICES ASSUME TypeOK, TypeOK', IInv, [Next]_vars
             PROVE  IInv'
  OBVIOUS
<1>1. hist \in History /\ hist' \in History /\ Grows(hist, hist')
  BY HistGrows DEF TypeOK
\* How each conjunct is kept by a step of the expected shape.
<1>2. ASSUME cache' \in {cache, NoCache}
      PROVE  cache' # NoCache => CopyOK(cache', hist')
  BY <1>1, <1>2, CopyGrows DEF TypeOK, IInv
<1>3. ASSUME NEW h \in Handlers, NEW t, TaskOK(t, hist'),
             tasks' = [tasks EXCEPT ![h] = t]
      PROVE  \A j \in Handlers : TaskOK(tasks'[j], hist')
  <2>1. ASSUME NEW j \in Handlers
        PROVE  TaskOK(tasks'[j], hist')
    <3>1. tasks'[j] \in {tasks[j], t}
      BY <1>3 DEF TypeOK
    <3>2. TaskOK(tasks[j], hist')
      BY <1>1, TaskGrows DEF TypeOK, IInv
    <3> QED
      BY <1>3, <3>1, <3>2
  <2> QED
    BY <2>1
<1>4. ASSUME UNCHANGED tasks
      PROVE  \A j \in Handlers : TaskOK(tasks'[j], hist')
  BY <1>1, <1>4, TaskGrows DEF TypeOK, IInv
<1>5. ASSUME NEW h \in Handlers, Done(h)
      PROVE  \A j \in Handlers : TaskOK(tasks'[j], hist')
  BY <1>3, <1>5, IdleOK DEF Done
<1>6. ASSUME UNCHANGED poll
      PROVE  PollOK(poll', hist')
  BY <1>1, <1>6, PollGrows DEF TypeOK, IInv
<1>7. ASSUME UNCHANGED row
      PROVE  RowOK(row', hist')
  BY <1>1, <1>7, RowGrows DEF TypeOK, IInv
<1>8. ASSUME NEW h \in Handlers, Request(h), UNCHANGED row
      PROVE  IInv'
  <2>0. cache \in StateCache /\ CopyOK(cache, hist) /\ UNCHANGED <<cache, poll>>
    BY <1>8 DEF Request, BeginSingle, BeginMultiple, BeginPay, Accepting, TypeOK, IInv
  <2>1. ASSUME NEW v \in Amounts, NEW final \in BOOLEAN, NEW u \in UnitCosts,
               BeginSingle(h, v, final, u)
        PROVE  \A j \in Handlers : TaskOK(tasks'[j], hist')
    <3>1. PICK times :
             tasks' = [tasks EXCEPT ![h] =
                          [pc |-> "single", snap |-> [cache EXCEPT !.times = times],
                           spent |-> v, final |-> final,
                           cost |-> cache.price * u.times]]
      BY <2>1 DEF BeginSingle
    <3>2. /\ "single" \in Modes /\ v \in hist'.signed
          /\ cache.spent + cache.price * u.times <= cache.total
      BY <1>1, <2>1 DEF BeginSingle, Affordable, History
    <3> DEFINE snap == [cache EXCEPT !.times = times]
    <3>3. /\ snap.spent = cache.spent /\ snap.remote = cache.remote
          /\ snap.total = cache.total /\ snap.price = cache.price
      BY <2>0 DEF StateCache
    <3>4. CopyOK(cache, hist')
      BY <1>1, <2>0, CopyGrows
    <3> HIDE DEF snap
    <3>5. CopyOK(snap, hist')
      BY <3>3, <3>4 DEF CopyOK
    <3>6. TaskOK([pc |-> "single", snap |-> snap, spent |-> v, final |-> final,
                  cost |-> cache.price * u.times], hist')
      BY <3>2, <3>3, <3>5 DEF TaskOK
    <3> QED
      BY <1>3, <3>1, <3>6 DEF snap
  <2>2. ASSUME NEW start \in Amounts, NEW end \in Amounts, NEW u \in UnitCosts,
               BeginMultiple(h, start, end, u)
        PROVE  \A j \in Handlers : TaskOK(tasks'[j], hist')
    <3> DEFINE cost == cache.price * u.times
               t == [pc |-> "multiple", cost |-> cost,
                     snap |-> [cache EXCEPT !.spent = @ + cost]]
    <3>1. /\ Balanced(cache, cost, start, end)
          /\ Activity(cache, cost, start, end) # "Inactive2"
          /\ tasks' = [tasks EXCEPT ![h] = t] /\ UNCHANGED hist
      BY <2>2 DEF BeginMultiple
    <3>2. cost \in Nat /\ start \in Nat /\ end \in Nat
      BY <2>0, ConstantsAssumption DEF StateCache
    <3>3. CopyOK(t.snap, [hist EXCEPT !.bill = @ + cost])
      BY <1>1, <2>0, <3>1, <3>2, BeginMultipleOK
    <3>4. TaskOK(t, hist')
      BY <3>1, <3>3 DEF TaskOK
    <3> QED
      BY <1>3, <3>1, <3>4
  <2>3. ASSUME NEW v \in Amounts, NEW final \in BOOLEAN, BeginPay(h, v, final)
        PROVE  \A j \in Handlers : TaskOK(tasks'[j], hist')
    <3> DEFINE t == [pc |-> "pay", snap |-> cache, spent |-> v, final |-> final]
    <3>1. tasks' = [tasks EXCEPT ![h] = t] /\ v \in hist'.signed
      BY <1>1, <2>3 DEF BeginPay, History
    <3>2. CopyOK(cache, hist')
      BY <1>1, <2>0, CopyGrows
    <3>3. TaskOK(t, hist')
      BY <3>1, <3>2 DEF TaskOK
    <3> QED
      BY <1>3, <3>1, <3>3
  <2> QED
    BY <1>2, <1>6, <1>7, <1>8, <2>0, <2>1, <2>2, <2>3 DEF Request, IInv
<1>9. ASSUME NEW h \in Handlers, TaskStep(h), UNCHANGED row
      PROVE  IInv'
  <2> DEFINE t == tasks[h]
  <2>0. t \in Task /\ TaskOK(t, hist)
    BY DEF TypeOK, IInv
  <2>1. CASE PostSingle(h)
    BY <1>5, <1>6, <1>7, <1>9, <2>1, PostSingleOK DEF PostSingle, IInv
  <2>2. CASE PostMultiple(h)
    <3>1. CopyOK(t.snap, [hist EXCEPT !.bill = @ + t.cost])
      BY <2>0, <2>2 DEF PostMultiple, TaskOK
    <3> QED
      BY <1>5, <1>6, <1>7, <1>9, <2>2, <3>1 DEF PostMultiple, IInv
  <2>3. CASE PayFetched(h)
    <3> DEFINE paid == [t EXCEPT !.pc = "paid"]
    <3>1. t \in PayTask /\ UNCHANGED <<cache, poll, hist>>
      BY <2>0, <2>3 DEF PayFetched, Task, Idle, SingleTask, MultipleTask, PayTask
    <3>2. paid.pc = "paid" /\ paid.snap = t.snap /\ paid.spent = t.spent
      BY <3>1 DEF PayTask
    <3>3. t.pc = "pay" /\ (Done(h) \/ tasks' = [tasks EXCEPT ![h] = paid])
      BY <2>3 DEF PayFetched
    <3> HIDE DEF paid
    <3>4. TaskOK(paid, hist')
      BY <2>0, <3>1, <3>2, <3>3 DEF TaskOK
    <3> QED
      BY <1>2, <1>3, <1>5, <1>6, <1>7, <1>9, <3>1, <3>3, <3>4 DEF IInv
  <2>4. CASE PostPay(h)
    <3> DEFINE paid == [t.snap EXCEPT !.remote = t.spent]
    <3>1. /\ t.snap \in StateCache /\ t.spent \in Nat
          /\ CopyOK(t.snap, hist) /\ t.spent \in hist.signed
      BY <2>0, <2>4, TaskFields, ConstantsAssumption DEF PostPay, TaskOK
    <3>2. /\ paid.remote = t.spent /\ paid.spent = t.snap.spent
          /\ paid.total = t.snap.total /\ paid.price = t.snap.price
      BY <3>1 DEF StateCache
    <3>3. /\ \/ cache' \in {cache, NoCache}
             \/ cache' = paid /\ t.snap.remote < t.spent
          /\ Done(h) /\ UNCHANGED <<poll, hist>>
      BY <3>1, <2>4 DEF PostPay, StateCache
    <3> HIDE DEF paid
    <3>4. t.snap.remote < t.spent => CopyOK(paid, hist)
      <4>1. Larger(2 * RangeMax, hist.gap) \in Nat
        BY LargerType, ConstantsAssumption DEF TypeOK, History
      <4> QED
        BY <3>1, <3>2, <4>1 DEF CopyOK, StateCache
    <3> QED
      BY <1>2, <1>5, <1>6, <1>7, <1>9, <3>3, <3>4 DEF IInv
  <2>5. CASE Abandon(h)
    BY <1>2, <1>5, <1>6, <1>7, <1>9, <2>5 DEF Abandon, IInv
  <2> QED
    BY <1>9, <2>1, <2>2, <2>3, <2>4, <2>5 DEF TaskStep
<1>10. CASE Evict /\ UNCHANGED row
  BY <1>2, <1>4, <1>6, <1>7, <1>10 DEF Evict, IInv
<1>11. CASE Polling /\ UNCHANGED row
  <2>0. UNCHANGED <<tasks, hist>>
    BY <1>11 DEF Polling, PollFetch, PollRead, PollWrite, PollDrop
  <2>1. CASE PollFetch
    <3>1. PollOK(poll', hist')
      BY <2>0, <2>1 DEF PollFetch, PollOK, IInv
    <3> QED
      BY <1>2, <1>4, <1>7, <1>11, <2>0, <2>1, <3>1 DEF PollFetch, IInv
  <2>2. CASE PollRead
    <3>1. PollOK(poll', hist')
      BY <2>0, <2>2, IdleOK DEF PollRead, PollOK, IInv
    <3> QED
      BY <1>2, <1>4, <1>7, <1>11, <2>0, <2>2, <3>1 DEF PollRead, IInv
  <2>3. CASE PollWrite
    <3>1. /\ poll.item \in Row /\ poll.snap \in StateCache \cup {NoCache}
          /\ RowOK(poll.item, hist)
          /\ poll.snap # NoCache => CopyOK(poll.snap, hist)
      BY <2>3, PollFields DEF PollWrite, PollOK, TypeOK, IInv
    <3>2. CopyOK(cache', hist')
      BY <1>1, <2>0, <2>3, <3>1, MergeOK DEF PollWrite
    <3> QED
      BY <1>4, <1>7, <1>11, <2>0, <2>3, <3>2, IdleOK DEF PollWrite, IInv
  <2>4. CASE PollDrop
    BY <1>2, <1>4, <1>7, <1>11, <2>4, IdleOK DEF PollDrop, IInv
  <2> QED
    BY <1>11, <2>1, <2>2, <2>3, <2>4 DEF Polling
<1>12. ASSUME NEW m \in Update, Take(m), UNCHANGED row
       PROVE  IInv'
  BY <1>2, <1>4, <1>6, <1>7, <1>12 DEF Take, IInv
<1>13. ASSUME NEW r \in Rows, RowChange(r)
       PROVE  IInv'
  <2>1. RowOK(row', hist')
    BY <1>1, <1>13, RememberOK, ConstantsAssumption DEF RowChange
  <2> QED
    BY <1>2, <1>4, <1>6, <1>13, <2>1 DEF RowChange, IInv
<1>14. CASE UNCHANGED vars
  BY <1>2, <1>4, <1>6, <1>7, <1>14 DEF vars, IInv
<1> QED
  BY <1>8, <1>9, <1>10, <1>11, <1>12, <1>13, <1>14 DEF Next, ProxyNext

\* The invariant holds in every reachable state.
THEOREM Inductive == Spec => []IInv
  BY InitIInv, IInvStep, TypeCorrect, PTL DEF Spec

\* Only what the consumer signed counts as paid, whichever stale value of the
\* key a query, a payment or the poll stores last.
THEOREM RemoteSafe == Spec => []RemoteWasSigned
  BY Inductive, IInvSafe, PTL

\* No interleaving charges the consumer for more than the answered queries.
THEOREM ChargeSafe == Spec => []NoPhantomCharge
  BY Inductive, IInvSafe, PTL

\* Concurrent queries stay within the funds, up to one price.
THEOREM FundsSafe == Spec => []SpentWithinFunds
  BY Inductive, IInvSafe, PTL

\* With ranges only, at most two ranges of queries are unpaid.
THEOREM RangesSafe == Spec => []UnpaidWithinTwoRanges /\ []UnpaidInRanges
<1>1. UnpaidWithinTwoRanges => UnpaidInRanges
  BY DEF UnpaidInRanges
<1> QED
  BY <1>1, Inductive, IInvSafe, PTL
=============================================================================
