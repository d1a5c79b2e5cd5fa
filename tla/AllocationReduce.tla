-------------------------- MODULE AllocationReduce --------------------------
(***************************************************************************)
(* reduceAllocation of indexer-coordinator/src/reward/reward.service.ts:   *)
(* when an indexer has allocated more than its stake, a cron job takes the *)
(* excess away from its deployments, one transaction per deployment.       *)
(*                                                                         *)
(* The amounts to remove form a plan.  It is kept between the runs of the  *)
(* job together with the total it has still to remove, and it is used      *)
(* again when the excess equals that total.  A run does not end before its *)
(* transactions are confirmed, and the scheduler starts the next one       *)
(* regardless: the runs share the plan.  The staking contract and the      *)
(* network's index of it are external.  `overlapped', `lost' and a plan's  *)
(* `removed' are history only; a run that is alone when it makes a new     *)
(* plan starts afresh.                                                     *)
(***************************************************************************)
EXTENDS Integers, SequencesExt

CONSTANTS
    Deployments,  \* the deployments an indexer allocates to
    Runs,         \* runs of the job that may be in progress together
    PlanIds,      \* plans in memory
    NoPlan,       \* no plan
    MaxAmount,    \* bound on the allocation of a deployment
    Stakes,       \* what the indexer may allocate in total
    MaxChanges    \* bound on the changes of stake and allocations by others

\* toReduce may be negative when the index is behind; `success' are the entries
\* of that status, the others are pending or failed, which makes no difference;
\* `removed' are the entries the contract has executed.
Plan == [order: Seq(Deployments), toReduce: [Deployments -> Int],
         success: SUBSET Deployments, removed: SUBSET Deployments]

ASSUME ReduceAssumption ==
    /\ IsFiniteSet(Deployments)
    /\ NoPlan \notin PlanIds \cup Plan
    /\ MaxAmount \in Nat
    /\ Stakes \subseteq Nat
    /\ MaxChanges \in Nat

VARIABLES
    alloc,      \* the allocations in the contract
    total,      \* runnerAllocation.total: the indexer's stake
    index,      \* the allocations as the network's index last saw them
    changes,    \* changes so far
    plans,      \* the plans that are referred to
    last,       \* lastSingleReduce
    lastTotal,  \* lastTotalReduce
    runs,       \* what each run is waiting for
    overlapped, \* history: two runs were in progress together
    lost        \* history: a removal was executed and reported as failed

chainVars == <<alloc, total, index, changes>>
memoryVars == <<plans, last, lastTotal, runs, overlapped, lost>>
reduceVars == <<chainVars, memoryVars>>

\* The sum of what an indexer has allocated: runnerAllocation.used.
Used == SumFunction(alloc)

IdleRun == [at |-> "idle"]
Run ==
    [at: {"idle"}]
    \cup [at: {"decide", "fetch"}, excess: Int, used: Nat]
    \cup [at: {"send"}, plan: PlanIds, entry: Nat \ {0}, mined: BOOLEAN]

TypeOK ==
    /\ alloc \in [Deployments -> Nat]
    /\ total \in Stakes
    /\ index \in [Deployments -> Nat]
    /\ changes \in 0 .. MaxChanges
    /\ plans \in [PlanIds -> Plan \cup {NoPlan}]
    /\ last \in PlanIds \cup {NoPlan}
    /\ last # NoPlan => plans[last] # NoPlan
    /\ lastTotal \in Int
    /\ runs \in [Runs -> Run]
    /\ \A r \in Runs : runs[r].at = "send" =>
          /\ plans[runs[r].plan] # NoPlan
          /\ runs[r].entry <= Len(plans[runs[r].plan].order)
    /\ overlapped \in BOOLEAN
    /\ lost \in BOOLEAN

Init ==
    /\ alloc \in [Deployments -> 0 .. MaxAmount]
    /\ total \in Stakes
    /\ index = alloc
    /\ changes = 0
    /\ plans = [p \in PlanIds |-> NoPlan]
    /\ last = NoPlan
    /\ lastTotal = 0
    /\ runs = [r \in Runs |-> IdleRun]
    /\ overlapped = FALSE
    /\ lost = FALSE
-----------------------------------------------------------------------------
(* The plan for an excess.                                                 *)

\* Mutant of Share: the excess is divided by itself.
ShareOfExcess(excess, used, d) == (excess * index[d]) \div excess

\* Every deployment's share, rounded down.
Share(excess, used, d) == (excess * index[d]) \div used

Listed == {d \in Deployments : index[d] > 0}

\* What is left of the remainder when the loop, which begins with the last
\* deployment, arrives at the i-th.
Rest(order, excess, used) ==
    LET n == Len(order)
        share == [d \in Deployments |-> Share(excess, used, d)]
        rest[i \in 1 .. n] ==
            IF i = n THEN excess - SumFunctionOnSet(share, Listed)
            ELSE LET r == rest[i + 1]
                     d == order[i + 1]
                 IN  IF index[d] >= share[d] + r THEN 0 ELSE r - (index[d] - share[d])
    IN  rest

\* To each its share, and of the remainder as much as its allocation holds.
Fill(order, excess, used) ==
    LET rest == Rest(order, excess, used)
        amount(d, i) == IF index[d] >= Share(excess, used, d) + rest[i]
                        THEN Share(excess, used, d) + rest[i] ELSE index[d]
    IN  [d \in Deployments |->
            IF d \in Listed
            THEN amount(d, CHOOSE i \in DOMAIN order : order[i] = d) ELSE 0]

NewPlan(order, excess, used) ==
    [order |-> order, toReduce |-> Fill(order, excess, used),
     success |-> {},
     removed |-> {}]
-----------------------------------------------------------------------------
(* A run.                                                                  *)

\* Mutant of NextEntry: an entry that has succeeded is sent again.
NextEntryAny(plan, from) ==
    SelectInSubSeq(plan.order, from, Len(plan.order), LAMBDA d : TRUE)

\* The first entry from a position on that has not succeeded, or 0.
NextEntry(plan, from) ==
    SelectInSubSeq(plan.order, from, Len(plan.order),
                   LAMBDA d : d \notin plan.success)

\* Plans that nothing refers to any more are gone.
Proceed(r, next, heap) ==
    /\ runs' = [runs EXCEPT ![r] = next]
    /\ plans' = [p \in PlanIds |->
                    IF p = last' \/ \E s \in Runs : runs'[s].at = "send"
                                                    /\ runs'[s].plan = p
                    THEN heap[p] ELSE NoPlan]

\* The run sends the next entry of its plan, or ends.
GoOn(r, p, from, heap) ==
    LET i == NextEntry(heap[p], from)
    IN  Proceed(r, IF i = 0 THEN IdleRun
                   ELSE [at |-> "send", plan |-> p, entry |-> i, mined |-> FALSE],
                heap)

\* runnerAllocation is read from the contract.
Begin(r) ==
    /\ runs[r] = IdleRun
    /\ runs' = [runs EXCEPT ![r] = [at |-> "decide", excess |-> Used - total,
                                    used |-> Used]]
    /\ overlapped' = (overlapped \/ \E s \in Runs : runs[s] # IdleRun)
    /\ UNCHANGED <<chainVars, plans, last, lastTotal, lost>>

\* Nothing to do, or the rest of the last plan, or a new one.
Decide(r) ==
    LET excess == runs[r].excess
    IN  /\ runs[r].at = "decide"
        /\ UNCHANGED last
        /\ IF excess <= 0 THEN Proceed(r, IdleRun, plans)
           ELSE IF excess = lastTotal THEN GoOn(r, last, 1, plans)
           ELSE Proceed(r, [runs[r] EXCEPT !.at = "fetch"], plans)
        /\ UNCHANGED <<chainVars, lastTotal, overlapped, lost>>

\* The network's index answers; the amounts must add up to the excess, else
\* the assertion ends the run.  The index compares amounts as strings, so that
\* the plan may be in any order.
Fetch(r) ==
    LET excess == runs[r].excess
        others == \E s \in Runs \ {r} : runs[s] # IdleRun
    IN  /\ runs[r].at = "fetch"
        /\ \E order \in SetToSeqs(Listed), p \in {q \in PlanIds : plans[q] = NoPlan} :
              LET plan == NewPlan(order, excess, runs[r].used)
              IN  IF SumFunction(plan.toReduce) = excess
                  THEN /\ last' = p
                       /\ lastTotal' = excess
                       /\ overlapped' = (overlapped /\ others)
                       /\ lost' = (lost /\ others)
                       /\ GoOn(r, p, 1, [plans EXCEPT ![p] = plan])
                  ELSE /\ UNCHANGED <<last, lastTotal, overlapped, lost>>
                       /\ Proceed(r, IdleRun, plans)
        /\ UNCHANGED chainVars

\* A read fails.
Abort(r) ==
    /\ runs[r].at \in {"decide", "fetch"}
    /\ UNCHANGED last
    /\ Proceed(r, IdleRun, plans)
    /\ UNCHANGED <<chainVars, lastTotal, overlapped, lost>>

Sending(r) == runs[r].at = "send"
Target(r) == plans[runs[r].plan].order[runs[r].entry]
Amount(r) == plans[runs[r].plan].toReduce[Target(r)]
Succeeded(r) == [plans EXCEPT ![runs[r].plan].success = @ \cup {Target(r)}]
FailedAgain(r) == [plans EXCEPT ![runs[r].plan].success = @ \ {Target(r)}]

\* The contract executes removeAllocation, once more when the sender has
\* retried without need; a negative amount cannot be encoded.
Mine(r) ==
    /\ Sending(r)
    /\ Amount(r) \in 0 .. alloc[Target(r)]
    /\ alloc' = [alloc EXCEPT ![Target(r)] = @ - Amount(r)]
    /\ plans' = [plans EXCEPT ![runs[r].plan].removed = @ \cup {Target(r)}]
    /\ runs' = [runs EXCEPT ![r].mined = TRUE]
    /\ lost' = (lost \/ runs[r].mined)
    /\ UNCHANGED <<total, index, changes, last, lastTotal, overlapped>>

\* Mutant of Succeed: the total keeps what was removed.
SucceedUncounted(r) ==
    /\ Sending(r)
    /\ runs[r].mined
    /\ UNCHANGED <<last, lastTotal>>
    /\ GoOn(r, runs[r].plan, runs[r].entry + 1, Succeeded(r))
    /\ UNCHANGED <<chainVars, overlapped, lost>>

Succeed(r) ==
    /\ Sending(r)
    /\ runs[r].mined
    /\ lastTotal' = lastTotal - Amount(r)
    /\ UNCHANGED last
    /\ GoOn(r, runs[r].plan, runs[r].entry + 1, Succeeded(r))
    /\ UNCHANGED <<chainVars, overlapped, lost>>

\* The transaction failed, was too expensive, or its receipts were lost.
Fail(r) ==
    /\ Sending(r)
    /\ lost' = (lost \/ runs[r].mined)
    /\ UNCHANGED last
    /\ Proceed(r, IdleRun, FailedAgain(r))
    /\ UNCHANGED <<chainVars, lastTotal, overlapped>>

\* The coordinator restarts: the plan is only in memory.
Restart ==
    /\ last # NoPlan
    /\ plans' = [p \in PlanIds |-> NoPlan]
    /\ last' = NoPlan
    /\ lastTotal' = 0
    /\ runs' = [r \in Runs |-> IdleRun]
    /\ overlapped' = FALSE
    /\ lost' = FALSE
    /\ UNCHANGED chainVars
-----------------------------------------------------------------------------
(* The contract and its index.                                             *)

Count == changes < MaxChanges /\ changes' = changes + 1

\* Delegations come and go.
Delegate ==
    /\ Count
    /\ total' \in Stakes \ {total}
    /\ UNCHANGED <<alloc, index, memoryVars>>

OwnerChange ==
    /\ Count
    /\ \E d \in Deployments, v \in 0 .. MaxAmount :
          alloc[d] # v /\ alloc' = [alloc EXCEPT ![d] = v]
    /\ UNCHANGED <<total, index, memoryVars>>

CatchUp ==
    /\ index # alloc
    /\ index' = alloc
    /\ UNCHANGED <<alloc, total, changes, memoryVars>>

RunStep(r) ==
    Begin(r) \/ Decide(r) \/ Fetch(r) \/ Abort(r) \/ Mine(r) \/ Succeed(r) \/ Fail(r)

Next ==
    \/ \E r \in Runs : RunStep(r)
    \/ Restart
    \/ Delegate \/ OwnerChange \/ CatchUp

Spec == Init /\ [][Next]_reduceVars

\* The job runs every five minutes, and every run ends; reads and transactions
\* that can succeed do so sometimes; the index catches up.
Fairness ==
    /\ WF_reduceVars(CatchUp)
    /\ \A r \in Runs : /\ WF_reduceVars(RunStep(r))
                       /\ SF_reduceVars(Decide(r))
                       /\ SF_reduceVars(Fetch(r))
                       /\ SF_reduceVars(Mine(r))
                       /\ SF_reduceVars(Succeed(r))

FairSpec == Spec /\ Fairness
-----------------------------------------------------------------------------
(* Properties.                                                             *)

Unfinished(p) == Deployments \ plans[p].success

\* What makes it right to use a plan again: the total that is compared with
\* the excess is what the plan has still to remove, after failures, lost
\* receipts and new plans in any order, as long as no two runs met
\* (reward.service.ts 265-273, 325-326, 344-350).
TotalIsUnfinished ==
    (last # NoPlan /\ ~overlapped) =>
        lastTotal = SumFunctionOnSet(plans[last].toReduce, Unfinished(last))

\* No entry of a plan is removed twice, however often the plan is used again,
\* unless two runs met or a receipt was lost (reward.service.ts 335-350).
RemovedOnce ==
    [][ \A r \in Runs : (Mine(r) /\ ~overlapped' /\ ~lost') =>
          Target(r) \notin plans[runs[r].plan].removed ]_reduceVars

\* A plan made from an index that is up to date takes from every deployment at
\* most what it has, and nothing negative, whatever the rounding
\* (reward.service.ts 284-316).
PlanFits ==
    [][ \A r \in Runs :
          (Fetch(r) /\ last' # last /\ index = alloc /\ runs[r].used = Used) =>
              \A d \in Deployments : plans'[last'].toReduce[d] \in 0 .. alloc[d]
      ]_reduceVars

\* "This feature ensures that over-allocations are evenly reduced": when stake
\* and allocations are left alone, the excess disappears
\* (indexer-admin GlobalConfig.tsx 146-149).
ExcessRemoved ==
    <>[][~Restart /\ UNCHANGED total]_reduceVars => <>(Used <= total)
=============================================================================
