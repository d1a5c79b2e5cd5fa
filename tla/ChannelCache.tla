---------------------------- MODULE ChannelCache ----------------------------
(***************************************************************************)
(* The proxy's account of one pay-as-you-go state channel: the value under *)
(* the Redis key "<id>-channel" (indexer-proxy/proxy/src/payg.rs), the     *)
(* request tasks that read it, await a network call and write it back, and *)
(* the poll that copies the coordinator's row into it.                     *)
(*                                                                         *)
(* Every task takes a snapshot with GET and later stores the whole value   *)
(* with SETEX; nothing is locked in between, so a write may carry stale    *)
(* fields.  Time is not modelled: the TTL may run out at any moment        *)
(* (Evict), and whether a row is past its expiry is a field of the row.    *)
(* The coordinator is the environment: its row may change in any way (the  *)
(* module ChannelStore says how it does).  A signature is what it covers.  *)
(* `hist' is history only: no action reads it to decide anything but the   *)
(* bound MaxBill.                                                          *)
(***************************************************************************)
EXTENDS Naturals, FiniteSets

CONSTANTS
    Handlers,     \* the request tasks of the proxy
    NoCache,      \* what GET returns when the key is gone
    Modes,        \* which query modes the channel's consumer uses
    Amounts,      \* the amounts a consumer may sign
    UnitCosts,    \* what compute_query_method may give: [times, overflow]
    MaxConflict,  \* payg_overflow of the project
    RangeMax,     \* MULTIPLE_RANGE_MAX
    Rows,         \* the rows the coordinator may report
    MaxBill,      \* bound: no new request once the bill has reached it
    MaxQueued     \* bound: no new request while so many updates are queued

StateCache == [spent: Nat, remote: Nat, total: Nat, price: Nat, times: Nat]
Row == [spent: Nat, remote: Nat, total: Nat, price: Nat,
        final: BOOLEAN, expired: BOOLEAN]
Update == [spent: Amounts, final: BOOLEAN]

ASSUME ConstantsAssumption ==
    /\ NoCache \notin StateCache
    /\ Modes \subseteq {"single", "multiple"}
    /\ Amounts \subseteq Nat
    /\ UnitCosts \subseteq [times: Nat, overflow: Nat]
    /\ MaxConflict \in Nat
    /\ RangeMax \in Nat
    /\ Rows \subseteq Row

VARIABLES
    cache,    \* the value of the key, or NoCache
    tasks,    \* what each request task is waiting for, with its snapshot
    poll,     \* the subscriber's channel loop
    outbox,   \* channelUpdate mutations spawned and not yet delivered
    row,      \* the coordinator's row for the channel
    hist      \* history: what was signed, billed and reported so far

vars == <<cache, tasks, poll, outbox, row, hist>>

Larger(a, b) == IF a >= b THEN a ELSE b

Idle == [pc: {"idle"}]
IdleTask == [pc |-> "idle"]
SingleTask == [pc: {"single"}, snap: StateCache, spent: Amounts, final: BOOLEAN,
               cost: Nat]
MultipleTask == [pc: {"multiple"}, snap: StateCache, cost: Nat]
PayTask == [pc: {"pay", "paid"}, snap: StateCache, spent: Amounts, final: BOOLEAN]
Task == Idle \cup SingleTask \cup MultipleTask \cup PayTask

Fetched == [pc: {"fetched"}, item: Row]
Merging == [pc: {"merging"}, item: Row, snap: StateCache \cup {NoCache}]
Poll == Idle \cup Fetched \cup Merging

History == [signed: SUBSET Nat, bill: Nat, ceiling: Nat, gap: Nat]

TypeOK ==
    /\ cache \in StateCache \cup {NoCache}
    /\ tasks \in [Handlers -> Task]
    /\ poll \in Poll
    /\ outbox \in [Update -> Nat]
    /\ row \in Row
    /\ hist \in History
-----------------------------------------------------------------------------
(* What a row tells the proxy.                                             *)

\* A row is reported while it is not final or has not expired
\* (getAliveChannels), and a reported row that is either drops the key.
Listed(r) == ~(r.final /\ r.expired)
Closed(r) == r.final \/ r.expired

\* Mutant of Merge: accounts are added up instead of compared.
MergeAdds(c, r) ==
    IF c = NoCache
    THEN [spent |-> r.spent, remote |-> r.remote, total |-> r.total,
          price |-> r.price, times |-> 0]
    ELSE [c EXCEPT !.spent = c.spent + r.spent,
                   !.remote = Larger(c.remote, r.remote),
                   !.total = r.total, !.price = r.price]

\* handle_channel: the coordinator's total and price, and the larger of the
\* two accounts of what was spent and of what was signed.
Merge(c, r) ==
    IF c = NoCache
    THEN [spent |-> r.spent, remote |-> r.remote, total |-> r.total,
          price |-> r.price, times |-> 0]
    ELSE [c EXCEPT !.spent = Larger(c.spent, r.spent),
                   !.remote = Larger(c.remote, r.remote),
                   !.total = r.total, !.price = r.price]

\* The history keeps the highest figure a row justified: its spent, or one
\* price above its total; and the largest debt a row showed.
Remember(h, r) ==
    [h EXCEPT !.bill = Larger(h.bill, r.spent),
              !.ceiling = Larger(h.ceiling, Larger(r.spent, r.total + r.price)),
              !.gap = IF r.spent > r.remote + h.gap THEN r.spent - r.remote
                                                    ELSE h.gap]
-----------------------------------------------------------------------------
Init ==
    /\ cache = NoCache
    /\ tasks = [h \in Handlers |-> IdleTask]
    /\ poll = IdleTask
    /\ outbox = [m \in Update |-> 0]
    /\ row \in Rows
    /\ row.spent = 0 /\ row.remote = 0
    /\ hist = Remember([signed |-> {0}, bill |-> 0, ceiling |-> 0, gap |-> 0],
                       row)

Accepting(h) ==
    /\ tasks[h] = IdleTask
    /\ cache # NoCache
    /\ hist.bill < MaxBill
    /\ Cardinality({m \in Update : outbox[m] > 0}) < MaxQueued

\* Mutant of Affordable: what is paid is compared, not what is spent.
AffordableByRemote(c, cost) == c.remote + cost <= c.total

\* The price is within the funds (error 1056).
Affordable(c, cost) == c.spent + cost <= c.total

Done(h) == tasks' = [tasks EXCEPT ![h] = IdleTask]

\* tokio::spawn of the channelUpdate mutation: nobody waits for its result.
Spawn(m) == outbox' = [outbox EXCEPT ![m] = @ + 1]
-----------------------------------------------------------------------------
(* query_single_state: the consumer signs a new `spent' with every query.  *)

BeginSingle(h, v, final, u) ==
    LET used == cache.price * u.times
        next == cache.spent + used
        times == IF next > v + used THEN cache.times + u.overflow
                                    ELSE cache.times
    IN  /\ "single" \in Modes
        /\ Accepting(h)
        /\ ~(cache.remote < v /\ cache.remote + used > v)
        /\ Affordable(cache, used)
        /\ times <= MaxConflict
        /\ tasks' = [tasks EXCEPT ![h] =
                        [pc |-> "single", snap |-> [cache EXCEPT !.times = times],
                         spent |-> v, final |-> final, cost |-> used]]
        /\ hist' = [hist EXCEPT !.signed = @ \cup {v}]
        /\ UNCHANGED <<cache, poll, outbox>>

\* Mutant of PostSingle: `remote' is counted instead of taken from the state.
PostSingleCounts(h) ==
    LET t == tasks[h]
    IN  /\ t.pc = "single"
        /\ cache' = IF t.final
                    THEN NoCache
                    ELSE [t.snap EXCEPT !.spent = @ + t.snap.price,
                                        !.remote = @ + t.snap.price]
        /\ Spawn([spent |-> t.spent, final |-> t.final])
        /\ Done(h)
        /\ hist' = [hist EXCEPT !.bill = @ + t.snap.price]
        /\ UNCHANGED poll

\* The endpoint answered: one price is added to the snapshot, the signed
\* amount becomes `remote', and a final state deletes the key.
PostSingle(h) ==
    LET t == tasks[h]
    IN  /\ t.pc = "single"
        /\ cache' = IF t.final
                    THEN NoCache
                    ELSE [t.snap EXCEPT !.spent = @ + t.snap.price,
                                        !.remote = t.spent]
        /\ Spawn([spent |-> t.spent, final |-> t.final])
        /\ Done(h)
        /\ hist' = [hist EXCEPT !.bill = @ + t.snap.price]
        /\ UNCHANGED poll
-----------------------------------------------------------------------------
(* query_multiple_state: the consumer signs a range once and the proxy      *)
(* counts queries inside it, until the range is used up or unpaid.          *)

\* Mutant of Activity: the range is looked at, what was paid before is not.
ActivityUnpaid(c, cost, start, end) ==
    LET next == c.spent + cost
        middle == start + (end - start) \div 2
    IN  IF next < middle THEN "Active"
        ELSE IF next > end THEN "Inactive2"
        ELSE "Inactive1"

\* check_multiple_state_balance: MultipleQueryStateActive of the answer.
Activity(c, cost, start, end) ==
    LET next == c.spent + cost
        range == end - start
        middle == start + range \div 2
    IN  IF start > range /\ c.remote < start - range THEN "Inactive2"
        ELSE IF next < middle THEN "Active"
        ELSE IF next > end THEN "Inactive2"
        ELSE "Inactive1"

\* The errors of check_multiple_state_balance (1056, 1058, 1059).
Balanced(c, cost, start, end) ==
    /\ Affordable(c, cost)
    /\ start <= end
    /\ end - start <= RangeMax

\* An inactive answer carries no data and stores nothing: no step.
BeginMultiple(h, start, end, u) ==
    LET cost == cache.price * u.times
    IN  /\ "multiple" \in Modes
        /\ Accepting(h)
        /\ Balanced(cache, cost, start, end)
        /\ Activity(cache, cost, start, end) # "Inactive2"
        /\ tasks' = [tasks EXCEPT ![h] =
                        [pc |-> "multiple", cost |-> cost,
                         snap |-> [cache EXCEPT !.spent = @ + cost]]]
        /\ UNCHANGED <<cache, poll, outbox, hist>>

PostMultiple(h) ==
    /\ tasks[h].pc = "multiple"
    /\ cache' = tasks[h].snap
    /\ Done(h)
    /\ hist' = [hist EXCEPT !.bill = @ + tasks[h].cost]
    /\ UNCHANGED <<poll, outbox>>
-----------------------------------------------------------------------------
(* pay_channel: the consumer pays for a range.                             *)

BeginPay(h, v, final) ==
    /\ Accepting(h)
    /\ v <= cache.total
    /\ tasks' = [tasks EXCEPT ![h] = [pc |-> "pay", snap |-> cache,
                                      spent |-> v, final |-> final]]
    /\ hist' = [hist EXCEPT !.signed = @ \cup {v}]
    /\ UNCHANGED <<cache, poll, outbox>>

\* The coordinator answers with its `spent': an amount not above it is
\* acknowledged and dropped.
PayFetched(h) ==
    /\ tasks[h].pc = "pay"
    /\ IF tasks[h].spent <= row.spent
       THEN Done(h)
       ELSE tasks' = [tasks EXCEPT ![h].pc = "paid"]
    /\ UNCHANGED <<cache, poll, outbox, hist>>

\* Mutant of PostPay: the payment is added to what was paid.
PostPayAdds(h) ==
    LET t == tasks[h]
    IN  /\ t.pc = "paid"
        /\ cache' = IF t.snap.remote >= t.spent THEN cache
                    ELSE IF t.final THEN NoCache
                    ELSE [t.snap EXCEPT !.remote = @ + t.spent]
        /\ Spawn([spent |-> t.spent, final |-> t.final])
        /\ Done(h)
        /\ UNCHANGED <<poll, hist>>

PostPay(h) ==
    LET t == tasks[h]
    IN  /\ t.pc = "paid"
        /\ cache' = IF t.snap.remote >= t.spent THEN cache
                    ELSE IF t.final THEN NoCache
                    ELSE [t.snap EXCEPT !.remote = t.spent]
        /\ Spawn([spent |-> t.spent, final |-> t.final])
        /\ Done(h)
        /\ UNCHANGED <<poll, hist>>
-----------------------------------------------------------------------------
\* The endpoint, the chain or the coordinator failed, or the client hung up:
\* a task that is waiting ends and stores nothing.
Abandon(h) ==
    /\ tasks[h] # IdleTask
    /\ Done(h)
    /\ UNCHANGED <<cache, poll, outbox, hist>>

\* Redis drops the key when its TTL runs out.
Evict ==
    /\ cache # NoCache
    /\ cache' = NoCache
    /\ UNCHANGED <<tasks, poll, outbox, hist>>
-----------------------------------------------------------------------------
(* subscribe's channel loop and handle_channel.                            *)

PollFetch ==
    /\ poll.pc = "idle"
    /\ Listed(row)
    /\ poll' = [pc |-> "fetched", item |-> row]
    /\ UNCHANGED <<cache, tasks, outbox, hist>>

PollRead ==
    /\ poll.pc = "fetched"
    /\ IF Closed(poll.item)
       THEN /\ cache' = NoCache
            /\ poll' = IdleTask
       ELSE /\ poll' = [pc |-> "merging", item |-> poll.item, snap |-> cache]
            /\ UNCHANGED cache
    /\ UNCHANGED <<tasks, outbox, hist>>

\* Mutant of PollWrite: only a key that exists is updated.
PollWriteExisting ==
    /\ poll.pc = "merging"
    /\ cache' = IF poll.snap = NoCache THEN cache ELSE Merge(poll.snap, poll.item)
    /\ poll' = IdleTask
    /\ UNCHANGED <<tasks, outbox, hist>>

PollWrite ==
    /\ poll.pc = "merging"
    /\ cache' = Merge(poll.snap, poll.item)
    /\ poll' = IdleTask
    /\ UNCHANGED <<tasks, outbox, hist>>

\* The signer lookup of a new key failed, or no second is left to store.
PollDrop ==
    /\ poll.pc = "merging"
    /\ poll' = IdleTask
    /\ UNCHANGED <<cache, tasks, outbox, hist>>
-----------------------------------------------------------------------------
(* The environment.                                                        *)

\* A mutation reaches the coordinator or is lost: errors are only logged.
Take(m) ==
    /\ outbox[m] > 0
    /\ outbox' = [outbox EXCEPT ![m] = @ - 1]
    /\ UNCHANGED <<cache, tasks, poll, hist>>

\* The coordinator's row takes any value whose `remote' was signed.
RowChange(r) ==
    /\ r.remote \in hist.signed
    /\ row' = r
    /\ hist' = Remember(hist, r)
    /\ UNCHANGED <<cache, tasks, poll, outbox>>

Request(h) ==
    \/ \E v \in Amounts, final \in BOOLEAN, u \in UnitCosts :
            BeginSingle(h, v, final, u)
    \/ \E start, end \in Amounts, u \in UnitCosts : BeginMultiple(h, start, end, u)
    \/ \E v \in Amounts, final \in BOOLEAN : BeginPay(h, v, final)

TaskStep(h) ==
    PostSingle(h) \/ PostMultiple(h) \/ PayFetched(h) \/ PostPay(h) \/ Abandon(h)

Polling == PollFetch \/ PollRead \/ PollWrite \/ PollDrop

ProxyNext ==
    /\ \/ \E h \in Handlers : Request(h) \/ TaskStep(h)
       \/ Evict
       \/ Polling
       \/ \E m \in Update : Take(m)
    /\ UNCHANGED row

Next == ProxyNext \/ \E r \in Rows : RowChange(r)

Spec == Init /\ [][Next]_vars

\* The subscriber's loop never stops (subscriber.rs 112-162), and a merge that
\* is tried again and again is stored sometimes: the signer lookup is retried
\* with every poll.
FairPoll ==
    /\ WF_vars(PollFetch /\ UNCHANGED row)
    /\ WF_vars(PollRead /\ UNCHANGED row)
    /\ WF_vars((PollWrite \/ PollDrop) /\ UNCHANGED row)
    /\ SF_vars(PollWrite /\ UNCHANGED row)

FairSpec == Spec /\ FairPoll
-----------------------------------------------------------------------------
(* Properties.  Each holds however the tasks, the poll and the evictions   *)
(* interleave, although their whole-value writes may lose each other's     *)
(* updates.                                                                *)

\* Only what the consumer signed counts as paid: the `remote' of the key is
\* 0 or an amount that came with a consumer's signature, whatever the order
\* of queries, payments, polls and stale writes (payg.rs 449, 903, 1025).
RemoteWasSigned ==
    cache # NoCache => cache.remote \in hist.signed

\* The consumer is never charged for a query that was not answered: the
\* `spent' of the key is at most the prices of the answered queries on top of
\* the highest `spent' the coordinator ever reported.  Lost updates only make
\* it smaller (payg.rs 447-448, 591, 1035).
NoPhantomCharge ==
    cache # NoCache => cache.spent <= hist.bill

\* Concurrent queries do not push `spent' past the funds: it exceeds the
\* largest total ever reported by one price at most (the charge of a batch
\* with no unit is not checked), unless the coordinator itself reported more
\* (payg.rs 379, 446, 617-630, 1024).
SpentWithinFunds ==
    cache # NoCache => cache.spent <= hist.ceiling

\* A channel used with ranges only: the counted queries that are not paid
\* are worth at most two ranges, or the debt the coordinator's row already
\* showed (payg.rs 651-664).
UnpaidWithinTwoRanges ==
    (cache # NoCache /\ "single" \notin Modes) =>
        cache.spent <= cache.remote + Larger(2 * RangeMax, hist.gap)

\* A live channel is served again: while the coordinator keeps reporting it
\* open, the key comes back after every eviction and every final query
\* (payg.rs 1040-1056, subscriber.rs 140-160).
LiveChannelServed ==
    <>[](Listed(row) /\ ~Closed(row)) => []<>(cache # NoCache)

\* A closed channel is refused again: while the coordinator keeps reporting
\* it closed, the key is deleted after every stale query that stores it anew
\* (payg.rs 1000-1003).
ClosedChannelDropped ==
    <>[](Listed(row) /\ Closed(row)) => []<>(cache = NoCache)
-----------------------------------------------------------------------------
(* What the error dictionary says of the single mode, which the code does   *)
(* not do.                                                                 *)

\* Error 1050 is documented as "local state > remote state + price *
\* max_conflict_number": a query that is admitted finds no more than that spent
\* above what is signed, now or before.  The code counts the conflicting queries
\* instead, and anew with every new key (payg.rs 399-407, 1057).
ConflictIsAmount ==
    \A h \in Handlers : tasks[h].pc = "single" =>
        tasks[h].snap.spent <= Larger(tasks[h].spent, tasks[h].snap.remote)
                                   + tasks[h].snap.price * MaxConflict
=============================================================================
