------------------------------ MODULE TxSender ------------------------------
(***************************************************************************)
(* The coordinator's way to the chain: sendTransaction of                  *)
(* indexer-coordinator/src/core/contract.service.ts.  A call first passes  *)
(* the gas gate, which compares an estimate with the operator's limit and  *)
(* remembers in Redis since when an action has been too expensive; then it *)
(* chains itself behind the last promise of mutexPromise                   *)
(* (utils/promise.ts); then it submits its transaction and waits for the   *)
(* receipt, up to MAX_RETRY times more when anything throws.               *)
(*                                                                         *)
(* Every await is a step.  The chain may refuse, drop or mine what was     *)
(* submitted, and mine it long after its sender gave up.  Time is counted  *)
(* in ticks.  `late', `ticket' and `arrived' are history only.             *)
(***************************************************************************)
EXTENDS Naturals

CONSTANTS
    Calls,       \* the calls of sendTransaction
    NoCall,      \* no promise to wait for
    Actions,     \* txOptions.action: the keys of the gas gate
    Types,       \* the types of transactions that are sent
    GasLimited,  \* whether the operator has set a gas fee limit
    NoTask,      \* Redis has no such key
    MAX_RETRY,   \* retries of a transaction
    Bypass,      \* bypassTime, in ticks
    MaxTime      \* bound on the ticks

Request == [action: Actions, type: Types]
Tx == Calls \X Nat

ASSUME SenderAssumption ==
    /\ NoCall \notin Calls
    /\ Types \subseteq {"go", "check", "postponed"}
    /\ GasLimited \in BOOLEAN
    /\ NoTask \notin Nat
    /\ MAX_RETRY \in Nat
    /\ Bypass \in Nat \ {0}
    /\ MaxTime \in Nat

VARIABLES
    now,       \* the clock
    tasks,     \* Redis: since when an action is postponed, and until when
    pc,        \* what each call is waiting for
    request,   \* its action and type
    start,     \* what it read from Redis, or what it is about to write
    after,     \* the promise it is chained to
    tail,      \* PROMISES[lock]
    attempts,  \* how many times it has failed to send
    forced,    \* it passed the gate although the gas is too expensive
    pool,      \* transactions submitted and not yet decided
    executed,  \* transactions the chain has executed
    late,      \* history: time passed between a call's read and its judgement
    ticket,    \* history: the order of arrival at the mutex
    arrived    \* history: how many calls have arrived

gateVars == <<tasks, request, start, forced>>
mutexVars == <<after, tail, ticket, arrived>>
chainVars == <<pool, executed>>
senderVars == <<now, late, pc, attempts, gateVars, mutexVars, chainVars>>

Gate == {"estimate", "lookup", "judge", "register", "complete"}
Running == {"prepare", "wait"}
Settled == {"ok", "failed"}
Turned == {"skipped", "deferred"}
Returned == Settled \cup Turned
Entered == {"queued"} \cup Running \cup Settled

Task == [start: Nat, until: Nat]

TypeOK ==
    /\ now \in Nat
    /\ late \in BOOLEAN
    /\ tasks \in [Actions -> Task \cup {NoTask}]
    /\ pc \in [Calls -> {"idle", "queued"} \cup Gate \cup Running \cup Returned]
    /\ request \in [Calls -> Request \cup {NoCall}]
    /\ start \in [Calls -> Nat \cup {NoTask}]
    /\ after \in [Calls -> Calls \cup {NoCall}]
    /\ tail \in Calls \cup {NoCall}
    /\ attempts \in [Calls -> 0 .. MAX_RETRY]
    /\ forced \in [Calls -> BOOLEAN]
    /\ pool \subseteq Tx
    /\ executed \subseteq Tx
    /\ ticket \in [Calls -> Nat]
    /\ arrived \in Nat
-----------------------------------------------------------------------------
Init ==
    /\ now = 0
    /\ late = FALSE
    /\ tasks = [a \in Actions |-> NoTask]
    /\ pc = [c \in Calls |-> "idle"]
    /\ request = [c \in Calls |-> NoCall]
    /\ start = [c \in Calls |-> NoTask]
    /\ after = [c \in Calls |-> NoCall]
    /\ tail = NoCall
    /\ attempts = [c \in Calls |-> 0]
    /\ forced = [c \in Calls |-> FALSE]
    /\ pool = {}
    /\ executed = {}
    /\ ticket = [c \in Calls |-> 0]
    /\ arrived = 0

Goto(c, l) == pc' = [pc EXCEPT ![c] = l]

\* Mutant of Enqueue: the first promise is kept as the lock.
EnqueueStale(c) ==
    /\ Goto(c, "queued")
    /\ after' = [after EXCEPT ![c] = tail]
    /\ tail' = IF tail = NoCall THEN c ELSE tail
    /\ arrived' = arrived + 1
    /\ ticket' = [ticket EXCEPT ![c] = arrived + 1]

\* mutexPromise: the call is chained to the last promise and becomes it.
Enqueue(c) ==
    /\ Goto(c, "queued")
    /\ after' = [after EXCEPT ![c] = tail]
    /\ tail' = c
    /\ arrived' = arrived + 1
    /\ ticket' = [ticket EXCEPT ![c] = arrived + 1]
-----------------------------------------------------------------------------
(* The gas gate.                                                           *)

\* Without a limit, and for a transaction that cannot wait, the call goes to
\* the mutex at once.  A postponed one first looks for its task.
Send(c, r) ==
    /\ pc[c] = "idle"
    /\ request' = [request EXCEPT ![c] = r]
    /\ IF ~GasLimited \/ r.type = "go"
       THEN Enqueue(c)
       ELSE /\ Goto(c, IF r.type = "check" THEN "estimate" ELSE "lookup")
            /\ UNCHANGED mutexVars
    /\ UNCHANGED <<now, late, attempts, tasks, start, forced, chainVars>>

\* getOverrides and gasFun: the fee is below the limit or it is not.
Estimate(c) ==
    /\ pc[c] = "estimate"
    /\ \/ Goto(c, "complete")
       \/ Goto(c, IF request[c].type = "check" THEN "lookup" ELSE "judge")
    /\ UNCHANGED <<now, late, attempts, gateVars, mutexVars, chainVars>>

\* A key is gone once its TTL has run out.
Key(a) == IF tasks[a] = NoTask THEN NoTask
          ELSE IF now < tasks[a].until THEN tasks[a].start ELSE NoTask

\* getTaskStartTime: an expensive action that is not registered yet will be;
\* a postponed one that nobody registered returns as if it had been sent.
Lookup(c) ==
    /\ pc[c] = "lookup"
    /\ IF Key(request[c].action) = NoTask
       THEN /\ Goto(c, IF request[c].type = "check" THEN "register" ELSE "skipped")
            /\ start' = [start EXCEPT ![c] = now]
       ELSE /\ Goto(c, IF request[c].type = "check" THEN "judge" ELSE "estimate")
            /\ start' = [start EXCEPT ![c] = Key(request[c].action)]
    /\ UNCHANGED <<now, late, attempts, tasks, request, forced, mutexVars, chainVars>>

\* Too expensive: deferred until bypassTime has passed, forced afterwards.
Judge(c) ==
    /\ pc[c] = "judge"
    /\ IF now - start[c] < Bypass
       THEN Goto(c, "deferred") /\ UNCHANGED forced
       ELSE Goto(c, "complete") /\ forced' = [forced EXCEPT ![c] = TRUE]
    /\ UNCHANGED <<now, late, attempts, tasks, request, start, mutexVars, chainVars>>

\* Mutant of Register: the key outlives bypassTime.
RegisterLonger(c) ==
    /\ pc[c] = "register"
    /\ tasks' = [tasks EXCEPT ![request[c].action] =
                    [start |-> start[c], until |-> now + Bypass + 1]]
    /\ Goto(c, "deferred")
    /\ UNCHANGED <<now, late, attempts, request, start, forced, mutexVars, chainVars>>

\* registerTask: the key lives exactly as long as bypassTime.
Register(c) ==
    /\ pc[c] = "register"
    /\ tasks' = [tasks EXCEPT ![request[c].action] =
                    [start |-> start[c], until |-> now + Bypass]]
    /\ Goto(c, "deferred")
    /\ UNCHANGED <<now, late, attempts, request, start, forced, mutexVars, chainVars>>

\* completeTask, and on to the mutex.
Complete(c) ==
    /\ pc[c] = "complete"
    /\ tasks' = [tasks EXCEPT ![request[c].action] = NoTask]
    /\ Enqueue(c)
    /\ UNCHANGED <<now, late, attempts, request, start, forced, chainVars>>

\* Redis or the RPC endpoint failed: the call throws before it is queued.
Throw(c) ==
    /\ pc[c] \in Gate
    /\ Goto(c, "deferred")
    /\ UNCHANGED <<now, late, attempts, gateVars, mutexVars, chainVars>>
-----------------------------------------------------------------------------
(* The mutex and _sendTransaction.                                         *)

\* then(runOrigin, runOrigin): the predecessor has settled either way.
Run(c) ==
    /\ pc[c] = "queued"
    /\ after[c] # NoCall => pc[after[c]] \in Settled
    /\ Goto(c, "prepare")
    /\ UNCHANGED <<now, late, attempts, gateVars, mutexVars, chainVars>>

\* txFun: the transaction enters the pool.
Submit(c) ==
    /\ pc[c] = "prepare"
    /\ pool' = pool \cup {<<c, attempts[c]>>}
    /\ Goto(c, "wait")
    /\ UNCHANGED <<now, late, attempts, executed, gateVars, mutexVars>>

\* Mutant of Retry: the attempts are not counted.
RetryForever(c) ==
    /\ Goto(c, "prepare")
    /\ UNCHANGED <<now, late, attempts, gateVars, mutexVars, chainVars>>

\* Whatever threw, the same transaction is sent again.
Retry(c) ==
    /\ IF attempts[c] < MAX_RETRY
       THEN /\ Goto(c, "prepare")
            /\ attempts' = [attempts EXCEPT ![c] = @ + 1]
       ELSE Goto(c, "failed") /\ UNCHANGED attempts
    /\ UNCHANGED <<now, late, gateVars, mutexVars, chainVars>>

\* The endpoint refused the transaction: nothing was submitted.
SubmitError(c) == pc[c] = "prepare" /\ Retry(c)

\* Mutant of Receipt: the call does not wait for the confirmations.
ReceiptUnconfirmed(c) ==
    /\ pc[c] = "wait"
    /\ Goto(c, "ok")
    /\ UNCHANGED <<now, late, attempts, gateVars, mutexVars, chainVars>>

\* tx.wait: the transaction was executed and confirmed.
Receipt(c) ==
    /\ pc[c] = "wait"
    /\ <<c, attempts[c]>> \in executed
    /\ Goto(c, "ok")
    /\ UNCHANGED <<now, late, attempts, gateVars, mutexVars, chainVars>>

\* tx.wait throws because the transaction reverted or was dropped.
Reverted(c) ==
    /\ pc[c] = "wait"
    /\ <<c, attempts[c]>> \notin pool \cup executed
    /\ Retry(c)

\* tx.wait throws although the transaction is pending or executed.
LostReceipt(c) ==
    /\ pc[c] = "wait"
    /\ <<c, attempts[c]>> \in pool \cup executed
    /\ Retry(c)
-----------------------------------------------------------------------------
(* The chain and the clock.                                                *)

Mine(tx) ==
    /\ tx \in pool
    /\ pool' = pool \ {tx}
    /\ executed' \in {executed, executed \cup {tx}}
    /\ UNCHANGED <<now, late, pc, attempts, gateVars, mutexVars>>

\* A call that holds a start time, its own or one it has read.
Timed(c) ==
    \/ pc[c] \in {"judge", "register"}
    \/ pc[c] = "estimate" /\ request[c].type # "check"

Tick ==
    /\ now < MaxTime
    /\ now' = now + 1
    /\ late' = (late \/ \E c \in Calls : Timed(c))
    /\ UNCHANGED <<pc, attempts, gateVars, mutexVars, chainVars>>

GateStep(c) ==
    Estimate(c) \/ Lookup(c) \/ Judge(c) \/ Register(c) \/ Complete(c) \/ Throw(c)

Process(c) ==
    Submit(c) \/ SubmitError(c) \/ Receipt(c) \/ Reverted(c) \/ LostReceipt(c)

\* All calls have returned, and nobody makes another.
Finished ==
    /\ \A c \in Calls : pc[c] \in Returned
    /\ pool = {} /\ now = MaxTime
    /\ UNCHANGED senderVars

Next ==
    \/ \E c \in Calls, r \in Request : Send(c, r)
    \/ \E c \in Calls : GateStep(c) \/ Run(c) \/ Process(c)
    \/ \E tx \in pool : Mine(tx)
    \/ Tick
    \/ Finished

Spec == Init /\ [][Next]_senderVars

\* Promises settle: every await of the gate and every submission returns or
\* throws, a promise runs once its predecessor has settled, the chain decides
\* every transaction and wait notices it.  A receipt need not be lost.
FairSpec ==
    /\ Spec
    /\ \A c \in Calls :
          /\ WF_senderVars(GateStep(c))
          /\ WF_senderVars(Run(c))
          /\ WF_senderVars(Submit(c) \/ SubmitError(c))
          /\ WF_senderVars(Receipt(c) \/ Reverted(c))
          /\ \A n \in 0 .. MAX_RETRY : WF_senderVars(Mine(<<c, n>>))
-----------------------------------------------------------------------------
(* Properties.                                                             *)

\* Transactions never overlap: at most one call is between taking a nonce and
\* knowing its outcome, although calls chain themselves to promises that may
\* have settled, failed or not yet begun (promise.ts 9-18).
OneAtATime ==
    \A c, d \in Calls : pc[c] \in Running /\ pc[d] \in Running => c = d

\* The transaction's sender no longer waits for its outcome.
GivenUp(tx) == tx[2] < attempts[tx[1]] \/ pc[tx[1]] = "failed"

\* A transaction takes its nonce only when every one sent before it is decided,
\* unless a receipt was given up: whoever is next in the mutex, or tries once
\* more, is never behind a transaction that somebody still waits for, although
\* promises are chained to calls that failed, settled or have not begun, and
\* the chain may decide long after it was asked (contract.service.ts 281-300,
\* promise.ts 9-18).
PendingWasGivenUp ==
    \A c \in Calls : pc[c] = "prepare" => \A tx \in pool : GivenUp(tx)

\* A call that gave up on receipts may have been executed several times, but
\* never more often than it was allowed to send, and a call that was turned
\* away at the gate never (contract.service.ts 281-299).
ExecutionsBounded ==
    \A tx \in pool \cup executed :
        tx[2] <= MAX_RETRY /\ pc[tx[1]] \in Running \cup Settled

\* The limit is hardly ever passed: a task expires when bypassTime has passed
\* since it was registered, so that the branch "Force complete tx task" is
\* taken only if time passed while some call held a start time it had read or
\* was about to write (contract.service.ts 238-243, 261-265, 304).
ForcedOnlyLate == (\E c \in Calls : forced[c]) => late

\* Every call returns, also behind a transaction that failed
\* (contract.service.ts 215-301, promise.ts 14-17).
EveryCallReturns ==
    \A c \in Calls : pc[c] # "idle" ~> pc[c] \in Returned
-----------------------------------------------------------------------------
(* The sender implements the abstract queue.                               *)

Stage(c) == CASE pc[c] = "queued" -> "waiting"
              [] pc[c] \in Running -> "active"
              [] pc[c] \in Settled -> "done"
              [] OTHER -> "out"

Queue == INSTANCE TxQueue WITH stage <- [c \in Calls |-> Stage(c)]

\* The promises chained by mutexPromise are a queue: one transaction at a
\* time, in order of arrival (promise.ts 6-21).
QueueSpec == Queue!Spec
=============================================================================
