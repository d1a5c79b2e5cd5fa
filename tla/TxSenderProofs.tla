--------------------------- MODULE TxSenderProofs ---------------------------
(* Proofs about TxSender, for any number of calls, actions and retries.    *)
EXTENDS TxSender, TLAPS

\* What a call knows at the gate.
GateOK ==
    \A c \in Calls :
        /\ pc[c] # "idle" => request[c] \in Request
        /\ pc[c] \in Gate \cup Turned => GasLimited /\ request[c].type # "go"
        /\ pc[c] = "skipped" => request[c].type = "postponed"
        /\ pc[c] \in {"judge", "register"} => start[c] \in Nat
        /\ pc[c] = "estimate" /\ request[c].type # "check" => start[c] \in Nat

\* The promises form a chain: tickets number it, each promise follows the one
\* with the ticket before its own, and whatever comes before a promise that
\* has begun has settled.
ChainOK ==
    /\ \A c \in Calls : IF pc[c] \in Entered THEN ticket[c] \in 1 .. arrived
                                             ELSE ticket[c] = 0
    /\ \A c, d \in Calls : ticket[c] = ticket[d] /\ ticket[c] # 0 => c = d
    /\ IF arrived = 0 THEN tail = NoCall
                      ELSE tail \in Calls /\ ticket[tail] = arrived
    /\ \A c \in Calls :
          /\ ticket[c] = 1 => after[c] = NoCall
          /\ ticket[c] > 1 => after[c] \in Calls /\ ticket[after[c]] = ticket[c] - 1
    /\ \A c, d \in Calls :
          /\ pc[c] \in Running \cup Settled
          /\ ticket[d] # 0 /\ ticket[d] < ticket[c]
          => pc[d] \in Settled

\* What the chain has seen of a call, and what its outcome says.
OutcomeOK ==
    /\ \A tx \in pool \cup executed :
          pc[tx[1]] \in Running \cup Settled /\ tx[2] <= attempts[tx[1]]
    /\ pool \cap executed = {}
    /\ \A c \in Calls :
          /\ pc[c] = "prepare" =>
                \A tx \in pool \cup executed : tx[1] = c => tx[2] < attempts[c]
          /\ pc[c] = "ok" => <<c, attempts[c]>> \in executed
          /\ pc[c] = "failed" => attempts[c] = MAX_RETRY

\* As long as no time has passed while a call held a start time: a task was
\* registered in the tick of its start, so that its key is gone once bypassTime
\* is over, and whoever holds a start time holds one that is recent enough.
LateOK ==
    ~late =>
        /\ \A c \in Calls : ~forced[c]
        /\ \A c \in Calls : Timed(c) => start[c] <= now /\ now < start[c] + Bypass
        /\ \A c \in Calls : pc[c] = "register" => start[c] = now
        /\ \A a \in Actions : tasks[a] # NoTask =>
              /\ tasks[a].start <= now
              /\ tasks[a].until <= tasks[a].start + Bypass

IInv == TypeOK /\ GateOK /\ ChainOK /\ OutcomeOK /\ LateOK
-----------------------------------------------------------------------------
(* What a step does to a call, as far as the mutex and the chain see it.   *)

\* Before the mutex: from one stage of the gate to another.
Outside(c) ==
    /\ pc[c] \in {"idle"} \cup Gate
    /\ \E l \in Gate \cup Turned : Goto(c, l)
    /\ UNCHANGED <<attempts, mutexVars, chainVars>>

Joins(c) ==
    /\ pc[c] \in {"idle"} \cup Gate
    /\ Enqueue(c)
    /\ UNCHANGED <<attempts, chainVars>>

\* Inside the mutex: a call that is running goes on or settles.
Inside(c) ==
    /\ pc[c] \in Running
    /\ \E l \in Running \cup Settled : Goto(c, l)
    /\ UNCHANGED mutexVars

LEMMA GateMoves ==
    ASSUME TypeOK, NEW c \in Calls, GateStep(c) \/ \E r \in Request : Send(c, r)
    PROVE  Outside(c) \/ Joins(c)
<1>1. ASSUME NEW r \in Request, Send(c, r)
      PROVE  Outside(c) \/ Joins(c)
  BY <1>1 DEF Send, Outside, Joins, Gate, Goto
<1>2. CASE Complete(c)
  BY <1>2 DEF Complete, Joins, Gate
<1>3. CASE Estimate(c)
  BY <1>3 DEF Estimate, Outside, Gate, gateVars
<1>4. CASE Lookup(c)
  BY <1>4 DEF Lookup, Outside, Gate, Turned, gateVars
<1>5. CASE Judge(c)
  BY <1>5 DEF Judge, Outside, Gate, Turned, gateVars
<1>6. CASE Register(c)
  BY <1>6 DEF Register, Outside, Gate, Turned, gateVars
<1>7. CASE Throw(c)
  BY <1>7 DEF Throw, Outside, Gate, Turned, gateVars
<1> QED
  BY <1>1, <1>2, <1>3, <1>4, <1>5, <1>6, <1>7 DEF GateStep

LEMMA ProcessMoves ==
    ASSUME NEW c \in Calls, Process(c)
    PROVE  Inside(c)
<1>1. CASE Submit(c)
  BY <1>1 DEF Submit, Inside, Running
<1>2. CASE Receipt(c)
  BY <1>2 DEF Receipt, Inside, Running, Settled
<1>3. CASE SubmitError(c) \/ Reverted(c) \/ LostReceipt(c)
  BY <1>3 DEF SubmitError, Reverted, LostReceipt, Retry, Inside, Running, Settled
<1> QED
  BY <1>1, <1>2, <1>3 DEF Process

LEMMA Moves ==
    ASSUME TypeOK, [Next]_senderVars
    PROVE  \/ \E c \in Calls : Outside(c) \/ Joins(c) \/ Run(c) \/ Inside(c)
           \/ UNCHANGED <<pc, mutexVars>>
  BY GateMoves, ProcessMoves DEF Next, Mine, Tick, Finished, senderVars
-----------------------------------------------------------------------------
(* Type correctness.                                                       *)

LEMMA InitOK == Init => IInv
<1> SUFFICES ASSUME Init PROVE IInv
  OBVIOUS
<1>1. TypeOK
  <2>1. /\ late \in BOOLEAN
        /\ forced \in [Calls -> BOOLEAN]
    BY Zenon DEF Init
  <2>2. /\ attempts \in [Calls -> 0 .. MAX_RETRY]
        /\ now \in Nat /\ arrived \in Nat /\ ticket \in [Calls -> Nat]
        /\ tasks \in [Actions -> Task \cup {NoTask}]
    BY SenderAssumption DEF Init
  <2>3. /\ pc \in [Calls -> {"idle", "queued"} \cup Gate \cup Running \cup Returned]
        /\ request \in [Calls -> Request \cup {NoCall}]
        /\ start \in [Calls -> Nat \cup {NoTask}]
        /\ after \in [Calls -> Calls \cup {NoCall}]
        /\ tail \in Calls \cup {NoCall}
        /\ pool \subseteq Tx /\ executed \subseteq Tx
    BY DEF Init
  <2> QED
    BY <2>1, <2>2, <2>3 DEF TypeOK
<1>2. GateOK /\ OutcomeOK
  BY DEF Init, GateOK, OutcomeOK, Gate, Turned
<1>3. ChainOK
  BY DEF Init, ChainOK, Entered, Running, Settled
<1>4. LateOK
  BY DEF Init, LateOK, Timed
<1> QED
  BY <1>1, <1>2, <1>3, <1>4 DEF IInv

LEMMA KeyType ==
    ASSUME TypeOK, NEW a \in Actions
    PROVE  Key(a) \in Nat \cup {NoTask}
  BY DEF TypeOK, Key, Task

LEMMA PcType ==
    ASSUME TypeOK, NEW c \in Calls,
           NEW l \in {"idle", "queued"} \cup Gate \cup Running \cup Returned, Goto(c, l)
    PROVE  pc' \in [Calls -> {"idle", "queued"} \cup Gate \cup Running \cup Returned]
  BY DEF TypeOK, Goto

LEMMA EnqueueType ==
    ASSUME TypeOK, NEW c \in Calls, Enqueue(c)
    PROVE  /\ pc' \in [Calls -> {"idle", "queued"} \cup Gate \cup Running \cup Returned]
           /\ after' \in [Calls -> Calls \cup {NoCall}]
           /\ tail' \in Calls \cup {NoCall}
           /\ ticket' \in [Calls -> Nat]
           /\ arrived' \in Nat
  BY DEF TypeOK, Enqueue, Goto

\* The gate's variables stay well typed, and a call that waits at the gate
\* keeps what it needs to go on.
LEMMA GateStepOK ==
    ASSUME TypeOK, GateOK, NEW c \in Calls,
           GateStep(c) \/ \E r \in Request : Send(c, r)
    PROVE  TypeOK' /\ GateOK'
<1>1. ASSUME NEW r \in Request, Send(c, r)
      PROVE  TypeOK' /\ GateOK'
  <2>1. r.type \in Types /\ r.type \in {"go", "check", "postponed"}
    BY SenderAssumption DEF Request
  <2>2. CASE Enqueue(c)
    BY <1>1, <2>2, EnqueueType
       DEF Send, TypeOK, GateOK, Enqueue, Goto, chainVars, Gate, Turned
  <2>3. CASE ~Enqueue(c)
    BY <1>1, <2>1, <2>3, SenderAssumption
       DEF Send, TypeOK, GateOK, Goto, chainVars, mutexVars, Gate, Turned
  <2> QED
    BY <2>2, <2>3
<1>2. CASE Complete(c)
  <2>1. TypeOK'
    BY <1>2, EnqueueType DEF Complete, TypeOK, chainVars
  <2>2. GateOK'
    BY <1>2 DEF Complete, Enqueue, GateOK, TypeOK, Goto, Gate, Turned
  <2> QED
    BY <2>1, <2>2
<1>3. CASE Estimate(c) \/ Throw(c)
  BY <1>3 DEF Estimate, Throw, Goto, TypeOK, GateOK, gateVars, mutexVars, chainVars,
              Gate, Turned, Returned
<1>4. CASE Lookup(c)
  <2>1. /\ request[c] \in Request
        /\ request[c].action \in Actions
        /\ request[c].type \in {"check", "postponed"}
        /\ GasLimited
    BY <1>4, SenderAssumption DEF Lookup, GateOK, Gate, Request
  <2>2. Key(request[c].action) \in Nat \cup {NoTask}
    BY <2>1, KeyType
  <2> QED
    BY <1>4, <2>1, <2>2, SenderAssumption
       DEF Lookup, Goto, TypeOK, GateOK, mutexVars, chainVars, Gate, Turned, Returned
<1>5. CASE Judge(c)
  BY <1>5 DEF Judge, Goto, TypeOK, GateOK, mutexVars, chainVars, Gate, Turned, Returned
<1>6. CASE Register(c)
  <2>1. start[c] \in Nat /\ now + Bypass \in Nat
    BY <1>6, SenderAssumption DEF Register, GateOK, TypeOK
  <2>2. [start |-> start[c], until |-> now + Bypass] \in Task
    BY <2>1 DEF Task
  <2>3. tasks' \in [Actions -> Task \cup {NoTask}]
    BY <1>6, <2>2 DEF Register, TypeOK
  <2> QED
    BY <1>6, <2>3 DEF Register, Goto, TypeOK, GateOK, mutexVars, chainVars, Gate,
                      Turned, Returned
<1> QED
  BY <1>1, <1>2, <1>3, <1>4, <1>5, <1>6 DEF GateStep

LEMMA RunOK ==
    ASSUME TypeOK, GateOK, NEW c \in Calls, Run(c) \/ Process(c)
    PROVE  TypeOK' /\ GateOK'
<1>1. ASSUME NEW l \in Running \cup Settled, Goto(c, l), UNCHANGED <<gateVars, mutexVars>>,
             pc[c] # "idle"
      PROVE  /\ pc' \in [Calls -> {"idle", "queued"} \cup Gate \cup Running \cup Returned]
             /\ GateOK'
  BY <1>1 DEF Goto, TypeOK, GateOK, gateVars, Running, Settled, Gate, Turned, Returned
<1>2. CASE Run(c)
  BY <1>1, <1>2 DEF Run, TypeOK, Running, gateVars, mutexVars, chainVars
<1>3. CASE Submit(c)
  <2>1. pool' \subseteq Tx
    BY <1>3 DEF Submit, TypeOK, Tx
  <2> QED
    BY <1>1, <1>3, <2>1 DEF Submit, TypeOK, Running, gateVars, mutexVars
<1>4. CASE Receipt(c)
  BY <1>1, <1>4 DEF Receipt, TypeOK, Settled, gateVars, mutexVars, chainVars
<1>5. CASE SubmitError(c) \/ Reverted(c) \/ LostReceipt(c)
  <2>1. Retry(c) /\ pc[c] # "idle"
    BY <1>5 DEF SubmitError, Reverted, LostReceipt
  <2>2. attempts' \in [Calls -> 0 .. MAX_RETRY]
    BY <2>1, SenderAssumption DEF Retry, TypeOK
  <2> QED
    BY <1>1, <2>1, <2>2 DEF Retry, TypeOK, Running, Settled, gateVars, mutexVars, chainVars
<1> QED
  BY <1>2, <1>3, <1>4, <1>5 DEF Process

LEMMA TypeStep ==
    ASSUME TypeOK, GateOK, [Next]_senderVars
    PROVE  TypeOK' /\ GateOK'
<1>1. ASSUME NEW tx \in pool, Mine(tx)
      PROVE  TypeOK' /\ GateOK'
  BY <1>1 DEF Mine, TypeOK, GateOK, gateVars, mutexVars
<1>2. CASE Tick
  BY <1>2 DEF Tick, TypeOK, GateOK, gateVars, mutexVars, chainVars
<1>3. CASE UNCHANGED senderVars
  BY <1>3 DEF senderVars, TypeOK, GateOK, gateVars, mutexVars, chainVars
<1> QED
  BY <1>1, <1>2, <1>3, GateStepOK, RunOK DEF Next, Finished
-----------------------------------------------------------------------------
(* The chain of promises.                                                  *)

LEMMA ChainStep ==
    ASSUME TypeOK, ChainOK, [Next]_senderVars
    PROVE  ChainOK'
<1>1. ASSUME NEW c \in Calls, Outside(c)
      PROVE  ChainOK'
  BY <1>1 DEF Outside, Goto, TypeOK, ChainOK, mutexVars, Entered, Gate, Turned,
              Running, Settled
<1>2. ASSUME NEW c \in Calls, Joins(c)
      PROVE  ChainOK'
  <2>1. ticket[c] = 0 /\ pc[c] \notin Entered
    BY <1>2 DEF Joins, ChainOK, TypeOK, Entered, Gate, Running, Settled
  <2>2. /\ arrived \in Nat /\ arrived' = arrived + 1
        /\ pc' = [pc EXCEPT ![c] = "queued"]
        /\ after' = [after EXCEPT ![c] = tail]
        /\ ticket' = [ticket EXCEPT ![c] = arrived + 1]
        /\ tail' = c
    BY <1>2 DEF Joins, Enqueue, Goto, TypeOK
  <2>3. \A d \in Calls : /\ d # c => /\ ticket'[d] = ticket[d] /\ pc'[d] = pc[d]
                                     /\ after'[d] = after[d]
                         /\ ticket[d] \in 0 .. arrived
    BY <2>1, <2>2 DEF ChainOK, TypeOK
  <2>4. /\ ticket'[c] = arrived + 1 /\ pc'[c] = "queued" /\ after'[c] = tail
    BY <2>2 DEF TypeOK
  <2>5. \A d \in Calls : IF pc'[d] \in Entered THEN ticket'[d] \in 1 .. arrived'
                                               ELSE ticket'[d] = 0
    BY <2>2, <2>3, <2>4 DEF ChainOK, Entered
  <2>6. \A d, e \in Calls : ticket'[d] = ticket'[e] /\ ticket'[d] # 0 => d = e
    BY <2>2, <2>3, <2>4 DEF ChainOK
  <2>7. IF arrived' = 0 THEN tail' = NoCall
                        ELSE tail' \in Calls /\ ticket'[tail'] = arrived'
    BY <2>2, <2>4
  <2>8. \A d \in Calls :
          /\ ticket'[d] = 1 => after'[d] = NoCall
          /\ ticket'[d] > 1 => after'[d] \in Calls /\ ticket'[after'[d]] = ticket'[d] - 1
    BY <2>1, <2>2, <2>3, <2>4 DEF ChainOK
  <2>9. \A d, e \in Calls :
          /\ pc'[d] \in Running \cup Settled
          /\ ticket'[e] # 0 /\ ticket'[e] < ticket'[d]
          => pc'[e] \in Settled
    BY <2>1, <2>2, <2>3, <2>4 DEF ChainOK, Running, Settled
  <2> QED
    BY <2>5, <2>6, <2>7, <2>8, <2>9 DEF ChainOK
<1>3. ASSUME NEW c \in Calls, Run(c)
      PROVE  ChainOK'
  <2>1. /\ pc[c] = "queued" /\ pc' = [pc EXCEPT ![c] = "prepare"]
        /\ UNCHANGED mutexVars
        /\ after[c] # NoCall => pc[after[c]] \in Settled
    BY <1>3 DEF Run, Goto
  <2>2. ticket[c] \in 1 .. arrived
    BY <2>1 DEF ChainOK, Entered
  <2>3. ASSUME NEW d \in Calls, ticket[d] # 0, ticket[d] < ticket[c]
        PROVE  pc[d] \in Settled
    <3>1. ticket[c] > 1 /\ ticket[d] \in Nat
      BY <2>2, <2>3 DEF TypeOK
    <3>2. /\ after[c] \in Calls /\ ticket[after[c]] = ticket[c] - 1
          /\ pc[after[c]] \in Settled
      BY <2>1, <3>1, SenderAssumption DEF ChainOK
    <3>3. CASE ticket[d] = ticket[c] - 1
      BY <2>3, <3>2, <3>3 DEF ChainOK
    <3>4. CASE ticket[d] < ticket[after[c]]
      BY <2>3, <3>2, <3>4 DEF ChainOK
    <3> QED
      BY <2>2, <2>3, <3>1, <3>2, <3>3, <3>4 DEF TypeOK
  <2> QED
    BY <2>1, <2>2, <2>3 DEF ChainOK, TypeOK, mutexVars, Entered, Running, Settled
<1>4. ASSUME NEW c \in Calls, Inside(c)
      PROVE  ChainOK'
  BY <1>4 DEF Inside, Goto, TypeOK, ChainOK, mutexVars, Entered, Running, Settled
<1>5. CASE UNCHANGED <<pc, mutexVars>>
  BY <1>5 DEF ChainOK, mutexVars
<1> QED
  BY <1>1, <1>2, <1>3, <1>4, <1>5, Moves
-----------------------------------------------------------------------------
(* What is executed.                                                       *)

LEMMA OutcomeStep ==
    ASSUME TypeOK, OutcomeOK, [Next]_senderVars
    PROVE  OutcomeOK'
<1>1. ASSUME NEW c \in Calls, Outside(c) \/ Joins(c)
      PROVE  OutcomeOK'
  <2>1. /\ pc[c] \in {"idle"} \cup Gate
        /\ UNCHANGED <<attempts, pool, executed>>
        /\ \E l \in {"queued"} \cup Gate \cup Turned : pc' = [pc EXCEPT ![c] = l]
    BY <1>1 DEF Outside, Joins, Enqueue, Goto, chainVars
  <2> QED
    BY <2>1 DEF OutcomeOK, TypeOK, Tx, Gate, Turned, Running, Settled
<1>2. ASSUME NEW c \in Calls, Run(c)
      PROVE  OutcomeOK'
  BY <1>2 DEF Run, Goto, OutcomeOK, TypeOK, Tx, chainVars, Running, Settled
<1>3. ASSUME NEW c \in Calls, Submit(c)
      PROVE  OutcomeOK'
  BY <1>3 DEF Submit, Goto, OutcomeOK, TypeOK, Tx, Running, Settled
<1>4. ASSUME NEW c \in Calls, Receipt(c)
      PROVE  OutcomeOK'
  BY <1>4 DEF Receipt, Goto, OutcomeOK, TypeOK, Tx, chainVars, Running, Settled
<1>5. ASSUME NEW c \in Calls, SubmitError(c) \/ Reverted(c) \/ LostReceipt(c)
      PROVE  OutcomeOK'
  <2>1. Retry(c) /\ pc[c] \in Running
    BY <1>5 DEF SubmitError, Reverted, LostReceipt, Running
  <2>2. CASE attempts[c] < MAX_RETRY
    BY <2>1, <2>2 DEF Retry, Goto, OutcomeOK, TypeOK, Tx, chainVars, Running, Settled
  <2>3. CASE ~(attempts[c] < MAX_RETRY)
    <3>1. attempts[c] = MAX_RETRY
      BY <2>3, SenderAssumption DEF TypeOK
    <3> QED
      BY <2>1, <2>3, <3>1
         DEF Retry, Goto, OutcomeOK, TypeOK, Tx, chainVars, Running, Settled
  <2> QED
    BY <2>2, <2>3
<1>6. ASSUME NEW tx \in pool, Mine(tx)
      PROVE  OutcomeOK'
  BY <1>6 DEF Mine, OutcomeOK
<1>7. CASE UNCHANGED <<pc, attempts, chainVars>>
  BY <1>7 DEF OutcomeOK, chainVars
<1> QED
  BY <1>1, <1>2, <1>3, <1>4, <1>5, <1>6, <1>7, GateMoves
     DEF Next, Process, Tick, Finished, senderVars
-----------------------------------------------------------------------------
(* The time of a start.                                                    *)

LEMMA LateStep ==
    ASSUME TypeOK, GateOK, LateOK, [Next]_senderVars
    PROVE  LateOK'
<1> SUFFICES ASSUME ~late' PROVE LateOK'
  BY DEF LateOK
<1>1. now \in Nat /\ Bypass \in Nat \ {0} /\ NoTask \notin Nat
  BY SenderAssumption DEF TypeOK
<1>2. ASSUME NEW c \in Calls, NEW r \in Request, Send(c, r)
      PROVE  LateOK'
  <2>1. UNCHANGED <<now, late, tasks, start, forced>>
    BY <1>2 DEF Send
  <2>2. /\ request' = [request EXCEPT ![c] = r]
        /\ \E l \in {"queued", "estimate", "lookup"} :
              /\ pc' = [pc EXCEPT ![c] = l]
              /\ l = "estimate" => r.type = "check"
    BY <1>2 DEF Send, Enqueue, Goto
  <2> QED
    BY <2>1, <2>2 DEF LateOK, TypeOK, Timed
<1>3. ASSUME NEW c \in Calls, Estimate(c)
      PROVE  LateOK'
  BY <1>3 DEF Estimate, Goto, gateVars, LateOK, TypeOK, Timed
<1>4. ASSUME NEW c \in Calls, Lookup(c)
      PROVE  LateOK'
  <2>1. /\ request[c] \in Request /\ request[c].action \in Actions
        /\ request[c].type \in {"check", "postponed"}
    BY <1>4, SenderAssumption DEF Lookup, GateOK, Gate, Request
  <2> DEFINE key == Key(request[c].action)
  <2>2. UNCHANGED <<now, late, tasks, request, forced>>
    BY <1>4 DEF Lookup
  <2>3. CASE key = NoTask
    <3>1. /\ start' = [start EXCEPT ![c] = now]
          /\ \E l \in {"register", "skipped"} : pc' = [pc EXCEPT ![c] = l]
      BY <1>4, <2>3 DEF Lookup, Goto
    <3> QED
      BY <1>1, <2>2, <3>1 DEF LateOK, TypeOK, Timed
  <2>4. CASE key # NoTask
    <3>1. /\ start' = [start EXCEPT ![c] = key]
          /\ \E l \in {"judge", "estimate"} : pc' = [pc EXCEPT ![c] = l]
      BY <1>4, <2>4 DEF Lookup, Goto
    <3>2. key \in Nat /\ key <= now /\ now < key + Bypass
      BY <1>1, <2>1, <2>2, <2>4 DEF LateOK, TypeOK, Key, Task
    <3> HIDE DEF key
    <3> QED
      BY <2>2, <3>1, <3>2 DEF LateOK, TypeOK, Timed
  <2> QED
    BY <2>3, <2>4
<1>5. ASSUME NEW c \in Calls, Judge(c)
      PROVE  LateOK'
  <2>1. UNCHANGED <<now, late, tasks, request, start>>
    BY <1>5 DEF Judge
  <2>2. start[c] \in Nat /\ start[c] <= now /\ now < start[c] + Bypass
    BY <1>5, <2>1 DEF Judge, GateOK, LateOK, Timed
  <2>3. now - start[c] < Bypass
    BY <1>1, <2>2
  <2>4. pc' = [pc EXCEPT ![c] = "deferred"] /\ UNCHANGED forced
    BY <1>5, <2>3 DEF Judge, Goto
  <2> QED
    BY <2>1, <2>4 DEF LateOK, TypeOK, Timed
<1>6. ASSUME NEW c \in Calls, Register(c)
      PROVE  LateOK'
  <2>1. /\ UNCHANGED <<now, late, request, start, forced>>
        /\ pc[c] = "register" /\ pc' = [pc EXCEPT ![c] = "deferred"]
        /\ tasks' = [tasks EXCEPT ![request[c].action] =
                        [start |-> start[c], until |-> now + Bypass]]
    BY <1>6 DEF Register, Goto
  <2>2. start[c] = now
    BY <2>1 DEF LateOK
  <2> QED
    BY <1>1, <2>1, <2>2 DEF LateOK, TypeOK, Timed
<1>7. ASSUME NEW c \in Calls, Complete(c)
      PROVE  LateOK'
  BY <1>7 DEF Complete, Enqueue, Goto, LateOK, TypeOK, Timed
<1>8. ASSUME NEW c \in Calls, Throw(c) \/ Run(c) \/ Process(c)
      PROVE  LateOK'
  <2>1. UNCHANGED <<now, late, gateVars>>
    BY <1>8 DEF Throw, Run, Process, Submit, SubmitError, Receipt, Reverted, LostReceipt,
                Retry
  <2>2. \E l \in {"deferred"} \cup Running \cup Settled : pc' = [pc EXCEPT ![c] = l]
    BY <1>8, ProcessMoves DEF Throw, Run, Inside, Goto, Running
  <2> QED
    BY <2>1, <2>2 DEF gateVars, LateOK, TypeOK, Timed, Running, Settled
<1>9. CASE Tick
  <2>1. /\ now' = now + 1 /\ UNCHANGED <<pc, gateVars>>
        /\ ~late /\ \A c \in Calls : ~Timed(c)
    BY <1>9 DEF Tick
  <2> QED
    BY <1>1, <2>1 DEF gateVars, LateOK, TypeOK, Timed, Task
<1>10. CASE UNCHANGED <<now, late, pc, gateVars>>
  BY <1>10 DEF gateVars, LateOK, Timed
<1> QED
  BY <1>2, <1>3, <1>4, <1>5, <1>6, <1>7, <1>8, <1>9, <1>10
     DEF Next, GateStep, Mine, Finished, senderVars
-----------------------------------------------------------------------------
(* The sender's state is well typed, and every call keeps what it needs at  *)
(* the gate (contract.service.ts 215-315).                                  *)
THEOREM Inductive == Spec => []IInv
<1>1. IInv /\ [Next]_senderVars => IInv'
  BY TypeStep, ChainStep, OutcomeStep, LateStep DEF IInv
<1> QED
  BY InitOK, <1>1, PTL DEF Spec

(* Every reachable state of the sender is well typed.                      *)
THEOREM TypeCorrect == Spec => []TypeOK
  BY Inductive, PTL DEF IInv

\* Of two calls that have both begun, the one with the earlier ticket has
\* settled.
LEMMA OneRuns ==
    ASSUME IInv
    PROVE  OneAtATime
<1> SUFFICES ASSUME NEW c \in Calls, NEW d \in Calls, pc[c] \in Running, pc[d] \in Running
             PROVE  c = d
  BY DEF OneAtATime
<1>1. ticket[c] \in Nat \ {0} /\ ticket[d] \in Nat \ {0}
  BY DEF IInv, TypeOK, ChainOK, Entered
<1>2. ~(ticket[c] < ticket[d]) /\ ~(ticket[d] < ticket[c])
  BY <1>1 DEF IInv, ChainOK, Running, Settled
<1>3. ticket[c] = ticket[d] /\ ticket[c] # 0
  BY <1>1, <1>2
<1> QED
  BY <1>3 DEF IInv, ChainOK

(* Transactions never overlap (promise.ts 9-18).                            *)
THEOREM MutexSafe == Spec => []OneAtATime
<1> QED
  BY Inductive, OneRuns, PTL

(* A transaction takes its nonce only when nobody waits for an undecided    *)
(* one any more (contract.service.ts 281-300, promise.ts 9-18): of another  *)
(* call that the chain has seen, the mutex says that it has settled, and    *)
(* one that succeeded has its last transaction executed.                    *)
THEOREM NonceSafe == Spec => []PendingWasGivenUp
<1>1. IInv => PendingWasGivenUp
  <2> SUFFICES ASSUME IInv, NEW c \in Calls, pc[c] = "prepare", NEW tx \in pool
               PROVE  GivenUp(tx)
    BY DEF PendingWasGivenUp
  <2> DEFINE d == tx[1]
  <2>1. /\ d \in Calls /\ tx[2] \in Nat /\ tx = <<d, tx[2]>> /\ attempts[d] \in Nat
        /\ pc[d] \in Running \cup Settled /\ tx[2] <= attempts[d]
    BY SenderAssumption DEF IInv, TypeOK, Tx, OutcomeOK
  <2>2. CASE d = c
    BY <2>2 DEF IInv, OutcomeOK, GivenUp
  <2>3. CASE d # c
    <3>1. OneAtATime
      BY OneRuns
    <3>2. pc[d] \in Settled
      BY <2>1, <2>3, <3>1 DEF OneAtATime, Running
    <3>3. CASE pc[d] = "ok"
      <4>1. <<d, attempts[d]>> \in executed
        BY <2>1, <3>3 DEF IInv, OutcomeOK
      <4>2. tx # <<d, attempts[d]>>
        BY <4>1 DEF IInv, OutcomeOK
      <4>3. tx[2] # attempts[d]
        BY <2>1, <4>2
      <4> QED
        BY <2>1, <4>3 DEF GivenUp
    <3> QED
      BY <3>2, <3>3 DEF Settled, GivenUp
  <2> QED
    BY <2>2, <2>3
<1> QED
  BY Inductive, <1>1, PTL

(* Whatever receipts are lost, a call's transaction is executed at most     *)
(* once per attempt, and never for a call that was turned away              *)
(* (contract.service.ts 281-299).                                           *)
THEOREM ExecutionSafe == Spec => []ExecutionsBounded
<1>1. IInv => ExecutionsBounded
  BY SenderAssumption DEF IInv, TypeOK, Tx, OutcomeOK, ExecutionsBounded
<1> QED
  BY Inductive, <1>1, PTL

(* A call is forced past the gate only if time passed between the reading   *)
(* of a start time and its use (contract.service.ts 238-243, 261-265).      *)
THEOREM ForcedSafe == Spec => []ForcedOnlyLate
<1>1. IInv => ForcedOnlyLate
  BY DEF IInv, LateOK, ForcedOnlyLate
<1> QED
  BY Inductive, <1>1, PTL
-----------------------------------------------------------------------------
(* The sender implements the abstract queue.                               *)

stages == [c \in Calls |-> Stage(c)]

LEMMA StageOf ==
    ASSUME NEW c \in Calls
    PROVE  /\ pc[c] \in {"idle"} \cup Gate \cup Turned => stages[c] = "out"
           /\ pc[c] = "queued" => stages[c] = "waiting"
           /\ pc[c] \in Running => stages[c] = "active"
           /\ pc[c] \in Settled => stages[c] = "done"
  BY DEF stages, Stage, Gate, Turned, Running, Settled

\* A step that sends one call to l moves one call of the queue.
LEMMA StageMove ==
    ASSUME TypeOK, NEW c \in Calls, NEW l, Goto(c, l)
    PROVE  /\ l \in Gate \cup Turned => stages' = [stages EXCEPT ![c] = "out"]
           /\ l = "queued" => stages' = [stages EXCEPT ![c] = "waiting"]
           /\ l \in Running => stages' = [stages EXCEPT ![c] = "active"]
           /\ l \in Settled => stages' = [stages EXCEPT ![c] = "done"]
  BY DEF TypeOK, Goto, stages, Stage, Gate, Turned, Running, Settled

LEMMA StageStep ==
    ASSUME TypeOK, ChainOK, [Next]_senderVars
    PROVE  \/ \E c \in Calls : Queue!Arrive(c) \/ Queue!Begin(c) \/ Queue!End(c)
           \/ UNCHANGED <<stages, ticket, arrived>>
<1>1. ASSUME NEW c \in Calls, Outside(c)
      PROVE  UNCHANGED <<stages, ticket, arrived>>
  <2>1. stages[c] = "out" /\ stages' = [stages EXCEPT ![c] = "out"]
    BY <1>1, StageOf, StageMove DEF Outside
  <2> QED
    BY <1>1, <2>1 DEF Outside, mutexVars, stages
<1>2. ASSUME NEW c \in Calls, Joins(c)
      PROVE  Queue!Arrive(c)
  BY <1>2, StageOf, StageMove DEF Joins, Enqueue, Queue!Arrive, stages
<1>3. ASSUME NEW c \in Calls, Run(c)
      PROVE  Queue!Begin(c)
  <2>1. /\ pc[c] = "queued" /\ Goto(c, "prepare") /\ UNCHANGED mutexVars
    BY <1>3 DEF Run
  <2>2. ChainOK'
    BY ChainStep
  <2>3. pc'[c] = "prepare" /\ ticket' = ticket
        /\ \A d \in Calls : d # c => pc'[d] = pc[d]
    BY <2>1 DEF Goto, TypeOK, mutexVars
  <2>4. ASSUME NEW d \in Calls, ticket[d] \in 1 .. (ticket[c] - 1)
        PROVE  stages[d] = "done"
    <3>1. ticket[d] # 0 /\ ticket[d] < ticket[c] /\ d # c
      BY <2>4 DEF TypeOK
    <3>2. pc'[d] \in Settled
      BY <2>2, <2>3, <3>1 DEF ChainOK, Running
    <3> QED
      BY <2>3, <3>1, <3>2, StageOf
  <2>5. stages[c] = "waiting" /\ stages' = [stages EXCEPT ![c] = "active"]
    BY <2>1, StageOf, StageMove DEF Running
  <2> QED
    BY <2>1, <2>4, <2>5 DEF Queue!Begin, mutexVars, stages
<1>4. ASSUME NEW c \in Calls, Inside(c)
      PROVE  Queue!End(c) \/ UNCHANGED <<stages, ticket, arrived>>
  <2>1. stages[c] = "active" /\ UNCHANGED mutexVars
    BY <1>4, StageOf DEF Inside
  <2>2. stages' \in {[stages EXCEPT ![c] = "active"], [stages EXCEPT ![c] = "done"]}
    BY <1>4, StageMove DEF Inside
  <2>3. [stages EXCEPT ![c] = "active"] = stages
    BY <2>1 DEF stages
  <2> QED
    BY <2>1, <2>2, <2>3 DEF Queue!End, mutexVars, stages
<1>5. ASSUME UNCHANGED <<pc, mutexVars>>
      PROVE  UNCHANGED <<stages, ticket, arrived>>
  BY <1>5 DEF stages, Stage, mutexVars
<1> QED
  BY <1>1, <1>2, <1>3, <1>4, <1>5, Moves

(* The chained promises implement the queue: every step of the sender is a  *)
(* step of TxQueue or changes nothing of it (promise.ts 6-21).              *)
THEOREM SenderIsQueue == Spec => QueueSpec
<1>1. Init => Queue!Init
  BY DEF Init, Queue!Init, Stage, Running, Settled
<1>2. IInv /\ [Next]_senderVars => [Queue!Next]_Queue!queueVars
  BY StageStep DEF IInv, Queue!Next, Queue!queueVars, stages
<1> QED
  BY Inductive, <1>1, <1>2, PTL DEF Spec, QueueSpec, Queue!Spec
=============================================================================
