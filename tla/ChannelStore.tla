---------------------------- MODULE ChannelStore ----------------------------
(***************************************************************************)
(* The coordinator's side of one pay-as-you-go state channel: the row of   *)
(* the Channel table and the service calls that load it, await the chain   *)
(* or the database, and save it back (indexer-coordinator/src/payg).       *)
(*                                                                         *)
(* A call loads the whole row.  Most calls save only the fields they name  *)
(* (lodash.pick); a synchronisation from the contract saves every field it *)
(* loaded.  Nothing is locked between load and save.  The contract and the *)
(* network's index of it are external: they accept what they can verify    *)
(* and change at any moment.  The pair of stored signatures is represented *)
(* by what it signs.                                                       *)
(***************************************************************************)
EXTENDS Naturals, FiniteSets

CONSTANTS
    Jobs,          \* service calls in progress
    Calls,         \* which calls are made of the service
    NoRow,         \* findOneBy found nothing
    NoSign,        \* lastIndexerSign = lastConsumerSign = ''
    Amounts,       \* amounts a consumer may sign
    Expiries,      \* values of expiredAt
    Prices,        \* prices of a query
    ExtendSigned,  \* whether extensions are signed; the proxy signs them all
    GasLimited,    \* whether the operator has set a gas fee limit
    MaxSpent,      \* bound: no update starts above it
    MaxTotal,      \* bound on the funds of the channel
    MaxEvents      \* bound on the events that are waiting

Status == {"OPEN", "TERMINATING", "FINALIZED"}
Sign == [spent: Nat, final: BOOLEAN]

\* agent, consumer, deploymentId, terminatedAt and terminateByIndexer are
\* copied and never decided on here; they are left out.
Row == [status: Status, total: Nat, spent: Nat, onchain: Nat, remote: Nat,
        price: Nat, expiredAt: Nat, lastFinal: BOOLEAN, sign: Sign \cup {NoSign}]

\* The channel in the contract.  A finalized channel is deleted there.
Contract == [status: Status, total: Nat, spent: Nat, expiredAt: Nat]

ASSUME StoreAssumption ==
    /\ Calls \subseteq {"update", "extend", "settle"}
    /\ NoRow \notin Row
    /\ NoSign \notin Sign
    /\ Amounts \subseteq Nat
    /\ Expiries \subseteq Nat
    /\ Prices \subseteq Nat \ {0}
    /\ ExtendSigned \subseteq BOOLEAN
    /\ GasLimited \in BOOLEAN
    /\ MaxTotal \in Nat

VARIABLES
    row,      \* the row of the channel, or NoRow
    jobs,     \* what each service call has loaded and is waiting for
    chain,    \* the channel in the contract
    network,  \* the channel as the network's indexer last saw it
    events,   \* contract events emitted and not yet handled
    signed    \* history: the states the consumer signed

storeVars == <<row, jobs, chain, network, events, signed>>

TxStage == {"sending", "sent"}
Change == {"fund", "extend", "checkpoint", "terminate", "finalize"}
Event == [kind: {"open"} \cup Change, at: Contract]

IdleJob == [op |-> "idle"]
Job ==
    [op: {"idle"}]
    \cup [op: {"update"}, snap: Row, state: Sign]
    \cup [op: {"extend"}, snap: Row, expiration: Nat, price: Nat, stage: TxStage]
    \cup [op: {"checkpoint", "terminate", "respond"}, snap: Row,
          postponed: BOOLEAN, stage: TxStage]
    \cup [op: {"event"}, snap: Row, event: [kind: Change, at: Contract]]
    \cup [op: {"sync"}, at: Contract]
    \cup [op: {"save"}, entity: Row, again: BOOLEAN]

TypeOK ==
    /\ row \in Row \cup {NoRow}
    /\ jobs \in [Jobs -> Job]
    /\ chain \in Contract
    /\ network \in Contract
    /\ events \subseteq Event
    /\ signed \subseteq Sign
-----------------------------------------------------------------------------
Opened(total, expiry) ==
    [status |-> "OPEN", total |-> total, spent |-> 0, expiredAt |-> expiry]

Init ==
    /\ row = NoRow
    /\ jobs = [j \in Jobs |-> IdleJob]
    /\ \E e \in Expiries : chain = Opened(1, e)
    /\ network = chain
    /\ events = {[kind |-> "open", at |-> chain]}
    /\ signed = {}

Start(j, job) == /\ jobs[j] = IdleJob
                 /\ jobs' = [jobs EXCEPT ![j] = job]
Continue(j, job) == jobs' = [jobs EXCEPT ![j] = job]
End(j) == jobs' = [jobs EXCEPT ![j] = IdleJob]

\* channelRepo.save of picked fields: an UPDATE of the row as it is now, and
\* an INSERT that the missing columns make fail when the row is gone.
SaveFields(updated) == row' = IF row = NoRow THEN NoRow ELSE updated

\* An event of the contract: what the handlers read from its arguments.
Emit(kind) == /\ Cardinality(events) < MaxEvents
              /\ events' = events \cup {[kind |-> kind, at |-> chain']}
-----------------------------------------------------------------------------
(* update: a channelUpdate mutation of the proxy.                          *)

UpdateLoad(j, state) ==
    /\ row # NoRow
    /\ row.spent < MaxSpent
    /\ Start(j, [op |-> "update", snap |-> row, state |-> state])
    /\ signed' = signed \cup {state}
    /\ UNCHANGED <<row, chain, network, events>>

\* Mutants of Pay: one of the picked fields is forgotten.
PayUnsigned(r, state) == [r EXCEPT !.remote = state.spent, !.lastFinal = state.final]
PayUnflagged(r, state) == [r EXCEPT !.remote = state.spent, !.sign = state]

\* What a state replaces in the row.
Pay(r, state) == [r EXCEPT !.remote = state.spent, !.lastFinal = state.final,
                           !.sign = state]

\* A price is added every time; a state that pays more than the loaded
\* `remote' replaces it together with its signatures and its final flag.
UpdateSave(j) ==
    LET job == jobs[j]
        paid == [row EXCEPT !.spent = job.snap.spent + job.snap.price]
    IN  /\ job.op = "update"
        /\ SaveFields(IF job.snap.remote < job.state.spent
                      THEN Pay(paid, job.state)
                      ELSE paid)
        /\ End(j)
        /\ UNCHANGED <<chain, network, events, signed>>
-----------------------------------------------------------------------------
(* extend: a channelExtend mutation; a price of 0 stands for no price.      *)

\* An extension without signatures is not sent to the contract at all.
ExtendLoad(j, expiration, price, both) ==
    /\ row # NoRow
    /\ row.status = "OPEN"
    /\ row.expiredAt < expiration \/ price # 0 \/ both
    /\ Start(j, [op |-> "extend", snap |-> row, expiration |-> expiration,
                 price |-> price, stage |-> IF both THEN "sending" ELSE "sent"])
    /\ UNCHANGED <<row, chain, network, events, signed>>

\* The contract extends from the expiry the transaction names only.
ExtendTx(j) ==
    LET job == jobs[j]
    IN  /\ job.op = "extend" /\ job.stage = "sending"
        /\ chain.status = "OPEN"
        /\ chain.expiredAt = job.snap.expiredAt
        /\ job.expiration > chain.expiredAt
        /\ chain' = [chain EXCEPT !.expiredAt = job.expiration]
        /\ Emit("extend")
        /\ Continue(j, [job EXCEPT !.stage = "sent"])
        /\ UNCHANGED <<row, network, signed>>

\* Mutant of ExtendSave: it does not wait for the transaction.
ExtendSaveEarly(j) ==
    LET job == jobs[j]
        priced == [row EXCEPT !.price = IF job.price = 0 THEN @ ELSE job.price]
    IN  /\ job.op = "extend"
        /\ SaveFields(IF job.snap.expiredAt < job.expiration
                      THEN [priced EXCEPT !.expiredAt = job.expiration]
                      ELSE priced)
        /\ End(j)
        /\ UNCHANGED <<chain, network, events, signed>>

ExtendSave(j) ==
    LET job == jobs[j]
        priced == [row EXCEPT !.price = IF job.price = 0 THEN @ ELSE job.price]
    IN  /\ job.op = "extend" /\ job.stage = "sent"
        /\ SaveFields(IF job.snap.expiredAt < job.expiration
                      THEN [priced EXCEPT !.expiredAt = job.expiration]
                      ELSE priced)
        /\ End(j)
        /\ UNCHANGED <<chain, network, events, signed>>
-----------------------------------------------------------------------------
(* checkpoint, terminate and respond: settle the signed amount on chain.    *)

CheckpointLoad(j, postponed) ==
    /\ row # NoRow
    /\ row.onchain # row.remote
    /\ Start(j, [op |-> "checkpoint", snap |-> row, postponed |-> postponed,
                 stage |-> "sending"])
    /\ UNCHANGED <<row, chain, network, events, signed>>

TerminateLoad(j) ==
    /\ row # NoRow
    /\ ~(row.remote > 0 /\ row.sign = NoSign)
    /\ Start(j, [op |-> "terminate", snap |-> row, postponed |-> FALSE,
                 stage |-> "sending"])
    /\ UNCHANGED <<row, chain, network, events, signed>>

RespondLoad(j) ==
    /\ row # NoRow
    /\ row.onchain # row.remote
    /\ Start(j, [op |-> "respond", snap |-> row, postponed |-> FALSE,
                 stage |-> "sending"])
    /\ UNCHANGED <<row, chain, network, events, signed>>

\* What the transaction claims: respond sends `spent', the others `remote'.
Claim(job) == IF job.op = "respond" THEN job.snap.spent ELSE job.snap.remote

\* The contract verifies both signatures on the amount and the final flag,
\* except for a termination that claims nothing; the amount never falls and
\* stays within the funds.
Verified(job) ==
    /\ \/ job.snap.sign = [spent |-> Claim(job), final |-> job.snap.lastFinal]
       \/ job.op = "terminate" /\ Claim(job) = 0
    /\ chain.spent <= Claim(job)
    /\ Claim(job) <= chain.total

SettleTx(j) ==
    LET job == jobs[j]
        next == IF job.op = "checkpoint" THEN {"OPEN"} ELSE {"TERMINATING"}
    IN  /\ job.op \in {"checkpoint", "terminate", "respond"}
        /\ job.stage = "sending"
        /\ chain.status = IF job.op = "respond" THEN "TERMINATING" ELSE "OPEN"
        /\ Verified(job)
        /\ \E s \in next \cup (IF job.snap.lastFinal THEN {"FINALIZED"} ELSE {}) :
              /\ chain' = [chain EXCEPT !.status = s, !.spent = Claim(job)]
              /\ Emit(IF s = "FINALIZED" THEN "finalize"
                      ELSE IF job.op = "terminate" THEN "terminate"
                      ELSE "checkpoint")
        /\ Continue(j, [job EXCEPT !.stage = "sent"])
        /\ UNCHANGED <<row, network, signed>>

\* Mutant of SkipTx: the transaction is skipped although no limit is set.
SkipTxAlways(j) ==
    LET job == jobs[j]
    IN  /\ job.op = "checkpoint" /\ job.stage = "sending" /\ job.postponed
        /\ Continue(j, [job EXCEPT !.stage = "sent"])
        /\ UNCHANGED <<row, chain, network, events, signed>>

\* sendTransaction of a postponed transaction that no earlier call has
\* registered returns without sending, and the caller goes on.
SkipTx(j) ==
    LET job == jobs[j]
    IN  /\ GasLimited
        /\ job.op = "checkpoint" /\ job.stage = "sending" /\ job.postponed
        /\ Continue(j, [job EXCEPT !.stage = "sent"])
        /\ UNCHANGED <<row, chain, network, events, signed>>

SettleSave(j) ==
    LET job == jobs[j]
        settled == [row EXCEPT !.onchain = Claim(job), !.spent = job.snap.remote]
    IN  /\ job.op \in {"checkpoint", "terminate", "respond"}
        /\ job.stage = "sent"
        /\ SaveFields(CASE job.op = "checkpoint" -> settled
                        [] job.op = "respond" -> [settled EXCEPT !.lastFinal = TRUE]
                        [] job.op = "terminate" ->
                              [settled EXCEPT !.lastFinal = TRUE,
                                              !.status = "TERMINATING"])
        /\ End(j)
        /\ UNCHANGED <<chain, network, events, signed>>
-----------------------------------------------------------------------------
(* The handlers of the contract's events.                                  *)

EventLoad(j, ev) ==
    /\ ev \in events
    /\ ev.kind \in Change
    /\ row # NoRow
    /\ Start(j, [op |-> "event", snap |-> row, event |-> ev])
    /\ events' = events \ {ev}
    /\ UNCHANGED <<row, chain, network, signed>>

EventSave(j) ==
    LET job == jobs[j]
        at == job.event.at
        kind == job.event.kind
    IN  /\ job.op = "event"
        /\ SaveFields(
             CASE kind = "fund" -> [row EXCEPT !.total = at.total]
               [] kind = "extend" ->
                     [row EXCEPT !.expiredAt = IF job.snap.expiredAt < at.expiredAt
                                               THEN at.expiredAt ELSE @]
               [] kind = "checkpoint" -> [row EXCEPT !.onchain = at.spent]
               [] kind \in {"terminate", "finalize"} ->
                     [row EXCEPT !.onchain = at.spent, !.lastFinal = TRUE,
                                 !.status = IF kind = "finalize" THEN "FINALIZED"
                                                                 ELSE "TERMINATING"])
        /\ End(j)
        /\ UNCHANGED <<chain, network, events, signed>>

\* No subscription survives a restart of the coordinator or a lost socket.
EventLost(ev) ==
    /\ ev \in events
    /\ events' = events \ {ev}
    /\ UNCHANGED <<row, jobs, chain, network, signed>>
-----------------------------------------------------------------------------
(* syncChannel, updateChannelFromContract and updateChannelFromNetwork.     *)

\* Mutant of Fresh: a column keeps the default of the table, ''.
FreshDefault(at) ==
    [status |-> at.status, total |-> at.total, spent |-> at.spent,
     onchain |-> at.spent, remote |-> 0, price |-> NoSign, expiredAt |-> 0,
     lastFinal |-> FALSE, sign |-> NoSign]

\* Mutant of Fresh: the funds count as paid.
FreshFunded(at) ==
    [status |-> at.status, total |-> at.total, spent |-> at.spent,
     onchain |-> at.spent, remote |-> at.total, price |-> 0, expiredAt |-> 0,
     lastFinal |-> FALSE, sign |-> NoSign]

Fresh(at) ==
    [status |-> at.status, total |-> at.total, spent |-> at.spent,
     onchain |-> at.spent, remote |-> 0, price |-> 0, expiredAt |-> 0,
     lastFinal |-> FALSE, sign |-> NoSign]

\* Mutant of FromContract: the funds are those the row was created with.
FromContractUnfunded(loaded, at, price) ==
    LET entity == IF loaded = NoRow THEN Fresh(at) ELSE loaded
    IN  [entity EXCEPT !.status = at.status, !.onchain = at.spent,
                       !.price = IF @ = 0 THEN price ELSE @,
                       !.expiredAt = IF @ < at.expiredAt THEN at.expiredAt ELSE @]

\* The entity to save: every field of the loaded row that the contract does
\* not decide is kept as it was loaded.
FromContract(loaded, at, price) ==
    LET entity == IF loaded = NoRow THEN Fresh(at) ELSE loaded
    IN  [entity EXCEPT !.status = at.status, !.total = at.total,
                       !.onchain = at.spent,
                       !.price = IF @ = 0 THEN price ELSE @,
                       !.expiredAt = IF @ < at.expiredAt THEN at.expiredAt ELSE @]

FromNetwork(loaded, at, price) ==
    [FromContract(IF loaded = NoRow THEN [Fresh(at) EXCEPT !.spent = 0] ELSE loaded,
                  at, price)
        EXCEPT !.status = "FINALIZED", !.lastFinal = TRUE]

\* The ChannelOpen event: the contract's state comes with the event.
OpenLoad(j, ev) ==
    /\ ev \in events
    /\ ev.kind = "open"
    /\ \E p \in Prices :
          Start(j, [op |-> "save", entity |-> FromContract(row, ev.at, p),
                    again |-> TRUE])
    /\ events' = events \ {ev}
    /\ UNCHANGED <<row, chain, network, signed>>

\* The periodic synchronisation, or a call that found no row.
SyncContract(j) ==
    /\ row # NoRow => (row.status # "FINALIZED" \/ network.status # "FINALIZED")
    /\ chain.status # "FINALIZED"
    /\ Start(j, [op |-> "sync", at |-> chain])
    /\ UNCHANGED <<row, chain, network, events, signed>>

SyncLoad(j) ==
    /\ jobs[j].op = "sync"
    /\ \E p \in Prices :
          Continue(j, [op |-> "save", entity |-> FromContract(row, jobs[j].at, p),
                       again |-> FALSE])
    /\ UNCHANGED <<row, chain, network, events, signed>>

\* The contract has deleted the channel: the network's record decides.
SyncNetwork(j) ==
    /\ row # NoRow => (row.status # "FINALIZED" \/ network.status # "FINALIZED")
    /\ chain.status = "FINALIZED"
    /\ \E p \in Prices :
          Start(j, [op |-> "save", entity |-> FromNetwork(row, network, p),
                    again |-> FALSE])
    /\ UNCHANGED <<row, chain, network, events, signed>>

\* The network did not answer in time: the row is deleted.
SyncDelete ==
    /\ chain.status = "FINALIZED"
    /\ row' = NoRow
    /\ UNCHANGED <<jobs, chain, network, events, signed>>

\* channelRepo.save of the whole entity; syncOpen saves it a second time.
EntitySave(j) ==
    LET job == jobs[j]
    IN  /\ job.op = "save"
        /\ row' = job.entity
        /\ IF job.again THEN Continue(j, [job EXCEPT !.again = FALSE]) ELSE End(j)
        /\ UNCHANGED <<chain, network, events, signed>>

\* A database, RPC or transaction error: the call throws and saves nothing.
Throw(j) ==
    /\ jobs[j] # IdleJob
    /\ End(j)
    /\ UNCHANGED <<row, chain, network, events, signed>>
-----------------------------------------------------------------------------
(* The contract and the network.                                           *)

\* The consumer adds funds.
Fund ==
    /\ chain.status = "OPEN"
    /\ chain.total < MaxTotal
    /\ chain' = [chain EXCEPT !.total = @ + 1]
    /\ Emit("fund")
    /\ UNCHANGED <<row, jobs, network, signed>>

\* The consumer terminates with a state of its own choice among the signed.
ConsumerTerminate ==
    /\ chain.status = "OPEN"
    /\ \E v \in {s.spent : s \in signed} \cup {chain.spent} :
          /\ chain.spent <= v /\ v <= chain.total
          /\ chain' = [chain EXCEPT !.status = "TERMINATING", !.spent = v]
    /\ Emit("terminate")
    /\ UNCHANGED <<row, jobs, network, signed>>

\* The claim period is over, or the channel has expired: the rest is refunded.
Finalize ==
    /\ chain.status # "FINALIZED"
    /\ chain' = [chain EXCEPT !.status = "FINALIZED"]
    /\ Emit("finalize")
    /\ UNCHANGED <<row, jobs, network, signed>>

NetworkCatchUp ==
    /\ network # chain
    /\ network' = chain
    /\ UNCHANGED <<row, jobs, chain, events, signed>>

UpdateCall(j) ==
    /\ "update" \in Calls
    /\ \E v \in Amounts, final \in BOOLEAN :
          UpdateLoad(j, [spent |-> v, final |-> final])

OtherCall(j) ==
    \/ /\ "extend" \in Calls
       /\ \E e \in Expiries, p \in Prices \cup {0}, both \in ExtendSigned :
            ExtendLoad(j, e, p, both)
    \/ /\ "settle" \in Calls
       /\ \/ \E postponed \in BOOLEAN : CheckpointLoad(j, postponed)
          \/ TerminateLoad(j)
          \/ RespondLoad(j)
    \/ \E ev \in events : EventLoad(j, ev) \/ OpenLoad(j, ev)
    \/ SyncContract(j) \/ SyncNetwork(j)

JobStep(j) ==
    \/ UpdateSave(j)
    \/ ExtendTx(j) \/ ExtendSave(j)
    \/ SettleTx(j) \/ SkipTx(j) \/ SettleSave(j)
    \/ EventSave(j)
    \/ SyncLoad(j) \/ EntitySave(j)
    \/ Throw(j)

External == Fund \/ ConsumerTerminate \/ Finalize \/ NetworkCatchUp
            \/ \E ev \in events : EventLost(ev)

\* Every step but an update that is taken up.
OtherNext == (\E j \in Jobs : OtherCall(j) \/ JobStep(j)) \/ SyncDelete \/ External

Next == OtherNext \/ \E j \in Jobs : UpdateCall(j)

Spec == Init /\ [][Next]_storeVars

\* compareChannel: what the periodic synchronisation compares, to skip a row.
UpToDate ==
    /\ row # NoRow
    /\ row.status = network.status
    /\ row.total = network.total
    /\ row.onchain = network.spent

\* Every call ends; the network's index catches up; the cron job (every
\* minute) takes up a row that is not up to date, and succeeds sometimes.
Fairness ==
    /\ WF_storeVars(NetworkCatchUp)
    /\ \A j \in Jobs : /\ WF_storeVars(JobStep(j))
                       /\ SF_storeVars(~UpToDate /\ SyncContract(j))
                       /\ SF_storeVars(SyncLoad(j))
                       /\ SF_storeVars(EntitySave(j))

FairSpec == Spec /\ Fairness
-----------------------------------------------------------------------------
(* Properties.                                                             *)

Rank(status) == CASE status = "OPEN" -> 0
                  [] status = "TERMINATING" -> 1
                  [] status = "FINALIZED" -> 2

\* The indexer can always prove what it is owed: the stored signatures are a
\* state the consumer signed, on the stored `remote', although concurrent
\* updates, synchronisations and settlements save different parts of the row
\* (payg.service.ts 362-367, 171).
SignsCoverRemote ==
    (row # NoRow /\ row.remote > 0) =>
        (row.sign \in signed /\ row.sign.spent = row.remote)

\* While the contract still accepts checkpoints, the stored final flag is the
\* one that was signed, so that the contract can verify what checkpoint and
\* terminate send (payg.service.ts 506-508, 556-558).
OpenRowVerifies ==
    (row # NoRow /\ row.remote > 0 /\ chain.status = "OPEN") =>
        row.sign = [spent |-> row.remote, final |-> row.lastFinal]

ExtendsUnsigned == FALSE \in ExtendSigned

\* The row lags behind the contract and never runs ahead of it: no status,
\* settled amount, funds or expiry that the contract has not reached, whatever stale
\* entity a call saves (payg.service.ts 152-166, 526-527, 577-580).  When the
\* operator sets a gas limit, a postponed checkpoint that was not sent may
\* count as settled; an extension without signatures is only recorded.
NeverAheadOfContract ==
    row # NoRow =>
        /\ Rank(row.status) <= Rank(chain.status)
        /\ GasLimited \/ row.onchain <= chain.spent
        /\ row.total <= chain.total
        /\ ExtendsUnsigned \/ row.expiredAt <= chain.expiredAt

\* A channelUpdate never lowers `remote': "if remote is less than own, just
\* add spent" (payg.service.ts 359).
UpdateKeepsRemote ==
    [][ \A j \in Jobs : UpdateSave(j) /\ row # NoRow => row'.remote >= row.remote
      ]_storeVars

\* Lost events do no lasting harm: when the contract's channel stays as it is
\* and is not finalized, the row agrees with it again and again, although stale calls
\* may overwrite what was synchronised (payg.sync.service.ts 42-115).
RowConverges ==
    (<>[][FALSE]_chain /\ <>[](chain.status # "FINALIZED")) =>
        []<>(/\ row # NoRow
             /\ row.status = chain.status
             /\ row.total = chain.total
             /\ row.onchain = chain.spent)
=============================================================================
