# Formal model of the SubQuery network indexer services

The repository holds the three services an indexer runs: the **coordinator**
(`src/apps/indexer-coordinator`, NestJS), which owns the database, the chain
account and the projects; the **proxy** (`src/apps/indexer-proxy`, Rust), which
serves consumers' queries and charges for them; and the **admin application**
(`src/apps/indexer-admin`, React). This directory models the parts that keep
state of their own and where orders of events matter, checks them with TLC on
small instances and proves the main invariants with TLAPS.

    tlc -config MCProxy.cfg MCProxy.tla
    tlapm ChannelCacheProofs.tla

## 1. The system

### Components, their state and their operations

| component | state | operations | what must hold |
|---|---|---|---|
| proxy: channel account (`payg.rs`, `subscriber.rs`) | one Redis value per state channel: spent, remote, total, price, conflict counter | market price, open, extend, single and multiple queries, payments, the poll, TTL expiry | nobody is charged for an unanswered query, only signed amounts count as paid, unpaid work is bounded, a closed channel stops, an open one is served, none is signed below its price |
| coordinator: channel rows (`payg.service.ts`, `payg.sync.service.ts`) | the `Channel` table | update, extend, checkpoint, terminate, respond, event handlers, periodic synchronisation | stored signatures prove the stored amount; the row never claims what the contract has not reached; it converges |
| coordinator: transactions (`contract.service.ts`, `utils/promise.ts`) | Redis keys `bypass:*`, a chain of promises | sendTransaction with gas gate, retry, mutex | one transaction at a time, every caller gets an answer |
| coordinator: rewards (`reward.service.ts`, `onchain.service.ts`) | the last plan of a reduction, retry flags, start times; the era on the chain | collect, reduce, retry; the rounds of an era | a plan fits and removes nothing twice, the excess disappears, small earnings and past eras are collected at last |
| coordinator: projects (`project.*.service.ts`, `rpc.factory.ts`, `docker.service.ts`, `monitor.service.ts`) | Project rows, compose files, containers, health counters | start, stop, restart, remove, validate, monitor, report | row and containers agree, a running project was checked and is served, a dead node comes back, a report is consistent |
| coordinator: accounts (`account.service.ts`) | indexer and controller rows, an address in memory | add, remove, load | the proxy signs with the registered controller's key |
| coordinator: statistics, configuration, prices | hourly rows, the cache of dominant prices | save, get, refresh | an hour is never forgotten, a price follows the market |
| proxy: limits and whitelist (`auth.rs`, `whitelist.rs`) | Redis counters and limits, a cache of accounts | issue a token, check, count, refresh | a valid token has its limits, a revoked account is refused |
| proxy: projects and queries (`project.rs`, `server.rs`) | the project table, a counter per second | update, the routes of the server | a table is replaced as a whole, an answer was admitted by the rules of its time |
| proxy: websocket and AI streams (`websocket.rs`, `ai.rs`) | a slot per channel; tokens not yet paid | messages in both directions, batches | charges stay within the funds and the answers; less than a batch is unpaid |
| proxy: metrics and p2p (`metrics.rs`, `mod_libp2p`, `account.rs`) | counters per hour, the event loop and its peers | count, report, start, stop, dial, handle events | a count is reported once, one loop runs under the right key and reaches the metrics node |
| admin application, migrations, deployment | none of the protocol | | |

### Interactions

The proxy polls the coordinator's GraphQL endpoint for the account, the
projects and the alive channels, and copies the channels into Redis
(`handle_channel`). A query reads the Redis value, calls the endpoint and stores
the value again; it then spawns a `channelUpdate` mutation and does not wait
for it. The coordinator saves what the mutation carries, settles it on chain
with a transaction, and learns of the chain through events that may be lost and
a synchronisation every minute. No lock is held across these awaits. What is
hard is therefore what whole-value writes of stale snapshots, in any order, may
do to amounts, signatures and status; the hazards in PROJECT.json name the lines.

## 2. The modules

| module | what it is |
|---|---|
| `ChannelCache` | the proxy's account of one channel, with the coordinator's row as environment |
| `ChannelOffer` | market price, opening and extension of a channel while prices, rates and keys change |
| `SocketCharge` | websockets of one channel and the slot that they share |
| `AiStream` | streams of a model's answers, paid in batches |
| `QueryServer` | a request of every route, from its headers to the charge, while the table is replaced |
| `AgreementLimit` | a token with its daily and per-second limits, the rate limit of a project |
| `Whitelist` | the cache of whitelisted accounts |
| `ProjectTable` | how projects and prices get from the coordinator's rows to the proxy's table |
| `EndpointProject` | an RPC or subgraph project: endpoints, validation, the job that validates again |
| `ProjectRoute` | extends it to the names and endpoints that the proxy makes of it |
| `ProjectLife` | a SubQuery project: row, compose file, schema, containers, monitor |
| `NodeReport` | the progress that is reported of a project of any type |
| `QueryStats` | the proxy's hourly counters, their delivery, the coordinator's rows |
| `ControllerAccount` | accounts and keys from the coordinator's rows to the proxy's p2p loop |
| `MetricsPeer` | the p2p loop's way over the boot nodes to the metrics node |
| `ChannelStore` | the coordinator's row of one channel, with contract and network as environment |
| `Payg` | both together: the proxy's account, its mutations on their way, the row |
| `TxQueue` | the abstract queue: one transaction at a time, in order of arrival |
| `TxSender` | `sendTransaction`: gas gate, mutex, retries; it implements `TxQueue` |
| `AllocationReduce` | the cron job that reduces over-allocations, with the staking contract and its index |
| `RewardCollect` | the jobs that collect rewards and unclaimed spending |
| `EraRounds` | the rounds that turn the era and collect what past eras earned |
| `MCProxy`, `MCStore`, `MCCoordinator`, `MCProxyFair`, `MCCoordinatorFair` | small instances of several components in one run |
| `CacheParts`, `PeerParts`, `ProxyParts`, `PaygParts`, `ProjectParts` | what components promise in runs of several, with the instances; extended by runs and proofs |
| other `MC...` | values for TLC |
| `ChannelCacheProofs`, `TxSenderProofs`, `AllocationReduceProofs` | about the module they extend |
| `PaygProofs` | about `ChannelStore`, `Payg` |
| `ProxyProofs` | about `SocketCharge`, `AiStream`, `AgreementLimit`, `QueryStats`, `ControllerAccount`, `MetricsPeer` |
| `RequestProofs` | about `ChannelOffer`, `QueryServer` |
| `ProjectProofs` | about `ProjectLife`, `EndpointProject`, `NodeReport` |
| `InductionLemmas` | induction over numbers and finite sets, folds |

In the composed instances a variable `part` chooses in the initial state which
component, or which setting of one, the behaviour is about; the others stay as
they are. A run then answers the same question for a whole service without the
product of unrelated states.

### ChannelCache

`cache` is the Redis value, `tasks` the request tasks with the snapshot they
read, `poll` the subscriber's loop, `outbox` the spawned mutations (a bag: they
may arrive in any order or never), `row` the coordinator's row, `hist` history
variables that no action depends on. Each await of the code separates two
actions: `BeginSingle`/`PostSingle` are `before_query_signle_state` and
`post_query_signle_state`; `BeginMultiple`/`PostMultiple` likewise;
`BeginPay`, `PayFetched` and `PostPay` are `pay_channel` before and after its
query of the coordinator; `PollFetch`, `PollRead` and `PollWrite` are the loop
and `handle_channel` before and after the signer lookup. `Abandon` is every
error path and a client that hangs up. `Evict` is the TTL, which may run out at any
moment because time is not modelled. A signature is represented by what it
covers; a task that would be refused takes no step. Units (`UnitCosts`) are
what `compute_query_method` may return, the empty batch included. Amounts are
naturals: they have 256 bits in the code and are bounded by the funds.

### ChannelStore

`row` is the database row, `jobs` the service calls that have loaded a row and
wait (for the database, the chain or a transaction), `chain` the channel in the
contract, `network` the channel in the network's index, `events` what the
contract has emitted and nobody has handled, `signed` the states the consumer
signed. A call is split where the code awaits: `...Load`, `...Tx`, `...Save`.
`SaveFields` is a save of picked fields on the row as it then is;
`EntitySave` is the save of a whole entity, stale fields included. `Throw` is
any error. The contract is external: `Verified` is what it demands of a
settlement, as far as the code relies on it. A call that finds no row
synchronises first and goes on with the new row, which is
`SyncContract ... EntitySave` followed by the call. The admin may also call
`extend` without signatures (`ExtendSigned`); the proxy never does.

### Payg

Every `channelUpdate` is one that the proxy has spawned: `Deliver` takes it from
`outbox` into a call, `Lose` drops it. `View` is what `getAliveChannels` and
`channel` report of the row; `past` says whether its expiry is over. The
consumer terminates with states that have reached the coordinator.

### TxSender

Each call of `sendTransaction` is a process: `estimate`, `lookup`, `judge`,
`register`, `complete` are the awaits of the gas gate in the order of the code,
`queued` is a promise of `mutexPromise` that waits for its predecessor
(`after`), `prepare` and `wait` are `txFun` and `tx.wait`. `Throw` is a failing
await of the gate. `tasks` are the Redis keys with their TTL; time is counted in
ticks. The chain executes, drops or keeps what is in `pool`, also after the
sender has given up (`LostReceipt`). `tail` is `PROMISES[lock]`. `QueueSpec`
maps `queued` to waiting, `prepare` and `wait` to active, settled to done.

### AllocationReduce

A run is `reduceAllocation`: `Begin` reads `runnerAllocation`, `Decide` compares
the excess with `lastTotalReduce` and goes on with the last plan or asks the
index, `Fetch` computes a plan (`Share`, `Fill`) and passes or fails the
assertion, then one entry after the other is sent (`Mine`, `Succeed`, `Fail`).
Plans are objects that runs share: `plans` is the memory, `last` is
`lastSingleReduce`. The scheduler does not wait for the previous run, so several
runs may be in progress. Pending and failed entries are treated alike by the
code and are not told apart. The sort compares the index's amounts as strings,
therefore a plan may have any order. A
transaction is executed before its sender gives up, or never; what happens
otherwise is in `TxSender`.

### The proxy's other modules

**ChannelOffer.** A handler of `open_state` or `extend_channel` is split at its
awaits: find the project (`FindProject`), check the quote (`CheckQuote`), check
the amounts (`CheckOpening`, `CheckExtension`), sign, send. `World` changes the
project's price, the exchange rate and the controller between any two. `seen`
is history: what a handler could have met.

**SocketCharge.** `cache` is the channel's key and `slot` the key
`<id>-channel-ws`. A message of the consumer checks the balance and stores the
slot; an answer takes the slot, or charges one unit when it is gone; a hang-up,
the poll, funds and expiry come at any time.

**AiStream.** `connect_remote`: pay the request, open the answer, count each
message, pay when a batch is full and at the end. `Pay` reads the key and
`Write` stores it, so two streams of a channel may overwrite each other.

**QueryServer.** `Arrive` is a request of some route; `ExtractToken`,
`ExtractAccount` and `ExtractState` are the axum extractors; `Resolve...` is the
first look at the table, `Rules`, `ReadLimit`, `WriteLimit` and `Post` are the
second look and `Project.query`. A class stands for a method (light, heavy,
`log` for one that a manifest denies). `Replace` changes a project between any
two steps.

**AgreementLimit.** The counters of redis with read, compare and write apart;
`Issue...` is `create_jwt` and its two keys, whose life is computed from a clock
that goes on. **Whitelist.** A query that misses the cache asks the registry
under the lock; the loop lists the accounts and asks for each again. **ProjectTable.** The
proxy's loop reads the projects, then the prices, then the manifests, then
replaces the table; a request that fails counts as an empty answer.
**QueryStats.** `add_metrics_query` takes three locks in turn and the clock
between two of them; the report copies counters, hour and previous hours in
turn; `Deliver` and `PostFails` differ in what the proxy learns. A counter is
the set of the queries it counts. **ControllerAccount.** Rows, memory and chain
at the coordinator, the proxy's poll of the account, and p2p loops that are
started before the old one has left the port. **MetricsPeer.** `events` are the
swarm's events, handled one at a time by `handle_event`, while connections
(`links`) have changed again; the timers dial the boot nodes or the metrics
node. Swarm and Kademlia are external.

### The coordinator's other modules

**ProjectLife.** Each mutation of the administrator is a call with a step per
await and the entity it has loaded. `docker up` is two steps of a process that
nobody waits for; `ComposeUp` uses the file as it then is. The monitor's round
and the refresh act on entities they loaded earlier; `Crash` and `Reboot` come
at any time. **EndpointProject.** `Checks` are the facts each family validates,
folded in the order of the endpoints (`Worst`); the job `Audit` saves the flags
of an entity it loaded before. **ProjectRoute** adds the access level of each
endpoint and the proxy's map of names. **NodeReport.** One action per request
that a report makes; the node imports blocks, restarts and goes away between
them. **RewardCollect.** The daily and the half-hourly job with a step per
transaction, the flags of what failed and the times since which a small amount
waits. **EraRounds.** A round is the list of actions of `doNetworkActions`; each
action reads, then sends; its error is ignored. The contracts are external.

## 3. What is checked

| run | shows |
|---|---|
| `proxy` | the proxy's parts: two tasks on a channel's key in either mode (`RemoteWasSigned`, `NoPhantomCharge`, `SpentWithinFunds`, `UnpaidInRanges`), two queries across the turn of an hour and a restart (`BookedOnce`, `RowsNeverShrink`), a token (`TokenHasLimits`), two sockets (`SocketsCovered`), a query of every route (`AnsweredWasAdmitted`), two streams (`LessThanBatchUnpaid`), a proposal (`AcceptedAtPrice`) |
| `proxy_fair` | p2p processes and peers (`RunsAsAccount`, `PeerKnown`); under fairness `ChannelsFollow`, `BacklogDelivered`, `RevokedRefused`, `TableFollows`, `IdentityFollows`, `MetricsReached` |
| `store_settle` | two calls among updates and settlements, or among extensions of a channel that is funded, with events and synchronisations: provable, verifiable, behind the contract; with the proxy, one call and two things in progress (`AtMostTwo`): the row changes as `ChannelCache` assumes (`FollowsAccount`) |
| `coordinator` | three calls through gate and mutex, the refinement of `TxQueue`, a SubQuery project (`ContainersFollowFile`, `RunningIsServed`), endpoint projects of every family (`RunningWasChecked`), a report of every type (`ReportInOrder`) |
| `reduce` | plans fit, are used again only for what is left of them, and remove nothing twice unless runs met or a receipt was lost |
| `coordinator_fair` | `RowConverges`, `EveryCallReturns`, `DeadNodeRestarted`, `AwayIsMarked`, `EarningsCollected` (allocation rewards, unclaimed spending, past eras) |
| `doc_conflict`, `doc_update`, `doc_reduce`, `doc_whitelist`, `doc_limit`, `doc_default` | six statements of documentation, comments and the settings page that the code does not keep |

**Bounds.** Two concurrent tasks, calls or runs are enough for every pairwise
stale write, and the proofs cover any number; the mutex is checked with three
calls, because a stale `tail` shows only behind a second one. Amounts of 0 to 3
with a price of 1 suffice for below, equal and above in every comparison.
`MaxBill`, `MaxQueued`, `MaxSpent`, `MaxTotal`, `MaxEvents`, `MaxTime`,
`MaxHeight`, `MaxEra`, `MaxHour`, `MaxSecond`, `MaxMessages`, `MaxUps` and
`MaxLinks` bound counters and queues in the guards. Two hours are one turn of
the hour, all that a report can meet; four eras are two batches. In `MetricsPeer` two connections with each node
and two waiting events give every stale event; other nodes are let go at once,
and none takes part. Tasks, calls, runs and deployments are interchangeable
(symmetry; not used in the liveness runs). All runs check deadlock freedom;
the clock of `AgreementLimit` stutters at its bound.

**Reading of the main properties.** `NoPhantomCharge`: `spent` is at most the
answered queries' prices plus the highest `spent` the coordinator reported;
lost updates only make it smaller, which is the indexer's loss.
`SpentWithinFunds`: at most one price above the funds; the slack is real, an
empty batch is checked at 0 and charged one price. `UnpaidInRanges` (two ranges
at most, or the debt the row already had) holds for channels that use ranges
only: a single query may lower `remote`. `SocketsCovered`: a slot that two
sockets share may be charged once instead of twice, or cheaper, but never more
than was answered and never above the funds. `AnsweredWasAdmitted`: the two
looks at the table may meet two versions of a project, so the rules and the
endpoint of an answer may be of different versions, each of which the table
held while the request was handled. `AcceptedAtPrice` is of the same kind: some
price and some rate of that time. `LessThanBatchUnpaid` holds per stream; `n`
streams of a channel may have `n` batches unpaid.

`NeverAheadOfContract`: with a gas limit the settled amount is exempt, because a
postponed checkpoint that is skipped is recorded as settled. `RowConverges` says "again and again" and not "for ever":
a stale entity may be saved after the synchronisation, until the next one.
`SuccessWasExecuted` allows one success without execution: a postponed call that
nobody has registered. `ForcedOnlyLate`: a task's key lives exactly
`bypassTime`, so that the branch that forces an expensive transaction after
`bypassTime` is reached only if time passes between reading the key and judging
it. `TotalIsUnfinished` and `RemovedOnce` carry their excuses: two runs that met
share one plan and both may send an entry; a run that is alone when it makes a
new plan starts afresh, and the invariants hold again. `ContainersFollowFile`
says nothing while a `docker up` is under way or after one that failed.
`RunningIsServed` is for one administrator at a time: two concurrent calls may
each save what they loaded. `ReportInOrder` excuses a report of which a request
failed; such a report has no target and shows what was read before.

**Fairness.** The poll is a loop without exit (`subscriber.rs` 140-161): weakly
fair; storing a merge is strongly fair since the lookup that may fail is
retried at every poll. The loops of the proxy (account, projects, report,
whitelist, event loop with its timers) are weakly fair; a pass of the whitelist
is strongly fair because it shares a lock with the queries. `RevokedRefused`
assumes that the registry's call does not fail for ever, `TableFollows` that
the services answer from some time on, `MetricsReached` that connections are
cut no more. The monitor, the validation job and the rounds of an era are timers
of NestJS: weakly fair. `DeadNodeRestarted` assumes that the coordinator is not
restarted for ever, `AwayIsMarked` that the administrator comes to rest,
`EarningsCollected` that failures end and the controller is ready. The
synchronisation runs every minute, skips a row that `compareChannel` finds
equal, and catches errors: strong fairness of the synchronisation of a row that
is not up to date. In `TxSender` every await returns or throws and the chain
decides every transaction: `tx.wait` has no timeout, so without the latter one
pending transaction blocks all others. Nothing is assumed of consumers, of the
arrival of mutations or of events.

**Findings.** (1) Error 1050 counts conflicting queries, not amounts, and the
counter restarts with the key. (2) Two concurrent updates: the lower amount may
be saved last, with its signatures; the row stays provable (`SignsCoverRemote`)
but forgets the higher amount. (3) A plan computed while the network's index was
behind may ask a deployment for more than it has. Its transaction fails, the
excess stays what it was, and every later run uses the same plan again, until
the excess changes or the coordinator restarts. (4) The refresh of the
whitelist waits once, before its loop, and not in it. (5) The counters of an
agreement and of a project are read and written apart: queries that come
together pass together. (6) The endpoint that a query without a name is sent to
may be the websocket's, whose key ends in the default's name too.

## 4. What is proved

Eight modules hold proofs. Each theorem is for any number of tasks, calls,
queries, sockets, streams, runs or deployments and any amounts, from the
assumption its component states about its constants and nothing else, with one
exception (`OneAdministrator`).

| module | theorems | stated by a run |
|---|---|---|
| `ChannelCacheProofs` | `TypeCorrect`, `RemoteSafe`, `ChargeSafe`, `FundsSafe`, `RangesSafe` | `RemoteWasSigned`, `NoPhantomCharge`, `SpentWithinFunds`, `UnpaidInRanges` |
| `PaygProofs` | `TypeCorrect`, `SignaturesSafe`, `OpenRowSafe`, `RowBehindContract`, `AccountFollowed`, `SettledSafe`, `PaygImplementsCache`, `PaygImplementsStore` | `TypeOK`, `SignsCoverRemote`, `OpenRowVerifies`, `NeverAheadOfContract`, `FollowsAccount` |
| `TxSenderProofs` | `TypeCorrect`, `MutexSafe`, `SuccessSafe`, `RetrySafe`, `ForcedSafe`, `ExecutionSafe`, `SenderIsQueue` | `SuccessWasExecuted`, `FailureWasRetried`, `ForcedOnlyLate`, `QueueSpec` |
| `ProxyProofs` | `SocketsSafe`, `StreamSafe`, `LimitsOutliveToken`, `BookedSafe`, `RowsSafe`, `AccountSafe`, `PeerSafe`, types | `SocketsCovered`, `LessThanBatchUnpaid`, `TokenHasLimits`, `BookedOnce`, `RowsNeverShrink`, `RunsAsAccount`, `PeerKnown` |
| `RequestProofs` | `OfferTypeCorrect`, `OfferSafe`, `ServerTypeCorrect`, `ServerSafe` | `AcceptedAtPrice`, `AnsweredWasAdmitted` |
| `AllocationReduceProofs` | `TypeCorrect`, `TotalSafe`, `RemovalSafe`, `PlanSafe` | `TotalIsUnfinished`, `RemovedOnce`, `PlanFits` |
| `ProjectProofs` | `LifeTypeCorrect`, `ContainersSafe`, `ServedSafe`, `EndpointTypeCorrect`, `CheckedSafe`, `ReportTypeCorrect`, `ReportSafe` | `ContainersFollowFile`, `RunningIsServed`, `RunningWasChecked`, `ReportInOrder` |
| `InductionLemmas` | lemmas only | |

With them every invariant and action property of a passing run is proved.
What a `...Parts` module states for one setting (`part`) is proved without that
guard too, where the setting adds nothing but the constants' values.

**The arguments.**

* `ChannelCacheProofs`. The properties speak of the key only and are not
  inductive, because any snapshot may be stored later. `IInv` says them of every
  copy (`CopyOK`), of the row and the fetched row (`RowOK`), and remembers what
  a waiting task has checked (`TaskOK`). History only grows (`Grows`), so a copy
  that was right stays right; each action then shows its own new copy right.
* `PaygProofs`. `IInv` says the properties of the row and of every
  entity waiting to be saved (`EntityOK`), and that every figure taken from the
  contract was reached by it (`Ahead`). The contract only advances
  (`ChainGrows`), so both survive any delay. In `PaygInv` the amounts of
  the row, of every call, task and mutation and of the contract are among those
  signed so far (`StoreKnown`, `ProxyKnown`); every step is then one that
  `ChannelCache` allows, so what is proved there needs no assumption about rows.
* `TxSenderProofs`. Mutual exclusion does not follow from "my predecessor has
  settled" alone: `ChainOK` numbers the promises by `ticket`, says that each one
  follows the one with the ticket before its own, and that all earlier tickets
  of a promise that has begun have settled. The gate needs `GateOK` (what a
  waiting call has read), the outcomes `OutcomeOK`. `ForcedOnlyLate` needs
  `LateOK`: while no time passed as a call held a start time, the start times of
  calls and keys are recent enough for the gate.
* `ProxyProofs`. Sockets: every copy of the key is within the funds and the
  bill, also with the charge that its holder is about to add (`ChargeOK`).
  Streams: the place where a stream stands says how far its messages are ahead
  of its payments (`StreamOK`). Limits: the order of `create_jwt` (expiry
  computed, limits saved, token handed out) as bounds on the expiries
  (`KeysInv`). Statistics: `Placed` says where a query is, in one counter at
  most, and that the previous counters hold past hours only. Accounts: which
  process has the port, who waits for it, with which key. Peers: the last thing
  told of a node, of those that wait, is how it stands (`Told`).
* `RequestProofs`. What a handler met (`seen`, `offered`) only grows, and what
  it holds is of what it met: `Paid` and `Asked` for a proposal, `Shown`,
  `Ruled` and `Measured` for a request, at every step after the check.
* `AllocationReduceProofs`. `MemoryOK` says what runs have read of the last
  plan, `AloneOK` that a run that is alone works on it at an entry that has not
  succeeded, `RemovedOK` that only such entries were executed. `PlanSafe` needs
  the arithmetic of `Share` and `Fill`: a share is rounded, the rest goes to the
  entries in order, and nobody is asked for more than it has.
* `ProjectProofs`. A SubQuery project: a compose file exists while a
  `docker up` is under way, and what no unfinished `up` covers was made from the
  file (`FilesOK`), whatever the calls hold. `ServedSafe` is different: what
  a call holds must agree with the row (`InStep`), which is false as soon as
  two calls overlap, the refresh saves an entity it loaded before, or the
  monitor starts a project it listed before. It is therefore proved from
  `OneAdministrator` (one call at a time, no background but crashes and
  reboots), the setting the run checks. An endpoint project: what a row, the
  call or the validation job holds has been checked (`Good`), which rests on
  lemmas about the fold of levels (`Worst`: an error stays, whatever follows)
  and about the endpoints that are kept (`Kept`). A report: which figures are
  read at each step, and that they are between the node's height at the
  beginning and its height now.

**Assumptions.** The `...Assumption` of each module says that amounts, prices, times and
units are natural numbers, that the value for "none" is none of the values it
stands beside, and that queries and deployments are finite. `EndpointAssumption`
also says that a list of endpoints names each kind once, as the forms of the
admin application do. TLC evaluates all of them for the values of the runs.

**Induction.** The library's induction theorems take an operator as parameter, which
the provers cannot instantiate. `InductionLemmas` speaks of sets instead: `CountingUp` (a set with 0 and successors
holds every number), `GrowingSets` (the same for finite sets, one element at a
time) and `FoldExists` (a fold along 1 .. n exists and stays in its set). Sums,
the shares of a plan, the units of a body and the folds along lists of endpoints
follow from them. Of a function that is defined by recursion nothing is known
before it is shown to exist; the models write folds as such functions and not
with `FoldLeft` or `SelectSeq`, whose definitions the provers cannot expand.

**Proved and not run.** `MutexSafe` (`OneAtATime`; it follows from the refinement
of `TxQueue`), `ExecutionSafe` (`ExecutionsBounded`), `SettledSafe`
(`SettledWasSigned`) and types.

**Model-checked only.** All liveness (`proxy_fair`, `coordinator_fair`) and with
it the modules that appear there alone: `Whitelist`, `ProjectTable`,
`RewardCollect`, `EraRounds`; `ProjectRoute` appears in `doc_default` alone. The provers have no rule for fairness or `ENABLED`.

## 5. Not modelled

The admin application and the migrations: they keep no state of the protocol.
Signatures, encodings, texts of requests, gauges and logs are abstracted to what
they cover. `p2p.rs` is commented out entirely;
`port.service.ts` hands out host ports that the containers no longer use. Of the
modelled components: the consumer's list of signers; the fields of a channel
that are copied and never decided on, and its expiry as a date; the choice of
the wallet, and `withdrawAll`, which sends outside the mutex; the restoration of
projects at start, which repeats a start; pages that read statistics or logs.

## 6. Plan

1. Safety of the other modules of the fair runs, with theorems: an entry of the
   whitelist is no older than the last answer of the registry (`Whitelist`), the
   table comes from one pass over the coordinator (`ProjectTable`), an era is
   collected once (`EraRounds`).
2. `RunningIsServed` for a weaker setting than `OneAdministrator`: a monitor that
   lists only what no call is changing.
