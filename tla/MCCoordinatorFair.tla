-------------------------- MODULE MCCoordinatorFair --------------------------
(* What the coordinator reaches at last, on small instances.  As in        *)
(* MCCoordinator a behaviour is a behaviour of one part.  The fairness is  *)
(* the one each component states, for the part at hand.                    *)
EXTENDS MCTxSender, Sequences

CONSTANTS j1, NoRow, NoSign, m1, A, d1, ch, k1, Unset, None

VARIABLES
    part,
    \* ChannelStore
    channel, jobs, chain, network, events, signed,
    \* ProjectLife
    row, compose, schema, boxes, calls, ups, unfinished, monitor, misses, refresh, forgotten,
    \* EndpointProject
    family, node, alive, entry, call, audit,
    \* RewardCollect
    rewards, unclaimed, recorded, postponed, ready, age, ages, ongoing, crons,
    \* EraRounds
    era, due, claimed, settled, stakers, rate, channels, controller, paused,
    wallet, round

storeVars == <<channel, jobs, chain, network, events, signed>>
lifeVars == <<row, compose, schema, boxes, calls, ups, unfinished,
              monitor, misses, refresh, forgotten>>
endpointVars == <<family, node, alive, entry, call, audit>>
rewardVars == <<rewards, unclaimed, recorded, postponed, ready, age, ages, ongoing, crons>>
claimVars == <<unclaimed, recorded, ages>>
eraVars == <<era, due, claimed, settled, stakers, rate, channels, controller, paused,
             wallet, round>>
coordinatorVars == <<part, senderVars, storeVars, lifeVars, endpointVars, rewardVars, eraVars>>

\* One call at a time, a gas limit; payments and settlements, or extensions of
\* a channel that is also funded.
Settling == INSTANCE ChannelStore WITH
    Jobs <- {j1}, Calls <- {"update", "settle"}, Amounts <- {1}, Expiries <- {1},
    Prices <- {1}, ExtendSigned <- {TRUE}, GasLimited <- TRUE, MaxSpent <- 1,
    MaxTotal <- 1, MaxEvents <- 1, row <- channel
Extending == INSTANCE ChannelStore WITH
    Jobs <- {j1}, Calls <- {"extend"}, Amounts <- {1}, Expiries <- {1, 2},
    Prices <- {1}, ExtendSigned <- {TRUE}, GasLimited <- TRUE, MaxSpent <- 1,
    MaxTotal <- 2, MaxEvents <- 1, row <- channel

Life == INSTANCE ProjectLife WITH
    Calls <- {m1}, Configs <- {A}, Hosts <- {"system"}, Mutations <- {"start"},
    Ups <- {m1}, Background <- {"crash", "reboot", "monitor"}

End(kind, scheme) == [kind |-> kind, url |-> [scheme |-> scheme, host |-> "a"]]
RpcRequests ==
    {<<End("http", "http")>>,
     <<End("http", "http"), End("ws", "ws"), End("metrics", "http")>>}

Rpc == INSTANCE EndpointProject WITH Families <- {"evm"}, Requests <- RpcRequests

\* Either a deployment earns rewards, with a gas limit or without, or a channel
\* is spent from.
Rewards == INSTANCE RewardCollect WITH
    Deployments <- {d1}, Channels <- {}, TimeLimit <- 1, GasLimited <- FALSE, jobs <- crons,
    unclaimed <- <<>>, recorded <- <<>>, ages <- <<>>
Gated == INSTANCE RewardCollect WITH
    Deployments <- {d1}, Channels <- {}, TimeLimit <- 1, GasLimited <- TRUE, jobs <- crons,
    unclaimed <- <<>>, recorded <- <<>>, ages <- <<>>
Claims == INSTANCE RewardCollect WITH
    Deployments <- {}, Channels <- {ch}, TimeLimit <- 1, GasLimited <- TRUE, jobs <- crons,
    rewards <- <<>>

\* Two rounds that may overlap.  What makes them pause is that the controller is
\* gone: a pause for maintenance is left out here.
Eras == INSTANCE EraRounds WITH
    Rounds <- {1, 2}, Controllers <- {k1}, Delegators <- {1}, Channels <- {1},
    BatchSize <- 1, MaxEra <- 3

MCInit ==
    /\ part \in {"sender", "settling", "extending", "life", "rpc", "rewards", "gated", "claims",
                  "eras"}
    /\ Init /\ Life!Init /\ Eras!Init
    /\ Claims!Init /\ rewards = [d \in {d1} |-> 0]
    /\ IF part = "extending" THEN Extending!Init ELSE Settling!Init
    /\ Rpc!Init /\ (part # "rpc" => ~alive /\ node = Rpc!Facts)

Others(own) ==
    /\ UNCHANGED part
    /\ own # "sender" => UNCHANGED senderVars
    /\ own # "store" => UNCHANGED storeVars
    /\ own # "life" => UNCHANGED lifeVars
    /\ own # "rpc" => UNCHANGED endpointVars
    /\ own # "rewards" => UNCHANGED rewardVars
    /\ own # "eras" => UNCHANGED eraVars

\* "life" is about the node's container; that of the query service never dies.
QueryLives == boxes'["query"].state \in {"none", "up"}

\* "claims" is about amounts below the threshold; its controller is ready.
LittleSpent == ready /\ unclaimed[ch] < 2 /\ recorded[ch] < 2

MCNext ==
    \/ part = "sender" /\ Next /\ Others("sender")
    \/ part = "settling" /\ Settling!Next /\ Others("store")
    \/ part = "extending" /\ Extending!Next /\ Others("store")
    \/ part = "life" /\ Life!Next /\ QueryLives /\ Others("life")
    \/ part = "rpc" /\ Rpc!Next /\ Others("rpc")
    \/ part = "rewards" /\ Rewards!Next /\ UNCHANGED claimVars /\ Others("rewards")
    \/ part = "gated" /\ Gated!Next /\ UNCHANGED claimVars /\ Others("rewards")
    \/ part = "claims" /\ Claims!Next /\ LittleSpent' /\ UNCHANGED rewards /\ Others("rewards")
    \/ part = "eras" /\ Eras!Next /\ ~paused' /\ Others("eras")

\* The fairness of the components, each for its part.
\* A call waits for one thing at a time: its steps are taken together here.
SenderFairness ==
    \A c \in Calls :
        /\ WF_senderVars(/\ part = "sender"
                         /\ \/ GateStep(c) \/ Run(c) \/ Submit(c) \/ SubmitError(c)
                            \/ Receipt(c) \/ Reverted(c))
        /\ WF_senderVars(part = "sender" /\ \E n \in 0 .. MAX_RETRY : Mine(<<c, n>>))

Stored == part \in {"settling", "extending"}
StoreFairness ==
    /\ WF_storeVars(Stored /\ Settling!NetworkCatchUp)
    /\ WF_storeVars(Stored /\ Settling!JobStep(j1))
    /\ SF_storeVars(Stored /\ ~Settling!UpToDate /\ Settling!SyncContract(j1))
    /\ SF_storeVars(Stored /\ Settling!SyncLoad(j1))
    /\ SF_storeVars(Stored /\ Settling!EntitySave(j1))

OfRewards(part1, step) == part = part1 /\ step /\ UNCHANGED claimVars
OfClaims(step) == part = "claims" /\ step /\ UNCHANGED rewards
RewardFairness ==
    /\ WF_rewardVars(OfRewards("rewards", Rewards!StartDaily))
    /\ WF_rewardVars(OfRewards("gated", Gated!StartDaily))
    /\ WF_rewardVars(OfClaims(Claims!StartDaily))
    /\ WF_rewardVars(OfRewards("rewards", Rewards!Tick))
    /\ WF_rewardVars(OfRewards("gated", Gated!Tick))
    /\ WF_rewardVars(OfClaims(Claims!Tick))
    /\ \A j \in {"daily", "retry"} :
          /\ WF_rewardVars(OfRewards("rewards", Rewards!JobStep(j)))
          /\ WF_rewardVars(OfRewards("gated", Gated!JobStep(j)))
          /\ WF_rewardVars(OfClaims(Claims!JobStep(j)))
    /\ WF_rewardVars(OfClaims(Claims!SyncChannel(ch)))

MCSpec ==
    /\ MCInit /\ [][MCNext]_coordinatorVars
    /\ SenderFairness /\ StoreFairness /\ RewardFairness
    /\ WF_lifeVars(part = "life" /\ Life!MonitorStep)
    /\ WF_endpointVars(part = "rpc" /\ Rpc!Audit)
    /\ \A r \in {1, 2} : WF_eraVars(part = "eras" /\ Eras!RoundStep(r))

-----------------------------------------------------------------------------
\* The row of a channel agrees with the contract again and again.
RowConverges == Stored => Settling!RowConverges

\* A container that died is brought up again.
DeadNodeRestarted == part = "life" => Life!DeadNodeRestarted

\* The endpoints of a node that stays away are marked as invalid.
AwayIsMarked == part = "rpc" => Rpc!AwayIsMarked

\* What has been earned is collected: the rewards of a deployment, the
\* unclaimed spending of a channel, and the rewards of past eras.
EarningsCollected ==
    /\ part = "rewards" => Rewards!RewardsCollected
    /\ part = "gated" => Gated!RewardsCollected
    /\ part = "claims" => Claims!SpendingClaimed
    /\ part = "eras" => Eras!ErasCollected
=============================================================================
