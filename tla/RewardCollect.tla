--------------------------- MODULE RewardCollect ---------------------------
(* The jobs of RewardService that collect: every day the allocation        *)
(* rewards of each deployment and then the unclaimed spending of each open *)
(* channel, and every half an hour again what failed.  An amount below its *)
(* threshold waits, until it has waited for the time limit.  What the      *)
(* retries send is postponed: nothing is sent, and nothing fails, unless   *)
(* the gate of ContractService has registered the action before.           *)
(*                                                                         *)
(* Amounts are 0, Small (below the threshold) or Large.                    *)
EXTENDS Naturals

CONSTANTS
    Deployments,    \* deployments with an allocation
    Channels,       \* open channels
    TimeLimit,      \* allocationBypassTimeLimit, in ticks
    GasLimited,     \* gasFeeLimitEnabled
    Unset           \* no start time

VARIABLES
    rewards,        \* the rewards of a deployment in the contract
    unclaimed,      \* what a channel owes: remote, less the contract's spent
    recorded,       \* remote - onchain of its row
    postponed,      \* the deployments and channels with a bypass key in redis
    ready,          \* checkControllerReady
    age,            \* time since ALLOCATION_REWARD_LAST_FORCE_TIME
    ages,           \* time since channelRewardsStartTimes of a channel
    ongoing,        \* txOngoingMap of the two jobs
    jobs            \* the daily run and the half-hourly one

chain == <<rewards, unclaimed, recorded, postponed, ready>>
vars == <<chain, age, ages, ongoing, jobs>>

Small == 1
Large == 2
Schedules == {"daily", "retry"}

Nothing == [c \in Channels |-> 0]
Asleep == [at |-> "idle", todo |-> {}, force |-> FALSE, failed |-> FALSE, seen |-> Nothing]

Move(j, step) == jobs' = [jobs EXCEPT ![j] = step]
At(j, step) == jobs[j].at = step
Flag(job, value) == ongoing' = [ongoing EXCEPT ![job] = value]

----------------------------------------------------------------------------
(* autoRunTasks and checkTasks.                                            *)
StartDaily ==
    /\ At("daily", "idle")
    /\ Flag("allocation", TRUE)
    /\ Move("daily", [Asleep EXCEPT !.at = "list"])
    /\ UNCHANGED <<chain, age, ages>>

StartRetry ==
    /\ At("retry", "idle")
    /\ \/ ongoing.allocation /\ Move("retry", [Asleep EXCEPT !.at = "list"])
       \/ /\ ~ongoing.allocation /\ ongoing.channel
          /\ Move("retry", [Asleep EXCEPT !.at = "channels"])
    /\ UNCHANGED <<chain, age, ages, ongoing>>

(* collectAllocationRewards up to its loop.  When the network does not     *)
(* answer it returns, and the next job has its turn.                       *)
ListAllocations(j) ==
    /\ At(j, "list")
    /\ age' = IF age = Unset THEN 0 ELSE age
    /\ Move(j, [Asleep EXCEPT !.at = "allocation", !.todo = Deployments,
                              !.force = age' = TimeLimit])
    /\ UNCHANGED <<chain, ages, ongoing>>

ListFails(j) ==
    /\ At(j, "list")
    /\ Move(j, [Asleep EXCEPT !.at = "channels"])
    /\ UNCHANGED <<chain, age, ages, ongoing>>

Done(j, d) == [jobs[j] EXCEPT !.at = "allocation", !.todo = @ \ {d}]

(* getAllocationRewards reports no rewards, and no error, when the         *)
(* controller is not ready.                                                *)
Wanted(j, d) ==
    ready /\ rewards[d] > 0 /\ (rewards[d] = Small => jobs[j].force)

CheckRewards(j) ==
    /\ At(j, "allocation")
    /\ \E d \in jobs[j].todo :
          Move(j, IF Wanted(j, d) THEN [jobs[j] EXCEPT !.at = d] ELSE Done(j, d))
    /\ UNCHANGED <<chain, age, ages, ongoing>>

CheckFails(j) ==
    /\ At(j, "allocation")
    /\ \E d \in jobs[j].todo : Move(j, [Done(j, d) EXCEPT !.failed = TRUE])
    /\ UNCHANGED <<chain, age, ages, ongoing>>

(* sendTransaction with txType check or postponed: a postponed one that is  *)
(* not registered returns at once; otherwise the key goes when it is sent.  *)
Skips(j, x) == GasLimited /\ j = "retry" /\ x \notin postponed

Send(j, x) == ~Skips(j, x) /\ postponed' = postponed \ {x}

(* Before it is sent the gate may refuse it as too expensive, and register  *)
(* a checked one, or the estimate fails.                                    *)
Refuse(j, x) ==
    /\ ~Skips(j, x)
    /\ \/ UNCHANGED postponed
       \/ GasLimited /\ postponed' = postponed \cup {x}

Collect(j, d) ==
    /\ At(j, d) /\ ready
    /\ Send(j, d)
    /\ rewards' = [rewards EXCEPT ![d] = 0]
    /\ Move(j, Done(j, d))
    /\ UNCHANGED <<unclaimed, recorded, ready, age, ages, ongoing>>

(* Nothing is sent, and that is a success.                                 *)
CollectSkipped(j, d) ==
    /\ At(j, d) /\ ready
    /\ Skips(j, d)
    /\ Move(j, Done(j, d))
    /\ UNCHANGED <<chain, age, ages, ongoing>>

(* The transaction is refused or fails, or its answer is lost.             *)
CollectFails(j, d) ==
    /\ At(j, d) /\ ready
    /\ \/ Refuse(j, d) /\ UNCHANGED rewards
       \/ Send(j, d) /\ rewards' \in {rewards, [rewards EXCEPT ![d] = 0]}
    /\ Move(j, [Done(j, d) EXCEPT !.failed = TRUE])
    /\ UNCHANGED <<unclaimed, recorded, ready, age, ages, ongoing>>

(* collectAllocationReward returns nothing when the controller is not      *)
(* ready: reading its result throws, and the whole cron job ends.          *)
CollectThrows(j, d) ==
    /\ At(j, d) /\ ~ready
    /\ Move(j, Asleep)
    /\ UNCHANGED <<chain, age, ages, ongoing>>

(* Mutant of EndAllocations: every run without failure counts as forced.   *)
EndAllocationsAny(j) ==
    /\ At(j, "allocation") /\ jobs[j].todo = {}
    /\ IF jobs[j].failed THEN UNCHANGED ongoing ELSE Flag("allocation", FALSE)
    /\ age' = IF ~jobs[j].failed THEN 0 ELSE age
    /\ Move(j, [Asleep EXCEPT !.at = "channels"])
    /\ UNCHANGED <<chain, ages>>

EndAllocations(j) ==
    /\ At(j, "allocation") /\ jobs[j].todo = {}
    /\ IF jobs[j].failed THEN UNCHANGED ongoing ELSE Flag("allocation", FALSE)
    /\ age' = IF jobs[j].force /\ ~jobs[j].failed THEN 0 ELSE age
    /\ Move(j, [Asleep EXCEPT !.at = "channels"])
    /\ UNCHANGED <<chain, ages>>

----------------------------------------------------------------------------
(* collectStateChannelRewards: the daily job runs it, the other one when   *)
(* it is marked as ongoing.                                                *)
StartChannels(j) ==
    /\ At(j, "channels")
    /\ IF j = "daily" \/ ongoing.channel
       THEN /\ Flag("channel", FALSE)
            /\ Move(j, [Asleep EXCEPT !.at = "channel", !.todo = Channels,
                                      !.seen = recorded])
       ELSE Move(j, Asleep) /\ UNCHANGED ongoing
    /\ UNCHANGED <<chain, age, ages>>

Passed(j, c) == [jobs[j] EXCEPT !.at = "channel", !.todo = @ \ {c}]

(* Mutant of CheckChannel: the time starts again at every check.           *)
CheckChannelAnew(j) ==
    /\ At(j, "channel")
    /\ \E c \in jobs[j].todo : LET amount == jobs[j].seen[c] IN
          /\ ages' = [ages EXCEPT ![c] = IF amount = 0 THEN @ ELSE 0]
          /\ Move(j, IF amount # Large THEN Passed(j, c) ELSE [jobs[j] EXCEPT !.at = c])
    /\ UNCHANGED <<chain, age, ongoing>>

(* The rows were read once, before the first of them is looked at.         *)
CheckChannel(j) ==
    /\ At(j, "channel")
    /\ \E c \in jobs[j].todo :
       LET amount == jobs[j].seen[c]
           waited == IF ages[c] = Unset THEN 0 ELSE ages[c] IN
          /\ ages' = [ages EXCEPT ![c] = IF amount = 0 THEN @ ELSE waited]
          /\ Move(j, IF amount = 0 \/ (amount = Small /\ waited < TimeLimit)
                     THEN Passed(j, c) ELSE [jobs[j] EXCEPT !.at = c])
    /\ UNCHANGED <<chain, age, ongoing>>

(* checkpoint reads the row again.  What it sends, or skips, it records as *)
(* claimed.                                                                *)
Record(j, c) ==
    /\ At(j, c)
    /\ recorded' = [recorded EXCEPT ![c] = 0]
    /\ ages' = [ages EXCEPT ![c] = Unset]
    /\ Move(j, Passed(j, c))
    /\ UNCHANGED <<rewards, ready, age, ongoing>>

Checkpoint(j, c) ==
    /\ recorded[c] # 0 /\ Send(j, c)
    /\ unclaimed' = [unclaimed EXCEPT ![c] = 0]
    /\ Record(j, c)

CheckpointSkipped(j, c) ==
    /\ recorded[c] = 0 \/ Skips(j, c)
    /\ Record(j, c)
    /\ UNCHANGED <<unclaimed, postponed>>

(* The transaction is refused or fails, or its answer is lost.             *)
CheckpointFails(j, c) ==
    /\ At(j, c)
    /\ \/ Refuse(j, c) /\ UNCHANGED unclaimed
       \/ Send(j, c) /\ unclaimed' \in {unclaimed, [unclaimed EXCEPT ![c] = 0]}
    /\ Flag("channel", TRUE)
    /\ Move(j, Passed(j, c))
    /\ UNCHANGED <<rewards, recorded, ready, age, ages>>

EndChannels(j) ==
    /\ At(j, "channel") /\ jobs[j].todo = {}
    /\ Move(j, Asleep)
    /\ UNCHANGED <<chain, age, ages, ongoing>>

----------------------------------------------------------------------------
Earn ==
    /\ \/ \E d \in Deployments, n \in {Small, Large} :
             rewards[d] < n /\ rewards' = [rewards EXCEPT ![d] = n]
             /\ UNCHANGED <<unclaimed, recorded>>
       \/ \E c \in Channels, m, n \in {Small, Large} :
             /\ unclaimed[c] <= m /\ unclaimed' = [unclaimed EXCEPT ![c] = m]
             /\ recorded[c] <= n /\ recorded' = [recorded EXCEPT ![c] = n]
             /\ UNCHANGED rewards
    /\ UNCHANGED <<postponed, ready, age, ages, ongoing, jobs>>

(* The minute's synchronisation takes onchain from the contract.           *)
SyncChannel(c) ==
    /\ recorded' = [recorded EXCEPT ![c] = unclaimed[c]]
    /\ UNCHANGED <<rewards, unclaimed, postponed, ready, age, ages, ongoing, jobs>>

(* A bypass key expires.                                                   *)
Expire ==
    /\ \E x \in postponed : postponed' = postponed \ {x}
    /\ UNCHANGED <<rewards, unclaimed, recorded, ready, age, ages, ongoing, jobs>>

Older(a) == IF a \in {Unset, TimeLimit} THEN a ELSE a + 1

Tick ==
    /\ age' = Older(age)
    /\ ages' = [c \in Channels |-> Older(ages[c])]
    /\ UNCHANGED <<chain, ongoing, jobs>>

ControllerChanges ==
    /\ ready' = ~ready
    /\ UNCHANGED <<rewards, unclaimed, recorded, postponed, age, ages, ongoing, jobs>>

(* The flags and the channels' start times are in memory only.             *)
Restart ==
    /\ jobs' = [j \in Schedules |-> Asleep]
    /\ ongoing' = [allocation |-> FALSE, channel |-> FALSE]
    /\ ages' = [c \in Channels |-> Unset]
    /\ UNCHANGED <<chain, age>>

Init ==
    /\ rewards = [d \in Deployments |-> 0]
    /\ unclaimed = Nothing /\ recorded = Nothing
    /\ postponed = {}
    /\ ready = TRUE
    /\ age = Unset
    /\ ages = [c \in Channels |-> Unset]
    /\ ongoing = [allocation |-> FALSE, channel |-> FALSE]
    /\ jobs = [j \in Schedules |-> Asleep]

JobStep(j) ==
    \/ ListAllocations(j) \/ CheckRewards(j) \/ EndAllocations(j)
    \/ StartChannels(j) \/ CheckChannel(j) \/ EndChannels(j)
    \/ \E d \in Deployments : Collect(j, d) \/ CollectSkipped(j, d) \/ CollectThrows(j, d)
    \/ \E c \in Channels : Checkpoint(j, c) \/ CheckpointSkipped(j, c)

Failure ==
    \E j \in Schedules :
        \/ ListFails(j) \/ CheckFails(j)
        \/ \E d \in Deployments : CollectFails(j, d)
        \/ \E c \in Channels : CheckpointFails(j, c)

Next ==
    \/ StartDaily \/ StartRetry \/ (\E j \in Schedules : JobStep(j))
    \/ \E c \in Channels : SyncChannel(c)
    \/ Failure \/ Earn \/ Expire \/ Tick \/ ControllerChanges \/ Restart

Spec == Init /\ [][Next]_vars

(* The scheduler starts the daily job and the synchronisation again and    *)
(* again, a step of a job ends, and time passes.                           *)
Fairness ==
    /\ WF_vars(StartDaily) /\ WF_vars(Tick)
    /\ \A j \in Schedules : WF_vars(JobStep(j))
    /\ \A c \in Channels : WF_vars(SyncChannel(c))

Amounts == {0, Small, Large}

(* The types of the ages, the flags and the runs.                          *)
TypeOK ==
    /\ rewards \in [Deployments -> Amounts]
    /\ unclaimed \in [Channels -> Amounts] /\ recorded \in [Channels -> Amounts]
    /\ postponed \subseteq Deployments \cup Channels
    /\ age \in 0 .. TimeLimit \cup {Unset}
    /\ ages \in [Channels -> 0 .. TimeLimit \cup {Unset}]
    /\ ongoing \in [{"allocation", "channel"} -> BOOLEAN]
    /\ \A j \in Schedules :
          /\ jobs[j].at \in {"idle", "list", "allocation", "channels", "channel"}
                            \cup Deployments \cup Channels
          /\ jobs[j].todo \subseteq Deployments \cup Channels
          /\ jobs[j].seen \in [Channels -> Amounts]

(* From some time on nothing fails, the controller is ready and the        *)
(* coordinator stays up.                                                   *)
Quiet == <>[][~(Failure \/ ControllerChanges \/ Restart)]_vars /\ <>[]ready

(* With a gas limit, from some time on the two runs do not overlap: by     *)
(* default the daily one starts a minute after every full hour's retry     *)
(* (yargs.ts 198-209).  A retry that meets the daily run finds the flag    *)
(* set, skips what is not registered, and puts off what is forced.         *)
Apart == GasLimited => <>[](At("daily", "idle") \/ At("retry", "idle"))

(* Rewards are collected at last, also those that stay below the           *)
(* threshold, whatever failed or was skipped before.                       *)
RewardsCollected ==
    Quiet /\ Apart => \A d \in Deployments : rewards[d] > 0 ~> rewards[d] = 0

(* What a channel has spent is claimed at last, also when it stays below   *)
(* the threshold, whatever failed before, whichever of the two runs comes  *)
(* first, and although a checkpoint that was skipped is recorded as done.  *)
SpendingClaimed ==
    Quiet => \A c \in Channels : unclaimed[c] > 0 ~> unclaimed[c] = 0

=============================================================================
