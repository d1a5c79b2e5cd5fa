------------------------------ MODULE EraRounds ------------------------------
(* The rounds of OnChainService: every ten minutes, and at the start, the  *)
(* coordinator turns the era, collects the rewards of past eras, applies   *)
(* what is pending between them, and claims terminated channels.  An error *)
(* of one action is ignored and the next has its turn.  Rounds may overlap,*)
(* and what one has read another may change before it acts on it.          *)
(*                                                                         *)
(* The contracts are external: rewards are collected era by era, as long   *)
(* as the eras before are settled, and an era is settled once nothing is   *)
(* pending.                                                                *)
EXTENDS Integers

CONSTANTS
    Rounds,         \* rounds in progress together
    Controllers,    \* keys of controllers the coordinator has
    Delegators,     \* who may change a stake
    Channels,       \* channels past their expiry
    BatchSize,      \* 20 in the code
    MaxEra,         \* bound
    None            \* no controller, nothing read

VARIABLES
    era, due,           \* eraNumber, and whether its period has passed
    claimed, settled,   \* lastClaimEra, lastSettledEra
    stakers, rate,      \* getPendingStakers, getCommissionRateChangedEra
    channels,           \* the status of each channel
    controller,         \* getActiveController
    paused,             \* maintenance, or too small a balance
    wallet,             \* the wallet of the contract sdk
    round               \* the steps of each round

rewardVars == <<claimed, settled, stakers, rate>>
chainVars == <<era, due, rewardVars, channels>>
operator == <<controller, paused>>
eraVars == <<chainVars, operator, wallet, round>>

Asleep == [at |-> "idle", batches |-> 0, read |-> {}]

Go(r, at) == round' = [round EXCEPT ![r] = [Asleep EXCEPT !.at = at]]
At(r, at) == round[r].at = at

Pending == stakers # {} \/ rate # 0

----------------------------------------------------------------------------
(* updateContractSDK takes the wallet of the controller that is active.    *)
CheckControllerReady(r) ==
    /\ At(r, "idle")
    /\ IF controller = None THEN UNCHANGED <<wallet, round>>
       ELSE wallet' = controller /\ (IF paused THEN UNCHANGED round ELSE Go(r, "era"))
    /\ UNCHANGED <<chainVars, operator>>

(* A read of the network fails: the action ends.                           *)
Following(at) ==
    CASE at \in {"era", "turn"}               -> "collect"
      [] at \in {"collect", "single", "batch"} -> "icr"
      [] at \in {"icr", "apply"}              -> "stake"
      [] at \in {"stake", "restake"}          -> "channels"
      [] at \in {"channels", "claim"}         -> "idle"

(* wrapAndIgnoreError: an action that fails ends, and the next has its     *)
(* turn.  A read of the chain may fail, and so may a transaction.          *)
Ends(r) == Go(r, Following(round[r].at)) /\ UNCHANGED chainVars

ActionFails(r) ==
    /\ ~At(r, "idle")
    /\ Ends(r)
    /\ UNCHANGED <<operator, wallet>>

(* The contracts refuse a controller that is not the indexer's any more.   *)
Sent == wallet = controller /\ controller # None

----------------------------------------------------------------------------
(* updateEraNumberAction                                                   *)
ReadTime(r) ==
    /\ At(r, "era")
    /\ Go(r, IF due THEN "turn" ELSE "collect")
    /\ UNCHANGED <<chainVars, operator, wallet>>

UpdateEra(r) ==
    /\ At(r, "turn")
    /\ IF ~(Sent /\ due) THEN Ends(r)
       ELSE /\ era' = era + 1 /\ due' = FALSE
            /\ Go(r, "collect")
            /\ UNCHANGED <<rewardVars, channels>>
    /\ UNCHANGED <<operator, wallet>>

(* collectAndDistributeRewardsAction                                       *)
CanCollect == claimed > 0 /\ claimed < era - 1 /\ claimed <= settled

Batches == (era - (claimed + 1)) \div BatchSize + 1

ReadEras(r) ==
    /\ At(r, "collect")
    /\ CASE ~CanCollect -> Go(r, "icr")
         [] CanCollect /\ Pending -> Go(r, "single")
         [] OTHER -> IF Batches = 0 THEN Go(r, "icr")
                     ELSE round' = [round EXCEPT ![r].at = "batch", ![r].batches = Batches]
    /\ UNCHANGED <<chainVars, operator, wallet>>

Collect(n) ==
    /\ claimed' = claimed + n
    /\ settled' = IF Pending THEN settled ELSE claimed + n
    /\ UNCHANGED <<era, due, stakers, rate, channels>>

CollectAndDistribute(r) ==
    /\ At(r, "single")
    /\ IF Sent /\ CanCollect THEN Collect(1) /\ Go(r, "icr") ELSE Ends(r)
    /\ UNCHANGED <<operator, wallet>>

(* One batch: up to BatchSize eras, or one when something has come up; or  *)
(* none, which is no error.                                                *)
InBatch ==
    LET left == era - 1 - claimed IN
    IF claimed > settled THEN 0
    ELSE IF Pending /\ left > 0 THEN 1
    ELSE IF left < BatchSize THEN left ELSE BatchSize

BatchCollect(r) ==
    /\ At(r, "batch")
    /\ IF ~Sent THEN Ends(r)
       ELSE /\ Collect(InBatch)
            /\ IF round[r].batches = 1 THEN Go(r, "icr")
               ELSE round' = [round EXCEPT ![r].batches = @ - 1]
    /\ UNCHANGED <<operator, wallet>>

(* applyICRChangeAction, applyStakeChangesAction                           *)
ReadRate(r) ==
    /\ At(r, "icr")
    /\ Go(r, IF rate # 0 /\ rate <= era /\ settled < claimed THEN "apply" ELSE "stake")
    /\ UNCHANGED <<chainVars, operator, wallet>>

ApplyRate(r) ==
    /\ At(r, "apply")
    /\ IF ~(Sent /\ rate # 0 /\ rate <= era) THEN Ends(r)
       ELSE /\ rate' = 0
            /\ settled' = IF stakers = {} THEN claimed ELSE settled
            /\ Go(r, "stake")
            /\ UNCHANGED <<era, due, claimed, stakers, channels>>
    /\ UNCHANGED <<operator, wallet>>

ReadStakers(r) ==
    /\ At(r, "stake")
    /\ IF stakers = {} \/ settled >= claimed THEN Go(r, "channels")
       ELSE round' = [round EXCEPT ![r].at = "restake", ![r].read = stakers]
    /\ UNCHANGED <<chainVars, operator, wallet>>

ApplyStakes(r) ==
    /\ At(r, "restake")
    /\ IF ~(Sent /\ round[r].read \subseteq stakers) THEN Ends(r)
       ELSE /\ stakers' = stakers \ round[r].read
            /\ settled' = IF stakers' = {} /\ rate = 0 THEN claimed ELSE settled
            /\ Go(r, "channels")
            /\ UNCHANGED <<era, due, claimed, rate, channels>>
    /\ UNCHANGED <<operator, wallet>>

(* closeExpiredStateChannelsAction                                         *)
GetExpiredChannels(r) ==
    /\ At(r, "channels")
    /\ LET expired == {c \in Channels : channels[c] # "final"} IN
       IF expired = {} THEN Go(r, "idle")
       ELSE round' = [round EXCEPT ![r].at = "claim", ![r].read = expired]
    /\ UNCHANGED <<chainVars, operator, wallet>>

(* A channel is claimed once the time to challenge it has passed.          *)
ClaimChannel(r) ==
    /\ At(r, "claim")
    /\ \E c \in round[r].read :
          IF channels[c] = "due" /\ ~Sent THEN Ends(r)
          ELSE /\ channels' = [channels EXCEPT ![c] = IF @ = "due" THEN "final" ELSE @]
               /\ IF round[r].read = {c} THEN Go(r, "idle")
                  ELSE round' = [round EXCEPT ![r].read = @ \ {c}]
               /\ UNCHANGED <<era, due, rewardVars>>
    /\ UNCHANGED <<operator, wallet>>

Restart ==
    /\ round' = [r \in Rounds |-> Asleep] /\ wallet' = None
    /\ UNCHANGED <<chainVars, operator>>

----------------------------------------------------------------------------
EraEnds ==
    /\ era < MaxEra /\ due' = TRUE
    /\ UNCHANGED <<era, rewardVars, channels, operator, wallet, round>>

(* A delegation, and a commission rate for a later era.                    *)
Change ==
    /\ \/ \E s \in Delegators : stakers' = stakers \cup {s} /\ UNCHANGED rate
       \/ rate = 0 /\ rate' \in era + 1 .. MaxEra /\ UNCHANGED stakers
    /\ UNCHANGED <<era, due, claimed, settled, channels, operator, wallet, round>>

Terminate ==
    /\ \E c \in Channels :
          \/ channels[c] = "open" /\ channels' = [channels EXCEPT ![c] = "terminating"]
          \/ channels[c] = "terminating" /\ channels' = [channels EXCEPT ![c] = "due"]
    /\ UNCHANGED <<era, due, rewardVars, operator, wallet, round>>

Operate ==
    /\ \/ controller' \in Controllers \cup {None} /\ UNCHANGED paused
       \/ paused' = ~paused /\ UNCHANGED controller
    /\ UNCHANGED <<chainVars, wallet, round>>

Init ==
    /\ era = 2 /\ due = FALSE
    /\ claimed = 1 /\ settled = 1 /\ stakers = {} /\ rate = 0
    /\ channels = [c \in Channels |-> "open"]
    /\ controller = None /\ paused = FALSE /\ wallet = None
    /\ round = [r \in Rounds |-> Asleep]

RoundStep(r) ==
    \/ CheckControllerReady(r) \/ ReadTime(r) \/ UpdateEra(r) \/ ReadEras(r)
    \/ CollectAndDistribute(r) \/ BatchCollect(r) \/ ReadRate(r)
    \/ ApplyRate(r) \/ ReadStakers(r) \/ ApplyStakes(r) \/ GetExpiredChannels(r)
    \/ ClaimChannel(r)

Next ==
    \/ \E r \in Rounds : RoundStep(r) \/ ActionFails(r)
    \/ Restart \/ EraEnds \/ Change \/ Terminate \/ Operate

Spec == Init /\ [][Next]_eraVars

(* A round is started again and again, and each of its steps ends.         *)
Fairness == \A r \in Rounds : WF_eraVars(RoundStep(r))

(* The types of the eras and the rounds.                                   *)
TypeOK ==
    /\ era \in 2 .. MaxEra /\ due \in BOOLEAN
    /\ claimed \in 1 .. era /\ settled \in 1 .. claimed
    /\ stakers \subseteq Delegators /\ rate \in 0 .. MaxEra
    /\ controller \in Controllers \cup {None} /\ wallet \in Controllers \cup {None}
    /\ \A r \in Rounds : round[r].batches \in 0 .. MaxEra

(* From some time on nothing fails, the account is funded and its          *)
(* controller stays.                                                       *)
Quiet ==
    /\ <>[][~(Operate \/ Restart \/ \E r \in Rounds : ActionFails(r))]_eraVars
    /\ <>[](controller # None /\ ~paused)

(* Then the rewards of every past era are collected at last and every      *)
(* channel whose time to be challenged has passed is claimed, whatever was *)
(* pending between the eras, whatever failed before and however rounds     *)
(* overlapped.                                                             *)
ErasCollected ==
    Quiet => /\ []<>(claimed = era - 1)
             /\ \A c \in Channels : channels[c] = "due" ~> channels[c] = "final"

=============================================================================
