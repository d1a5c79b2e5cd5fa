-------------------------------- MODULE Payg --------------------------------
(* Pay-as-you-go as a whole: the proxy's account of a channel, ChannelCache, *)
(* with the coordinator's row as its environment, ChannelStore.  Every       *)
(* update of the row was sent by the proxy, and may be lost or overtaken on  *)
(* its way; the proxy polls what the coordinator reports of the row, and     *)
(* asks for it when a payment comes.  ChannelCache lets the row take any     *)
(* value with a signed amount; here it is shown that it takes no other.      *)
EXTENDS ChannelStore

CONSTANTS
    \* ChannelCache; the amounts are those of ChannelStore.
    Handlers, NoCache, Modes, UnitCosts, MaxConflict, RangeMax, MaxBill, MaxQueued

VARIABLES
    cache, tasks, poll, outbox, hist,   \* ChannelCache
    past                                \* the row's expiry is over

proxyVars == <<cache, tasks, poll, outbox>>
paygVars == <<storeVars, proxyVars, hist, past>>

\* The row as getAliveChannels and channel report it.  Without a row there is
\* nothing that is alive.
View ==
    IF row = NoRow
    THEN [spent |-> 0, remote |-> 0, total |-> 0, price |-> 0, final |-> TRUE,
          expired |-> TRUE]
    ELSE [spent |-> row.spent, remote |-> row.remote, total |-> row.total,
          price |-> row.price, final |-> row.lastFinal, expired |-> past]

Views == [spent: Nat, remote: Nat, total: Nat, price: Nat, final: BOOLEAN,
          expired: BOOLEAN]

Cache == INSTANCE ChannelCache WITH row <- View, Rows <- Views

-----------------------------------------------------------------------------
\* A payment asks for the channel and fails when there is none.
ProxyTask(h) ==
    \/ Cache!Request(h)
    \/ Cache!TaskStep(h) /\ (row = NoRow => tasks'[h].pc # "paid")

ProxyStep ==
    /\ (\E h \in Handlers : ProxyTask(h)) \/ Cache!Evict \/ Cache!Polling
    /\ UNCHANGED <<storeVars, past>>

\* channelUpdate arrives, in any order, or its error is logged.
Deliver(j, m) == Cache!Take(m) /\ UpdateLoad(j, m) /\ UNCHANGED past
Lose(m) == Cache!Take(m) /\ UNCHANGED <<storeVars, past>>

\* The coordinator's other steps, and time.  What the row shows is noted.
CoordinatorStep == OtherNext /\ UNCHANGED past
Elapse == past' \in BOOLEAN /\ UNCHANGED storeVars

RowStep ==
    /\ CoordinatorStep \/ Elapse
    /\ hist' = Cache!Remember(hist, View')
    /\ UNCHANGED proxyVars

PaygInit ==
    /\ Init /\ past = FALSE
    /\ cache = NoCache
    /\ tasks = [h \in Handlers |-> Cache!IdleTask] /\ poll = Cache!IdleTask
    /\ outbox = [m \in Cache!Update |-> 0]
    /\ hist = Cache!Remember([signed |-> {0}, bill |-> 0, ceiling |-> 0, gap |-> 0], View)

PaygNext ==
    \/ ProxyStep \/ RowStep
    \/ \E m \in Cache!Update : Lose(m) \/ \E j \in Jobs : Deliver(j, m)

PaygSpec == PaygInit /\ [][PaygNext]_paygVars
-----------------------------------------------------------------------------
\* The contract pays the indexer amounts only that the consumer has signed for
\* a query or a payment at the proxy, whatever updates are lost or overtaken and
\* whatever concurrent calls save of the row (payg.rs, the channelUpdate
\* mutations; payg.service.ts, update, checkpoint, terminate and respond).
SettledWasSigned == chain.spent \in hist.signed
=============================================================================
