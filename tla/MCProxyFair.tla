----------------------------- MODULE MCProxyFair -----------------------------
(* What the proxy reaches at last, on small instances.  As in MCProxy a    *)
(* behaviour is a behaviour of one part.  The fairness is the one each     *)
(* component states, for the part at hand.                                 *)
EXTENDS MCChannelCache, PeerParts

CONSTANTS q1, q2, d1, a1, a2, p1, p2, None

VARIABLES
    part,
    \* QueryStats
    clock, restarts, task, keys, timer, hour, owner, previous, report, post, statsRow, torn,
    \* Whitelist
    listed, accounts, asker, pass, due,
    \* ProjectTable
    running, floor, market, cached, defect, down, sync, table

statsVars ==
    <<clock, restarts, task, keys, timer, hour, owner, previous, report, post, statsRow, torn>>
whitelistVars == <<listed, accounts, asker, pass, due>>
tableVars == <<running, floor, market, cached, defect, down, sync, table>>
accountVars == <<rows, indexer, controllers, active, account, loop, port, sender, signalled>>
peerVars == <<peer, address, boot, events, links, dials, kad, reach>>
proxyVars ==
    <<part, vars, statsVars, whitelistVars, tableVars, accountVars, peerVars>>

Stats == INSTANCE QueryStats WITH
    Queries <- {q1, q2}, Deployments <- {d1}, Of <- [q \in {q1, q2} |-> d1],
    MaxHour <- 2, MaxRestarts <- 0, Posts <- {1}, row <- statsRow

Whitelist == INSTANCE Whitelist WITH Accounts <- {a1, a2}

Table == INSTANCE ProjectTable WITH
    Projects <- {p1, p2}, Floors <- {0, 2}, Markets <- {2, 6}, Ratio <- 50

\* The table of "stats" stays, and the timer is not taken; MCProxy has both.
\* Of the two projects either one runs, its price and the market moving, or
\* both run at a fixed price and p1 may be defective.
PricesMove ==
    p2 \notin running /\ floor[p2] = 0 /\ market[p2] = 2 /\ defect = [p \in {p1, p2} |-> None]
PricesStay ==
    floor = [p \in {p1, p2} |-> 2] /\ market = floor /\ "market" \notin down /\ defect[p2] = None

MCInit ==
    /\ part \in {"cache", "stats", "whitelist", "prices", "projects", "account",
               "peer"}
    /\ Init /\ Stats!Init /\ Whitelist!Init /\ Table!Init /\ Account!Init
    /\ Peer!Init
    /\ IF part = "prices" THEN PricesMove ELSE PricesStay

Others(own) ==
    /\ UNCHANGED part
    /\ own # "cache" => UNCHANGED vars
    /\ own # "stats" => UNCHANGED statsVars
    /\ own # "whitelist" => UNCHANGED whitelistVars
    /\ own # "table" => UNCHANGED tableVars
    /\ own # "account" => UNCHANGED accountVars
    /\ own # "peer" => UNCHANGED peerVars

MCNext ==
    \/ part = "cache" /\ Next /\ Others("cache")
    \/ part = "stats" /\ Stats!Next /\ Others("stats")
       /\ keys \subseteq keys' /\ timer \subseteq timer'
    \/ part = "whitelist" /\ Whitelist!Next /\ Others("whitelist")
    \/ part = "prices" /\ Table!Next /\ PricesMove' /\ Others("table")
    \/ part = "projects" /\ Table!Next /\ PricesStay' /\ Others("table")
    \/ part = "account" /\ Account!Next /\ Others("account")
    \/ part = "peer" /\ Peer!Next /\ Others("peer")

\* The fairness of the components, each for its part.
MCFairness ==
    /\ WF_vars(part = "cache" /\ PollFetch /\ UNCHANGED row)
    /\ WF_vars(part = "cache" /\ PollRead /\ UNCHANGED row)
    /\ WF_vars(part = "cache" /\ (PollWrite \/ PollDrop) /\ UNCHANGED row)
    /\ SF_vars(part = "cache" /\ PollWrite /\ UNCHANGED row)
    /\ WF_statsVars(part = "stats" /\ Stats!Report)
    /\ WF_statsVars(part = "stats" /\ (Stats!Find(1) \/ Stats!Save(1) \/ Stats!SaveFails(1)))
    /\ WF_whitelistVars(part = "whitelist" /\ Whitelist!Reply)
    /\ WF_whitelistVars(part = "whitelist" /\ Whitelist!Insert)
    /\ SF_whitelistVars(part = "whitelist" /\ Whitelist!Refresh)
    /\ WF_whitelistVars(part = "whitelist" /\ Whitelist!Elapse)
    /\ WF_tableVars(part \in {"prices", "projects"} /\ Table!Sync)
    /\ WF_tableVars(part \in {"prices", "projects"} /\ Table!RefreshPrice)
    /\ WF_accountVars(part = "account" /\ Account!HandleAccount)
    /\ WF_accountVars(part = "account" /\ Account!GetIndexer)
    /\ \A i \in Loops : WF_accountVars(part = "account" /\ Account!Process(i))
    /\ WF_peerVars(part = "peer" /\ Peer!Handle)
    /\ WF_peerVars(part = "peer" /\ Peer!ConnectBootNode)
    /\ WF_peerVars(part = "peer" /\ Peer!CheckMetrics)
    /\ WF_peerVars(part = "peer" /\ Peer!Discover)
    /\ \A n \in Peer!Nodes :
          /\ WF_peerVars(part = "peer" /\ Peer!Identify(n))
          /\ WF_peerVars(part = "peer" /\ Peer!Dialled(n))

MCSpec == MCInit /\ [][MCNext]_proxyVars /\ MCFairness

-----------------------------------------------------------------------------
\* The key of an open channel comes back, that of a closed one goes.
ChannelsFollow == part = "cache" => LiveChannelServed /\ ClosedChannelDropped

\* The counters of past hours are delivered.
BacklogDelivered == part = "stats" => Stats!BacklogDelivered

\* An account that is struck off the whitelist is refused.
RevokedRefused == part = "whitelist" => Whitelist!RevokedRefused

\* The proxy's table follows the coordinator's projects and prices.
TableFollows == part \in {"prices", "projects"} => Table!TableFollows

\* The proxy's identity follows the registered controller.
IdentityFollows == part = "account" => Account!IdentityFollows

\* The loop is connected with the metrics node at last.
MetricsReached == part = "peer" => Peer!MetricsReached
=============================================================================
