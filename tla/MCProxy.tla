------------------------------- MODULE MCProxy -------------------------------
(* Small instances of the proxy's components for TLC.  A behaviour is a    *)
(* behaviour of one part, which is chosen at the start; the variables of   *)
(* the other parts keep their first value.  "ranges" is ChannelCache with   *)
(* the constants of the configuration, "single" the same with others.      *)
EXTENDS MCChannelCache, CacheParts, ProxyParts

CONSTANTS q1, q2, d1, d2, t1, s1, s2, k1, k2

statsVars ==
    <<clock, restarts, task, keys, timer, hour, owner, previous, report, post, statsRow, torn>>
limitVars == <<now, token, issue, limits, count, admitted, check>>
socketVars == <<wsCache, total, slot, socket, bill>>
queryVars == <<table, tokens, used, query, offered, booked>>
aiVars == <<aiCache, stream, notes>>
offerVars == <<time, terms, rate, key, expiry, quote, handler, seen>>
proxyVars == <<part, vars, statsVars, limitVars, socketVars, queryVars, aiVars, offerVars>>

Single == INSTANCE ChannelCache WITH
    Modes <- {"single"}, Amounts <- MCSingleAmounts, UnitCosts <- MCSingleUnits,
    RangeMax <- 2, Rows <- MCSingleRows, MaxBill <- 3

\* Of the two tasks of "single" one neither pays nor ends the channel.
Plain(t) == t.pc \in {"idle", "single"} /\ (t.pc = "single" => ~t.final)

\* Two queries of one deployment and two hours; the proxy starts anew, or, as
\* "overlap", two reports are handled at once while the table stays.
Overlap == INSTANCE QueryStats WITH
    row <- statsRow, Posts <- {s1, s2}, MaxRestarts <- 0

MCOf == [q \in Queries |-> d1]

\* Projects of every type, and another deployment that comes first and stays; of
\* the requests of each route some are for another deployment, another endpoint,
\* a forbidden method or too large.
End(url, internal, ws) == [url |-> url, internal |-> internal, ws |-> ws]
Evm(url, deny, allow, limit) ==
    [type |-> "evm", deny |-> deny, allow |-> allow, limit |-> limit,
     units |-> "heavy" :> 2,
     endpoints |-> "default" :> End(url, FALSE, FALSE) @@ "admin" :> End("b", TRUE, FALSE)
                   @@ "ws" :> End("c", FALSE, TRUE)]
Model == [type |-> "ai", deny |-> {}, allow |-> {}, limit |-> None, units |-> <<>>,
          endpoints |-> "default" :> End("e", FALSE, FALSE)]
MCProjects ==
    {Evm("a", {"log"}, {}, 1), Evm("d", {}, {"light", "heavy"}, None), Model,
     [Model EXCEPT !.type = "subquery"]}

Ask(route, calls, multiple) ==
    [route |-> route, socket |-> FALSE, cred |-> d1, target |-> d1, name |-> "default",
     calls |-> calls, multiple |-> multiple, graphql |-> TRUE, path |-> FALSE]
MCRequests ==
    {Ask("agreement", <<"light">>, FALSE), Ask("payg", <<"light">>, FALSE),
     Ask("payg", <<"heavy", "light">>, TRUE), Ask("payg", <<"heavy", "heavy">>, TRUE),
     Ask("payg", <<"log">>, TRUE), Ask("whitelist", <<"log", "light">>, FALSE),
     [Ask("agreement", <<"light">>, FALSE) EXCEPT !.cred = d2],
     [Ask("whitelist", <<"light">>, FALSE) EXCEPT !.name = "admin"],
     [Ask("payg", <<"light">>, FALSE) EXCEPT !.name = "admin"],
     [Ask("whitelist", <<"light">>, FALSE) EXCEPT !.name = "ws"],
     [Ask("whitelist", <<"light">>, FALSE) EXCEPT !.graphql = FALSE]}
    \cup {[Ask(route, <<"light">>, FALSE) EXCEPT !.socket = TRUE, !.name = "ws"] :
             route \in {"agreement", "whitelist", "payg"}}

\* Terms and rates that change under a proposal.
Term(price, days) == [price |-> price, token |-> "usdc", expiration |-> days]
MCTerms == {Term(1, 1), Term(2, 2)}

\* Openings with quotes, or extensions of a channel.
Opening == INSTANCE ChannelOffer WITH
    Handlers <- Proposals, Kinds <- Kinds \ {"extend"}, Day <- QuoteDay, now <- time
Extension == INSTANCE ChannelOffer WITH
    Handlers <- Proposals, Kinds <- Kinds \ {"open"}, Day <- QuoteDay, now <- time

\* What the proofs take for granted about the constants.
ASSUME ProxyAssumption ==
    /\ Stats!StatsAssumption /\ Limit!LimitAssumption
    /\ Socket!SocketAssumption /\ Ai!StreamAssumption
    /\ Server!ServerAssumption /\ Offer!OfferAssumption

MCInit ==
    /\ part \in {"single", "ranges", "stats", "overlap", "limit", "socket", "query", "ai",
               "opening", "extension"}
    /\ IF part = "single" THEN Single!Init ELSE Init
    /\ IF part = "overlap" THEN Overlap!Init ELSE Stats!Init
    /\ Limit!Init /\ Socket!Init /\ Server!Init /\ Ai!Init /\ Offer!Init
    /\ part \notin {"opening", "extension"} => rate = 1 /\ key = k1

Others(own) ==
    /\ UNCHANGED part
    /\ own # "cache" => UNCHANGED vars
    /\ own # "stats" => UNCHANGED statsVars
    /\ own # "limit" => UNCHANGED limitVars
    /\ own # "socket" => UNCHANGED socketVars
    /\ own # "query" => UNCHANGED queryVars
    /\ own # "ai" => UNCHANGED aiVars
    /\ own # "offer" => UNCHANGED offerVars

\* The clock of "limit" stops at its bound.
MCNext ==
    \/ part = "ranges" /\ Next /\ Others("cache")
    \/ part = "single" /\ Single!Next /\ Others("cache")
       /\ hist'.bill <= 3 /\ Plain(tasks'[h2])
    \/ part = "stats" /\ Stats!Next /\ Others("stats")
    \/ part = "overlap" /\ Overlap!Next /\ Others("stats")
       /\ keys \subseteq keys' /\ timer \subseteq timer'
    \/ part = "limit" /\ Limit!Next /\ Others("limit")
    \/ part = "limit" /\ now = 2 /\ UNCHANGED proxyVars
    \/ part = "socket" /\ Socket!Next /\ Others("socket")
    \/ part = "query" /\ Server!Next /\ Others("query")
       /\ table'[d2] = Model
    \/ part = "ai" /\ Ai!Next /\ Others("ai")
    \/ part = "opening" /\ Opening!Next /\ Others("offer")
    \/ part = "extension" /\ Extension!Next /\ Others("offer")

MCSpec == MCInit /\ [][MCNext]_proxyVars

=============================================================================
