------------------------------ MODULE ProxyParts ------------------------------
(* The proxy's components beside the account of a channel, each with its    *)
(* own constants and variables, and what each of them promises.  MCProxy    *)
(* checks the promises on small instances; ProxyProofs and RequestProofs    *)
(* prove them for any.                                                      *)

CONSTANTS
    None,
    \* QueryStats
    Queries, Deployments, Of, MaxHour, MaxRestarts, Posts,
    \* AgreementLimit
    Tasks, Daily, Rate, ProjectRate, Lifetime, DayLength, MaxSecond,
    \* SocketCharge
    Sockets, WsUnits, Ends, Price, Total, MaxTotal, WsRangeMax, WsMaxBill,
    \* QueryServer
    Calls, Targets, Projects, Requests, Auth, MaxBatch, MaxUnits,
    \* AiStream
    Streams, AiRequests, Batch, AiRangeMax, AiEnds, AiTotal, MaxMessages,
    \* ChannelOffer
    Proposals, Kinds, Terms, Rates, Keys, Prices, Periods, QuoteDay, Gap, MaxTime

VARIABLES
    \* QueryStats
    clock, restarts, task, keys, timer, hour, owner, previous, report, post, statsRow, torn,
    \* AgreementLimit
    now, token, issue, limits, count, admitted, check,
    \* SocketCharge
    wsCache, total, slot, socket, bill,
    \* QueryServer
    table, tokens, used, query, offered, booked,
    \* AiStream
    aiCache, stream, notes,
    \* ChannelOffer
    time, terms, rate, key, expiry, quote, handler, seen

Stats == INSTANCE QueryStats WITH row <- statsRow
Limit == INSTANCE AgreementLimit WITH task <- check
Socket == INSTANCE SocketCharge WITH
    Units <- WsUnits, RangeMax <- WsRangeMax, MaxBill <- WsMaxBill, cache <- wsCache
Server == INSTANCE QueryServer WITH Queries <- Calls, Deployments <- Targets
Ai == INSTANCE AiStream WITH
    Requests <- AiRequests, RangeMax <- AiRangeMax, Ends <- AiEnds, Total <- AiTotal,
    cache <- aiCache
Offer == INSTANCE ChannelOffer WITH
    Handlers <- Proposals, Day <- QuoteDay, now <- time

-----------------------------------------------------------------------------
\* The proxy holds a counted query under at most one hour (metrics.rs).
BookedOnce == Stats!BookedOnce

\* The coordinator counts a query under the hour the proxy booked it under,
\* although reports are refused, sent again and handled late (metrics.rs,
\* stats.service.ts).
CountedAsBooked == Stats!CountedAsBooked

\* While a token is valid its limits are in redis (auth.rs, create_jwt).
TokenHasLimits == Limit!TokenHasLimits

\* What is charged for the answers of the sockets of a channel is bounded by
\* what they answered, and the account stays within the funds (websocket.rs).
SocketsCovered == Socket!SocketsCovered

\* What is answered was admitted by the project as it was meanwhile (server.rs,
\* project.rs).
AnsweredWasAdmitted == Server!AnsweredWasAdmitted

\* A stream gives away less than a batch (ai.rs).
LessThanBatchUnpaid == Ai!LessThanBatchUnpaid

\* A channel is opened or extended at a price the project asked for meanwhile
\* (payg.rs, open_state and extend_channel).
AcceptedAtPrice == Offer!AcceptedAtPrice
===============================================================================
