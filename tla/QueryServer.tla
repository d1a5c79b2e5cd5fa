----------------------------- MODULE QueryServer -----------------------------
(* The routes of the proxy that answer queries: with a token of an         *)
(* agreement, as a whitelisted account, or paid from a channel, over HTTP  *)
(* or by opening a websocket.  A handler looks a project up in the table   *)
(* one or two times while the table is replaced under it, so what it       *)
(* forwards, refuses and charges may come from two versions of a project.  *)
EXTENDS Naturals, Sequences

CONSTANTS
    Queries,        \* requests in progress
    Deployments,
    Projects,       \* what the coordinator may make of a project
    Requests,       \* what a consumer may ask for
    Auth,           \* COMMAND.auth()
    MaxBatch,       \* calls in a body, 100 in the code
    MaxUnits,       \* units of a body, 1000 in the code
    None            \* no project

ServerAssumption ==
    /\ \A r \in Requests : r.target \in Deployments /\ Len(r.calls) \in Nat
    /\ \A p \in Projects : \A m \in DOMAIN p.units : p.units[m] \in Nat

VARIABLES
    table,          \* PROJECTS
    tokens,         \* the deployments a token was created for
    used,           \* the queries of a project in this second
    query,          \* the handler of each request
    offered,        \* history: what the table held for it since it came
    booked          \* history: how often it was counted

vars == <<table, tokens, used, query, offered, booked>>

NoEndpoint == [url |-> "", internal |-> FALSE, ws |-> FALSE]
Idle == [pc |-> "idle", req |-> None, project |-> None, end |-> NoEndpoint,
         used |-> 0, units |-> 0, charge |-> 0, served |-> FALSE]

----------------------------------------------------------------------------
(* unit_times and compute_query_method.  An entry of a list that ends in   *)
(* "_" stands for the methods it is a prefix of.                           *)
IsRpc(p) == p.type \in {"evm", "substrate"}

Permitted(p, m) == m \notin p.deny /\ (p.allow = {} \/ m \in p.allow)

MethodUnits(p, m) == IF m \in DOMAIN p.units THEN p.units[m] ELSE 1

\* The units of the first calls.
UnitSums(p, calls) ==
    LET sum[i \in 0 .. Len(calls)] ==
            IF i = 0 THEN 0 ELSE sum[i - 1] + MethodUnits(p, calls[i])
    IN  sum

Units(p, calls) == IF IsRpc(p) THEN UnitSums(p, calls)[Len(calls)] ELSE 1

Computed(p, calls) ==
    IsRpc(p) =>
        /\ \A i \in DOMAIN calls : Permitted(p, calls[i])
        /\ Len(calls) # 1 => Len(calls) <= MaxBatch /\ Units(p, calls) <= MaxUnits

(* Project::endpoint: an internal one is for whitelisted accounts over     *)
(* HTTP only.                                                              *)
Named(r, p) ==
    IF p = None \/ r.name \notin DOMAIN p.endpoints THEN {}
    ELSE {e \in {p.endpoints[r.name]} : e.internal => r.route = "whitelist" /\ ~r.socket}

(* validate_project: a websocket is for projects of RPC nodes.  Over HTTP  *)
(* whitelisted accounts are given websockets too, which HTTP cannot reach. *)
Upgradable(p, e) == IsRpc(p) /\ e.ws

Visible(r, p) ==
    {e \in Named(r, p) : IF r.socket THEN Upgradable(p, e)
                         ELSE e.ws => r.route = "whitelist"}

----------------------------------------------------------------------------
(* generate_token and check_agreement_and_consumer.  The token of the      *)
(* indexer itself, of a consumer or its controller with an agreement that  *)
(* is in force, or of a consumer without one, to try.                      *)
Checked(signer, agreement) ==
    \/ signer = "indexer"
    \/ agreement = "active" /\ signer \in {"consumer", "controller"}
    \/ agreement = "none" /\ signer = "consumer"

Generate(d) ==
    /\ table[d] # None
    /\ \E signer \in {"indexer", "consumer", "controller", "other"},
          agreement \in {"none", "active", "over"} : Checked(signer, agreement)
    /\ tokens' = tokens \cup {d}
    /\ UNCHANGED <<table, used, query, offered, booked>>

----------------------------------------------------------------------------
(* Handlers                                                                *)

Do(q, k) == query' = [query EXCEPT ![q] = k]
Refused(q) == Do(q, [query[q] EXCEPT !.pc = "refused"])

Arrive(q) ==
    /\ query[q].pc = "idle"
    /\ \E r \in Requests :
          /\ Do(q, [Idle EXCEPT !.pc = "extract", !.req = r])
          /\ offered' = [offered EXCEPT ![q] = {table[r.target]}]
    /\ booked' = [booked EXCEPT ![q] = 0]
    /\ UNCHANGED <<table, tokens, used>>

(* The extractors run before the handler.  AuthQuery: the token and the    *)
(* limits of its agreement, which count the query even if it is refused    *)
(* later.                                                                  *)
ExtractToken(q) ==
    LET r == query[q].req IN
    /\ query[q].pc = "extract" /\ r.route = "agreement"
    /\ \/ (Auth => r.cred \in tokens) /\ Do(q, [query[q] EXCEPT !.pc = "resolve"])
       \/ Auth /\ Refused(q)
    /\ UNCHANGED <<table, tokens, used, offered, booked>>

(* AuthWhitelistQuery: the account is listed and signed what it sends.     *)
ExtractAccount(q) ==
    /\ query[q].pc = "extract" /\ query[q].req.route = "whitelist"
    /\ Refused(q) \/ Do(q, [query[q] EXCEPT !.pc = "resolve"])
    /\ UNCHANGED <<table, tokens, used, offered, booked>>

(* AuthPayg: the header is there.  A websocket needs none.                 *)
ExtractState(q) ==
    /\ query[q].pc = "extract" /\ query[q].req.route = "payg"
    /\ \/ Do(q, [query[q] EXCEPT !.pc = "resolve"])
       \/ ~query[q].req.socket /\ Refused(q)
    /\ UNCHANGED <<table, tokens, used, offered, booked>>

(* The deployment of the credential, the project and its endpoint; then    *)
(* the handler goes on to one of the steps.                                *)
Resolve(q, own, admitted, next) ==
    LET r == query[q].req
        p == table[r.target] IN
    /\ IF (own /\ r.cred # r.target) \/ Visible(r, p) = {} \/ ~admitted THEN Refused(q)
       ELSE \E e \in Visible(r, p) :
               Do(q, [query[q] EXCEPT !.project = p, !.end = e, !.pc = next])
    /\ UNCHANGED <<table, tokens, used, offered, booked>>

AsksFor(q, route) ==
    query[q].pc = "resolve" /\ query[q].req.route = route /\ ~query[q].req.socket
Admitted(q) == LET r == query[q].req IN
               table[r.target] # None /\ Computed(table[r.target], r.calls)

(* ep_wl_query and ep_query_handler have check_query check the methods.    *)
ResolveAccount(q) ==
    AsksFor(q, "whitelist") /\ Resolve(q, TRUE, Admitted(q), "forward")

ResolveToken(q) ==
    AsksFor(q, "agreement") /\ Resolve(q, Auth, Admitted(q), "forward")

(* ep_payg_handler leaves that to the channel's account.                   *)
ResolveState(q) ==
    /\ AsksFor(q, "payg")
    /\ LET p == table[query[q].req.target] IN
       Resolve(q, FALSE, TRUE, IF p # None /\ p.type = "ai" THEN "stream" ELSE "rules")

(* ws_query, ws_wl_query and ws_payg_query.                                *)
ResolveSocket(q) ==
    LET r == query[q].req IN
    /\ query[q].pc = "resolve" /\ r.socket
    /\ Resolve(q, r.route = "whitelist" \/ (r.route = "agreement" /\ Auth), TRUE, "connect")

(* ws_handler looks the project up again, for its type alone.              *)
Connect(q) ==
    /\ query[q].pc = "connect"
    /\ \/ Refused(q)
       \/ /\ table[query[q].req.target] # None
          /\ Do(q, [query[q] EXCEPT !.pc = "open", !.served = TRUE])
    /\ UNCHANGED <<table, tokens, used, offered, booked>>

(* Mutant of Rules: the project that was found first is charged by.        *)
RulesUnchecked(q) ==
    LET p == query[q].project
        calls == query[q].req.calls IN
    /\ query[q].pc = "rules"
    /\ Do(q, [query[q] EXCEPT !.pc = "limit", !.units = Units(p, calls)])
    /\ UNCHANGED <<table, tokens, used, offered, booked>>

(* query_single_state and query_multiple_state look it up again: these are *)
(* the rules, the units and the limit; the endpoint is the earlier one.    *)
(* The channel may refuse, and an inactive range is answered at once.      *)
Rules(q) ==
    LET p == table[query[q].req.target]
        calls == query[q].req.calls IN
    /\ query[q].pc = "rules"
    /\ \/ Refused(q)
       \/ /\ p # None /\ Computed(p, calls)
          /\ \/ Do(q, [query[q] EXCEPT !.pc = "limit", !.project = p, !.units = Units(p, calls)])
             \/ /\ query[q].req.multiple
                /\ Do(q, [query[q] EXCEPT !.pc = "answered", !.project = p])
    /\ UNCHANGED <<table, tokens, used, offered, booked>>

(* Project::query: the limit per second, for queries paid from a channel.  *)
ReadLimit(q) ==
    LET k == query[q] IN
    /\ k.pc = "limit"
    /\ CASE k.project.limit = None -> Do(q, [k EXCEPT !.pc = "forward"])
         [] OTHER -> IF used[k.req.target] + 1 > k.project.limit THEN Refused(q)
                     ELSE Do(q, [k EXCEPT !.pc = "count", !.used = used[k.req.target] + 1])
    /\ UNCHANGED <<table, tokens, used, offered, booked>>

WriteLimit(q) ==
    /\ query[q].pc = "count"
    /\ used' = [used EXCEPT ![query[q].req.target] = query[q].used]
    /\ Do(q, [query[q] EXCEPT !.pc = "forward"])
    /\ UNCHANGED <<table, tokens, offered, booked>>

(* Project::query: what is no GraphQL goes to an indexing service only     *)
(* with a path; a model is asked through the stream alone, and answers     *)
(* nothing here.                                                           *)
Sends(k) ==
    IF IsRpc(k.project) THEN "rpc"
    ELSE IF k.project.type = "ai" THEN "nothing"
    ELSE IF k.req.graphql THEN "graphql"
    ELSE IF k.req.path THEN "rpc" ELSE "error"

(* handle_request_raw fails for a websocket's url, and may for any other.  *)
(* The query is counted, answered or not.                                  *)
Post(q) ==
    LET k == query[q] IN
    /\ booked' = [booked EXCEPT ![q] = @ + 1]
    /\ \/ /\ ~k.end.ws
          /\ Do(q, [k EXCEPT !.served = TRUE,
                             !.pc = IF k.req.route = "payg" THEN "post" ELSE "answered"])
       \/ Refused(q)
    /\ UNCHANGED <<table, tokens, used, offered>>

SubqueryRaw(q) == query[q].pc = "forward" /\ Sends(query[q]) = "graphql" /\ Post(q)
RpcqueryRaw(q) == query[q].pc = "forward" /\ Sends(query[q]) = "rpc" /\ Post(q)

NotSent(q) ==
    /\ query[q].pc = "forward" /\ Sends(query[q]) \in {"nothing", "error"}
    /\ IF Sends(query[q]) = "error" THEN Refused(q)
       ELSE Do(q, [query[q] EXCEPT !.pc = "answered"])
    /\ UNCHANGED <<table, tokens, used, offered, booked>>

(* The channel is charged once the answer is there: its units if it has    *)
(* ranges, else one whatever they are.                                     *)
Charged(r, units) == IF r.multiple THEN units ELSE 1

PostState(q) ==
    /\ query[q].pc = "post"
    /\ Do(q, [query[q] EXCEPT !.pc = "answered", !.charge = Charged(query[q].req, query[q].units)])
    /\ UNCHANGED <<table, tokens, used, offered, booked>>

Leave(q) ==
    /\ query[q].pc \in {"answered", "refused", "open", "stream"}
    /\ Do(q, Idle)
    /\ offered' = [offered EXCEPT ![q] = {}]
    /\ booked' = [booked EXCEPT ![q] = 0]
    /\ UNCHANGED <<table, tokens, used>>

----------------------------------------------------------------------------
(* update_projects; the keys of a second expire.                           *)
Replace(d, p) ==
    /\ p # table[d]
    /\ table' = [table EXCEPT ![d] = p]
    /\ offered' = [q \in Queries |->
          IF query[q].pc # "idle" /\ query[q].req.target = d THEN offered[q] \cup {p}
          ELSE offered[q]]
    /\ UNCHANGED <<tokens, used, query, booked>>

NextSecond ==
    /\ used' = [d \in Deployments |-> 0]
    /\ UNCHANGED <<table, tokens, query, offered, booked>>

Init ==
    /\ table = [d \in Deployments |-> None]
    /\ tokens = {}
    /\ used = [d \in Deployments |-> 0]
    /\ query = [q \in Queries |-> Idle]
    /\ offered = [q \in Queries |-> {}]
    /\ booked = [q \in Queries |-> 0]

Next ==
    \/ \E d \in Deployments : Generate(d)
    \/ \E q \in Queries :
          \/ Arrive(q) \/ ExtractToken(q) \/ ExtractAccount(q) \/ ExtractState(q)
          \/ ResolveAccount(q) \/ ResolveToken(q) \/ ResolveState(q) \/ ResolveSocket(q)
          \/ Connect(q) \/ Rules(q) \/ ReadLimit(q) \/ WriteLimit(q)
          \/ SubqueryRaw(q) \/ RpcqueryRaw(q) \/ NotSent(q) \/ PostState(q) \/ Leave(q)
    \/ \E d \in Deployments, p \in Projects \cup {None} : Replace(d, p)
    \/ NextSecond

Spec == Init /\ [][Next]_vars

(* The types of the table and the handlers.                                *)
TypeOK ==
    /\ table \in [Deployments -> Projects \cup {None}]
    /\ tokens \subseteq Deployments /\ used \in [Deployments -> Nat]
    /\ \A q \in Queries :
          /\ query[q].pc \in {"idle", "extract", "resolve", "connect", "rules", "limit", "count",
                              "forward", "post", "answered", "refused", "open", "stream"}
          /\ query[q].pc # "idle" => query[q].req \in Requests
          /\ query[q].units \in Nat /\ query[q].charge \in Nat
          /\ offered[q] \subseteq Projects \cup {None} /\ booked[q] \in {0, 1}

(* Whenever the table is replaced: an answer comes from an endpoint that   *)
(* the table showed to this kind of request while it was handled, for the  *)
(* deployment its credential is for, under rules the project had then; it  *)
(* is counted once, and a channel is charged the units of those rules, for *)
(* an answer only.                                                         *)
AnsweredWasAdmitted ==
    \A q \in Queries :
        LET k == query[q]
            r == k.req
            seen == offered[q] \ {None} IN
        /\ k.served =>
              /\ \E p \in seen : k.end \in Visible(r, p)
              /\ ~r.socket => (\E p \in seen : Computed(p, r.calls)) /\ booked[q] = 1
              /\ r.route = "whitelist" \/ (r.route = "agreement" /\ Auth) => r.cred = r.target
        /\ k.charge # 0 =>
              /\ k.served /\ r.route = "payg"
              /\ \E p \in seen : Computed(p, r.calls) /\ k.charge = Charged(r, Units(p, r.calls))

=============================================================================
