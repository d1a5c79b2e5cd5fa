---------------------------- MODULE MCCoordinator ----------------------------
(* Small instances of the coordinator's components for TLC.  A behaviour   *)
(* is a behaviour of one part, which is chosen at the start; the variables *)
(* of the other parts keep their first value.  "sender" is TxSender and    *)
(* "alone" is ProjectLife with the constants of the configuration: one     *)
(* administrator, every mutation and both host types, while containers and *)
(* the coordinator may stop.                                               *)
EXTENDS MCTxSender, ProjectParts, FiniteSets, Sequences, TLC

CONSTANTS m1, m2, A, B

lifeVars == <<row, compose, schema, boxes, calls, ups, unfinished,
              monitor, misses, refresh, forgotten>>
endpointVars == <<family, node, alive, entry, call, audit>>
reportVars == <<type, projectRow, chainNode, docker, report, since>>
coordinatorVars == <<part, senderVars, lifeVars, endpointVars, reportVars>>

\* Two starts at the same time, that begin while no "up" is left from earlier.
\* Of the two calls and their "ups" at most three are under way at once, and
\* nothing fails.
Busy == INSTANCE ProjectLife WITH
    Calls <- {m1, m2}, Configs <- {A, B}, Hosts <- {"system"},
    Mutations <- {"start"}, Ups <- {m1, m2}, Background <- {}
BeginsAlone ==
    \A c \in DOMAIN calls : calls[c].pc = "idle" /\ calls'[c].pc # "idle" =>
        \A u \in DOMAIN ups : ups[u].at = "free"
AtMostThree ==
    Cardinality({c \in DOMAIN calls : calls'[c].pc # "idle"})
        + Cardinality({u \in DOMAIN ups : ups'[u].at # "free"}) <= 3
NothingFails ==
    /\ \A c \in DOMAIN calls :
          calls[c].pc \in {"insert", "compose", "describe"} => calls'[c].pc # "idle"
    /\ \A u \in DOMAIN ups :
          ups'[u].at = "free" => ups[u].at = "free" \/ ups[u].made = {"node", "query"}

\* A refresh that saves what it loaded over the administrator's calls.
Stale == INSTANCE ProjectLife WITH
    Calls <- {m1}, Configs <- {A}, Hosts <- {"system"},
    Mutations <- {"start", "remove"}, Ups <- {m1}, Background <- {"refresh"}

\* The monitor beside the administrator of a project of either kind.
Watched == INSTANCE ProjectLife WITH
    Calls <- {m1}, Configs <- {A}, Hosts <- {"system", "user"},
    Mutations <- {"start", "stop"}, Ups <- {m1}, Background <- {"monitor"}

End(kind, scheme, host) == [kind |-> kind, url |-> [scheme |-> scheme, host |-> host]]
Unfilled(kind) == End(kind, "", "")
Http == End("http", "http", "a")
Ws == End("ws", "ws", "a")
Metrics == End("metrics", "http", "a")
NodeEnd == End("node", "http", "a")

\* Lists that are accepted and lists that fail one rule of the validation:
\* empty, of one kind, of two hosts, with a wrong scheme or a blank value.
RpcRequests ==
    {<<>>, <<Http>>, <<Ws>>, <<Metrics>>, <<Http, Metrics>>, <<Metrics, Http>>,
     <<Http, Ws, Metrics>>, <<Metrics, Ws>>, <<Http, End("ws", "ws", "b")>>,
     <<End("http", "ws", "a")>>, <<Unfilled("http")>>, <<Http, Unfilled("ws")>>}
SubgraphRequests ==
    {<<>>, <<NodeEnd>>, <<NodeEnd, Http>>, <<NodeEnd, Http, Ws>>,
     <<Ws, NodeEnd, Http>>, <<NodeEnd, Unfilled("http"), Ws>>}

\* The requests of all families, for the configuration.
MCEndpointRequests == RpcRequests \cup SubgraphRequests

Rpc == INSTANCE EndpointProject WITH
    Families <- Families \ {"subgraph"}, Requests <- RpcRequests
Subgraph == INSTANCE EndpointProject WITH
    Families <- {"subgraph"}, Requests <- SubgraphRequests

\* What the proofs take for granted about the constants.
ASSUME CoordinatorAssumption ==
    /\ Life!LifeAssumption /\ Endpoint!EndpointAssumption /\ Report!ReportAssumption

Lives == {"alone", "busy", "stale", "watched"}

MCInit ==
    /\ part \in {"sender", "rpc", "subgraph", "report"} \cup Lives
    /\ Init /\ Report!Init
    /\ part # "report" => type = "evm" /\ projectRow = [host |-> "system", valid |-> TRUE]
    /\ IF part = "busy" THEN Busy!Init ELSE Life!Init
    /\ IF part = "rpc" THEN Rpc!Init
       ELSE Subgraph!Init /\ (part # "subgraph" => alive /\ node = Subgraph!Facts)

CoordinatorSymmetry == Permutations(Calls) \cup Permutations({m1, m2}) \cup Permutations({A, B})

Others(own) ==
    /\ UNCHANGED part
    /\ own # "sender" => UNCHANGED senderVars
    /\ own # "life" => UNCHANGED lifeVars
    /\ own # "endpoint" => UNCHANGED endpointVars
    /\ own # "report" => UNCHANGED reportVars

MCNext ==
    \/ part = "sender" /\ Next /\ Others("sender")
    \/ part = "alone" /\ Life!Next /\ Others("life")
    \/ /\ part = "busy" /\ Busy!Next /\ Others("life")
       /\ BeginsAlone /\ AtMostThree /\ NothingFails
    \/ part = "stale" /\ Stale!Next /\ Others("life")
    \/ part = "watched" /\ Watched!Next /\ Others("life")
    \/ part = "rpc" /\ Rpc!Next /\ Others("endpoint")
    \/ part = "subgraph" /\ Subgraph!Next /\ Others("endpoint")
    \/ part = "report" /\ Report!Next /\ Others("report")

MCSpec == MCInit /\ [][MCNext]_coordinatorVars

=============================================================================
