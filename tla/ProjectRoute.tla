---------------------------- MODULE ProjectRoute ----------------------------
(* From the endpoints a running RPC or subgraph project has at the         *)
(* coordinator to the endpoint the proxy sends a query to: the access of   *)
(* each endpoint, the proxy's map of names, and the routes of its server.  *)
EXTENDS EndpointProject

VARIABLES routes    \* Project.endpoints of the proxy: name -> endpoint;
                    \* None when the project is not in the table
routeVars == <<vars, routes>>

IsWs(e) == e.kind = "ws"

(* The access types of startRpcProject and startSubgraphProject.           *)
Access(e) == IF e.kind \in {"metrics", "node"} THEN "internal" ELSE "default"

(* handle_projects: an endpoint is known by its key, the last one of       *)
(* access "default" as default and the last websocket as ws.               *)
Names(e) ==
    {e.kind} \cup (IF Access(e) = "default" THEN {"default"} ELSE {})
             \cup (IF IsWs(e) THEN {"ws"} ELSE {})

Insert(map, e) ==
    [n \in DOMAIN map \cup Names(e) |-> IF n \in Names(e) THEN e ELSE map[n]]

Routes(es) == FoldLeft(Insert, <<>>, es)

----------------------------------------------------------------------------
(* The proxy's loop reads the projects that getAliveProjects lists.        *)
HandleProjects ==
    /\ routes' = IF Listed THEN Routes(entry.endpoints) ELSE None
    /\ UNCHANGED vars

(* endpoint: internal endpoints are hidden from the server's routes.       *)
Visible(name) == name \in DOMAIN routes /\ Access(routes[name]) # "internal"

(* The code a POST to an endpoint ends with before the node is asked.      *)
PostCode(name) ==
    IF routes = None THEN 1032
    ELSE IF ~Visible(name) THEN 1037
    ELSE IF IsWs(routes[name]) THEN 1315
    ELSE 0

RouteInit == Init /\ routes = None
RouteNext == (Next /\ UNCHANGED routes) \/ HandleProjects
RouteSpec == RouteInit /\ [][RouteNext]_routeVars

----------------------------------------------------------------------------
(* An endpoint that is not internal can be used: a POST to a project of    *)
(* the table that has an http endpoint is answered without a name ("POST   *)
(* /query/${deployment_id}", query with agreement).                        *)
DefaultServesPost ==
    routes # None /\ "http" \in DOMAIN routes => PostCode("default") = 0

=============================================================================
