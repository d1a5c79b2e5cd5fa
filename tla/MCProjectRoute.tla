--------------------------- MODULE MCProjectRoute ---------------------------
(* A small instance of ProjectRoute for TLC: the endpoints of a subgraph   *)
(* as the administrator's form sends them, with and without a websocket.   *)
EXTENDS ProjectRoute

End(kind, scheme) == [kind |-> kind, url |-> [scheme |-> scheme, host |-> "a"]]

MCRequests ==
    {<<End("node", "http"), End("http", "http"), End("ws", "ws")>>,
     <<End("node", "http"), End("http", "http")>>}
=============================================================================
