----------------------------- MODULE MetricsPeer -----------------------------
(* The p2p event loop's way to the metrics node: it dials the boot nodes,  *)
(* learns from them where the metrics node is, and lets them go once it is *)
(* connected.  Connections come and go while the events that tell of them  *)
(* wait to be handled.  The swarm and its Kademlia tables are external.    *)
EXTENDS Naturals, Sequences

CONSTANTS
    Boots,          \* boot nodes
    Strangers,      \* other nodes
    MaxLinks,       \* bound: connections with one node
    MaxEvents,      \* bound: events that wait
    None            \* no boot node

PeerAssumption == MaxLinks \in Nat /\ MaxEvents \in Nat

VARIABLES
    peer,           \* metrics_peer_id is set
    address,        \* metrics_multiaddr is set
    boot,           \* boot_node_peer_id
    events,         \* of the swarm, not handled yet
    links,          \* connections with each node
    dials,          \* nodes that are being dialled
    kad,            \* nodes in the Kademlia table
    reach           \* nodes that can be reached

loopVars == <<peer, address, boot>>
swarmVars == <<events, links, dials, kad>>
vars == <<loopVars, swarmVars, reach>>

Metrics == "metrics"
Nodes == Boots \cup Strangers \cup {Metrics}

Established(n, dialer) == [kind |-> "established", node |-> n, dialer |-> dialer, left |-> 1]
Closed(n, left) == [kind |-> "closed", node |-> n, dialer |-> FALSE, left |-> left]
Failed(n) == [kind |-> "failed", node |-> n, dialer |-> TRUE, left |-> 0]

(* The first event is handled, and new ones come of it.                    *)
Handling(kind) == events # <<>> /\ Head(events).kind = kind
Handled(new) == events' = Tail(events) \o new

----------------------------------------------------------------------------
(* handle_event                                                            *)

(* The metrics node is kept, and the boot node let go.                     *)
MetricsEstablished ==
    /\ Handling("established") /\ Head(events).node = Metrics
    /\ peer' = TRUE
    /\ address' = (address \/ Head(events).dialer)
    /\ boot' = None
    /\ IF boot = None \/ (boot # None /\ links[boot] = 0)
       THEN Handled(<<>>) /\ UNCHANGED links
       ELSE Handled(<<Closed(boot, 0)>>) /\ links' = [links EXCEPT ![boot] = 0]
    /\ UNCHANGED <<dials, kad, reach>>

(* Mutant of Keeps: only the metrics node is kept.                         *)
KeepsNone(n) == FALSE

(* A boot node is kept as long as the metrics node is not known.           *)
Keeps(n) == ~peer /\ n \in Boots

OtherEstablished ==
    LET n == Head(events).node IN
    /\ Handling("established") /\ n # Metrics
    /\ IF Keeps(n) \/ links[n] = 0
       THEN Handled(<<>>) /\ UNCHANGED links
       ELSE /\ links' = [links EXCEPT ![n] = @ - 1]
            /\ Handled(<<Closed(n, links[n] - 1)>>)
    /\ boot' = IF Keeps(n) THEN n ELSE boot
    /\ UNCHANGED <<peer, address, dials, kad, reach>>

OutgoingConnectionError ==
    /\ Handling("failed")
    /\ address' = (address /\ Head(events).node # Metrics)
    /\ Handled(<<>>)
    /\ UNCHANGED <<peer, boot, links, dials, kad, reach>>

(* Mutant of ConnectionClosed: the first connection that is closed counts. *)
FirstClosed ==
    LET n == Head(events).node IN
    /\ Handling("closed")
    /\ peer' = (peer /\ n # Metrics)
    /\ address' = (address /\ n # Metrics)
    /\ boot' = IF n \in Boots THEN None ELSE boot
    /\ Handled(<<>>)
    /\ UNCHANGED <<links, dials, kad, reach>>

(* The last connection with a node is closed.  Any boot node counts.       *)
ConnectionClosed ==
    LET n == Head(events).node
        last == Head(events).left = 0 IN
    /\ Handling("closed")
    /\ peer' = (peer /\ ~(last /\ n = Metrics))
    /\ address' = (address /\ ~(last /\ n = Metrics))
    /\ boot' = IF last /\ n \in Boots THEN None ELSE boot
    /\ Handled(<<>>)
    /\ UNCHANGED <<links, dials, kad, reach>>

(* handle_identify_event: what a node tells of itself.                     *)
Identify(n) ==
    /\ links[n] > 0 /\ n \notin kad
    /\ ~address /\ boot # None
    /\ kad' = kad \cup {n}
    /\ UNCHANGED <<loopVars, events, links, dials, reach>>

(* The timers: connect_boot_node, and the check of the metrics node with   *)
(* rennect_to_metrics_node.                                                *)
ConnectBootNode ==
    /\ ~peer
    /\ dials' = dials \cup Boots
    /\ UNCHANGED <<loopVars, events, links, kad, reach>>

CheckMetrics ==
    /\ peer => links[Metrics] = 0
    /\ peer' = FALSE
    /\ dials' = dials \cup IF address THEN {Metrics} ELSE Boots
    /\ UNCHANGED <<address, boot, events, links, kad, reach>>

----------------------------------------------------------------------------
(* The swarm.                                                              *)
Room == Len(events) < MaxEvents

Dialled(n) ==
    /\ n \in dials /\ Room
    /\ dials' = dials \ {n}
    /\ CASE n \notin reach -> events' = Append(events, Failed(n)) /\ UNCHANGED links
         [] n \in reach /\ links[n] < MaxLinks ->
                /\ links' = [links EXCEPT ![n] = @ + 1]
                /\ events' = Append(events, Established(n, TRUE))
         [] OTHER -> UNCHANGED <<events, links>>
    /\ UNCHANGED <<loopVars, kad, reach>>

(* Kademlia asks the boot nodes that it knows where the metrics node is.   *)
Discover ==
    /\ links[Metrics] = 0 /\ \E b \in Boots \cap kad : links[b] > 0
    /\ Metrics \notin dials
    /\ dials' = dials \cup {Metrics}
    /\ UNCHANGED <<loopVars, events, links, kad, reach>>

(* A node dials this one; a connection is cut; a node comes or goes.       *)
Inbound(n) ==
    /\ n \in reach /\ links[n] < MaxLinks /\ Room
    /\ links' = [links EXCEPT ![n] = @ + 1]
    /\ events' = Append(events, Established(n, FALSE))
    /\ UNCHANGED <<loopVars, dials, kad, reach>>

Cut(n) ==
    /\ links[n] > 0 /\ Room
    /\ links' = [links EXCEPT ![n] = @ - 1]
    /\ events' = Append(events, Closed(n, links[n] - 1))
    /\ UNCHANGED <<loopVars, dials, kad, reach>>

ComeOrGo(n) ==
    /\ reach' = IF n \in reach THEN reach \ {n} ELSE reach \cup {n}
    /\ UNCHANGED <<loopVars, swarmVars>>

Init ==
    /\ peer = FALSE /\ address = FALSE /\ boot = None
    /\ events = <<>> /\ links = [n \in Nodes |-> 0] /\ dials = Boots /\ kad = {}
    /\ reach = Nodes

Handle ==
    MetricsEstablished \/ OtherEstablished \/ OutgoingConnectionError \/ ConnectionClosed

Trouble == \E n \in Nodes : Inbound(n) \/ Cut(n) \/ ComeOrGo(n)

Next ==
    \/ Handle \/ ConnectBootNode \/ CheckMetrics \/ Discover \/ Trouble
    \/ \E n \in Nodes : Identify(n) \/ Dialled(n)

Spec == Init /\ [][Next]_vars

(* select! gives every branch its turn; dials end, and Kademlia asks.      *)
Fairness ==
    /\ WF_vars(Handle) /\ WF_vars(ConnectBootNode) /\ WF_vars(CheckMetrics)
    /\ WF_vars(Discover)
    /\ \A n \in Nodes : WF_vars(Identify(n)) /\ WF_vars(Dialled(n))

(* The types of the loop and the swarm.                                    *)
TypeOK ==
    /\ peer \in BOOLEAN /\ address \in BOOLEAN /\ boot \in Boots \cup {None}
    /\ links \in [Nodes -> 0 .. MaxLinks] /\ dials \subseteq Nodes /\ kad \subseteq Nodes
    /\ Len(events) <= MaxEvents

(* The places in the queue where the swarm tells that there is a           *)
(* connection with a node, and that the last one is closed.                *)
Ups(n) == {i \in DOMAIN events : events[i].kind = "established" /\ events[i].node = n}
Downs(n) == {i \in DOMAIN events :
                events[i].kind = "closed" /\ events[i].node = n /\ events[i].left = 0}

(* What the loop knows is what there is, up to events that it has still to *)
(* handle (network.rs, handle_event): the metrics node is known only while *)
(* there is a connection with it, and is known when there is one; the boot *)
(* node that the loop will let go is one it has a connection with.         *)
PeerKnown ==
    /\ peer => links[Metrics] > 0 \/ Downs(Metrics) # {}
    /\ links[Metrics] > 0 => peer \/ Ups(Metrics) # {}
    /\ boot # None => links[boot] > 0 \/ Downs(boot) # {}

(* Once connections are cut no more and every node can be reached, the     *)
(* loop is connected with the metrics node and knows it for ever, whatever *)
(* events of earlier connections it has still to handle.                   *)
MetricsReached ==
    (<>[][~Trouble]_vars /\ <>[](reach = Nodes)) => <>[](peer /\ links[Metrics] > 0)
=============================================================================
