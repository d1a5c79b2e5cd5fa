------------------------------ MODULE PeerParts ------------------------------
(* The proxy's identity and its p2p event loop, each with its own constants *)
(* and variables, and what each of them promises.  MCProxyFair checks the   *)
(* promises on small instances; ProxyProofs proves them for any.            *)

CONSTANTS
    Nobody,
    \* ControllerAccount
    Indexers, ControllerKeys, Loops,
    \* MetricsPeer
    Boots, Strangers, MaxLinks, MaxEvents

VARIABLES
    \* ControllerAccount
    rows, indexer, controllers, active, account, loop, port, sender, signalled,
    \* MetricsPeer
    peer, address, boot, events, links, dials, kad, reach

Account == INSTANCE ControllerAccount WITH Keys <- ControllerKeys, None <- Nobody
Peer == INSTANCE MetricsPeer WITH None <- Nobody

-----------------------------------------------------------------------------
\* A process waits for the port of one that was told to stop only, and when all
\* is still one process runs, under the proxy's key (account.rs, network.rs).
RunsAsAccount == Account!RunsAsAccount

\* What the loop knows of its nodes is what there is, up to events that wait
\* (network.rs, handle_event).
PeerKnown == Peer!PeerKnown
=============================================================================
