-------------------------- MODULE ControllerAccount --------------------------
(* The indexer's account and its controller key: the coordinator's rows,   *)
(* the address it keeps in memory, the controller registered on the chain, *)
(* the account the proxy polls, and the p2p event loop that the proxy      *)
(* replaces when the key changes.                                          *)
EXTENDS Naturals, FiniteSets

CONSTANTS
    Indexers,
    Keys,           \* controller keys
    Loops,          \* identifiers of p2p processes, used again
    None

AccountAssumption == None \notin Keys \cup Loops

VARIABLES
    rows,           \* the indexer repository
    indexer,        \* AccountService.indexer, in memory
    controllers,    \* the controller repository
    active,         \* the controller registered on the chain
    account,        \* ACCOUNT of the proxy; key None is the empty key
    loop,           \* the p2p processes: key and step
    port,           \* the process that listens on the p2p port
    sender,         \* LAZY_STOP_SENDER: the process that receives, or None
    signalled       \* processes with a stop signal in their channel

coordinator == <<rows, indexer, controllers, active>>
p2p == <<loop, port, sender, signalled>>
vars == <<coordinator, account, p2p>>

----------------------------------------------------------------------------
(* getIndexer, which every job of the coordinator calls, loads the address *)
(* once.                                                                   *)
GetIndexer ==
    /\ indexer = None
    /\ indexer' \in IF rows = {} THEN {None} ELSE rows
    /\ UNCHANGED <<rows, controllers, active, account, p2p>>

(* addIndexer refuses another address only if one is in memory.            *)
AddIndexer(a) ==
    /\ indexer = None
    /\ rows' = rows \cup {a} /\ indexer' = a
    /\ UNCHANGED <<controllers, active, account, p2p>>

AddController(k) ==
    /\ controllers' = controllers \cup {k}
    /\ UNCHANGED <<rows, indexer, active, account, p2p>>

RemoveController(k) ==
    /\ controllers' = controllers \ {k}
    /\ UNCHANGED <<rows, indexer, active, account, p2p>>

RemoveAccounts ==
    /\ rows' = {} /\ controllers' = {} /\ indexer' = None
    /\ UNCHANGED <<active, account, p2p>>

(* The coordinator restarts and forgets the address.                       *)
Restart ==
    /\ indexer' = None
    /\ UNCHANGED <<rows, controllers, active, account, p2p>>

(* The indexer registers another controller on the chain.                  *)
Register(k) ==
    /\ active' = k
    /\ UNCHANGED <<rows, indexer, controllers, account, p2p>>

----------------------------------------------------------------------------
(* getAccountMetadata: no key without an address in memory, or when the    *)
(* registered controller is not in the repository.                         *)
ActiveKey == IF indexer # None /\ active \in controllers THEN active ELSE None

(* The loop polls every two minutes, which is longer than a replacement of *)
(* the event loop takes.                                                   *)
Settled == \A i \in Loops : loop[i].pc \in {"free", "run"}

(* Mutant of Replaces: an event loop is started for the first key only.    *)
ReplacesFirst(key) == account.key = None /\ key # None

(* handle_account: a new key has the event loop replaced, an empty one     *)
(* leaves it alone.                                                        *)
Replaces(key) == key # account.key /\ key # None

HandleAccount ==
    /\ Settled
    /\ account' = [indexer |-> indexer, key |-> ActiveKey]
    /\ IF Replaces(ActiveKey)
       THEN \E i \in Loops :
              /\ loop[i].pc = "free"
              /\ loop' = [loop EXCEPT ![i] = [key |-> ActiveKey, pc |-> "stop"]]
       ELSE UNCHANGED loop
    /\ UNCHANGED <<coordinator, port, sender, signalled>>

----------------------------------------------------------------------------
Go(i, pc) == loop' = [loop EXCEPT ![i].pc = pc]

(* EventLoop::stop sends a signal and does not wait for the loop to end.   *)
Stop(i) ==
    /\ loop[i].pc = "stop"
    /\ signalled' = IF sender = None THEN signalled ELSE signalled \cup {sender}
    /\ Go(i, "bind")
    /\ UNCHANGED <<coordinator, account, port, sender>>

(* start_swarm: to listen fails while the port is taken; the process waits *)
(* and tries again.                                                        *)
Bind(i) ==
    /\ loop[i].pc = "bind" /\ port = None
    /\ port' = i /\ Go(i, "store")
    /\ UNCHANGED <<coordinator, account, sender, signalled>>

(* Mutant of BindFails: the process gives up.                              *)
BindGivesUp(i) ==
    /\ loop[i].pc = "bind" /\ port # None
    /\ loop' = [loop EXCEPT ![i] = [key |-> None, pc |-> "free"]]
    /\ UNCHANGED <<coordinator, account, port, sender, signalled>>

BindFails(i) ==
    /\ loop[i].pc = "bind" /\ port # None
    /\ Go(i, "backoff")
    /\ UNCHANGED <<coordinator, account, port, sender, signalled>>

Retry(i) ==
    /\ loop[i].pc = "backoff" /\ Go(i, "bind")
    /\ UNCHANGED <<coordinator, account, port, sender, signalled>>

(* EventLoop::new replaces the sender of the stop signal.                  *)
Store(i) ==
    /\ loop[i].pc = "store"
    /\ sender' = i /\ Go(i, "run")
    /\ UNCHANGED <<coordinator, account, port, signalled>>

(* run ends at the signal: the port is free, and what is sent to its       *)
(* channel is lost.                                                        *)
End(i) ==
    /\ loop[i].pc = "run" /\ i \in signalled
    /\ loop' = [loop EXCEPT ![i] = [key |-> None, pc |-> "free"]]
    /\ port' = None
    /\ signalled' = signalled \ {i}
    /\ sender' = IF sender = i THEN None ELSE sender
    /\ UNCHANGED <<coordinator, account>>

Process(i) == Stop(i) \/ Bind(i) \/ BindFails(i) \/ Retry(i) \/ Store(i) \/ End(i)

----------------------------------------------------------------------------
Init ==
    /\ rows = {} /\ indexer = None /\ controllers = {} /\ active = None
    /\ account = [indexer |-> None, key |-> None]
    /\ loop = [i \in Loops |-> [key |-> None, pc |-> "free"]]
    /\ port = None /\ sender = None /\ signalled = {}

Next ==
    \/ GetIndexer \/ RemoveAccounts \/ Restart \/ HandleAccount
    \/ \E a \in Indexers : AddIndexer(a)
    \/ \E k \in Keys : AddController(k) \/ RemoveController(k) \/ Register(k)
    \/ \E i \in Loops : Process(i)

Spec == Init /\ [][Next]_vars

(* The proxy's loop, the coordinator's jobs and the p2p tasks go on.       *)
Fairness ==
    /\ WF_vars(HandleAccount) /\ WF_vars(GetIndexer)
    /\ \A i \in Loops : WF_vars(Process(i))

----------------------------------------------------------------------------
(* The types of the rows, the account and the p2p processes.               *)
TypeOK ==
    /\ rows \subseteq Indexers /\ indexer \in Indexers \cup {None}
    /\ controllers \subseteq Keys /\ active \in Keys \cup {None}
    /\ account \in [indexer : Indexers \cup {None}, key : Keys \cup {None}]
    /\ loop \in [Loops -> [key : Keys \cup {None},
                    pc : {"free", "stop", "bind", "backoff", "store", "run"}]]
    /\ port \in Loops \cup {None} /\ sender \in Loops \cup {None}
    /\ signalled \subseteq Loops

(* The only process runs under the key.                                    *)
RunsAlone(k) == \E i \in Loops : /\ loop[i] = [key |-> k, pc |-> "run"]
                                 /\ \A j \in Loops \ {i} : loop[j].pc = "free"

(* The way there is safe (account.rs, handle_account; network.rs, stop and *)
(* start_swarm): the port a process waits for is held by one that has been *)
(* told to stop, so no wait is for ever, and when no replacement is on its *)
(* way the only process there is runs under the key the proxy signs with.  *)
RunsAsAccount ==
    /\ \A i \in Loops : loop[i].pc \in {"bind", "backoff"} /\ port # None =>
                                port \in signalled
    /\ account.key # None /\ Settled => RunsAlone(account.key)

(* Once the registered controller stays, with its key in the repository,   *)
(* the proxy signs with that key at last, and its p2p network runs under   *)
(* that key alone, whatever keys, restarts and empty answers came before.  *)
IdentityFollows ==
    \A k \in Keys :
        <>[](indexer # None /\ active = k /\ k \in controllers)
            => <>[](account.key = k /\ RunsAlone(k))

==============================================================================
