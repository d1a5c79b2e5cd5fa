-------------------------- MODULE EndpointProject --------------------------
(* One RPC or subgraph project of the coordinator: a project whose         *)
(* endpoints belong to the indexer's own node and are validated, when the  *)
(* project starts and every few minutes while it runs.  The manifest and   *)
(* what the node answers are chosen once; the node may come and go.        *)
EXTENDS Naturals, Sequences, SequencesExt

CONSTANTS
    Families,       \* families of projects: "evm", "dict", "polkadot",
                    \* "solana" or "subgraph"
    Requests,       \* lists of endpoints the administrator may send
    None            \* no row, no entity

Ends == UNION {ToSet(es) : es \in Requests}
Entry(lists) ==
    [status : {"stopped", "running"}, endpoints : lists, valid : Seq(BOOLEAN)]

\* A list has each kind once, as the administrator's form has.
EndpointAssumption ==
    /\ Families \subseteq {"evm", "dict", "polkadot", "solana", "subgraph"}
    /\ Requests \subseteq Seq(Ends)
    /\ \A es \in Requests : \A i, j \in DOMAIN es : es[i].kind = es[j].kind => i = j
    /\ None \notin Entry(Seq(Ends)) \cup [checked : BOOLEAN, e : Entry(Seq(Ends))]

VARIABLES
    family,         \* manifest.rpcFamily, or "subgraph"
    node,           \* the facts a check of the node confirms
    alive,          \* the node answers
    entry,          \* the ProjectEntity row: status, endpoints, valid flags
    call,           \* the administrator's call
    audit           \* the validation job: its step and the entity it loaded

vars == <<family, node, alive, entry, call, audit>>

----------------------------------------------------------------------------
(* Endpoint keys are a family and a kind; a value is a url, that is a      *)
(* scheme and a host, or the empty string.                                 *)
Kinds(f) ==
    CASE f = "subgraph" -> {"node", "http", "ws"}
      [] f = "solana"   -> {"http", "metrics"}
      [] OTHER          -> {"http", "ws", "metrics"}

Blank == [scheme |-> "", host |-> ""]

(* The checks a family makes of an endpoint of a kind: the fact that is    *)
(* confirmed and the level of the error when it is not.                    *)
Errors(facts) == [fact : facts, level : {"error"}]
Warnings(facts) == [fact : facts, level : {"warn"}]

EvmChecks(kind) ==
    IF kind = "metrics" THEN Warnings({"chain", "height"}) \cup Errors({"parsed"})
    ELSE Errors({"chain", "genesis", "archive", "client"})

DictChecks(kind) ==
    EvmChecks(kind) \cup IF kind = "metrics" THEN {} ELSE Errors({"filter"})

PolkadotChecks(kind) ==
    IF kind = "metrics" THEN Warnings({"height"}) \cup Errors({"parsed"})
    ELSE Errors({"genesis", "archive"})

SolanaChecks(kind) ==
    IF kind = "metrics" THEN {}
    ELSE Errors({"genesis", "archive", "client", "health"})

SubgraphChecks(kind) ==
    CASE kind = "node" -> Errors({"deployed"})
      [] kind = "http" -> Errors({"indexed"})
      [] kind = "ws"   -> {}

Checks(kind) ==
    CASE family = "evm"      -> EvmChecks(kind)
      [] family = "dict"     -> DictChecks(kind)
      [] family = "polkadot" -> PolkadotChecks(kind)
      [] family = "solana"   -> SolanaChecks(kind)
      [] family = "subgraph" -> SubgraphChecks(kind)

(* The level a check of one endpoint ends with: of several failures the    *)
(* first to arrive counts.  A request that fails is an error, of metrics a *)
(* warning; solana's metrics are never requested.                          *)
Levels(e) ==
    LET failed == {c \in Checks(e.kind) : c.fact \notin node} IN
    IF "private" \notin node /\ family # "subgraph" THEN {"error"}
    ELSE IF Checks(e.kind) = {} /\ family # "subgraph" THEN {"none"}
    ELSE IF ~alive THEN {IF e.kind = "metrics" THEN "warn" ELSE "error"}
    ELSE IF failed = {} THEN {"none"} ELSE {c.level : c \in failed}

(* validateRpcEndpointsUrl: what is checked without a request.             *)
HttpKey(e) == e.kind \in {"http", "metrics"}    \* the key ends with Http
WsKey(e) == e.kind = "ws"

RequiredPresent(es) ==
    /\ \E e \in ToSet(es) : HttpKey(e)
    /\ family = "polkadot" => \E e \in ToSet(es) : WsKey(e)

UrlsValid(es) ==
    /\ es # <<>>
    /\ \A i \in 2 .. Len(es) : /\ Blank \notin {es[1].url, es[i].url}
                               /\ es[i].url.host = es[1].url.host
    /\ \A e \in ToSet(es) : e.url.scheme = IF WsKey(e) THEN "ws" ELSE "http"
    /\ RequiredPresent(es)

(* validateProjectEndpoints: the level of the whole list, when the checks  *)
(* of the endpoints end with the given levels.                             *)
Filled(es) == {e \in ToSet(es) : e.url # Blank}

(* Mutant of Worse: the last result counts.                                *)
WorseLast(level, next) == IF next = "none" THEN level ELSE next

Worse(level, next) ==
    IF next = "none" \/ level = "error" THEN level ELSE next

\* The level after each of the results.
Worst(levels) ==
    LET worst[i \in 0 .. Len(levels)] ==
            IF i = 0 THEN "none" ELSE Worse(worst[i - 1], levels[i])
    IN  worst

Verdict(es, levels) ==
    IF UrlsValid(es) THEN Worst(levels)[Len(levels)]
    ELSE IF Filled(es) = {} THEN "none" ELSE "error"

(* The results the checks of a list can have.                              *)
Results(es) ==
    {levels \in [1 .. Len(es) -> {"none", "warn", "error"}] :
        \A i \in 1 .. Len(es) : levels[i] \in Levels(es[i])}

(* Mutant of Flagged: a flag is set but never cleared.                     *)
FlaggedOnce(es, valid, levels) ==
    [i \in 1 .. Len(es) |-> valid[i] \/ levels[i] = "none"]

(* Flags after the results: an endpoint without a value keeps its own.     *)
Flagged(es, valid, levels) ==
    [i \in 1 .. Len(es) |->
        IF es[i].url = Blank THEN valid[i]
        ELSE (family = "subgraph" \/ UrlsValid(es)) /\ levels[i] = "none"]

----------------------------------------------------------------------------
(* The endpoints among the first that are of the family's kinds, in order. *)
Kept(es) ==
    LET kept[i \in 0 .. Len(es)] ==
            IF i = 0 THEN <<>>
            ELSE IF es[i].kind \in Kinds(family) THEN Append(kept[i - 1], es[i])
            ELSE kept[i - 1]
    IN  kept

Accepted(es) == Kept(es)[Len(es)]

NewEntry == [status |-> "stopped", endpoints |-> <<>>, valid |-> <<>>]

Idle == [op |-> "none", pc |-> "idle", e |-> None]

Begin ==
    /\ call = Idle
    /\ \E op \in {"start", "stop", "remove"} :
          call' = [op |-> op, pc |-> "load", e |-> None]
    /\ UNCHANGED <<family, node, alive, entry, audit>>

(* A start of an unknown project adds it.                                  *)
Load ==
    /\ call.pc = "load"
    /\ IF entry = None /\ call.op # "start" THEN call' = Idle
       ELSE call' = [call EXCEPT !.pc = call.op,
                                 !.e = IF entry = None THEN NewEntry ELSE entry]
    /\ entry' = IF entry = None /\ call.op = "start" THEN NewEntry ELSE entry
    /\ UNCHANGED <<family, node, alive, audit>>

Running(es, levels) ==
    [status |-> "running", endpoints |-> es,
     valid |-> Flagged(es, [i \in 1 .. Len(es) |-> FALSE], levels)]

(* startRpcProject throws only for a list whose level is "error".          *)
ValidateRpc ==
    /\ call.pc = "start" /\ family # "subgraph"
    /\ \E request \in Requests :
       LET es == Accepted(request) IN
       \E levels \in Results(es) :
          call' = IF Verdict(es, levels) = "error" THEN Idle
                  ELSE [call EXCEPT !.pc = "save", !.e = Running(es, levels)]
    /\ UNCHANGED <<family, node, alive, entry, audit>>

(* startSubgraphProject looks for the three endpoints one by one; the      *)
(* request to a missing one fails.                                         *)
ValidateSubgraph ==
    /\ call.pc = "start" /\ family = "subgraph"
    /\ \E request \in Requests :
       LET es == Accepted(request)
           passed == \A kind \in Kinds(family) : \E e \in ToSet(es) :
                        e.kind = kind /\ e.url # Blank /\ Levels(e) = {"none"}
       IN  call' = IF ~passed THEN Idle
                   ELSE [call EXCEPT !.pc = "save", !.e =
                           Running(es, [i \in 1 .. Len(es) |-> "none"])]
    /\ UNCHANGED <<family, node, alive, entry, audit>>

SaveCall ==
    /\ call.pc \in {"save", "stop"}
    /\ entry' = IF call.pc = "stop" THEN [call.e EXCEPT !.status = "stopped"]
                ELSE call.e
    /\ call' = Idle
    /\ UNCHANGED <<family, node, alive, audit>>

RemoveEntry ==
    /\ call.pc = "remove"
    /\ entry' = None
    /\ call' = Idle
    /\ UNCHANGED <<family, node, alive, audit>>

----------------------------------------------------------------------------
(* autoValidateRpcEndpoints, autoValidateSubgraphEndpoints: the running    *)
(* projects that getAliveProjects lists are validated and saved whole.     *)
Listed == /\ entry # None /\ entry.status = "running"
          /\ entry.endpoints # <<>> /\ entry.endpoints[1].url # Blank

AuditLoad ==
    /\ audit = None /\ Listed
    /\ audit' = [checked |-> FALSE, e |-> entry]
    /\ UNCHANGED <<family, node, alive, entry, call>>

AuditCheck ==
    /\ audit # None /\ ~audit.checked
    /\ \E levels \in Results(audit.e.endpoints) :
          audit' = [checked |-> TRUE, e |-> [audit.e EXCEPT !.valid =
                        Flagged(audit.e.endpoints, audit.e.valid, levels)]]
    /\ UNCHANGED <<family, node, alive, entry, call>>

AuditSave ==
    /\ audit # None /\ audit.checked
    /\ entry' = audit.e
    /\ audit' = None
    /\ UNCHANGED <<family, node, alive, call>>

Audit == AuditLoad \/ AuditCheck \/ AuditSave

Toggle ==
    /\ alive' = ~alive
    /\ UNCHANGED <<family, node, entry, call, audit>>

----------------------------------------------------------------------------
Facts == {"private"} \cup UNION {{c.fact : c \in Checks(kind)} :
                                    kind \in Kinds(family)}

(* The node passes every check, or all but one.                            *)
Init ==
    /\ family \in Families
    /\ node \in {Facts} \cup {Facts \ {f} : f \in Facts}
    /\ alive \in BOOLEAN
    /\ entry = None /\ call = Idle /\ audit = None

Next ==
    \/ Begin \/ Load \/ ValidateRpc \/ ValidateSubgraph \/ SaveCall \/ RemoveEntry
    \/ Audit \/ Toggle

Spec == Init /\ [][Next]_vars
Fairness == WF_vars(Audit)

Lists == {<<>>} \cup {Accepted(es) : es \in Requests}
Entries == {e \in Entry(Lists) : Len(e.valid) = Len(e.endpoints)}

(* The row has a flag for each endpoint, and the family's endpoints only.  *)
TypeOK ==
    /\ family \in Families /\ node \subseteq Facts /\ alive \in BOOLEAN
    /\ entry \in Entries \cup {None}
    /\ call \in [op : {"none", "start", "stop", "remove"}, e : Entries \cup {None},
                 pc : {"idle", "load", "start", "stop", "remove", "save"}]
    /\ audit \in [checked : BOOLEAN, e : Entries] \cup {None}

(* A running RPC project's http and websocket endpoints that have a value  *)
(* passed every check of their family, in whatever order the endpoints     *)
(* came and however warnings and errors of the others mix; a running       *)
(* subgraph project has its three endpoints, which the validation job      *)
(* reads without a test.                                                   *)
RunningWasChecked ==
    entry # None /\ entry.status = "running" =>
        /\ \A e \in Filled(entry.endpoints) :
              e.kind \in {"http", "ws", "node"} =>
                  {c.fact : c \in Checks(e.kind)} \subseteq node
        /\ family = "subgraph" =>
              Kinds(family) \subseteq {e.kind : e \in ToSet(entry.endpoints)}

(* When a node stays away, the endpoints of its project are marked as      *)
(* invalid at last, and stay so, unless the administrator goes on changing *)
(* the project.                                                            *)
Away == /\ ~alive /\ call = Idle /\ Listed
        /\ \E e \in ToSet(entry.endpoints) : e.kind = "http" /\ e.url # Blank
Marked == entry # None =>
    \A i \in 1 .. Len(entry.endpoints) :
        entry.endpoints[i].kind = "http" /\ entry.endpoints[i].url # Blank
            => ~entry.valid[i]
AwayIsMarked == <>[]Away => <>[]Marked

=============================================================================
