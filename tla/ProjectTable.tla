---------------------------- MODULE ProjectTable ----------------------------
(* How a project the coordinator runs, and its price, reach the table that *)
(* the proxy serves queries from: the rows of the coordinator, its cache   *)
(* of market prices, and the proxy's loop that merges two queries and asks *)
(* for the manifests before it replaces the table.                         *)
EXTENDS Naturals, FiniteSets, FiniteSetsExt

CONSTANTS
    Projects,
    Floors,         \* prices the indexer may ask; 0 is no price
    Markets,        \* dominant prices of the consumer host service
    Ratio,          \* percent of the dominant price to ask
    None

VARIABLES
    running,        \* rows with status RUNNING
    floor,          \* PaygEntity.price
    market,         \* the dominant price, at the consumer host service
    cached,         \* PriceService.cache
    defect,         \* what is wrong with a project: its item or its manifest
    down,           \* the services that do not answer
    sync,           \* the proxy's loop: its step and what it has read
    table           \* PROJECTS: the projects served, with their prices

vars == <<running, floor, market, cached, defect, down, sync, table>>

Idle == [pc |-> "sleep", raw |-> {}, bare |-> {},
         paygs |-> [p \in Projects |-> 0]]

----------------------------------------------------------------------------
(* inlinePayg: the price asked is the larger of the floor and the share of *)
(* the dominant price; rows without a price are not listed.                *)
Asked(low, dominant) ==
    IF low = 0 THEN 0
    ELSE IF dominant = None THEN low
    ELSE Max({low, (dominant * Ratio) \div 100})

(* request: the prices of the projects asked for, which are cached; when   *)
(* the service does not answer the prices are null and nothing is cached.  *)
Requested(asking) ==
    [p \in Projects |-> IF p \in asking /\ "market" \notin down
                        THEN market[p] ELSE cached[p]]

(* getDominatePrice asks only for what is not cached.                      *)
Uncached == {p \in Projects : floor[p] # 0 /\ cached[p] = None}

(* The cron job asks again for everything that is cached.                  *)
RefreshPrice ==
    /\ cached' = Requested({p \in Projects : cached[p] # None})
    /\ UNCHANGED <<running, floor, market, defect, down, sync, table>>

----------------------------------------------------------------------------
(* The administrator starts or stops a project and sets its price.         *)
StartStop(p) ==
    /\ running' = (running \ {p}) \cup ({p} \ running)
    /\ UNCHANGED <<floor, market, cached, defect, down, sync, table>>

UpdatePayg(p, price) ==
    /\ floor' = [floor EXCEPT ![p] = price]
    /\ UNCHANGED <<running, market, cached, defect, down, sync, table>>

MarketMoves(p, price) ==
    /\ market' = [market EXCEPT ![p] = price]
    /\ UNCHANGED <<running, floor, cached, defect, down, sync, table>>

Outage(s) ==
    /\ down' = (down \ {s}) \cup ({s} \ down)
    /\ UNCHANGED <<running, floor, market, cached, defect, sync, table>>

(* A project of a type the proxy does not know or without endpoints, or one *)
(* whose manifest does not parse, comes or is put right.                    *)
Configure(p, what) ==
    /\ defect' = [defect EXCEPT ![p] = what]
    /\ UNCHANGED <<running, floor, market, cached, down, sync, table>>

----------------------------------------------------------------------------
Defective(what) == {p \in Projects : defect[p] = what}

(* subscribe: a query that fails leaves the proxy with no projects.        *)
FetchProjects ==
    /\ sync.pc = "sleep"
    /\ LET list == IF "coordinator" \in down THEN {} ELSE running IN
       sync' = [Idle EXCEPT !.pc = "paygs", !.raw = list,
                            !.bare = list \cap Defective("item")]
    /\ UNCHANGED <<running, floor, market, cached, defect, down, table>>

(* ... and one for the prices leaves every price empty.                    *)
FetchPaygs ==
    /\ sync.pc = "paygs"
    /\ IF "coordinator" \in down
       THEN /\ sync' = [sync EXCEPT !.pc = "manifests"]
            /\ UNCHANGED cached
       ELSE /\ cached' = Requested(Uncached)
            /\ sync' = [sync EXCEPT !.pc = "manifests",
                            !.paygs = [p \in Projects |-> Asked(floor[p], cached'[p])]]
    /\ UNCHANGED <<running, floor, market, defect, down, table>>

(* handle_projects asks for the manifest of each project; one request that *)
(* fails, one manifest that does not parse, one item of an unknown type or *)
(* without endpoints ends the update.                                      *)
FetchManifests ==
    /\ sync.pc = "manifests"
    /\ sync' = IF \/ sync.raw # {} /\ "coordinator" \in down
                  \/ sync.bare # {} \/ sync.raw \cap Defective("manifest") # {}
               THEN Idle ELSE [sync EXCEPT !.pc = "update"]
    /\ UNCHANGED <<running, floor, market, cached, defect, down, table>>

(* Mutant of Update: what is not in the list stays.                        *)
UpdateInserts ==
    /\ sync.pc = "update"
    /\ table' = [p \in Projects |-> IF p \in sync.raw THEN sync.paygs[p] ELSE table[p]]
    /\ sync' = Idle
    /\ UNCHANGED <<running, floor, market, cached, defect, down>>

(* update_projects removes what is not in the list and inserts the list.   *)
Update ==
    /\ sync.pc = "update"
    /\ table' = [p \in Projects |-> IF p \in sync.raw THEN sync.paygs[p] ELSE None]
    /\ sync' = Idle
    /\ UNCHANGED <<running, floor, market, cached, defect, down>>

Sync == FetchProjects \/ FetchPaygs \/ FetchManifests \/ Update

----------------------------------------------------------------------------
Init ==
    /\ running = {}
    /\ floor \in [Projects -> Floors]
    /\ market \in [Projects -> Markets]
    /\ cached = [p \in Projects |-> None]
    /\ defect = [p \in Projects |-> None]
    /\ down = {}
    /\ sync = Idle
    /\ table = [p \in Projects |-> None]

Next ==
    \/ \E p \in Projects : StartStop(p)
    \/ \E p \in Projects, price \in Floors : UpdatePayg(p, price)
    \/ \E p \in Projects, price \in Markets : MarketMoves(p, price)
    \/ \E p \in Projects, what \in {"item", "manifest", None} : Configure(p, what)
    \/ \E s \in {"coordinator", "market"} : Outage(s)
    \/ RefreshPrice \/ Sync

Spec == Init /\ [][Next]_vars

(* The proxy's loop and the coordinator's cron job go on for ever.         *)
Fairness == WF_vars(Sync) /\ WF_vars(RefreshPrice)

----------------------------------------------------------------------------
(* The types of the rows, the cache, the loop and the table.               *)
TypeOK ==
    /\ running \subseteq Projects
    /\ floor \in [Projects -> Floors] /\ market \in [Projects -> Markets]
    /\ cached \in [Projects -> Markets \cup {None}]
    /\ defect \in [Projects -> {"item", "manifest", None}]
    /\ sync.pc \in {"sleep", "paygs", "manifests", "update"}
    /\ sync.bare \subseteq sync.raw /\ sync.raw \subseteq Projects
    /\ sync.paygs \in [Projects -> Nat]
    /\ table \in [Projects -> Nat \cup {None}]

Served == {p \in Projects : table[p] # None}

(* The proxy's table follows the coordinator: once a project has settled,  *)
(* both services answer and nothing is wrong with any project that runs or *)
(* is being looked at, the table serves it at last exactly if it runs, at  *)
(* the price its row and the market say, whatever failed before: an outage *)
(* that emptied the table, an update that was cut short, or a price that   *)
(* was cached.  While one running project is defective no update ends, for *)
(* none of them.                                                           *)
TableFollows ==
    <>[](down = {} /\ \A p \in running \cup sync.raw : defect[p] = None) =>
        \A p \in Projects, low \in Floors, dominant \in Markets :
            /\ <>[](p \notin running) => <>[](p \notin Served)
            /\ <>[](p \in running /\ floor[p] = low /\ market[p] = dominant)
                  => <>[](table[p] = Asked(low, dominant))

==============================================================================
