----------------------------- MODULE NodeReport -----------------------------
(* What the coordinator reports of a project's progress: the height it has *)
(* reached, the height it is heading for, and whether it is healthy.  A    *)
(* report is put together from several requests, between which the node    *)
(* goes on, restarts or goes away, and the project's row changes.          *)
EXTENDS Naturals

CONSTANTS
    Types,          \* "evm", "polkadot", "solana", "subgraph", "subquery"
    BoxStates,      \* states of a container, of those ServiceStatus knows
    MaxHeight,      \* bound
    None            \* no row, nothing to report

ReportAssumption ==
    /\ Types \subseteq {"evm", "polkadot", "solana", "subgraph", "subquery"}
    /\ MaxHeight \in Nat
    /\ None \notin [host : {"system", "user"}, valid : BOOLEAN]

VARIABLES
    type,           \* the project's
    row,            \* hostType and the flag of its endpoint
    node,           \* the node: its heights, and whether it answers
    boxes,          \* docker: the containers of the node and of the query service
    report,         \* the answer as far as it is put together
    since           \* history: the node's height when the report was begun

vars == <<type, row, node, boxes, report, since>>

Nothing == [pc |-> "idle", row |-> None, last |-> 0, time |-> 0, target |-> 0, held |-> 0,
            healthy |-> FALSE, failed |-> FALSE, indexer |-> "not_started",
            query |-> "not_started"]

Put(new) == report' = new /\ UNCHANGED <<type, row, node, boxes, since>>

(* A request fails: what has been read is kept, the rest is zero.          *)
Failed == [report EXCEPT !.pc = "done", !.failed = TRUE]

Ask(pc, new) == report.pc = pc /\ Put(IF node.up THEN new ELSE Failed)

----------------------------------------------------------------------------
(* serviceMetadata: the row is read once.                                  *)
Begin ==
    /\ report.pc = "idle" /\ row # None
    /\ report' = [Nothing EXCEPT !.row = row,
          !.healthy = IF type = "subquery" THEN FALSE ELSE row.valid,
          !.pc = IF type = "subquery" THEN row.host ELSE type]
    /\ since' = node.current
    /\ UNCHANGED <<type, row, node, boxes>>

(* getLastHeight and getLastTimestamp; a block stands for its time.        *)
(* eth_syncing tells the height of a node that is behind, else it is asked *)
(* for.                                                                    *)
ReadSyncing ==
    Ask("evm", IF node.syncing THEN [report EXCEPT !.last = node.current, !.pc = "time"]
               ELSE [report EXCEPT !.pc = "number"])

ReadNumber == Ask("number", [report EXCEPT !.last = node.current, !.pc = "time"])

ReadTime == Ask("time", [report EXCEPT !.time = node.current, !.pc = "target"])

(* Solana: the height, a slot, and its time.                               *)
ReadBlockHeight == Ask("solana", [report EXCEPT !.last = node.current, !.pc = "slot"])

ReadSlot == Ask("slot", [report EXCEPT !.held = node.current, !.pc = "slot_time"])

ReadSlotTime == Ask("slot_time", [report EXCEPT !.time = report.held, !.pc = "target"])

(* system_syncState tells both heights, and the target is kept for later.  *)
(* A time is not asked for.                                                *)
ReadSyncState ==
    Ask("polkadot", [report EXCEPT !.last = node.current, !.held = node.highest,
                                   !.pc = "target"])

(* getTargetHeight.  The one that is kept is not asked for, and solana has *)
(* none.                                                                   *)
Kept == type = "polkadot" /\ report.held # 0

Target ==
    CASE type = "polkadot" -> IF Kept THEN report.held ELSE node.highest
      [] type = "evm"      -> IF node.syncing THEN node.highest ELSE 0
      [] type = "solana"   -> 0

(* Mutant of OrLast: a node that is not behind has no target.              *)
TargetOnly(target) == target

OrLast(target) == IF target # 0 THEN target ELSE report.last

ReadTarget ==
    /\ report.pc = "target"
    /\ Put(IF ~Kept /\ type # "solana" /\ ~node.up THEN Failed
           ELSE [report EXCEPT !.target = OrLast(Target), !.pc = "done"])

(* getSubgraphMetadata: one request.                                       *)
ReadStatuses ==
    Ask("subgraph", [report EXCEPT !.last = node.current, !.target = node.highest,
                                   !.pc = "done"])

----------------------------------------------------------------------------
(* getQueryMetaData: the containers one after the other, or the user's own *)
(* node, and then the query service.                                       *)
ServiceStatus(box) ==
    CASE box = "none"                    -> "not_started"
      [] box \in {"starting", "healthy"} -> box
      [] box = "exited"                  -> "terminated"
      [] OTHER                           -> "unhealthy"

ReadIndexer ==
    /\ report.pc = "system"
    /\ Put([report EXCEPT !.indexer = ServiceStatus(boxes.node), !.pc = "box"])

ReadQuery ==
    /\ report.pc = "box"
    /\ Put([report EXCEPT !.query = ServiceStatus(boxes.query), !.pc = "metadata"])

ReadMeta ==
    /\ report.pc = "user"
    /\ Put([report EXCEPT !.query = "unhealthy", !.pc = "metadata",
               !.indexer = IF node.up /\ node.highest > 0 THEN "healthy" ELSE "unhealthy"])

(* The tables of the indexer, as long as the query service answers.        *)
ReadMetadata ==
    /\ report.pc = "metadata"
    /\ Put(IF boxes.query # "healthy" THEN Failed
           ELSE [report EXCEPT !.last = node.current, !.target = node.highest,
                    !.healthy = node.up, !.query = "healthy", !.pc = "done",
                    !.indexer = IF node.up THEN @ ELSE "unhealthy"])

Answer == report.pc = "done" /\ Put(Nothing)

----------------------------------------------------------------------------
(* The node follows a chain that grows; one that restarts knows no higher  *)
(* block than its own until it has heard of one.                           *)
Node(new) == node' = new /\ UNCHANGED <<type, row, boxes, report, since>>

Hear ==
    /\ node.up /\ node.highest < MaxHeight
    /\ Node([node EXCEPT !.highest = @ + 1, !.syncing = TRUE])
Import ==
    /\ node.up /\ node.current < MaxHeight
    /\ \/ node.current < node.highest /\ Node([node EXCEPT !.current = @ + 1])
       \/ ~node.syncing /\ Node([node EXCEPT !.current = @ + 1, !.highest = @ + 1])
CatchUp ==
    /\ node.up /\ node.syncing /\ node.current = node.highest
    /\ Node([node EXCEPT !.syncing = FALSE])
GoAway ==
    Node(IF node.up THEN [node EXCEPT !.up = FALSE]
         ELSE [node EXCEPT !.up = TRUE, !.syncing = TRUE, !.highest = node.current])

(* The containers of a SubQuery project come and go; the row is validated  *)
(* again, or removed.                                                      *)
Change ==
    /\ \/ /\ type = "subquery"
          /\ \E b \in DOMAIN boxes, s \in BoxStates :
                boxes' = [boxes EXCEPT ![b] = s] /\ UNCHANGED row
       \/ row' = None /\ UNCHANGED boxes
       \/ row # None /\ row' = [row EXCEPT !.valid = ~@] /\ UNCHANGED boxes
    /\ UNCHANGED <<type, node, report, since>>

Init ==
    /\ type \in Types
    /\ row \in [host : {"system", "user"}, valid : BOOLEAN]
    /\ node = [up |-> TRUE, syncing |-> TRUE, current |-> 0, highest |-> 0]
    /\ boxes = [node |-> "none", query |-> "none"]
    /\ report = Nothing /\ since = 0

Next ==
    \/ Begin \/ ReadSyncing \/ ReadNumber \/ ReadTime \/ ReadBlockHeight \/ ReadSlot
    \/ ReadSlotTime \/ ReadSyncState \/ ReadTarget \/ ReadStatuses
    \/ ReadIndexer \/ ReadQuery \/ ReadMeta \/ ReadMetadata \/ Answer
    \/ Hear \/ Import \/ CatchUp \/ GoAway \/ Change

Spec == Init /\ [][Next]_vars

Heights == 0 .. MaxHeight
Rows == [host : {"system", "user"}, valid : BOOLEAN]
Heads == [up : BOOLEAN, syncing : BOOLEAN, current : Heights, highest : Heights]
Statuses == {"not_started", "starting", "healthy", "terminated", "unhealthy"}
Steps == {"idle", "evm", "number", "time", "solana", "slot", "slot_time", "polkadot",
          "target", "subgraph", "system", "user", "box", "metadata", "done"}
Reports == [pc : Steps, row : Rows \cup {None}, last : Heights, time : Heights,
            target : Heights, held : Heights, healthy : BOOLEAN, failed : BOOLEAN,
            indexer : Statuses, query : Statuses]

(* The types of the project, its node and the report.                      *)
TypeOK ==
    /\ type \in Types /\ row \in Rows \cup {None}
    /\ node \in Heads /\ node.current <= node.highest
    /\ boxes \in [node : BoxStates \cup {"none"}, query : BoxStates \cup {"none"}]
    /\ report \in Reports /\ since \in Heights

(* However the node goes on, restarts or goes away between the requests, a *)
(* finished report never shows a project beyond its target or beyond the   *)
(* node, nor behind where the node was when it was begun, nor a time older *)
(* than its height; unless a request failed, and then it has no target.    *)
ReportInOrder ==
    report.pc = "done" =>
        /\ report.last <= node.current /\ report.time <= node.current
        /\ IF report.failed THEN report.target = 0
           ELSE /\ since <= report.last /\ report.last <= report.target
                /\ report.time # 0 => report.last <= report.time
=============================================================================
