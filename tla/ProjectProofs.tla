---------------------------- MODULE ProjectProofs ---------------------------
(* Proofs about the coordinator's projects: ProjectLife, for any calls,    *)
(* configurations and jobs beside them, NodeReport, for any chain, and     *)
(* EndpointProject, for any lists of endpoints.                            *)
EXTENDS ProjectParts, Naturals, Sequences, SequenceTheorems, InductionLemmas, TLAPS

-----------------------------------------------------------------------------
(* NodeReport.  What has been read is not above what is read later, as the *)
(* node's height never falls.                                              *)

\* The steps a project of a type goes through.
OfType(k) ==
    /\ k.pc \in {"evm", "number", "time"} => type = "evm"
    /\ k.pc \in {"solana", "slot", "slot_time"} => type = "solana"
    /\ k.pc = "polkadot" => type = "polkadot"
    /\ k.pc = "target" => type \in {"evm", "solana", "polkadot"}

\* A report that is not finished has neither failed nor a target; what is to be
\* read is zero.
Unread(k) ==
    /\ k.pc # "done" => k.target = 0 /\ ~k.failed
    /\ k.pc \notin {"time", "slot", "slot_time", "target", "done"} => k.last = 0 /\ k.time = 0
    /\ k.pc \in {"time", "slot", "slot_time"} => k.time = 0
    /\ k.pc = "target" /\ type = "polkadot" => k.time = 0

\* What has been read is between the node's height at the beginning and now.
Between(k) ==
    /\ k.pc # "idle" => since <= chainNode.current
    /\ k.last <= chainNode.current /\ k.time <= chainNode.current
    /\ k.pc \in {"time", "slot", "slot_time", "target"} => since <= k.last
    /\ k.pc = "slot_time" => k.last <= k.held /\ k.held <= chainNode.current
    /\ k.pc = "target" /\ type = "polkadot" /\ k.held # 0 => k.last <= k.held
    /\ k.pc = "target" /\ k.time # 0 => k.last <= k.time

\* A finished report is in order.
Ordered(k) ==
    k.pc = "done" =>
        /\ k.failed => k.target = 0
        /\ ~k.failed =>
              /\ since <= k.last /\ k.last <= k.target
              /\ k.time # 0 => k.last <= k.time

ReportOK(k) == k \in Report!Reports /\ OfType(k) /\ Unread(k) /\ Between(k) /\ Ordered(k)

\* A node that is not behind has heard of no higher block than its own.
UpToDate == ~chainNode.syncing => chainNode.current = chainNode.highest

ReportInv == Report!TypeOK /\ UpToDate /\ ReportOK(report)

LEMMA ReportInit ==
    ASSUME Report!ReportAssumption, Report!Init
    PROVE  ReportInv
<1>1. Report!Nothing \in Report!Reports
  BY DEF Report!Nothing, Report!Reports, Report!ReportAssumption, Report!Steps,
         Report!Heights, Report!Statuses
<1>2. Report!TypeOK
  BY <1>1 DEF Report!Init, Report!TypeOK, Report!Heads, Report!Heights, Report!Rows,
              Report!ReportAssumption
<1> QED
  BY <1>1, <1>2 DEF ReportInv, ReportOK, Report!Init, Report!Nothing, UpToDate, OfType,
                   Unread, Between, Ordered

\* The numbers the comparisons are about.
LEMMA ReportNumbers ==
    ASSUME Report!ReportAssumption, Report!TypeOK
    PROVE  /\ chainNode.current \in Report!Heights /\ chainNode.highest \in Report!Heights
           /\ chainNode.current <= chainNode.highest
           /\ chainNode.up \in BOOLEAN /\ chainNode.syncing \in BOOLEAN
           /\ report.last \in Report!Heights /\ report.time \in Report!Heights
           /\ report.target \in Report!Heights /\ report.held \in Report!Heights
           /\ since \in Report!Heights /\ 0 \in Report!Heights
           /\ \A h \in Report!Heights : h \in Nat
  BY DEF Report!ReportAssumption, Report!TypeOK, Report!Heads, Report!Reports, Report!Heights

\* A step of the node or of its surroundings leaves the report in order.
LEMMA WorldStep ==
    ASSUME Report!ReportAssumption, ReportInv,
           Report!Hear \/ Report!Import \/ Report!CatchUp \/ Report!GoAway \/ Report!Change
    PROVE  ReportInv'
<1>0. /\ chainNode \in Report!Heads /\ chainNode.current <= chainNode.highest /\ UpToDate
      /\ \A h \in Report!Heights : h \in Nat /\ (h < MaxHeight => h + 1 \in Report!Heights)
  BY DEF ReportInv, Report!TypeOK, Report!Heights, Report!ReportAssumption
<1>1. /\ chainNode' \in Report!Heads /\ chainNode'.current <= chainNode'.highest
      /\ chainNode.current <= chainNode'.current /\ UpToDate'
  <2>1. chainNode.current \in Report!Heights /\ chainNode.highest \in Report!Heights
        /\ chainNode.current \in Nat /\ chainNode.highest \in Nat /\ MaxHeight \in Nat
    BY <1>0 DEF Report!Heads, Report!ReportAssumption
  <2>2. CASE Report!Hear
    <3>1. chainNode' = [chainNode EXCEPT !.highest = @ + 1, !.syncing = TRUE]
          /\ chainNode.highest + 1 \in Report!Heights
      BY <1>0, <2>1, <2>2 DEF Report!Hear, Report!Node
    <3>2. chainNode' \in Report!Heads /\ chainNode'.syncing = TRUE
          /\ chainNode'.current = chainNode.current /\ chainNode'.highest = chainNode.highest + 1
      BY <1>0, <3>1 DEF Report!Heads
    <3> QED
      BY <1>0, <2>1, <3>2 DEF UpToDate
  <2>3. CASE Report!Import
    <3>1. PICK h \in {chainNode.highest, chainNode.highest + 1} :
             /\ chainNode' = [chainNode EXCEPT !.current = @ + 1, !.highest = h]
             /\ chainNode.current < MaxHeight
             /\ IF h = chainNode.highest THEN chainNode.current < chainNode.highest
                ELSE ~chainNode.syncing
      <4>1. CASE /\ chainNode.current < chainNode.highest /\ chainNode.current < MaxHeight
                 /\ chainNode' = [chainNode EXCEPT !.current = @ + 1]
        <5>1. chainNode' = [chainNode EXCEPT !.current = @ + 1, !.highest = chainNode.highest]
          BY <1>0, <4>1 DEF Report!Heads
        <5> QED
          BY <4>1, <5>1
      <4>2. CASE /\ ~chainNode.syncing /\ chainNode.current < MaxHeight
                 /\ chainNode' = [chainNode EXCEPT !.current = @ + 1, !.highest = @ + 1]
        BY <2>1, <4>2
      <4> QED
        BY <2>3, <4>1, <4>2 DEF Report!Import, Report!Node
    <3>2. chainNode.current + 1 \in Report!Heights /\ h \in Report!Heights
      BY <1>0, <2>1, <3>1 DEF UpToDate
    <3>3. /\ chainNode' \in Report!Heads /\ chainNode'.syncing = chainNode.syncing
          /\ chainNode'.current = chainNode.current + 1 /\ chainNode'.highest = h
      BY <1>0, <3>1, <3>2 DEF Report!Heads
    <3> QED
      BY <1>0, <2>1, <3>1, <3>3 DEF UpToDate
  <2>4. CASE Report!CatchUp
    BY <1>0, <2>1, <2>4 DEF Report!CatchUp, Report!Node, Report!Heads, UpToDate
  <2>5. CASE Report!GoAway
    <3>1. CASE chainNode.up
      <4>1. chainNode' = [chainNode EXCEPT !.up = FALSE]
        BY <2>5, <3>1 DEF Report!GoAway, Report!Node
      <4>2. /\ chainNode' \in Report!Heads /\ chainNode'.syncing = chainNode.syncing
            /\ chainNode'.current = chainNode.current /\ chainNode'.highest = chainNode.highest
        BY <1>0, <4>1 DEF Report!Heads
      <4> QED
        BY <1>0, <2>1, <4>2 DEF UpToDate
    <3>2. CASE ~chainNode.up
      <4>1. chainNode' = [chainNode EXCEPT !.up = TRUE, !.syncing = TRUE,
                                           !.highest = chainNode.current]
        BY <2>5, <3>2 DEF Report!GoAway, Report!Node
      <4>2. /\ chainNode' \in Report!Heads /\ chainNode'.syncing = TRUE
            /\ chainNode'.current = chainNode.current /\ chainNode'.highest = chainNode.current
        BY <1>0, <2>1, <4>1 DEF Report!Heads
      <4> QED
        BY <2>1, <4>2 DEF UpToDate
    <3> QED
      BY <3>1, <3>2
  <2>6. CASE Report!Change
    BY <1>0, <2>1, <2>6 DEF Report!Change, UpToDate
  <2> QED
    BY <2>2, <2>3, <2>4, <2>5, <2>6
<1>2. UNCHANGED <<type, report, since>>
  BY DEF Report!Hear, Report!Import, Report!CatchUp, Report!GoAway, Report!Change, Report!Node
<1>3. projectRow' \in Report!Rows \cup {None}
  <2>1. ASSUME NEW r \in Report!Rows
        PROVE  [r EXCEPT !.valid = ~@] \in Report!Rows
    <3>1. (~r.valid) \in BOOLEAN
      OBVIOUS
    <3> QED
      BY <3>1 DEF Report!Rows
  <2> QED
    BY <2>1 DEF ReportInv, Report!TypeOK, Report!Hear, Report!Import, Report!CatchUp,
                Report!GoAway, Report!Change, Report!Node
<1>4. docker' \in [node : BoxStates \cup {"none"}, query : BoxStates \cup {"none"}]
  BY DEF ReportInv, Report!TypeOK, Report!Hear, Report!Import, Report!CatchUp,
         Report!GoAway, Report!Change, Report!Node
<1>5. Report!TypeOK'
  BY <1>1, <1>2, <1>3, <1>4 DEF ReportInv, Report!TypeOK
<1>6. chainNode.current \in Nat /\ chainNode'.current \in Nat /\ since \in Nat
      /\ report.last \in Nat /\ report.time \in Nat /\ report.held \in Nat
  BY <1>1, ReportNumbers DEF ReportInv, Report!Heads, Report!Heights, Report!ReportAssumption
<1>7. Between(report)'
  BY <1>1, <1>2, <1>6 DEF ReportInv, ReportOK, Between
<1> QED
  BY <1>1, <1>2, <1>5, <1>7 DEF ReportInv, Report!TypeOK, ReportOK, OfType, Unread, Ordered

\* A step that puts a report together.
LEMMA PutStep ==
    ASSUME ReportInv, NEW k, ReportOK(k), Report!Put(k)
    PROVE  ReportInv'
<1>1. report' = k /\ UNCHANGED <<type, projectRow, chainNode, docker, since>>
  BY DEF Report!Put
<1>2. Report!TypeOK' /\ UpToDate'
  BY <1>1 DEF ReportInv, Report!TypeOK, ReportOK, UpToDate
<1>3. k \in Report!Reports /\ OfType(k)' /\ Unread(k)' /\ Between(k)' /\ Ordered(k)'
  BY <1>1 DEF ReportOK, OfType, Unread, Between, Ordered
<1> QED
  BY <1>1, <1>2, <1>3 DEF ReportInv, ReportOK, OfType, Unread, Between, Ordered

\* A request may fail at every step.
LEMMA FailStep ==
    ASSUME Report!ReportAssumption, ReportInv, report.pc \notin {"idle", "done"}
    PROVE  ReportOK(Report!Failed)
<1>1. Report!Failed \in Report!Reports
  BY DEF Report!Failed, ReportInv, Report!TypeOK, Report!Reports, Report!Steps
<1>2. /\ Report!Failed.pc = "done" /\ Report!Failed.failed
      /\ Report!Failed.last = report.last /\ Report!Failed.time = report.time
      /\ Report!Failed.target = report.target
  BY DEF Report!Failed, ReportInv, Report!TypeOK, Report!Reports
<1> QED
  BY <1>1, <1>2 DEF ReportInv, ReportOK, OfType, Unread, Between, Ordered

\* What is known of a report that is being put together.
LEMMA ReportFields ==
    ASSUME Report!ReportAssumption, ReportInv
    PROVE  /\ report \in Report!Reports /\ Report!TypeOK
           /\ OfType(report) /\ Unread(report) /\ Between(report)
  BY DEF ReportInv, ReportOK

\* A request that is answered or fails.
LEMMA AskStep ==
    ASSUME Report!ReportAssumption, ReportInv, NEW pc, pc \notin {"idle", "done"},
           NEW k, report.pc = pc => ReportOK(k), Report!Ask(pc, k)
    PROVE  ReportInv'
  BY FailStep, PutStep DEF Report!Ask

LEMMA EvmStep ==
    ASSUME Report!ReportAssumption, ReportInv,
           Report!ReadSyncing \/ Report!ReadNumber \/ Report!ReadTime
    PROVE  ReportInv'
<1>1. CASE Report!ReadSyncing
  <2> DEFINE k == IF chainNode.syncing
                  THEN [report EXCEPT !.last = chainNode.current, !.pc = "time"]
                  ELSE [report EXCEPT !.pc = "number"]
  <2>1. ASSUME report.pc = "evm" PROVE ReportOK(k)
    <3>1. k \in Report!Reports
      BY ReportFields, ReportNumbers DEF Report!Reports, Report!Steps
    <3>2. \/ k.pc = "time" /\ k.last = chainNode.current
          \/ k.pc = "number" /\ k.last = 0
      BY <2>1, ReportFields DEF Report!Reports, Unread
    <3>3. k.time = 0 /\ k.target = 0 /\ ~k.failed
      BY <2>1, ReportFields DEF Report!Reports, Unread
    <3> HIDE DEF k
    <3> QED
      BY <2>1, <3>1, <3>2, <3>3, ReportFields, ReportNumbers
         DEF ReportOK, OfType, Unread, Between, Ordered
  <2> HIDE DEF k
  <2> QED
    BY <1>1, <2>1, AskStep DEF Report!ReadSyncing, k
<1>2. CASE Report!ReadNumber
  <2> DEFINE k == [report EXCEPT !.last = chainNode.current, !.pc = "time"]
  <2>1. ASSUME report.pc = "number" PROVE ReportOK(k)
    <3>1. k \in Report!Reports
      BY ReportFields, ReportNumbers DEF Report!Reports, Report!Steps
    <3>2. k.pc = "time" /\ k.last = chainNode.current /\ k.time = 0 /\ k.target = 0 /\ ~k.failed
      BY <2>1, ReportFields DEF Report!Reports, Unread
    <3> HIDE DEF k
    <3> QED
      BY <2>1, <3>1, <3>2, ReportFields, ReportNumbers
         DEF ReportOK, OfType, Unread, Between, Ordered
  <2> HIDE DEF k
  <2> QED
    BY <1>2, <2>1, AskStep DEF Report!ReadNumber, k
<1>3. CASE Report!ReadTime
  <2> DEFINE k == [report EXCEPT !.time = chainNode.current, !.pc = "target"]
  <2>1. ASSUME report.pc = "time" PROVE ReportOK(k)
    <3>1. k \in Report!Reports
      BY ReportFields, ReportNumbers DEF Report!Reports, Report!Steps
    <3>2. /\ k.pc = "target" /\ k.last = report.last /\ k.time = chainNode.current /\ k.target = 0
          /\ ~k.failed
      BY <2>1, ReportFields DEF Report!Reports, Unread
    <3> HIDE DEF k
    <3> QED
      BY <2>1, <3>1, <3>2, ReportFields, ReportNumbers
         DEF ReportOK, OfType, Unread, Between, Ordered
  <2> HIDE DEF k
  <2> QED
    BY <1>3, <2>1, AskStep DEF Report!ReadTime, k
<1> QED
  BY <1>1, <1>2, <1>3

LEMMA SolanaStep ==
    ASSUME Report!ReportAssumption, ReportInv,
           Report!ReadBlockHeight \/ Report!ReadSlot \/ Report!ReadSlotTime
    PROVE  ReportInv'
<1>1. CASE Report!ReadBlockHeight
  <2> DEFINE k == [report EXCEPT !.last = chainNode.current, !.pc = "slot"]
  <2>1. ASSUME report.pc = "solana" PROVE ReportOK(k)
    <3>1. k \in Report!Reports
      BY ReportFields, ReportNumbers DEF Report!Reports, Report!Steps
    <3>2. k.pc = "slot" /\ k.last = chainNode.current /\ k.time = 0 /\ k.target = 0 /\ ~k.failed
      BY <2>1, ReportFields DEF Report!Reports, Unread
    <3> HIDE DEF k
    <3> QED
      BY <2>1, <3>1, <3>2, ReportFields, ReportNumbers
         DEF ReportOK, OfType, Unread, Between, Ordered
  <2> HIDE DEF k
  <2> QED
    BY <1>1, <2>1, AskStep DEF Report!ReadBlockHeight, k
<1>2. CASE Report!ReadSlot
  <2> DEFINE k == [report EXCEPT !.held = chainNode.current, !.pc = "slot_time"]
  <2>1. ASSUME report.pc = "slot" PROVE ReportOK(k)
    <3>1. k \in Report!Reports
      BY ReportFields, ReportNumbers DEF Report!Reports, Report!Steps
    <3>2. /\ k.pc = "slot_time" /\ k.last = report.last /\ k.held = chainNode.current
          /\ k.time = 0 /\ k.target = 0 /\ ~k.failed
      BY <2>1, ReportFields DEF Report!Reports, Unread
    <3> HIDE DEF k
    <3> QED
      BY <2>1, <3>1, <3>2, ReportFields, ReportNumbers
         DEF ReportOK, OfType, Unread, Between, Ordered
  <2> HIDE DEF k
  <2> QED
    BY <1>2, <2>1, AskStep DEF Report!ReadSlot, k
<1>3. CASE Report!ReadSlotTime
  <2> DEFINE k == [report EXCEPT !.time = report.held, !.pc = "target"]
  <2>1. ASSUME report.pc = "slot_time" PROVE ReportOK(k)
    <3>1. k \in Report!Reports
      BY ReportFields, ReportNumbers DEF Report!Reports, Report!Steps
    <3>2. /\ k.pc = "target" /\ k.last = report.last /\ k.time = report.held /\ k.target = 0
          /\ ~k.failed
      BY <2>1, ReportFields DEF Report!Reports, Unread
    <3> HIDE DEF k
    <3> QED
      BY <2>1, <3>1, <3>2, ReportFields, ReportNumbers
         DEF ReportOK, OfType, Unread, Between, Ordered
  <2> HIDE DEF k
  <2> QED
    BY <1>3, <2>1, AskStep DEF Report!ReadSlotTime, k
<1> QED
  BY <1>1, <1>2, <1>3

LEMMA HeadsStep ==
    ASSUME Report!ReportAssumption, ReportInv, Report!ReadSyncState \/ Report!ReadStatuses
    PROVE  ReportInv'
<1>1. CASE Report!ReadSyncState
  <2> DEFINE k == [report EXCEPT !.last = chainNode.current, !.held = chainNode.highest,
                                  !.pc = "target"]
  <2>1. ASSUME report.pc = "polkadot" PROVE ReportOK(k)
    <3>1. k \in Report!Reports
      BY ReportFields, ReportNumbers DEF Report!Reports, Report!Steps
    <3>2. /\ k.pc = "target" /\ k.last = chainNode.current /\ k.held = chainNode.highest
          /\ k.time = 0 /\ k.target = 0 /\ ~k.failed
      BY <2>1, ReportFields DEF Report!Reports, Unread
    <3> HIDE DEF k
    <3> QED
      BY <2>1, <3>1, <3>2, ReportFields, ReportNumbers
         DEF ReportOK, OfType, Unread, Between, Ordered
  <2> HIDE DEF k
  <2> QED
    BY <1>1, <2>1, AskStep DEF Report!ReadSyncState, k
<1>2. CASE Report!ReadStatuses
  <2> DEFINE k == [report EXCEPT !.last = chainNode.current, !.target = chainNode.highest,
                                  !.pc = "done"]
  <2>1. ASSUME report.pc = "subgraph" PROVE ReportOK(k)
    <3>1. k \in Report!Reports
      BY ReportFields, ReportNumbers DEF Report!Reports, Report!Steps
    <3>2. /\ k.pc = "done" /\ k.last = chainNode.current /\ k.target = chainNode.highest
          /\ k.time = 0
          /\ ~k.failed
      BY <2>1, ReportFields DEF Report!Reports, Unread
    <3> HIDE DEF k
    <3> QED
      BY <2>1, <3>1, <3>2, ReportFields, ReportNumbers
         DEF ReportOK, OfType, Unread, Between, Ordered
  <2> HIDE DEF k
  <2> QED
    BY <1>2, <2>1, AskStep DEF Report!ReadStatuses, k
<1> QED
  BY <1>1, <1>2

\* The target is no lower than the height.
LEMMA TargetStep ==
    ASSUME Report!ReportAssumption, ReportInv, Report!ReadTarget
    PROVE  ReportInv'
<1>1. report.pc = "target" /\ type \in {"evm", "solana", "polkadot"}
  BY ReportFields DEF Report!ReadTarget, OfType
<1>2. CASE ~Report!Kept /\ type # "solana" /\ ~chainNode.up
  BY <1>1, <1>2, FailStep, PutStep DEF Report!ReadTarget
<1>3. CASE ~(~Report!Kept /\ type # "solana" /\ ~chainNode.up)
  <2> DEFINE target == Report!OrLast(Report!Target)
             k == [report EXCEPT !.target = target, !.pc = "done"]
  <2>1. target \in Report!Heights /\ report.last <= target
    BY <1>1, ReportFields, ReportNumbers
       DEF Report!OrLast, Report!Target, Report!Kept, Between
  <2> HIDE DEF target
  <2>2. k \in Report!Reports
    BY <2>1, ReportFields DEF Report!Reports, Report!Steps
  <2>3. /\ k.pc = "done" /\ k.target = target /\ k.last = report.last /\ k.time = report.time
        /\ ~k.failed
    BY <1>1, ReportFields DEF Report!Reports, Unread
  <2>4. Report!Put(k)
    BY <1>3 DEF Report!ReadTarget, target
  <2> HIDE DEF k
  <2>5. ReportOK(k)
    BY <1>1, <2>1, <2>2, <2>3, ReportFields, ReportNumbers
       DEF ReportOK, OfType, Unread, Between, Ordered
  <2> QED
    BY <2>4, <2>5, PutStep
<1> QED
  BY <1>2, <1>3

\* The containers, the node's endpoint and the tables of the indexer.
LEMMA QueryStep ==
    ASSUME Report!ReportAssumption, ReportInv,
           \/ Report!ReadIndexer \/ Report!ReadQuery \/ Report!ReadMeta \/ Report!ReadMetadata
    PROVE  ReportInv'
<1>1. \A box : Report!ServiceStatus(box) \in Report!Statuses
  BY DEF Report!ServiceStatus, Report!Statuses
<1>2. ASSUME NEW pc \in {"box", "metadata"}, NEW i \in Report!Statuses, NEW q \in Report!Statuses,
             report.pc \in {"system", "box", "user"},
             Report!Put([report EXCEPT !.pc = pc, !.indexer = i, !.query = q])
      PROVE  ReportInv'
  <2> DEFINE k == [report EXCEPT !.pc = pc, !.indexer = i, !.query = q]
  <2>1. k \in Report!Reports
    BY ReportFields DEF Report!Reports, Report!Steps
  <2>2. k.pc = pc /\ k.last = 0 /\ k.time = 0 /\ k.target = 0 /\ ~k.failed
    BY <1>2, ReportFields DEF Report!Reports, Unread
  <2> HIDE DEF k
  <2>3. ReportOK(k)
    BY <1>2, <2>1, <2>2, ReportFields, ReportNumbers
       DEF ReportOK, OfType, Unread, Between, Ordered
  <2> QED
    BY <1>2, <2>3, PutStep DEF k
<1>3. CASE Report!ReadIndexer
  <2>1. [report EXCEPT !.indexer = Report!ServiceStatus(docker.node), !.pc = "box"] =
           [report EXCEPT !.pc = "box", !.indexer = Report!ServiceStatus(docker.node),
                          !.query = report.query]
    BY ReportFields DEF Report!Reports
  <2>2. report.query \in Report!Statuses
    BY ReportFields DEF Report!Reports
  <2> QED
    BY <1>1, <1>2, <1>3, <2>1, <2>2 DEF Report!ReadIndexer
<1>4. CASE Report!ReadQuery
  <2>1. [report EXCEPT !.query = Report!ServiceStatus(docker.query), !.pc = "metadata"] =
           [report EXCEPT !.pc = "metadata", !.indexer = report.indexer,
                          !.query = Report!ServiceStatus(docker.query)]
    BY ReportFields DEF Report!Reports
  <2>2. report.indexer \in Report!Statuses
    BY ReportFields DEF Report!Reports
  <2> QED
    BY <1>1, <1>2, <1>4, <2>1, <2>2 DEF Report!ReadQuery
<1>5. CASE Report!ReadMeta
  <2> DEFINE i == IF chainNode.up /\ chainNode.highest > 0 THEN "healthy" ELSE "unhealthy"
  <2>1. Report!Put([report EXCEPT !.pc = "metadata", !.indexer = i, !.query = "unhealthy"])
        /\ report.pc = "user"
    BY <1>5 DEF Report!ReadMeta
  <2>2. i \in Report!Statuses /\ "unhealthy" \in Report!Statuses
    BY DEF Report!Statuses
  <2> HIDE DEF i
  <2> QED
    BY <1>2, <2>1, <2>2
<1>6. CASE Report!ReadMetadata
  <2>1. CASE docker.query # "healthy"
    BY <1>6, <2>1, FailStep, PutStep DEF Report!ReadMetadata
  <2>2. CASE docker.query = "healthy"
    <3> DEFINE i == IF chainNode.up THEN report.indexer ELSE "unhealthy"
               k == [report EXCEPT !.last = chainNode.current, !.target = chainNode.highest,
                        !.healthy = chainNode.up, !.query = "healthy", !.pc = "done", !.indexer = i]
    <3>1. report.pc = "metadata" /\ Report!Put(k)
      BY <1>6, <2>2 DEF Report!ReadMetadata
    <3>2. i \in Report!Statuses /\ "healthy" \in Report!Statuses
      BY ReportFields DEF Report!Reports, Report!Statuses
    <3> HIDE DEF i
    <3>3. k \in Report!Reports
      BY <3>2, ReportFields, ReportNumbers DEF Report!Reports, Report!Steps
    <3>4. /\ k.pc = "done" /\ k.last = chainNode.current /\ k.target = chainNode.highest
          /\ k.time = 0
          /\ ~k.failed
      BY <3>1, ReportFields DEF Report!Reports, Unread
    <3> HIDE DEF k
    <3>5. ReportOK(k)
      BY <3>1, <3>3, <3>4, ReportFields, ReportNumbers
         DEF ReportOK, OfType, Unread, Between, Ordered
    <3> QED
      BY <3>1, <3>5, PutStep
  <2> QED
    BY <2>1, <2>2
<1> QED
  BY <1>3, <1>4, <1>5, <1>6

LEMMA NothingOK ==
    ASSUME Report!ReportAssumption, Report!TypeOK
    PROVE  /\ Report!Nothing \in Report!Reports /\ Report!Nothing.pc = "idle"
           /\ Report!Nothing.last = 0 /\ Report!Nothing.time = 0
           /\ Report!Nothing.target = 0 /\ ~Report!Nothing.failed
  BY ReportNumbers DEF Report!Nothing, Report!Reports, Report!Steps, Report!Statuses

LEMMA BeginStep ==
    ASSUME Report!ReportAssumption, ReportInv, Report!Begin
    PROVE  ReportInv'
<1> DEFINE healthy == IF type = "subquery" THEN FALSE ELSE projectRow.valid
           pc == IF type = "subquery" THEN projectRow.host ELSE type
           k == [Report!Nothing EXCEPT !.row = projectRow, !.healthy = healthy, !.pc = pc]
<1>1. /\ report' = k /\ since' = chainNode.current /\ projectRow # None
      /\ UNCHANGED <<type, projectRow, chainNode, docker>>
  BY DEF Report!Begin
<1>2. projectRow \in Report!Rows /\ type \in NodeTypes
  BY <1>1, ReportFields DEF Report!TypeOK
<1>3. healthy \in BOOLEAN
  BY <1>2 DEF Report!Rows
<1>4. pc \in {"system", "user", "evm", "polkadot", "solana", "subgraph"}
      /\ (pc \in {"evm", "polkadot", "solana"} => type = pc)
  BY <1>2 DEF Report!Rows, Report!ReportAssumption
<1> HIDE DEF healthy, pc
<1>5. k \in Report!Reports
  BY <1>2, <1>3, <1>4, NothingOK, ReportFields DEF Report!Reports, Report!Steps
<1>6. k.pc = pc /\ k.last = 0 /\ k.time = 0 /\ k.target = 0 /\ ~k.failed
  BY NothingOK, ReportFields DEF Report!Reports
<1> HIDE DEF k
<1>7. Report!TypeOK' /\ UpToDate'
  BY <1>1, <1>5, ReportFields, ReportNumbers DEF ReportInv, Report!TypeOK, UpToDate
<1>8. ReportOK(report)'
  BY <1>1, <1>4, <1>5, <1>6, ReportFields, ReportNumbers
     DEF ReportOK, OfType, Unread, Between, Ordered
<1> QED
  BY <1>7, <1>8 DEF ReportInv

LEMMA ReportStep ==
    ASSUME Report!ReportAssumption, ReportInv, [Report!Next]_(Report!vars)
    PROVE  ReportInv'
<1>1. CASE Report!Answer
  <2>1. ReportOK(Report!Nothing)
    BY NothingOK, ReportFields, ReportNumbers DEF ReportOK, OfType, Unread, Between, Ordered
  <2> QED
    BY <1>1, <2>1, PutStep DEF Report!Answer
<1>2. CASE UNCHANGED Report!vars
  BY <1>2 DEF Report!vars, ReportInv, Report!TypeOK, UpToDate, ReportOK, OfType, Unread,
              Between, Ordered
<1> QED
  BY <1>1, <1>2, BeginStep, EvmStep, SolanaStep, HeadsStep, TargetStep, QueryStep, WorldStep
     DEF Report!Next

\* The node and the report keep their types.
THEOREM ReportTypeCorrect ==
    ASSUME Report!ReportAssumption
    PROVE  Report!Spec => []Report!TypeOK
<1>1. Report!Init => ReportInv
  BY ReportInit
<1>2. ReportInv /\ [Report!Next]_(Report!vars) => ReportInv'
  BY ReportStep
<1>3. ReportInv => Report!TypeOK
  BY DEF ReportInv
<1> QED
  BY <1>1, <1>2, <1>3, PTL DEF Report!Spec

\* A finished report is in order, however the node goes on, restarts or goes away
\* between the requests.
THEOREM ReportSafe ==
    ASSUME Report!ReportAssumption
    PROVE  Report!Spec => []ReportInOrder
<1>1. Report!Init => ReportInv
  BY ReportInit
<1>2. ReportInv /\ [Report!Next]_(Report!vars) => ReportInv'
  BY ReportStep
<1>3. ReportInv => Report!ReportInOrder
  <2> SUFFICES ASSUME ReportInv, report.pc = "done"
               PROVE  Report!ReportInOrder
    BY DEF Report!ReportInOrder
  <2> QED
    BY DEF ReportInv, ReportOK, Between, Ordered, Report!ReportInOrder
<1> QED
  BY <1>1, <1>2, <1>3, PTL DEF Report!Spec, ReportInOrder

-----------------------------------------------------------------------------
(* ProjectLife.  Every call carries an entity of the right type, and what  *)
(* the containers were made from is what the file says.                    *)

StartSteps == {"save", "user", "inspect", "ps", "resume", "create", "compose", "describe"}
Carried == {"save", "user", "inspect", "ps", "compose", "describe", "last"}

\* What a call holds at its steps.
CallOK(k) ==
    /\ k.op = "start" => k.config \in Configs /\ k.host \in Hosts
    /\ k.pc \in StartSteps => k.op = "start"
    /\ k.pc \in {"add", "insert"} => k.op \in {"add", "start"}
    /\ k.pc \in Carried => k.e # Unset

CallsOK == calls \in [AdminCalls -> Life!Handlers] /\ \A c \in AdminCalls : CallOK(calls[c])

RowOK ==
    /\ row \in Life!Entities
    /\ row # Unset => row.served \in BOOLEAN /\ row.config # Unset

\* There is a file when a "docker up" is under way.
UpsOK ==
    /\ ups \in [Ups -> Life!Processes]
    /\ \A u \in Ups : ups[u].at # "free" => compose # Unset
    /\ \A u \in Ups : ups[u].at = "create" => ups[u].file # Unset

\* While one that met no other file makes containers, all of them use its file,
\* and what it has made is of that file.
Creating(u) == ups[u].at = "create"
Alike ==
    \A u, v \in Ups : Creating(u) /\ Creating(v) /\ ~ups[u].mixed => ups[v].file = ups[u].file
MadeOf ==
    \A u \in Ups, s \in Life!Services :
        Creating(u) /\ ~ups[u].mixed /\ s \in ups[u].made =>
            boxes[s].config \in {Unset, ups[u].file}

\* Unless one is under way or the last ended badly, the containers are of the file.
Followed ==
    \/ unfinished \/ \E u \in Ups : ups[u].at # "free"
    \/ \A s \in Life!Services : boxes[s].config \in {Unset, compose}

FilesOK ==
    /\ compose \in Configs \cup {Unset} /\ schema \in BOOLEAN /\ unfinished \in BOOLEAN
    /\ boxes \in [Life!Services -> Life!Boxes]
    /\ \A s \in Life!Services : (boxes[s].config = Unset) <=> ~Life!Exists(s)
    /\ UpsOK /\ Alike /\ MadeOf /\ Followed

\* The monitor's round goes by a row.
JobsOK ==
    /\ monitor \in [pc : {"idle", "user", "node", "query", "restart"}, listed : Life!Entities]
    /\ misses \in [Life!Services -> 0 .. Life!Threshold] /\ refresh \in Life!Entities
    /\ monitor.pc = "user" => monitor.listed # Unset
    /\ forgotten \in BOOLEAN

LifeInv == RowOK /\ CallsOK /\ FilesOK /\ JobsOK

LEMMA SaveIs ==
    ASSUME Life!LifeAssumption, RowOK, NEW e \in Life!Rows, Life!Save(e)
    PROVE  /\ row' \in Life!Rows /\ row'.served \in BOOLEAN /\ row'.config # Unset
           /\ row'.status = e.status /\ row'.host = e.host
           /\ row'.config = IF e.config # Unset THEN e.config
                            ELSE IF row = Unset THEN "default" ELSE row.config
           /\ row'.served = IF e.served # Unset THEN e.served
                            ELSE IF row = Unset THEN FALSE ELSE row.served
<1> DEFINE old == IF row = Unset THEN Life!Fresh ELSE row
<1>1. Life!Fresh \in Life!Rows /\ Life!Fresh.config = "default" /\ Life!Fresh.served = FALSE
  BY DEF Life!Fresh, Life!Rows
<1>2. old \in Life!Rows /\ old.served \in BOOLEAN /\ old.config # Unset
  BY <1>1 DEF RowOK, Life!Entities, Life!LifeAssumption
<1>3. old.config = (IF row = Unset THEN "default" ELSE row.config)
      /\ old.served = (IF row = Unset THEN FALSE ELSE row.served)
  BY <1>1
<1>4. DOMAIN Life!Fresh = {"status", "host", "config", "served"}
  BY DEF Life!Fresh
<1>5. row' = [f \in {"status", "host", "config", "served"} |->
                 IF e[f] = Unset THEN old[f] ELSE e[f]]
  BY <1>4 DEF Life!Save
<1> HIDE DEF old
<1>6. e.status # Unset /\ e.host # Unset
  BY DEF Life!LifeAssumption, Life!Rows
<1>7. /\ row'.status = e.status /\ row'.host = e.host
      /\ row'.config = IF e.config # Unset THEN e.config ELSE old.config
      /\ row'.served = IF e.served # Unset THEN e.served ELSE old.served
  BY <1>5, <1>6
<1>8. /\ e.status \in {"running", "stopped"} /\ e.host \in Hosts \cup {"unresolved"}
      /\ row'.config \in Configs \cup {"default", Unset} /\ row'.config # Unset
  BY <1>2, <1>7 DEF Life!Rows
<1>9. row'.served \in BOOLEAN
  BY <1>2, <1>7 DEF Life!Rows
<1>10. row' = [status |-> row'.status, host |-> row'.host, config |-> row'.config,
               served |-> row'.served]
  BY <1>5
<1>11. row' \in Life!Rows
  BY <1>7, <1>8, <1>9, <1>10 DEF Life!Rows
<1> QED
  BY <1>3, <1>7, <1>8, <1>9, <1>11

LEMMA SavedRow ==
    ASSUME Life!LifeAssumption, RowOK, NEW e \in Life!Rows, Life!Save(e)
    PROVE  RowOK' /\ row' # Unset
  BY SaveIs DEF RowOK, Life!Entities, Life!LifeAssumption, Life!Rows

LEMMA SetCall ==
    ASSUME CallsOK, NEW c \in AdminCalls, NEW k \in Life!Handlers, CallOK(k),
           calls' = [calls EXCEPT ![c] = k]
    PROVE  CallsOK'
  BY DEF CallsOK, CallOK

LEMMA GotoIs ==
    ASSUME CallsOK, NEW c \in AdminCalls, NEW pc \in Life!Steps, Life!Goto(c, pc)
    PROVE  \E k \in Life!Handlers :
              /\ calls' = [calls EXCEPT ![c] = k] /\ k.pc = pc
              /\ k.op = calls[c].op /\ k.e = calls[c].e /\ k.back = calls[c].back
              /\ k.config = calls[c].config /\ k.host = calls[c].host
<1> DEFINE k == [calls[c] EXCEPT !.pc = pc]
<1>1. calls' = [calls EXCEPT ![c] = k]
  BY DEF Life!Goto
<1>2. k \in Life!Handlers
  BY DEF CallsOK, Life!Handlers
<1>3. /\ k.pc = pc /\ k.op = calls[c].op /\ k.e = calls[c].e /\ k.back = calls[c].back
      /\ k.config = calls[c].config /\ k.host = calls[c].host
  BY DEF CallsOK, Life!Handlers
<1> QED
  BY <1>1, <1>2, <1>3

LEMMA CarryIs ==
    ASSUME CallsOK, NEW c \in AdminCalls, NEW pc \in Life!Steps, NEW e \in Life!Rows,
           Life!Carry(c, e, pc)
    PROVE  \E k \in Life!Handlers :
              /\ calls' = [calls EXCEPT ![c] = k] /\ k.pc = pc
              /\ k.op = calls[c].op /\ k.e = e /\ k.back = calls[c].back
              /\ k.config = calls[c].config /\ k.host = calls[c].host
<1> DEFINE k == [calls[c] EXCEPT !.e = e, !.pc = pc]
<1>1. calls' = [calls EXCEPT ![c] = k]
  BY DEF Life!Carry
<1>2. k \in Life!Handlers
  BY DEF CallsOK, Life!Handlers, Life!Entities
<1>3. /\ k.pc = pc /\ k.op = calls[c].op /\ k.e = e /\ k.back = calls[c].back
      /\ k.config = calls[c].config /\ k.host = calls[c].host
  BY DEF CallsOK, Life!Handlers
<1> QED
  BY <1>1, <1>2, <1>3

LEMMA IdleOK == Life!Idle \in Life!Handlers /\ CallOK(Life!Idle)
  BY DEF Life!Idle, Life!Handlers, Life!Steps, Life!Entities, CallOK, StartSteps, Carried

LEMMA FinishOK ==
    ASSUME CallsOK, NEW c \in AdminCalls, Life!Finish(c)
    PROVE  CallsOK'
  BY IdleOK, SetCall DEF Life!Finish

LEMMA GotoOK ==
    ASSUME CallsOK, NEW c \in AdminCalls, NEW pc \in Life!Steps, Life!Goto(c, pc),
           pc \in StartSteps => calls[c].op = "start",
           pc \in {"add", "insert"} => calls[c].op \in {"add", "start"},
           pc \in Carried => calls[c].e # Unset
    PROVE  CallsOK'
<1>1. PICK k \in Life!Handlers :
         /\ calls' = [calls EXCEPT ![c] = k] /\ k.pc = pc
         /\ k.op = calls[c].op /\ k.e = calls[c].e
         /\ k.config = calls[c].config /\ k.host = calls[c].host
  BY GotoIs
<1>2. CallOK(k)
  BY <1>1 DEF CallsOK, CallOK
<1> QED
  BY <1>1, <1>2, SetCall

LEMMA CarryOK ==
    ASSUME Life!LifeAssumption, CallsOK, NEW c \in AdminCalls, NEW pc \in Life!Steps,
           NEW e \in Life!Rows, Life!Carry(c, e, pc),
           pc \in StartSteps => calls[c].op = "start",
           pc \in {"add", "insert"} => calls[c].op \in {"add", "start"}
    PROVE  CallsOK'
<1>1. PICK k \in Life!Handlers :
         /\ calls' = [calls EXCEPT ![c] = k] /\ k.pc = pc
         /\ k.op = calls[c].op /\ k.e = e
         /\ k.config = calls[c].config /\ k.host = calls[c].host
  BY CarryIs
<1>2. e # Unset
  BY DEF Life!LifeAssumption, Life!Rows
<1>3. CallOK(k)
  BY <1>1, <1>2 DEF CallsOK, CallOK
<1> QED
  BY <1>1, <1>3, SetCall

LEMMA Added ==
    /\ Life!Fresh \in Life!Rows /\ Life!Added \in Life!Rows
    /\ Life!Fresh.status = "stopped" /\ Life!Added.status = "stopped"
    /\ Life!Fresh.config = "default" /\ Life!Added.config = Unset
    /\ Life!Fresh.host = "unresolved" /\ Life!Added.host = "unresolved"
    /\ Life!Fresh.served = FALSE /\ Life!Added.served = Unset
<1>1. Life!Fresh \in Life!Rows
  BY DEF Life!Fresh, Life!Rows
<1>2. Life!Added \in Life!Rows /\ Life!Added.served = Unset /\ Life!Added.config = Unset
  BY <1>1 DEF Life!Added, Life!Rows
<1>3. Life!Added.status = Life!Fresh.status /\ Life!Added.host = Life!Fresh.host
  BY <1>1 DEF Life!Added, Life!Rows
<1>4. /\ Life!Fresh.status = "stopped" /\ Life!Fresh.config = "default"
      /\ Life!Fresh.host = "unresolved" /\ Life!Fresh.served = FALSE
  BY DEF Life!Fresh
<1> QED
  BY <1>1, <1>2, <1>3, <1>4

LEMMA ChosenOK ==
    ASSUME Life!LifeAssumption, CallsOK, NEW c \in AdminCalls, NEW e \in Life!Rows,
           calls[c].op = "start", Life!Chosen(c, e)
    PROVE  CallsOK'
<1>1. CASE e.host \in {"unresolved", calls[c].host}
  <2> DEFINE g == [e EXCEPT !.host = calls[c].host]
  <2>1. g \in Life!Rows /\ "save" \in Life!Steps
    BY DEF CallsOK, CallOK, Life!Rows, Life!Steps
  <2>2. Life!Carry(c, g, "save")
    BY <1>1 DEF Life!Chosen
  <2> HIDE DEF g
  <2> QED
    BY <2>1, <2>2, CarryOK
<1>2. CASE e.host \notin {"unresolved", calls[c].host}
  BY <1>2, FinishOK DEF Life!Chosen
<1> QED
  BY <1>1, <1>2

LEMMA ReturnOK ==
    ASSUME Life!LifeAssumption, CallsOK, NEW c \in AdminCalls, NEW e \in Life!Rows,
           calls[c].op \in {"add", "start"}, Life!Return(c, e)
    PROVE  CallsOK'
<1>1. CASE calls[c].op = "add"
  BY <1>1, FinishOK DEF Life!Return
<1>2. CASE calls[c].op = "start" /\ calls[c].back = "start"
  <2>1. Life!Chosen(c, e)
    BY <1>2 DEF Life!Return
  <2> QED
    BY <1>2, <2>1, ChosenOK
<1>3. CASE calls[c].op = "start" /\ calls[c].back = "create"
  <2>1. Life!Carry(c, e, "compose") /\ "compose" \in Life!Steps
    BY <1>3 DEF Life!Return, Life!Steps
  <2> QED
    BY <1>3, <2>1, CarryOK
<1>4. calls[c].back \in {"start", "create"}
  BY DEF CallsOK, Life!Handlers
<1> QED
  BY <1>1, <1>2, <1>3, <1>4

LEMMA StartedIs ==
    ASSUME Life!LifeAssumption, CallsOK, NEW c \in AdminCalls, calls[c].e # Unset,
           calls[c].op = "start"
    PROVE  /\ Life!Started(c) \in Life!Rows /\ Life!Started(c).status = "running"
           /\ Life!Started(c).served = TRUE /\ Life!Started(c).config = calls[c].config
           /\ Life!Started(c).host = calls[c].e.host
<1>1. calls[c].e \in Life!Rows /\ calls[c].config \in Configs
  BY DEF CallsOK, CallOK, Life!Handlers, Life!Entities
<1> QED
  BY <1>1 DEF Life!Started, Life!Rows

\* Every step of a call leaves calls and rows that are right.
LEMMA CallsStep ==
    ASSUME Life!LifeAssumption, LifeInv, NEW c \in AdminCalls, Life!CallStep(c)
    PROVE  CallsOK' /\ RowOK'
<1> DEFINE k == calls[c]
<1>1. /\ CallsOK /\ RowOK /\ CallOK(k) /\ k \in Life!Handlers
      /\ k.e \in Life!Entities /\ (row # Unset => row \in Life!Rows)
  BY DEF LifeInv, CallsOK, RowOK, Life!Handlers, Life!Entities
<1>2. UNCHANGED row => RowOK'
  BY <1>1 DEF RowOK
<1>3. {"load", "add", "insert", "user", "inspect", "ps", "resume", "mark", "last", "create",
       "halt", "rm", "drop", "delete", "describe", "compose"} \subseteq Life!Steps
  BY DEF Life!Steps
<1> HIDE DEF k
<1>4. CASE Life!Begin(c)
  <2>1. UNCHANGED row
    BY <1>4 DEF Life!Begin
  <2>2. ASSUME NEW config \in Configs, NEW host \in Hosts,
               calls' = [calls EXCEPT ![c] = [Life!Idle EXCEPT !.op = "start", !.pc = "load",
                                                               !.config = config, !.host = host]]
        PROVE  CallsOK'
    <3> DEFINE g == [Life!Idle EXCEPT !.op = "start", !.pc = "load", !.config = config,
                                      !.host = host]
    <3>1. g \in Life!Handlers
      BY <1>3, IdleOK DEF Life!Handlers
    <3>2. g.op = "start" /\ g.pc = "load" /\ g.config = config /\ g.host = host
      BY DEF Life!Idle
    <3> HIDE DEF g
    <3>3. CallOK(g)
      BY <3>2 DEF CallOK, StartSteps, Carried
    <3> QED
      BY <1>1, <2>2, <3>1, <3>3, SetCall DEF g
  <2>3. ASSUME NEW op \in {"stop", "remove", "rate", "add"}, NEW pc \in {"load", "add"},
               pc = "add" => op = "add",
               calls' = [calls EXCEPT ![c].op = op, ![c].pc = pc]
        PROVE  CallsOK'
    <3> DEFINE g == [calls[c] EXCEPT !.op = op, !.pc = pc]
    <3>1. g \in Life!Handlers
      BY <1>1, <1>3 DEF Life!Handlers, k
    <3>2. g.op = op /\ g.pc = pc
      BY <1>1 DEF Life!Handlers, k
    <3>3. calls' = [calls EXCEPT ![c] = g]
      BY <2>3
    <3> HIDE DEF g
    <3>4. CallOK(g)
      BY <2>3, <3>2 DEF CallOK, StartSteps, Carried
    <3> QED
      BY <1>1, <3>1, <3>3, <3>4, SetCall
  <2> QED
    BY <1>2, <1>4, <2>1, <2>2, <2>3 DEF Life!Begin
<1>5. CASE Life!Load(c)
  <2>1. UNCHANGED row /\ k.pc = "load"
    BY <1>5 DEF Life!Load, Life!At, k
  <2>2. CASE k.op = "start" /\ row = Unset
    BY <1>1, <1>2, <1>3, <1>5, <2>1, <2>2, GotoOK DEF Life!Load, StartSteps, Carried, k
  <2>3. CASE k.op = "start" /\ row # Unset
    BY <1>1, <1>2, <1>5, <2>1, <2>3, ChosenOK DEF Life!Load, k
  <2>4. CASE k.op # "start" /\ Life!Finish(c)
    BY <1>1, <1>2, <2>1, <2>4, FinishOK
  <2>5. CASE k.op \in {"stop", "remove"} /\ row # Unset
    <3>1. PICK pc \in {"halt", "mark", "delete"} : Life!Goto(c, pc)
      BY <1>5, <2>5 DEF Life!Load, k
    <3> QED
      BY <1>1, <1>2, <1>3, <2>1, <3>1, GotoOK DEF StartSteps, Carried
  <2>6. CASE k.op = "rate" /\ row # Unset /\ Life!Carry(c, row, "last")
    BY <1>1, <1>2, <1>3, <2>1, <2>6, CarryOK DEF StartSteps
  <2> QED
    BY <1>5, <2>2, <2>3, <2>4, <2>5, <2>6 DEF Life!Load, k
<1>6. CASE Life!Add(c)
  <2>1. UNCHANGED row /\ k.pc = "add"
    BY <1>6 DEF Life!Add, Life!At, k
  <2>2. k.op \in {"add", "start"}
    BY <1>1, <2>1 DEF CallOK
  <2>3. CASE row = Unset
    BY <1>1, <1>2, <1>3, <1>6, <2>1, <2>2, <2>3, GotoOK DEF Life!Add, StartSteps, Carried, k
  <2>4. CASE row # Unset
    BY <1>1, <1>2, <1>6, <2>1, <2>2, <2>4, ReturnOK DEF Life!Add, k
  <2> QED
    BY <2>3, <2>4
<1>7. CASE Life!Insert(c)
  <2>1. k.op \in {"add", "start"}
    BY <1>1, <1>7 DEF CallOK, Life!Insert, Life!At, k
  <2>2. CASE Life!Save(Life!Added) /\ Life!Return(c, IF row = Unset THEN Life!Fresh
                                                    ELSE Life!Added)
    BY <1>1, <2>1, <2>2, Added, ReturnOK, SavedRow DEF k
  <2> QED
    BY <1>1, <1>2, <1>7, <2>2, FinishOK DEF Life!Insert
<1>8. CASE Life!StartSave(c)
  <2>1. k.pc = "save" /\ Life!Save(k.e)
    BY <1>8 DEF Life!StartSave, Life!At, k
  <2>2. k.e \in Life!Rows /\ k.op = "start" /\ k.e # Unset
    BY <1>1, <2>1 DEF CallOK, StartSteps, Carried, Life!Entities
  <2>3. PICK pc \in {"user", "inspect"} : Life!Goto(c, pc)
    BY <1>8 DEF Life!StartSave
  <2> QED
    BY <1>1, <1>3, <2>1, <2>2, <2>3, GotoOK, SavedRow DEF k
<1>9. CASE Life!StartUserManaged(c) \/ Life!Describe(c)
  <2>1. UNCHANGED row /\ k.pc \in {"user", "describe"}
    BY <1>9 DEF Life!StartUserManaged, Life!Describe, Life!At, k
  <2>2. Life!Started(c) \in Life!Rows
    BY <1>1, <2>1, StartedIs DEF CallOK, StartSteps, Carried, k
  <2>3. Life!Carry(c, Life!Started(c), "last") \/ Life!Finish(c)
    BY <1>9 DEF Life!StartUserManaged, Life!Describe
  <2>4. "last" \notin StartSteps
    BY DEF StartSteps
  <2> QED
    BY <1>1, <1>2, <1>3, <2>1, <2>2, <2>3, <2>4, CarryOK, FinishOK
<1>10. CASE Life!CheckSchema(c) \/ Life!Decide(c) \/ Life!Resume(c)
  <2>1. UNCHANGED row /\ k.pc \in {"inspect", "ps", "resume"}
    BY <1>10 DEF Life!CheckSchema, Life!Decide, Life!Resume, Life!At, k
  <2>2. PICK pc \in {"ps", "create", "resume", "mark"} :
           Life!Goto(c, pc) /\ (pc = "ps" => k.pc = "inspect")
    BY <1>10 DEF Life!CheckSchema, Life!Decide, Life!Resume, Life!At, k
  <2>3. k.op = "start" /\ (pc = "ps" => k.e # Unset)
    BY <1>1, <2>1, <2>2 DEF CallOK, StartSteps, Carried
  <2> QED
    BY <1>1, <1>2, <1>3, <2>1, <2>2, <2>3, GotoOK DEF Carried, k
<1>11. CASE Life!Mark(c)
  <2>1. UNCHANGED row
    BY <1>11 DEF Life!Mark
  <2>2. CASE row = Unset
    BY <1>1, <1>2, <1>11, <2>1, <2>2, FinishOK DEF Life!Mark
  <2>3. CASE row # Unset
    <3> DEFINE e == [row EXCEPT !.status = IF calls[c].op = "start" THEN "running" ELSE "stopped"]
    <3>1. e \in Life!Rows
      BY <1>1, <2>3 DEF Life!Rows
    <3>2. Life!Carry(c, e, "last") /\ "last" \notin StartSteps
      BY <1>11, <2>3 DEF Life!Mark, StartSteps
    <3> HIDE DEF e
    <3> QED
      BY <1>1, <1>2, <1>3, <2>1, <3>1, <3>2, CarryOK
  <2> QED
    BY <2>2, <2>3
<1>12. CASE Life!SaveLast(c)
  <2>1. k.e \in Life!Rows /\ Life!Save(k.e)
    BY <1>1, <1>12 DEF Life!SaveLast, Life!At, CallOK, Carried, Life!Entities, k
  <2> QED
    BY <1>1, <1>12, <2>1, FinishOK, SavedRow DEF Life!SaveLast
<1>13. CASE Life!CreateLoad(c)
  <2>1. UNCHANGED row /\ k.pc = "create" /\ k.op = "start"
    BY <1>1, <1>13 DEF Life!CreateLoad, Life!At, CallOK, StartSteps, k
  <2>2. CASE row = Unset
    <3> DEFINE g == [calls[c] EXCEPT !.back = "create", !.pc = "add"]
    <3>1. g \in Life!Handlers
      BY <1>1, <1>3 DEF Life!Handlers, k
    <3>2. g.op = k.op /\ g.pc = "add" /\ g.config = k.config /\ g.host = k.host
      BY <1>1 DEF Life!Handlers, k
    <3>3. calls' = [calls EXCEPT ![c] = g]
      BY <1>13, <2>2 DEF Life!CreateLoad
    <3> HIDE DEF g
    <3>4. CallOK(g)
      BY <1>1, <2>1, <3>2 DEF CallOK, StartSteps, Carried
    <3> QED
      BY <1>1, <1>2, <2>1, <3>1, <3>3, <3>4, SetCall
  <2>3. CASE row # Unset
    BY <1>1, <1>2, <1>3, <1>13, <2>1, <2>3, CarryOK DEF Life!CreateLoad, k
  <2> QED
    BY <2>2, <2>3
<1>14. CASE Life!WriteCompose(c)
  <2>1. UNCHANGED row /\ k.pc = "compose" /\ (Life!Goto(c, "describe") \/ Life!Finish(c))
    BY <1>14 DEF Life!WriteCompose, Life!At, k
  <2>2. k.op = "start" /\ k.e # Unset
    BY <1>1, <2>1 DEF CallOK, StartSteps, Carried
  <2> QED
    BY <1>1, <1>2, <1>3, <2>1, <2>2, GotoOK, FinishOK DEF k
<1>15. CASE Life!Halt(c) \/ Life!Remove(c) \/ Life!DropSchema(c)
  <2>1. UNCHANGED row
    BY <1>15 DEF Life!Halt, Life!Remove, Life!DropSchema
  <2>2. PICK pc \in {"mark", "rm", "drop", "delete"} : Life!Goto(c, pc)
    BY <1>15 DEF Life!Halt, Life!Remove, Life!DropSchema
  <2> QED
    BY <1>1, <1>2, <1>3, <2>1, <2>2, GotoOK DEF StartSteps, Carried
<1>16. CASE Life!Delete(c)
  BY <1>1, <1>16, FinishOK DEF Life!Delete, RowOK, Life!Entities
<1> QED
  BY <1>4, <1>5, <1>6, <1>7, <1>8, <1>9, <1>10, <1>11, <1>12, <1>13, <1>14, <1>15, <1>16
     DEF Life!CallStep

\* Containers that are stopped, started or removed keep their configuration.
LEMMA BoxesStep ==
    ASSUME FilesOK, boxes' \in [Life!Services -> Life!Boxes],
           \A s \in Life!Services :
              \/ boxes'[s] = Life!NoBox
              \/ /\ boxes'[s].config = boxes[s].config
                 /\ (boxes'[s].state = "none") <=> (boxes[s].state = "none"),
           schema' \in BOOLEAN, UNCHANGED <<compose, ups, unfinished>>
    PROVE  FilesOK'
<1>1. \A s \in Life!Services :
         /\ (boxes'[s].config = Unset) <=> ~Life!Exists(s)'
         /\ boxes'[s].config \in {Unset, boxes[s].config}
  BY DEF FilesOK, Life!Exists, Life!NoBox
<1>2. UpsOK' /\ Alike'
  BY DEF FilesOK, UpsOK, Alike, Creating
<1>3. MadeOf'
  BY <1>1 DEF FilesOK, MadeOf, Creating
<1>4. Followed'
  BY <1>1 DEF FilesOK, Followed
<1> QED
  BY <1>1, <1>2, <1>3, <1>4 DEF FilesOK

LEMMA PrunedOK ==
    ASSUME FilesOK
    PROVE  /\ Life!Pruned \in [Life!Services -> Life!Boxes]
           /\ \A s \in Life!Services : Life!Pruned[s] \in {Life!NoBox, boxes[s]}
<1>1. Life!NoBox \in Life!Boxes
  BY DEF Life!NoBox, Life!Boxes
<1> QED
  BY <1>1 DEF FilesOK, Life!Pruned

\* A container that is there and gets another state.
LEMMA StateOK ==
    ASSUME FilesOK, NEW s \in Life!Services, Life!Exists(s), NEW state \in {"up", "down", "killed"}
    PROVE  /\ [boxes[s] EXCEPT !.state = state] \in Life!Boxes
           /\ [boxes[s] EXCEPT !.state = state].config = boxes[s].config
           /\ [boxes[s] EXCEPT !.state = state].state # "none"
<1>1. boxes[s] \in Life!Boxes
  BY DEF FilesOK
<1> QED
  BY <1>1 DEF Life!Boxes

LEMMA CallFilesStep ==
    ASSUME Life!LifeAssumption, LifeInv, NEW c \in AdminCalls, Life!CallStep(c)
    PROVE  FilesOK'
<1>0. FilesOK /\ CallsOK
  BY DEF LifeInv
<1>1. CASE UNCHANGED <<compose, schema, ups, unfinished, boxes>>
  BY <1>0, <1>1 DEF FilesOK, Life!Exists, UpsOK, Alike, MadeOf, Followed, Creating
<1>2. CASE Life!Resume(c) \/ Life!Halt(c)
  <2>1. UNCHANGED <<compose, schema, ups, unfinished>>
    BY <1>2 DEF Life!Resume, Life!Halt, Life!files
  <2>2. PICK state \in {"up", "down", "killed"} :
           \/ boxes' = [s \in Life!Services |-> IF Life!Exists(s)
                           THEN [boxes[s] EXCEPT !.state = state] ELSE boxes[s]]
           \/ boxes' = [s \in Life!Services |-> IF Life!IsUp(s)
                           THEN [boxes[s] EXCEPT !.state = state] ELSE boxes[s]]
    BY <1>2 DEF Life!Resume, Life!Halt
  <2>3. \A s \in Life!Services : Life!IsUp(s) => Life!Exists(s)
    BY DEF Life!IsUp, Life!Exists
  <2>4. ASSUME NEW s \in Life!Services
        PROVE  /\ boxes'[s] \in Life!Boxes
               /\ boxes'[s].config = boxes[s].config
               /\ (boxes'[s].state = "none") <=> (boxes[s].state = "none")
    <3>1. CASE boxes'[s] = boxes[s]
      BY <1>0, <3>1 DEF FilesOK
    <3>2. CASE Life!Exists(s) /\ boxes'[s] = [boxes[s] EXCEPT !.state = state]
      BY <1>0, <3>2, StateOK DEF Life!Exists
    <3> QED
      BY <2>2, <2>3, <3>1, <3>2
  <2>5. boxes' \in [Life!Services -> Life!Boxes]
    BY <2>2, <2>4
  <2> QED
    BY <1>0, <2>1, <2>4, <2>5, BoxesStep DEF FilesOK
<1>3. CASE Life!Remove(c)
  BY <1>0, <1>3, PrunedOK, BoxesStep DEF Life!Remove, Life!files, FilesOK
<1>4. CASE Life!DropSchema(c)
  BY <1>0, <1>4, BoxesStep DEF Life!DropSchema, FilesOK
<1>5. CASE Life!WriteCompose(c)
  <2>1. UNCHANGED <<boxes, unfinished>> /\ schema' \in BOOLEAN
    BY <1>0, <1>5 DEF Life!WriteCompose, FilesOK
  <2>2. CASE UNCHANGED <<compose, ups>>
    BY <1>0, <2>1, <2>2, BoxesStep DEF FilesOK
  <2>3. ASSUME NEW u \in Ups, ups[u].at = "free", ups' = [ups EXCEPT ![u].at = "rm"],
               compose' = calls[c].config
        PROVE  FilesOK'
    <3>1. compose' \in Configs /\ compose' # Unset
      BY <1>0, <1>5, <2>3 DEF Life!WriteCompose, Life!At, CallsOK, CallOK, StartSteps,
                              Life!LifeAssumption
    <3>2. UpsOK' /\ ups'[u].at = "rm" /\ \A v \in Ups : v # u => ups'[v] = ups[v]
      BY <1>0, <2>3, <3>1 DEF FilesOK, UpsOK, Life!Processes
    <3>3. Alike' /\ MadeOf' /\ Followed'
      BY <1>0, <2>1, <3>2 DEF FilesOK, Alike, MadeOf, Followed, Creating
    <3> QED
      BY <1>0, <2>1, <3>1, <3>2, <3>3 DEF FilesOK, Life!Exists
  <2> QED
    BY <1>5, <2>2, <2>3 DEF Life!WriteCompose
<1> QED
  BY <1>1, <1>2, <1>3, <1>4, <1>5
     DEF Life!CallStep, Life!Begin, Life!Load, Life!Add, Life!Insert, Life!StartSave,
         Life!StartUserManaged, Life!CheckSchema, Life!Decide, Life!Mark, Life!SaveLast,
         Life!CreateLoad, Life!Describe, Life!Delete, Life!files

LEMMA CallJobsStep ==
    ASSUME Life!LifeAssumption, LifeInv, NEW c \in AdminCalls, Life!CallStep(c)
    PROVE  JobsOK'
<1>1. UNCHANGED <<monitor, misses, refresh, forgotten>>
  BY DEF Life!CallStep, Life!Begin, Life!Load, Life!Add, Life!Insert, Life!StartSave,
         Life!StartUserManaged, Life!CheckSchema, Life!Decide, Life!Resume, Life!Mark,
         Life!SaveLast, Life!CreateLoad, Life!WriteCompose, Life!Describe, Life!Halt,
         Life!Remove, Life!DropSchema, Life!Delete, Life!jobs
<1> QED
  BY <1>1 DEF LifeInv, JobsOK

\* "docker up" and the containers.
LEMMA UpFilesStep ==
    ASSUME Life!LifeAssumption, FilesOK, NEW u \in Ups, Life!UpStep(u)
    PROVE  FilesOK'
<1>1. UNCHANGED <<compose, schema>>
  BY DEF Life!UpStep, Life!UpRemove, Life!ComposeRead, Life!ComposeCreate, Life!ComposeEnds,
         Life!ComposeFails
<1>2. /\ UpsOK /\ Alike /\ MadeOf /\ Followed /\ ups[u] \in Life!Processes
      /\ compose' \in Configs \cup {Unset} /\ schema' \in BOOLEAN
  BY <1>1 DEF FilesOK, UpsOK
<1>3. CASE Life!UpRemove(u)
  <2>1. /\ ups' = [ups EXCEPT ![u].at = "read"] /\ ups[u].at = "rm"
        /\ boxes' = Life!Pruned /\ UNCHANGED unfinished
    BY <1>3 DEF Life!UpRemove
  <2>2. UpsOK' /\ ups'[u].at = "read" /\ \A v \in Ups : v # u => ups'[v] = ups[v]
    BY <1>1, <1>2, <2>1 DEF UpsOK, Life!Processes
  <2>3. /\ boxes' \in [Life!Services -> Life!Boxes]
        /\ \A s \in Life!Services : boxes'[s] \in {Life!NoBox, boxes[s]}
    BY <2>1, PrunedOK
  <2>4. Life!NoBox.config = Unset /\ Life!NoBox.state = "none"
    BY DEF Life!NoBox
  <2>5. Alike' /\ MadeOf' /\ Followed'
    BY <1>2, <2>2, <2>3, <2>4 DEF Alike, MadeOf, Followed, Creating
  <2>6. \A s \in Life!Services : (boxes'[s].config = Unset) <=> ~Life!Exists(s)'
    BY <2>3, <2>4 DEF FilesOK, Life!Exists
  <2> QED
    BY <1>2, <2>1, <2>2, <2>3, <2>5, <2>6 DEF FilesOK
<1>4. ASSUME UNCHANGED boxes, unfinished' \in BOOLEAN, UpsOK', Alike', MadeOf', Followed'
      PROVE  FilesOK'
  BY <1>2, <1>4 DEF FilesOK, Life!Exists
<1>5. CASE Life!ComposeRead(u)
  <2> DEFINE own == [Life!NoUp EXCEPT !.at = "create", !.file = compose,
                                      !.mixed = Life!OfOtherFile # {}]
  <2>1. /\ ups[u].at = "read" /\ UNCHANGED <<boxes, unfinished>>
        /\ ups' = [v \in Ups |-> IF v = u THEN own
                     ELSE IF v \in Life!OfOtherFile THEN [ups[v] EXCEPT !.mixed = TRUE]
                     ELSE ups[v]]
    BY <1>5 DEF Life!ComposeRead
  <2>2. /\ own \in Life!Processes /\ own.at = "create" /\ own.file = compose
        /\ own.made = {} /\ own.mixed = (Life!OfOtherFile # {})
    BY <1>2, <2>1 DEF Life!NoUp, Life!Processes, FilesOK
  <2> HIDE DEF own
  <2>3. ASSUME NEW v \in Ups, v # u
        PROVE  /\ ups'[v] \in Life!Processes
               /\ ups'[v].at = ups[v].at /\ ups'[v].file = ups[v].file
               /\ ups'[v].made = ups[v].made
               /\ ups'[v].mixed = (ups[v].mixed \/ v \in Life!OfOtherFile)
    <3>1. ups[v] \in Life!Processes
      BY <1>2 DEF UpsOK
    <3>2. CASE v \in Life!OfOtherFile
      BY <2>1, <2>3, <3>1, <3>2 DEF Life!Processes
    <3>3. CASE v \notin Life!OfOtherFile
      BY <2>1, <2>3, <3>1, <3>3 DEF Life!Processes
    <3> QED
      BY <3>2, <3>3
  <2>4. ups'[u] = own
    BY <2>1
  <2>5. UpsOK'
    <3>1. ups' \in [Ups -> Life!Processes]
      BY <2>1, <2>2, <2>3, <2>4
    <3>2. compose # Unset
      BY <1>2, <2>1 DEF UpsOK
    <3> QED
      BY <1>1, <1>2, <2>2, <2>3, <2>4, <3>1, <3>2 DEF UpsOK
  <2>6. \A v \in Ups : Creating(v) /\ v \notin Life!OfOtherFile => ups[v].file = compose
    BY DEF Creating, Life!OfOtherFile
  <2>7. Alike'
    <3> SUFFICES ASSUME NEW v \in Ups, NEW w \in Ups, Creating(v)', Creating(w)',
                        ~ups'[v].mixed
                 PROVE  ups'[w].file = ups'[v].file
      BY DEF Alike
    <3>1. CASE v = u
      BY <2>2, <2>3, <2>4, <2>6, <3>1 DEF Creating
    <3>2. CASE v # u /\ w = u
      BY <2>2, <2>3, <2>4, <2>6, <3>2 DEF Creating
    <3>3. CASE v # u /\ w # u
      BY <1>2, <2>3, <3>3 DEF Alike, Creating
    <3> QED
      BY <3>1, <3>2, <3>3
  <2>8. MadeOf'
    BY <1>2, <2>1, <2>2, <2>3, <2>4 DEF MadeOf, Creating
  <2>9. Followed'
    BY <2>2, <2>4 DEF Followed
  <2> QED
    BY <1>4, <2>1, <2>5, <2>7, <2>8, <2>9 DEF FilesOK
<1>6. ASSUME NEW s \in Life!Services, Life!ComposeCreate(u, s)
      PROVE  FilesOK'
  <2> DEFINE box == Life!Box("up", ups[u].file)
  <2>1. /\ ups[u].at = "create" /\ ups' = [ups EXCEPT ![u].made = @ \cup {s}]
        /\ boxes' = [boxes EXCEPT ![s] = box] /\ UNCHANGED unfinished
    BY <1>6 DEF Life!ComposeCreate
  <2>2. /\ box \in Life!Boxes /\ box.config = ups[u].file /\ box.state = "up"
        /\ box.config # Unset
    BY <1>2, <2>1 DEF Life!Box, Life!Boxes, Life!Processes, UpsOK
  <2> HIDE DEF box
  <2>3. /\ ups' \in [Ups -> Life!Processes]
        /\ ups'[u].made = ups[u].made \cup {s}
        /\ \A v \in Ups : /\ ups'[v].at = ups[v].at /\ ups'[v].file = ups[v].file
                          /\ ups'[v].mixed = ups[v].mixed
                          /\ v # u => ups'[v].made = ups[v].made
    BY <1>2, <2>1 DEF UpsOK, Life!Processes
  <2>4. /\ boxes' \in [Life!Services -> Life!Boxes] /\ boxes'[s] = box
        /\ \A t \in Life!Services : t # s => boxes'[t] = boxes[t]
    BY <2>1, <2>2 DEF FilesOK
  <2>5. UpsOK' /\ Alike' /\ Followed'
    BY <1>1, <1>2, <2>1, <2>3 DEF UpsOK, Alike, Followed, Creating
  <2>6. MadeOf'
    <3> SUFFICES ASSUME NEW v \in Ups, NEW t \in Life!Services, Creating(v)',
                        ~ups'[v].mixed, t \in ups'[v].made
                 PROVE  boxes'[t].config \in {Unset, ups'[v].file}
      BY DEF MadeOf
    <3>1. CASE t = s
      BY <1>2, <2>1, <2>2, <2>3, <2>4, <3>1 DEF Alike, Creating
    <3>2. CASE t # s
      BY <1>2, <2>3, <2>4, <3>2 DEF MadeOf, Creating
    <3> QED
      BY <3>1, <3>2
  <2>7. \A t \in Life!Services : (boxes'[t].config = Unset) <=> ~Life!Exists(t)'
    BY <2>2, <2>4 DEF FilesOK, Life!Exists
  <2> QED
    BY <1>2, <2>1, <2>4, <2>5, <2>6, <2>7 DEF FilesOK
\* The slot of a process that is gone is free again.
<1>7. ASSUME ups' = [ups EXCEPT ![u] = Life!NoUp]
      PROVE  UpsOK' /\ Alike' /\ (UNCHANGED boxes => MadeOf')
  <2>1. Life!NoUp \in Life!Processes /\ Life!NoUp.at = "free"
    BY DEF Life!NoUp, Life!Processes
  <2>2. ups'[u] = Life!NoUp /\ \A v \in Ups : v # u => ups'[v] = ups[v]
    BY <1>2, <1>7 DEF UpsOK
  <2>3. ups' \in [Ups -> Life!Processes]
    BY <1>2, <1>7, <2>1 DEF UpsOK
  <2> QED
    BY <1>1, <1>2, <2>1, <2>2, <2>3 DEF UpsOK, Alike, MadeOf, Creating
<1>8. CASE Life!ComposeEnds(u)
  <2>1. /\ ups[u].at = "create" /\ ups[u].made = Life!Services
        /\ ups' = [ups EXCEPT ![u] = Life!NoUp] /\ UNCHANGED boxes
        /\ unfinished' = (ups[u].mixed \/ ups[u].file # compose)
    BY <1>8 DEF Life!ComposeEnds
  <2>2. Followed'
    BY <1>1, <1>2, <2>1 DEF Followed, MadeOf, Creating
  <2>3. unfinished' \in BOOLEAN
    BY <1>2, <2>1 DEF Life!Processes
  <2> QED
    BY <1>4, <1>7, <2>1, <2>2, <2>3
<1>9. CASE Life!ComposeFails(u)
  BY <1>4, <1>7, <1>9 DEF Life!ComposeFails, Followed
<1> QED
  BY <1>3, <1>5, <1>6, <1>8, <1>9 DEF Life!UpStep

LEMMA DockerStep ==
    ASSUME Life!LifeAssumption, LifeInv,
           (\E u \in Ups : Life!UpStep(u)) \/ \E s \in Life!Services : Life!Crash(s)
    PROVE  LifeInv'
<1>0. RowOK /\ CallsOK /\ FilesOK /\ JobsOK
  BY DEF LifeInv
<1>1. UNCHANGED <<row, calls, monitor, misses, refresh, forgotten>>
  BY DEF Life!UpStep, Life!UpRemove, Life!ComposeRead, Life!ComposeCreate, Life!ComposeEnds,
         Life!ComposeFails, Life!Crash, Life!jobs
<1>2. RowOK' /\ CallsOK' /\ JobsOK'
  BY <1>0, <1>1 DEF RowOK, CallsOK, CallOK, JobsOK
<1>3. ASSUME NEW u \in Ups, Life!UpStep(u)
      PROVE  LifeInv'
  BY <1>0, <1>2, <1>3, UpFilesStep DEF LifeInv
<1>5. ASSUME NEW s \in Life!Services, Life!Crash(s)
      PROVE  LifeInv'
  <2>1. PICK exit \in {"down", "killed"} : boxes' = [boxes EXCEPT ![s].state = exit]
    BY <1>5 DEF Life!Crash
  <2>2. Life!Exists(s) /\ UNCHANGED <<compose, schema, ups, unfinished>>
    BY <1>5 DEF Life!Crash, Life!IsUp, Life!Exists, Life!files
  <2>3. boxes' = [boxes EXCEPT ![s] = [boxes[s] EXCEPT !.state = exit]]
    BY <2>1
  <2>4. boxes' \in [Life!Services -> Life!Boxes]
    BY <1>0, <2>2, <2>3, StateOK DEF FilesOK
  <2>5. ASSUME NEW t \in Life!Services
        PROVE  /\ boxes'[t].config = boxes[t].config
               /\ (boxes'[t].state = "none") <=> (boxes[t].state = "none")
    BY <1>0, <2>2, <2>3, StateOK DEF FilesOK, Life!Exists
  <2> QED
    BY <1>0, <1>2, <2>2, <2>4, <2>5, BoxesStep DEF FilesOK, LifeInv
<1> QED
  BY <1>3, <1>5

\* The monitor, which saves the row it listed and starts containers again.
LEMMA MonitorOK ==
    ASSUME Life!LifeAssumption, LifeInv, Life!MonitorStep
    PROVE  LifeInv'
<1>0. /\ RowOK /\ CallsOK /\ FilesOK /\ JobsOK
      /\ \A s \in Life!Services : misses[s] \in 0 .. Life!Threshold
      /\ \A s \in Life!Services : Life!Missed(s) \in 0 .. Life!Threshold
      /\ 0 \in 0 .. Life!Threshold /\ Life!Services = {"node", "query"}
  BY DEF LifeInv, JobsOK, Life!Missed, Life!Threshold, Life!Services
<1>1. UNCHANGED <<calls, compose, schema, ups, unfinished, refresh>>
  BY DEF Life!MonitorStep, Life!MonitorList, Life!MonitorUser, Life!MonitorNode,
         Life!MonitorQuery, Life!MonitorRestart, Life!files
<1>2. CallsOK'
  BY <1>0, <1>1 DEF CallsOK, CallOK
<1>3. UNCHANGED boxes => FilesOK'
  BY <1>0, <1>1 DEF FilesOK, Life!Exists, UpsOK, Alike, MadeOf, Followed, Creating
<1>4. /\ UNCHANGED row => RowOK'
      /\ UNCHANGED forgotten => forgotten' \in BOOLEAN
      /\ \A e : Life!SaveOld(e) => Life!Save(e) /\ forgotten' \in BOOLEAN
  BY <1>0 DEF RowOK, JobsOK, Life!SaveOld
<1>5. CASE Life!MonitorList
  <2>1. misses' \in [Life!Services -> 0 .. Life!Threshold] /\ UNCHANGED <<row, boxes, forgotten>>
    BY <1>0, <1>5 DEF Life!MonitorList, Life!files, JobsOK
  <2>2. PICK pc \in {"restart", "user", "node"} :
           monitor' = [listed |-> row, pc |-> pc] /\ (pc = "user" => row # Unset)
    BY <1>5 DEF Life!MonitorList
  <2>3. JobsOK'
    BY <1>0, <1>1, <1>4, <2>1, <2>2 DEF JobsOK, RowOK
  <2> QED
    BY <1>2, <1>3, <1>4, <2>1, <2>3 DEF LifeInv
<1>6. ASSUME NEW pc \in {"idle", "query", "restart"}, Life!Round(pc)
      PROVE  /\ monitor' \in [pc : {"idle", "user", "node", "query", "restart"},
                             listed : Life!Entities]
             /\ monitor'.pc = pc
  BY <1>0, <1>6 DEF Life!Round, JobsOK
<1>7. CASE Life!MonitorUser
  <2>1. monitor.listed \in Life!Rows
    BY <1>0, <1>7 DEF Life!MonitorUser, JobsOK, Life!Entities
  <2>2. RowOK' /\ UNCHANGED <<boxes, misses>> /\ forgotten' \in BOOLEAN
    BY <1>0, <1>4, <1>7, <2>1, SavedRow DEF Life!MonitorUser, Life!files
  <2>3. JobsOK'
    BY <1>0, <1>1, <1>6, <1>7, <2>2 DEF Life!MonitorUser, JobsOK
  <2> QED
    BY <1>2, <1>3, <2>2, <2>3 DEF LifeInv
<1>8. CASE Life!MonitorNode
  <2>1. misses' \in [Life!Services -> 0 .. Life!Threshold] /\ UNCHANGED <<row, boxes, forgotten>>
    BY <1>0, <1>8 DEF Life!MonitorNode, Life!files, JobsOK
  <2>2. Life!Round("query") \/ Life!Round("restart")
    BY <1>8 DEF Life!MonitorNode
  <2>3. JobsOK'
    BY <1>0, <1>1, <1>4, <1>6, <2>1, <2>2 DEF JobsOK
  <2> QED
    BY <1>2, <1>3, <1>4, <2>1, <2>3 DEF LifeInv
<1>9. CASE Life!MonitorQuery
  <2>1. misses' \in [Life!Services -> 0 .. Life!Threshold] /\ UNCHANGED <<row, boxes, forgotten>>
    BY <1>0, <1>9 DEF Life!MonitorQuery, Life!files, JobsOK
  <2>2. JobsOK'
    BY <1>0, <1>1, <1>4, <1>6, <1>9, <2>1 DEF Life!MonitorQuery, JobsOK
  <2> QED
    BY <1>2, <1>3, <1>4, <2>1, <2>2 DEF LifeInv
<1>10. CASE Life!MonitorRestart
  <2>1. /\ monitor' = [pc |-> "idle", listed |-> Unset] /\ UNCHANGED <<row, misses, forgotten>>
        /\ boxes' = [s \in Life!Services |-> IF misses[s] >= Life!Threshold /\ Life!Exists(s)
                       THEN [boxes[s] EXCEPT !.state = "up"] ELSE boxes[s]]
    BY <1>10 DEF Life!MonitorRestart
  <2>2. ASSUME NEW s \in Life!Services
        PROVE  /\ boxes'[s] \in Life!Boxes /\ boxes'[s].config = boxes[s].config
               /\ (boxes'[s].state = "none") <=> (boxes[s].state = "none")
    <3>1. CASE boxes'[s] = boxes[s]
      BY <1>0, <3>1 DEF FilesOK
    <3>2. CASE Life!Exists(s) /\ boxes'[s] = [boxes[s] EXCEPT !.state = "up"]
      BY <1>0, <3>2, StateOK DEF Life!Exists
    <3> QED
      BY <2>1, <3>1, <3>2
  <2>3. boxes' \in [Life!Services -> Life!Boxes]
    BY <2>1, <2>2
  <2>4. FilesOK'
    BY <1>0, <1>1, <2>2, <2>3, BoxesStep DEF FilesOK
  <2>5. JobsOK'
    BY <1>0, <1>1, <1>4, <2>1 DEF JobsOK, Life!Entities
  <2> QED
    BY <1>2, <1>4, <2>1, <2>4, <2>5 DEF LifeInv
<1> QED
  BY <1>5, <1>7, <1>8, <1>9, <1>10 DEF Life!MonitorStep

LEMMA RefreshOK ==
    ASSUME Life!LifeAssumption, LifeInv, Life!RefreshLoad \/ Life!RefreshSave
    PROVE  LifeInv'
<1>0. RowOK /\ CallsOK /\ FilesOK /\ JobsOK
  BY DEF LifeInv
<1>1. UNCHANGED <<calls, compose, schema, ups, unfinished, boxes, monitor, misses>>
  BY DEF Life!RefreshLoad, Life!RefreshSave, Life!files
<1>2. CallsOK' /\ FilesOK'
  BY <1>0, <1>1 DEF CallsOK, CallOK, FilesOK, Life!Exists, UpsOK, Alike, MadeOf,
                        Followed, Creating
<1>3. refresh' \in Life!Entities
  BY <1>0 DEF Life!RefreshLoad, Life!RefreshSave, RowOK, Life!Entities
<1>4. JobsOK'
  BY <1>0, <1>1, <1>3 DEF JobsOK, Life!RefreshLoad, Life!RefreshSave, Life!SaveOld
<1>5. refresh # Unset => refresh \in Life!Rows
  BY <1>0 DEF JobsOK, Life!Entities
<1>6. UNCHANGED row => RowOK'
  BY <1>0 DEF RowOK
<1>7. RowOK'
  BY <1>0, <1>5, <1>6, SavedRow DEF Life!RefreshLoad, Life!RefreshSave, Life!SaveOld
<1> QED
  BY <1>2, <1>4, <1>7 DEF LifeInv

LEMMA RebootOK ==
    ASSUME Life!LifeAssumption, LifeInv, Life!Reboot
    PROVE  LifeInv'
<1>0. RowOK /\ CallsOK /\ FilesOK /\ JobsOK
  BY DEF LifeInv
<1>1. /\ calls' = [c \in AdminCalls |-> Life!Idle] /\ ups' = [u \in Ups |-> Life!NoUp]
      /\ unfinished' = (unfinished \/ \E u \in Ups : ups[u].at # "free")
      /\ monitor' = [pc |-> "idle", listed |-> Unset]
      /\ misses' = [s \in Life!Services |-> 0] /\ refresh' = Unset
      /\ UNCHANGED <<row, compose, schema, boxes, forgotten>>
  BY DEF Life!Reboot
<1>2. CallsOK'
  BY <1>1, IdleOK DEF CallsOK, CallOK
<1>3. RowOK' /\ JobsOK'
  BY <1>0, <1>1 DEF RowOK, JobsOK, Life!Entities, Life!Threshold
<1>4. unfinished' \in BOOLEAN
  BY <1>0, <1>1 DEF FilesOK
<1>5. Life!NoUp \in Life!Processes /\ Life!NoUp.at = "free"
  BY DEF Life!NoUp, Life!Processes
<1>6. ups' \in [Ups -> Life!Processes] /\ \A u \in Ups : ups'[u].at = "free"
  BY <1>1, <1>5
<1>7. UpsOK' /\ Alike' /\ MadeOf'
  BY <1>6 DEF UpsOK, Alike, MadeOf, Creating
<1>8. Followed'
  BY <1>0, <1>1 DEF FilesOK, Followed
<1>9. FilesOK'
  BY <1>0, <1>1, <1>4, <1>7, <1>8 DEF FilesOK, Life!Exists
<1> QED
  BY <1>2, <1>3, <1>9 DEF LifeInv

LEMMA LifeStep ==
    ASSUME Life!LifeAssumption, LifeInv, [Life!Next]_(Life!vars)
    PROVE  LifeInv'
<1>1. ASSUME NEW c \in AdminCalls, Life!CallStep(c)
      PROVE  LifeInv'
  BY <1>1, CallsStep, CallFilesStep, CallJobsStep DEF LifeInv
<1>2. CASE UNCHANGED Life!vars
  BY <1>2 DEF Life!vars, Life!files, Life!jobs, LifeInv, RowOK, CallsOK, CallOK, FilesOK,
              JobsOK, Life!Exists, UpsOK, Alike, MadeOf, Followed, Creating
<1> QED
  BY <1>1, <1>2, DockerStep, MonitorOK, RefreshOK, RebootOK DEF Life!Next

LEMMA LifeInit ==
    ASSUME Life!LifeAssumption, Life!Init
    PROVE  LifeInv
<1>1. RowOK /\ JobsOK
  <2>1. /\ row = Unset /\ refresh = Unset /\ forgotten = FALSE
        /\ monitor = [pc |-> "idle", listed |-> Unset]
        /\ misses = [s \in Life!Services |-> 0]
    BY DEF Life!Init
  <2>2. forgotten \in BOOLEAN
    BY <2>1
  <2>3. misses \in [Life!Services -> 0 .. Life!Threshold]
    BY <2>1 DEF Life!Threshold
  <2>4. monitor \in [pc : {"idle", "user", "node", "query", "restart"}, listed : Life!Entities]
    BY <2>1 DEF Life!Entities
  <2> QED
    BY <2>1, <2>2, <2>3, <2>4 DEF RowOK, JobsOK, Life!Entities
<1>2. CallsOK
  BY IdleOK DEF Life!Init, CallsOK
<1>3. Life!NoBox \in Life!Boxes /\ Life!NoBox.state = "none" /\ Life!NoBox.config = Unset
  BY DEF Life!NoBox, Life!Boxes
<1>4. \A s \in Life!Services : boxes[s] = Life!NoBox
  BY DEF Life!Init
<1>5. Life!NoUp \in Life!Processes /\ Life!NoUp.at = "free"
  BY DEF Life!NoUp, Life!Processes
<1>6. ups \in [Ups -> Life!Processes] /\ \A u \in Ups : ups[u].at = "free"
  BY <1>5 DEF Life!Init
<1>7. UpsOK /\ Alike /\ MadeOf /\ Followed
  BY <1>3, <1>4, <1>6 DEF UpsOK, Alike, MadeOf, Followed, Creating
<1>8. FilesOK
  BY <1>3, <1>4, <1>7 DEF Life!Init, FilesOK, Life!Exists
<1> QED
  BY <1>1, <1>2, <1>8 DEF LifeInv

\* The row, the files, the containers and the calls keep their types.
THEOREM LifeTypeCorrect ==
    ASSUME Life!LifeAssumption
    PROVE  Life!Spec => []Life!TypeOK
<1>1. Life!Init => LifeInv
  BY LifeInit
<1>2. LifeInv /\ [Life!Next]_(Life!vars) => LifeInv'
  BY LifeStep
<1>3. LifeInv => Life!TypeOK
  BY DEF LifeInv, RowOK, CallsOK, FilesOK, UpsOK, JobsOK, Life!TypeOK
<1> QED
  BY <1>1, <1>2, <1>3, PTL DEF Life!Spec

\* Whatever the administrators, the monitor and the refresh do at the same time,
\* and however many "docker up" processes overlap: once they have ended, the last
\* one having read the file as it is and met no other file, the containers are of it.
THEOREM ContainersSafe ==
    ASSUME Life!LifeAssumption
    PROVE  Life!Spec => []ContainersFollowFile
<1>1. Life!Init => LifeInv
  BY LifeInit
<1>2. LifeInv /\ [Life!Next]_(Life!vars) => LifeInv'
  BY LifeStep
<1>3. LifeInv => Life!ContainersFollowFile
  BY DEF LifeInv, FilesOK, UpsOK, Followed, Life!ContainersFollowFile
<1> QED
  BY <1>1, <1>2, <1>3, PTL DEF Life!Spec, ContainersFollowFile

-----------------------------------------------------------------------------
(* One administrator, beside the jobs that save rows they loaded earlier:  *)
(* what a call holds agrees with the row.                                  *)

OneAdministrator == \A c, d \in AdminCalls : c = d

\* What runs has a host and a configuration, and a configuration comes with
\* endpoints.  An entity without configuration has no endpoints to save either.
Sound(e) ==
    /\ e.status = "running" => e.host \in Hosts /\ e.config \in Configs
    /\ e.config \in Configs => e.served = TRUE
    /\ e.config = Unset => e.served = Unset

\* A start that goes on with the containers there are.
Resuming(k) == k.pc = "resume" \/ (k.pc = "mark" /\ k.op = "start")

\* The row at the steps of a call, as long as no job took from it what the call
\* has read.
InStep(k) ==
    /\ k.back = "start"
    /\ k.pc \in Carried => Sound(k.e)
    /\ k.pc \in {"save", "user", "compose", "describe"} => k.e.host \in Hosts
    /\ k.pc \in {"inspect", "ps", "create"} \/ Resuming(k) => row # Unset /\ row.host \in Hosts
    /\ k.pc \in {"inspect", "ps"} /\ k.e.config \in Configs => row.config \in Configs
    /\ Resuming(k) => row.config \in Configs

ServedOK ==
    /\ row # Unset => Sound(row)
    /\ monitor.listed # Unset => Sound(monitor.listed)
    /\ refresh # Unset => Sound(refresh)
    /\ \A c \in AdminCalls : InStep(calls[c])

ServedInv == LifeInv /\ (~forgotten => ServedOK)

\* An entity that is sound may be saved over a row that is.
LEMMA SaveSound ==
    ASSUME Life!LifeAssumption, RowOK, NEW e \in Life!Rows, Life!Save(e), Sound(e),
           row # Unset => Sound(row)
    PROVE  Sound(row)'
<1>1. /\ row' \in Life!Rows /\ row'.config # Unset
      /\ row'.status = e.status /\ row'.host = e.host
      /\ row'.config = IF e.config # Unset THEN e.config
                       ELSE IF row = Unset THEN "default" ELSE row.config
      /\ row'.served = IF e.served # Unset THEN e.served
                       ELSE IF row = Unset THEN FALSE ELSE row.served
  BY SaveIs
<1>2. Unset \notin Configs /\ "default" \notin Configs /\ Unset \notin BOOLEAN
  BY DEF Life!LifeAssumption
<1>3. CASE e.config = Unset
  BY <1>1, <1>2, <1>3 DEF Sound
<1>4. CASE e.config # Unset
  BY <1>1, <1>2, <1>4 DEF Sound
<1> QED
  BY <1>3, <1>4

\* The only call is the one that makes the step.
LEMMA OnlyCall ==
    ASSUME OneAdministrator, CallsOK, NEW c \in AdminCalls, NEW k, calls' = [calls EXCEPT ![c] = k],
           InStep(k)'
    PROVE  \A d \in AdminCalls : InStep(calls[d])'
<1> SUFFICES ASSUME NEW d \in AdminCalls
             PROVE  InStep(calls[d])'
  OBVIOUS
<1>1. calls'[d] = k
  BY DEF OneAdministrator, CallsOK
<1> QED
  BY <1>1 DEF InStep, Resuming

LEMMA IdleInStep ==
    ASSUME NEW c \in AdminCalls, OneAdministrator, CallsOK, Life!Finish(c)
    PROVE  \A d \in AdminCalls : InStep(calls[d])'
<1>1. Life!Idle.pc = "idle" /\ Life!Idle.back = "start"
  BY DEF Life!Idle
<1>2. InStep(Life!Idle)'
  BY <1>1 DEF InStep, Resuming, Carried
<1>3. calls' = [calls EXCEPT ![c] = Life!Idle]
  BY DEF Life!Finish
<1> HIDE DEF Life!Idle
<1> QED
  BY <1>2, <1>3, OnlyCall

\* startSubqueryProject goes on with the row, or one that agrees with it.
LEMMA ChosenInStep ==
    ASSUME Life!LifeAssumption, OneAdministrator, CallsOK,
           NEW c \in AdminCalls, NEW e \in Life!Rows,
           calls[c].op = "start", calls[c].back = "start", Life!Chosen(c, e), Sound(e)
    PROVE  \A d \in AdminCalls : InStep(calls[d])'
<1>1. CASE e.host \in {"unresolved", calls[c].host}
  <2> DEFINE g == [e EXCEPT !.host = calls[c].host]
  <2>1. calls[c].host \in Hosts
    BY DEF CallsOK, CallOK
  <2>2. g \in Life!Rows /\ "save" \in Life!Steps
    BY <2>1 DEF Life!Rows, Life!Steps
  <2>3. /\ g.host = calls[c].host /\ g.config = e.config /\ g.status = e.status
        /\ g.served = e.served
    BY DEF Life!Rows
  <2>4. Life!Carry(c, g, "save")
    BY <1>1 DEF Life!Chosen
  <2> HIDE DEF g
  <2>5. PICK k \in Life!Handlers :
           /\ calls' = [calls EXCEPT ![c] = k] /\ k.pc = "save"
           /\ k.op = calls[c].op /\ k.e = g /\ k.back = calls[c].back
    BY <2>2, <2>4, CarryIs
  <2>6. Sound(g)
    BY <2>1, <2>3 DEF Sound
  <2>7. InStep(k)'
    BY <2>1, <2>3, <2>5, <2>6 DEF InStep, Resuming, Sound
  <2> QED
    BY <2>5, <2>7, OnlyCall
<1>2. CASE e.host \notin {"unresolved", calls[c].host}
  BY <1>2, IdleInStep DEF Life!Chosen
<1> QED
  BY <1>1, <1>2

\* Every step of the administrator's call.
LEMMA ServedStep ==
    ASSUME Life!LifeAssumption, OneAdministrator, LifeInv, ServedOK, NEW c \in AdminCalls,
           Life!CallStep(c)
    PROVE  /\ row' # Unset => Sound(row)'
           /\ \A d \in AdminCalls : InStep(calls[d])'
<1> DEFINE k == calls[c]
<1>1. /\ CallsOK /\ RowOK /\ CallOK(k) /\ InStep(k) /\ k \in Life!Handlers
      /\ k.e \in Life!Entities /\ (row # Unset => row \in Life!Rows /\ Sound(row))
      /\ k.back = "start"
  BY DEF ServedOK, LifeInv, CallsOK, RowOK, Life!Handlers, Life!Entities, InStep
<1>2. UNCHANGED row => (row' # Unset => Sound(row)')
  BY <1>1 DEF Sound
<1>3. {"load", "add", "insert", "user", "inspect", "ps", "resume", "mark", "last", "create",
       "halt", "rm", "drop", "delete", "describe", "compose"} \subseteq Life!Steps
  BY DEF Life!Steps
<1>4. ASSUME NEW pc \in Life!Steps, Life!Goto(c, pc)
      PROVE  \E g \in Life!Handlers :
                /\ calls' = [calls EXCEPT ![c] = g] /\ g.pc = pc /\ g.op = k.op /\ g.e = k.e
                /\ g.back = "start" /\ g.config = k.config
  BY <1>1, <1>4, GotoIs
<1>5. ASSUME NEW pc \in Life!Steps, NEW e \in Life!Rows, Life!Carry(c, e, pc)
      PROVE  \E g \in Life!Handlers :
                /\ calls' = [calls EXCEPT ![c] = g] /\ g.pc = pc /\ g.op = k.op /\ g.e = e
                /\ g.back = "start" /\ g.config = k.config
  BY <1>1, <1>5, CarryIs
\* Steps at which nothing is asked of the row.
<1>6. ASSUME NEW pc \in {"add", "insert", "load", "halt", "rm", "drop", "delete", "mark"},
             pc = "mark" => k.op # "start", Life!Goto(c, pc)
      PROVE  \A d \in AdminCalls : InStep(calls[d])'
  <2>1. PICK g \in Life!Handlers :
           /\ calls' = [calls EXCEPT ![c] = g] /\ g.pc = pc /\ g.op = k.op /\ g.back = "start"
    BY <1>3, <1>4, <1>6
  <2>2. InStep(g)'
    BY <1>6, <2>1 DEF InStep, Resuming, Carried
  <2> QED
    BY <1>1, <2>1, <2>2, OnlyCall
<1> HIDE DEF k
<1>7. CASE Life!Begin(c)
  <2>1. UNCHANGED row
    BY <1>7 DEF Life!Begin
  <2>2. PICK g : /\ calls' = [calls EXCEPT ![c] = g]
                 /\ g.back = "start" /\ g.pc \in {"load", "add"}
    <3>1. ASSUME NEW config, NEW host,
                 calls' = [calls EXCEPT ![c] = [Life!Idle EXCEPT !.op = "start", !.pc = "load",
                                                                 !.config = config, !.host = host]]
          PROVE  \E g : /\ calls' = [calls EXCEPT ![c] = g]
                        /\ g.back = "start" /\ g.pc \in {"load", "add"}
      <4> DEFINE g == [Life!Idle EXCEPT !.op = "start", !.pc = "load", !.config = config,
                                        !.host = host]
      <4>1. g.back = "start" /\ g.pc = "load"
        BY DEF Life!Idle
      <4>2. calls' = [calls EXCEPT ![c] = g]
        BY <3>1
      <4> HIDE DEF g
      <4> QED
        BY <4>1, <4>2
    <3>2. ASSUME NEW op, NEW pc \in {"load", "add"},
                 calls' = [calls EXCEPT ![c].op = op, ![c].pc = pc]
          PROVE  \E g : /\ calls' = [calls EXCEPT ![c] = g]
                        /\ g.back = "start" /\ g.pc \in {"load", "add"}
      <4> DEFINE g == [calls[c] EXCEPT !.op = op, !.pc = pc]
      <4>1. g.back = "start" /\ g.pc = pc
        BY <1>1 DEF Life!Handlers, k
      <4>2. calls' = [calls EXCEPT ![c] = g]
        BY <3>2
      <4> HIDE DEF g
      <4> QED
        BY <4>1, <4>2
    <3> QED
      BY <1>7, <3>1, <3>2 DEF Life!Begin
  <2>3. InStep(g)'
    BY <2>2 DEF InStep, Resuming, Carried
  <2> QED
    BY <1>1, <1>2, <2>1, <2>2, <2>3, OnlyCall
<1>8. CASE Life!Load(c)
  <2>1. UNCHANGED row
    BY <1>8 DEF Life!Load
  <2>2. CASE k.op = "start" /\ row = Unset
    BY <1>2, <1>6, <1>8, <2>1, <2>2 DEF Life!Load, k
  <2>3. CASE k.op = "start" /\ row # Unset
    BY <1>1, <1>2, <1>8, <2>1, <2>3, ChosenInStep DEF Life!Load, k
  <2>4. CASE Life!Finish(c)
    BY <1>1, <1>2, <2>1, <2>4, IdleInStep
  <2>5. CASE k.op \in {"stop", "remove"} /\ row # Unset
    <3>1. PICK pc \in {"halt", "mark", "delete"} : Life!Goto(c, pc)
      BY <1>8, <2>5 DEF Life!Load, k
    <3> QED
      BY <1>2, <1>6, <2>1, <2>5, <3>1
  <2>6. CASE row # Unset /\ Life!Carry(c, row, "last")
    <3>1. PICK g \in Life!Handlers :
             calls' = [calls EXCEPT ![c] = g] /\ g.pc = "last" /\ g.e = row /\ g.back = "start"
      BY <1>1, <1>3, <1>5, <2>6
    <3>2. InStep(g)'
      BY <1>1, <2>1, <2>6, <3>1 DEF InStep, Resuming, Carried, Sound
    <3> QED
      BY <1>1, <1>2, <2>1, <3>1, <3>2, OnlyCall
  <2> QED
    BY <1>8, <2>2, <2>3, <2>4, <2>5, <2>6 DEF Life!Load, k
<1>9. CASE Life!Add(c)
  <2>1. UNCHANGED row /\ k.op \in {"add", "start"}
    BY <1>1, <1>9 DEF Life!Add, Life!At, CallOK, k
  <2>2. CASE row = Unset
    <3>1. Life!Goto(c, "insert")
      BY <1>9, <2>2 DEF Life!Add
    <3> QED
      BY <1>2, <1>6, <2>1, <3>1
  <2>3. CASE row # Unset
    <3>1. Life!Finish(c) \/ (k.op = "start" /\ Life!Chosen(c, row))
      BY <1>1, <1>9, <2>3 DEF Life!Add, Life!Return, k
    <3> QED
      BY <1>1, <1>2, <2>1, <2>3, <3>1, IdleInStep, ChosenInStep DEF k
  <2> QED
    BY <2>2, <2>3
<1>10. CASE Life!Insert(c)
  <2>1. k.op \in {"add", "start"}
    BY <1>1, <1>10 DEF Life!Insert, Life!At, CallOK, k
  <2>2. CASE Life!Finish(c) /\ UNCHANGED row
    BY <1>1, <1>2, <2>2, IdleInStep
  <2>3. ASSUME NEW e \in {Life!Fresh, Life!Added}, Life!Save(Life!Added), Life!Return(c, e)
        PROVE  /\ row' # Unset => Sound(row)'
               /\ \A d \in AdminCalls : InStep(calls[d])'
    <3>1. /\ Life!Fresh \in Life!Rows /\ Life!Added \in Life!Rows
          /\ Sound(Life!Fresh) /\ Sound(Life!Added)
      BY Added DEF Sound, Life!LifeAssumption
    <3>2. Sound(row)'
      BY <1>1, <2>3, <3>1, SaveSound
    <3>3. Life!Finish(c) \/ (k.op = "start" /\ Life!Chosen(c, e))
      BY <1>1, <2>3 DEF Life!Return, k
    <3> QED
      BY <1>1, <2>3, <3>1, <3>2, <3>3, IdleInStep, ChosenInStep DEF k
  <2> QED
    BY <1>10, <2>2, <2>3 DEF Life!Insert
<1>11. CASE Life!StartSave(c)
  <2>1. k.pc = "save" /\ Life!Save(k.e)
    BY <1>11 DEF Life!StartSave, Life!At, k
  <2>2. k.e \in Life!Rows /\ k.op = "start" /\ Sound(k.e) /\ k.e.host \in Hosts
    BY <1>1, <2>1 DEF CallOK, InStep, StartSteps, Carried, Life!Entities
  <2>3. /\ row' # Unset /\ row'.host = k.e.host
        /\ (k.e.config \in Configs => row'.config = k.e.config)
    BY <1>1, <2>1, <2>2, SaveIs, SavedRow DEF Life!LifeAssumption
  <2>4. Sound(row)'
    BY <1>1, <2>1, <2>2, SaveSound
  <2>5. PICK pc \in {"user", "inspect"} : Life!Goto(c, pc)
    BY <1>11 DEF Life!StartSave
  <2>6. PICK g \in Life!Handlers :
           /\ calls' = [calls EXCEPT ![c] = g] /\ g.pc = pc /\ g.op = k.op /\ g.e = k.e
           /\ g.back = "start"
    BY <1>3, <1>4, <2>5
  <2>7. InStep(g)'
    BY <2>2, <2>3, <2>6 DEF InStep, Resuming, Sound
  <2> QED
    BY <1>1, <2>4, <2>6, <2>7, OnlyCall
<1>12. CASE Life!StartUserManaged(c) \/ Life!Describe(c)
  <2>1. UNCHANGED row /\ k.pc \in {"user", "describe"}
    BY <1>12 DEF Life!StartUserManaged, Life!Describe, Life!At, k
  <2>2. k.e # Unset /\ k.op = "start" /\ k.e.host \in Hosts /\ k.config \in Configs
        /\ k.config # Unset
    BY <1>1, <2>1 DEF CallOK, InStep, StartSteps, Carried, Life!LifeAssumption
  <2>3. /\ Life!Started(c) \in Life!Rows /\ Life!Started(c).config = k.config
        /\ Life!Started(c).served = TRUE /\ Life!Started(c).host = k.e.host
    BY <1>1, <2>2, StartedIs DEF k
  <2>4. CASE Life!Finish(c)
    BY <1>1, <1>2, <2>1, <2>4, IdleInStep
  <2>5. CASE Life!Carry(c, Life!Started(c), "last")
    <3>1. PICK g \in Life!Handlers :
             /\ calls' = [calls EXCEPT ![c] = g] /\ g.pc = "last" /\ g.e = Life!Started(c)
             /\ g.back = "start"
      BY <1>3, <1>5, <2>3, <2>5
    <3>2. InStep(g)'
      BY <2>2, <2>3, <3>1 DEF InStep, Resuming, Sound
    <3> QED
      BY <1>1, <1>2, <2>1, <3>1, <3>2, OnlyCall
  <2> QED
    BY <1>12, <2>4, <2>5 DEF Life!StartUserManaged, Life!Describe
<1>13. CASE Life!CheckSchema(c) \/ Life!Decide(c) \/ Life!Resume(c)
  <2>1. UNCHANGED row /\ k.pc \in {"inspect", "ps", "resume"}
    BY <1>13 DEF Life!CheckSchema, Life!Decide, Life!Resume, Life!At, k
  <2>2. PICK pc \in {"ps", "create", "resume", "mark"} :
           /\ Life!Goto(c, pc)
           /\ pc = "ps" => k.pc = "inspect"
           /\ pc = "resume" => k.pc = "ps" /\ k.e.config = k.config /\ k.op = "start"
           /\ pc = "mark" => k.pc = "resume"
    BY <1>1, <1>13 DEF Life!CheckSchema, Life!Decide, Life!Resume, Life!ConfigChanged, Life!At,
                       CallOK, StartSteps, k
  <2>3. PICK g \in Life!Handlers :
           /\ calls' = [calls EXCEPT ![c] = g] /\ g.pc = pc /\ g.e = k.e
           /\ g.back = "start" /\ g.config = k.config
    BY <1>3, <1>4, <2>2
  <2>4. row # Unset /\ row.host \in Hosts
    BY <1>1, <2>1 DEF InStep, Resuming
  <2>5. /\ k.pc \in {"inspect", "ps"} => Sound(k.e)
        /\ (k.pc \in {"inspect", "ps"} /\ k.e.config \in Configs => row.config \in Configs)
        /\ (pc = "mark" => row.config \in Configs)
        /\ (pc = "resume" => k.config \in Configs)
    BY <1>1, <2>1, <2>2 DEF InStep, Resuming, Carried, CallOK
  <2>6. InStep(g)'
    BY <2>1, <2>2, <2>3, <2>4, <2>5 DEF InStep, Resuming, Carried, Sound
  <2> QED
    BY <1>1, <1>2, <2>1, <2>3, <2>6, OnlyCall
<1>14. CASE Life!Mark(c)
  <2>1. UNCHANGED row /\ k.pc = "mark"
    BY <1>14 DEF Life!Mark, Life!At, k
  <2>2. CASE row = Unset
    BY <1>1, <1>2, <1>14, <2>1, <2>2, IdleInStep DEF Life!Mark
  <2>3. CASE row # Unset
    <3> DEFINE e == [row EXCEPT !.status = IF calls[c].op = "start" THEN "running" ELSE "stopped"]
    <3>1. e \in Life!Rows
      BY <1>1, <2>3 DEF Life!Rows
    <3>2. /\ e.config = row.config /\ e.host = row.host /\ e.served = row.served
          /\ e.status = IF k.op = "start" THEN "running" ELSE "stopped"
      BY <1>1, <2>3 DEF Life!Rows, k
    <3>3. Life!Carry(c, e, "last")
      BY <1>14, <2>3 DEF Life!Mark
    <3> HIDE DEF e
    <3>4. k.op = "start" => row.host \in Hosts /\ row.config \in Configs
      BY <1>1, <2>1 DEF InStep, Resuming
    <3>5. Sound(e)
      BY <1>1, <2>3, <3>2, <3>4 DEF Sound
    <3>6. PICK g \in Life!Handlers :
             calls' = [calls EXCEPT ![c] = g] /\ g.pc = "last" /\ g.e = e /\ g.back = "start"
      BY <1>3, <1>5, <3>1, <3>3
    <3>7. InStep(g)'
      BY <2>1, <3>2, <3>5, <3>6 DEF InStep, Resuming, Sound
    <3> QED
      BY <1>1, <1>2, <2>1, <3>6, <3>7, OnlyCall
  <2> QED
    BY <2>2, <2>3
<1>15. CASE Life!SaveLast(c)
  <2>1. k.pc = "last" /\ k.e \in Life!Rows /\ Life!Save(k.e) /\ Sound(k.e)
    BY <1>1, <1>15 DEF Life!SaveLast, Life!At, CallOK, InStep, Carried, Life!Entities, k
  <2>2. Sound(row)'
    BY <1>1, <2>1, SaveSound
  <2> QED
    BY <1>1, <1>15, <2>2, IdleInStep DEF Life!SaveLast
<1>16. CASE Life!CreateLoad(c)
  <2>1. UNCHANGED row /\ row # Unset /\ row.host \in Hosts
    BY <1>1, <1>16 DEF Life!CreateLoad, Life!At, InStep, k
  <2>2. Life!Carry(c, row, "compose")
    BY <1>16, <2>1 DEF Life!CreateLoad
  <2>3. PICK g \in Life!Handlers :
           calls' = [calls EXCEPT ![c] = g] /\ g.pc = "compose" /\ g.e = row /\ g.back = "start"
    BY <1>1, <1>3, <1>5, <2>1, <2>2
  <2>4. InStep(g)'
    BY <1>1, <2>1, <2>3 DEF InStep, Resuming, Sound
  <2> QED
    BY <1>1, <1>2, <2>1, <2>3, <2>4, OnlyCall
<1>17. CASE Life!WriteCompose(c)
  <2>1. UNCHANGED row /\ k.pc = "compose" /\ (Life!Goto(c, "describe") \/ Life!Finish(c))
    BY <1>17 DEF Life!WriteCompose, Life!At, k
  <2>2. CASE Life!Finish(c)
    BY <1>1, <1>2, <2>1, <2>2, IdleInStep
  <2>3. CASE Life!Goto(c, "describe")
    <3>1. PICK g \in Life!Handlers :
             calls' = [calls EXCEPT ![c] = g] /\ g.pc = "describe" /\ g.e = k.e /\ g.back = "start"
      BY <1>3, <1>4, <2>3
    <3>2. InStep(g)'
      BY <1>1, <2>1, <3>1 DEF InStep, Resuming, Carried, Sound
    <3> QED
      BY <1>1, <1>2, <2>1, <3>1, <3>2, OnlyCall
  <2> QED
    BY <2>1, <2>2, <2>3
<1>18. CASE Life!Halt(c) \/ Life!Remove(c) \/ Life!DropSchema(c)
  <2>1. UNCHANGED row
    BY <1>18 DEF Life!Halt, Life!Remove, Life!DropSchema
  <2>2. PICK pc \in {"mark", "rm", "drop", "delete"} :
           Life!Goto(c, pc) /\ (pc = "mark" => k.op = "stop")
    BY <1>18 DEF Life!Halt, Life!Remove, Life!DropSchema, k
  <2> QED
    BY <1>2, <1>6, <2>1, <2>2
<1>19. CASE Life!Delete(c)
  BY <1>1, <1>19, IdleInStep DEF Life!Delete
<1> QED
  BY <1>7, <1>8, <1>9, <1>10, <1>11, <1>12, <1>13, <1>14, <1>15, <1>16, <1>17, <1>18, <1>19
     DEF Life!CallStep

\* A job saves an entity it loaded earlier.
LEMMA SaveOldStep ==
    ASSUME Life!LifeAssumption, LifeInv, ServedOK, NEW e \in Life!Rows, Sound(e),
           Life!SaveOld(e), UNCHANGED calls, ~forgotten'
    PROVE  /\ row' # Unset => Sound(row)'
           /\ \A c \in AdminCalls : InStep(calls[c])'
<1>1. RowOK /\ Life!Save(e) /\ Sound(row)'
  BY SaveSound DEF LifeInv, ServedOK, Life!SaveOld
<1>2. ASSUME NEW c \in AdminCalls
      PROVE  InStep(calls[c])'
  <2>1. InStep(calls[c])
    BY DEF ServedOK
  <2>2. CASE calls[c].pc \in {"inspect", "ps", "create"} \/ Resuming(calls[c])
    <3>1. row # Unset /\ row.host \in Hosts /\ row \in Life!Rows
      BY <1>1, <2>1, <2>2 DEF InStep, RowOK, Life!Entities
    <3>2. row' # Unset /\ row' \in Life!Rows /\ row'.config # Unset
      BY <1>1, SavedRow, SaveIs
    <3>3. calls[c].pc # "idle"
      BY <2>2 DEF Resuming
    <3>4. /\ Life!Fresh.host = "unresolved" /\ Life!Fresh.config = "default"
          /\ "unresolved" \notin Hosts /\ "default" \notin Configs
      BY Added DEF Life!LifeAssumption
    <3>5. /\ row.host # Life!Fresh.host => row'.host # Life!Fresh.host
          /\ row.config # Life!Fresh.config => row'.config # Life!Fresh.config
      BY <3>1, <3>3 DEF Life!SaveOld
    <3>6. row'.host \in Hosts /\ (row.config \in Configs => row'.config \in Configs)
      BY <3>1, <3>2, <3>4, <3>5 DEF Life!Rows
    <3> QED
      BY <2>1, <3>2, <3>6 DEF InStep, Resuming, Sound
  <2>3. CASE ~(calls[c].pc \in {"inspect", "ps", "create"} \/ Resuming(calls[c]))
    BY <2>1, <2>3 DEF InStep, Resuming, Sound
  <2> QED
    BY <2>2, <2>3
<1> QED
  BY <1>1, <1>2

LEMMA ServedInvStep ==
    ASSUME Life!LifeAssumption, OneAdministrator, ServedInv, [Life!Next]_(Life!vars)
    PROVE  ServedInv'
<1>1. LifeInv'
  BY LifeStep DEF ServedInv
<1>2. forgotten => forgotten'
  BY DEF Life!Next, Life!CallStep, Life!Begin, Life!Load, Life!Add, Life!Insert,
         Life!StartSave, Life!StartUserManaged, Life!CheckSchema, Life!Decide, Life!Resume,
         Life!Mark, Life!SaveLast, Life!CreateLoad, Life!WriteCompose, Life!Describe,
         Life!Halt, Life!Remove, Life!DropSchema, Life!Delete, Life!UpStep, Life!UpRemove,
         Life!ComposeRead, Life!ComposeCreate, Life!ComposeEnds, Life!ComposeFails,
         Life!Crash, Life!MonitorStep, Life!MonitorList, Life!MonitorUser, Life!MonitorNode,
         Life!MonitorQuery, Life!MonitorRestart, Life!RefreshLoad, Life!RefreshSave,
         Life!SaveOld, Life!Reboot, Life!vars, Life!jobs
<1> SUFFICES ASSUME ~forgotten'
             PROVE  ServedOK'
  BY <1>1 DEF ServedInv
<1>3. LifeInv /\ ServedOK /\ RowOK /\ JobsOK
  BY <1>2 DEF ServedInv, LifeInv
<1>4. ASSUME NEW c \in AdminCalls, Life!CallStep(c)
      PROVE  ServedOK'
  <2>1. UNCHANGED Life!jobs
    BY <1>4 DEF Life!CallStep, Life!Begin, Life!Load, Life!Add, Life!Insert, Life!StartSave,
                Life!StartUserManaged, Life!CheckSchema, Life!Decide, Life!Resume, Life!Mark,
                Life!SaveLast, Life!CreateLoad, Life!WriteCompose, Life!Describe, Life!Halt,
                Life!Remove, Life!DropSchema, Life!Delete
  <2>2. /\ row' # Unset => Sound(row)'
        /\ \A d \in AdminCalls : InStep(calls[d])'
    BY <1>3, <1>4, ServedStep
  <2> QED
    BY <1>3, <2>1, <2>2 DEF ServedOK, Life!jobs, Sound
<1>5. CASE UNCHANGED <<row, calls, monitor, refresh>>
  BY <1>3, <1>5 DEF ServedOK, Sound, InStep, Resuming
\* Containers change without the row.
<1>6. CASE (\E u \in Ups : Life!UpStep(u)) \/ (\E s \in Life!Services : Life!Crash(s))
  BY <1>5, <1>6 DEF Life!UpStep, Life!UpRemove, Life!ComposeRead, Life!ComposeCreate,
                    Life!ComposeEnds, Life!ComposeFails, Life!Crash, Life!jobs
\* The monitor and the refresh load sound entities, and save them.
<1>7. ASSUME UNCHANGED <<row, calls>>,
             monitor'.listed \in {row, monitor.listed, Unset}, refresh' \in {row, refresh, Unset}
      PROVE  ServedOK'
  BY <1>3, <1>7 DEF ServedOK, Sound, InStep, Resuming
<1>8. ASSUME NEW pc, Life!Round(pc)
      PROVE  monitor'.listed = monitor.listed
  BY <1>3, <1>8 DEF Life!Round, JobsOK
<1>9. CASE Life!MonitorUser
  <2>1. CASE UNCHANGED row
    BY <1>7, <1>8, <1>9, <2>1 DEF Life!MonitorUser
  <2>2. CASE Life!SaveOld(monitor.listed)
    <3>1. monitor.listed \in Life!Rows /\ Sound(monitor.listed)
      BY <1>3, <1>9 DEF Life!MonitorUser, JobsOK, Life!Entities, ServedOK
    <3>2. UNCHANGED <<calls, refresh>> /\ monitor'.listed = monitor.listed
      BY <1>8, <1>9 DEF Life!MonitorUser
    <3>3. /\ row' # Unset => Sound(row)'
          /\ \A c \in AdminCalls : InStep(calls[c])'
      BY <1>3, <2>2, <3>1, <3>2, SaveOldStep
    <3> QED
      BY <1>3, <3>2, <3>3 DEF ServedOK, Sound
  <2> QED
    BY <1>9, <2>1, <2>2 DEF Life!MonitorUser
<1>10. CASE Life!MonitorList \/ Life!MonitorNode \/ Life!MonitorQuery \/ Life!MonitorRestart
  <2>1. UNCHANGED <<row, calls, refresh>>
    BY <1>10 DEF Life!MonitorList, Life!MonitorNode, Life!MonitorQuery, Life!MonitorRestart
  <2>2. monitor'.listed \in {row, monitor.listed, Unset}
    BY <1>8, <1>10 DEF Life!MonitorList, Life!MonitorNode, Life!MonitorQuery,
                       Life!MonitorRestart
  <2> QED
    BY <1>7, <2>1, <2>2
<1>11. CASE Life!RefreshLoad
  BY <1>7, <1>11 DEF Life!RefreshLoad
<1>12. CASE Life!RefreshSave
  <2>1. UNCHANGED <<calls, monitor>> /\ refresh' = Unset
    BY <1>12 DEF Life!RefreshSave
  <2>2. CASE UNCHANGED row
    BY <1>7, <2>1, <2>2
  <2>3. CASE Life!SaveOld(refresh)
    <3>1. refresh \in Life!Rows /\ Sound(refresh)
      BY <1>3, <1>12 DEF Life!RefreshSave, JobsOK, Life!Entities, ServedOK
    <3>2. /\ row' # Unset => Sound(row)'
          /\ \A c \in AdminCalls : InStep(calls[c])'
      BY <1>3, <2>1, <2>3, <3>1, SaveOldStep
    <3> QED
      BY <1>3, <2>1, <3>2 DEF ServedOK, Sound
  <2> QED
    BY <1>12, <2>2, <2>3 DEF Life!RefreshSave
<1>13. CASE Life!Reboot
  <2>1. /\ UNCHANGED row /\ monitor'.listed = Unset /\ refresh' = Unset
        /\ \A c \in AdminCalls : calls'[c] = Life!Idle
    BY <1>13 DEF Life!Reboot
  <2>2. Life!Idle.pc = "idle" /\ Life!Idle.back = "start"
    BY DEF Life!Idle
  <2>3. \A c \in AdminCalls : InStep(calls[c])'
    BY <2>1, <2>2 DEF InStep, Resuming, Carried
  <2> QED
    BY <1>3, <2>1, <2>3 DEF ServedOK, Sound
<1>14. CASE UNCHANGED Life!vars
  BY <1>5, <1>14 DEF Life!vars, Life!jobs
<1> QED
  BY <1>4, <1>6, <1>9, <1>10, <1>11, <1>12, <1>13, <1>14 DEF Life!Next, Life!MonitorStep

LEMMA ServedInit ==
    ASSUME Life!LifeAssumption, Life!Init
    PROVE  ServedInv
<1>1. /\ row = Unset /\ monitor.listed = Unset /\ refresh = Unset
      /\ \A c \in AdminCalls : calls[c] = Life!Idle
  BY DEF Life!Init
<1>2. Life!Idle.pc = "idle" /\ Life!Idle.back = "start"
  BY DEF Life!Idle
<1>3. \A c \in AdminCalls : InStep(calls[c])
  BY <1>1, <1>2 DEF InStep, Resuming, Carried
<1> QED
  BY <1>1, <1>3, LifeInit DEF ServedInv, ServedOK

\* With one administrator a project that is marked as running has endpoints, a
\* configuration and a host, through failing calls, dying containers and reboots,
\* and whatever the monitor and the refresh save of what they loaded earlier, unless
\* they took from the row what a call in progress had read.
THEOREM ServedSafe ==
    ASSUME Life!LifeAssumption, OneAdministrator
    PROVE  Life!Spec => []Life!RunningIsServed /\ []RunningIsServed
<1>1. Life!Init => ServedInv
  BY ServedInit
<1>2. ServedInv /\ [Life!Next]_(Life!vars) => ServedInv'
  BY ServedInvStep
<1>3. ServedInv => Life!RunningIsServed
  BY DEF ServedInv, ServedOK, Sound, Life!RunningIsServed
<1> QED
  BY <1>1, <1>2, <1>3, PTL DEF Life!Spec, RunningIsServed

-----------------------------------------------------------------------------
(* EndpointProject.  What the validations keep of a list, and the level    *)
(* they end with, are folds along the list.                                *)

Levels == {"none", "warn", "error"}

LEMMA AsSequence ==
    ASSUME NEW S, NEW n \in Nat, NEW f \in [1 .. n -> S]
    PROVE  f \in Seq(S) /\ Len(f) = n
  OBVIOUS

LEMMA WorstIs ==
    ASSUME NEW levels \in Seq(Levels)
    PROVE  /\ Endpoint!Worst(levels)[0] = "none"
           /\ \A i \in 1 .. Len(levels) : Endpoint!Worst(levels)[i] =
                 Endpoint!Worse(Endpoint!Worst(levels)[i - 1], levels[i])
<1> DEFINE n == Len(levels)
           w == Endpoint!Worst(levels)
           step == [x \in (1 .. n) \X Levels |-> Endpoint!Worse(x[2], levels[x[1]])]
<1>1. n \in Nat
  OBVIOUS
<1>2. step \in [(1 .. n) \X Levels -> Levels]
  <2>1. ASSUME NEW i \in 1 .. n, NEW a \in Levels
        PROVE  Endpoint!Worse(a, levels[i]) \in Levels
    BY DEF Endpoint!Worse
  <2> QED
    BY <2>1
<1>3. \A i \in 1 .. n, a \in Levels : step[<<i, a>>] = Endpoint!Worse(a, levels[i])
  OBVIOUS
<1>4. "none" \in Levels
  BY DEF Levels
<1> HIDE DEF n, step, Levels
<1>5. PICK f \in [0 .. n -> Levels] : IsFold(f, n, "none", step)
  BY <1>1, <1>2, <1>4, FoldExists
<1>6. f = [i \in 0 .. n |-> IF i = 0 THEN "none" ELSE Endpoint!Worse(f[i - 1], levels[i])]
  <2>1. ASSUME NEW i \in 0 .. n
        PROVE  f[i] = IF i = 0 THEN "none" ELSE Endpoint!Worse(f[i - 1], levels[i])
    <3>1. f[i] = IF i = 0 THEN "none" ELSE step[<<i, f[i - 1]>>]
      BY <1>5 DEF IsFold
    <3>2. i # 0 => i \in 1 .. n /\ i - 1 \in 0 .. n
      BY <1>1
    <3>3. i # 0 => step[<<i, f[i - 1]>>] = Endpoint!Worse(f[i - 1], levels[i])
      BY <1>3, <1>5, <3>2
    <3> QED
      BY <3>1, <3>3
  <2> QED
    BY <1>5, <2>1
<1>7. w = CHOOSE g : g = [i \in 0 .. n |->
              IF i = 0 THEN "none" ELSE Endpoint!Worse(g[i - 1], levels[i])]
  BY DEF Endpoint!Worst, n
<1> HIDE DEF w
<1>8. w = [i \in 0 .. n |-> IF i = 0 THEN "none" ELSE Endpoint!Worse(w[i - 1], levels[i])]
  BY <1>6, <1>7
<1>9. w[0] = "none" /\ \A i \in 1 .. n : w[i] = Endpoint!Worse(w[i - 1], levels[i])
  BY <1>1, <1>8
<1> QED
  BY <1>9 DEF w, n

\* A list does not lose an error.
LEMMA WorstSound ==
    ASSUME NEW levels \in Seq(Levels), Endpoint!Worst(levels)[Len(levels)] # "error"
    PROVE  \A i \in 1 .. Len(levels) : levels[i] # "error"
<1> DEFINE n == Len(levels)
           w == Endpoint!Worst(levels)
           P == {m \in Nat : m <= n =>
                    \A i \in 1 .. m : levels[i] = "error" => w[m] = "error"}
<1>1. n \in Nat /\ \A i \in 1 .. n : w[i] = Endpoint!Worse(w[i - 1], levels[i])
  BY WorstIs
<1> HIDE DEF n, w
<1>2. 0 \in P
  OBVIOUS
<1>3. ASSUME NEW m \in Nat, m \in P
      PROVE  m + 1 \in P
  <2> SUFFICES ASSUME m + 1 <= n, NEW i \in 1 .. m + 1, levels[i] = "error"
               PROVE  w[m + 1] = "error"
    OBVIOUS
  <2>1. w[m + 1] = Endpoint!Worse(w[m], levels[m + 1])
    BY <1>1
  <2>2. CASE i = m + 1
    BY <2>1, <2>2 DEF Endpoint!Worse
  <2>3. CASE i \in 1 .. m
    <3>1. m <= n
      BY <1>1
    <3>2. w[m] = "error"
      BY <1>3, <2>3, <3>1
    <3> QED
      BY <2>1, <3>2 DEF Endpoint!Worse
  <2> QED
    BY <2>2, <2>3
<1> HIDE DEF P
<1>4. n \in P
  BY <1>1, <1>2, <1>3, CountingUp
<1> QED
  BY <1>1, <1>4 DEF P, n, w

LEMMA KeptIs ==
    ASSUME NEW S, NEW es \in Seq(S)
    PROVE  /\ Endpoint!Kept(es)[0] = <<>>
           /\ \A i \in 1 .. Len(es) : Endpoint!Kept(es)[i] =
                 IF es[i].kind \in Endpoint!Kinds(family)
                 THEN Append(Endpoint!Kept(es)[i - 1], es[i]) ELSE Endpoint!Kept(es)[i - 1]
<1> DEFINE n == Len(es)
           w == Endpoint!Kept(es)
           With(s, e) == IF e.kind \in Endpoint!Kinds(family) THEN Append(s, e) ELSE s
           step == [x \in (1 .. n) \X Seq(S) |-> With(x[2], es[x[1]])]
<1>1. n \in Nat
  OBVIOUS
<1>2. step \in [(1 .. n) \X Seq(S) -> Seq(S)]
  <2>1. ASSUME NEW i \in 1 .. n, NEW a \in Seq(S)
        PROVE  With(a, es[i]) \in Seq(S)
    OBVIOUS
  <2> HIDE DEF With
  <2> QED
    BY <2>1
<1> HIDE DEF With
<1>3. \A i \in 1 .. n, a \in Seq(S) : step[<<i, a>>] = With(a, es[i])
  OBVIOUS
<1>4. <<>> \in Seq(S)
  OBVIOUS
<1> HIDE DEF n, step
<1>5. PICK f \in [0 .. n -> Seq(S)] : IsFold(f, n, <<>>, step)
  BY <1>1, <1>2, <1>4, FoldExists
<1>6. f = [i \in 0 .. n |-> IF i = 0 THEN <<>> ELSE With(f[i - 1], es[i])]
  <2>1. ASSUME NEW i \in 0 .. n
        PROVE  f[i] = IF i = 0 THEN <<>> ELSE With(f[i - 1], es[i])
    <3>1. f[i] = IF i = 0 THEN <<>> ELSE step[<<i, f[i - 1]>>]
      BY <1>5 DEF IsFold
    <3>2. i # 0 => i \in 1 .. n /\ i - 1 \in 0 .. n
      BY <1>1
    <3>3. i # 0 => step[<<i, f[i - 1]>>] = With(f[i - 1], es[i])
      BY <1>3, <1>5, <3>2
    <3> QED
      BY <3>1, <3>3
  <2> QED
    BY <1>5, <2>1
<1>7. w = CHOOSE g : g = [i \in 0 .. n |-> IF i = 0 THEN <<>> ELSE
             IF es[i].kind \in Endpoint!Kinds(family) THEN Append(g[i - 1], es[i]) ELSE g[i - 1]]
  BY DEF Endpoint!Kept, n
<1> HIDE DEF w
<1>8. w = [i \in 0 .. n |-> IF i = 0 THEN <<>> ELSE With(w[i - 1], es[i])]
  BY <1>6, <1>7 DEF With
<1>9. w[0] = <<>> /\ \A i \in 1 .. n : w[i] = With(w[i - 1], es[i])
  BY <1>1, <1>8
<1> QED
  BY <1>9 DEF w, n, With

\* What is kept of a list comes from it, and has each kind once as well.
LEMMA AcceptedIs ==
    ASSUME Endpoint!EndpointAssumption, NEW es \in Requests
    PROVE  /\ Endpoint!Accepted(es) \in Seq(Endpoint!Ends)
           /\ \A i, j \in 1 .. Len(Endpoint!Accepted(es)) :
                 Endpoint!Accepted(es)[i].kind = Endpoint!Accepted(es)[j].kind => i = j
<1> DEFINE n == Len(es)
           w == Endpoint!Kept(es)
           Once(s) == \A i, j \in 1 .. Len(s) : s[i].kind = s[j].kind => i = j
           P == {m \in Nat : m <= n =>
                    /\ w[m] \in Seq(Endpoint!Ends) /\ Once(w[m])
                    /\ \A i \in 1 .. Len(w[m]) : \E j \in 1 .. m : w[m][i] = es[j]}
<1>1. /\ es \in Seq(Endpoint!Ends) /\ n \in Nat
      /\ \A i, j \in 1 .. n : es[i].kind = es[j].kind => i = j
  BY DEF Endpoint!EndpointAssumption
<1>2. /\ w[0] = <<>>
      /\ \A i \in 1 .. n : w[i] = IF es[i].kind \in Endpoint!Kinds(family)
                                  THEN Append(w[i - 1], es[i]) ELSE w[i - 1]
  BY <1>1, KeptIs
<1> HIDE DEF n, w
<1>3. 0 \in P
  <2>1. w[0] \in Seq(Endpoint!Ends) /\ Len(w[0]) = 0
    BY <1>2
  <2>2. 1 .. Len(w[0]) = {}
    BY <2>1
  <2> QED
    BY <2>1, <2>2
<1>4. ASSUME NEW m \in Nat, m \in P
      PROVE  m + 1 \in P
  <2> SUFFICES ASSUME m + 1 <= n
               PROVE  /\ w[m + 1] \in Seq(Endpoint!Ends) /\ Once(w[m + 1])
                      /\ \A i \in 1 .. Len(w[m + 1]) : \E j \in 1 .. m + 1 :
                            w[m + 1][i] = es[j]
    OBVIOUS
  <2>1. /\ w[m] \in Seq(Endpoint!Ends) /\ Once(w[m])
        /\ \A i \in 1 .. Len(w[m]) : \E j \in 1 .. m : w[m][i] = es[j]
    BY <1>1, <1>4
  <2>2. es[m + 1] \in Endpoint!Ends /\ m + 1 \in 1 .. n
    BY <1>1 DEF n
  <2>3. w[m + 1] = w[m] \/ w[m + 1] = Append(w[m], es[m + 1])
    <3>1. (m + 1) - 1 = m
      OBVIOUS
    <3>2. \/ w[m + 1] = w[(m + 1) - 1]
          \/ w[m + 1] = Append(w[(m + 1) - 1], es[m + 1])
      BY <1>2, <2>2
    <3> QED
      BY <3>1, <3>2
  <2>4. CASE w[m + 1] = w[m]
    BY <2>1, <2>4
  <2>5. CASE w[m + 1] = Append(w[m], es[m + 1])
    <3> DEFINE s == w[m]
               e == es[m + 1]
    <3>1. s \in Seq(Endpoint!Ends) /\ e \in Endpoint!Ends
      BY <2>1, <2>2
    <3>2. \A i \in 1 .. Len(s) : s[i].kind # e.kind
      BY <1>1, <2>1, <2>2
    <3> HIDE DEF s, e
    <3>3. /\ Append(s, e) \in Seq(Endpoint!Ends) /\ Len(Append(s, e)) = Len(s) + 1
          /\ \A i \in 1 .. Len(s) : Append(s, e)[i] = s[i]
          /\ Append(s, e)[Len(s) + 1] = e /\ Len(s) \in Nat
      BY <3>1
    <3>4. Once(s)
      BY <2>1 DEF s
    <3>5. Once(Append(s, e))
      <4>1. ASSUME NEW i \in 1 .. Len(s) + 1, NEW j \in 1 .. Len(s) + 1,
                   Append(s, e)[i].kind = Append(s, e)[j].kind
            PROVE  i = j
        <5>1. (i \in 1 .. Len(s) \/ i = Len(s) + 1) /\ (j \in 1 .. Len(s) \/ j = Len(s) + 1)
          BY <3>3
        <5> QED
          BY <3>2, <3>3, <3>4, <4>1, <5>1
      <4> QED
        BY <3>3, <4>1
    <3>6. ASSUME NEW i \in 1 .. Len(s) + 1
          PROVE  \E j \in 1 .. m + 1 : Append(s, e)[i] = es[j]
      <4>1. CASE i = Len(s) + 1
        BY <3>3, <4>1 DEF e
      <4>2. CASE i # Len(s) + 1
        <5>1. i \in 1 .. Len(s)
          BY <3>3, <4>2
        <5>2. PICK j \in 1 .. m : s[i] = es[j]
          BY <2>1, <5>1 DEF s
        <5> QED
          BY <3>3, <5>1, <5>2
      <4> QED
        BY <4>1, <4>2
    <3>7. w[m + 1] = Append(s, e) /\ Len(w[m + 1]) = Len(s) + 1
      BY <2>5, <3>3 DEF s, e
    <3> HIDE DEF Once
    <3>8. /\ w[m + 1] \in Seq(Endpoint!Ends) /\ Once(w[m + 1])
          /\ \A i \in 1 .. Len(w[m + 1]) : \E j \in 1 .. m + 1 : w[m + 1][i] = es[j]
      BY <3>3, <3>5, <3>6, <3>7
    <3> QED
      BY <3>8
  <2> QED
    BY <2>3, <2>4, <2>5
<1> HIDE DEF P
<1>5. n \in P
  BY <1>1, <1>3, <1>4, CountingUp
<1>6. w[n] \in Seq(Endpoint!Ends) /\ Once(w[n])
  BY <1>1, <1>5 DEF P
<1> QED
  BY <1>6 DEF w, n, Endpoint!Accepted

-----------------------------------------------------------------------------
(* What a row, a call or the validation job holds has been checked.        *)

Passed(e) == {c.fact : c \in Endpoint!Checks(e.kind)} \subseteq node

ListChecked(es) ==
    /\ \A e \in Endpoint!Filled(es) : e.kind \in {"http", "ws", "node"} => Passed(e)
    /\ family = "subgraph" =>
          Endpoint!Kinds(family) \subseteq {e.kind : e \in Endpoint!ToSet(es)}

Checked(x) == x.status = "running" => ListChecked(x.endpoints)

\* Rows that may be saved.
Good == {x \in Endpoint!Entries : Checked(x)}

WorldOK == family \in Families /\ node \subseteq Endpoint!Facts /\ alive \in BOOLEAN

CallKinds ==
    [op : {"none", "start", "stop", "remove"}, e : Endpoint!Entries \cup {None},
     pc : {"idle", "load", "start", "stop", "remove", "save"}]

HeldOK ==
    /\ call.pc # "idle" => call.op # "none"
    /\ call.pc \in {"start", "stop", "remove", "save"} => call.e \in Good

EndpointInv ==
    /\ WorldOK /\ HeldOK /\ call \in CallKinds
    /\ entry \in Good \cup {None}
    /\ audit \in [checked : BOOLEAN, e : Good] \cup {None}

\* Of an endpoint that is not metrics every failure is an error.
LEMMA NoErrorPasses ==
    ASSUME family \in {"evm", "dict", "polkadot", "solana"}, NEW e,
           e.kind \in {"http", "ws", "node"},
           NEW level \in Endpoint!Levels(e), level # "error"
    PROVE  Passed(e)
<1> DEFINE failed == {c \in Endpoint!Checks(e.kind) : c.fact \notin node}
<1>1. \A c \in Endpoint!Checks(e.kind) : c.level = "error"
  BY DEF Endpoint!Checks, Endpoint!EvmChecks, Endpoint!DictChecks, Endpoint!PolkadotChecks,
         Endpoint!SolanaChecks, Endpoint!Errors
<1>2. CASE Endpoint!Checks(e.kind) = {}
  BY <1>2 DEF Passed
<1>3. CASE Endpoint!Checks(e.kind) # {}
  <2>1. failed = {} \/ level \in {c.level : c \in failed}
    BY <1>3 DEF Endpoint!Levels
  <2>2. failed = {}
    BY <1>1, <2>1
  <2> QED
    BY <2>2 DEF Passed
<1> QED
  BY <1>2, <1>3

LEMMA ResultsIn ==
    ASSUME NEW es \in Seq(Endpoint!Ends), NEW levels \in Endpoint!Results(es)
    PROVE  /\ levels \in Seq(Levels) /\ Len(levels) = Len(es)
           /\ \A i \in 1 .. Len(es) : levels[i] \in Endpoint!Levels(es[i])
<1>1. levels \in [1 .. Len(es) -> Levels] /\ Len(es) \in Nat
  BY DEF Endpoint!Results, Levels
<1> QED
  BY <1>1, AsSequence DEF Endpoint!Results

\* A list that is not refused has passed, or has no values.
LEMMA RpcChecked ==
    ASSUME family \in {"evm", "dict", "polkadot", "solana"}, NEW es \in Seq(Endpoint!Ends),
           NEW levels \in Endpoint!Results(es), Endpoint!Verdict(es, levels) # "error"
    PROVE  ListChecked(es)
<1>1. /\ levels \in Seq(Levels) /\ Len(levels) = Len(es)
      /\ \A i \in 1 .. Len(es) : levels[i] \in Endpoint!Levels(es[i])
  BY ResultsIn
<1>2. CASE ~Endpoint!UrlsValid(es)
  BY <1>2 DEF Endpoint!Verdict, ListChecked
<1>3. CASE Endpoint!UrlsValid(es)
  <2>1. \A i \in 1 .. Len(levels) : levels[i] # "error"
    BY <1>1, <1>3, WorstSound DEF Endpoint!Verdict
  <2>2. ASSUME NEW e \in Endpoint!Filled(es), e.kind \in {"http", "ws", "node"}
        PROVE  Passed(e)
    <3>1. PICK i \in 1 .. Len(es) : e = es[i]
      BY DEF Endpoint!Filled, Endpoint!ToSet
    <3> QED
      BY <1>1, <2>1, <2>2, <3>1, NoErrorPasses
  <2> QED
    BY <2>2 DEF ListChecked
<1> QED
  BY <1>2, <1>3

\* The three endpoints that are looked for are all there are.
LEMMA SubgraphChecked ==
    ASSUME family = "subgraph", NEW es \in Seq(Endpoint!Ends),
           \A i, j \in 1 .. Len(es) : es[i].kind = es[j].kind => i = j,
           \A kind \in Endpoint!Kinds(family) : \E e \in Endpoint!ToSet(es) :
               e.kind = kind /\ e.url # Endpoint!Blank /\ Endpoint!Levels(e) = {"none"}
    PROVE  ListChecked(es)
<1>1. Endpoint!Kinds(family) = {"node", "http", "ws"}
  BY DEF Endpoint!Kinds
<1>2. \A e \in Endpoint!ToSet(es) : \E i \in 1 .. Len(es) : e = es[i]
  BY DEF Endpoint!ToSet
<1>3. ASSUME NEW e \in Endpoint!Filled(es), e.kind \in {"http", "ws", "node"}
      PROVE  Passed(e)
  <2>1. PICK d \in Endpoint!ToSet(es) : d.kind = e.kind /\ Endpoint!Levels(d) = {"none"}
    BY <1>1, <1>3
  <2>2. d = e
    BY <1>2, <1>3, <2>1 DEF Endpoint!Filled
  <2> DEFINE failed == {c \in Endpoint!Checks(e.kind) : c.fact \notin node}
  <2>3. \A c \in Endpoint!Checks(e.kind) : c.level = "error"
    BY <1>3 DEF Endpoint!Checks, Endpoint!SubgraphChecks, Endpoint!Errors
  <2>4. /\ alive
        /\ failed = {} \/ {c.level : c \in failed} = {"none"}
    BY <2>1, <2>2 DEF Endpoint!Levels
  <2>5. failed = {}
    BY <2>3, <2>4
  <2> QED
    BY <2>5 DEF Passed
<1> QED
  BY <1>1, <1>3 DEF ListChecked

LEMMA FlaggedIs ==
    ASSUME NEW es \in Seq(Endpoint!Ends), NEW levels,
           NEW valid \in [1 .. Len(es) -> BOOLEAN]
    PROVE  /\ Endpoint!Flagged(es, valid, levels) \in Seq(BOOLEAN)
           /\ Len(Endpoint!Flagged(es, valid, levels)) = Len(es)
<1> DEFINE n == Len(es)
<1>1. n \in Nat
  OBVIOUS
<1>2. Endpoint!Flagged(es, valid, levels) \in [1 .. n -> BOOLEAN]
  BY DEF Endpoint!Flagged
<1> HIDE DEF n
<1>3. /\ Endpoint!Flagged(es, valid, levels) \in Seq(BOOLEAN)
      /\ Len(Endpoint!Flagged(es, valid, levels)) = n
  BY <1>1, <1>2, AsSequence
<1> QED
  BY <1>3 DEF n

LEMMA EntryIs ==
    ASSUME Endpoint!EndpointAssumption
    PROVE  /\ None \notin Endpoint!Entries
           /\ \A x \in Endpoint!Entries :
                 /\ x.endpoints \in Seq(Endpoint!Ends)
                 /\ x.valid \in [1 .. Len(x.endpoints) -> BOOLEAN]
           /\ None \notin [checked : BOOLEAN, e : Endpoint!Entries]
           /\ Endpoint!NewEntry \in Endpoint!Entries /\ Endpoint!NewEntry.status = "stopped"
<1>1. Endpoint!Lists \subseteq Seq(Endpoint!Ends)
  <2>1. <<>> \in Seq(Endpoint!Ends)
    OBVIOUS
  <2>2. \A es \in Requests : Endpoint!Accepted(es) \in Seq(Endpoint!Ends)
    BY AcceptedIs
  <2> QED
    BY <2>1, <2>2 DEF Endpoint!Lists
<1>2. Endpoint!Entries \subseteq Endpoint!Entry(Seq(Endpoint!Ends))
  BY <1>1 DEF Endpoint!Entries, Endpoint!Entry
<1>3. ASSUME NEW x \in Endpoint!Entries
      PROVE  /\ x.endpoints \in Seq(Endpoint!Ends)
             /\ x.valid \in [1 .. Len(x.endpoints) -> BOOLEAN]
  <2>1. /\ x.endpoints \in Seq(Endpoint!Ends) /\ x.valid \in Seq(BOOLEAN)
        /\ Len(x.valid) = Len(x.endpoints)
    BY <1>1 DEF Endpoint!Entries, Endpoint!Entry
  <2> QED
    BY <2>1
<1>4. Endpoint!NewEntry \in Endpoint!Entries /\ Endpoint!NewEntry.status = "stopped"
  BY DEF Endpoint!NewEntry, Endpoint!Entries, Endpoint!Entry, Endpoint!Lists
<1> HIDE DEF Endpoint!Entries
<1> QED
  BY <1>2, <1>3, <1>4 DEF Endpoint!EndpointAssumption

LEMMA RunningIs ==
    ASSUME Endpoint!EndpointAssumption, NEW request \in Requests, NEW levels
    PROVE  LET es == Endpoint!Accepted(request)
               x == Endpoint!Running(es, levels)
           IN  x \in Endpoint!Entries /\ x.endpoints = es
<1> DEFINE es == Endpoint!Accepted(request)
           none == [i \in 1 .. Len(es) |-> FALSE]
           valid == Endpoint!Flagged(es, none, levels)
<1>1. es \in Seq(Endpoint!Ends) /\ es \in Endpoint!Lists
  BY AcceptedIs DEF Endpoint!Lists
<1>2. none \in [1 .. Len(es) -> BOOLEAN]
  OBVIOUS
<1> HIDE DEF es, none
<1>3. valid \in Seq(BOOLEAN) /\ Len(valid) = Len(es)
  BY <1>1, <1>2, FlaggedIs
<1>4. Endpoint!Running(es, levels) = [status |-> "running", endpoints |-> es, valid |-> valid]
  BY DEF Endpoint!Running, none
<1> HIDE DEF valid
<1>5. /\ Endpoint!Running(es, levels) \in Endpoint!Entries
      /\ Endpoint!Running(es, levels).endpoints = es
  BY <1>1, <1>3, <1>4 DEF Endpoint!Entries, Endpoint!Entry
<1> QED
  BY <1>5 DEF es

\* The project's family and its node are chosen once.
LEMMA SameWorld ==
    ASSUME UNCHANGED <<family, node>>
    PROVE  /\ Endpoint!Facts' = Endpoint!Facts /\ Endpoint!Entries' = Endpoint!Entries
           /\ Good' = Good
<1>1. \A kind : Endpoint!Checks(kind)' = Endpoint!Checks(kind)
  BY DEF Endpoint!Checks
<1>2. Endpoint!Kinds(family)' = Endpoint!Kinds(family)
  OBVIOUS
<1>3. Endpoint!Facts' = Endpoint!Facts
  BY <1>1, <1>2 DEF Endpoint!Facts
<1>4. \A es : Endpoint!Accepted(es)' = Endpoint!Accepted(es)
  BY <1>2 DEF Endpoint!Accepted, Endpoint!Kept
<1>5. Endpoint!Entries' = Endpoint!Entries
  BY <1>4 DEF Endpoint!Entries, Endpoint!Lists
<1>6. \A x : Checked(x)' = Checked(x)
  BY <1>1, <1>2 DEF Checked, ListChecked, Passed
<1> QED
  BY <1>3, <1>5, <1>6 DEF Good

LEMMA GoodIs ==
    ASSUME Endpoint!EndpointAssumption
    PROVE  /\ Good \subseteq Endpoint!Entries /\ None \notin Good
           /\ Endpoint!NewEntry \in Good
           /\ None \notin [checked : BOOLEAN, e : Good]
           /\ \A x \in Good : [x EXCEPT !.status = "stopped"] \in Good
<1>1. Good \subseteq Endpoint!Entries /\ Endpoint!NewEntry \in Good
  BY EntryIs DEF Good, Checked
<1>2. None \notin Good /\ None \notin [checked : BOOLEAN, e : Good]
  BY <1>1, EntryIs
<1>3. ASSUME NEW x \in Good
      PROVE  [x EXCEPT !.status = "stopped"] \in Good
  <2> DEFINE y == [x EXCEPT !.status = "stopped"]
  <2>1. x \in Endpoint!Entry(Endpoint!Lists) /\ Len(x.valid) = Len(x.endpoints)
    BY <1>1, <1>3 DEF Endpoint!Entries
  <2>2. /\ y \in Endpoint!Entry(Endpoint!Lists) /\ y.status = "stopped"
        /\ y.valid = x.valid /\ y.endpoints = x.endpoints
    BY <2>1 DEF Endpoint!Entry
  <2> HIDE DEF y
  <2>3. y \in Good
    BY <2>1, <2>2 DEF Good, Checked, Endpoint!Entries
  <2> QED
    BY <2>3 DEF y
<1> QED
  BY <1>1, <1>2, <1>3

\* The validation job changes the flags only.
LEMMA AuditedIs ==
    ASSUME Endpoint!EndpointAssumption, NEW x \in Good, NEW levels
    PROVE  [x EXCEPT !.valid = Endpoint!Flagged(x.endpoints, x.valid, levels)] \in Good
<1> DEFINE valid == Endpoint!Flagged(x.endpoints, x.valid, levels)
           y == [x EXCEPT !.valid = valid]
<1>1. x \in Endpoint!Entries /\ Checked(x)
  BY DEF Good
<1>2. valid \in Seq(BOOLEAN) /\ Len(valid) = Len(x.endpoints)
  BY <1>1, EntryIs, FlaggedIs
<1> HIDE DEF valid
<1>3. /\ y \in Endpoint!Entry(Endpoint!Lists) /\ y.status = x.status
      /\ y.valid = valid /\ y.endpoints = x.endpoints
  BY <1>1, <1>2 DEF Endpoint!Entries, Endpoint!Entry
<1> HIDE DEF y
<1>4. y \in Good
  BY <1>1, <1>2, <1>3 DEF Good, Checked, Endpoint!Entries
<1> QED
  BY <1>4 DEF y, valid

LEMMA EndpointAfter ==
    ASSUME EndpointInv, UNCHANGED <<family, node>>, alive' \in BOOLEAN, call' \in CallKinds,
           call'.pc # "idle" => call'.op # "none",
           call'.pc \in {"start", "stop", "remove", "save"} => call'.e \in Good,
           entry' \in Good \cup {None}, audit' \in [checked : BOOLEAN, e : Good] \cup {None}
    PROVE  EndpointInv'
  BY SameWorld DEF EndpointInv, WorldOK, HeldOK, CallKinds

LEMMA EndpointCallStep ==
    ASSUME Endpoint!EndpointAssumption, EndpointInv,
           Endpoint!Begin \/ Endpoint!Load \/ Endpoint!ValidateRpc \/ Endpoint!ValidateSubgraph
           \/ Endpoint!SaveCall \/ Endpoint!RemoveEntry
    PROVE  EndpointInv'
<1> DEFINE Saved(e) == call' = [call EXCEPT !.pc = "save", !.e = e]
<1>1. /\ family \in Families /\ alive \in BOOLEAN /\ call \in CallKinds /\ HeldOK
      /\ entry \in Good \cup {None}
      /\ audit \in [checked : BOOLEAN, e : Good] \cup {None}
  BY DEF EndpointInv, WorldOK
<1>2. Endpoint!Idle \in CallKinds /\ Endpoint!Idle.pc = "idle"
  BY DEF Endpoint!Idle, CallKinds
<1>3. /\ Good \subseteq Endpoint!Entries /\ Endpoint!NewEntry \in Good
      /\ \A x \in Good : [x EXCEPT !.status = "stopped"] \in Good
  BY GoodIs
<1> HIDE DEF Good
<1>4. ASSUME call' = Endpoint!Idle, UNCHANGED <<family, node, alive, audit>>,
             entry' \in Good \cup {None}
      PROVE  EndpointInv'
  BY <1>1, <1>2, <1>4, EndpointAfter
\* A start is saved later.
<1>5. ASSUME NEW e \in Good, Saved(e), call.pc = "start",
             UNCHANGED <<family, node, alive, entry, audit>>
      PROVE  EndpointInv'
  <2>1. /\ call' \in CallKinds /\ call'.e = e /\ call'.op = call.op /\ call.op # "none"
    BY <1>1, <1>3, <1>5 DEF CallKinds, HeldOK
  <2> QED
    BY <1>1, <1>5, <2>1, EndpointAfter
<1>6. CASE Endpoint!Begin
  <2>1. /\ call' \in CallKinds /\ call'.pc = "load" /\ call'.op # "none"
        /\ UNCHANGED <<family, node, alive, entry, audit>>
    BY <1>6 DEF Endpoint!Begin, CallKinds
  <2> QED
    BY <1>1, <2>1, EndpointAfter
<1>7. CASE Endpoint!Load
  <2> DEFINE e == IF entry = None THEN Endpoint!NewEntry ELSE entry
  <2>1. e \in Good /\ entry' \in Good \cup {None}
    BY <1>1, <1>3, <1>7 DEF Endpoint!Load
  <2>2. UNCHANGED <<family, node, alive, audit>>
    BY <1>7 DEF Endpoint!Load
  <2>3. CASE call' = Endpoint!Idle
    BY <1>4, <2>1, <2>2, <2>3
  <2>4. CASE call' = [call EXCEPT !.pc = call.op, !.e = e]
    <3>1. call.op \in {"start", "stop", "remove"}
      BY <1>1, <1>7 DEF Endpoint!Load, HeldOK, CallKinds
    <3>2. call' \in CallKinds /\ call'.e = e /\ call'.op = call.op
      BY <1>1, <1>3, <2>1, <2>4, <3>1 DEF CallKinds
    <3> QED
      BY <1>1, <2>1, <2>2, <3>1, <3>2, EndpointAfter
  <2> QED
    BY <1>7, <2>3, <2>4 DEF Endpoint!Load
<1>8. CASE Endpoint!ValidateRpc
  <2>0. PICK request \in Requests : \E levels \in Endpoint!Results(Endpoint!Accepted(request)) :
           call' = IF Endpoint!Verdict(Endpoint!Accepted(request), levels) = "error"
                   THEN Endpoint!Idle
                   ELSE [call EXCEPT !.pc = "save",
                             !.e = Endpoint!Running(Endpoint!Accepted(request), levels)]
    BY <1>8 DEF Endpoint!ValidateRpc
  <2> DEFINE es == Endpoint!Accepted(request)
  <2>1. PICK levels \in Endpoint!Results(es) :
           call' = IF Endpoint!Verdict(es, levels) = "error" THEN Endpoint!Idle
                   ELSE [call EXCEPT !.pc = "save", !.e = Endpoint!Running(es, levels)]
    BY <2>0
  <2>2. /\ call.pc = "start" /\ UNCHANGED <<family, node, alive, entry, audit>>
        /\ family \in {"evm", "dict", "polkadot", "solana"}
    BY <1>1, <1>8 DEF Endpoint!ValidateRpc, Endpoint!EndpointAssumption
  <2>3. es \in Seq(Endpoint!Ends)
    BY AcceptedIs
  <2>4. /\ Endpoint!Running(es, levels) \in Endpoint!Entries
        /\ Endpoint!Running(es, levels).endpoints = es
    BY RunningIs
  <2> HIDE DEF es
  <2>5. CASE Endpoint!Verdict(es, levels) = "error"
    BY <1>1, <1>4, <2>1, <2>2, <2>5 DEF es
  <2>6. CASE Endpoint!Verdict(es, levels) # "error"
    <3>1. ListChecked(es)
      BY <2>1, <2>2, <2>3, <2>6, RpcChecked DEF es
    <3>2. Endpoint!Running(es, levels) \in Good
      BY <2>4, <3>1 DEF Good, Checked
    <3> QED
      BY <1>5, <2>1, <2>2, <2>6, <3>2 DEF es
  <2> QED
    BY <2>5, <2>6
<1>9. CASE Endpoint!ValidateSubgraph
  <2>1. PICK request \in Requests :
           LET es == Endpoint!Accepted(request)
               passed == \A kind \in Endpoint!Kinds(family) : \E e \in Endpoint!ToSet(es) :
                            /\ e.kind = kind /\ e.url # Endpoint!Blank
                            /\ Endpoint!Levels(e) = {"none"}
           IN  call' = IF ~passed THEN Endpoint!Idle
                       ELSE [call EXCEPT !.pc = "save", !.e =
                               Endpoint!Running(es, [i \in 1 .. Len(es) |-> "none"])]
    BY <1>9 DEF Endpoint!ValidateSubgraph
  <2> DEFINE es == Endpoint!Accepted(request)
             levels == [i \in 1 .. Len(es) |-> "none"]
             passed == \A kind \in Endpoint!Kinds(family) : \E e \in Endpoint!ToSet(es) :
                          /\ e.kind = kind /\ e.url # Endpoint!Blank
                          /\ Endpoint!Levels(e) = {"none"}
  <2>2. /\ call.pc = "start" /\ UNCHANGED <<family, node, alive, entry, audit>>
        /\ family = "subgraph"
    BY <1>9 DEF Endpoint!ValidateSubgraph
  <2>3. /\ es \in Seq(Endpoint!Ends)
        /\ \A i, j \in 1 .. Len(es) : es[i].kind = es[j].kind => i = j
    BY AcceptedIs
  <2>4. /\ Endpoint!Running(es, levels) \in Endpoint!Entries
        /\ Endpoint!Running(es, levels).endpoints = es
    BY RunningIs
  <2>5. call' = Endpoint!Idle \/ (passed /\ Saved(Endpoint!Running(es, levels)))
    BY <2>1
  <2> HIDE DEF es, levels
  <2>6. CASE call' = Endpoint!Idle
    BY <1>1, <1>4, <2>2, <2>6
  <2>7. CASE passed /\ Saved(Endpoint!Running(es, levels))
    <3>1. ListChecked(es)
      BY <2>2, <2>3, <2>7, SubgraphChecked
    <3>2. Endpoint!Running(es, levels) \in Good
      BY <2>4, <3>1 DEF Good, Checked
    <3> QED
      BY <1>5, <2>2, <2>7, <3>2
  <2> QED
    BY <2>5, <2>6, <2>7
<1>10. CASE Endpoint!SaveCall
  <2>1. call.e \in Good
    BY <1>1, <1>10 DEF Endpoint!SaveCall, HeldOK
  <2> QED
    BY <1>3, <1>4, <1>10, <2>1 DEF Endpoint!SaveCall
<1>11. CASE Endpoint!RemoveEntry
  BY <1>4, <1>11 DEF Endpoint!RemoveEntry
<1> QED
  BY <1>6, <1>7, <1>8, <1>9, <1>10, <1>11

LEMMA EndpointStep ==
    ASSUME Endpoint!EndpointAssumption, EndpointInv, [Endpoint!Next]_(Endpoint!vars)
    PROVE  EndpointInv'
<1>1. /\ alive \in BOOLEAN /\ call \in CallKinds /\ HeldOK /\ entry \in Good \cup {None}
      /\ audit \in [checked : BOOLEAN, e : Good] \cup {None}
  BY DEF EndpointInv, WorldOK
\* Beside the calls.
<1>2. ASSUME UNCHANGED <<family, node, call>>, alive' \in BOOLEAN,
             entry' \in Good \cup {None}, audit' \in [checked : BOOLEAN, e : Good] \cup {None}
      PROVE  EndpointInv'
  BY <1>1, <1>2, EndpointAfter DEF HeldOK
<1>3. CASE Endpoint!AuditLoad
  <2>1. entry \in Good /\ audit' = [checked |-> FALSE, e |-> entry]
    BY <1>1, <1>3 DEF Endpoint!AuditLoad, Endpoint!Listed
  <2> QED
    BY <1>1, <1>2, <1>3, <2>1 DEF Endpoint!AuditLoad
<1>4. CASE Endpoint!AuditCheck
  <2>1. audit \in [checked : BOOLEAN, e : Good]
    BY <1>1, <1>4 DEF Endpoint!AuditCheck
  <2>2. PICK levels : audit' = [checked |-> TRUE, e |-> [audit.e EXCEPT !.valid =
                        Endpoint!Flagged(audit.e.endpoints, audit.e.valid, levels)]]
    BY <1>4 DEF Endpoint!AuditCheck
  <2>3. [audit.e EXCEPT !.valid =
            Endpoint!Flagged(audit.e.endpoints, audit.e.valid, levels)] \in Good
    BY <2>1, AuditedIs
  <2> QED
    BY <1>1, <1>2, <1>4, <2>2, <2>3 DEF Endpoint!AuditCheck
<1>5. CASE Endpoint!AuditSave
  <2>1. audit.e \in Good
    BY <1>1, <1>5 DEF Endpoint!AuditSave
  <2> QED
    BY <1>1, <1>2, <1>5, <2>1 DEF Endpoint!AuditSave
<1>6. CASE Endpoint!Toggle \/ UNCHANGED Endpoint!vars
  BY <1>1, <1>2, <1>6 DEF Endpoint!Toggle, Endpoint!vars
<1> QED
  BY <1>3, <1>4, <1>5, <1>6, EndpointCallStep DEF Endpoint!Next, Endpoint!Audit

LEMMA EndpointInit ==
    ASSUME Endpoint!Init
    PROVE  EndpointInv
<1>1. node \subseteq Endpoint!Facts
  BY DEF Endpoint!Init
<1> QED
  BY <1>1 DEF Endpoint!Init, Endpoint!Idle, EndpointInv, WorldOK, HeldOK, CallKinds

\* The row, the call and the validation job keep their types.
THEOREM EndpointTypeCorrect ==
    ASSUME Endpoint!EndpointAssumption
    PROVE  Endpoint!Spec => []Endpoint!TypeOK
<1>1. Endpoint!Init => EndpointInv
  BY EndpointInit
<1>2. EndpointInv /\ [Endpoint!Next]_(Endpoint!vars) => EndpointInv'
  BY EndpointStep
<1>3. EndpointInv => Endpoint!TypeOK
  BY GoodIs DEF EndpointInv, WorldOK, CallKinds, Endpoint!TypeOK
<1> QED
  BY <1>1, <1>2, <1>3, PTL DEF Endpoint!Spec

\* Whatever lists are sent and however the node comes and goes, what runs has
\* passed the checks of its family.
THEOREM CheckedSafe ==
    ASSUME Endpoint!EndpointAssumption
    PROVE  Endpoint!Spec => []RunningWasChecked
<1>1. Endpoint!Init => EndpointInv
  BY EndpointInit
<1>2. EndpointInv /\ [Endpoint!Next]_(Endpoint!vars) => EndpointInv'
  BY EndpointStep
<1>3. EndpointInv => Endpoint!RunningWasChecked
  BY DEF EndpointInv, Good, Checked, ListChecked, Passed, Endpoint!RunningWasChecked
<1> QED
  BY <1>1, <1>2, <1>3, PTL DEF Endpoint!Spec, RunningWasChecked

=============================================================================
