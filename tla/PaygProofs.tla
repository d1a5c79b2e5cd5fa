----------------------------- MODULE PaygProofs -----------------------------
(* Proofs about ChannelStore, for any number of calls and any amounts, and *)
(* about Payg: with updates of the proxy only, the row is the environment  *)
(* that ChannelCache assumes.                                              *)
EXTENDS PaygParts, TLAPS

\* What a loaded job carries, one fact per kind of job.
LEMMA JobFields ==
    ASSUME NEW job \in Job
    PROVE  /\ job.op = "update" => job.snap \in Row /\ job.state \in Sign
           /\ job.op = "extend" => /\ job.snap \in Row /\ job.expiration \in Nat
                                   /\ job.price \in Nat /\ job.stage \in TxStage
           /\ job.op \in {"checkpoint", "terminate", "respond"} =>
                 job.snap \in Row /\ job.postponed \in BOOLEAN /\ job.stage \in TxStage
           /\ job.op = "event" => job.snap \in Row /\ job.event \in [kind: Change, at: Contract]
           /\ job.op = "sync" => job.at \in Contract
           /\ job.op = "save" => job.entity \in Row /\ job.again \in BOOLEAN
  BY DEF Job

\* Merging what the contract or the network says into a loaded row gives a row.
LEMMA FreshType ==
    ASSUME NEW at \in Contract
    PROVE  /\ Fresh(at) \in Row
           /\ [Fresh(at) EXCEPT !.spent = 0] \in Row
  BY StoreAssumption DEF Fresh, Row, Contract, Status

LEMMA FromContractType ==
    ASSUME NEW loaded \in Row \cup {NoRow}, NEW at \in Contract, NEW p \in Nat
    PROVE  FromContract(loaded, at, p) \in Row
<1> DEFINE entity == IF loaded = NoRow THEN Fresh(at) ELSE loaded
<1>1. entity \in Row
  BY FreshType
<1> HIDE DEF entity
<1>2. [entity EXCEPT !.status = at.status, !.total = at.total,
                     !.onchain = at.spent,
                     !.price = IF @ = 0 THEN p ELSE @,
                     !.expiredAt = IF @ < at.expiredAt THEN at.expiredAt ELSE @]
        \in Row
  BY <1>1 DEF Row, Contract
<1> QED
  BY <1>2 DEF FromContract, entity

LEMMA FromNetworkType ==
    ASSUME NEW loaded \in Row \cup {NoRow}, NEW at \in Contract, NEW p \in Nat
    PROVE  FromNetwork(loaded, at, p) \in Row
<1> DEFINE base == IF loaded = NoRow THEN [Fresh(at) EXCEPT !.spent = 0] ELSE loaded
<1>1. base \in Row \cup {NoRow}
  BY FreshType
<1> HIDE DEF base
<1>2. FromContract(base, at, p) \in Row
  BY <1>1, FromContractType
<1>3. [FromContract(base, at, p) EXCEPT !.status = "FINALIZED", !.lastFinal = TRUE]
        \in Row
  BY <1>2 DEF Row, Status
<1> QED
  BY <1>3 DEF FromNetwork, base

LEMMA InitType == Init => TypeOK
  BY StoreAssumption DEF Init, TypeOK, Opened, Contract, Status, Event, Change, Job, IdleJob

\* A row that is updated field by field stays a row, or stays missing.
LEMMA RowType ==
    ASSUME TypeOK, NEW j \in Jobs,
           UpdateSave(j) \/ ExtendSave(j) \/ SettleSave(j) \/ EventSave(j)
           \/ EntitySave(j)
    PROVE  row' \in Row \cup {NoRow}
<1>1. jobs[j] \in Job
  BY DEF TypeOK
<1>2. CASE row = NoRow
  BY <1>1, <1>2, JobFields
     DEF UpdateSave, ExtendSave, SettleSave, EventSave, EntitySave, SaveFields
<1>3. CASE row \in Row
  <2> DEFINE job == jobs[j]
  <2>1. CASE UpdateSave(j)
    <3>1. job.snap \in Row /\ job.state \in Sign
      BY <1>1, <2>1, JobFields DEF UpdateSave
    <3> DEFINE paid == [row EXCEPT !.spent = job.snap.spent + job.snap.price]
               full == [paid EXCEPT !.remote = job.state.spent,
                                    !.lastFinal = job.state.final,
                                    !.sign = job.state]
    <3>2. paid \in Row
      BY <1>3, <3>1 DEF Row
    <3>3. full \in Row
      BY <3>1, <3>2 DEF Row, Sign
    <3>4. row' \in {full, paid, NoRow}
      BY <2>1 DEF UpdateSave, SaveFields, Pay
    <3> QED
      BY <3>2, <3>3, <3>4
  <2>2. CASE ExtendSave(j)
    <3>1. job.snap \in Row /\ job.expiration \in Nat /\ job.price \in Nat
      BY <1>1, <2>2, JobFields DEF ExtendSave
    <3> QED
      BY <1>3, <2>2, <3>1 DEF ExtendSave, SaveFields, Row
  <2>3. CASE SettleSave(j)
    <3>1. job.snap \in Row /\ job.op \in {"checkpoint", "terminate", "respond"}
      BY <1>1, <2>3, JobFields DEF SettleSave
    <3>2. Claim(job) \in Nat
      BY <3>1 DEF Claim, Row
    <3> QED
      BY <1>3, <2>3, <3>1, <3>2 DEF SettleSave, SaveFields, Row, Status
  <2>4. CASE EventSave(j)
    <3>1. job.snap \in Row /\ job.event \in [kind: Change, at: Contract]
      BY <1>1, <2>4, JobFields DEF EventSave
    <3> QED
      BY <1>3, <2>4, <3>1
         DEF EventSave, SaveFields, Row, Status, Contract, Change
  <2>5. CASE EntitySave(j)
    BY <1>1, <2>5, JobFields DEF EntitySave
  <2> QED
    BY <2>1, <2>2, <2>3, <2>4, <2>5
<1> QED
  BY <1>2, <1>3 DEF TypeOK

\* A job that starts, continues or ends keeps the table of jobs well typed.
LEMMA JobsType ==
    ASSUME TypeOK, NEW j \in Jobs, NEW job \in Job,
           Start(j, job) \/ Continue(j, job) \/ End(j)
    PROVE  jobs' \in [Jobs -> Job]
  BY DEF TypeOK, Start, Continue, End, IdleJob, Job

LEMMA IdleType == IdleJob \in Job
  BY DEF IdleJob, Job

\* An emitted event is an event when the contract's next state is one.
LEMMA EmitType ==
    ASSUME TypeOK, chain' \in Contract, NEW kind \in Change, Emit(kind)
    PROVE  events' \subseteq Event
  BY DEF TypeOK, Emit, Event

\* Taking up an update that somebody sends keeps every variable's type.
LEMMA UpdateType ==
    ASSUME TypeOK, NEW j \in Jobs, NEW state \in Sign, UpdateLoad(j, state)
    PROVE  TypeOK'
<1>1. [op |-> "update", snap |-> row, state |-> state] \in Job
  BY DEF UpdateLoad, TypeOK, Job
<1>2. jobs' \in [Jobs -> Job]
  BY <1>1, JobsType DEF UpdateLoad
<1> QED
  BY <1>2 DEF UpdateLoad, TypeOK

LEMMA TypeStep == TypeOK /\ [Next]_storeVars => TypeOK'
<1> SUFFICES ASSUME TypeOK, [Next]_storeVars
             PROVE  TypeOK'
  OBVIOUS
<1>1. ASSUME NEW j \in Jobs, OtherCall(j)
      PROVE  TypeOK'
  <2>1. CASE \E e \in Expiries, p \in Prices \cup {0}, both \in ExtendSigned :
                ExtendLoad(j, e, p, both)
    <3>1. PICK e \in Expiries, p \in Prices \cup {0}, both \in ExtendSigned :
             ExtendLoad(j, e, p, both)
      BY <2>1
    <3>2. [op |-> "extend", snap |-> row, expiration |-> e, price |-> p,
           stage |-> IF both THEN "sending" ELSE "sent"] \in Job
      <4>1. row \in Row /\ e \in Nat /\ p \in Nat
        BY <3>1, StoreAssumption DEF ExtendLoad, TypeOK
      <4>2. (IF both THEN "sending" ELSE "sent") \in TxStage
        BY DEF TxStage
      <4> QED
        BY <4>1, <4>2 DEF Job
    <3>3. jobs' \in [Jobs -> Job]
      BY <3>1, <3>2, JobsType DEF ExtendLoad
    <3> QED
      BY <3>1, <3>3 DEF ExtendLoad, TypeOK
  <2>2. CASE (\E postponed \in BOOLEAN : CheckpointLoad(j, postponed))
             \/ TerminateLoad(j) \/ RespondLoad(j)
    <3>1. PICK postponed \in BOOLEAN, op \in {"checkpoint", "terminate", "respond"} :
             /\ row # NoRow
             /\ Start(j, [op |-> op, snap |-> row, postponed |-> postponed,
                          stage |-> "sending"])
             /\ UNCHANGED <<row, chain, network, events, signed>>
      BY <2>2 DEF CheckpointLoad, TerminateLoad, RespondLoad
    <3>2. [op |-> op, snap |-> row, postponed |-> postponed, stage |-> "sending"]
             \in Job
      BY <3>1 DEF TypeOK, Job, TxStage
    <3>3. jobs' \in [Jobs -> Job]
      BY <3>1, <3>2, JobsType
    <3> QED
      BY <3>1, <3>3 DEF TypeOK
  <2>3. ASSUME NEW ev \in events, EventLoad(j, ev)
        PROVE  TypeOK'
    <3>1. [op |-> "event", snap |-> row, event |-> ev] \in Job
      BY <2>3 DEF EventLoad, TypeOK, Job, Event
    <3>2. jobs' \in [Jobs -> Job]
      BY <2>3, <3>1, JobsType DEF EventLoad
    <3> QED
      BY <2>3, <3>2 DEF EventLoad, TypeOK
  <2>4. ASSUME NEW ev \in events, OpenLoad(j, ev)
        PROVE  TypeOK'
    <3>1. PICK p \in Prices :
             Start(j, [op |-> "save", entity |-> FromContract(row, ev.at, p),
                       again |-> TRUE])
      BY <2>4 DEF OpenLoad
    <3>2. FromContract(row, ev.at, p) \in Row
      BY FromContractType, StoreAssumption DEF TypeOK, Event
    <3>3. [op |-> "save", entity |-> FromContract(row, ev.at, p), again |-> TRUE]
             \in Job
      BY <3>2 DEF Job
    <3>4. jobs' \in [Jobs -> Job]
      BY <3>1, <3>3, JobsType
    <3> QED
      BY <2>4, <3>4 DEF OpenLoad, TypeOK
  <2>5. CASE SyncContract(j)
    <3>1. [op |-> "sync", at |-> chain] \in Job
      BY DEF TypeOK, Job
    <3>2. jobs' \in [Jobs -> Job]
      BY <2>5, <3>1, JobsType DEF SyncContract
    <3> QED
      BY <2>5, <3>2 DEF SyncContract, TypeOK
  <2>6. CASE SyncNetwork(j)
    <3>1. PICK p \in Prices :
             Start(j, [op |-> "save", entity |-> FromNetwork(row, network, p),
                       again |-> FALSE])
      BY <2>6 DEF SyncNetwork
    <3>2. FromNetwork(row, network, p) \in Row
      BY FromNetworkType, StoreAssumption DEF TypeOK
    <3>3. [op |-> "save", entity |-> FromNetwork(row, network, p), again |-> FALSE]
             \in Job
      BY <3>2 DEF Job
    <3>4. jobs' \in [Jobs -> Job]
      BY <3>1, <3>3, JobsType
    <3> QED
      BY <2>6, <3>4 DEF SyncNetwork, TypeOK
  <2> QED
    BY <1>1, <2>1, <2>2, <2>3, <2>4, <2>5, <2>6 DEF OtherCall
<1>2. ASSUME NEW j \in Jobs, JobStep(j)
      PROVE  TypeOK'
  <2> DEFINE job == jobs[j]
             sent == [job EXCEPT !.stage = "sent"]
  <2>0. job \in Job
    BY DEF TypeOK
  <2>1. CASE UpdateSave(j) \/ ExtendSave(j) \/ SettleSave(j) \/ EventSave(j)
    <3>1. row' \in Row \cup {NoRow}
      BY <2>1, RowType
    <3>2. End(j) /\ UNCHANGED <<chain, network, events, signed>>
      BY <2>1 DEF UpdateSave, ExtendSave, SettleSave, EventSave
    <3>3. jobs' \in [Jobs -> Job]
      BY <3>2, IdleType, JobsType
    <3> QED
      BY <3>1, <3>2, <3>3 DEF TypeOK
  <2>2. CASE ExtendTx(j)
    <3>1. job.snap \in Row /\ job.expiration \in Nat /\ job.price \in Nat
          /\ job.op = "extend"
      BY <2>0, <2>2, JobFields DEF ExtendTx
    <3>2. sent \in Job
      BY <2>0, <3>1 DEF Job, TxStage
    <3>3. jobs' \in [Jobs -> Job]
      BY <2>2, <3>2, JobsType DEF ExtendTx
    <3>4. chain' \in Contract
      BY <2>2, <3>1 DEF ExtendTx, TypeOK, Contract
    <3>5. events' \subseteq Event
      BY <2>2, <3>4, EmitType DEF ExtendTx, Change
    <3> QED
      BY <2>2, <3>3, <3>4, <3>5 DEF ExtendTx, TypeOK
  <2>3. CASE SettleTx(j)
    <3>1. job.op \in {"checkpoint", "terminate", "respond"}
          /\ job.snap \in Row
      BY <2>0, <2>3, JobFields DEF SettleTx
    <3>2. sent \in Job
      BY <2>0, <3>1 DEF Job, TxStage
    <3>3. jobs' \in [Jobs -> Job]
      BY <2>3, <3>2, JobsType DEF SettleTx
    <3>4. Claim(job) \in Nat
      BY <3>1 DEF Claim, Row
    <3>5. PICK s \in Status :
             /\ chain' = [chain EXCEPT !.status = s, !.spent = Claim(job)]
             /\ Emit(IF s = "FINALIZED" THEN "finalize"
                     ELSE IF job.op = "terminate" THEN "terminate"
                     ELSE "checkpoint")
      BY <2>3 DEF SettleTx, Status
    <3>6. chain' \in Contract
      BY <3>4, <3>5 DEF TypeOK, Contract
    <3>7. events' \subseteq Event
      BY <3>5, <3>6, EmitType DEF Change
    <3> QED
      BY <2>3, <3>3, <3>6, <3>7 DEF SettleTx, TypeOK
  <2>4. CASE SkipTx(j)
    <3>1. sent \in Job
      BY <2>0, <2>4, JobFields DEF SkipTx, Job, TxStage
    <3>2. jobs' \in [Jobs -> Job]
      BY <2>4, <3>1, JobsType DEF SkipTx
    <3> QED
      BY <2>4, <3>2 DEF SkipTx, TypeOK
  <2>5. CASE SyncLoad(j)
    <3>1. PICK p \in Prices :
             Continue(j, [op |-> "save", entity |-> FromContract(row, job.at, p),
                          again |-> FALSE])
      BY <2>5 DEF SyncLoad
    <3>2. FromContract(row, job.at, p) \in Row
      BY <2>0, <2>5, JobFields, FromContractType, StoreAssumption
         DEF SyncLoad, TypeOK
    <3>3. [op |-> "save", entity |-> FromContract(row, job.at, p), again |-> FALSE]
             \in Job
      BY <3>2 DEF Job
    <3>4. jobs' \in [Jobs -> Job]
      BY <3>1, <3>3, JobsType
    <3> QED
      BY <2>5, <3>4 DEF SyncLoad, TypeOK
  <2>6. CASE EntitySave(j)
    <3>1. row' \in Row \cup {NoRow}
      BY <2>6, RowType
    <3>2. [job EXCEPT !.again = FALSE] \in Job
      BY <2>0, <2>6, JobFields DEF EntitySave, Job
    <3>3. jobs' \in [Jobs -> Job]
      BY <2>6, <3>2, IdleType, JobsType DEF EntitySave
    <3> QED
      BY <2>6, <3>1, <3>3 DEF EntitySave, TypeOK
  <2>7. CASE Throw(j)
    <3>1. jobs' \in [Jobs -> Job]
      BY <2>7, IdleType, JobsType DEF Throw
    <3> QED
      BY <2>7, <3>1 DEF Throw, TypeOK
  <2> QED
    BY <1>2, <2>1, <2>2, <2>3, <2>4, <2>5, <2>6, <2>7 DEF JobStep
<1>3. CASE SyncDelete
  BY <1>3 DEF SyncDelete, TypeOK
<1>4. CASE External
  <2>1. CASE Fund
    <3>1. chain' \in Contract
      BY <2>1 DEF Fund, TypeOK, Contract
    <3>2. events' \subseteq Event
      BY <2>1, <3>1, EmitType DEF Fund, Change
    <3> QED
      BY <2>1, <3>1, <3>2 DEF Fund, TypeOK
  <2>2. CASE ConsumerTerminate
    <3>1. chain' \in Contract
      <4>1. PICK v \in {s.spent : s \in signed} \cup {chain.spent} :
               chain' = [chain EXCEPT !.status = "TERMINATING", !.spent = v]
        BY <2>2 DEF ConsumerTerminate
      <4>2. v \in Nat
        BY DEF TypeOK, Sign, Contract
      <4> QED
        BY <4>1, <4>2 DEF TypeOK, Contract, Status
    <3>2. events' \subseteq Event
      BY <2>2, <3>1, EmitType DEF ConsumerTerminate, Change
    <3> QED
      BY <2>2, <3>1, <3>2 DEF ConsumerTerminate, TypeOK
  <2>3. CASE Finalize
    <3>1. chain' \in Contract
      BY <2>3 DEF Finalize, TypeOK, Contract, Status
    <3>2. events' \subseteq Event
      BY <2>3, <3>1, EmitType DEF Finalize, Change
    <3> QED
      BY <2>3, <3>1, <3>2 DEF Finalize, TypeOK
  <2>4. CASE NetworkCatchUp
    BY <2>4 DEF NetworkCatchUp, TypeOK
  <2>5. CASE \E ev \in events : EventLost(ev)
    BY <2>5 DEF EventLost, TypeOK
  <2> QED
    BY <1>4, <2>1, <2>2, <2>3, <2>4, <2>5 DEF External
<1>5. ASSUME NEW j \in Jobs, UpdateCall(j)
      PROVE  TypeOK'
  BY <1>5, UpdateType, StoreAssumption DEF UpdateCall, Sign
<1>6. CASE UNCHANGED storeVars
  BY <1>6 DEF storeVars, TypeOK
<1> QED
  BY <1>1, <1>2, <1>3, <1>4, <1>5, <1>6 DEF Next, OtherNext

\* Every reachable state is well typed, whatever the calls, amounts and bounds.
THEOREM TypeCorrect == Spec => []TypeOK
  BY InitType, TypeStep, PTL DEF Spec
-----------------------------------------------------------------------------
(* The inductive invariant.  The three safety properties are not inductive: *)
(* what a call has loaded may be saved at any later moment, so what they   *)
(* say of the row must hold of every entity waiting to be saved, and every *)
(* figure that a call took from the contract must be one that the contract *)
(* had reached.                                                            *)

Ahead(c, d) ==
    /\ Rank(c.status) <= Rank(d.status)
    /\ c.spent <= d.spent
    /\ c.total <= d.total
    /\ c.expiredAt <= d.expiredAt

Signed(r, sg) == r.remote > 0 => r.sign \in sg /\ r.sign.spent = r.remote

Verifies(r, c) ==
    (r.remote > 0 /\ c.status = "OPEN") =>
        r.sign = [spent |-> r.remote, final |-> r.lastFinal]

Lags(r, c) ==
    /\ Rank(r.status) <= Rank(c.status)
    /\ GasLimited \/ r.onchain <= c.spent
    /\ r.total <= c.total
    /\ ExtendsUnsigned \/ r.expiredAt <= c.expiredAt

EntityOK(r, c, sg) == Signed(r, sg) /\ Verifies(r, c) /\ Lags(r, c)

EventOK(ev, c) ==
    /\ Ahead(ev.at, c)
    /\ ev.kind = "terminate" => ev.at.status # "OPEN"
    /\ ev.kind = "finalize" => ev.at.status = "FINALIZED"

JobOK(job, c, sg) ==
    /\ job.op = "update" => job.state \in sg
    /\ (job.op = "extend" /\ job.stage = "sent") =>
          ExtendsUnsigned \/ job.expiration <= c.expiredAt
    /\ (job.op \in {"checkpoint", "terminate", "respond"} /\ job.stage = "sent") =>
          /\ GasLimited \/ Claim(job) <= c.spent
          /\ job.op # "checkpoint" => c.status # "OPEN"
    /\ job.op = "event" => EventOK(job.event, c)
    /\ job.op = "sync" => Ahead(job.at, c)
    /\ job.op = "save" => EntityOK(job.entity, c, sg)

IInv ==
    /\ row # NoRow => EntityOK(row, chain, signed)
    /\ \A j \in Jobs : JobOK(jobs[j], chain, signed)
    /\ \A ev \in events : EventOK(ev, chain)
    /\ Ahead(network, chain)

\* The three safety properties are what the invariant says of the row.
LEMMA IInvSafe ==
    IInv => SignsCoverRemote /\ OpenRowVerifies /\ NeverAheadOfContract
  BY DEF IInv, EntityOK, Signed, Verifies, Lags, SignsCoverRemote,
         OpenRowVerifies, NeverAheadOfContract

LEMMA RankType == \A s \in Status : Rank(s) \in Nat
  BY DEF Rank, Status

LEMMA RankOrder ==
    /\ \A s \in Status : s # "OPEN" => Rank("TERMINATING") <= Rank(s)
    /\ Rank("FINALIZED") <= Rank("FINALIZED")
  BY DEF Rank, Status

LEMMA AheadTransitive ==
    ASSUME NEW c \in Contract, NEW d \in Contract, NEW e \in Contract,
           Ahead(c, d), Ahead(d, e)
    PROVE  Ahead(c, e)
  BY RankType DEF Ahead, Contract

LEMMA AheadReflexive == \A c \in Contract : Ahead(c, c)
  BY RankType DEF Ahead, Contract

\* What holds of an entity, an event or a job goes on holding while the
\* contract advances and the consumer signs more.
LEMMA EntityGrows ==
    ASSUME NEW r \in Row, NEW c \in Contract, NEW d \in Contract,
           NEW sg, NEW sh, sg \subseteq sh, Ahead(c, d), EntityOK(r, c, sg)
    PROVE  EntityOK(r, d, sh)
<1>1. Signed(r, sh)
  BY DEF EntityOK, Signed
<1>2. d.status = "OPEN" => c.status = "OPEN"
  BY DEF Ahead, Rank, Contract, Status
<1>3. Verifies(r, d)
  BY <1>2 DEF EntityOK, Verifies
<1>4. Lags(r, d)
  BY RankType DEF EntityOK, Lags, Ahead, Row, Contract
<1> QED
  BY <1>1, <1>3, <1>4 DEF EntityOK

LEMMA EventGrows ==
    ASSUME NEW ev, ev.at \in Contract, NEW c \in Contract, NEW d \in Contract,
           Ahead(c, d), EventOK(ev, c)
    PROVE  EventOK(ev, d)
  BY AheadTransitive DEF EventOK

LEMMA ClaimType ==
    ASSUME NEW job \in Job, job.op \in {"checkpoint", "terminate", "respond"}
    PROVE  Claim(job) \in Nat
  BY JobFields DEF Claim, Row

LEMMA JobGrows ==
    ASSUME NEW job \in Job, NEW c \in Contract, NEW d \in Contract,
           NEW sg, NEW sh, sg \subseteq sh, Ahead(c, d), JobOK(job, c, sg)
    PROVE  JobOK(job, d, sh)
<1>1. job.op = "update" => job.state \in sh
  BY DEF JobOK
<1>2. job.op = "extend" /\ job.stage = "sent" =>
         ExtendsUnsigned \/ job.expiration <= d.expiredAt
  BY JobFields DEF JobOK, Ahead, Contract
<1>3. ASSUME job.op \in {"checkpoint", "terminate", "respond"}, job.stage = "sent"
      PROVE  /\ GasLimited \/ Claim(job) <= d.spent
             /\ job.op # "checkpoint" => d.status # "OPEN"
  <2>1. GasLimited \/ Claim(job) <= d.spent
    BY <1>3, ClaimType DEF JobOK, Ahead, Contract
  <2>2. job.op # "checkpoint" => d.status # "OPEN"
    BY <1>3 DEF JobOK, Ahead, Contract, Status, Rank
  <2> QED
    BY <2>1, <2>2
<1>4. job.op = "event" => EventOK(job.event, d)
  BY JobFields, EventGrows DEF JobOK
<1>5. job.op = "sync" => Ahead(job.at, d)
  BY JobFields, AheadTransitive DEF JobOK
<1>6. job.op = "save" => EntityOK(job.entity, d, sh)
  BY JobFields, EntityGrows DEF JobOK
<1> QED
  BY <1>1, <1>2, <1>3, <1>4, <1>5, <1>6 DEF JobOK

LEMMA IdleOK == \A c, sg : JobOK(IdleJob, c, sg)
  BY DEF JobOK, IdleJob

\* Synchronising with a state that the contract had reached.
LEMMA FromContractOK ==
    ASSUME NEW loaded \in Row \cup {NoRow}, NEW at \in Contract, NEW p \in Nat,
           NEW c \in Contract, NEW sg,
           loaded # NoRow => EntityOK(loaded, c, sg), Ahead(at, c)
    PROVE  EntityOK(FromContract(loaded, at, p), c, sg)
<1> DEFINE entity == IF loaded = NoRow THEN Fresh(at) ELSE loaded
           merged == [entity EXCEPT !.status = at.status, !.total = at.total,
                         !.onchain = at.spent,
                         !.price = IF @ = 0 THEN p ELSE @,
                         !.expiredAt = IF @ < at.expiredAt THEN at.expiredAt ELSE @]
<1>1. entity \in Row
  BY FreshType
<1>2. /\ Signed(entity, sg) /\ Verifies(entity, c)
      /\ ExtendsUnsigned \/ entity.expiredAt <= c.expiredAt
  <2>1. CASE loaded = NoRow
    <3>1. Fresh(at).remote = 0 /\ Fresh(at).expiredAt = 0
      BY DEF Fresh
    <3> QED
      BY <2>1, <3>1 DEF Signed, Verifies, Contract
  <2>2. CASE loaded # NoRow
    BY <2>2 DEF EntityOK, Lags
  <2> QED
    BY <2>1, <2>2
<1> HIDE DEF entity
<1>3. /\ merged.remote = entity.remote /\ merged.sign = entity.sign
      /\ merged.lastFinal = entity.lastFinal
      /\ merged.status = at.status /\ merged.total = at.total
      /\ merged.onchain = at.spent
      /\ merged.expiredAt \in {entity.expiredAt, at.expiredAt}
  BY <1>1 DEF Row
<1> HIDE DEF merged
<1>4. Signed(merged, sg) /\ Verifies(merged, c)
  BY <1>2, <1>3 DEF Signed, Verifies
<1>5. Lags(merged, c)
  BY <1>2, <1>3 DEF Lags, Ahead
<1>6. FromContract(loaded, at, p) = merged
  BY DEF FromContract, merged, entity
<1> QED
  BY <1>4, <1>5, <1>6 DEF EntityOK

\* The network's record is used when the contract has finalized the channel.
LEMMA FromNetworkOK ==
    ASSUME NEW loaded \in Row \cup {NoRow}, NEW at \in Contract, NEW p \in Nat,
           NEW c \in Contract, NEW sg, c.status = "FINALIZED",
           loaded # NoRow => EntityOK(loaded, c, sg), Ahead(at, c)
    PROVE  EntityOK(FromNetwork(loaded, at, p), c, sg)
<1> DEFINE base == IF loaded = NoRow THEN [Fresh(at) EXCEPT !.spent = 0] ELSE loaded
           kept == FromContract(base, at, p)
<1>1. base \in Row
  BY FreshType
<1>2. EntityOK(base, c, sg)
  <2>1. CASE loaded = NoRow
    BY <2>1, RankType
       DEF EntityOK, Signed, Verifies, Lags, Fresh, Ahead, Contract
  <2>2. CASE loaded # NoRow
    BY <2>2
  <2> QED
    BY <2>1, <2>2
<1> HIDE DEF base
<1>3. kept \in Row /\ EntityOK(kept, c, sg)
  BY <1>1, <1>2, FromContractType, FromContractOK
<1> HIDE DEF kept
<1>4. EntityOK([kept EXCEPT !.status = "FINALIZED", !.lastFinal = TRUE], c, sg)
  BY <1>3 DEF EntityOK, Signed, Verifies, Lags, Row, Rank
<1> QED
  BY <1>4 DEF FromNetwork, base, kept

LEMMA InitIInv == Init => IInv
<1> SUFFICES ASSUME Init
             PROVE  IInv
  OBVIOUS
<1>1. chain \in Contract /\ network = chain
  BY InitType DEF Init, TypeOK
<1>2. Ahead(network, chain)
  BY <1>1, AheadReflexive
<1>3. \A ev \in events : EventOK(ev, chain)
  BY <1>1, AheadReflexive DEF Init, EventOK
<1>4. \A j \in Jobs : JobOK(jobs[j], chain, signed)
  BY IdleOK DEF Init
<1> QED
  BY <1>2, <1>3, <1>4 DEF Init, IInv

\* The contract only advances, and what was signed stays signed.
LEMMA ChainGrows ==
    ASSUME TypeOK, TypeOK', [Next]_storeVars
    PROVE  Ahead(chain, chain') /\ signed \subseteq signed'
<1>1. chain \in Contract /\ chain' \in Contract
  BY DEF TypeOK
<1>2. CASE UNCHANGED chain /\ signed \subseteq signed'
  BY <1>1, <1>2, AheadReflexive
<1>3. ASSUME NEW j \in Jobs, UpdateCall(j) \/ OtherCall(j)
      PROVE  UNCHANGED chain /\ signed \subseteq signed'
  BY <1>3 DEF UpdateCall, OtherCall, UpdateLoad, ExtendLoad, CheckpointLoad, TerminateLoad,
              RespondLoad, EventLoad, OpenLoad, SyncContract, SyncNetwork
<1>4. ASSUME NEW j \in Jobs, JobStep(j)
      PROVE  Ahead(chain, chain') /\ signed \subseteq signed'
  <2>0. jobs[j] \in Job
    BY DEF TypeOK
  <2>1. CASE ExtendTx(j)
    <3>1. jobs[j].expiration \in Nat
      BY <2>0, <2>1, JobFields DEF ExtendTx
    <3> QED
      BY <1>1, <2>1, <3>1, RankType DEF ExtendTx, Ahead, Contract
  <2>2. CASE SettleTx(j)
    <3>1. PICK s \in Status :
             /\ chain' = [chain EXCEPT !.status = s, !.spent = Claim(jobs[j])]
             /\ s = "OPEN" => chain.status = "OPEN"
      BY <2>2 DEF SettleTx, Status
    <3>2. chain.status # "FINALIZED" /\ (s = "TERMINATING" => chain.status # "FINALIZED")
          /\ chain.spent <= Claim(jobs[j]) /\ UNCHANGED signed
      BY <2>2 DEF SettleTx, Verified
    <3>3. Rank(chain.status) <= Rank(s)
      BY <1>1, <3>1, <3>2 DEF Rank, Contract, Status
    <3>4. /\ chain'.status = s /\ chain'.spent = Claim(jobs[j])
          /\ chain'.total = chain.total /\ chain'.expiredAt = chain.expiredAt
      BY <1>1, <3>1 DEF Contract
    <3> QED
      BY <1>1, <3>2, <3>3, <3>4 DEF Ahead, Contract
  <2>3. CASE ~ExtendTx(j) /\ ~SettleTx(j)
    <3>1. UNCHANGED chain /\ signed \subseteq signed'
      BY <1>4, <2>3 DEF JobStep, UpdateSave, ExtendSave, SkipTx, SettleSave,
                        EventSave, SyncLoad, EntitySave, Throw
    <3> QED
      BY <1>2, <3>1
  <2> QED
    BY <2>1, <2>2, <2>3
<1>5. CASE SyncDelete
  BY <1>2, <1>5 DEF SyncDelete
<1>6. CASE External
  <2>1. CASE Fund
    BY <1>1, <2>1, RankType DEF Fund, Ahead, Contract
  <2>2. CASE ConsumerTerminate
    <3>1. PICK v \in {s.spent : s \in signed} \cup {chain.spent} :
             /\ chain.spent <= v
             /\ chain' = [chain EXCEPT !.status = "TERMINATING", !.spent = v]
      BY <2>2 DEF ConsumerTerminate
    <3>2. /\ chain.status = "OPEN" /\ chain'.status = "TERMINATING"
          /\ chain'.spent = v
          /\ chain'.total = chain.total /\ chain'.expiredAt = chain.expiredAt
      BY <1>1, <2>2, <3>1 DEF ConsumerTerminate, Contract
    <3> QED
      BY <1>1, <2>2, <3>1, <3>2 DEF ConsumerTerminate, Ahead, Contract, Rank
  <2>3. CASE Finalize
    <3>1. /\ chain'.status = "FINALIZED" /\ chain'.spent = chain.spent
          /\ chain'.total = chain.total /\ chain'.expiredAt = chain.expiredAt
      BY <1>1, <2>3 DEF Finalize, Contract
    <3>2. Rank(chain.status) <= Rank("FINALIZED")
      BY <1>1 DEF Contract, Status, Rank
    <3> QED
      BY <1>1, <2>3, <3>1, <3>2 DEF Finalize, Ahead, Contract
  <2>4. CASE NetworkCatchUp \/ \E ev \in events : EventLost(ev)
    BY <1>2, <2>4 DEF NetworkCatchUp, EventLost
  <2> QED
    BY <1>6, <2>1, <2>2, <2>3, <2>4 DEF External
<1>7. CASE UNCHANGED storeVars
  BY <1>2, <1>7 DEF storeVars
<1> QED
  BY <1>2, <1>3, <1>4, <1>5, <1>6, <1>7 DEF Next, OtherNext

\* A saved row satisfies the invariant when the job that saves it does.
LEMMA SavedRowOK ==
    ASSUME TypeOK, IInv, NEW j \in Jobs,
           UpdateSave(j) \/ ExtendSave(j) \/ SettleSave(j) \/ EventSave(j)
           \/ EntitySave(j)
    PROVE  row' # NoRow => EntityOK(row', chain, signed)
<1> DEFINE job == jobs[j]
<1>1. job \in Job /\ JobOK(job, chain, signed)
  BY DEF TypeOK, IInv
<1>2. CASE EntitySave(j)
  BY <1>1, <1>2 DEF EntitySave, JobOK
<1>3. CASE row = NoRow /\ ~EntitySave(j)
  BY <1>3 DEF UpdateSave, ExtendSave, SettleSave, EventSave, SaveFields
<1>4. CASE row # NoRow /\ ~EntitySave(j)
  <2>1. row \in Row /\ EntityOK(row, chain, signed) /\ chain \in Contract
    BY <1>4 DEF TypeOK, IInv
  <2>2. CASE UpdateSave(j)
    <3> DEFINE paid == [row EXCEPT !.spent = job.snap.spent + job.snap.price]
               full == [paid EXCEPT !.remote = job.state.spent,
                                    !.lastFinal = job.state.final,
                                    !.sign = job.state]
    <3>1. job.state \in Sign /\ job.state \in signed
      BY <1>1, <2>2, JobFields DEF UpdateSave, JobOK
    <3>2. /\ full.remote = job.state.spent /\ full.sign = job.state
          /\ full.lastFinal = job.state.final /\ full.status = row.status
          /\ full.onchain = row.onchain /\ full.total = row.total
          /\ full.expiredAt = row.expiredAt
      BY <2>1 DEF Row
    <3>3. /\ paid.remote = row.remote /\ paid.sign = row.sign
          /\ paid.lastFinal = row.lastFinal /\ paid.status = row.status
          /\ paid.onchain = row.onchain /\ paid.total = row.total
          /\ paid.expiredAt = row.expiredAt
      BY <2>1 DEF Row
    <3>4. row' \in {full, paid}
      BY <1>4, <2>2 DEF UpdateSave, SaveFields, Pay
    <3> HIDE DEF full, paid
    <3>5. job.state = [spent |-> job.state.spent, final |-> job.state.final]
      BY <3>1 DEF Sign
    <3>6. EntityOK(full, chain, signed)
      BY <2>1, <3>1, <3>2, <3>5 DEF EntityOK, Signed, Verifies, Lags
    <3>7. EntityOK(paid, chain, signed)
      BY <2>1, <3>3 DEF EntityOK, Signed, Verifies, Lags
    <3> QED
      BY <3>4, <3>6, <3>7
  <2>3. CASE ExtendSave(j)
    <3>1. ExtendsUnsigned \/ job.expiration <= chain.expiredAt
      BY <1>1, <2>3 DEF ExtendSave, JobOK
    <3>2. /\ row'.remote = row.remote /\ row'.sign = row.sign
          /\ row'.lastFinal = row.lastFinal /\ row'.status = row.status
          /\ row'.onchain = row.onchain /\ row'.total = row.total
          /\ row'.expiredAt \in {row.expiredAt, job.expiration}
      BY <1>4, <2>1, <2>3 DEF ExtendSave, SaveFields, Row
    <3> QED
      BY <2>1, <3>1, <3>2 DEF EntityOK, Signed, Verifies, Lags
  <2>4. CASE SettleSave(j)
    <3>1. /\ job.op \in {"checkpoint", "terminate", "respond"}
          /\ GasLimited \/ Claim(job) <= chain.spent
          /\ job.op # "checkpoint" => chain.status # "OPEN"
      BY <1>1, <2>4 DEF SettleSave, JobOK
    <3>2. /\ row'.remote = row.remote /\ row'.sign = row.sign
          /\ row'.total = row.total /\ row'.expiredAt = row.expiredAt
          /\ row'.onchain = Claim(job)
          /\ job.op = "checkpoint" => row'.lastFinal = row.lastFinal
          /\ \/ row'.status = row.status
             \/ row'.status = "TERMINATING" /\ chain.status # "OPEN"
      BY <1>4, <2>1, <2>4, <3>1 DEF SettleSave, SaveFields, Row
    <3>3. Rank(row'.status) <= Rank(chain.status)
      <4>1. CASE row'.status = row.status
        BY <2>1, <4>1 DEF EntityOK, Lags
      <4>2. CASE row'.status = "TERMINATING" /\ chain.status # "OPEN"
        BY <2>1, <4>2, RankOrder DEF Contract
      <4> QED
        BY <3>2, <4>1, <4>2
    <3> QED
      BY <2>1, <3>1, <3>2, <3>3 DEF EntityOK, Signed, Verifies, Lags
  <2>5. CASE EventSave(j)
    <3>1. /\ job.event.kind \in Change /\ job.event.at \in Contract
          /\ EventOK(job.event, chain)
      BY <1>1, <2>5, JobFields DEF EventSave, JobOK
    <3>2. /\ row'.remote = row.remote /\ row'.sign = row.sign
          /\ row'.total \in {row.total, job.event.at.total}
          /\ row'.expiredAt \in {row.expiredAt, job.event.at.expiredAt}
          /\ row'.onchain \in {row.onchain, job.event.at.spent}
          /\ job.event.kind \notin {"terminate", "finalize"} =>
                row'.lastFinal = row.lastFinal /\ row'.status = row.status
          /\ job.event.kind = "terminate" => row'.status = "TERMINATING"
          /\ job.event.kind = "finalize" => row'.status = "FINALIZED"
      BY <1>4, <2>1, <2>5, <3>1 DEF EventSave, SaveFields, Row, Change
    <3>3. /\ job.event.kind = "terminate" => chain.status # "OPEN"
          /\ job.event.kind = "finalize" => chain.status = "FINALIZED"
      BY <2>1, <3>1 DEF EventOK, Ahead, Rank, Contract, Status
    <3>4. Rank(row'.status) <= Rank(chain.status)
      <4>1. CASE job.event.kind \notin {"terminate", "finalize"}
        BY <2>1, <3>2, <4>1 DEF EntityOK, Lags
      <4>2. CASE job.event.kind \in {"terminate", "finalize"}
        BY <2>1, <3>2, <3>3, <4>2, RankOrder DEF Contract
      <4> QED
        BY <4>1, <4>2
    <3>5. /\ GasLimited \/ row'.onchain <= chain.spent
          /\ row'.total <= chain.total
          /\ ExtendsUnsigned \/ row'.expiredAt <= chain.expiredAt
      BY <2>1, <3>1, <3>2 DEF EntityOK, Lags, EventOK, Ahead
    <3>6. Signed(row', signed) /\ Verifies(row', chain)
      BY <2>1, <3>2, <3>3 DEF EntityOK, Signed, Verifies
    <3> QED
      BY <3>4, <3>5, <3>6 DEF EntityOK, Lags
  <2> QED
    BY <1>4, <2>2, <2>3, <2>4, <2>5
<1> QED
  BY <1>2, <1>3, <1>4

LEMMA IInvStep == TypeOK /\ TypeOK' /\ IInv /\ [Next]_storeVars => IInv'
<1> SUFFICES ASSUME TypeOK, TypeOK', IInv, [Next]_storeVars
             PROVE  IInv'
  OBVIOUS
<1>1. /\ chain \in Contract /\ chain' \in Contract
      /\ Ahead(chain, chain') /\ signed \subseteq signed'
  BY ChainGrows DEF TypeOK
\* Four steps say how each conjunct is kept by a step of the expected shape.
<1>2. ASSUME row' # NoRow => EntityOK(row', chain, signed)
      PROVE  row' # NoRow => EntityOK(row', chain', signed')
  BY <1>1, <1>2, EntityGrows DEF TypeOK
<1>3. ASSUME UNCHANGED row
      PROVE  row' # NoRow => EntityOK(row', chain', signed')
  BY <1>2, <1>3 DEF IInv
<1>4. ASSUME NEW j \in Jobs, NEW job \in Job, JobOK(job, chain', signed'),
             Start(j, job) \/ Continue(j, job) \/ End(j)
      PROVE  \A k \in Jobs : JobOK(jobs'[k], chain', signed')
  <2>1. ASSUME NEW k \in Jobs
        PROVE  JobOK(jobs'[k], chain', signed')
    <3>1. jobs'[k] \in {jobs[k], job, IdleJob}
      BY <1>4 DEF TypeOK, Start, Continue, End
    <3>2. JobOK(jobs[k], chain', signed')
      BY <1>1, JobGrows DEF TypeOK, IInv
    <3> QED
      BY <1>4, <3>1, <3>2, IdleOK
  <2> QED
    BY <2>1
<1>5. ASSUME UNCHANGED jobs
      PROVE  \A k \in Jobs : JobOK(jobs'[k], chain', signed')
  BY <1>1, <1>5, JobGrows DEF TypeOK, IInv
<1>6. \A ev \in events : EventOK(ev, chain')
  BY <1>1, EventGrows DEF TypeOK, IInv, Event
<1>7. ASSUME events' \subseteq events
      PROVE  \A ev \in events' : EventOK(ev, chain')
  BY <1>6, <1>7
<1>8. ASSUME NEW kind, Emit(kind),
             kind = "terminate" => chain'.status # "OPEN",
             kind = "finalize" => chain'.status = "FINALIZED"
      PROVE  \A ev \in events' : EventOK(ev, chain')
  <2>1. EventOK([kind |-> kind, at |-> chain'], chain')
    BY <1>1, <1>8, AheadReflexive DEF EventOK
  <2> QED
    BY <1>6, <1>8, <2>1 DEF Emit
<1>9. ASSUME network' \in {network, chain}
      PROVE  Ahead(network', chain')
  BY <1>1, <1>9, AheadTransitive DEF TypeOK, IInv
<1>10. ASSUME NEW j \in Jobs, UpdateCall(j) \/ OtherCall(j)
       PROVE  IInv'
  <2>1. UNCHANGED <<row, network>> /\ events' \subseteq events
    BY <1>10 DEF UpdateCall, OtherCall, UpdateLoad, ExtendLoad, CheckpointLoad, TerminateLoad,
                 RespondLoad, EventLoad, OpenLoad, SyncContract, SyncNetwork
  <2>2. \E job \in Job : Start(j, job) /\ JobOK(job, chain', signed')
    <3>0. jobs' \in [Jobs -> Job]
      BY DEF TypeOK
    <3>1. ASSUME NEW job, Start(j, job)
          PROVE  job \in Job
      BY <3>0, <3>1 DEF Start, TypeOK
    <3>2. CASE UpdateCall(j)
      BY <3>1, <3>2 DEF UpdateCall, UpdateLoad, JobOK
    <3>3. CASE \E e \in Expiries, p \in Prices \cup {0}, both \in ExtendSigned :
                  ExtendLoad(j, e, p, both)
      <4>1. PICK e \in Expiries, p \in Prices \cup {0}, both \in ExtendSigned :
               ExtendLoad(j, e, p, both)
        BY <3>3
      <4>2. both \in BOOLEAN /\ (~both => ExtendsUnsigned)
        BY <4>1, StoreAssumption DEF ExtendsUnsigned
      <4> DEFINE job == [op |-> "extend", snap |-> row, expiration |-> e, price |-> p,
                         stage |-> IF both THEN "sending" ELSE "sent"]
      <4>3. JobOK(job, chain', signed')
        BY <4>2 DEF JobOK
      <4>4. Start(j, job)
        BY <4>1 DEF ExtendLoad
      <4> QED
        BY <3>1, <4>3, <4>4
    <3>4. CASE (\E postponed \in BOOLEAN : CheckpointLoad(j, postponed))
               \/ TerminateLoad(j) \/ RespondLoad(j)
      <4>1. PICK postponed \in BOOLEAN, op \in {"checkpoint", "terminate", "respond"} :
               Start(j, [op |-> op, snap |-> row, postponed |-> postponed,
                         stage |-> "sending"])
        BY <3>4 DEF CheckpointLoad, TerminateLoad, RespondLoad
      <4> QED
        BY <3>1, <4>1 DEF JobOK
    <3>5. CASE \E ev \in events : EventLoad(j, ev)
      BY <3>1, <3>5, <1>6 DEF EventLoad, JobOK
    <3>6. ASSUME NEW ev \in events, OpenLoad(j, ev)
          PROVE  \E job \in Job : Start(j, job) /\ JobOK(job, chain', signed')
      <4>1. PICK p \in Prices :
               Start(j, [op |-> "save", entity |-> FromContract(row, ev.at, p),
                         again |-> TRUE])
        BY <3>6 DEF OpenLoad
      <4>2. EntityOK(FromContract(row, ev.at, p), chain', signed')
        <5>1. ev.at \in Contract /\ Ahead(ev.at, chain)
          BY DEF TypeOK, IInv, Event, EventOK
        <5>2. UNCHANGED <<chain, signed>>
          BY <3>6 DEF OpenLoad
        <5> QED
          BY <1>1, <5>1, <5>2, FromContractOK, StoreAssumption DEF TypeOK, IInv
      <4> QED
        BY <3>1, <4>1, <4>2 DEF JobOK
    <3>7. CASE SyncContract(j)
      BY <1>1, <3>1, <3>7, AheadReflexive DEF SyncContract, JobOK
    <3>8. CASE SyncNetwork(j)
      <4>1. PICK p \in Prices :
               Start(j, [op |-> "save", entity |-> FromNetwork(row, network, p),
                         again |-> FALSE])
        BY <3>8 DEF SyncNetwork
      <4>2. UNCHANGED <<chain, signed>> /\ chain.status = "FINALIZED"
        BY <3>8 DEF SyncNetwork
      <4>3. EntityOK(FromNetwork(row, network, p), chain', signed')
        BY <1>1, <4>2, FromNetworkOK, StoreAssumption DEF TypeOK, IInv
      <4> QED
        BY <3>1, <4>1, <4>3 DEF JobOK
    <3> QED
      BY <1>10, <3>2, <3>3, <3>4, <3>5, <3>6, <3>7, <3>8 DEF OtherCall
  <2> QED
    BY <1>3, <1>4, <1>7, <1>9, <2>1, <2>2 DEF IInv
<1>11. ASSUME NEW j \in Jobs, JobStep(j)
       PROVE  IInv'
  <2> DEFINE job == jobs[j]
             sent == [job EXCEPT !.stage = "sent"]
  <2>0. job \in Job /\ JobOK(job, chain, signed) /\ jobs' \in [Jobs -> Job]
    BY DEF TypeOK, IInv
  <2>1. ASSUME NEW next, Continue(j, next)
        PROVE  next \in Job
    BY <2>0, <2>1 DEF Continue, TypeOK
  <2>2. CASE UpdateSave(j) \/ ExtendSave(j) \/ SettleSave(j) \/ EventSave(j)
    <3>1. End(j) /\ UNCHANGED <<network, events>>
      BY <2>2 DEF UpdateSave, ExtendSave, SettleSave, EventSave
    <3> QED
      BY <1>2, <1>4, <1>7, <1>9, <2>2, <3>1, SavedRowOK, IdleOK, IdleType DEF IInv
  <2>3. CASE ExtendTx(j)
    <3>1. /\ job.op = "extend" /\ job.expiration \in Nat
          /\ chain'.expiredAt = job.expiration
          /\ Continue(j, sent) /\ Emit("extend") /\ UNCHANGED <<row, network>>
      BY <1>1, <2>0, <2>3, JobFields DEF ExtendTx, Contract
    <3>2. sent \in Job
      BY <2>1, <3>1
    <3>3. sent.op = "extend" /\ sent.expiration = job.expiration
      BY <2>0, <3>1 DEF Job
    <3>4. JobOK(sent, chain', signed')
      BY <3>1, <3>3 DEF JobOK
    <3> QED
      BY <1>3, <1>4, <1>8, <1>9, <3>1, <3>2, <3>4 DEF IInv
  <2>4. CASE SettleTx(j)
    <3>1. /\ job.op \in {"checkpoint", "terminate", "respond"}
          /\ Continue(j, sent) /\ UNCHANGED <<row, network>>
      BY <2>4 DEF SettleTx
    <3>2. PICK s \in Status :
             /\ chain' = [chain EXCEPT !.status = s, !.spent = Claim(job)]
             /\ s = "OPEN" => job.op = "checkpoint"
             /\ Emit(IF s = "FINALIZED" THEN "finalize"
                     ELSE IF job.op = "terminate" THEN "terminate"
                     ELSE "checkpoint")
      BY <2>4 DEF SettleTx, Status
    <3>3. chain'.status = s /\ chain'.spent = Claim(job)
      BY <1>1, <3>2 DEF Contract
    <3>4. sent \in Job
      BY <2>1, <3>1
    <3>5. sent.op = job.op /\ Claim(sent) = Claim(job)
      BY <2>0, <3>1 DEF Job, Claim
    <3>6. Claim(job) \in Nat
      BY <2>0, <3>1, ClaimType
    <3>7. JobOK(sent, chain', signed')
      BY <3>1, <3>2, <3>3, <3>5, <3>6 DEF JobOK
    <3>8. \A ev \in events' : EventOK(ev, chain')
      <4>1. s = "OPEN" => job.op # "terminate"
        BY <3>2
      <4> QED
        BY <1>8, <3>2, <3>3, <4>1
    <3> QED
      BY <1>3, <1>4, <1>9, <3>1, <3>4, <3>7, <3>8 DEF IInv
  <2>5. CASE SkipTx(j)
    <3>1. /\ job.op = "checkpoint" /\ GasLimited
          /\ Continue(j, sent) /\ UNCHANGED <<row, network, events>>
      BY <2>5 DEF SkipTx
    <3>2. sent \in Job
      BY <2>1, <3>1
    <3>3. sent.op = "checkpoint"
      BY <2>0, <3>1 DEF Job
    <3>4. JobOK(sent, chain', signed')
      BY <3>1, <3>3 DEF JobOK
    <3> QED
      BY <1>3, <1>4, <1>7, <1>9, <3>1, <3>2, <3>4 DEF IInv
  <2>6. CASE SyncLoad(j)
    <3>1. PICK p \in Prices :
             Continue(j, [op |-> "save", entity |-> FromContract(row, job.at, p),
                          again |-> FALSE])
      BY <2>6 DEF SyncLoad
    <3>2. job.op = "sync" /\ UNCHANGED <<row, chain, network, events, signed>>
      BY <2>6 DEF SyncLoad
    <3>3. job.at \in Contract /\ Ahead(job.at, chain)
      BY <2>0, <3>2, JobFields DEF JobOK
    <3>4. EntityOK(FromContract(row, job.at, p), chain', signed')
      BY <1>1, <3>2, <3>3, FromContractOK, StoreAssumption DEF TypeOK, IInv
    <3>5. JobOK([op |-> "save", entity |-> FromContract(row, job.at, p),
                 again |-> FALSE], chain', signed')
      BY <3>4 DEF JobOK
    <3> QED
      BY <1>3, <1>4, <1>7, <1>9, <2>1, <3>1, <3>2, <3>5 DEF IInv
  <2>7. CASE EntitySave(j)
    <3> DEFINE next == [job EXCEPT !.again = FALSE]
    <3>1. /\ job.op = "save"
          /\ (Continue(j, next) \/ End(j))
          /\ UNCHANGED <<chain, network, events, signed>>
      BY <2>7 DEF EntitySave
    <3>2. next \in Job /\ next.op = "save" /\ next.entity = job.entity
      BY <2>0, <2>7, JobFields DEF EntitySave, Job
    <3>3. JobOK(next, chain', signed')
      BY <2>0, <2>7, <3>1, <3>2 DEF EntitySave, JobOK
    <3> QED
      BY <1>2, <1>4, <1>7, <1>9, <2>7, <3>1, <3>2, <3>3, SavedRowOK DEF IInv
  <2>8. CASE Throw(j)
    <3>1. End(j) /\ UNCHANGED <<row, network, events>>
      BY <2>8 DEF Throw
    <3> QED
      BY <1>3, <1>4, <1>7, <1>9, <3>1, IdleOK, IdleType DEF IInv
  <2> QED
    BY <1>11, <2>2, <2>3, <2>4, <2>5, <2>6, <2>7, <2>8 DEF JobStep
<1>12. CASE SyncDelete
  BY <1>2, <1>5, <1>7, <1>9, <1>12 DEF SyncDelete, IInv
<1>13. CASE External
  <2>1. UNCHANGED <<row, jobs>> /\ network' \in {network, chain}
    BY <1>13 DEF External, Fund, ConsumerTerminate, Finalize, NetworkCatchUp,
                 EventLost
  <2>2. \A ev \in events' : EventOK(ev, chain')
    <3>1. CASE Fund
      BY <1>8, <3>1 DEF Fund
    <3>2. CASE ConsumerTerminate
      <4>1. chain'.status = "TERMINATING" /\ Emit("terminate")
        BY <1>1, <3>2 DEF ConsumerTerminate, Contract
      <4> QED
        BY <1>8, <4>1
    <3>3. CASE Finalize
      <4>1. chain'.status = "FINALIZED" /\ Emit("finalize")
        BY <1>1, <3>3 DEF Finalize, Contract
      <4> QED
        BY <1>8, <4>1
    <3>4. CASE NetworkCatchUp \/ \E ev \in events : EventLost(ev)
      BY <1>7, <3>4 DEF NetworkCatchUp, EventLost
    <3> QED
      BY <1>13, <3>1, <3>2, <3>3, <3>4 DEF External
  <2> QED
    BY <1>3, <1>5, <1>9, <2>1, <2>2 DEF IInv
<1>14. CASE UNCHANGED storeVars
  BY <1>3, <1>5, <1>7, <1>9, <1>14 DEF storeVars, IInv
<1> QED
  BY <1>10, <1>11, <1>12, <1>13, <1>14 DEF Next, OtherNext

\* The invariant, and what a reader should know of it.
THEOREM Inductive == Spec => []IInv
  BY InitIInv, IInvStep, TypeCorrect, PTL DEF Spec

\* The stored signatures always prove the stored amount (payg.service.ts 362-367).
THEOREM SignaturesSafe == Spec => []SignsCoverRemote
  BY Inductive, IInvSafe, PTL

\* An open channel can always be settled with what the row holds.
THEOREM OpenRowSafe == Spec => []OpenRowVerifies
  BY Inductive, IInvSafe, PTL

\* The row never runs ahead of the contract, whatever stale data is saved.
THEOREM RowBehindContract == Spec => []NeverAheadOfContract
  BY Inductive, IInvSafe, PTL
-----------------------------------------------------------------------------
(* Payg: the row that the proxy's updates make is the row that the proxy's *)
(* account assumes.  The amounts of the row, of every call that is on its  *)
(* way, of the contract, of every task and of every update are among those *)
(* that came with a signature, the figures of hist.signed.                 *)

Known(r, s) == r.remote \in s /\ (r.sign # NoSign => r.sign.spent \in s)

RowKnown(r, s) == r # NoRow => Known(r, s)

JobKnown(job, s) ==
    /\ job.op = "update" => job.state.spent \in s
    /\ job.op \in {"checkpoint", "terminate", "respond"} => Known(job.snap, s)
    /\ job.op = "save" => Known(job.entity, s)

StoreKnown(r, js, c, sg, s) ==
    /\ 0 \in s /\ c.spent \in s
    /\ RowKnown(r, s)
    /\ \A j \in Jobs : JobKnown(js[j], s)
    /\ \A x \in sg : x.spent \in s

\* What a task has signed, if it has.
TaskKnown(t, s) ==
    t.pc \in {"single", "pay", "paid"} => t.spent \in Amounts \cap s /\ t.final \in BOOLEAN

\* A payment keeps its amount while it asks the coordinator.
PayShape(t) ==
    t.pc = "pay" =>
        t = [pc |-> "pay", snap |-> t.snap, spent |-> t.spent, final |-> t.final]

ProxyKnown(ts, ob, h) ==
    /\ DOMAIN ts = Handlers
    /\ \A k \in Handlers : TaskKnown(ts[k], h.signed) /\ PayShape(ts[k])
    /\ ob \in [Cache!Update -> Nat]
    /\ \A m \in Cache!Update : ob[m] > 0 => m.spent \in h.signed
    /\ h = [signed |-> h.signed, bill |-> h.bill, ceiling |-> h.ceiling, gap |-> h.gap]

PaygInv ==
    /\ TypeOK /\ past \in BOOLEAN
    /\ StoreKnown(row, jobs, chain, signed, hist.signed)
    /\ ProxyKnown(tasks, outbox, hist)

LEMMA FromContractKnown ==
    ASSUME NEW s, 0 \in s, NEW r \in Row \cup {NoRow}, RowKnown(r, s),
           NEW at \in Contract, NEW p \in Nat
    PROVE  Known(FromContract(r, at, p), s)
<1> DEFINE entity == IF r = NoRow THEN Fresh(at) ELSE r
<1>1. entity \in Row /\ Known(entity, s)
  BY FreshType DEF Known, RowKnown, Fresh
<1> HIDE DEF entity
<1>2. LET e == [entity EXCEPT !.status = at.status, !.total = at.total,
                     !.onchain = at.spent,
                     !.price = IF @ = 0 THEN p ELSE @,
                     !.expiredAt = IF @ < at.expiredAt THEN at.expiredAt ELSE @]
      IN  e.remote = entity.remote /\ e.sign = entity.sign
  BY <1>1 DEF Row
<1>3. FromContract(r, at, p).remote = entity.remote
      /\ FromContract(r, at, p).sign = entity.sign
  BY <1>2 DEF FromContract, entity
<1> QED
  BY <1>1, <1>3 DEF Known

LEMMA FromNetworkKnown ==
    ASSUME NEW s, 0 \in s, NEW r \in Row \cup {NoRow}, RowKnown(r, s),
           NEW at \in Contract, NEW p \in Nat
    PROVE  Known(FromNetwork(r, at, p), s)
<1> DEFINE base == IF r = NoRow THEN [Fresh(at) EXCEPT !.spent = 0] ELSE r
           merged == FromContract(base, at, p)
<1>1. base \in Row \cup {NoRow} /\ RowKnown(base, s)
  BY FreshType DEF RowKnown, Known, Fresh
<1> HIDE DEF base
<1>2. merged \in Row /\ Known(merged, s)
  BY <1>1, FromContractType, FromContractKnown
<1> HIDE DEF merged
<1>3. Known([merged EXCEPT !.status = "FINALIZED", !.lastFinal = TRUE], s)
  BY <1>2 DEF Known, Row
<1> QED
  BY <1>3 DEF FromNetwork, base, merged

\* What a verified settlement claims is a signed amount, or nothing.
LEMMA ClaimKnown ==
    ASSUME NEW s, 0 \in s, NEW job \in Job, JobKnown(job, s), Verified(job),
           job.op \in {"checkpoint", "terminate", "respond"}
    PROVE  Claim(job) \in s
<1>1. job.snap \in Row /\ Claim(job) \in Nat /\ Known(job.snap, s)
  BY JobFields, ClaimType DEF JobKnown
<1>2. CASE job.snap.sign = [spent |-> Claim(job), final |-> job.snap.lastFinal]
  <2>1. job.snap.sign \in Sign
    BY <1>1, <1>2 DEF Sign, Row
  <2>2. job.snap.sign # NoSign
    BY <2>1, StoreAssumption
  <2>3. job.snap.sign.spent = Claim(job)
    BY <1>2
  <2> QED
    BY <1>1, <2>2, <2>3 DEF Known
<1>3. CASE job.op = "terminate" /\ Claim(job) = 0
  BY <1>3
<1> QED
  BY <1>2, <1>3 DEF Verified

\* A call that saves leaves known figures in the row.
LEMMA SavedRowKnown ==
    ASSUME TypeOK, NEW s, RowKnown(row, s), NEW j \in Jobs, JobKnown(jobs[j], s),
           UpdateSave(j) \/ ExtendSave(j) \/ SettleSave(j) \/ EventSave(j)
           \/ EntitySave(j)
    PROVE  RowKnown(row', s)
<1> DEFINE job == jobs[j]
<1>1. job \in Job
  BY DEF TypeOK
<1>2. CASE EntitySave(j)
  BY <1>2 DEF EntitySave, JobKnown, RowKnown
<1>3. CASE row = NoRow /\ ~EntitySave(j)
  BY <1>3 DEF UpdateSave, ExtendSave, SettleSave, EventSave, SaveFields, RowKnown
<1>4. CASE row # NoRow /\ ~EntitySave(j)
  <2>1. row \in Row /\ Known(row, s)
    BY <1>4 DEF TypeOK, RowKnown
  <2>2. CASE UpdateSave(j)
    <3>1. job.snap \in Row /\ job.state \in Sign /\ job.state.spent \in s
      BY <1>1, <2>2, JobFields DEF UpdateSave, JobKnown
    <3> DEFINE paid == [row EXCEPT !.spent = job.snap.spent + job.snap.price]
    <3>2. paid \in Row /\ Known(paid, s)
      BY <2>1, <3>1 DEF Row, Known
    <3> HIDE DEF paid
    <3>3. Known(Pay(paid, job.state), s)
      BY <3>1, <3>2 DEF Known, Pay, Row
    <3>4. row' \in {Pay(paid, job.state), paid}
      BY <1>4, <2>2 DEF UpdateSave, SaveFields, paid
    <3> QED
      BY <3>2, <3>3, <3>4 DEF RowKnown
  <2>3. CASE ExtendSave(j) \/ SettleSave(j) \/ EventSave(j)
    <3>1. row'.remote = row.remote /\ row'.sign = row.sign
      <4>1. CASE ExtendSave(j)
        BY <1>4, <2>1, <4>1 DEF ExtendSave, SaveFields, Row
      <4>2. CASE SettleSave(j)
        BY <1>4, <2>1, <4>2 DEF SettleSave, SaveFields, Row
      <4>3. CASE EventSave(j)
        <5>1. job.event.kind \in Change
          BY <1>1, <4>3, JobFields DEF EventSave
        <5> QED
          BY <1>4, <2>1, <4>3, <5>1 DEF EventSave, SaveFields, Row, Change
      <4> QED
        BY <2>3, <4>1, <4>2, <4>3
    <3> QED
      BY <2>1, <3>1 DEF Known, RowKnown
  <2> QED
    BY <1>4, <2>2, <2>3
<1> QED
  BY <1>2, <1>3, <1>4

LEMMA IdleKnown == \A s : JobKnown(IdleJob, s)
  BY DEF JobKnown, IdleJob

\* A job that starts, continues or ends leaves known figures in all jobs.
LEMMA JobsKnown ==
    ASSUME TypeOK, NEW s, \A k \in Jobs : JobKnown(jobs[k], s),
           NEW j \in Jobs, NEW job, JobKnown(job, s),
           Start(j, job) \/ Continue(j, job) \/ End(j)
    PROVE  \A k \in Jobs : JobKnown(jobs'[k], s)
<1>1. \A k \in Jobs : jobs'[k] \in {jobs[k], job, IdleJob}
  BY DEF TypeOK, Start, Continue, End
<1> QED
  BY <1>1, IdleKnown

\* The coordinator's and the contract's own steps bring in no other figure.
LEMMA OtherStepKnown ==
    ASSUME TypeOK, TypeOK', NEW s, StoreKnown(row, jobs, chain, signed, s), OtherNext
    PROVE  StoreKnown(row', jobs', chain', signed', s)
<1>1. /\ 0 \in s /\ chain.spent \in s
      /\ RowKnown(row, s)
      /\ \A j \in Jobs : JobKnown(jobs[j], s)
      /\ \A x \in signed : x.spent \in s
  BY DEF StoreKnown
<1>2. ASSUME NEW j \in Jobs, OtherCall(j)
      PROVE  StoreKnown(row', jobs', chain', signed', s)
  <2>1. UNCHANGED <<row, chain, signed>>
    BY <1>2 DEF OtherCall, ExtendLoad, CheckpointLoad, TerminateLoad, RespondLoad,
                EventLoad, OpenLoad, SyncContract, SyncNetwork
  <2>2. \E job : Start(j, job) /\ JobKnown(job, s)
    <3>1. CASE \E e \in Expiries, p \in Prices \cup {0}, both \in ExtendSigned :
                  ExtendLoad(j, e, p, both)
      BY <3>1 DEF ExtendLoad, JobKnown
    <3>2. CASE (\E postponed \in BOOLEAN : CheckpointLoad(j, postponed))
               \/ TerminateLoad(j) \/ RespondLoad(j)
      <4>1. PICK postponed \in BOOLEAN, op \in {"checkpoint", "terminate", "respond"} :
               /\ row # NoRow
               /\ Start(j, [op |-> op, snap |-> row, postponed |-> postponed,
                            stage |-> "sending"])
        BY <3>2 DEF CheckpointLoad, TerminateLoad, RespondLoad
      <4> QED
        BY <1>1, <4>1 DEF JobKnown, RowKnown
    <3>3. CASE \E ev \in events : EventLoad(j, ev)
      BY <3>3 DEF EventLoad, JobKnown
    <3>4. ASSUME NEW ev \in events, OpenLoad(j, ev)
          PROVE  \E job : Start(j, job) /\ JobKnown(job, s)
      <4>1. PICK p \in Prices :
               Start(j, [op |-> "save", entity |-> FromContract(row, ev.at, p),
                         again |-> TRUE])
        BY <3>4 DEF OpenLoad
      <4>2. Known(FromContract(row, ev.at, p), s)
        BY <1>1, FromContractKnown, StoreAssumption DEF TypeOK, Event
      <4> QED
        BY <4>1, <4>2 DEF JobKnown
    <3>5. CASE SyncContract(j)
      BY <3>5 DEF SyncContract, JobKnown
    <3>6. CASE SyncNetwork(j)
      <4>1. PICK p \in Prices :
               Start(j, [op |-> "save", entity |-> FromNetwork(row, network, p),
                         again |-> FALSE])
        BY <3>6 DEF SyncNetwork
      <4>2. Known(FromNetwork(row, network, p), s)
        BY <1>1, FromNetworkKnown, StoreAssumption DEF TypeOK
      <4> QED
        BY <4>1, <4>2 DEF JobKnown
    <3> QED
      BY <1>2, <3>1, <3>2, <3>3, <3>4, <3>5, <3>6 DEF OtherCall
  <2>3. \A k \in Jobs : JobKnown(jobs'[k], s)
    BY <1>1, <2>2, JobsKnown
  <2> QED
    BY <1>1, <2>1, <2>3 DEF StoreKnown
<1>3. ASSUME NEW j \in Jobs, JobStep(j)
      PROVE  StoreKnown(row', jobs', chain', signed', s)
  <2> DEFINE job == jobs[j]
             sent == [job EXCEPT !.stage = "sent"]
  <2>1. job \in Job /\ JobKnown(job, s)
    BY <1>1 DEF TypeOK
  <2>2. ASSUME job.op \in {"extend", "checkpoint", "terminate", "respond"},
               Continue(j, sent)
        PROVE  \A k \in Jobs : JobKnown(jobs'[k], s)
    <3>1. sent.op = job.op /\ sent.snap = job.snap
      BY <2>1, <2>2 DEF Job
    <3>2. JobKnown(sent, s)
      BY <2>1, <2>2, <3>1 DEF JobKnown
    <3> QED
      BY <1>1, <2>2, <3>2, JobsKnown
  <2>3. ASSUME End(j)
        PROVE  \A k \in Jobs : JobKnown(jobs'[k], s)
    BY <1>1, <2>3, IdleKnown, JobsKnown
  <2>4. CASE UpdateSave(j) \/ ExtendSave(j) \/ SettleSave(j) \/ EventSave(j)
    <3>1. End(j) /\ UNCHANGED <<chain, signed>>
      BY <2>4 DEF UpdateSave, ExtendSave, SettleSave, EventSave
    <3>2. RowKnown(row', s)
      BY <1>1, <2>1, <2>4, SavedRowKnown
    <3> QED
      BY <1>1, <2>3, <3>1, <3>2 DEF StoreKnown
  <2>5. CASE ExtendTx(j)
    <3>1. job.op = "extend" /\ Continue(j, sent) /\ UNCHANGED <<row, signed>>
      BY <2>5 DEF ExtendTx
    <3>2. chain'.spent = chain.spent
      BY <2>5 DEF ExtendTx, TypeOK, Contract
    <3> QED
      BY <1>1, <2>2, <3>1, <3>2 DEF StoreKnown
  <2>6. CASE SettleTx(j)
    <3>1. /\ job.op \in {"checkpoint", "terminate", "respond"} /\ Verified(job)
          /\ Continue(j, sent) /\ UNCHANGED <<row, signed>>
      BY <2>6 DEF SettleTx
    <3>2. chain'.spent = Claim(job)
      BY <2>6 DEF SettleTx, TypeOK, Contract
    <3>3. Claim(job) \in s
      BY <1>1, <2>1, <3>1, ClaimKnown
    <3> QED
      BY <1>1, <2>2, <3>1, <3>2, <3>3 DEF StoreKnown
  <2>7. CASE SkipTx(j)
    <3>1. job.op = "checkpoint" /\ Continue(j, sent) /\ UNCHANGED <<row, chain, signed>>
      BY <2>7 DEF SkipTx
    <3> QED
      BY <1>1, <2>2, <3>1 DEF StoreKnown
  <2>8. CASE SyncLoad(j)
    <3>1. job.op = "sync" /\ UNCHANGED <<row, chain, signed>>
      BY <2>8 DEF SyncLoad
    <3>2. PICK p \in Prices :
             Continue(j, [op |-> "save", entity |-> FromContract(row, job.at, p),
                          again |-> FALSE])
      BY <2>8 DEF SyncLoad
    <3>3. Known(FromContract(row, job.at, p), s)
      BY <1>1, <2>1, <3>1, JobFields, FromContractKnown, StoreAssumption DEF TypeOK
    <3>4. \A k \in Jobs : JobKnown(jobs'[k], s)
      BY <1>1, <3>2, <3>3, JobsKnown DEF JobKnown
    <3> QED
      BY <1>1, <3>1, <3>4 DEF StoreKnown
  <2>9. CASE EntitySave(j)
    <3> DEFINE next == [job EXCEPT !.again = FALSE]
    <3>1. /\ job.op = "save"
          /\ Continue(j, next) \/ End(j)
          /\ UNCHANGED <<chain, signed>>
      BY <2>9 DEF EntitySave
    <3>2. next.op = "save" /\ next.entity = job.entity
      BY <2>1, <3>1 DEF Job
    <3>3. JobKnown(next, s)
      BY <2>1, <3>1, <3>2 DEF JobKnown
    <3>4. \A k \in Jobs : JobKnown(jobs'[k], s)
      BY <1>1, <3>1, <3>3, JobsKnown
    <3>5. RowKnown(row', s)
      BY <1>1, <2>1, <2>9, SavedRowKnown
    <3> QED
      BY <1>1, <3>1, <3>4, <3>5 DEF StoreKnown
  <2>10. CASE Throw(j)
    <3>1. End(j) /\ UNCHANGED <<row, chain, signed>>
      BY <2>10 DEF Throw
    <3> QED
      BY <1>1, <2>3, <3>1 DEF StoreKnown
  <2> QED
    BY <1>3, <2>4, <2>5, <2>6, <2>7, <2>8, <2>9, <2>10 DEF JobStep
<1>4. CASE SyncDelete
  BY <1>1, <1>4 DEF SyncDelete, StoreKnown, RowKnown
<1>5. CASE External
  <2>1. UNCHANGED <<row, jobs, signed>>
    BY <1>5 DEF External, Fund, ConsumerTerminate, Finalize, NetworkCatchUp, EventLost
  <2>2. chain'.spent \in s
    <3>1. CASE Fund \/ Finalize
      BY <1>1, <3>1 DEF Fund, Finalize, TypeOK, Contract
    <3>2. CASE ConsumerTerminate
      BY <1>1, <3>2 DEF ConsumerTerminate, TypeOK, Contract
    <3>3. CASE NetworkCatchUp \/ \E ev \in events : EventLost(ev)
      BY <1>1, <3>3 DEF NetworkCatchUp, EventLost
    <3> QED
      BY <1>5, <3>1, <3>2, <3>3 DEF External
  <2> QED
    BY <1>1, <2>1, <2>2 DEF StoreKnown
<1> QED
  BY <1>2, <1>3, <1>4, <1>5 DEF OtherNext

\* Taking up an update whose amount is known.
LEMMA UpdateKnown ==
    ASSUME TypeOK, NEW s, StoreKnown(row, jobs, chain, signed, s),
           NEW j \in Jobs, NEW state \in Sign, state.spent \in s, UpdateLoad(j, state)
    PROVE  StoreKnown(row', jobs', chain', signed', s)
<1>1. JobKnown([op |-> "update", snap |-> row, state |-> state], s)
  BY DEF JobKnown
<1>2. \A k \in Jobs : JobKnown(jobs'[k], s)
  BY <1>1, JobsKnown DEF UpdateLoad, StoreKnown
<1> QED
  BY <1>2 DEF UpdateLoad, StoreKnown

\* More signatures leave known what is known.
LEMMA StoreKnownGrows ==
    ASSUME NEW s, NEW t, s \subseteq t, StoreKnown(row, jobs, chain, signed, s)
    PROVE  StoreKnown(row, jobs, chain, signed, t)
  BY DEF StoreKnown, RowKnown, JobKnown, Known

\* The proxy signs before it sends, and its history only grows.
LEMMA ProxyStepKnown ==
    ASSUME ProxyKnown(tasks, outbox, hist), ProxyStep
    PROVE  /\ ProxyKnown(tasks', outbox', hist')
           /\ hist.signed \subseteq hist'.signed
<1>1. ASSUME NEW h \in Handlers, Cache!Request(h)
      PROVE  /\ ProxyKnown(tasks', outbox', hist')
             /\ hist.signed \subseteq hist'.signed
  <2>1. CASE \E v \in Amounts, final \in BOOLEAN, u \in UnitCosts :
                Cache!BeginSingle(h, v, final, u)
    <3>1. PICK v \in Amounts, final \in BOOLEAN :
             /\ \E snap, cost : tasks' =
                   [tasks EXCEPT ![h] = [pc |-> "single", snap |-> snap,
                                         spent |-> v, final |-> final, cost |-> cost]]
             /\ hist' = [hist EXCEPT !.signed = @ \cup {v}]
             /\ UNCHANGED outbox
      BY <2>1 DEF Cache!BeginSingle
    <3>2. PICK snap, cost : tasks' =
             [tasks EXCEPT ![h] = [pc |-> "single", snap |-> snap,
                                   spent |-> v, final |-> final, cost |-> cost]]
      BY <3>1
    <3> QED
      BY <3>1, <3>2 DEF ProxyKnown, TaskKnown, PayShape
  <2>2. CASE \E start, end \in Amounts, u \in UnitCosts :
                Cache!BeginMultiple(h, start, end, u)
    <3>1. PICK snap, cost :
             /\ tasks' = [tasks EXCEPT ![h] = [pc |-> "multiple", cost |-> cost,
                                               snap |-> snap]]
             /\ UNCHANGED <<outbox, hist>>
      BY <2>2 DEF Cache!BeginMultiple
    <3> QED
      BY <3>1 DEF ProxyKnown, TaskKnown, PayShape
  <2>3. CASE \E v \in Amounts, final \in BOOLEAN : Cache!BeginPay(h, v, final)
    <3>1. PICK v \in Amounts, final \in BOOLEAN :
             /\ tasks' = [tasks EXCEPT ![h] = [pc |-> "pay", snap |-> cache,
                                               spent |-> v, final |-> final]]
             /\ hist' = [hist EXCEPT !.signed = @ \cup {v}]
             /\ UNCHANGED outbox
      BY <2>3 DEF Cache!BeginPay
    <3> QED
      BY <3>1 DEF ProxyKnown, TaskKnown, PayShape
  <2> QED
    BY <1>1, <2>1, <2>2, <2>3 DEF Cache!Request
<1>2. ASSUME NEW h \in Handlers, Cache!TaskStep(h)
      PROVE  /\ ProxyKnown(tasks', outbox', hist')
             /\ hist.signed \subseteq hist'.signed
  <2> DEFINE t == tasks[h]
             m == [spent |-> t.spent, final |-> t.final]
  <2>1. CASE Cache!PostSingle(h) \/ Cache!PostPay(h)
    <3>1. /\ t.pc \in {"single", "paid"} /\ Cache!Spawn(m) /\ Cache!Done(h)
          /\ hist' = hist \/ hist' = [hist EXCEPT !.bill = @ + t.snap.price]
      BY <2>1 DEF Cache!PostSingle, Cache!PostPay
    <3>2. m \in Cache!Update /\ m.spent \in hist.signed
      BY <3>1 DEF ProxyKnown, TaskKnown, Cache!Update
    <3>3. /\ outbox' \in [Cache!Update -> Nat]
          /\ \A k \in Cache!Update : outbox'[k] > 0 => k.spent \in hist.signed
      BY <3>1, <3>2 DEF ProxyKnown, Cache!Spawn
    <3>4. tasks' = [tasks EXCEPT ![h] = Cache!IdleTask]
      BY <3>1 DEF Cache!Done
    <3>5. hist'.signed = hist.signed
          /\ hist' = [signed |-> hist'.signed, bill |-> hist'.bill,
                      ceiling |-> hist'.ceiling, gap |-> hist'.gap]
      BY <3>1 DEF ProxyKnown
    <3> QED
      BY <3>3, <3>4, <3>5 DEF ProxyKnown, TaskKnown, PayShape, Cache!IdleTask
  <2>2. CASE Cache!PostMultiple(h)
    <3>1. /\ Cache!Done(h) /\ UNCHANGED outbox
          /\ hist' = [hist EXCEPT !.bill = @ + t.cost]
      BY <2>2 DEF Cache!PostMultiple
    <3> QED
      BY <3>1 DEF ProxyKnown, TaskKnown, PayShape, Cache!Done, Cache!IdleTask
  <2>3. CASE Cache!PayFetched(h)
    <3>1. /\ t.pc = "pay" /\ UNCHANGED <<outbox, hist>>
          /\ Cache!Done(h) \/ tasks' = [tasks EXCEPT ![h].pc = "paid"]
      BY <2>3 DEF Cache!PayFetched
    <3>2. CASE Cache!Done(h)
      BY <3>1, <3>2 DEF ProxyKnown, TaskKnown, PayShape, Cache!Done, Cache!IdleTask
    <3>3. CASE tasks' = [tasks EXCEPT ![h].pc = "paid"]
      <4>1. tasks'[h] = [t EXCEPT !.pc = "paid"]
        BY <3>3 DEF ProxyKnown
      <4>2. t = [pc |-> "pay", snap |-> t.snap, spent |-> t.spent, final |-> t.final]
        BY <3>1 DEF ProxyKnown, PayShape
      <4>3. /\ tasks'[h].pc = "paid" /\ tasks'[h].spent = t.spent
            /\ tasks'[h].final = t.final
        BY <4>1, <4>2
      <4>4. TaskKnown(tasks'[h], hist.signed) /\ PayShape(tasks'[h])
        BY <3>1, <4>3 DEF ProxyKnown, TaskKnown, PayShape
      <4>5. /\ DOMAIN tasks' = Handlers
            /\ \A k \in Handlers : k # h => tasks'[k] = tasks[k]
        BY <3>3 DEF ProxyKnown
      <4> QED
        BY <3>1, <4>4, <4>5 DEF ProxyKnown
    <3> QED
      BY <3>1, <3>2, <3>3
  <2>4. CASE Cache!Abandon(h)
    BY <2>4 DEF Cache!Abandon, Cache!Done, Cache!IdleTask, ProxyKnown, TaskKnown, PayShape
  <2> QED
    BY <1>2, <2>1, <2>2, <2>3, <2>4 DEF Cache!TaskStep
<1>3. CASE Cache!Evict \/ Cache!Polling
  BY <1>3 DEF Cache!Evict, Cache!Polling, Cache!PollFetch, Cache!PollRead,
              Cache!PollWrite, Cache!PollDrop
<1> QED
  BY <1>1, <1>2, <1>3 DEF ProxyStep, ProxyTask

LEMMA PaygInitInv == PaygInit => PaygInv
<1> SUFFICES ASSUME PaygInit
             PROVE  PaygInv
  OBVIOUS
<1>1. Init
  BY DEF PaygInit
<1>2. TypeOK
  BY <1>1, InitType
<1>3. hist.signed = {0}
      /\ hist = [signed |-> hist.signed, bill |-> hist.bill,
                 ceiling |-> hist.ceiling, gap |-> hist.gap]
  BY DEF PaygInit, Cache!Remember
<1>4. StoreKnown(row, jobs, chain, signed, hist.signed)
  BY <1>1, <1>3 DEF Init, Opened, StoreKnown, RowKnown, JobKnown, IdleJob
<1>5. ProxyKnown(tasks, outbox, hist)
  BY <1>3 DEF PaygInit, ProxyKnown, TaskKnown, PayShape, Cache!IdleTask
<1> QED
  BY <1>2, <1>4, <1>5 DEF PaygInv, PaygInit

LEMMA PaygInvStep == PaygInv /\ [PaygNext]_paygVars => PaygInv'
<1> SUFFICES ASSUME PaygInv, [PaygNext]_paygVars
             PROVE  PaygInv'
  OBVIOUS
<1>1. /\ TypeOK /\ past \in BOOLEAN
      /\ StoreKnown(row, jobs, chain, signed, hist.signed)
      /\ ProxyKnown(tasks, outbox, hist)
  BY DEF PaygInv
<1>2. ASSUME UNCHANGED storeVars
      PROVE  TypeOK'
  BY <1>1, <1>2, TypeStep
<1>3. CASE ProxyStep
  <2>1. UNCHANGED <<storeVars, past>>
    BY <1>3 DEF ProxyStep
  <2>2. ProxyKnown(tasks', outbox', hist') /\ hist.signed \subseteq hist'.signed
    BY <1>1, <1>3, ProxyStepKnown
  <2>3. StoreKnown(row, jobs, chain, signed, hist'.signed)
    BY <1>1, <2>2, StoreKnownGrows
  <2> QED
    BY <1>1, <1>2, <2>1, <2>2, <2>3 DEF PaygInv, storeVars
<1>4. CASE RowStep
  <2>1. /\ UNCHANGED proxyVars /\ hist'.signed = hist.signed
        /\ hist' = [signed |-> hist'.signed, bill |-> hist'.bill,
                    ceiling |-> hist'.ceiling, gap |-> hist'.gap]
    BY <1>1, <1>4 DEF RowStep, Cache!Remember, ProxyKnown
  <2>2. ProxyKnown(tasks', outbox', hist')
    BY <1>1, <2>1 DEF ProxyKnown, proxyVars
  <2>3. /\ TypeOK' /\ past' \in BOOLEAN
        /\ StoreKnown(row', jobs', chain', signed', hist.signed)
    <3>1. CASE CoordinatorStep
      <4>1. TypeOK' /\ past' \in BOOLEAN
        BY <1>1, <3>1, TypeStep DEF CoordinatorStep, Next
      <4> QED
        BY <1>1, <3>1, <4>1, OtherStepKnown DEF CoordinatorStep
    <3>2. CASE Elapse
      BY <1>1, <1>2, <3>2 DEF Elapse, storeVars
    <3> QED
      BY <1>4, <3>1, <3>2 DEF RowStep
  <2> QED
    BY <2>1, <2>2, <2>3 DEF PaygInv
<1>5. ASSUME NEW m \in Cache!Update, Cache!Take(m)
      PROVE  ProxyKnown(tasks', outbox', hist') /\ hist' = hist /\ m.spent \in hist.signed
  <2>1. /\ outbox[m] > 0 /\ outbox' = [outbox EXCEPT ![m] = @ - 1]
        /\ tasks' = tasks /\ hist' = hist
    BY <1>5 DEF Cache!Take
  <2>2. /\ outbox' \in [Cache!Update -> Nat]
        /\ \A k \in Cache!Update : outbox'[k] > 0 => outbox[k] > 0
    BY <1>1, <2>1 DEF ProxyKnown
  <2> QED
    BY <1>1, <2>1, <2>2 DEF ProxyKnown
<1>6. ASSUME NEW m \in Cache!Update, Lose(m)
      PROVE  PaygInv'
  BY <1>1, <1>2, <1>5, <1>6 DEF Lose, PaygInv, storeVars
<1>7. ASSUME NEW m \in Cache!Update, NEW j \in Jobs, Deliver(j, m)
      PROVE  PaygInv'
  <2>1. Cache!Take(m) /\ UpdateLoad(j, m) /\ past' = past
    BY <1>7 DEF Deliver
  <2>2. m \in Sign
    BY StoreAssumption DEF Cache!Update, Sign
  <2>3. TypeOK'
    BY <1>1, <2>1, <2>2, UpdateType
  <2>4. StoreKnown(row', jobs', chain', signed', hist.signed)
    BY <1>1, <1>5, <2>1, <2>2, UpdateKnown
  <2> QED
    BY <1>1, <1>5, <2>1, <2>3, <2>4 DEF PaygInv
<1>8. CASE UNCHANGED paygVars
  BY <1>1, <1>2, <1>8 DEF paygVars, proxyVars, storeVars, PaygInv
<1> QED
  BY <1>3, <1>4, <1>6, <1>7, <1>8 DEF PaygNext

\* Every figure of the system came with a signature.
THEOREM PaygInductive == PaygSpec => []PaygInv
  BY PaygInitInv, PaygInvStep, PTL DEF PaygSpec

\* The contract pays the indexer no amount that the consumer has not signed.
THEOREM SettledSafe == PaygSpec => []SettledWasSigned
<1>1. PaygInv => SettledWasSigned
  BY DEF PaygInv, StoreKnown, SettledWasSigned
<1> QED
  BY <1>1, PaygInductive, PTL
-----------------------------------------------------------------------------
(* The two refinements.                                                    *)

\* What the row shows is a row of ChannelCache, with a signed amount.
ShowsKnown == View \in Views /\ View.remote \in hist.signed

LEMMA InvShows == PaygInv => ShowsKnown
  BY DEF PaygInv, TypeOK, StoreKnown, RowKnown, Known, ShowsKnown, View, Views, Row

\* The steps of the account: the proxy's own, or a change of the row.
AccountStep ==
    \/ Cache!ProxyNext
    \/ View' \in Views /\ Cache!RowChange(View')
    \/ UNCHANGED Cache!vars

LEMMA AccountStepped ==
    PaygInv /\ ShowsKnown' /\ [PaygNext]_paygVars => AccountStep
<1> SUFFICES ASSUME PaygInv, ShowsKnown', [PaygNext]_paygVars
             PROVE  AccountStep
  OBVIOUS
<1>1. ASSUME UNCHANGED <<row, past>>
      PROVE  View' = View
  BY <1>1 DEF View
<1>2. CASE ProxyStep
  <2>1. \/ \E h \in Handlers : Cache!Request(h) \/ Cache!TaskStep(h)
        \/ Cache!Evict \/ Cache!Polling
    BY <1>2 DEF ProxyStep, ProxyTask
  <2>2. View' = View
    BY <1>1, <1>2 DEF ProxyStep, storeVars
  <2> QED
    BY <2>1, <2>2 DEF AccountStep, Cache!ProxyNext
<1>3. CASE RowStep
  <2>1. hist' = Cache!Remember(hist, View') /\ UNCHANGED proxyVars
    BY <1>3 DEF RowStep
  <2>2. hist'.signed = hist.signed
    BY <2>1 DEF PaygInv, ProxyKnown, Cache!Remember
  <2>3. View' \in Views /\ View'.remote \in hist.signed
    BY <2>2 DEF ShowsKnown
  <2> QED
    BY <2>1, <2>3 DEF AccountStep, Cache!RowChange, proxyVars
<1>4. ASSUME NEW m \in Cache!Update, Lose(m) \/ \E j \in Jobs : Deliver(j, m)
      PROVE  AccountStep
  <2>1. Cache!Take(m) /\ UNCHANGED <<row, past>>
    BY <1>4 DEF Lose, Deliver, UpdateLoad, storeVars
  <2> QED
    BY <1>1, <2>1 DEF AccountStep, Cache!ProxyNext
<1>5. CASE UNCHANGED paygVars
  BY <1>1, <1>5 DEF paygVars, proxyVars, storeVars, AccountStep, Cache!vars
<1> QED
  BY <1>2, <1>3, <1>4, <1>5 DEF PaygNext

\* The coordinator's row is an environment that ChannelCache allows: what is
\* proved of every behaviour of the account holds with the coordinator's calls,
\* lost updates and stale saves behind it.
THEOREM PaygImplementsCache == PaygSpec => Cache!Spec
<1>1. PaygInit => Cache!Init
  BY DEF PaygInit, Init, View, Views, Cache!Init
<1>2. AccountStep => [Cache!Next]_(Cache!vars)
  BY DEF AccountStep, Cache!Next
<1> QED
  BY <1>1, <1>2, PaygInductive, InvShows, AccountStepped, PTL DEF PaygSpec, Cache!Spec

\* Every step is one of the account's, whatever else a run composes it with.
THEOREM AccountFollowed == PaygSpec => FollowsAccount
<1> DEFINE Step == part = "payg" => \/ Cache!RowChange(View')
                                    \/ Cache!ProxyNext
                                    \/ UNCHANGED Cache!vars
<1>1. AccountStep => Step
  BY DEF AccountStep
<1>2. PaygSpec => [][Step]_<<part, Cache!vars>>
  <2> HIDE DEF Step
  <2> QED
    BY <1>1, PaygInductive, InvShows, AccountStepped, PTL DEF PaygSpec
<1> QED
  BY <1>2 DEF FollowsAccount

\* With the proxy in front of it the coordinator is still ChannelStore, whose
\* updates are those that arrive.
THEOREM PaygImplementsStore ==
    ASSUME "update" \in Calls
    PROVE  PaygSpec => Spec
<1>1. PaygInit => Init
  BY DEF PaygInit
<1>2. [PaygNext]_paygVars => [Next]_storeVars
  <2>1. CASE ProxyStep \/ \E m \in Cache!Update : Lose(m)
    BY <2>1 DEF ProxyStep, Lose
  <2>2. CASE RowStep
    BY <2>2 DEF RowStep, CoordinatorStep, Elapse, Next
  <2>3. ASSUME NEW m \in Cache!Update, NEW j \in Jobs, Deliver(j, m)
        PROVE  Next
    <3>1. PICK v \in Amounts, final \in BOOLEAN : m = [spent |-> v, final |-> final]
      BY DEF Cache!Update
    <3>2. UpdateCall(j)
      BY <2>3, <3>1 DEF Deliver, UpdateCall
    <3> QED
      BY <3>2 DEF Next
  <2>4. CASE UNCHANGED paygVars
    BY <2>4 DEF paygVars
  <2> QED
    BY <2>1, <2>2, <2>3, <2>4 DEF PaygNext
<1> QED
  BY <1>1, <1>2, PTL DEF PaygSpec, Spec
=============================================================================
