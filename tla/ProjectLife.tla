---------------------------- MODULE ProjectLife ----------------------------
(* One SubQuery project of the coordinator: its row in the database, its   *)
(* docker compose file, its database schema and its two containers.        *)
(*                                                                         *)
(* The administrator's calls run one step per await.  A call keeps the     *)
(* entity it loaded and saves it back whole.  A start spawns "docker up"   *)
(* and does not wait for it: several may be in progress, each with the     *)
(* compose file as it was when it read it.  The monitor restarts           *)
(* containers from a list it loaded earlier, and a refresh saves a row it  *)
(* loaded earlier.                                                         *)
EXTENDS Naturals, FiniteSets

CONSTANTS
    Calls,          \* slots for concurrent calls of the administrator
    Configs,        \* project configurations the administrator may choose
    Hosts,          \* host types the administrator may choose
    Mutations,      \* calls the administrator makes
    Ups,            \* bound: slots for "docker up" processes in progress
    Background,     \* what happens beside the calls: "monitor", "refresh",
                    \* "crash" (of a container), "reboot" (of the coordinator)
    Unset           \* an undefined field of an entity, no entity, no file

\* What the administrator configures is neither undefined nor the default.
LifeAssumption ==
    /\ Unset \notin Configs \cup Hosts \cup {"running", "stopped", "unresolved", "default"}
    /\ Unset \notin BOOLEAN
    /\ "unresolved" \notin Hosts /\ "default" \notin Configs
    /\ Unset \notin [status : {"running", "stopped"}, host : Hosts \cup {"unresolved"},
                    config : Configs \cup {"default", Unset}, served : BOOLEAN \cup {Unset}]

VARIABLES
    row,            \* the ProjectEntity row, Unset when there is none
    compose,        \* configuration in the compose file, Unset: no file
    schema,         \* the project's schema exists in the indexer database
    boxes,          \* the containers: state and configuration
    calls,          \* the administrator's calls
    ups,            \* "docker up" processes, with the file as each has read it
    unfinished,     \* history: the last "up" that ended is not one to rely on
    monitor,        \* the monitor's round and the row it listed
    misses,         \* failed health checks in a row
    refresh,        \* entity a background job has loaded and will save
    forgotten       \* history: a job took from the row what a call builds on

files == <<compose, schema, ups, unfinished>>
jobs == <<monitor, misses, refresh, forgotten>>
vars == <<row, files, boxes, calls, jobs>>

Services == {"node", "query"}
Threshold == 3              \* nodeUnhealthTimes and queryUnhealthTimes

Fresh == [status |-> "stopped", host |-> "unresolved",
          config |-> "default", served |-> FALSE]

NoBox == [state |-> "none", config |-> Unset]
Box(state, config) == [state |-> state, config |-> config]
Exists(s) == boxes[s].state # "none"
IsUp(s) == boxes[s].state = "up"

----------------------------------------------------------------------------
(* Repository.save: every defined field of the entity, an insert when the  *)
(* row is gone.                                                            *)
Save(e) ==
    LET old == IF row = Unset THEN Fresh ELSE row
    IN  row' = [f \in DOMAIN Fresh |-> IF e[f] = Unset THEN old[f] ELSE e[f]]

(* What addProject saves: no configuration and no endpoints.               *)
Added == [Fresh EXCEPT !.config = Unset, !.served = Unset]

(* A job saves an old entity, under a call that has seen a newer one.      *)
SaveOld(e) ==
    /\ Save(e)
    /\ forgotten' = \/ forgotten
                    \/ /\ row # Unset /\ \E c \in Calls : calls[c].pc # "idle"
                       /\ \E f \in {"host", "config", "served"} :
                             row[f] # Fresh[f] /\ row'[f] = Fresh[f]

Goto(c, pc) == calls' = [calls EXCEPT ![c].pc = pc]
Carry(c, e, pc) == calls' = [calls EXCEPT ![c].e = e, ![c].pc = pc]
Idle == [op |-> "none", pc |-> "idle", back |-> "start", e |-> Unset,
         config |-> Unset, host |-> Unset]
Finish(c) == calls' = [calls EXCEPT ![c] = Idle]
At(c, pc) == calls[c].pc = pc

(* startSubqueryProject goes on with the entity it has: the host type is   *)
(* checked and set.                                                        *)
Chosen(c, e) ==
    IF e.host \in {"unresolved", calls[c].host}
    THEN Carry(c, [e EXCEPT !.host = calls[c].host], "save")
    ELSE Finish(c)        \* "change host type is not allowed"

(* Where the caller of addProject goes on with its result.                 *)
Return(c, e) ==
    \/ calls[c].op = "add" /\ Finish(c)
    \/ calls[c].op = "start" /\ calls[c].back = "start" /\ Chosen(c, e)
    \/ calls[c].op = "start" /\ calls[c].back = "create" /\ Carry(c, e, "compose")

(* A mutation arrives.                                                     *)
Begin(c) ==
    /\ At(c, "idle")
    /\ \/ \E config \in Configs, host \in Hosts :
             /\ "start" \in Mutations
             /\ calls' = [calls EXCEPT ![c] = [Idle EXCEPT !.op = "start",
                             !.pc = "load", !.config = config, !.host = host]]
       \/ \E op \in Mutations \cap {"stop", "remove", "rate"} :
             calls' = [calls EXCEPT ![c].op = op, ![c].pc = "load"]
       \/ /\ "add" \in Mutations
          /\ calls' = [calls EXCEPT ![c].op = "add", ![c].pc = "add"]
    /\ UNCHANGED <<row, files, boxes, jobs>>

(* The first await of every handler loads the row.                         *)
Load(c) ==
    /\ At(c, "load")
    /\ LET op == calls[c].op IN
       \/ op = "start" /\ IF row = Unset THEN Goto(c, "add") ELSE Chosen(c, row)
       \/ op # "start" /\ row = Unset /\ Finish(c)
       \/ op \in {"stop", "remove"} /\ row # Unset
          /\ Goto(c, IF row.host = "system" THEN "halt"
                     ELSE IF op = "stop" THEN "mark" ELSE "delete")
       \/ op = "rate" /\ row # Unset /\ Carry(c, row, "last")
    /\ UNCHANGED <<row, files, boxes, jobs>>

(* addProject looks again, then asks the network and saves a new row.      *)
Add(c) ==
    /\ At(c, "add")
    /\ IF row = Unset THEN Goto(c, "insert") ELSE Return(c, row)
    /\ UNCHANGED <<row, files, boxes, jobs>>

Insert(c) ==
    /\ At(c, "insert")
    /\ \/ Save(Added) /\ Return(c, IF row = Unset THEN Fresh ELSE Added)
       \/ Finish(c) /\ UNCHANGED row          \* the network or IPFS fails
    /\ UNCHANGED <<files, boxes, jobs>>

(* startSubqueryProject saves the host type and the rate limit.            *)
StartSave(c) ==
    /\ At(c, "save")
    /\ Save(calls[c].e)
    /\ Goto(c, IF calls[c].host = "user" THEN "user" ELSE "inspect")
    /\ UNCHANGED <<files, boxes, jobs>>

Started(c) == [calls[c].e EXCEPT !.status = "running", !.served = TRUE,
                                 !.config = calls[c].config]

(* The endpoints of a user-managed project are validated, then saved.      *)
StartUserManaged(c) ==
    /\ At(c, "user")
    /\ \/ Carry(c, Started(c), "last")
       \/ Finish(c)
    /\ UNCHANGED <<row, files, boxes, jobs>>

CheckSchema(c) ==
    /\ At(c, "inspect")
    /\ Goto(c, IF schema THEN "ps" ELSE "create")
    /\ UNCHANGED <<row, files, boxes, jobs>>

Restartable ==
    /\ compose # Unset
    /\ \A s \in Services : boxes[s].state \in {"up", "down"}

(* Mutant of ConfigChanged: only a purge makes new containers.             *)
ConfigChangedPurge(c, purge) == purge

ConfigChanged(c, purge) == purge \/ calls[c].e.config # calls[c].config

(* The choice between restarting the containers and creating them anew.    *)
Decide(c) ==
    /\ At(c, "ps")
    /\ \E purge \in BOOLEAN :
          Goto(c, IF Restartable /\ ~ConfigChanged(c, purge)
                  THEN "resume" ELSE "create")
    /\ UNCHANGED <<row, files, boxes, jobs>>

Resume(c) ==
    /\ At(c, "resume")
    /\ boxes' = [s \in Services |-> IF Exists(s)
                    THEN [boxes[s] EXCEPT !.state = "up"] ELSE boxes[s]]
    /\ Goto(c, "mark")
    /\ UNCHANGED <<row, files, jobs>>

(* updateProjectStatus: load the row, set the status, save it.  A missing  *)
(* row throws.                                                             *)
Mark(c) ==
    /\ At(c, "mark")
    /\ IF row = Unset THEN Finish(c)
       ELSE Carry(c, [row EXCEPT !.status = IF calls[c].op = "start"
                                            THEN "running" ELSE "stopped"], "last")
    /\ UNCHANGED <<row, files, boxes, jobs>>

SaveLast(c) ==
    /\ At(c, "last")
    /\ Save(calls[c].e)
    /\ Finish(c)
    /\ UNCHANGED <<files, boxes, jobs>>

(* createAndStartSubqueryProject.                                          *)
CreateLoad(c) ==
    /\ At(c, "create")
    /\ IF row = Unset
       THEN calls' = [calls EXCEPT ![c].back = "create", ![c].pc = "add"]
       ELSE Carry(c, row, "compose")
    /\ UNCHANGED <<row, files, boxes, jobs>>

WriteCompose(c) ==
    /\ At(c, "compose")
    /\ \/ /\ schema' = TRUE                 \* createDBSchema, write, up
          /\ compose' = calls[c].config
          /\ \E u \in Ups : ups[u].at = "free" /\ ups' = [ups EXCEPT ![u].at = "rm"]
          /\ Goto(c, "describe")
       \/ /\ schema' \in {schema, TRUE}     \* one of the two awaits throws
          /\ Finish(c)
          /\ UNCHANGED <<compose, ups>>
    /\ UNCHANGED <<row, boxes, unfinished, jobs>>

(* nodeConfigs reads the manifest from IPFS once more, after "up".         *)
Describe(c) ==
    /\ At(c, "describe")
    /\ \/ Carry(c, Started(c), "last")
       \/ Finish(c)
    /\ UNCHANGED <<row, files, boxes, jobs>>

Halt(c) ==
    /\ At(c, "halt")
    /\ \E exit \in {"down", "killed"} :     \* exit code 137 or 143: killed
          boxes' = [s \in Services |-> IF IsUp(s)
                       THEN [boxes[s] EXCEPT !.state = exit] ELSE boxes[s]]
    /\ Goto(c, IF calls[c].op = "stop" THEN "mark" ELSE "rm")
    /\ UNCHANGED <<row, files, jobs>>

(* "docker rm" without force leaves a running container alone.             *)
Pruned == [s \in Services |-> IF IsUp(s) THEN boxes[s] ELSE NoBox]

Remove(c) ==
    /\ At(c, "rm")
    /\ boxes' = Pruned
    /\ Goto(c, "drop")
    /\ UNCHANGED <<row, files, jobs>>

DropSchema(c) ==
    /\ At(c, "drop")
    /\ schema' = FALSE
    /\ Goto(c, "delete")
    /\ UNCHANGED <<row, compose, ups, unfinished, boxes, jobs>>

Delete(c) ==
    /\ At(c, "delete")
    /\ row' = Unset
    /\ Finish(c)
    /\ UNCHANGED <<files, boxes, jobs>>

----------------------------------------------------------------------------
(* "docker up": remove the old containers, then docker-compose, which      *)
(* reads the file, makes one container after the other anew, and may fail  *)
(* at any time.  History: whether, while one makes containers, another     *)
(* does so of another file.                                                *)
NoUp == [at |-> "free", file |-> Unset, made |-> {}, mixed |-> FALSE]

UpRemove(u) ==
    /\ ups[u].at = "rm"
    /\ ups' = [ups EXCEPT ![u].at = "read"]
    /\ boxes' = Pruned
    /\ UNCHANGED <<row, compose, schema, unfinished, calls, jobs>>

OfOtherFile == {v \in Ups : ups[v].at = "create" /\ ups[v].file # compose}

ComposeRead(u) ==
    /\ ups[u].at = "read"
    /\ ups' = [v \in Ups |->
                 IF v = u THEN [NoUp EXCEPT !.at = "create", !.file = compose,
                                            !.mixed = OfOtherFile # {}]
                 ELSE IF v \in OfOtherFile THEN [ups[v] EXCEPT !.mixed = TRUE]
                 ELSE ups[v]]
    /\ UNCHANGED <<row, compose, schema, unfinished, boxes, calls, jobs>>

(* Mutant of ComposeCreate: a container that exists is started as it is.   *)
ComposeCreateExisting(u, s) ==
    /\ ups[u].at = "create" /\ s \notin ups[u].made
    /\ ups' = [ups EXCEPT ![u].made = @ \cup {s}]
    /\ boxes' = [boxes EXCEPT ![s] =
                    Box("up", IF Exists(s) THEN boxes[s].config ELSE ups[u].file)]
    /\ UNCHANGED <<row, compose, schema, unfinished, calls, jobs>>

ComposeCreate(u, s) ==
    /\ ups[u].at = "create" /\ s \notin ups[u].made
    /\ ups' = [ups EXCEPT ![u].made = @ \cup {s}]
    /\ boxes' = [boxes EXCEPT ![s] = Box("up", ups[u].file)]
    /\ UNCHANGED <<row, compose, schema, unfinished, calls, jobs>>

ComposeEnds(u) ==
    /\ ups[u].at = "create" /\ ups[u].made = Services
    /\ ups' = [ups EXCEPT ![u] = NoUp]
    /\ unfinished' = (ups[u].mixed \/ ups[u].file # compose)
    /\ UNCHANGED <<row, compose, schema, boxes, calls, jobs>>

ComposeFails(u) ==
    /\ ups[u].at \in {"read", "create"}
    /\ ups' = [ups EXCEPT ![u] = NoUp]
    /\ unfinished' = TRUE
    /\ UNCHANGED <<row, compose, schema, boxes, calls, jobs>>

Crash(s) ==
    /\ "crash" \in Background
    /\ IsUp(s)
    /\ \E exit \in {"down", "killed"} : boxes' = [boxes EXCEPT ![s].state = exit]
    /\ UNCHANGED <<row, files, calls, jobs>>

----------------------------------------------------------------------------
(* MonitorService.checkNodeHealth, every five minutes.                     *)
Round(pc) == monitor' = [monitor EXCEPT !.pc = pc]

Missed(s) == IF misses[s] < Threshold THEN misses[s] + 1 ELSE Threshold

MonitorList ==
    /\ "monitor" \in Background
    /\ monitor.pc = "idle"
    /\ LET stopped == row # Unset /\ row.status = "stopped" IN
       /\ misses' = IF stopped THEN [s \in Services |-> 0] ELSE misses
       /\ monitor' = [listed |-> row,
                      pc |-> IF row = Unset \/ stopped THEN "restart"
                             ELSE IF row.host = "user" THEN "user" ELSE "node"]
    /\ UNCHANGED <<row, files, boxes, calls, refresh, forgotten>>

(* The result for the query endpoint of a user-managed project is saved    *)
(* with the listed project when it has changed.                            *)
MonitorUser ==
    /\ monitor.pc = "user"
    /\ \/ SaveOld(monitor.listed)
       \/ UNCHANGED <<row, forgotten>>
    /\ Round("restart")
    /\ UNCHANGED <<files, boxes, calls, misses, refresh>>

(* A service that is up may still fail its check.                          *)
MonitorNode ==
    /\ monitor.pc = "node"
    /\ \/ /\ monitor.listed.served /\ IsUp("node")
          /\ misses' = [misses EXCEPT !["node"] = 0]
          /\ Round("query")
       \/ /\ misses' = [node |-> IF monitor.listed.served THEN Missed("node")
                                 ELSE misses["node"], query |-> 0]
          /\ Round("restart")
    /\ UNCHANGED <<row, files, boxes, calls, refresh, forgotten>>

MonitorQuery ==
    /\ monitor.pc = "query"
    /\ \/ IsUp("query") /\ misses' = [misses EXCEPT !["query"] = 0]
       \/ misses' = [misses EXCEPT !["query"] = Missed("query")]
    /\ Round("restart")
    /\ UNCHANGED <<row, files, boxes, calls, refresh, forgotten>>

(* Mutant of MonitorRestart: a container that was killed is left alone.    *)
MonitorRestartExited ==
    /\ monitor.pc = "restart"
    /\ boxes' = [s \in Services |-> IF misses[s] >= Threshold /\ boxes[s].state = "down"
                    THEN [boxes[s] EXCEPT !.state = "up"] ELSE boxes[s]]
    /\ monitor' = [pc |-> "idle", listed |-> Unset]
    /\ UNCHANGED <<row, files, calls, misses, refresh, forgotten>>

MonitorRestart ==
    /\ monitor.pc = "restart"
    /\ boxes' = [s \in Services |-> IF misses[s] >= Threshold /\ Exists(s)
                    THEN [boxes[s] EXCEPT !.state = "up"] ELSE boxes[s]]
    /\ monitor' = [pc |-> "idle", listed |-> Unset]
    /\ UNCHANGED <<row, files, calls, misses, refresh, forgotten>>

(* autoUpdateProjectInfo and getManifest: the entity loaded before a slow  *)
(* request is saved after it.                                              *)
RefreshLoad ==
    /\ "refresh" \in Background
    /\ refresh = Unset /\ row # Unset
    /\ refresh' = row
    /\ UNCHANGED <<row, files, boxes, calls, monitor, misses, forgotten>>

RefreshSave ==
    /\ refresh # Unset
    /\ \/ SaveOld(refresh)
       \/ UNCHANGED <<row, forgotten>>
    /\ refresh' = Unset
    /\ UNCHANGED <<files, boxes, calls, monitor, misses>>

(* The coordinator dies and comes back: what it held in memory is gone.    *)
Reboot ==
    /\ "reboot" \in Background
    /\ calls' = [c \in Calls |-> Idle]
    /\ ups' = [u \in Ups |-> NoUp]
    /\ unfinished' = (unfinished \/ \E u \in Ups : ups[u].at # "free")
    /\ monitor' = [pc |-> "idle", listed |-> Unset]
    /\ misses' = [s \in Services |-> 0]
    /\ refresh' = Unset
    /\ UNCHANGED <<row, compose, schema, boxes, forgotten>>

----------------------------------------------------------------------------
Init ==
    /\ row = Unset /\ compose = Unset /\ schema = FALSE
    /\ boxes = [s \in Services |-> NoBox]
    /\ calls = [c \in Calls |-> Idle]
    /\ ups = [u \in Ups |-> NoUp] /\ unfinished = FALSE
    /\ monitor = [pc |-> "idle", listed |-> Unset]
    /\ misses = [s \in Services |-> 0]
    /\ refresh = Unset /\ forgotten = FALSE

UpStep(u) ==
    \/ UpRemove(u) \/ ComposeRead(u) \/ (\E s \in Services : ComposeCreate(u, s))
    \/ ComposeEnds(u) \/ ComposeFails(u)

CallStep(c) ==
    \/ Begin(c) \/ Load(c) \/ Add(c) \/ Insert(c) \/ StartSave(c)
    \/ StartUserManaged(c) \/ CheckSchema(c) \/ Decide(c) \/ Resume(c)
    \/ Mark(c) \/ SaveLast(c) \/ CreateLoad(c) \/ WriteCompose(c) \/ Describe(c)
    \/ Halt(c) \/ Remove(c) \/ DropSchema(c) \/ Delete(c)

MonitorStep ==
    MonitorList \/ MonitorUser \/ MonitorNode \/ MonitorQuery \/ MonitorRestart

Next ==
    \/ \E c \in Calls : CallStep(c)
    \/ (\E u \in Ups : UpStep(u)) \/ (\E s \in Services : Crash(s))
    \/ MonitorStep \/ RefreshLoad \/ RefreshSave \/ Reboot

Spec == Init /\ [][Next]_vars
Fairness == WF_vars(MonitorStep)

Rows == [status : {"running", "stopped"}, host : Hosts \cup {"unresolved"},
         config : Configs \cup {"default", Unset}, served : BOOLEAN \cup {Unset}]
Entities == Rows \cup {Unset}
Boxes == [state : {"none", "up", "down", "killed"}, config : Configs \cup {Unset}]
Steps == {"idle", "load", "add", "insert", "save", "user", "inspect", "ps", "resume",
          "mark", "last", "create", "compose", "describe", "halt", "rm", "drop", "delete"}
Handlers ==
    [op : {"none", "add", "start", "stop", "remove", "rate"}, pc : Steps,
     back : {"start", "create"}, e : Entities, config : Configs \cup {Unset},
     host : Hosts \cup {Unset}]
Processes == [at : {"free", "rm", "read", "create"}, file : Configs \cup {Unset},
              made : SUBSET Services, mixed : BOOLEAN]

(* The types of the row, the files, the containers and the calls.          *)
TypeOK ==
    /\ row \in Entities
    /\ row # Unset => row.served \in BOOLEAN /\ row.config # Unset
    /\ compose \in Configs \cup {Unset}
    /\ schema \in BOOLEAN /\ unfinished \in BOOLEAN
    /\ boxes \in [Services -> Boxes]
    /\ \A s \in Services : (boxes[s].config = Unset) <=> ~Exists(s)
    /\ calls \in [Calls -> Handlers]
    /\ ups \in [Ups -> Processes]
    /\ \A u \in Ups : ups[u].at # "free" => compose # Unset
    /\ \A u \in Ups : ups[u].at = "create" => ups[u].file # Unset
    /\ monitor \in [pc : {"idle", "user", "node", "query", "restart"}, listed : Entities]
    /\ misses \in [Services -> 0 .. Threshold] /\ refresh \in Entities
    /\ forgotten \in BOOLEAN

(* Once every "up" has ended, the last of them well, having read the file  *)
(* as it is and met no other that worked on another file, the containers   *)
(* that exist were made from the compose file, whatever starts, stops,     *)
(* removals, monitor rounds and other "ups" ran at the same time           *)
(* (createAndStartSubqueryProject and docker.up).                          *)
ContainersFollowFile ==
    (\A u \in DOMAIN ups : ups[u].at = "free") /\ ~unfinished =>
        \A s \in Services : Exists(s) => boxes[s].config = compose

(* For one call at a time: a project marked as running is one that is      *)
(* served, the row has endpoints, a configuration and a resolved host,     *)
(* whichever way it was started, through the first start, a restart of its *)
(* containers, a removal or a crash between two steps, and whatever the    *)
(* refresh and the monitor save, unless one of them took a field that a    *)
(* call in progress has read (project.service.ts:99).                      *)
RunningIsServed ==
    ~forgotten /\ row # Unset /\ row.status = "running" =>
        row.served /\ row.host \in Hosts /\ row.config \in Configs

(* A container that died is brought up again by the monitor (or recreated, *)
(* removed or stopped by somebody): it never stays dead while its project  *)
(* is marked as running and served, unless the coordinator itself keeps    *)
(* being restarted.                                                        *)
Dead(s) == /\ row # Unset /\ row.status = "running"
           /\ row.host = "system" /\ row.served
           /\ boxes[s].state \in {"down", "killed"}
DeadNodeRestarted ==
    <>[][~Reboot]_vars => (Dead("node") ~> ~Dead("node"))

=============================================================================
