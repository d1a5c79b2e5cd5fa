----------------------------- MODULE QueryStats -----------------------------
(* How the proxy counts queries and reports them to the coordinator.  Each *)
(* query is counted by a task of its own, which takes the locks one after  *)
(* another; a loop posts the counters of the current hour and of the hours *)
(* not yet delivered; the coordinator keeps a row per project and hour,    *)
(* which the handler of a post reads before it saves.  A handler goes on   *)
(* when the proxy has given up its post or is gone.  A counter is the set  *)
(* of the queries it counts.                                               *)
EXTENDS Naturals, FiniteSets

CONSTANTS
    Queries, Deployments,
    Of,             \* the deployment a query is for
    MaxHour,        \* the clock stops after this many hours
    MaxRestarts,    \* restarts of the proxy in a behaviour
    Posts,          \* bound on the requests that are handled at once
    None            \* no counter, no row

Hours == 1 .. MaxHour
Counter == SUBSET Queries
Row == [time : Nat, counts : Counter]

StatsAssumption ==
    /\ IsFiniteSet(Queries) /\ Of \in [Queries -> Deployments]
    /\ MaxHour \in Nat \ {0} /\ MaxRestarts \in Nat
    /\ None \notin Row \cup Posts

VARIABLES
    clock,          \* the hour of Utc::now()
    restarts,       \* restarts so far
    task,           \* add_metrics_query of each query
    keys,           \* the deployments TIMER_COUNTER has an entry for
    timer,          \* TIMER_COUNTER, what get_timer_metrics would report
    hour,           \* CURRENT_HOUR, 0 while it is empty
    owner,          \* OWNER_COUNTER
    previous,       \* PREVIOUS_COUNTER: the counters of past hours, or None
    report,         \* the loop of listen
    post,           \* the coordinator's handlers, one slot for each request
    row,            \* the coordinator's rows: time is the sum of durations
    torn            \* history: hours under which an earlier hour was posted

counters == <<task, keys, timer, hour, owner, previous>>
process == <<counters, report>>
coordinator == <<post, row>>
vars == <<clock, restarts, process, coordinator, torn>>

----------------------------------------------------------------------------
(* add_metrics_query, a task per query                                     *)

Waiting == [pc |-> "waiting", ok |-> TRUE, now |-> 0]

Count(q) ==
    /\ task[q].pc = "waiting"
    /\ \E ok \in BOOLEAN : task' = [task EXCEPT ![q].pc = "counted", ![q].ok = ok]
    /\ timer' = timer \cup {q}
    /\ keys' = keys \cup {Of[q]}
    /\ UNCHANGED <<clock, restarts, hour, owner, previous, report, coordinator, torn>>

ReadClock(q) ==
    /\ task[q].pc = "counted"
    /\ task' = [task EXCEPT ![q].pc = "timed", ![q].now = clock]
    /\ UNCHANGED <<clock, restarts, keys, timer, hour, owner, previous, report, coordinator, torn>>

(* Mutant of CloseHour: the hour's counter stays.                          *)
CloseHourKeeps ==
    IF hour = 0 THEN UNCHANGED <<owner, previous>>
    ELSE previous' = [previous EXCEPT ![hour] = owner] /\ UNCHANGED owner

(* The hour the task read may be an earlier one than the current hour.     *)
CloseHour ==
    IF hour = 0 THEN UNCHANGED <<owner, previous>>
    ELSE /\ previous' = [previous EXCEPT ![hour] = owner]
         /\ owner' = {}

(* Mutant of Roll: the new hour is set before the old one is put away.     *)
RollEarly(q) ==
    /\ task[q].pc = "timed"
    /\ task' = [task EXCEPT ![q].pc = "rolled"]
    /\ hour' = task[q].now
    /\ IF hour \in {0, task[q].now} THEN UNCHANGED <<owner, previous>>
       ELSE previous' = [previous EXCEPT ![task[q].now] = owner] /\ owner' = {}
    /\ UNCHANGED <<clock, restarts, keys, timer, report, coordinator, torn>>

Roll(q) ==
    /\ task[q].pc = "timed"
    /\ task' = [task EXCEPT ![q].pc = "rolled"]
    /\ hour' = task[q].now
    /\ IF hour = task[q].now THEN UNCHANGED <<owner, previous>> ELSE CloseHour
    /\ UNCHANGED <<clock, restarts, keys, timer, report, coordinator, torn>>

(* The hour may have changed since the task looked; from now on `now' is   *)
(* the one it is booked under, as history.                                 *)
Book(q) ==
    /\ task[q].pc = "rolled"
    /\ task' = [task EXCEPT ![q].pc = "booked", ![q].now = hour]
    /\ owner' = owner \cup {q}
    /\ UNCHANGED <<clock, restarts, keys, timer, hour, previous, report, coordinator, torn>>

----------------------------------------------------------------------------
(* get_timer_metrics, and update_metrics_projects with the new table       *)

TakeTimer ==
    /\ timer # {} /\ timer' = {}
    /\ UNCHANGED <<clock, restarts, task, keys, hour, owner, previous, report, coordinator, torn>>

Table(new) ==
    LET changed == (keys \ new) \cup (new \ keys)
        Keep(counter) == {q \in counter : Of[q] \notin changed} IN
    /\ new # keys
    /\ keys' = new
    /\ timer' = Keep(timer) /\ owner' = Keep(owner)
    /\ UNCHANGED <<clock, restarts, task, hour, previous, report, coordinator, torn>>

----------------------------------------------------------------------------
(* listen                                                                  *)

Nothing == [h \in Hours |-> None]
Resting == [pc |-> "rest", current |-> {}, hour |-> 0, post |-> None, sent |-> {}]
Free == [pc |-> "free", data |-> Nothing, found |-> [d \in Deployments |-> Nothing]]

(* The hour is read later, under a lock of its own; the one that the       *)
(* counter belongs to is history.                                          *)
ReportOwner ==
    /\ report.pc = "rest"
    /\ report' = [report EXCEPT !.pc = "hour", !.current = owner, !.hour = hour]
    /\ UNCHANGED <<clock, restarts, counters, coordinator, torn>>

ReportHour ==
    /\ report.pc = "hour"
    /\ report' = IF hour = 0 THEN Resting ELSE [report EXCEPT !.pc = "previous", !.hour = hour]
    /\ torn' = IF hour \in {0, report.hour} \/ report.current = {} THEN torn
               ELSE torn \cup {hour}
    /\ UNCHANGED <<clock, restarts, counters, coordinator>>

Past == {h \in Hours : previous[h] # None}

(* A past hour stands before the current one of the same name.             *)
Reported == [h \in Hours |-> IF h \in Past THEN previous[h]
                             ELSE IF h = report.hour THEN report.current ELSE None]

ReportPrevious(p) ==
    /\ report.pc = "previous" /\ post[p].pc = "free"
    /\ report' = [report EXCEPT !.pc = "answer", !.current = {}, !.hour = 0,
                                !.post = p, !.sent = Past]
    /\ post' = [post EXCEPT ![p] = [Free EXCEPT !.pc = "find", !.data = Reported]]
    /\ UNCHANGED <<clock, restarts, counters, row, torn>>

----------------------------------------------------------------------------
(* saveStatsMap, by the handler of a post                                  *)

Find(p) ==
    /\ post[p].pc = "find"
    /\ post' = [post EXCEPT ![p].pc = "save", ![p].found = row]
    /\ UNCHANGED <<clock, restarts, process, row, torn>>

(* Each query that succeeded adds one unit of time.  An entity that was    *)
(* found takes over a larger time only.  The rows of zeros that an empty   *)
(* entry makes are left out.                                               *)
Time(counter) == Cardinality({q \in counter : task[q].ok})

Merged(new, found) ==
    IF found = None \/ Time(new) > found.time
    THEN [time |-> Time(new), counts |-> new] ELSE found

Entry(p, d, h) == IF post[p].data[h] = None THEN {} ELSE {q \in post[p].data[h] : Of[q] = d}

Entries(p) == {e \in Deployments \X Hours : Entry(p, e[1], e[2]) # {}}

(* Every entity is saved as it was found and merged, whatever the row is   *)
(* meanwhile; one that was not found is inserted, and when another handler *)
(* was faster the whole list is refused (@Unique).                         *)
Answered(p, pc) ==
    post' = [post EXCEPT ![p] = IF report.post = p THEN [Free EXCEPT !.pc = pc] ELSE Free]

Save(p) ==
    /\ post[p].pc = "save"
    /\ \A e \in Entries(p) :
          post[p].found[e[1]][e[2]] = None => row[e[1]][e[2]] = None
    /\ row' = [d \in Deployments |-> [h \in Hours |->
                  IF <<d, h>> \in Entries(p) THEN Merged(Entry(p, d, h), post[p].found[d][h])
                  ELSE row[d][h]]]
    /\ Answered(p, "saved")
    /\ UNCHANGED <<clock, restarts, process, torn>>

(* The insert or the database fails.                                       *)
SaveFails(p) ==
    /\ post[p].pc \in {"find", "save"}
    /\ Answered(p, "refused")
    /\ UNCHANGED <<clock, restarts, process, row, torn>>

(* Mutant of Deliver: what was sent is kept.                               *)
DeliverKeeps ==
    /\ report.pc = "answer" /\ post[report.post].pc = "saved"
    /\ report' = Resting /\ post' = [post EXCEPT ![report.post] = Free]
    /\ UNCHANGED <<clock, restarts, counters, row, torn>>

(* The answer is a success: what was sent is forgotten.                    *)
Deliver ==
    /\ report.pc = "answer" /\ post[report.post].pc = "saved"
    /\ previous' = [h \in Hours |-> IF h \in report.sent THEN None ELSE previous[h]]
    /\ report' = Resting /\ post' = [post EXCEPT ![report.post] = Free]
    /\ UNCHANGED <<clock, restarts, task, keys, timer, hour, owner, row, torn>>

(* What becomes of the handler when the proxy no longer waits for it: its  *)
(* request may not have reached the coordinator.                           *)
Abandoned(p) ==
    IF post[p].pc \in {"find", "save"} THEN {post[p]} \cup {Free} ELSE {Free}

(* The answer is an error, or does not come.                               *)
PostFails ==
    /\ report.pc = "answer"
    /\ \E left \in Abandoned(report.post) : post' = [post EXCEPT ![report.post] = left]
    /\ report' = Resting
    /\ UNCHANGED <<clock, restarts, counters, row, torn>>

Refused == PostFails /\ post[report.post].pc = "refused"

Report == ReportOwner \/ ReportHour \/ (\E p \in Posts : ReportPrevious(p)) \/ Deliver \/ Refused

----------------------------------------------------------------------------
Tick ==
    /\ clock < MaxHour /\ clock' = clock + 1
    /\ UNCHANGED <<restarts, process, coordinator, torn>>

(* What the process holds is lost; queries not yet counted are to come.    *)
Restart ==
    /\ restarts < MaxRestarts /\ restarts' = restarts + 1
    /\ task' = [q \in Queries |-> IF task[q].pc = "waiting" THEN Waiting
                                  ELSE [task[q] EXCEPT !.pc = "booked"]]
    /\ keys' = {} /\ timer' = {}
    /\ hour' = 0 /\ owner' = {}
    /\ previous' = Nothing
    /\ report' = Resting
    /\ IF report.pc = "answer"
       THEN \E left \in Abandoned(report.post) : post' = [post EXCEPT ![report.post] = left]
       ELSE UNCHANGED post
    /\ UNCHANGED <<clock, row, torn>>

Init ==
    /\ clock = 1 /\ restarts = 0
    /\ task = [q \in Queries |-> Waiting]
    /\ keys = {} /\ timer = {}
    /\ hour = 0 /\ owner = {}
    /\ previous = Nothing
    /\ report = Resting
    /\ post = [p \in Posts |-> Free]
    /\ row = [d \in Deployments |-> Nothing]
    /\ torn = {}

Next ==
    \/ \E q \in Queries : Count(q) \/ ReadClock(q) \/ Roll(q) \/ Book(q)
    \/ TakeTimer \/ (\E new \in SUBSET Deployments : Table(new))
    \/ Report \/ PostFails
    \/ \E p \in Posts : Find(p) \/ Save(p) \/ SaveFails(p)
    \/ Tick \/ Restart

Spec == Init /\ [][Next]_vars

\* The loop goes on, and a handler comes to an end.
Fairness ==
    /\ WF_vars(Report)
    /\ \A p \in Posts : WF_vars(Find(p) \/ Save(p) \/ SaveFails(p))

Task == [pc : {"waiting", "counted", "timed", "rolled", "booked"}, ok : BOOLEAN,
         now : {0} \cup Hours]
ReportState == [pc : {"rest", "hour", "previous", "answer"}, current : Counter,
                hour : {0} \cup Hours, post : Posts \cup {None}, sent : SUBSET Hours]
StatsRows == [Deployments -> [Hours -> Row \cup {None}]]
Handler == [pc : {"free", "find", "save", "saved", "refused"},
            data : [Hours -> Counter \cup {None}], found : StatsRows]

(* The types of the counters, the tasks, the report, the handlers, the rows. *)
TypeOK ==
    /\ clock \in Hours /\ restarts \in 0 .. MaxRestarts
    /\ task \in [Queries -> Task]
    /\ keys \subseteq Deployments /\ timer \in Counter /\ owner \in Counter
    /\ hour \in {0} \cup Hours
    /\ previous \in [Hours -> Counter \cup {None}]
    /\ report \in ReportState /\ (report.pc = "answer" => report.post # None)
    /\ post \in [Posts -> Handler]
    /\ row \in StatsRows
    /\ torn \subseteq Hours

(* However the tasks of the hour's last and next queries interleave, the   *)
(* proxy holds a query under at most one hour.                             *)
BookedOnce ==
    \A q \in Queries :
        LET past == {h \in Past : q \in previous[h]} IN
        /\ Cardinality(past) <= 1
        /\ q \in owner => past = {}

(* The coordinator counts a query under the hour the proxy booked it under *)
(* and no other, although reports are refused, sent again, handled after   *)
(* the proxy gave them up or started anew, and saved over rows that have   *)
(* changed since they were found.  The exception is an hour that a report  *)
(* was posted under whose counter had been copied before the hour turned   *)
(* (metrics.rs 121-127).                                                   *)
CountedAsBooked ==
    \A d \in Deployments, h \in Hours \ torn :
        row[d][h] # None => \A q \in row[d][h].counts : Of[q] = d /\ task[q].now = h

(* A past hour does not wait for ever: it is delivered, also if no further *)
(* query comes, unless nothing but failures is ever answered.              *)
BacklogDelivered ==
    ([]<><<PostFails>>_vars => []<><<Deliver>>_vars) =>
        \A h \in Hours : previous[h] # None ~> previous[h] = None

=============================================================================
