--------------------------- MODULE AgreementLimit ---------------------------
(* The limits of the proxy on queries: per day and per second for an       *)
(* agreement, per second for a project.  The counters are keys of redis,   *)
(* which a query reads and writes in commands of their own while time      *)
(* passes; the limits are keys that expire.                                *)
EXTENDS Naturals

CONSTANTS
    Tasks,          \* queries in progress at a time
    Daily, Rate,    \* the limits of the agreement
    ProjectRate,    \* the limit of the project
    Lifetime,       \* token_duration, in seconds of the model
    DayLength,      \* seconds in a day of the model
    MaxSecond       \* time stops here

LimitAssumption ==
    /\ Daily \in Nat /\ Rate \in Nat /\ ProjectRate \in Nat
    /\ Lifetime \in Nat \ {0} /\ MaxSecond \in Nat

Seconds == 0 .. MaxSecond
Day(second) == second \div DayLength
Days == {Day(s) : s \in Seconds}

DefaultDaily == 86400
DefaultRate == 1

VARIABLES
    now,            \* the second of Utc::now()
    token,          \* the last second the consumer's token is valid in
    issue,          \* create_jwt in progress
    limits,         \* the keys dlimit and rlimit: value, and second they are gone
    count,          \* the counters of redis: of days, seconds, project seconds
    admitted,       \* queries let through in each day and second
    task            \* the queries being checked

vars == <<now, token, issue, limits, count, admitted, task>>

Unlimited == [value |-> 0, until |-> 0]

----------------------------------------------------------------------------
(* create_jwt: the expiration is computed first, the limits are saved one  *)
(* after the other, then the token is handed out.                          *)
NotIssuing == [pc |-> "none", exp |-> 0]

(* Mutant of LimitLife: the limits live as long as the token.              *)
LimitLifeShort == Lifetime

(* The limits outlive the token.                                           *)
LimitLife == Lifetime * 2

SetEx(value) == [value |-> value, until |-> now + LimitLife]

IssueStart ==
    /\ issue.pc = "none"
    /\ issue' = [pc |-> "daily", exp |-> now + Lifetime]
    /\ UNCHANGED <<now, token, limits, count, admitted, task>>

SaveDaily ==
    /\ issue.pc = "daily"
    /\ limits' = [limits EXCEPT !.daily = SetEx(Daily)]
    /\ issue' = [issue EXCEPT !.pc = "rate"]
    /\ UNCHANGED <<now, token, count, admitted, task>>

SaveRate ==
    /\ issue.pc = "rate"
    /\ limits' = [limits EXCEPT !.rate = SetEx(Rate)]
    /\ token' = issue.exp
    /\ issue' = NotIssuing
    /\ UNCHANGED <<now, count, admitted, task>>

----------------------------------------------------------------------------
(* A query: "http" and "ws" are of the agreement, the limit per second is  *)
(* for "http" alone; "payg" is of the project.                             *)
Free == [pc |-> "free", kind |-> "http", at |-> 0,
         daily |-> 0, rate |-> 0, days |-> 0, seconds |-> 0]

Present(key) == key.until > now
Get(key, default) == IF Present(key) THEN key.value ELSE default

TokenValid == token >= now

(* check_jwt, the date and the second, and the limits.                     *)
Start(t) ==
    /\ task[t].pc = "free" /\ token > 0 /\ TokenValid
    /\ \E kind \in {"http", "ws"} :
          task' = [task EXCEPT ![t] = [Free EXCEPT !.pc = "read", !.kind = kind, !.at = now,
                       !.daily = Get(limits.daily, DefaultDaily),
                       !.rate = Get(limits.rate, DefaultRate)]]
    /\ UNCHANGED <<now, token, issue, limits, count, admitted>>

StartPayg(t) ==
    /\ task[t].pc = "free"
    /\ task' = [task EXCEPT ![t] = [Free EXCEPT !.pc = "read", !.kind = "payg", !.at = now]]
    /\ UNCHANGED <<now, token, issue, limits, count, admitted>>

Exceeds(times, limit) == times + 1 > limit

Read(t) ==
    LET k == task[t]
        days == count.day[Day(k.at)]
        seconds == IF k.kind = "payg" THEN count.project[k.at] ELSE count.second[k.at]
        refused == CASE k.kind = "http" -> Exceeds(days, k.daily) \/ Exceeds(seconds, k.rate)
                     [] k.kind = "ws"   -> Exceeds(days, k.daily)
                     [] k.kind = "payg" -> Exceeds(seconds, ProjectRate) IN
    /\ k.pc = "read"
    /\ task' = [task EXCEPT ![t] = IF refused THEN Free
                                   ELSE [k EXCEPT !.pc = "write", !.days = days,
                                                  !.seconds = seconds]]
    /\ UNCHANGED <<now, token, issue, limits, count, admitted>>

(* The date and the second are taken again for the write, but not for a    *)
(* project: its key is that of the read.                                   *)
Write(t) ==
    LET k == task[t] IN
    /\ k.pc = "write"
    /\ IF k.kind = "payg"
       THEN /\ count' = [count EXCEPT !.project[k.at] = k.seconds + 1]
            /\ admitted' = [admitted EXCEPT !.project[k.at] = @ + 1]
            /\ task' = [task EXCEPT ![t] = Free]
       ELSE /\ count' = [count EXCEPT !.day[Day(now)] = k.days + 1]
            /\ admitted' = [admitted EXCEPT !.day[Day(now)] = @ + 1]
            /\ task' = [task EXCEPT ![t] = IF k.kind = "ws" THEN Free
                                           ELSE [k EXCEPT !.pc = "rate", !.at = now]]
    /\ UNCHANGED <<now, token, issue, limits>>

WriteRate(t) ==
    LET k == task[t] IN
    /\ k.pc = "rate"
    /\ count' = [count EXCEPT !.second[k.at] = k.seconds + 1]
    /\ admitted' = [admitted EXCEPT !.second[k.at] = @ + 1]
    /\ task' = [task EXCEPT ![t] = Free]
    /\ UNCHANGED <<now, token, issue, limits>>

Tick ==
    /\ now < MaxSecond /\ now' = now + 1
    /\ UNCHANGED <<token, issue, limits, count, admitted, task>>

Zero == [day |-> [d \in Days |-> 0], second |-> [s \in Seconds |-> 0],
         project |-> [s \in Seconds |-> 0]]

Init ==
    /\ now = 0 /\ token = 0
    /\ issue = NotIssuing
    /\ limits = [daily |-> Unlimited, rate |-> Unlimited]
    /\ count = Zero /\ admitted = Zero
    /\ task = [t \in Tasks |-> Free]

Next ==
    \/ IssueStart \/ SaveDaily \/ SaveRate \/ Tick
    \/ \E t \in Tasks : Start(t) \/ StartPayg(t) \/ Read(t) \/ Write(t) \/ WriteRate(t)

Spec == Init /\ [][Next]_vars

Counts == [day : [Days -> Nat], second : [Seconds -> Nat], project : [Seconds -> Nat]]
Limit == [value : Nat, until : Nat]
Query == [pc : {"free", "read", "write", "rate"}, kind : {"http", "ws", "payg"}, at : Seconds,
          daily : Nat, rate : Nat, days : Nat, seconds : Nat]

(* The types of the keys and of the queries.                               *)
TypeOK ==
    /\ now \in Seconds /\ token \in Nat
    /\ issue \in [pc : {"none", "daily", "rate"}, exp : Nat]
    /\ limits \in [daily : Limit, rate : Limit]
    /\ count \in Counts /\ admitted \in Counts
    /\ task \in [Tasks -> Query]

(* While a token is valid its limits are in redis: no query is measured by *)
(* the defaults, whenever the token was issued again.                      *)
TokenHasLimits ==
    token > 0 /\ TokenValid => Present(limits.daily) /\ Present(limits.rate)

(* No more queries are let through in a day, in a second and for a project *)
(* than their limits: of queries that come one at a time, also when        *)
(* midnight or the end of the second falls between a check and its write;  *)
(* of queries at the same time, the dictionary of errors says so ("reach   *)
(* the max limit of agreement in 24h").                                    *)
WithinLimits ==
    /\ \A d \in Days : admitted.day[d] <= Daily
    /\ \A s \in Seconds : admitted.second[s] <= Rate /\ admitted.project[s] <= ProjectRate

=============================================================================
