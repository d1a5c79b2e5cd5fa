------------------------------- MODULE MCStore -------------------------------
(* Two concurrent calls on a channel's row, on small instances.  A         *)
(* behaviour is of one part: updates and settlements; extensions of a      *)
(* channel that is also funded; or settlements of a channel whose updates  *)
(* come from the proxy.                                                    *)
EXTENDS MCChannelStore, PaygParts

CONSTANT h1

Extending == INSTANCE ChannelStore WITH
    Calls <- {"extend"}, Expiries <- {1, 2}, MaxTotal <- 2

MCUnits == {[times |-> 1, overflow |-> 1]}

\* With the proxy, two things in all are on their way: a call or an event, the
\* proxy's tasks, poll and updates (one of a kind), an expiry.
One(is) == IF is THEN 1 ELSE 0

AtMostTwo ==
    LET calls == Cardinality({j \in Jobs : jobs[j] # IdleJob})
        queries == Cardinality({h \in Handlers : tasks[h] # Cache!IdleTask})
        updates == Cardinality({m \in Cache!Update : outbox[m] > 0})
    IN /\ calls + Cardinality(events) <= 1
       /\ \A m \in Cache!Update : outbox[m] <= 1
       /\ calls + Cardinality(events) + queries + updates
            + One(poll.pc # "idle") + One(past) <= 2

\* Without a limit of the gas it makes no difference whether a call may be
\* postponed: every checkpoint is.
AllPostponed == \A j \in Jobs : jobs[j].op = "checkpoint" => jobs[j].postponed

MCInit ==
    /\ part \in {"settling", "extending", "payg"}
    /\ PaygInit
    /\ part = "extending" => Extending!Init

MCNext ==
    /\ \/ part = "settling" /\ Next /\ UNCHANGED <<proxyVars, hist, past>>
       \/ part = "extending" /\ Extending!Next /\ UNCHANGED <<proxyVars, hist, past>>
       \/ part = "payg" /\ PaygNext /\ AtMostTwo'
    /\ AllPostponed'
    /\ UNCHANGED part

MCSpec == MCInit /\ [][MCNext]_<<part, paygVars>>
=============================================================================
