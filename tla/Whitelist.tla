------------------------------ MODULE Whitelist ------------------------------
(* The proxy's whitelist of accounts: a cache of the consumer registry's   *)
(* answers, filled by the queries of an account and thinned by a loop.     *)
EXTENDS FiniteSets

CONSTANTS Accounts, None

VARIABLES
    listed,         \* the registry: accounts on the whitelist
    accounts,       \* WHITELIST: the cached answer, or None
    asker,          \* the query that holds the lock: account, answer; or None
    pass,           \* the loop: its step, accounts to check and to delete
    due             \* the refresh time has passed since the last pass began

vars == <<listed, accounts, asker, pass, due>>

Cached == {a \in Accounts : accounts[a] # None}

----------------------------------------------------------------------------
(* is_whitelisted: the lock is held while the registry is asked; a failed  *)
(* call refuses the query and caches nothing.                              *)
Ask(a) ==
    /\ asker = None /\ accounts[a] = None
    /\ asker' = [account |-> a, answer |-> None]
    /\ UNCHANGED <<listed, accounts, pass, due>>

Reply ==
    /\ asker # None /\ asker.answer = None
    /\ \/ asker' = [asker EXCEPT !.answer = asker.account \in listed]
       \/ asker' = None
    /\ UNCHANGED <<listed, accounts, pass, due>>

Insert ==
    /\ asker # None /\ asker.answer # None
    /\ accounts' = [accounts EXCEPT ![asker.account] = asker.answer]
    /\ asker' = None
    /\ UNCHANGED <<listed, pass, due>>

----------------------------------------------------------------------------
(* listen: the wait comes before the loop, not in it.                      *)
Asleep == [pc |-> "asleep", todo |-> {}, deletes |-> {}]

Wake ==
    /\ pass.pc = "asleep" /\ due
    /\ pass' = [pass EXCEPT !.pc = "list"]
    /\ UNCHANGED <<listed, accounts, asker, due>>

BeginPass ==
    /\ pass.pc = "list" /\ asker = None
    /\ pass' = [pc |-> "check", todo |-> Cached, deletes |-> {}]
    /\ due' = FALSE
    /\ UNCHANGED <<listed, accounts, asker>>

(* Mutant of Outdated: nothing is deleted.                                 *)
OutdatedNone(a) == {}

(* An account whose call fails is left as it is.                           *)
Outdated(a) == IF a \in listed THEN {} ELSE {a}

Check(a) ==
    /\ pass.pc = "check" /\ a \in pass.todo
    /\ pass' = [pass EXCEPT !.todo = @ \ {a}, !.deletes = @ \cup Outdated(a)]
    /\ UNCHANGED <<listed, accounts, asker, due>>

CheckFails(a) ==
    /\ pass.pc = "check" /\ a \in pass.todo
    /\ pass' = [pass EXCEPT !.todo = @ \ {a}]
    /\ UNCHANGED <<listed, accounts, asker, due>>

EndPass ==
    /\ pass.pc = "check" /\ pass.todo = {} /\ asker = None
    /\ accounts' = [a \in Accounts |-> IF a \in pass.deletes THEN None ELSE accounts[a]]
    /\ pass' = [pass EXCEPT !.pc = "list"]
    /\ UNCHANGED <<listed, asker, due>>

Refresh == Wake \/ BeginPass \/ (\E a \in Accounts : Check(a)) \/ EndPass

----------------------------------------------------------------------------
List(a) ==
    /\ listed' = (listed \ {a}) \cup ({a} \ listed)
    /\ UNCHANGED <<accounts, asker, pass, due>>

Elapse ==
    /\ ~due /\ due' = TRUE
    /\ UNCHANGED <<listed, accounts, asker, pass>>

Init ==
    /\ listed = {}
    /\ accounts = [a \in Accounts |-> None]
    /\ asker = None
    /\ pass = Asleep
    /\ due = FALSE

Next ==
    \/ \E a \in Accounts : Ask(a) \/ CheckFails(a) \/ List(a)
    \/ Reply \/ Insert \/ Refresh \/ Elapse

Spec == Init /\ [][Next]_vars

(* Calls to the registry return, the loop goes on and gets the lock, which *)
(* tokio hands out in the order of the requests.                           *)
Fairness == WF_vars(Reply) /\ WF_vars(Insert) /\ SF_vars(Refresh) /\ WF_vars(Elapse)

(* The types of the cache and the loop.                                    *)
TypeOK ==
    /\ listed \subseteq Accounts
    /\ accounts \in [Accounts -> BOOLEAN \cup {None}]
    /\ asker # None => /\ asker.account \in Accounts
                       /\ asker.answer \in BOOLEAN \cup {None}
    /\ pass.pc \in {"asleep", "list", "check"} /\ pass.todo \subseteq Accounts
    /\ due \in BOOLEAN

(* An account that is struck off is refused at last, and stays refused,    *)
(* also when it asked while a pass was under way; calls may fail, but not  *)
(* for ever.                                                               *)
RevokedRefused ==
    (\A a \in Accounts : SF_vars(Check(a))) =>
        \A a \in Accounts : <>[](a \notin listed) => <>[](accounts[a] # TRUE)

(* The loop passes once in a refresh time ("loop refresh whitelist time:   *)
(* 30min").                                                                *)
OncePerRefreshTime == [][pass.pc = "list" /\ pass'.pc = "check" => due]_vars

==============================================================================
