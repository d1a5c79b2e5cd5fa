------------------------------ MODULE TxQueue -------------------------------
(***************************************************************************)
(* What the coordinator's transaction sender promises to its callers       *)
(* (mutexTransaction of indexer-coordinator/src/core/contract.service.ts): *)
(* a transaction that is let in is processed alone, in order of arrival,   *)
(* whatever became of the transactions before it.                          *)
(***************************************************************************)
EXTENDS Naturals

CONSTANT Calls      \* the calls of sendTransaction

VARIABLES
    stage,     \* where each call is
    ticket,    \* the order of arrival, 0 for a call that has not arrived
    arrived    \* how many calls have arrived

queueVars == <<stage, ticket, arrived>>

Init ==
    /\ stage = [c \in Calls |-> "out"]
    /\ ticket = [c \in Calls |-> 0]
    /\ arrived = 0

Arrive(c) ==
    /\ stage[c] = "out"
    /\ stage' = [stage EXCEPT ![c] = "waiting"]
    /\ arrived' = arrived + 1
    /\ ticket' = [ticket EXCEPT ![c] = arrived + 1]

Begin(c) ==
    /\ stage[c] = "waiting"
    /\ \A d \in Calls : ticket[d] \in 1 .. (ticket[c] - 1) => stage[d] = "done"
    /\ stage' = [stage EXCEPT ![c] = "active"]
    /\ UNCHANGED <<ticket, arrived>>

End(c) ==
    /\ stage[c] = "active"
    /\ stage' = [stage EXCEPT ![c] = "done"]
    /\ UNCHANGED <<ticket, arrived>>

Next == \E c \in Calls : Arrive(c) \/ Begin(c) \/ End(c)

Spec == Init /\ [][Next]_queueVars
=============================================================================
