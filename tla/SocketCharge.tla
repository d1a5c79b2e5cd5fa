---------------------------- MODULE SocketCharge ----------------------------
(* Websockets of one pay-as-you-go channel.  A request is checked and its  *)
(* charge is kept in a slot of redis, one per channel, until the answer    *)
(* comes; an answer without a slot, like the later ones of a subscription, *)
(* is charged one unit.  Each socket handles one message at a time; two    *)
(* sockets of the channel share the key, the slot and nothing else.        *)
EXTENDS Naturals

CONSTANTS
    Sockets,
    Units,          \* what compute_query_method may give a request
    Ends,           \* ends of the ranges the consumer may sign; they start at 0
    Price, Total,   \* of the channel, when it is opened
    MaxTotal,       \* the consumer adds funds up to this
    RangeMax,       \* MULTIPLE_RANGE_MAX
    MaxBill,        \* no answer comes once this much is billed
    None            \* no key, no slot

State == [spent : Nat, total : Total .. MaxTotal]
Charge == [state : State, charge : Nat]

SocketAssumption ==
    /\ Units \subseteq Nat
    /\ Price \in Nat /\ Total \in Nat /\ MaxTotal \in Nat /\ Total <= MaxTotal
    /\ None \notin State \cup Charge

VARIABLES
    cache,          \* the value of the key "<id>-channel", or None
    total,          \* the funds the coordinator last reported
    slot,           \* the value of "<id>-channel-ws", or None
    socket,         \* each WebSocketConnection and the message it handles
    bill            \* history: the charges of the answers sent

vars == <<cache, total, slot, socket, bill>>

Fresh == [pc |-> "idle", open |-> TRUE, sent |-> FALSE, end |-> 0, next |-> 0, held |-> None]

----------------------------------------------------------------------------
(* check_multiple_state_balance: the errors, and the answer "inactive".    *)
Affordable(c, cost) == c.spent + cost <= c.total

Balanced(c, cost, end) == Affordable(c, cost) /\ end <= RangeMax

Inactive(c, cost, end) == c.spent + cost > end

Charged(c, cost) == [state |-> [c EXCEPT !.spent = @ + cost], charge |-> cost]

----------------------------------------------------------------------------
(* receive_text_msg.  A refused or inactive request changes nothing but    *)
(* the answer sent back.                                                   *)
Receive(s) ==
    /\ socket[s].open /\ socket[s].pc = "idle"
    /\ cache # None
    /\ \E end \in Ends, u \in Units :
          /\ Balanced(cache, Price * u, end)
          /\ ~Inactive(cache, Price * u, end)
          /\ socket' = [socket EXCEPT ![s].pc = "store", ![s].next = end,
                                      ![s].held = Charged(cache, Price * u)]
    /\ UNCHANGED <<cache, total, slot, bill>>

(* Mutant of StoreSlot: the request is charged before it is answered.      *)
StoreSlotCharges(s) ==
    /\ socket[s].pc = "store"
    /\ slot' = socket[s].held /\ cache' = socket[s].held.state
    /\ socket' = [socket EXCEPT ![s].pc = "idle", ![s].held = None,
                                ![s].end = socket[s].next, ![s].sent = TRUE]
    /\ UNCHANGED <<total, bill>>

(* The slot is stored, then the request is forwarded; when that fails the  *)
(* slot stays.                                                             *)
StoreSlot(s) ==
    /\ socket[s].pc = "store"
    /\ slot' = socket[s].held
    /\ \E sent \in {socket[s].sent, TRUE} :
          socket' = [socket EXCEPT ![s].pc = "idle", ![s].held = None,
                                   ![s].end = socket[s].next, ![s].sent = sent]
    /\ UNCHANGED <<cache, total, bill>>

----------------------------------------------------------------------------
(* send_text_msg, of an answer of the endpoint.  An error closes the       *)
(* socket, and the answer is not sent.                                     *)
Answer(s) ==
    /\ socket[s].open /\ socket[s].pc = "idle" /\ socket[s].sent
    /\ bill < MaxBill
    /\ socket' = [socket EXCEPT ![s].pc = IF slot = None THEN "unit" ELSE "delete",
                                ![s].held = slot]
    /\ UNCHANGED <<cache, total, slot, bill>>

DeleteSlot(s) ==
    /\ socket[s].pc = "delete"
    /\ slot' = None
    /\ socket' = [socket EXCEPT ![s].pc = "post"]
    /\ UNCHANGED <<cache, total, bill>>

Close(s) == socket' = [socket EXCEPT ![s] = [Fresh EXCEPT !.open = FALSE]]

OneUnit(s) ==
    /\ socket[s].pc = "unit"
    /\ IF cache # None /\ Balanced(cache, Price, socket[s].end)
       THEN socket' = [socket EXCEPT ![s].pc = "post", ![s].held = Charged(cache, Price)]
       ELSE Close(s)
    /\ UNCHANGED <<cache, total, slot, bill>>

(* The project is gone or at its limit for the second.                     *)
Refuse(s) ==
    /\ socket[s].pc = "post"
    /\ Close(s)
    /\ UNCHANGED <<cache, total, slot, bill>>

Post(s) ==
    /\ socket[s].pc = "post"
    /\ cache' = socket[s].held.state
    /\ bill' = bill + socket[s].held.charge
    /\ socket' = [socket EXCEPT ![s].pc = "idle", ![s].held = None]
    /\ UNCHANGED <<total, slot>>

Hangup(s) ==
    /\ socket[s].open /\ socket[s].pc = "idle"
    /\ Close(s)
    /\ UNCHANGED <<cache, total, slot, bill>>

----------------------------------------------------------------------------
(* The key and the slot expire; the poll stores the channel again and      *)
(* brings new funds.                                                       *)
Expire ==
    /\ \/ slot # None /\ slot' = None /\ UNCHANGED cache
       \/ cache # None /\ cache' = None /\ UNCHANGED slot
    /\ UNCHANGED <<total, socket, bill>>

Poll ==
    /\ cache' = IF cache = None THEN [spent |-> 0, total |-> total]
                ELSE [cache EXCEPT !.total = total]
    /\ UNCHANGED <<total, slot, socket, bill>>

Fund ==
    /\ total < MaxTotal /\ total' = total + 1
    /\ UNCHANGED <<cache, slot, socket, bill>>

Init ==
    /\ cache = None
    /\ total = Total
    /\ slot = None
    /\ socket = [s \in Sockets |-> Fresh]
    /\ bill = 0

Next ==
    \/ \E s \in Sockets :
          \/ Receive(s) \/ StoreSlot(s) \/ Answer(s) \/ DeleteSlot(s)
          \/ OneUnit(s) \/ Refuse(s) \/ Post(s) \/ Hangup(s)
    \/ Expire \/ Poll \/ Fund

Spec == Init /\ [][Next]_vars

Connection == [pc : {"idle", "store", "delete", "unit", "post"}, open : BOOLEAN, sent : BOOLEAN,
               end : {0} \cup Ends, next : {0} \cup Ends, held : Charge \cup {None}]

(* The types of the key, the slot and the sockets; a charge is held as     *)
(* long as there is something to do with it.                               *)
TypeOK ==
    /\ cache \in State \cup {None}
    /\ total \in Total .. MaxTotal
    /\ slot \in Charge \cup {None}
    /\ socket \in [Sockets -> Connection]
    /\ \A s \in Sockets : socket[s].pc \in {"store", "delete", "post"} => socket[s].held # None
    /\ bill \in Nat

(* The channel is charged for answers only: not for a request that the     *)
(* endpoint never answered, and once for a slot that two sockets took.     *)
ChargedForAnswers == cache # None => cache.spent <= bill

(* However the sockets take each other's slots, the charges never exceed   *)
(* the funds.                                                              *)
ChargesWithinFunds == cache # None => cache.spent <= total

(* What the account of the channel may say, whatever its sockets do.       *)
SocketsCovered == ChargedForAnswers /\ ChargesWithinFunds

=============================================================================
