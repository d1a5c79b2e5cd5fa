------------------------------ MODULE AiStream ------------------------------
(* Streams of a model's answers, paid from a channel by the token: the     *)
(* request before it is forwarded, the answer in batches as it passes, and *)
(* the rest at its end.  A charge reads the channel's key and writes it    *)
(* back in commands of their own, so two streams may overwrite each other. *)
EXTENDS Naturals

CONSTANTS
    Streams,
    Requests,       \* tokens of a request
    Batch,          \* BATCH
    RangeMax,       \* MULTIPLE_RANGE_MAX
    Ends,           \* ends of the ranges the consumer may sign; they start at 0
    Total,          \* funds of the channel, of price 1
    MaxMessages,    \* a model says no more than this
    None            \* nothing held, no key

StreamAssumption ==
    /\ Requests \subseteq Nat
    /\ Batch \in Nat \ {0} /\ Total \in Nat /\ MaxMessages \in Nat
    /\ None \notin Nat

VARIABLES
    cache,          \* the units spent, of the key "<id>-channel", or None
    stream,         \* connect_remote of each stream
    notes           \* history: states sent to the consumer

vars == <<cache, stream, notes>>

Fresh == [pc |-> "idle", tokens |-> 0, end |-> 0, count |-> 0, held |-> None, due |-> 0,
          next |-> "idle", asked |-> FALSE, sent |-> 0, paid |-> 0, left |-> MaxMessages]

----------------------------------------------------------------------------
(* pay_by_token: before_query_multiple_state, the note, and the write.  An *)
(* inactive range is charged like an active one.                           *)
Due(num) == IF num > 1 THEN num ELSE 1

Owe(s, k, num, must, next) ==
    stream' = [stream EXCEPT ![s] = [k EXCEPT !.pc = IF must THEN "tell" ELSE "ask",
                                              !.due = Due(num), !.next = next]]

Inactive(s) == cache + stream[s].due > stream[s].end

Pay(s) ==
    LET k == stream[s] IN
    /\ k.pc \in {"tell", "ask"}
    /\ IF cache # None /\ cache + k.due <= Total /\ k.end <= RangeMax
       THEN /\ stream' = [stream EXCEPT ![s].pc = "write", ![s].held = cache + k.due]
            /\ notes' = [notes EXCEPT ![s] =
                   IF k.pc = "tell" \/ Inactive(s) THEN "state" ELSE @]
       ELSE /\ stream' = [stream EXCEPT ![s].pc = "failed"]
            /\ notes' = [notes EXCEPT ![s] = "error"]
    /\ UNCHANGED cache

Write(s) ==
    /\ stream[s].pc = "write"
    /\ cache' = stream[s].held
    /\ stream' = [stream EXCEPT ![s].pc = stream[s].next, ![s].held = None,
                     ![s].paid = IF stream[s].asked THEN @ + stream[s].due ELSE @]
    /\ UNCHANGED notes

----------------------------------------------------------------------------
(* connect_remote                                                          *)
Open(s) ==
    /\ stream[s].pc = "idle"
    /\ \E tokens \in Requests, end \in Ends :
          Owe(s, [Fresh EXCEPT !.tokens = tokens, !.end = end], tokens, TRUE, "post")
    /\ UNCHANGED <<cache, notes>>

(* The request is posted to the model, which may not answer.               *)
PostRequest(s) ==
    /\ stream[s].pc = "post"
    /\ \/ stream' = [stream EXCEPT ![s].pc = "stream", ![s].asked = TRUE]
       \/ stream' = [stream EXCEPT ![s].pc = "failed"]
    /\ UNCHANGED <<cache, notes>>

(* Mutant of NextMessage: a full batch is counted on.                      *)
NextMessageCounts(s) ==
    LET k == [stream[s] EXCEPT !.count = @ + 1, !.left = @ - 1] IN
    /\ stream[s].pc = "stream" /\ k.left \in Nat
    /\ IF stream[s].count = Batch THEN Owe(s, [k EXCEPT !.count = 0], Batch, FALSE, "send")
       ELSE stream' = [stream EXCEPT ![s] = [k EXCEPT !.pc = "send"]]
    /\ UNCHANGED <<cache, notes>>

(* A message of the model: a full batch is paid before its last message.   *)
NextMessage(s) ==
    LET k == [stream[s] EXCEPT !.count = @ + 1, !.left = @ - 1] IN
    /\ stream[s].pc = "stream" /\ stream[s].left > 0
    /\ IF k.count = Batch THEN Owe(s, [k EXCEPT !.count = 0], Batch, FALSE, "send")
       ELSE stream' = [stream EXCEPT ![s] = [k EXCEPT !.pc = "send"]]
    /\ UNCHANGED <<cache, notes>>

EndOfAnswer(s, k) ==
    IF k.count # 0 THEN Owe(s, [k EXCEPT !.count = 0], k.count, TRUE, "done")
    ELSE stream' = [stream EXCEPT ![s] = [k EXCEPT !.pc = "done"]]

(* It is sent to the consumer, who may have gone: that ends the answer.    *)
Send(s) ==
    /\ stream[s].pc = "send"
    /\ \/ stream' = [stream EXCEPT ![s].pc = "stream", ![s].sent = @ + 1]
       \/ EndOfAnswer(s, stream[s])
    /\ UNCHANGED <<cache, notes>>

Finish(s) ==
    /\ stream[s].pc = "stream"
    /\ EndOfAnswer(s, stream[s])
    /\ UNCHANGED <<cache, notes>>

Close(s) ==
    /\ stream[s].pc \in {"done", "failed"}
    /\ stream' = [stream EXCEPT ![s] = Fresh]
    /\ notes' = [notes EXCEPT ![s] = "none"]
    /\ UNCHANGED cache

----------------------------------------------------------------------------
(* The key expires and is stored again with what the coordinator knows.    *)
Expire ==
    /\ cache # None /\ cache' = None
    /\ UNCHANGED <<stream, notes>>

Load ==
    /\ cache = None /\ cache' = 0
    /\ UNCHANGED <<stream, notes>>

Init ==
    /\ cache = 0
    /\ stream = [s \in Streams |-> Fresh]
    /\ notes = [s \in Streams |-> "none"]

Next ==
    \/ \E s \in Streams :
          \/ Open(s) \/ Pay(s) \/ Write(s) \/ PostRequest(s) \/ NextMessage(s)
          \/ Send(s) \/ Finish(s) \/ Close(s)
    \/ Expire \/ Load

Spec == Init /\ [][Next]_vars

Stream ==
    [pc : {"idle", "tell", "ask", "write", "post", "stream", "send", "done", "failed"},
     next : {"idle", "post", "send", "done"}, tokens : {0} \cup Requests, end : {0} \cup Ends,
     count : 0 .. Batch, left : 0 .. MaxMessages, held : (0 .. Total) \cup {None},
     asked : BOOLEAN, due : Nat, sent : Nat, paid : Nat]

(* The types of the key and the streams; what is written is at hand.       *)
TypeOK ==
    /\ cache \in (0 .. Total) \cup {None}
    /\ stream \in [Streams -> Stream]
    /\ notes \in [Streams -> {"none", "state", "error"}]
    /\ \A s \in Streams : stream[s].pc = "write" => stream[s].held # None

(* The consumer is given less than a batch on credit, whenever a charge is *)
(* refused or the other stream takes the funds; nothing if the stream ends *)
(* well, and nothing before the request itself is paid.                    *)
LessThanBatchUnpaid ==
    \A s \in Streams :
        /\ stream[s].sent < stream[s].paid + Batch
        /\ stream[s].pc = "done" => stream[s].sent <= stream[s].paid
        /\ stream[s].sent > 0 => stream[s].asked /\ notes[s] # "none"

=============================================================================
