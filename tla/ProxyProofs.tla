----------------------------- MODULE ProxyProofs ----------------------------
(* Proofs about what the proxy charges and counts outside the account of a *)
(* channel, SocketCharge, AiStream, AgreementLimit and QueryStats, and     *)
(* about its identity and its p2p loop, ControllerAccount and MetricsPeer, *)
(* each for any values of its constants that satisfy its assumption.       *)
EXTENDS ProxyParts, PeerParts, Naturals, Sequences, FiniteSetTheorems, TLAPS

-----------------------------------------------------------------------------
(* SocketCharge.  A copy of the key may be stored much later, with a       *)
(* charge; it never holds more than what is billed by then, the charge     *)
(* included, nor more than the funds.                                      *)

CopyOK(c) == c.spent <= c.total /\ c.total <= total
ChargeOK(h) == CopyOK(h.state) /\ h.state.spent <= bill + h.charge

SocketInv ==
    /\ Socket!TypeOK
    /\ wsCache # None => CopyOK(wsCache) /\ wsCache.spent <= bill
    /\ slot # None => ChargeOK(slot)
    /\ \A s \in Sockets : socket[s].held # None => ChargeOK(socket[s].held)

\* What is charged to a key that the sockets may rely on is a charge.
LEMMA ChargedOK ==
    ASSUME Socket!SocketAssumption, NEW c \in Socket!State, NEW cost \in Nat,
           Socket!Affordable(c, cost), CopyOK(c), c.spent <= bill,
           total \in Nat, bill \in Nat
    PROVE  Socket!Charged(c, cost) \in Socket!Charge /\ ChargeOK(Socket!Charged(c, cost))
  BY DEF Socket!SocketAssumption, Socket!State, Socket!Charge, Socket!Affordable,
         Socket!Charged, CopyOK, ChargeOK

\* A socket's own step leaves the others alone.
LEMMA SocketUpdate ==
    ASSUME Socket!TypeOK, NEW s \in Sockets, NEW k \in Socket!Connection,
           k.pc \in {"store", "delete", "post"} => k.held # None,
           socket' = [socket EXCEPT ![s] = k]
    PROVE  /\ socket' \in [Sockets -> Socket!Connection]
           /\ \A t \in Sockets :
                 socket'[t].pc \in {"store", "delete", "post"} => socket'[t].held # None
  BY DEF Socket!TypeOK

LEMMA SocketStep ==
    ASSUME Socket!SocketAssumption, SocketInv, [Socket!Next]_(Socket!vars)
    PROVE  SocketInv'
<1> DEFINE Held(h) == h # None => ChargeOK(h)
\* A socket that keeps its charge, drops it, or takes one that is right.
<1>1. ASSUME NEW s \in Sockets, NEW k \in Socket!Connection,
             k.pc \in {"store", "delete", "post"} => k.held # None, Held(k.held),
             socket' = [socket EXCEPT ![s] = k],
             UNCHANGED <<wsCache, total, slot, bill>>
      PROVE  SocketInv'
  <2>1. Socket!TypeOK'
    BY <1>1, SocketUpdate DEF SocketInv, Socket!TypeOK
  <2>2. ASSUME NEW t \in Sockets, socket'[t].held # None
        PROVE  ChargeOK(socket[t].held)'
    BY <1>1, <2>2 DEF SocketInv, Socket!TypeOK, ChargeOK, CopyOK
  <2> QED
    BY <1>1, <2>1, <2>2 DEF SocketInv, ChargeOK, CopyOK
<1>2. ASSUME NEW s \in Sockets, Socket!Receive(s)
      PROVE  SocketInv'
  <2>1. PICK end \in Ends, u \in WsUnits :
           /\ Socket!Balanced(wsCache, Price * u, end)
           /\ socket' = [socket EXCEPT ![s].pc = "store", ![s].next = end,
                                       ![s].held = Socket!Charged(wsCache, Price * u)]
    BY <1>2 DEF Socket!Receive
  <2> DEFINE h == Socket!Charged(wsCache, Price * u)
  <2>2. Price * u \in Nat /\ wsCache \in Socket!State
    BY <1>2 DEF Socket!Receive, Socket!SocketAssumption, SocketInv, Socket!TypeOK
  <2>3. h \in Socket!Charge /\ ChargeOK(h) /\ h # None
    <3>1. h \in Socket!Charge /\ ChargeOK(h)
      BY <1>2, <2>1, <2>2, ChargedOK
         DEF SocketInv, Socket!TypeOK, Socket!Balanced, Socket!Receive, Socket!SocketAssumption
    <3> QED
      BY <3>1 DEF Socket!SocketAssumption
  <2> HIDE DEF h
  <2> DEFINE k == [socket[s] EXCEPT !.pc = "store", !.next = end, !.held = h]
  <2>4. k \in Socket!Connection /\ k.held = h
    BY <2>3 DEF SocketInv, Socket!TypeOK, Socket!Connection
  <2>5. socket' = [socket EXCEPT ![s] = k]
    BY <2>1 DEF h
  <2> HIDE DEF k
  <2> QED
    BY <1>1, <1>2, <2>3, <2>4, <2>5 DEF Socket!Receive
<1>3. ASSUME NEW s \in Sockets, Socket!StoreSlot(s)
      PROVE  SocketInv'
  <2>1. slot' = socket[s].held /\ socket[s].held # None /\ socket[s].held \in Socket!Charge
        /\ ChargeOK(socket[s].held)
    BY <1>3 DEF Socket!StoreSlot, SocketInv, Socket!TypeOK, Socket!Connection
  <2>2. PICK sent \in {socket[s].sent, TRUE} :
           socket' = [socket EXCEPT ![s] = [socket[s] EXCEPT !.pc = "idle", !.held = None,
                                               !.end = socket[s].next, !.sent = sent]]
    BY <1>3 DEF Socket!StoreSlot
  <2> DEFINE k == [socket[s] EXCEPT !.pc = "idle", !.held = None, !.end = socket[s].next,
                                    !.sent = sent]
  <2>3. k \in Socket!Connection /\ k.held = None /\ k.pc = "idle"
    BY DEF SocketInv, Socket!TypeOK, Socket!Connection
  <2>4. socket' = [socket EXCEPT ![s] = k]
    BY <2>2
  <2> HIDE DEF k
  <2>5. Socket!TypeOK'
    BY <1>3, <2>1, <2>3, <2>4, SocketUpdate DEF SocketInv, Socket!TypeOK, Socket!StoreSlot
  <2>6. ASSUME NEW t \in Sockets, socket'[t].held # None
        PROVE  ChargeOK(socket[t].held)'
    BY <1>3, <2>3, <2>4, <2>6
       DEF SocketInv, Socket!TypeOK, ChargeOK, CopyOK, Socket!StoreSlot
  <2> QED
    BY <1>3, <2>1, <2>5, <2>6 DEF SocketInv, ChargeOK, CopyOK, Socket!StoreSlot
<1>4. ASSUME NEW s \in Sockets, Socket!Answer(s)
      PROVE  SocketInv'
  <2> DEFINE k == [socket[s] EXCEPT !.pc = IF slot = None THEN "unit" ELSE "delete",
                                    !.held = slot]
  <2>1. k \in Socket!Connection /\ k.held = slot /\ (slot = None => k.pc = "unit")
    BY DEF SocketInv, Socket!TypeOK, Socket!Connection
  <2>2. socket' = [socket EXCEPT ![s] = k] /\ UNCHANGED <<wsCache, total, slot, bill>>
    BY <1>4 DEF Socket!Answer
  <2> HIDE DEF k
  <2> QED
    BY <1>1, <2>1, <2>2 DEF SocketInv
<1>5. ASSUME NEW s \in Sockets, Socket!DeleteSlot(s)
      PROVE  SocketInv'
  <2> DEFINE k == [socket[s] EXCEPT !.pc = "post"]
  <2>1. k \in Socket!Connection /\ k.held = socket[s].held /\ k.held # None
    BY <1>5 DEF SocketInv, Socket!TypeOK, Socket!Connection, Socket!DeleteSlot
  <2>2. socket' = [socket EXCEPT ![s] = k]
    BY <1>5 DEF Socket!DeleteSlot
  <2> HIDE DEF k
  <2>3. Socket!TypeOK'
    BY <1>5, <2>1, <2>2, SocketUpdate DEF SocketInv, Socket!TypeOK, Socket!DeleteSlot
  <2>4. ASSUME NEW t \in Sockets, socket'[t].held # None
        PROVE  ChargeOK(socket[t].held)'
    BY <1>5, <2>1, <2>2, <2>4
       DEF SocketInv, Socket!TypeOK, ChargeOK, CopyOK, Socket!DeleteSlot
  <2> QED
    BY <1>5, <2>3, <2>4 DEF SocketInv, ChargeOK, CopyOK, Socket!DeleteSlot
<1>6. ASSUME NEW s \in Sockets, Socket!Close(s), UNCHANGED <<wsCache, total, slot, bill>>
      PROVE  SocketInv'
  <2> DEFINE k == [Socket!Fresh EXCEPT !.open = FALSE]
  <2>1. k \in Socket!Connection /\ k.held = None /\ k.pc = "idle"
    BY DEF Socket!Connection, Socket!Fresh
  <2>2. socket' = [socket EXCEPT ![s] = k]
    BY <1>6 DEF Socket!Close
  <2> HIDE DEF k
  <2> QED
    BY <1>1, <1>6, <2>1, <2>2
<1>7. ASSUME NEW s \in Sockets, Socket!OneUnit(s)
      PROVE  SocketInv'
  <2>1. CASE wsCache # None /\ Socket!Balanced(wsCache, Price, socket[s].end)
    <3> DEFINE h == Socket!Charged(wsCache, Price)
               k == [socket[s] EXCEPT !.pc = "post", !.held = h]
    <3>1. wsCache \in Socket!State
      BY <2>1 DEF SocketInv, Socket!TypeOK
    <3>2. h \in Socket!Charge /\ ChargeOK(h)
      BY <2>1, <3>1, ChargedOK
         DEF SocketInv, Socket!TypeOK, Socket!Balanced, Socket!SocketAssumption
    <3>3. h # None
      BY <3>2 DEF Socket!SocketAssumption
    <3>4. socket' = [socket EXCEPT ![s] = k] /\ UNCHANGED <<wsCache, total, slot, bill>>
      BY <1>7, <2>1 DEF Socket!OneUnit
    <3> HIDE DEF h
    <3>5. k \in Socket!Connection /\ k.held = h
      BY <3>2 DEF SocketInv, Socket!TypeOK, Socket!Connection
    <3> HIDE DEF k
    <3> QED
      BY <1>1, <3>2, <3>3, <3>4, <3>5
  <2>2. CASE ~(wsCache # None /\ Socket!Balanced(wsCache, Price, socket[s].end))
    BY <1>6, <1>7, <2>2 DEF Socket!OneUnit
  <2> QED
    BY <2>1, <2>2
<1>8. ASSUME NEW s \in Sockets, Socket!Post(s)
      PROVE  SocketInv'
  <2> DEFINE h == socket[s].held
             k == [socket[s] EXCEPT !.pc = "idle", !.held = None]
  <2>1. h \in Socket!Charge /\ h # None /\ ChargeOK(h)
    BY <1>8 DEF Socket!Post, SocketInv, Socket!TypeOK, Socket!Connection
  <2>2. wsCache' = h.state /\ bill' = bill + h.charge /\ UNCHANGED <<total, slot>>
        /\ socket' = [socket EXCEPT ![s] = k]
    BY <1>8 DEF Socket!Post
  <2>3. k \in Socket!Connection /\ k.held = None /\ k.pc = "idle"
    BY DEF SocketInv, Socket!TypeOK, Socket!Connection
  <2> HIDE DEF k, h
  <2>4. wsCache' \in Socket!State /\ bill' \in Nat /\ bill \in Nat /\ bill <= bill'
        /\ CopyOK(wsCache)' /\ wsCache'.spent <= bill'
    BY <2>1, <2>2 DEF Socket!Charge, Socket!State, ChargeOK, CopyOK, SocketInv, Socket!TypeOK
  <2>5. Socket!TypeOK'
    BY <2>2, <2>3, <2>4, SocketUpdate DEF SocketInv, Socket!TypeOK
  <2>6. ASSUME NEW g \in Socket!Charge, ChargeOK(g)
        PROVE  ChargeOK(g)'
    BY <2>2, <2>4, <2>6 DEF ChargeOK, CopyOK, Socket!Charge, Socket!State
  <2>7. slot # None => ChargeOK(slot)'
    BY <2>2, <2>6 DEF SocketInv, Socket!TypeOK
  <2>8. ASSUME NEW t \in Sockets, socket'[t].held # None
        PROVE  ChargeOK(socket[t].held)'
    <3>1. t # s /\ socket'[t] = socket[t] /\ socket[t].held \in Socket!Charge
      BY <2>2, <2>3, <2>8 DEF SocketInv, Socket!TypeOK, Socket!Connection
    <3>2. ChargeOK(socket[t].held)'
      BY <2>6, <2>8, <3>1 DEF SocketInv
    <3> QED
      BY <3>1, <3>2 DEF ChargeOK, CopyOK
  <2> QED
    BY <2>2, <2>4, <2>5, <2>7, <2>8 DEF SocketInv, ChargeOK, CopyOK
<1>9. ASSUME Socket!Expire
      PROVE  SocketInv'
  BY <1>9 DEF Socket!Expire, SocketInv, Socket!TypeOK, ChargeOK, CopyOK
<1>10. ASSUME Socket!Poll
       PROVE  SocketInv'
  <2>1. wsCache' \in Socket!State /\ CopyOK(wsCache)' /\ wsCache'.spent <= bill'
    BY <1>10 DEF Socket!Poll, SocketInv, Socket!TypeOK, CopyOK, Socket!State,
                 Socket!SocketAssumption
  <2> QED
    BY <1>10, <2>1 DEF Socket!Poll, SocketInv, Socket!TypeOK, ChargeOK, CopyOK
<1>11. ASSUME Socket!Fund
       PROVE  SocketInv'
  <2>1. total \in Nat /\ total' = total + 1 /\ total' \in Total .. MaxTotal
        /\ UNCHANGED <<wsCache, slot, socket, bill>>
    BY <1>11 DEF Socket!Fund, SocketInv, Socket!TypeOK, Socket!SocketAssumption
  <2>2. ASSUME NEW c \in Socket!State, CopyOK(c)
        PROVE  CopyOK(c)'
    BY <2>1, <2>2 DEF CopyOK, Socket!State, Socket!SocketAssumption
  <2>3. ASSUME NEW h \in Socket!Charge, ChargeOK(h)
        PROVE  ChargeOK(h)'
    BY <2>1, <2>2, <2>3 DEF ChargeOK, Socket!Charge
  <2>4. Socket!TypeOK'
    BY <2>1 DEF SocketInv, Socket!TypeOK
  <2>5. ASSUME NEW t \in Sockets, socket'[t].held # None
        PROVE  ChargeOK(socket[t].held)'
    <3>1. socket'[t] = socket[t] /\ socket[t].held \in Socket!Charge
      BY <2>1, <2>5 DEF SocketInv, Socket!TypeOK, Socket!Connection
    <3>2. ChargeOK(socket[t].held)'
      BY <2>3, <2>5, <3>1 DEF SocketInv
    <3> QED
      BY <3>1, <3>2 DEF ChargeOK, CopyOK
  <2>6. wsCache' # None => CopyOK(wsCache)' /\ wsCache'.spent <= bill'
    BY <2>1, <2>2 DEF SocketInv, Socket!TypeOK
  <2>7. slot' # None => ChargeOK(slot)'
    BY <2>1, <2>3 DEF SocketInv, Socket!TypeOK
  <2> QED
    BY <2>4, <2>5, <2>6, <2>7 DEF SocketInv
<1>12. ASSUME UNCHANGED Socket!vars
       PROVE  SocketInv'
  BY <1>12 DEF Socket!vars, SocketInv, Socket!TypeOK, ChargeOK, CopyOK
<1> QED
  BY <1>2, <1>3, <1>4, <1>5, <1>6, <1>7, <1>8, <1>9, <1>10, <1>11, <1>12
     DEF Socket!Next, Socket!Refuse, Socket!Hangup

LEMMA SocketInit ==
    ASSUME Socket!SocketAssumption, Socket!Init
    PROVE  SocketInv
<1>1. Socket!Fresh \in Socket!Connection /\ Socket!Fresh.held = None /\ Socket!Fresh.pc = "idle"
  BY DEF Socket!Fresh, Socket!Connection
<1> QED
  BY <1>1 DEF Socket!Init, SocketInv, Socket!TypeOK, Socket!SocketAssumption

\* The key, the slot and the sockets keep their types.
THEOREM SocketTypeCorrect ==
    ASSUME Socket!SocketAssumption
    PROVE  Socket!Spec => []Socket!TypeOK
<1>1. Socket!Init => SocketInv
  BY SocketInit
<1>2. SocketInv /\ [Socket!Next]_(Socket!vars) => SocketInv'
  BY SocketStep
<1>3. SocketInv => Socket!TypeOK
  BY DEF SocketInv
<1> QED
  BY <1>1, <1>2, <1>3, PTL DEF Socket!Spec

\* A channel is charged for the answers of its sockets only, and within its
\* funds, however many sockets share its slot.
THEOREM SocketsSafe ==
    ASSUME Socket!SocketAssumption
    PROVE  Socket!Spec => []SocketsCovered
<1>1. Socket!Init => SocketInv
  BY SocketInit
<1>2. SocketInv /\ [Socket!Next]_(Socket!vars) => SocketInv'
  BY SocketStep
<1>3. ASSUME SocketInv
      PROVE  Socket!SocketsCovered
  BY <1>3 DEF SocketInv, Socket!TypeOK, CopyOK, Socket!State, Socket!SocketAssumption,
              Socket!SocketsCovered, Socket!ChargedForAnswers,
              Socket!ChargesWithinFunds
<1> QED
  BY <1>1, <1>2, <1>3, PTL DEF Socket!Spec, SocketsCovered

-----------------------------------------------------------------------------
(* AiStream.  Where a stream stands says how far its messages may be ahead *)
(* of its payments: the messages of the batch it counts, or the one that   *)
(* waits to be sent.                                                       *)

Paying(k) == k.pc \in {"tell", "ask", "write"}

StreamOK(k) ==
    /\ ~k.asked => k.sent = 0 /\ k.paid = 0
    /\ k.pc = "idle" => ~k.asked
    /\ k.pc = "post" => ~k.asked /\ k.count = 0
    /\ k.pc = "ask" => k.next = "send"
    /\ k.pc = "stream" => k.asked /\ k.count < Batch /\ k.sent = k.paid + k.count
    /\ k.pc = "send" => k.asked /\ k.count < Batch /\ k.sent + 1 = k.paid + k.count
    /\ Paying(k) => /\ k.next \in {"post", "send", "done"}
                    /\ k.next = "post" => ~k.asked /\ k.count = 0
                    /\ k.next = "send" => k.asked /\ k.count = 0 /\ k.due = Batch
                                          /\ k.sent + 1 = k.paid + k.due
                    /\ k.next = "done" => k.asked /\ k.due < Batch /\ k.sent <= k.paid + k.due
    /\ k.pc = "done" => k.asked /\ k.sent <= k.paid
    /\ k.pc = "failed" => k.sent < k.paid + Batch

NoteOK(k, note) == (k.asked \/ k.pc \in {"write", "post"}) => note # "none"

StreamInv ==
    /\ Ai!TypeOK
    /\ \A s \in Streams : StreamOK(stream[s]) /\ NoteOK(stream[s], notes[s])

\* A stream keeps its type when one field is set: a step that sets several is
\* a chain of these.
LEMMA SetField ==
    ASSUME NEW k \in Ai!Stream
    PROVE  /\ \A v \in {"idle", "tell", "ask", "write", "post", "stream", "send", "done",
                      "failed"} :
                 [k EXCEPT !.pc = v] \in Ai!Stream
           /\ \A v \in {"idle", "post", "send", "done"} : [k EXCEPT !.next = v] \in Ai!Stream
           /\ \A v \in {0} \cup AiRequests : [k EXCEPT !.tokens = v] \in Ai!Stream
           /\ \A v \in {0} \cup AiEnds : [k EXCEPT !.end = v] \in Ai!Stream
           /\ \A v \in 0 .. Batch : [k EXCEPT !.count = v] \in Ai!Stream
           /\ \A v \in 0 .. MaxMessages : [k EXCEPT !.left = v] \in Ai!Stream
           /\ \A v \in (0 .. AiTotal) \cup {None} : [k EXCEPT !.held = v] \in Ai!Stream
           /\ \A v \in BOOLEAN : [k EXCEPT !.asked = v] \in Ai!Stream
           /\ \A v \in Nat : [k EXCEPT !.due = v] \in Ai!Stream
           /\ \A v \in Nat : [k EXCEPT !.sent = v] \in Ai!Stream
           /\ \A v \in Nat : [k EXCEPT !.paid = v] \in Ai!Stream
  BY DEF Ai!Stream

LEMMA StreamUpdate ==
    ASSUME StreamInv, NEW s \in Streams, NEW k \in Ai!Stream, StreamOK(k),
           k.pc = "write" => k.held # None,
           stream' = [stream EXCEPT ![s] = k],
           aiCache' \in (0 .. AiTotal) \cup {None},
           NEW note \in {"none", "state", "error"}, NoteOK(k, note),
           notes' = [notes EXCEPT ![s] = note]
    PROVE  StreamInv'
<1>1. Ai!TypeOK'
  BY DEF StreamInv, Ai!TypeOK
<1>2. ASSUME NEW t \in Streams
      PROVE  StreamOK(stream'[t]) /\ NoteOK(stream'[t], notes'[t])
  BY <1>2 DEF StreamInv, Ai!TypeOK
<1> QED
  BY <1>1, <1>2 DEF StreamInv, StreamOK, NoteOK, Paying

\* The same for a step that sends no note.
LEMMA StreamUpdateQuiet ==
    ASSUME StreamInv, NEW s \in Streams, NEW k \in Ai!Stream, StreamOK(k),
           k.pc = "write" => k.held # None,
           stream' = [stream EXCEPT ![s] = k],
           aiCache' \in (0 .. AiTotal) \cup {None},
           NoteOK(k, notes[s]), UNCHANGED notes
    PROVE  StreamInv'
<1>1. notes' = [notes EXCEPT ![s] = notes[s]] /\ notes[s] \in {"none", "state", "error"}
  BY DEF StreamInv, Ai!TypeOK
<1> QED
  BY <1>1, StreamUpdate

\* The end of the answer: what is not paid of the batch is owed.
LEMMA EndStep ==
    ASSUME Ai!StreamAssumption, StreamInv, NEW s \in Streams,
           stream[s].pc \in {"stream", "send"},
           Ai!EndOfAnswer(s, stream[s]), UNCHANGED <<aiCache, notes>>
    PROVE  StreamInv'
<1> DEFINE k == stream[s]
<1>1. /\ k \in Ai!Stream /\ StreamOK(k) /\ NoteOK(k, notes[s])
      /\ aiCache' \in (0 .. AiTotal) \cup {None}
  BY DEF StreamInv, Ai!TypeOK
<1>2. CASE k.count # 0
  <2> DEFINE p == [k EXCEPT !.count = 0, !.pc = "tell", !.due = k.count, !.next = "done"]
  <2>1. Ai!Due(k.count) = k.count /\ k.count \in Nat /\ 0 \in 0 .. Batch
    BY <1>1, <1>2 DEF Ai!Due, Ai!Stream, Ai!StreamAssumption
  <2>2. stream' = [stream EXCEPT ![s] = p]
    BY <1>1, <1>2, <2>1 DEF Ai!EndOfAnswer, Ai!Owe
  <2>3. p \in Ai!Stream
    BY <1>1, <2>1, SetField
  <2>4. /\ p.pc = "tell" /\ p.next = "done" /\ p.count = 0 /\ p.due = k.count
        /\ p.asked = k.asked /\ p.sent = k.sent /\ p.paid = k.paid
    BY <1>1 DEF Ai!Stream
  <2> HIDE DEF p
  <2>5. StreamOK(p) /\ NoteOK(p, notes[s])
    BY <1>1, <2>4 DEF Ai!Stream, StreamOK, Paying, NoteOK, Ai!StreamAssumption
  <2> QED
    BY <1>1, <2>2, <2>3, <2>4, <2>5, StreamUpdateQuiet
<1>3. CASE k.count = 0
  <2> DEFINE p == [k EXCEPT !.pc = "done"]
  <2>1. stream' = [stream EXCEPT ![s] = p]
    BY <1>3 DEF Ai!EndOfAnswer
  <2>2. p \in Ai!Stream
    BY <1>1, SetField
  <2>3. /\ p.pc = "done" /\ p.asked = k.asked /\ p.sent = k.sent /\ p.paid = k.paid
    BY <1>1 DEF Ai!Stream
  <2> HIDE DEF p
  <2>4. StreamOK(p) /\ NoteOK(p, notes[s])
    BY <1>1, <1>3, <2>3 DEF Ai!Stream, StreamOK, Paying, NoteOK, Ai!StreamAssumption
  <2> QED
    BY <1>1, <2>1, <2>2, <2>3, <2>4, StreamUpdateQuiet
<1> QED
  BY <1>2, <1>3

LEMMA FreshStream ==
    ASSUME Ai!StreamAssumption
    PROVE  /\ Ai!Fresh \in Ai!Stream /\ StreamOK(Ai!Fresh)
           /\ Ai!Fresh.pc = "idle" /\ NoteOK(Ai!Fresh, "none")
  BY DEF Ai!Fresh, Ai!Stream, StreamOK, Paying, NoteOK, Ai!StreamAssumption

LEMMA StreamStep ==
    ASSUME Ai!StreamAssumption, StreamInv, [Ai!Next]_(Ai!vars)
    PROVE  StreamInv'
<1>1. ASSUME NEW s \in Streams
      PROVE  /\ stream[s] \in Ai!Stream /\ StreamOK(stream[s]) /\ NoteOK(stream[s], notes[s])
             /\ aiCache \in (0 .. AiTotal) \cup {None}
  BY DEF StreamInv, Ai!TypeOK
<1>2. ASSUME NEW s \in Streams, Ai!Open(s)
      PROVE  StreamInv'
  <2>1. PICK n \in AiRequests, end \in AiEnds :
           stream' = [stream EXCEPT ![s] =
               [Ai!Fresh EXCEPT !.tokens = n, !.end = end, !.pc = "tell",
                                !.due = Ai!Due(n), !.next = "post"]]
    BY <1>2 DEF Ai!Open, Ai!Owe
  <2> DEFINE p == [Ai!Fresh EXCEPT !.tokens = n, !.end = end, !.pc = "tell",
                                   !.due = Ai!Due(n), !.next = "post"]
  <2>2. Ai!Due(n) \in Nat
    BY DEF Ai!Due, Ai!StreamAssumption
  <2>3. p \in Ai!Stream
    BY <2>2, FreshStream, SetField
  <2>4. /\ p.pc = "tell" /\ p.next = "post" /\ p.count = 0 /\ ~p.asked
        /\ p.sent = 0 /\ p.paid = 0
    BY DEF Ai!Fresh
  <2>5. stream' = [stream EXCEPT ![s] = p]
    BY <2>1
  <2> HIDE DEF p
  <2>6. StreamOK(p) /\ NoteOK(p, notes[s])
    BY <2>4 DEF StreamOK, Paying, NoteOK
  <2> QED
    BY <1>1, <1>2, <2>3, <2>4, <2>5, <2>6, StreamUpdateQuiet DEF Ai!Open
<1>3. ASSUME NEW s \in Streams, Ai!Pay(s)
      PROVE  StreamInv'
  <2> DEFINE k == stream[s]
  <2>1. CASE aiCache # None /\ aiCache + k.due <= AiTotal /\ k.end <= AiRangeMax
    <3> DEFINE p == [k EXCEPT !.pc = "write", !.held = aiCache + k.due]
               note == IF k.pc = "tell" \/ Ai!Inactive(s) THEN "state" ELSE notes[s]
    <3>1. aiCache + k.due \in 0 .. AiTotal /\ aiCache + k.due # None
      BY <1>1, <2>1 DEF Ai!Stream, Ai!StreamAssumption
    <3>2. p \in Ai!Stream
      BY <1>1, <3>1, SetField
    <3>3. /\ p.pc = "write" /\ p.held = aiCache + k.due /\ p.next = k.next /\ p.due = k.due
          /\ p.count = k.count /\ p.asked = k.asked /\ p.sent = k.sent /\ p.paid = k.paid
      BY <1>1 DEF Ai!Stream
    <3>4. p \in Ai!Stream /\ p.held # None /\ StreamOK(p)
      BY <1>1, <1>3, <3>1, <3>2, <3>3 DEF StreamOK, Paying, Ai!Pay
    <3>5. note \in {"none", "state", "error"} /\ note # "none"
      BY <1>1, <1>3 DEF StreamInv, Ai!TypeOK, StreamOK, Paying, NoteOK, Ai!Pay
    <3>6. stream' = [stream EXCEPT ![s] = p] /\ notes' = [notes EXCEPT ![s] = note]
          /\ UNCHANGED aiCache
      BY <1>3, <2>1 DEF Ai!Pay
    <3> HIDE DEF p, note
    <3>7. NoteOK(p, note)
      BY <3>5 DEF NoteOK
    <3> QED
      BY <1>1, <3>4, <3>5, <3>6, <3>7, StreamUpdate
  <2>2. CASE ~(aiCache # None /\ aiCache + k.due <= AiTotal /\ k.end <= AiRangeMax)
    <3> DEFINE p == [k EXCEPT !.pc = "failed"]
    <3>1. p \in Ai!Stream
      BY <1>1, SetField
    <3>2. /\ p.pc = "failed" /\ p.asked = k.asked /\ p.sent = k.sent /\ p.paid = k.paid
      BY <1>1 DEF Ai!Stream
    <3>3. p \in Ai!Stream /\ p.pc = "failed" /\ StreamOK(p) /\ NoteOK(p, "error")
      BY <1>1, <1>3, <3>1, <3>2
         DEF Ai!Stream, StreamOK, Paying, NoteOK, Ai!Pay, Ai!StreamAssumption
    <3>4. stream' = [stream EXCEPT ![s] = p] /\ notes' = [notes EXCEPT ![s] = "error"]
          /\ UNCHANGED aiCache
      BY <1>3, <2>2 DEF Ai!Pay
    <3> HIDE DEF p
    <3> QED
      BY <1>1, <3>3, <3>4, StreamUpdate
  <2> QED
    BY <2>1, <2>2
<1>4. ASSUME NEW s \in Streams, Ai!Write(s)
      PROVE  StreamInv'
  <2> DEFINE k == stream[s]
             paid == IF k.asked THEN k.paid + k.due ELSE k.paid
             p == [k EXCEPT !.pc = k.next, !.held = None, !.paid = paid]
  <2>1. k.pc = "write" /\ aiCache' = k.held /\ UNCHANGED notes
        /\ stream' = [stream EXCEPT ![s] = p]
    BY <1>4 DEF Ai!Write
  <2>2. k.next \in {"post", "send", "done"} /\ paid \in Nat /\ k.held \in 0 .. AiTotal
    BY <1>1, <2>1 DEF Ai!Stream, StreamOK, Paying, StreamInv, Ai!TypeOK
  <2>3. p \in Ai!Stream
    BY <1>1, <2>2, SetField
  <2>4. /\ p.pc = k.next /\ p.count = k.count /\ p.asked = k.asked /\ p.sent = k.sent
        /\ p.paid = paid
    BY <1>1 DEF Ai!Stream
  <2> HIDE DEF p
  <2>5. ASSUME k.next = "post"
        PROVE  StreamOK(p)
    BY <1>1, <2>1, <2>4, <2>5 DEF Ai!Stream, StreamOK, Paying
  <2>6. ASSUME k.next = "send"
        PROVE  StreamOK(p)
    BY <1>1, <2>1, <2>4, <2>6 DEF Ai!Stream, StreamOK, Paying, Ai!StreamAssumption
  <2>7. ASSUME k.next = "done"
        PROVE  StreamOK(p)
    BY <1>1, <2>1, <2>4, <2>7 DEF Ai!Stream, StreamOK, Paying
  <2>8. StreamOK(p) /\ p.pc # "write"
    BY <2>2, <2>4, <2>5, <2>6, <2>7
  <2>9. aiCache' \in (0 .. AiTotal) \cup {None} /\ NoteOK(p, notes[s])
    BY <1>1, <2>1, <2>2, <2>4 DEF NoteOK
  <2> QED
    BY <2>1, <2>3, <2>8, <2>9, StreamUpdateQuiet
<1>5. ASSUME NEW s \in Streams, Ai!PostRequest(s)
      PROVE  StreamInv'
  <2>1. CASE stream' = [stream EXCEPT ![s].pc = "stream", ![s].asked = TRUE]
    <3> DEFINE p == [stream[s] EXCEPT !.pc = "stream", !.asked = TRUE]
    <3>1. p \in Ai!Stream
      BY <1>1, SetField
    <3>2. /\ p.pc = "stream" /\ p.asked /\ p.count = stream[s].count
          /\ p.sent = stream[s].sent /\ p.paid = stream[s].paid
      BY <1>1 DEF Ai!Stream
    <3>3. stream' = [stream EXCEPT ![s] = p]
      BY <2>1
    <3> HIDE DEF p
    <3>4. StreamOK(p) /\ NoteOK(p, notes[s])
      BY <1>1, <1>5, <3>2
         DEF Ai!PostRequest, Ai!Stream, StreamOK, Paying, NoteOK, Ai!StreamAssumption
    <3> QED
      BY <1>1, <1>5, <3>1, <3>2, <3>3, <3>4, StreamUpdateQuiet DEF Ai!PostRequest
  <2>2. CASE stream' = [stream EXCEPT ![s].pc = "failed"]
    <3> DEFINE p == [stream[s] EXCEPT !.pc = "failed"]
    <3>1. p \in Ai!Stream
      BY <1>1, SetField
    <3>2. /\ p.pc = "failed" /\ p.asked = stream[s].asked
          /\ p.sent = stream[s].sent /\ p.paid = stream[s].paid
      BY <1>1 DEF Ai!Stream
    <3>3. stream' = [stream EXCEPT ![s] = p]
      BY <2>2
    <3> HIDE DEF p
    <3>4. StreamOK(p) /\ NoteOK(p, notes[s])
      BY <1>1, <1>5, <3>2
         DEF Ai!PostRequest, Ai!Stream, StreamOK, Paying, NoteOK, Ai!StreamAssumption
    <3> QED
      BY <1>1, <1>5, <3>1, <3>2, <3>3, <3>4, StreamUpdateQuiet DEF Ai!PostRequest
  <2> QED
    BY <1>5, <2>1, <2>2 DEF Ai!PostRequest
<1>6. ASSUME NEW s \in Streams, Ai!NextMessage(s)
      PROVE  StreamInv'
  <2> DEFINE k == [stream[s] EXCEPT !.count = @ + 1, !.left = @ - 1]
  <2>1. stream[s].pc = "stream" /\ stream[s].left > 0 /\ UNCHANGED <<aiCache, notes>>
    BY <1>6 DEF Ai!NextMessage
  <2>2. stream[s].asked /\ stream[s].count + 1 \in 0 .. Batch
        /\ stream[s].left - 1 \in 0 .. MaxMessages
    BY <1>1, <2>1 DEF Ai!Stream, StreamOK, Ai!StreamAssumption
  <2>3. k \in Ai!Stream
    BY <1>1, <2>2, SetField
  <2>4. /\ k.count = stream[s].count + 1 /\ k.asked = stream[s].asked
        /\ k.sent = stream[s].sent /\ k.paid = stream[s].paid
    BY <1>1 DEF Ai!Stream
  <2>5. k.asked /\ k.sent + 1 = k.paid + k.count /\ k.count <= Batch
    BY <1>1, <2>1, <2>2, <2>4 DEF Ai!Stream, StreamOK, Ai!StreamAssumption
  <2>6. notes[s] # "none"
    BY <1>1, <2>2 DEF NoteOK
  <2>7. Ai!NextMessage(s) =>
          IF k.count = Batch THEN Ai!Owe(s, [k EXCEPT !.count = 0], Batch, FALSE, "send")
          ELSE stream' = [stream EXCEPT ![s] = [k EXCEPT !.pc = "send"]]
    BY DEF Ai!NextMessage
  <2> HIDE DEF k
  <2>8. CASE k.count = Batch
    <3> DEFINE p == [k EXCEPT !.count = 0, !.pc = "ask", !.due = Batch, !.next = "send"]
    <3>1. Ai!Due(Batch) = Batch /\ Batch \in Nat /\ 0 \in 0 .. Batch
      BY DEF Ai!Due, Ai!StreamAssumption
    <3>2. stream' = [stream EXCEPT ![s] = p]
      BY <1>6, <2>8, <2>7, <3>1 DEF Ai!Owe
    <3>3. p \in Ai!Stream
      BY <2>3, <3>1, SetField
    <3>4. /\ p.pc = "ask" /\ p.next = "send" /\ p.count = 0 /\ p.due = Batch
          /\ p.asked = k.asked /\ p.sent = k.sent /\ p.paid = k.paid
      BY <2>3 DEF Ai!Stream
    <3> HIDE DEF p
    <3>5. StreamOK(p) /\ NoteOK(p, notes[s])
      BY <2>5, <2>6, <2>8, <3>4 DEF StreamOK, Paying, NoteOK
    <3> QED
      BY <1>1, <2>1, <3>2, <3>3, <3>4, <3>5, StreamUpdateQuiet
  <2>9. CASE k.count # Batch
    <3> DEFINE p == [k EXCEPT !.pc = "send"]
    <3>1. stream' = [stream EXCEPT ![s] = p]
      BY <1>6, <2>9, <2>7
    <3>2. p \in Ai!Stream
      BY <2>3, SetField
    <3>3. /\ p.pc = "send" /\ p.count = k.count
          /\ p.asked = k.asked /\ p.sent = k.sent /\ p.paid = k.paid
      BY <2>3 DEF Ai!Stream
    <3> HIDE DEF p
    <3>4. StreamOK(p) /\ NoteOK(p, notes[s])
      BY <2>3, <2>5, <2>6, <2>9, <3>3 DEF StreamOK, Paying, NoteOK, Ai!Stream, Ai!StreamAssumption
    <3> QED
      BY <1>1, <2>1, <3>1, <3>2, <3>3, <3>4, StreamUpdateQuiet
  <2> QED
    BY <2>8, <2>9
<1>7. ASSUME NEW s \in Streams, Ai!Send(s)
      PROVE  StreamInv'
  <2>1. CASE stream' = [stream EXCEPT ![s].pc = "stream", ![s].sent = @ + 1]
    <3> DEFINE p == [stream[s] EXCEPT !.pc = "stream", !.sent = @ + 1]
    <3>1. stream[s].sent + 1 \in Nat
      BY <1>1 DEF Ai!Stream
    <3>2. p \in Ai!Stream
      BY <1>1, <3>1, SetField
    <3>3. p.pc = "stream" /\ p.asked = stream[s].asked /\ p.count = stream[s].count
          /\ p.sent = stream[s].sent + 1 /\ p.paid = stream[s].paid
      BY <1>1 DEF Ai!Stream
    <3>4. /\ stream[s].asked = TRUE /\ stream[s].count < Batch
          /\ stream[s].sent + 1 = stream[s].paid + stream[s].count
      BY <1>1, <1>7 DEF Ai!Send, StreamOK
    <3>5. StreamOK(p)
      BY <3>3, <3>4 DEF StreamOK, Paying
    <3>6. p \in Ai!Stream /\ StreamOK(p) /\ NoteOK(p, notes[s]) /\ p.pc = "stream"
      BY <1>1, <3>2, <3>3, <3>5 DEF NoteOK
    <3>7. stream' = [stream EXCEPT ![s] = p]
      BY <2>1
    <3> HIDE DEF p
    <3> QED
      BY <1>1, <1>7, <3>6, <3>7, StreamUpdateQuiet DEF Ai!Send
  <2>2. CASE Ai!EndOfAnswer(s, stream[s])
    BY <1>7, <2>2, EndStep DEF Ai!Send
  <2> QED
    BY <1>7, <2>1, <2>2 DEF Ai!Send
<1>8. ASSUME NEW s \in Streams, Ai!Finish(s)
      PROVE  StreamInv'
  BY <1>8, EndStep DEF Ai!Finish
<1>9. ASSUME NEW s \in Streams, Ai!Close(s)
      PROVE  StreamInv'
  BY <1>1, <1>9, FreshStream, StreamUpdate DEF Ai!Close
<1>10. ASSUME aiCache' \in (0 .. AiTotal) \cup {None}, UNCHANGED <<stream, notes>>
       PROVE  StreamInv'
  BY <1>10 DEF StreamInv, Ai!TypeOK, StreamOK, Paying, NoteOK
<1>11. CASE Ai!Expire \/ Ai!Load \/ UNCHANGED Ai!vars
  BY <1>10, <1>11 DEF Ai!Expire, Ai!Load, Ai!vars, StreamInv, Ai!TypeOK, Ai!StreamAssumption
<1> QED
  BY <1>2, <1>3, <1>4, <1>5, <1>6, <1>7, <1>8, <1>9, <1>11 DEF Ai!Next

LEMMA StreamInit ==
    ASSUME Ai!StreamAssumption, Ai!Init
    PROVE  StreamInv
  BY FreshStream DEF Ai!Init, StreamInv, Ai!TypeOK, Ai!StreamAssumption

\* The key and the streams keep their types.
THEOREM StreamTypeCorrect ==
    ASSUME Ai!StreamAssumption
    PROVE  Ai!Spec => []Ai!TypeOK
<1>1. Ai!Init => StreamInv
  BY StreamInit
<1>2. StreamInv /\ [Ai!Next]_(Ai!vars) => StreamInv'
  BY StreamStep
<1>3. StreamInv => Ai!TypeOK
  BY DEF StreamInv
<1> QED
  BY <1>1, <1>2, <1>3, PTL DEF Ai!Spec

\* A stream gives away less than a batch, whichever charge is refused and
\* however many streams share the channel.
THEOREM StreamSafe ==
    ASSUME Ai!StreamAssumption
    PROVE  Ai!Spec => []LessThanBatchUnpaid
<1>1. Ai!Init => StreamInv
  BY StreamInit
<1>2. StreamInv /\ [Ai!Next]_(Ai!vars) => StreamInv'
  BY StreamStep
<1>3. ASSUME StreamInv
      PROVE  Ai!LessThanBatchUnpaid
  <2> SUFFICES ASSUME NEW s \in Streams
               PROVE  /\ stream[s].sent < stream[s].paid + Batch
                      /\ stream[s].pc = "done" => stream[s].sent <= stream[s].paid
                      /\ stream[s].sent > 0 => stream[s].asked /\ notes[s] # "none"
    BY DEF Ai!LessThanBatchUnpaid
  <2> QED
    BY <1>3 DEF StreamInv, Ai!TypeOK, Ai!Stream, Ai!StreamAssumption, StreamOK, Paying, NoteOK
<1> QED
  BY <1>1, <1>2, <1>3, PTL DEF Ai!Spec, LessThanBatchUnpaid

-----------------------------------------------------------------------------
(* AgreementLimit.  A token is handed out last and lives half as long as   *)
(* its limits, which are saved no earlier than its expiration is computed. *)

KeysInv ==
    /\ token <= now + Lifetime /\ issue.exp <= now + Lifetime
    /\ token > 0 => token < limits.daily.until /\ token < limits.rate.until
    /\ issue.pc = "rate" => issue.exp < limits.daily.until

LimitInv == Limit!TypeOK /\ KeysInv

\* A query keeps its type when one field is set.
LEMMA SetQueryField ==
    ASSUME NEW k \in Limit!Query
    PROVE  /\ \A v \in {"free", "read", "write", "rate"} : [k EXCEPT !.pc = v] \in Limit!Query
           /\ \A v \in {"http", "ws", "payg"} : [k EXCEPT !.kind = v] \in Limit!Query
           /\ \A v \in Limit!Seconds : [k EXCEPT !.at = v] \in Limit!Query
           /\ \A v \in Nat : /\ [k EXCEPT !.daily = v] \in Limit!Query
                             /\ [k EXCEPT !.rate = v] \in Limit!Query
                             /\ [k EXCEPT !.days = v] \in Limit!Query
                             /\ [k EXCEPT !.seconds = v] \in Limit!Query
  BY DEF Limit!Query

\* The counters keep their type when one of them is set.
LEMMA SetCount ==
    ASSUME NEW c \in Limit!Counts, NEW n \in Nat, NEW second \in Limit!Seconds
    PROVE  /\ [c EXCEPT !.day[Limit!Day(second)] = n] \in Limit!Counts
           /\ [c EXCEPT !.second[second] = n] \in Limit!Counts
           /\ [c EXCEPT !.project[second] = n] \in Limit!Counts
  BY DEF Limit!Counts, Limit!Days

LEMMA FreeQuery ==
    ASSUME Limit!LimitAssumption
    PROVE  Limit!Free \in Limit!Query
  BY DEF Limit!Free, Limit!Query, Limit!Seconds, Limit!LimitAssumption

\* What a query does to the counters and to itself.
LEMMA QueryStep ==
    ASSUME Limit!LimitAssumption, Limit!TypeOK, NEW t \in Tasks,
           \/ Limit!Start(t) \/ Limit!StartPayg(t) \/ Limit!Read(t)
           \/ Limit!Write(t) \/ Limit!WriteRate(t)
    PROVE  Limit!TypeOK' /\ UNCHANGED <<now, token, issue, limits>>
<1> DEFINE k == check[t]
<1>1. /\ k \in Limit!Query /\ k.pc \in {"free", "read", "write", "rate"}
      /\ k.kind \in {"http", "ws", "payg"} /\ k.at \in Limit!Seconds
      /\ k.daily \in Nat /\ k.rate \in Nat /\ k.days \in Nat /\ k.seconds \in Nat
  BY DEF Limit!TypeOK, Limit!Query
<1>2. /\ now \in Limit!Seconds /\ count \in Limit!Counts /\ admitted \in Limit!Counts
      /\ Limit!Day(k.at) \in Limit!Days /\ Limit!Day(now) \in Limit!Days
  BY <1>1 DEF Limit!TypeOK, Limit!Days
<1>3. ASSUME NEW q \in Limit!Query, check' = [check EXCEPT ![t] = q],
             count' \in Limit!Counts, admitted' \in Limit!Counts,
             UNCHANGED <<now, token, issue, limits>>
      PROVE  Limit!TypeOK'
  BY <1>3 DEF Limit!TypeOK
<1>4. CASE Limit!Start(t)
  <2>1. PICK kind \in {"http", "ws"} :
          check' = [check EXCEPT ![t] = [Limit!Free EXCEPT !.pc = "read", !.kind = kind, !.at = now,
                       !.daily = Limit!Get(limits.daily, Limit!DefaultDaily),
                       !.rate = Limit!Get(limits.rate, Limit!DefaultRate)]]
    BY <1>4 DEF Limit!Start
  <2>2. /\ Limit!Get(limits.daily, Limit!DefaultDaily) \in Nat
        /\ Limit!Get(limits.rate, Limit!DefaultRate) \in Nat
    BY DEF Limit!Get, Limit!DefaultDaily, Limit!DefaultRate, Limit!TypeOK, Limit!Limit
  <2>3. [Limit!Free EXCEPT !.pc = "read", !.kind = kind, !.at = now,
             !.daily = Limit!Get(limits.daily, Limit!DefaultDaily),
             !.rate = Limit!Get(limits.rate, Limit!DefaultRate)] \in Limit!Query
    BY <1>2, <2>2, FreeQuery, SetQueryField
  <2> QED
    BY <1>2, <1>3, <1>4, <2>1, <2>3 DEF Limit!Start
<1>5. CASE Limit!StartPayg(t)
  <2>1. [Limit!Free EXCEPT !.pc = "read", !.kind = "payg", !.at = now] \in Limit!Query
    BY <1>2, FreeQuery, SetQueryField
  <2> QED
    BY <1>2, <1>3, <1>5, <2>1 DEF Limit!StartPayg
<1>6. CASE Limit!Read(t)
  <2> DEFINE days == count.day[Limit!Day(k.at)]
             seconds == IF k.kind = "payg" THEN count.project[k.at] ELSE count.second[k.at]
             q == [k EXCEPT !.pc = "write", !.days = days, !.seconds = seconds]
  <2>1. days \in Nat /\ seconds \in Nat
    BY <1>1, <1>2 DEF Limit!Counts
  <2>2. q \in Limit!Query
    BY <1>1, <2>1, SetQueryField
  <2>3. (check' = [check EXCEPT ![t] = Limit!Free] \/ check' = [check EXCEPT ![t] = q])
        /\ UNCHANGED <<now, token, issue, limits, count, admitted>>
    BY <1>6 DEF Limit!Read
  <2> HIDE DEF q
  <2> QED
    BY <1>2, <1>3, <2>2, <2>3, FreeQuery
<1>7. CASE Limit!Write(t)
  <2> DEFINE q == [k EXCEPT !.pc = "rate", !.at = now]
  <2>1. q \in Limit!Query
    BY <1>1, <1>2, SetQueryField
  <2>2. /\ k.seconds + 1 \in Nat /\ k.days + 1 \in Nat
        /\ admitted.day[Limit!Day(now)] + 1 \in Nat /\ admitted.project[k.at] + 1 \in Nat
    BY <1>1, <1>2 DEF Limit!Counts
  <2>3. count' \in Limit!Counts /\ admitted' \in Limit!Counts
    <3>1. CASE k.kind = "payg"
      <4>1. /\ count' = [count EXCEPT !.project[k.at] = k.seconds + 1]
            /\ admitted' = [admitted EXCEPT !.project[k.at] = admitted.project[k.at] + 1]
        BY <1>7, <3>1 DEF Limit!Write
      <4> QED
        BY <1>1, <1>2, <2>2, <4>1, SetCount
    <3>2. CASE k.kind # "payg"
      <4>1. /\ count' = [count EXCEPT !.day[Limit!Day(now)] = k.days + 1]
            /\ admitted' = [admitted EXCEPT !.day[Limit!Day(now)]
                                = admitted.day[Limit!Day(now)] + 1]
        BY <1>7, <3>2 DEF Limit!Write
      <4> QED
        BY <1>1, <1>2, <2>2, <4>1, SetCount
    <3> QED
      BY <3>1, <3>2
  <2>4. (check' = [check EXCEPT ![t] = Limit!Free] \/ check' = [check EXCEPT ![t] = q])
        /\ UNCHANGED <<now, token, issue, limits>>
    BY <1>7 DEF Limit!Write
  <2> HIDE DEF q
  <2> QED
    BY <1>2, <1>3, <2>1, <2>3, <2>4, FreeQuery
<1>8. CASE Limit!WriteRate(t)
  <2>1. k.seconds + 1 \in Nat /\ admitted.second[k.at] + 1 \in Nat
    BY <1>1, <1>2 DEF Limit!Counts
  <2>2. count' \in Limit!Counts /\ admitted' \in Limit!Counts
    BY <1>1, <1>2, <1>8, <2>1, SetCount DEF Limit!WriteRate
  <2> QED
    BY <1>2, <1>3, <1>8, <2>2, FreeQuery DEF Limit!WriteRate
<1> QED
  BY <1>4, <1>5, <1>6, <1>7, <1>8
     DEF Limit!Start, Limit!StartPayg, Limit!Read, Limit!Write, Limit!WriteRate

LEMMA LimitStep ==
    ASSUME Limit!LimitAssumption, LimitInv, [Limit!Next]_(Limit!vars)
    PROVE  LimitInv'
<1>1. /\ now \in Nat /\ token \in Nat /\ Lifetime \in Nat \ {0}
      /\ issue.pc \in {"none", "daily", "rate"} /\ issue.exp \in Nat
      /\ limits.daily.until \in Nat /\ limits.rate.until \in Nat
  BY DEF LimitInv, Limit!TypeOK, Limit!Limit, Limit!Seconds, Limit!LimitAssumption
<1>2. ASSUME NEW v \in Nat
      PROVE  Limit!SetEx(v) \in Limit!Limit /\ Limit!SetEx(v).until = now + 2 * Lifetime
  BY <1>1 DEF Limit!SetEx, Limit!LimitLife, Limit!Limit
<1>3. CASE Limit!IssueStart
  <2>1. issue' = [pc |-> "daily", exp |-> now + Lifetime] /\ now + Lifetime \in Nat
        /\ UNCHANGED <<now, token, limits, count, admitted, check>>
    BY <1>1, <1>3 DEF Limit!IssueStart
  <2> QED
    BY <1>1, <2>1 DEF LimitInv, KeysInv, Limit!TypeOK
<1>4. CASE Limit!SaveDaily
  <2>1. /\ limits' \in [daily : Limit!Limit, rate : Limit!Limit]
        /\ limits'.daily.until = now + 2 * Lifetime /\ limits'.rate = limits.rate
        /\ issue' \in [pc : {"none", "daily", "rate"}, exp : Nat] /\ issue'.exp = issue.exp
        /\ UNCHANGED <<now, token, count, admitted, check>>
    BY <1>1, <1>2, <1>4 DEF Limit!SaveDaily, LimitInv, Limit!TypeOK, Limit!LimitAssumption
  <2>2. Limit!TypeOK'
    BY <2>1 DEF LimitInv, Limit!TypeOK
  <2> QED
    BY <1>1, <2>1, <2>2 DEF LimitInv, KeysInv
<1>5. CASE Limit!SaveRate
  <2>1. /\ limits' \in [daily : Limit!Limit, rate : Limit!Limit]
        /\ limits'.rate.until = now + 2 * Lifetime /\ limits'.daily = limits.daily
        /\ issue' = [pc |-> "none", exp |-> 0] /\ token' = issue.exp /\ issue.pc = "rate"
        /\ UNCHANGED <<now, count, admitted, check>>
    BY <1>1, <1>2, <1>5
       DEF Limit!SaveRate, Limit!NotIssuing, LimitInv, Limit!TypeOK, Limit!LimitAssumption
  <2>2. Limit!TypeOK'
    BY <1>1, <2>1 DEF LimitInv, Limit!TypeOK
  <2> QED
    BY <1>1, <2>1, <2>2 DEF LimitInv, KeysInv
<1>6. CASE Limit!Tick
  <2>1. now' = now + 1 /\ now' \in Limit!Seconds
        /\ UNCHANGED <<token, issue, limits, count, admitted, check>>
    BY <1>1, <1>6 DEF Limit!Tick, LimitInv, Limit!TypeOK, Limit!Seconds, Limit!LimitAssumption
  <2> QED
    BY <1>1, <2>1 DEF LimitInv, KeysInv, Limit!TypeOK
<1>7. ASSUME NEW t \in Tasks,
             \/ Limit!Start(t) \/ Limit!StartPayg(t) \/ Limit!Read(t)
             \/ Limit!Write(t) \/ Limit!WriteRate(t)
      PROVE  LimitInv'
  BY <1>7, QueryStep DEF LimitInv, KeysInv
<1>8. CASE UNCHANGED Limit!vars
  BY <1>8 DEF Limit!vars, LimitInv, KeysInv, Limit!TypeOK
<1> QED
  BY <1>3, <1>4, <1>5, <1>6, <1>7, <1>8 DEF Limit!Next

LEMMA LimitInit ==
    ASSUME Limit!LimitAssumption, Limit!Init
    PROVE  LimitInv
<1>1. Limit!Zero \in Limit!Counts
  BY DEF Limit!Zero, Limit!Counts
<1>2. limits \in [daily : Limit!Limit, rate : Limit!Limit]
  BY DEF Limit!Init, Limit!Unlimited, Limit!Limit
<1> QED
  BY <1>1, <1>2, FreeQuery
     DEF Limit!Init, LimitInv, KeysInv, Limit!TypeOK, Limit!NotIssuing, Limit!Seconds,
         Limit!LimitAssumption

\* The counters, the keys and the queries keep their types.
THEOREM LimitTypeCorrect ==
    ASSUME Limit!LimitAssumption
    PROVE  Limit!Spec => []Limit!TypeOK
<1>1. Limit!Init => LimitInv
  BY LimitInit
<1>2. LimitInv /\ [Limit!Next]_(Limit!vars) => LimitInv'
  BY LimitStep
<1>3. LimitInv => Limit!TypeOK
  BY DEF LimitInv
<1> QED
  BY <1>1, <1>2, <1>3, PTL DEF Limit!Spec

\* A valid token has its limits, whatever the time a save takes and however
\* often the token is issued again.
THEOREM LimitsOutliveToken ==
    ASSUME Limit!LimitAssumption
    PROVE  Limit!Spec => []TokenHasLimits
<1>1. Limit!Init => LimitInv
  BY LimitInit
<1>2. LimitInv /\ [Limit!Next]_(Limit!vars) => LimitInv'
  BY LimitStep
<1>3. LimitInv => Limit!TokenHasLimits
  BY DEF LimitInv, KeysInv, Limit!TypeOK, Limit!Seconds, Limit!Limit, Limit!LimitAssumption,
         Limit!TokenHasLimits, Limit!TokenValid, Limit!Present
<1> QED
  BY <1>1, <1>2, <1>3, PTL DEF Limit!Spec, TokenHasLimits

-----------------------------------------------------------------------------
(* QueryStats.  A query enters a counter once, by its own task, and leaves *)
(* the current one with all the others.                                    *)

\* The instance has its own names for the operators on finite sets.
LEMMA SameFinite == ASSUME NEW S PROVE Stats!IsFiniteSet(S) = IsFiniteSet(S)
  BY DEF Stats!IsFiniteSet, IsFiniteSet

LEMMA SameCardinality == ASSUME NEW S PROVE Stats!Cardinality(S) = Cardinality(S)
  BY DEF Stats!Cardinality, Cardinality

\* A counter is finite: its time is a number.
LEMMA TimeType ==
    ASSUME Stats!StatsAssumption, NEW counter \in Stats!Counter
    PROVE  Stats!Time(counter) \in Nat
<1> DEFINE ok == {q \in counter : task[q].ok}
<1>1. IsFiniteSet(Queries) /\ ok \subseteq Queries
  BY SameFinite DEF Stats!StatsAssumption, Stats!Counter
<1>2. Stats!Time(counter) = Cardinality(ok)
  BY SameCardinality DEF Stats!Time
<1> HIDE DEF ok
<1> QED
  BY <1>1, <1>2, FS_Subset, FS_CardinalityType

\* What is saved is the row as it was found, or the report's.
LEMMA MergedType ==
    ASSUME Stats!StatsAssumption, NEW new \in Stats!Counter, NEW found \in Stats!Row \cup {None}
    PROVE  /\ Stats!Merged(new, found) \in Stats!Row
           /\ \/ found # None /\ Stats!Merged(new, found) = found
              \/ Stats!Merged(new, found).counts = new
<1>1. [time |-> Stats!Time(new), counts |-> new] \in Stats!Row
  BY TimeType DEF Stats!Row
<1>2. CASE found # None /\ Stats!Merged(new, found) = found
  BY <1>2
<1>3. CASE ~(found # None /\ Stats!Merged(new, found) = found)
  <2>1. Stats!Merged(new, found) = [time |-> Stats!Time(new), counts |-> new]
    BY <1>3 DEF Stats!Merged
  <2> QED
    BY <1>1, <2>1
<1> QED
  BY <1>2, <1>3

\* Where a handler's report has something to say, it saves.
LEMMA SavedRow ==
    ASSUME Stats!StatsAssumption, Stats!TypeOK, NEW p \in Posts, Stats!Save(p),
           NEW d \in Deployments, NEW h \in Stats!Hours
    PROVE  /\ Stats!Entry(p, d, h) \in Stats!Counter
           /\ post[p].found[d][h] \in Stats!Row \cup {None}
           /\ \/ statsRow'[d][h] = statsRow[d][h]
              \/ statsRow'[d][h] = Stats!Merged(Stats!Entry(p, d, h), post[p].found[d][h])
<1>1. post[p] \in Stats!Handler
  BY DEF Stats!TypeOK
<1>2. post[p].data[h] \in Stats!Counter \cup {None} /\ post[p].found[d][h] \in Stats!Row \cup {None}
  BY <1>1 DEF Stats!Handler, Stats!StatsRows
<1>3. Stats!Entry(p, d, h) \in Stats!Counter
  BY <1>2 DEF Stats!Entry, Stats!Counter
<1>4. statsRow'[d][h] = IF <<d, h>> \in Stats!Entries(p)
                        THEN Stats!Merged(Stats!Entry(p, d, h), post[p].found[d][h])
                        ELSE statsRow[d][h]
  BY DEF Stats!Save
<1> QED
  BY <1>2, <1>3, <1>4

LEMMA SavedRows ==
    ASSUME Stats!StatsAssumption, Stats!TypeOK, NEW p \in Posts, Stats!Save(p)
    PROVE  statsRow' \in Stats!StatsRows
<1>1. ASSUME NEW d \in Deployments, NEW h \in Stats!Hours
      PROVE  statsRow'[d][h] \in Stats!Row \cup {None}
  <2>1. statsRow[d][h] \in Stats!Row \cup {None}
    BY DEF Stats!TypeOK, Stats!StatsRows
  <2> QED
    BY <2>1, SavedRow, MergedType
<1>2. statsRow' = [d \in Deployments |-> [h \in Stats!Hours |-> statsRow'[d][h]]]
  BY DEF Stats!Save
<1> QED
  BY <1>1, <1>2 DEF Stats!StatsRows

\* A handler is free again, or keeps its report and what it found.
LEMMA FreeHandler == Stats!Free \in Stats!Handler /\ Stats!Free.pc = "free"
  BY DEF Stats!Free, Stats!Nothing, Stats!Handler, Stats!StatsRows

LEMMA EndedHandler ==
    ASSUME Stats!TypeOK, NEW p \in Posts, NEW pc \in {"saved", "refused"}, Stats!Answered(p, pc)
    PROVE  post' \in [Posts -> Stats!Handler]
<1>1. [Stats!Free EXCEPT !.pc = pc] \in Stats!Handler
  BY FreeHandler DEF Stats!Handler
<1> QED
  BY <1>1, FreeHandler DEF Stats!Answered, Stats!TypeOK

LEMMA AbandonedHandler ==
    ASSUME Stats!TypeOK, report.pc = "answer", NEW left \in Stats!Abandoned(report.post),
           post' = [post EXCEPT ![report.post] = left]
    PROVE  post' \in [Posts -> Stats!Handler]
           /\ \A p \in Posts : post'[p] \in {post[p], Stats!Free}
<1>1. report.post \in Posts
  BY DEF Stats!TypeOK, Stats!ReportState
<1> QED
  BY <1>1, FreeHandler DEF Stats!TypeOK, Stats!Abandoned

LEMMA RestingReport == Stats!Resting \in Stats!ReportState /\ Stats!Resting.pc = "rest"
  BY DEF Stats!Resting, Stats!ReportState, Stats!Counter

LEMMA StatsInit ==
    ASSUME Stats!StatsAssumption, Stats!Init
    PROVE  Stats!TypeOK
  BY RestingReport, FreeHandler
     DEF Stats!Init, Stats!TypeOK, Stats!Waiting, Stats!Task, Stats!Counter, Stats!Hours,
         Stats!Nothing, Stats!StatsRows, Stats!StatsAssumption

LEMMA StatsStep ==
    ASSUME Stats!StatsAssumption, Stats!TypeOK, [Stats!Next]_(Stats!vars)
    PROVE  Stats!TypeOK'
<1> USE DEF Stats!coordinator
<1>1. Stats!Nothing \in [Stats!Hours -> Stats!Counter \cup {None}]
  BY DEF Stats!Nothing
<1>2. Stats!Resting \in Stats!ReportState /\ Stats!Resting.pc = "rest"
  BY RestingReport
<1>3. ASSUME NEW q \in Queries, Stats!Count(q)
      PROVE  Stats!TypeOK'
  <2>1. Of[q] \in Deployments
    BY DEF Stats!StatsAssumption
  <2>2. PICK ok \in BOOLEAN : task' = [task EXCEPT ![q].pc = "counted", ![q].ok = ok]
    BY <1>3 DEF Stats!Count
  <2>3. task' \in [Queries -> Stats!Task]
    BY <2>2 DEF Stats!TypeOK, Stats!Task
  <2> QED
    BY <1>3, <2>1, <2>3 DEF Stats!Count, Stats!TypeOK, Stats!Counter
<1>4. ASSUME NEW q \in Queries, Stats!ReadClock(q)
      PROVE  Stats!TypeOK'
  <2>1. task' \in [Queries -> Stats!Task]
    BY <1>4 DEF Stats!ReadClock, Stats!TypeOK, Stats!Task
  <2> QED
    BY <1>4, <2>1 DEF Stats!ReadClock, Stats!TypeOK
<1>5. ASSUME NEW q \in Queries, Stats!Roll(q)
      PROVE  Stats!TypeOK'
  <2>1. task' \in [Queries -> Stats!Task] /\ hour' \in {0} \cup Stats!Hours
    BY <1>5 DEF Stats!Roll, Stats!TypeOK, Stats!Task
  <2>2. owner' \in Stats!Counter /\ previous' \in [Stats!Hours -> Stats!Counter \cup {None}]
    BY <1>5 DEF Stats!Roll, Stats!CloseHour, Stats!TypeOK, Stats!Counter
  <2> QED
    BY <1>5, <2>1, <2>2 DEF Stats!Roll, Stats!TypeOK
<1>6. ASSUME NEW q \in Queries, Stats!Book(q)
      PROVE  Stats!TypeOK'
  <2>1. task' \in [Queries -> Stats!Task]
    BY <1>6 DEF Stats!Book, Stats!TypeOK, Stats!Task
  <2> QED
    BY <1>6, <2>1 DEF Stats!Book, Stats!TypeOK, Stats!Counter
<1>7. ASSUME Stats!TakeTimer
      PROVE  Stats!TypeOK'
  BY <1>7 DEF Stats!TakeTimer, Stats!TypeOK, Stats!Counter
<1>8. ASSUME NEW new \in SUBSET Deployments, Stats!Table(new)
      PROVE  Stats!TypeOK'
  BY <1>8 DEF Stats!Table, Stats!TypeOK, Stats!Counter
<1>9. ASSUME Stats!ReportOwner
      PROVE  Stats!TypeOK'
  <2>1. report' \in Stats!ReportState /\ report'.pc = "hour"
    BY <1>9 DEF Stats!ReportOwner, Stats!TypeOK, Stats!ReportState
  <2> QED
    BY <1>9, <2>1 DEF Stats!ReportOwner, Stats!TypeOK, Stats!counters
<1>10. ASSUME Stats!ReportHour
       PROVE  Stats!TypeOK'
  <2>1. report' \in Stats!ReportState /\ report'.pc # "answer"
    BY <1>2, <1>10 DEF Stats!ReportHour, Stats!TypeOK, Stats!ReportState
  <2>2. torn' \subseteq Stats!Hours
    BY <1>10 DEF Stats!ReportHour, Stats!TypeOK
  <2> QED
    BY <1>10, <2>1, <2>2 DEF Stats!ReportHour, Stats!TypeOK, Stats!counters
<1>11. ASSUME NEW p \in Posts, Stats!ReportPrevious(p)
       PROVE  Stats!TypeOK'
  <2>1. Stats!Reported \in [Stats!Hours -> Stats!Counter \cup {None}]
        /\ Stats!Past \in SUBSET Stats!Hours
    BY DEF Stats!TypeOK, Stats!ReportState, Stats!Past, Stats!Reported
  <2>2. report' \in Stats!ReportState /\ report'.post = p
    BY <1>11, <2>1 DEF Stats!ReportPrevious, Stats!TypeOK, Stats!ReportState, Stats!Counter
  <2> DEFINE new == [Stats!Free EXCEPT !.pc = "find", !.data = Stats!Reported]
  <2>3. new \in Stats!Handler
    BY <2>1, FreeHandler DEF Stats!Handler
  <2>4. post' = [post EXCEPT ![p] = new]
    BY <1>11 DEF Stats!ReportPrevious
  <2> HIDE DEF new
  <2>5. post' \in [Posts -> Stats!Handler]
    BY <2>3, <2>4 DEF Stats!TypeOK
  <2> QED
    BY <1>11, <2>2, <2>5
       DEF Stats!ReportPrevious, Stats!TypeOK, Stats!counters, Stats!StatsAssumption
<1>12. ASSUME Stats!Deliver
       PROVE  Stats!TypeOK'
  <2>1. previous' \in [Stats!Hours -> Stats!Counter \cup {None}]
    BY <1>12 DEF Stats!Deliver, Stats!TypeOK
  <2>2. post' \in [Posts -> Stats!Handler]
    BY <1>12, FreeHandler DEF Stats!Deliver, Stats!TypeOK
  <2> QED
    BY <1>2, <1>12, <2>1, <2>2 DEF Stats!Deliver, Stats!TypeOK
<1>13. ASSUME Stats!PostFails
       PROVE  Stats!TypeOK'
  <2>1. post' \in [Posts -> Stats!Handler]
    BY <1>13, AbandonedHandler DEF Stats!PostFails
  <2> QED
    BY <1>2, <1>13, <2>1 DEF Stats!PostFails, Stats!TypeOK, Stats!counters
<1>14. ASSUME Stats!Tick
       PROVE  Stats!TypeOK'
  BY <1>14 DEF Stats!Tick, Stats!TypeOK, Stats!Hours, Stats!process, Stats!counters,
               Stats!StatsAssumption
<1>15. ASSUME Stats!Restart
       PROVE  Stats!TypeOK'
  <2>1. task' \in [Queries -> Stats!Task]
    <3>1. ASSUME NEW q \in Queries
          PROVE  Stats!Waiting \in Stats!Task /\ [task[q] EXCEPT !.pc = "booked"] \in Stats!Task
      BY DEF Stats!Waiting, Stats!TypeOK, Stats!Task
    <3> QED
      BY <1>15, <3>1 DEF Stats!Restart
  <2>2. post' \in [Posts -> Stats!Handler]
    BY <1>15, AbandonedHandler DEF Stats!Restart, Stats!TypeOK
  <2> QED
    BY <1>1, <1>2, <1>15, <2>1, <2>2
       DEF Stats!Restart, Stats!TypeOK, Stats!Counter, Stats!StatsAssumption
<1>16. ASSUME NEW p \in Posts, Stats!Find(p)
       PROVE  Stats!TypeOK'
  <2>1. [post[p] EXCEPT !.pc = "save", !.found = statsRow] \in Stats!Handler
    BY DEF Stats!TypeOK, Stats!Handler
  <2>2. post' = [post EXCEPT ![p] = [post[p] EXCEPT !.pc = "save", !.found = statsRow]]
    BY <1>16 DEF Stats!Find
  <2>3. post' \in [Posts -> Stats!Handler]
    BY <2>1, <2>2 DEF Stats!TypeOK
  <2> QED
    BY <1>16, <2>3 DEF Stats!Find, Stats!TypeOK, Stats!process, Stats!counters
<1>17. ASSUME NEW p \in Posts, Stats!Save(p)
       PROVE  Stats!TypeOK'
  BY <1>17, SavedRows, EndedHandler
     DEF Stats!Save, Stats!TypeOK, Stats!process, Stats!counters
<1>18. ASSUME NEW p \in Posts, Stats!SaveFails(p)
       PROVE  Stats!TypeOK'
  BY <1>18, EndedHandler DEF Stats!SaveFails, Stats!TypeOK, Stats!process, Stats!counters
<1>19. ASSUME UNCHANGED Stats!vars
       PROVE  Stats!TypeOK'
  BY <1>19 DEF Stats!vars, Stats!process, Stats!counters, Stats!TypeOK
<1> QED
  BY <1>3, <1>4, <1>5, <1>6, <1>7, <1>8, <1>9, <1>10, <1>11, <1>12, <1>13, <1>14, <1>15,
     <1>16, <1>17, <1>18, <1>19
     DEF Stats!Next, Stats!Report, Stats!Refused

\* The counters, the tasks, the report and the rows keep their types.
THEOREM StatsTypeCorrect ==
    ASSUME Stats!StatsAssumption
    PROVE  Stats!Spec => []Stats!TypeOK
<1>1. Stats!Init => Stats!TypeOK
  BY StatsInit
<1>2. Stats!TypeOK /\ [Stats!Next]_(Stats!vars) => Stats!TypeOK'
  BY StatsStep
<1> QED
  BY <1>1, <1>2, PTL DEF Stats!Spec

-----------------------------------------------------------------------------
(* Where a query is counted.                                               *)

Holds(h, q) == previous[h] # None /\ q \in previous[h]

\* A counted query is booked, and in one counter only.
Placed ==
    \A q \in Queries :
        /\ q \in owner => task[q].pc = "booked"
        /\ \A h \in Stats!Hours : Holds(h, q) =>
              /\ task[q].pc = "booked" /\ q \notin owner
              /\ \A g \in Stats!Hours : Holds(g, q) => g = h

\* The other steps leave the counters alone.
CounterStep ==
    \/ \E q \in Queries : Stats!Count(q) \/ Stats!ReadClock(q) \/ Stats!Roll(q) \/ Stats!Book(q)
    \/ \E new \in SUBSET Deployments : Stats!Table(new)
    \/ Stats!Deliver \/ Stats!Restart

LEMMA CountersStay ==
    ASSUME [Stats!Next]_(Stats!vars)
    PROVE  CounterStep \/ UNCHANGED <<task, owner, previous>>
  BY DEF Stats!Next, Stats!Report, Stats!Refused, Stats!TakeTimer, Stats!ReportOwner,
         Stats!ReportHour, Stats!ReportPrevious, Stats!PostFails, Stats!Find, Stats!Save,
         Stats!SaveFails, Stats!Tick, Stats!vars, Stats!process, Stats!counters, CounterStep

LEMMA PlacedStep ==
    ASSUME Stats!StatsAssumption, Stats!TypeOK, Placed, [Stats!Next]_(Stats!vars)
    PROVE  Placed'
\* Every step but those of Roll, Book and Restart takes queries out of the
\* counters at most, and books none.
<1>1. ASSUME \A q \in Queries : task[q].pc = "booked" => task'[q].pc = "booked",
             owner' \subseteq owner,
             \A h \in Stats!Hours : previous'[h] \in {previous[h], None}
      PROVE  Placed'
  BY <1>1 DEF Placed, Holds, Stats!TypeOK, Stats!Counter
<1>2. ASSUME NEW q \in Queries, Stats!Count(q)
      PROVE  Placed'
  BY <1>1, <1>2 DEF Stats!Count, Stats!TypeOK, Stats!Task
<1>3. ASSUME NEW q \in Queries, Stats!ReadClock(q)
      PROVE  Placed'
  BY <1>1, <1>3 DEF Stats!ReadClock, Stats!TypeOK, Stats!Task
<1>4. ASSUME NEW q \in Queries, Stats!Roll(q)
      PROVE  Placed'
  <2>1. \A p \in Queries : task[p].pc = "booked" => task'[p].pc = "booked"
    BY <1>4 DEF Stats!Roll, Stats!TypeOK, Stats!Task
  <2>2. CASE UNCHANGED <<owner, previous>>
    BY <1>1, <2>1, <2>2
  <2>3. CASE hour # 0 /\ previous' = [previous EXCEPT ![hour] = owner] /\ owner' = {}
    <3>1. \A h \in Stats!Hours : previous'[h] = IF h = hour THEN owner ELSE previous[h]
      BY <2>3 DEF Stats!TypeOK
    <3>2. ASSUME NEW h \in Stats!Hours, NEW p \in Queries, Holds(h, p)'
          PROVE  IF h = hour THEN p \in owner ELSE Holds(h, p)
      BY <3>1, <3>2 DEF Holds
    <3>3. ASSUME NEW p \in Queries, NEW h \in Stats!Hours, NEW g \in Stats!Hours,
                 Holds(h, p)', Holds(g, p)'
          PROVE  task'[p].pc = "booked" /\ g = h
      BY <2>1, <3>2, <3>3 DEF Placed
    <3> QED
      BY <2>3, <3>3 DEF Placed
  <2> QED
    BY <1>4, <2>2, <2>3 DEF Stats!Roll, Stats!CloseHour
<1>5. ASSUME NEW q \in Queries, Stats!Book(q)
      PROVE  Placed'
  <2>1. /\ task[q].pc = "rolled" /\ owner' = owner \cup {q} /\ UNCHANGED previous
        /\ \A p \in Queries : task'[p].pc = IF p = q THEN "booked" ELSE task[p].pc
    BY <1>5 DEF Stats!Book, Stats!TypeOK, Stats!Task
  <2> QED
    BY <2>1 DEF Placed, Holds
<1>6. ASSUME NEW new \in SUBSET Deployments, Stats!Table(new)
      PROVE  Placed'
  BY <1>1, <1>6 DEF Stats!Table
<1>7. ASSUME UNCHANGED <<task, owner, previous>>
      PROVE  Placed'
  BY <1>1, <1>7
<1>8. ASSUME Stats!Deliver
      PROVE  Placed'
  BY <1>1, <1>8 DEF Stats!Deliver
<1>9. ASSUME Stats!Restart
      PROVE  Placed'
  BY <1>9 DEF Stats!Restart, Stats!Nothing, Placed, Holds
<1> QED
  BY <1>2, <1>3, <1>4, <1>5, <1>6, <1>7, <1>8, <1>9, CountersStay DEF CounterStep

LEMMA PlacedInit ==
    ASSUME Stats!Init
    PROVE  Placed
  BY DEF Stats!Init, Stats!Nothing, Placed, Holds

LEMMA AtMostOne ==
    ASSUME NEW S, \A x, y \in S : x = y
    PROVE  Cardinality(S) <= 1
<1>1. CASE S = {}
  BY <1>1, FS_EmptySet
<1>2. CASE S # {}
  <2>1. PICK x \in S : S = {x}
    BY <1>2
  <2> QED
    BY <2>1, FS_Singleton
<1> QED
  BY <1>1, <1>2

\* At most one past hour holds a query: the set of those hours is empty or
\* has a single member.
LEMMA PlacedOnce ==
    ASSUME Stats!TypeOK, Placed
    PROVE  Stats!BookedOnce
<1> SUFFICES ASSUME NEW q \in Queries
             PROVE  LET past == {h \in Stats!Past : q \in previous[h]} IN
                    /\ Cardinality(past) <= 1
                    /\ q \in owner => past = {}
  BY SameCardinality DEF Stats!BookedOnce
<1> DEFINE past == {h \in Stats!Past : q \in previous[h]}
<1>1. \A h \in past : h \in Stats!Hours /\ Holds(h, q)
  BY DEF Stats!Past, Holds
<1>2. \A h, g \in past : h = g
  BY <1>1 DEF Placed
<1>3. q \in owner => past = {}
  BY <1>1 DEF Placed
<1>4. Cardinality(past) <= 1
  BY <1>2, AtMostOne
<1> QED
  BY <1>3, <1>4

\* A query is held under one hour at most, however the tasks of two hours
\* interleave.
THEOREM BookedSafe ==
    ASSUME Stats!StatsAssumption
    PROVE  Stats!Spec => []BookedOnce
<1>1. Stats!Init => Stats!TypeOK /\ Placed
  BY StatsInit, PlacedInit
<1>2. Stats!TypeOK /\ Placed /\ [Stats!Next]_(Stats!vars) => Stats!TypeOK' /\ Placed'
  BY StatsStep, PlacedStep
<1>3. Stats!TypeOK /\ Placed => Stats!BookedOnce
  BY PlacedOnce
<1> QED
  BY <1>1, <1>2, <1>3, PTL DEF Stats!Spec, BookedOnce

-----------------------------------------------------------------------------
(* Under which hour a query is counted.                                    *)

At(q, h) == task[q].pc = "booked" /\ task[q].now = h

CounterAt(counter, h) == counter # None => \A q \in counter : At(q, h)

RowsAt(rs) ==
    \A d \in Deployments, h \in Stats!Hours \ torn :
        rs[d][h] # None => \A q \in rs[d][h].counts : Of[q] = d /\ At(q, h)

HandlerAt(k) ==
    /\ \A h \in Stats!Hours \ torn : CounterAt(k.data[h], h)
    /\ RowsAt(k.found)

\* Between its copying and its posting the report's counter is of the hour it
\* was copied in.
OwnerAt == \A q \in owner : At(q, hour)
PastAt == \A h \in Stats!Hours : CounterAt(previous[h], h)
ReportAt ==
    report.pc = "hour" \/ (report.pc = "previous" /\ report.hour \notin torn)
    => \A q \in report.current : At(q, report.hour)
PostsAt == \A p \in Posts : HandlerAt(post[p])

\* Every counter, posted, found or saved, is of the hour that it stands under.
Homed == OwnerAt /\ PastAt /\ ReportAt /\ PostsAt /\ RowsAt(statsRow)

\* A query stays where it is booked, so that what was right of a counter or of
\* the rows remains right.
LEMMA AtStays ==
    ASSUME Stats!TypeOK, [Stats!Next]_(Stats!vars)
    PROVE  /\ \A q \in Queries, h \in Stats!Hours \cup {0} : At(q, h) => At(q, h)'
           /\ torn \subseteq torn'
<1>1. torn \subseteq torn'
  BY Zenon
     DEF Stats!Next, Stats!vars, Stats!process, Stats!counters, Stats!coordinator,
         Stats!Count, Stats!ReadClock, Stats!Roll, Stats!Book, Stats!TakeTimer, Stats!Table,
         Stats!Report, Stats!Refused, Stats!ReportOwner, Stats!ReportHour,
         Stats!ReportPrevious, Stats!Deliver, Stats!PostFails, Stats!Find, Stats!Save,
         Stats!SaveFails, Stats!Tick, Stats!Restart
<1>2. ASSUME NEW q \in Queries, task[q].pc = "booked"
      PROVE  task'[q].pc = "booked" /\ task'[q].now = task[q].now
  <2>1. CASE UNCHANGED task
    BY <1>2, <2>1
  <2>2. CASE \E r \in Queries :
                Stats!Count(r) \/ Stats!ReadClock(r) \/ Stats!Roll(r) \/ Stats!Book(r)
    BY <1>2, <2>2
       DEF Stats!Count, Stats!ReadClock, Stats!Roll, Stats!Book, Stats!TypeOK, Stats!Task
  <2>3. CASE Stats!Restart
    <3>1. task'[q] = [task[q] EXCEPT !.pc = "booked"]
      BY <1>2, <2>3 DEF Stats!Restart
    <3> QED
      BY <3>1 DEF Stats!TypeOK, Stats!Task
  <2> QED
    BY <2>1, <2>2, <2>3, CountersStay DEF CounterStep, Stats!Table, Stats!Deliver
<1> QED
  BY <1>1, <1>2 DEF At

LEMMA CounterStays ==
    ASSUME Stats!TypeOK, [Stats!Next]_(Stats!vars), NEW h \in Stats!Hours \cup {0},
           NEW c \in Stats!Counter \cup {None}, CounterAt(c, h)
    PROVE  CounterAt(c, h)'
  BY AtStays DEF CounterAt, Stats!Counter

LEMMA RowsStay ==
    ASSUME Stats!TypeOK, [Stats!Next]_(Stats!vars), NEW rs \in Stats!StatsRows, RowsAt(rs)
    PROVE  RowsAt(rs)'
  BY AtStays DEF RowsAt, Stats!StatsRows, Stats!Row, Stats!Counter

LEMMA HandlerStays ==
    ASSUME Stats!TypeOK, [Stats!Next]_(Stats!vars), NEW k \in Stats!Handler, HandlerAt(k)
    PROVE  HandlerAt(k)'
<1>1. k.found \in Stats!StatsRows /\ \A h \in Stats!Hours : k.data[h] \in Stats!Counter \cup {None}
  BY DEF Stats!Handler
<1>2. RowsAt(k.found)'
  BY <1>1, RowsStay DEF HandlerAt
<1>3. ASSUME NEW h \in Stats!Hours \ torn'
      PROVE  CounterAt(k.data[h], h)'
  <2>1. h \in Stats!Hours \ torn
    BY AtStays
  <2> QED
    BY <1>1, <2>1, CounterStays DEF HandlerAt
<1> QED
  BY <1>2, <1>3 DEF HandlerAt

\* A counter, a handler, the rows that a step leaves alone remain right.
LEMMA HomedParts ==
    ASSUME Stats!TypeOK, Homed, [Stats!Next]_(Stats!vars)
    PROVE  /\ UNCHANGED <<owner, hour>> => OwnerAt'
           /\ UNCHANGED previous => PastAt'
           /\ UNCHANGED report => ReportAt'
           /\ \A p \in Posts : post'[p] = post[p] => HandlerAt(post[p])'
           /\ UNCHANGED statsRow => RowsAt(statsRow)'
<1>1. UNCHANGED <<owner, hour>> => OwnerAt'
  BY AtStays DEF Homed, OwnerAt, CounterAt, Stats!TypeOK, Stats!Counter
<1>2. UNCHANGED previous => PastAt'
  BY AtStays DEF Homed, PastAt, CounterAt, Stats!TypeOK, Stats!Counter
<1>3. UNCHANGED report => ReportAt'
  BY AtStays DEF Homed, ReportAt, CounterAt, Stats!TypeOK, Stats!ReportState, Stats!Counter
<1>4. ASSUME NEW p \in Posts, post'[p] = post[p]
      PROVE  HandlerAt(post[p])'
  <2>1. post[p] \in Stats!Handler /\ HandlerAt(post[p])
    BY DEF Stats!TypeOK, Homed, PostsAt
  <2>2. \A k \in Stats!Handler : HandlerAt(k) => HandlerAt(k)'
    BY HandlerStays
  <2> QED
    BY <1>4, <2>1, <2>2 DEF HandlerAt, CounterAt, RowsAt
<1>5. UNCHANGED statsRow => RowsAt(statsRow)'
  <2>1. \A rs \in Stats!StatsRows : RowsAt(rs) => RowsAt(rs)'
    BY RowsStay
  <2> QED
    BY <2>1 DEF Stats!TypeOK, Homed, RowsAt
<1> QED
  BY <1>1, <1>2, <1>3, <1>4, <1>5

\* A handler that is free has nothing that could be wrong.
LEMMA FreeAt ==
    /\ HandlerAt(Stats!Free)'
    /\ HandlerAt(Stats!Free)
  BY DEF HandlerAt, CounterAt, RowsAt, Stats!Free, Stats!Nothing

\* A step that frees some handlers and leaves the others alone.
LEMMA FreedAt ==
    ASSUME Stats!TypeOK, Homed, [Stats!Next]_(Stats!vars),
           \A p \in Posts : \/ post'[p] = post[p]
                           \/ \E pc \in {"free", "saved", "refused"} :
                                 post'[p] = [Stats!Free EXCEPT !.pc = pc]
    PROVE  PostsAt'
<1> SUFFICES ASSUME NEW p \in Posts
             PROVE  HandlerAt(post[p])'
  BY DEF PostsAt
<1>1. CASE post'[p] = post[p]
  BY <1>1, HomedParts
<1>2. ASSUME NEW pc \in {"free", "saved", "refused"}, post'[p] = [Stats!Free EXCEPT !.pc = pc]
      PROVE  HandlerAt(post[p])'
  BY <1>2 DEF HandlerAt, CounterAt, RowsAt, Stats!Free, Stats!Nothing
<1> QED
  BY <1>1, <1>2

LEMMA HomedInit ==
    ASSUME Stats!Init
    PROVE  Homed
  BY DEF Stats!Init, Stats!Nothing, Stats!Resting, Stats!Free, Homed, OwnerAt, PastAt,
         ReportAt, PostsAt, HandlerAt, CounterAt, RowsAt

\* There is an hour before anything is booked.
Started ==
    /\ \A q \in Queries : task[q].pc = "timed" => task[q].now # 0
    /\ hour = 0 => owner = {} /\ \A q \in Queries : task[q].pc # "rolled"

LEMMA StartedStep ==
    ASSUME Stats!TypeOK, Started, [Stats!Next]_(Stats!vars)
    PROVE  Started'
<1>1. CASE UNCHANGED <<task, owner, hour>>
  BY <1>1 DEF Started
<1>2. ASSUME NEW q \in Queries, Stats!Count(q) \/ Stats!ReadClock(q)
      PROVE  Started'
  BY <1>2 DEF Stats!Count, Stats!ReadClock, Stats!TypeOK, Stats!Task, Stats!Hours, Started
<1>3. ASSUME NEW q \in Queries, Stats!Roll(q)
      PROVE  Started'
  BY <1>3 DEF Stats!Roll, Stats!TypeOK, Stats!Task, Started
<1>4. ASSUME NEW q \in Queries, Stats!Book(q)
      PROVE  Started'
  BY <1>4 DEF Stats!Book, Stats!TypeOK, Stats!Task, Started
<1>5. ASSUME NEW new \in SUBSET Deployments, Stats!Table(new)
      PROVE  Started'
  BY <1>5 DEF Stats!Table, Started
<1>6. ASSUME Stats!Restart
      PROVE  Started'
  <2>1. \A q \in Queries : task'[q].pc \in {"waiting", "booked"}
    BY <1>6 DEF Stats!Restart, Stats!Waiting, Stats!TypeOK, Stats!Task
  <2> QED
    BY <1>6, <2>1 DEF Stats!Restart, Started
<1>7. CASE \/ Stats!TakeTimer \/ Stats!Tick \/ Stats!Report \/ Stats!PostFails
           \/ \E p \in Posts : Stats!Find(p) \/ Stats!Save(p) \/ Stats!SaveFails(p)
           \/ UNCHANGED Stats!vars
  BY <1>1, <1>7
     DEF Stats!TakeTimer, Stats!Tick, Stats!Report, Stats!Refused, Stats!ReportOwner,
         Stats!ReportHour, Stats!ReportPrevious, Stats!Deliver, Stats!PostFails, Stats!Find,
         Stats!Save, Stats!SaveFails, Stats!vars, Stats!process, Stats!counters
<1> QED
  BY <1>2, <1>3, <1>4, <1>5, <1>6, <1>7 DEF Stats!Next

LEMMA HomedStep ==
    ASSUME Stats!StatsAssumption, Stats!TypeOK, Started, Homed, [Stats!Next]_(Stats!vars)
    PROVE  Homed'
<1> USE DEF Stats!coordinator
<1>1. /\ UNCHANGED post => PostsAt'
      /\ OwnerAt /\ PastAt /\ ReportAt /\ PostsAt /\ RowsAt(statsRow)
  BY HomedParts DEF PostsAt, Homed
<1>2. CASE UNCHANGED <<owner, hour, previous, report, post, statsRow>>
  BY <1>1, <1>2, HomedParts DEF Homed
<1>3. ASSUME NEW q \in Queries, Stats!Roll(q)
      PROVE  Homed'
  <2>1. UNCHANGED <<report, post, statsRow>>
    BY <1>3 DEF Stats!Roll
  <2>2. CASE UNCHANGED <<owner, previous, hour>>
    BY <1>2, <2>1, <2>2
  <2>3. CASE UNCHANGED <<owner, previous>> /\ hour = 0
    <3>1. OwnerAt'
      BY <2>3 DEF Started, OwnerAt, CounterAt
    <3> QED
      BY <1>1, <2>1, <2>3, <3>1, HomedParts DEF Homed
  <2>4. CASE hour # 0 /\ previous' = [previous EXCEPT ![hour] = owner] /\ owner' = {}
    <3>1. OwnerAt'
      BY <2>4 DEF OwnerAt, CounterAt
    <3>2. PastAt'
      <4>1. ASSUME NEW h \in Stats!Hours
            PROVE  /\ previous'[h] \in Stats!Counter \cup {None}
                   /\ CounterAt(previous'[h], h)
        BY <1>1, <2>4 DEF OwnerAt, PastAt, Stats!TypeOK, CounterAt
      <4> QED
        BY <4>1, AtStays DEF PastAt, CounterAt, Stats!Counter
    <3> QED
      BY <1>1, <2>1, <3>1, <3>2, HomedParts DEF Homed
  <2> QED
    BY <1>3, <2>2, <2>3, <2>4 DEF Stats!Roll, Stats!CloseHour
<1>4. ASSUME NEW q \in Queries, Stats!Book(q)
      PROVE  Homed'
  <2>1. /\ At(q, hour)' /\ owner' = owner \cup {q}
        /\ UNCHANGED <<hour, previous, report, post, statsRow>>
    BY <1>4 DEF Stats!Book, Stats!TypeOK, Stats!Task, At
  <2>2. OwnerAt'
    BY <1>1, <2>1, AtStays DEF OwnerAt, CounterAt, Stats!TypeOK, Stats!Counter, At
  <2> QED
    BY <1>1, <2>1, <2>2, HomedParts DEF Homed
<1>5. ASSUME NEW new \in SUBSET Deployments, Stats!Table(new)
      PROVE  Homed'
  <2>1. owner' \subseteq owner /\ UNCHANGED <<task, hour, previous, report, post, statsRow>>
    BY <1>5 DEF Stats!Table
  <2>2. OwnerAt'
    BY <1>1, <2>1 DEF OwnerAt, CounterAt, At
  <2> QED
    BY <1>1, <2>1, <2>2, HomedParts DEF Homed
<1>6. ASSUME Stats!ReportOwner
      PROVE  Homed'
  <2>1. /\ report' = [report EXCEPT !.pc = "hour", !.current = owner, !.hour = hour]
        /\ UNCHANGED <<task, owner, hour, previous, post, statsRow>>
    BY <1>6 DEF Stats!ReportOwner, Stats!counters
  <2>2. report'.current = owner /\ report'.hour = hour
    BY <2>1 DEF Stats!TypeOK, Stats!ReportState
  <2>3. ReportAt'
    BY <1>1, <2>1, <2>2 DEF ReportAt, OwnerAt, CounterAt, At
  <2> QED
    BY <1>1, <2>1, <2>3, HomedParts DEF Homed
<1>7. ASSUME Stats!ReportHour
      PROVE  Homed'
  <2>1. UNCHANGED <<task, owner, hour, previous, post, statsRow>>
    BY <1>7 DEF Stats!ReportHour, Stats!counters
  <2>2. ReportAt'
    <3>1. CASE hour = 0
      BY <1>7, <3>1 DEF Stats!ReportHour, Stats!Resting, ReportAt
    <3>2. CASE hour # 0
      <4>1. /\ report' = [report EXCEPT !.pc = "previous", !.hour = hour]
            /\ torn' = IF hour \in {0, report.hour} \/ report.current = {} THEN torn
                       ELSE torn \cup {hour}
            /\ report.pc = "hour"
        BY <1>7, <3>2 DEF Stats!ReportHour
      <4>2. report'.current = report.current /\ report'.hour = hour
        BY <4>1 DEF Stats!TypeOK, Stats!ReportState
      <4>3. CASE report.current = {}
        BY <4>2, <4>3 DEF ReportAt, CounterAt
      <4>4. CASE hour = report.hour
        BY <1>1, <2>1, <4>1, <4>2, <4>4 DEF ReportAt, CounterAt, At
      <4>5. CASE report.current # {} /\ hour # report.hour
        BY <3>2, <4>1, <4>2, <4>5 DEF ReportAt, Stats!TypeOK, Stats!ReportState
      <4> QED
        BY <4>3, <4>4, <4>5
    <3> QED
      BY <3>1, <3>2
  <2> QED
    BY <1>1, <2>1, <2>2, HomedParts DEF Homed
<1>8. ASSUME NEW p \in Posts, Stats!ReportPrevious(p)
      PROVE  Homed'
  <2>1. /\ UNCHANGED <<task, owner, hour, previous, statsRow, torn>>
        /\ report.pc = "previous" /\ report'.pc = "answer"
        /\ post' = [post EXCEPT ![p] = [Stats!Free EXCEPT !.pc = "find", !.data = Stats!Reported]]
    BY <1>8 DEF Stats!ReportPrevious, Stats!counters, Stats!TypeOK, Stats!ReportState
  <2>2. ASSUME NEW h \in Stats!Hours \ torn
        PROVE  CounterAt(Stats!Reported[h], h)
    BY <1>1, <2>1 DEF Stats!Reported, Stats!Past, PastAt, ReportAt, CounterAt
  <2>3. HandlerAt(post[p])'
    <3>1. /\ post'[p].data = Stats!Reported
          /\ post'[p].found = [d \in Deployments |-> Stats!Nothing]
      BY <2>1 DEF Stats!TypeOK, Stats!Free
    <3> QED
      BY <2>1, <2>2, <3>1 DEF HandlerAt, CounterAt, RowsAt, At, Stats!Nothing
  <2>4. PostsAt'
    <3>1. \A r \in Posts : r # p => post'[r] = post[r]
      BY <2>1 DEF Stats!TypeOK
    <3> QED
      BY <2>3, <3>1, HomedParts DEF PostsAt
  <2> QED
    BY <1>1, <2>1, <2>4, HomedParts DEF Homed, ReportAt
<1>9. ASSUME NEW p \in Posts, Stats!Find(p)
      PROVE  Homed'
  <2>1. /\ UNCHANGED <<task, owner, hour, previous, report, statsRow, torn>>
        /\ post' = [post EXCEPT ![p] = [post[p] EXCEPT !.pc = "save", !.found = statsRow]]
    BY <1>9 DEF Stats!Find, Stats!process, Stats!counters
  <2>2. HandlerAt(post[p])'
    <3>1. post'[p].data = post[p].data /\ post'[p].found = statsRow
      BY <2>1 DEF Stats!TypeOK, Stats!Handler
    <3>2. HandlerAt(post[p])
      BY <1>1 DEF PostsAt
    <3> QED
      BY <1>1, <2>1, <3>1, <3>2 DEF HandlerAt, CounterAt, RowsAt, At
  <2>3. PostsAt'
    <3>1. \A r \in Posts : r # p => post'[r] = post[r]
      BY <2>1 DEF Stats!TypeOK
    <3> QED
      BY <2>2, <3>1, HomedParts DEF PostsAt
  <2> QED
    BY <1>1, <2>1, <2>3, HomedParts DEF Homed
<1>10. ASSUME NEW p \in Posts, Stats!Save(p)
       PROVE  Homed'
  <2>1. UNCHANGED <<task, owner, hour, previous, report, torn>>
    BY <1>10 DEF Stats!Save, Stats!process, Stats!counters
  <2>2. RowsAt(statsRow)'
    <3>1. HandlerAt(post[p]) /\ RowsAt(statsRow)
      BY <1>1 DEF PostsAt
    <3>2. ASSUME NEW d \in Deployments, NEW h \in Stats!Hours \ torn, statsRow'[d][h] # None,
                 NEW q \in statsRow'[d][h].counts
          PROVE  Of[q] = d /\ At(q, h)
      <4>1. CASE statsRow'[d][h] = statsRow[d][h]
        BY <3>1, <3>2, <4>1 DEF RowsAt
      <4>2. CASE post[p].found[d][h] # None /\ statsRow'[d][h] = post[p].found[d][h]
        BY <3>1, <3>2, <4>2 DEF HandlerAt, RowsAt
      <4>3. CASE statsRow'[d][h].counts = Stats!Entry(p, d, h)
        BY <3>1, <3>2, <4>3 DEF HandlerAt, CounterAt, Stats!Entry
      <4> QED
        BY <1>10, <4>1, <4>2, <4>3, SavedRow, MergedType
    <3> QED
      BY <2>1, <3>2 DEF RowsAt, At
  <2>3. PostsAt'
    BY <1>10, FreedAt DEF Stats!Save, Stats!Answered, Stats!TypeOK, Stats!Free
  <2> QED
    BY <1>1, <2>1, <2>2, <2>3, HomedParts DEF Homed
<1>11. ASSUME NEW p \in Posts, Stats!SaveFails(p)
       PROVE  Homed'
  <2>1. UNCHANGED <<owner, hour, previous, report, statsRow>>
    BY <1>11 DEF Stats!SaveFails, Stats!process, Stats!counters
  <2>2. PostsAt'
    BY <1>11, FreedAt DEF Stats!SaveFails, Stats!Answered, Stats!TypeOK, Stats!Free
  <2> QED
    BY <1>1, <2>1, <2>2, HomedParts DEF Homed
<1>12. ASSUME Stats!Deliver
       PROVE  Homed'
  <2>1. /\ UNCHANGED <<task, owner, hour, statsRow>> /\ report'.pc = "rest"
        /\ \A h \in Stats!Hours : previous'[h] \in {previous[h], None}
    BY <1>12, RestingReport DEF Stats!Deliver
  <2>2. PastAt'
    BY <1>1, <2>1 DEF PastAt, CounterAt, At
  <2>3. PostsAt'
    BY <1>12, FreedAt DEF Stats!Deliver, Stats!TypeOK, Stats!Free
  <2> QED
    BY <1>1, <2>1, <2>2, <2>3, HomedParts DEF Homed, ReportAt
<1>13. ASSUME Stats!PostFails
       PROVE  Homed'
  <2>1. UNCHANGED <<owner, hour, previous, statsRow>> /\ report'.pc = "rest"
    BY <1>13, RestingReport DEF Stats!PostFails, Stats!counters
  <2>2. PostsAt'
    <3>1. \A p \in Posts : post'[p] \in {post[p], Stats!Free}
      BY <1>13, AbandonedHandler DEF Stats!PostFails
    <3> QED
      BY <3>1, FreedAt DEF Stats!Free
  <2> QED
    BY <1>1, <2>1, <2>2, HomedParts DEF Homed, ReportAt
<1>14. ASSUME Stats!Restart
       PROVE  Homed'
  <2>1. /\ owner' = {} /\ previous' = Stats!Nothing /\ report'.pc = "rest"
        /\ UNCHANGED statsRow
    BY <1>14, RestingReport DEF Stats!Restart
  <2>2. PostsAt'
    BY <1>1, <1>14, AbandonedHandler, FreedAt DEF Stats!Restart, Stats!Free
  <2> QED
    BY <2>1, <2>2, HomedParts
       DEF Homed, OwnerAt, PastAt, ReportAt, CounterAt, Stats!Nothing
<1>15. ASSUME \/ \E q \in Queries : Stats!Count(q) \/ Stats!ReadClock(q)
              \/ Stats!TakeTimer \/ Stats!Tick \/ UNCHANGED Stats!vars
       PROVE  Homed'
  BY <1>2, <1>15
     DEF Stats!Count, Stats!ReadClock, Stats!TakeTimer, Stats!Tick, Stats!vars, Stats!process,
         Stats!counters
<1> QED
  BY <1>3, <1>4, <1>5, <1>6, <1>7, <1>8, <1>9, <1>10, <1>11, <1>12, <1>13, <1>14, <1>15
     DEF Stats!Next, Stats!Report, Stats!Refused

(* The coordinator counts a query under the hour it was booked under, unless *)
(* a report was torn, however late, often or in what order reports are      *)
(* handled (metrics.rs 117-160, stats.service.ts 66-93).                    *)
THEOREM CountedSafe ==
    ASSUME Stats!StatsAssumption
    PROVE  Stats!Spec => []CountedAsBooked
<1>1. Stats!Init => Stats!TypeOK /\ Started /\ Homed
  BY StatsInit, HomedInit DEF Stats!Init, Stats!Waiting, Started
<1>2. Stats!TypeOK /\ Started /\ Homed /\ [Stats!Next]_(Stats!vars)
      => Stats!TypeOK' /\ Started' /\ Homed'
  BY StatsStep, StartedStep, HomedStep
<1>3. Homed => Stats!CountedAsBooked
  BY DEF Homed, RowsAt, At, Stats!CountedAsBooked
<1> QED
  BY <1>1, <1>2, <1>3, PTL DEF Stats!Spec, CountedAsBooked

-----------------------------------------------------------------------------
(* ControllerAccount.  One process at a time replaces another: it waits for *)
(* the port of one that it told to stop, and only while it waits is there a *)
(* signal on its way.                                                       *)

ProcessOK(i) ==
    /\ port = i <=> loop[i].pc \in {"store", "run"}
    /\ sender = i <=> loop[i].pc = "run"
    /\ loop[i].pc \notin {"free", "run"} => loop[i].key = account.key
    /\ loop[i].pc = "store" => sender = Nobody /\ signalled = {}
    /\ loop[i].pc \in {"bind", "backoff"} /\ port # Nobody => port \in signalled

AccountInv ==
    /\ Account!TypeOK
    /\ \A i \in Loops : ProcessOK(i)
    /\ \A i \in Loops : loop[i].pc \notin {"free", "run"} =>
          \A j \in Loops \ {i} : loop[j].pc \in {"free", "run"}
    /\ signalled \subseteq {sender}
    /\ Account!Settled => signalled = {}
    /\ Account!Settled /\ account.key # Nobody =>
          sender \in Loops /\ loop[sender].key = account.key

\* A process goes on to another step under its key.
LEMMA ProcessGoes ==
    ASSUME Account!TypeOK, NEW i \in Loops,
           NEW pc \in {"free", "stop", "bind", "backoff", "store", "run"}, Account!Go(i, pc)
    PROVE  /\ loop' \in [Loops -> [key : ControllerKeys \cup {Nobody},
                           pc : {"free", "stop", "bind", "backoff", "store", "run"}]]
           /\ loop'[i].pc = pc /\ loop'[i].key = loop[i].key
           /\ \A j \in Loops \ {i} : loop'[j] = loop[j]
  BY DEF Account!TypeOK, Account!Go

\* A process starts with a key, or ends.
LEMMA ProcessSet ==
    ASSUME Account!TypeOK, NEW i \in Loops, NEW k \in ControllerKeys \cup {Nobody},
           NEW pc \in {"free", "stop"}, loop' = [loop EXCEPT ![i] = [key |-> k, pc |-> pc]]
    PROVE  /\ loop' \in [Loops -> [key : ControllerKeys \cup {Nobody},
                           pc : {"free", "stop", "bind", "backoff", "store", "run"}]]
           /\ loop'[i].pc = pc /\ loop'[i].key = k
           /\ \A j \in Loops \ {i} : loop'[j] = loop[j]
  BY DEF Account!TypeOK

LEMMA AccountStep ==
    ASSUME Account!AccountAssumption, AccountInv, [Account!Next]_(Account!vars)
    PROVE  AccountInv'
<1> USE DEF Account!AccountAssumption
<1> DEFINE pcs == {"free", "stop", "bind", "backoff", "store", "run"}
<1>1. /\ Account!TypeOK /\ signalled \subseteq Loops /\ port \in Loops \cup {Nobody}
      /\ sender \in Loops \cup {Nobody} /\ \A i \in Loops : loop[i].pc \in pcs
  BY DEF AccountInv, Account!TypeOK
\* The coordinator's rows and the chain say nothing of the processes.
<1>2. ASSUME UNCHANGED <<account, loop, port, sender, signalled>>, Account!TypeOK'
      PROVE  AccountInv'
  BY <1>2 DEF AccountInv, ProcessOK, Account!Settled
<1>3. CASE Account!GetIndexer
  BY <1>1, <1>2, <1>3 DEF Account!GetIndexer, Account!p2p, Account!TypeOK
<1>4. CASE Account!RemoveAccounts
  BY <1>1, <1>2, <1>4 DEF Account!RemoveAccounts, Account!p2p, Account!TypeOK
<1>5. CASE Account!Restart
  BY <1>1, <1>2, <1>5 DEF Account!Restart, Account!p2p, Account!TypeOK
<1>6. ASSUME NEW a \in Indexers, Account!AddIndexer(a)
      PROVE  AccountInv'
  BY <1>1, <1>2, <1>6 DEF Account!AddIndexer, Account!p2p, Account!TypeOK
<1>7. ASSUME NEW k \in ControllerKeys,
             Account!AddController(k) \/ Account!RemoveController(k) \/ Account!Register(k)
      PROVE  AccountInv'
  BY <1>1, <1>2, <1>7
     DEF Account!AddController, Account!RemoveController, Account!Register, Account!p2p,
         Account!TypeOK
<1>8. CASE Account!HandleAccount
  <2> DEFINE k == Account!ActiveKey
  <2>1. k \in ControllerKeys \cup {Nobody}
    BY <1>1 DEF Account!ActiveKey, Account!TypeOK
  <2>2. /\ Account!Settled /\ account' = [indexer |-> indexer, key |-> k]
        /\ UNCHANGED <<rows, indexer, controllers, active, port, sender, signalled>>
    BY <1>8 DEF Account!HandleAccount, Account!coordinator
  <2>3. account' \in [indexer : Indexers \cup {Nobody}, key : ControllerKeys \cup {Nobody}]
        /\ account'.key = k
    BY <1>1, <2>1, <2>2 DEF Account!TypeOK
  <2>4. CASE Account!Replaces(k)
    <3>1. PICK i \in Loops : /\ loop[i].pc = "free"
                             /\ loop' = [loop EXCEPT ![i] = [key |-> k, pc |-> "stop"]]
      BY <1>8, <2>4 DEF Account!HandleAccount
    <3> HIDE DEF k
    <3>2. /\ Account!TypeOK'
          /\ loop'[i].pc = "stop" /\ loop'[i].key = k
          /\ \A j \in Loops \ {i} : loop'[j] = loop[j]
      BY <1>1, <2>1, <2>2, <2>3, <3>1, ProcessSet DEF Account!TypeOK
    <3>3. \A j \in Loops \ {i} : loop'[j].pc \in {"free", "run"}
      BY <2>2, <3>2 DEF Account!Settled
    <3>4. ASSUME NEW j \in Loops PROVE ProcessOK(j)'
      BY <2>2, <2>3, <3>1, <3>2, <3>3 DEF AccountInv, ProcessOK
    <3> QED
      BY <2>2, <3>2, <3>3, <3>4 DEF AccountInv, Account!Settled
  <2>5. CASE ~Account!Replaces(k)
    <3>1. UNCHANGED loop /\ (k = Nobody \/ k = account.key)
      BY <1>8, <2>5 DEF Account!HandleAccount, Account!Replaces
    <3> HIDE DEF k
    <3>2. Account!TypeOK'
      BY <1>1, <2>2, <2>3, <3>1 DEF Account!TypeOK
    <3>3. ASSUME NEW j \in Loops PROVE ProcessOK(j)'
      BY <2>2, <3>1 DEF AccountInv, ProcessOK, Account!Settled
    <3> QED
      BY <2>2, <2>3, <3>1, <3>2, <3>3 DEF AccountInv, Account!Settled
  <2> QED
    BY <2>4, <2>5
<1>9. ASSUME NEW i \in Loops, Account!Stop(i)
      PROVE  AccountInv'
  <2>1. /\ loop[i].pc = "stop" /\ Account!Go(i, "bind")
        /\ signalled' = IF sender = Nobody THEN signalled ELSE signalled \cup {sender}
        /\ UNCHANGED <<rows, indexer, controllers, active, account, port, sender>>
    BY <1>9 DEF Account!Stop, Account!coordinator
  <2>2. /\ Account!TypeOK' /\ loop'[i].pc = "bind" /\ loop'[i].key = loop[i].key
        /\ \A j \in Loops \ {i} : loop'[j] = loop[j]
    BY <1>1, <2>1, ProcessGoes DEF Account!TypeOK
  <2>3. port # Nobody => port = sender
    BY <1>1, <2>1 DEF AccountInv, ProcessOK
  <2>4. ASSUME NEW j \in Loops PROVE ProcessOK(j)'
    BY <1>1, <2>1, <2>2, <2>3 DEF AccountInv, ProcessOK
  <2> QED
    BY <2>1, <2>2, <2>4 DEF AccountInv, Account!Settled
<1>10. ASSUME NEW i \in Loops, Account!Bind(i)
       PROVE  AccountInv'
  <2>1. /\ loop[i].pc = "bind" /\ port = Nobody /\ Account!Go(i, "store") /\ port' = i
        /\ UNCHANGED <<rows, indexer, controllers, active, account, sender, signalled>>
    BY <1>10 DEF Account!Bind, Account!coordinator
  <2>2. /\ Account!TypeOK' /\ loop'[i].pc = "store" /\ loop'[i].key = loop[i].key
        /\ \A j \in Loops \ {i} : loop'[j] = loop[j]
    BY <1>1, <2>1, ProcessGoes DEF Account!TypeOK
  <2>3. sender = Nobody /\ signalled = {}
    BY <1>1, <2>1 DEF AccountInv, ProcessOK
  <2>4. ASSUME NEW j \in Loops PROVE ProcessOK(j)'
    BY <1>1, <2>1, <2>2, <2>3 DEF AccountInv, ProcessOK
  <2> QED
    BY <2>1, <2>2, <2>3, <2>4 DEF AccountInv, Account!Settled
<1>11. ASSUME NEW i \in Loops, Account!BindFails(i) \/ Account!Retry(i)
       PROVE  AccountInv'
  <2>1. PICK pc \in {"bind", "backoff"} :
           /\ loop[i].pc \in {"bind", "backoff"} /\ Account!Go(i, pc)
           /\ UNCHANGED <<rows, indexer, controllers, active, account, port, sender, signalled>>
    BY <1>11 DEF Account!BindFails, Account!Retry, Account!coordinator
  <2>2. /\ Account!TypeOK' /\ loop'[i].pc = pc /\ loop'[i].key = loop[i].key
        /\ \A j \in Loops \ {i} : loop'[j] = loop[j]
    BY <1>1, <2>1, ProcessGoes DEF Account!TypeOK
  <2>3. ASSUME NEW j \in Loops PROVE ProcessOK(j)'
    BY <1>1, <2>1, <2>2 DEF AccountInv, ProcessOK
  <2> QED
    BY <2>1, <2>2, <2>3 DEF AccountInv, Account!Settled
<1>12. ASSUME NEW i \in Loops, Account!Store(i)
       PROVE  AccountInv'
  <2>1. /\ loop[i].pc = "store" /\ Account!Go(i, "run") /\ sender' = i
        /\ UNCHANGED <<rows, indexer, controllers, active, account, port, signalled>>
    BY <1>12 DEF Account!Store, Account!coordinator
  <2>2. /\ Account!TypeOK' /\ loop'[i].pc = "run" /\ loop'[i].key = loop[i].key
        /\ \A j \in Loops \ {i} : loop'[j] = loop[j]
    BY <1>1, <2>1, ProcessGoes DEF Account!TypeOK
  <2>3. sender = Nobody /\ signalled = {} /\ loop[i].key = account.key
    BY <2>1 DEF AccountInv, ProcessOK
  <2>4. \A j \in Loops \ {i} : loop[j].pc = "free"
    BY <1>1, <2>1, <2>3 DEF AccountInv, ProcessOK
  <2>5. ASSUME NEW j \in Loops PROVE ProcessOK(j)'
    BY <1>1, <2>1, <2>2, <2>3, <2>4 DEF AccountInv, ProcessOK
  <2> QED
    BY <2>1, <2>2, <2>3, <2>4, <2>5 DEF AccountInv, Account!Settled
<1>13. ASSUME NEW i \in Loops, Account!End(i)
       PROVE  AccountInv'
  <2>1. /\ loop[i].pc = "run" /\ i \in signalled
        /\ loop' = [loop EXCEPT ![i] = [key |-> Nobody, pc |-> "free"]]
        /\ port' = Nobody /\ signalled' = signalled \ {i}
        /\ sender' = IF sender = i THEN Nobody ELSE sender
        /\ UNCHANGED <<rows, indexer, controllers, active, account>>
    BY <1>13 DEF Account!End, Account!coordinator
  <2>2. /\ Account!TypeOK' /\ loop'[i].pc = "free"
        /\ \A j \in Loops \ {i} : loop'[j] = loop[j]
    BY <1>1, <2>1, ProcessSet DEF Account!TypeOK
  <2>3. sender = i /\ port = i /\ signalled' = {} /\ sender' = Nobody
    BY <2>1 DEF AccountInv, ProcessOK
  <2>4. ASSUME NEW j \in Loops PROVE ProcessOK(j)'
    BY <1>1, <2>1, <2>2, <2>3 DEF AccountInv, ProcessOK
  <2>5. PICK j \in Loops : loop[j].pc \notin {"free", "run"}
    BY <2>1 DEF AccountInv, Account!Settled
  <2>6. ~Account!Settled'
    BY <2>1, <2>2, <2>5 DEF Account!Settled
  <2> QED
    BY <2>1, <2>2, <2>3, <2>4, <2>6 DEF AccountInv
<1>14. CASE UNCHANGED Account!vars
  BY <1>1, <1>2, <1>14 DEF Account!vars, Account!coordinator, Account!p2p, Account!TypeOK
<1> QED
  BY <1>3, <1>4, <1>5, <1>6, <1>7, <1>8, <1>9, <1>10, <1>11, <1>12, <1>13, <1>14
     DEF Account!Next, Account!Process

LEMMA AccountInit ==
    ASSUME Account!AccountAssumption, Account!Init
    PROVE  AccountInv
  BY DEF Account!AccountAssumption, Account!Init, AccountInv, ProcessOK, Account!TypeOK,
         Account!Settled

\* The rows, the account and the processes keep their types.
THEOREM AccountTypeCorrect ==
    ASSUME Account!AccountAssumption
    PROVE  Account!Spec => []Account!TypeOK
<1>1. Account!Init => AccountInv
  BY AccountInit
<1>2. AccountInv /\ [Account!Next]_(Account!vars) => AccountInv'
  BY AccountStep
<1>3. AccountInv => Account!TypeOK
  BY DEF AccountInv
<1> QED
  BY <1>1, <1>2, <1>3, PTL DEF Account!Spec

\* The port a process waits for is about to be free, and when all is still the
\* only process runs under the proxy's key, whatever keys came before.
THEOREM AccountSafe ==
    ASSUME Account!AccountAssumption
    PROVE  Account!Spec => []RunsAsAccount
<1>1. Account!Init => AccountInv
  BY AccountInit
<1>2. AccountInv /\ [Account!Next]_(Account!vars) => AccountInv'
  BY AccountStep
<1>3. ASSUME AccountInv
      PROVE  Account!RunsAsAccount
  <2>1. ASSUME account.key # Nobody, Account!Settled
        PROVE  Account!RunsAlone(account.key)
    <3>1. sender \in Loops /\ loop[sender].key = account.key /\ loop[sender].pc = "run"
      BY <1>3, <2>1 DEF AccountInv, ProcessOK
    <3>2. loop[sender] = [key |-> account.key, pc |-> "run"]
      BY <1>3, <3>1 DEF AccountInv, Account!TypeOK
    <3>3. \A j \in Loops \ {sender} : loop[j].pc = "free"
      BY <1>3, <2>1 DEF AccountInv, ProcessOK, Account!Settled
    <3> QED
      BY <3>1, <3>2, <3>3 DEF Account!RunsAlone
  <2> QED
    BY <1>3, <2>1 DEF AccountInv, ProcessOK, Account!RunsAsAccount
<1> QED
  BY <1>1, <1>2, <1>3, PTL DEF Account!Spec, RunsAsAccount

-----------------------------------------------------------------------------
(* MetricsPeer.  The last thing that is told of a node, of those that wait, *)
(* is how it stands.                                                        *)

IsUp(e, n) == e.kind = "established" /\ e.node = n
IsDown(e, n) == e.kind = "closed" /\ e.node = n /\ e.left = 0

Told(s, n) == \E i \in DOMAIN s : IsUp(s[i], n)
ToldDown(s, n) == \E i \in DOMAIN s : IsDown(s[i], n)

UpLast(s, n) ==
    \A i \in DOMAIN s : IsDown(s[i], n) => \E j \in DOMAIN s : j > i /\ IsUp(s[j], n)
DownLast(s, n) ==
    \A i \in DOMAIN s : IsUp(s[i], n) => \E j \in DOMAIN s : j > i /\ IsDown(s[j], n)

Agrees(s, n, connections) == IF connections > 0 THEN UpLast(s, n) ELSE DownLast(s, n)

Event == [kind : {"established", "closed", "failed"}, node : Peer!Nodes, dialer : BOOLEAN,
          left : Nat]

PeerInv ==
    /\ Peer!TypeOK /\ events \in Seq(Event)
    /\ \A n \in Peer!Nodes : Agrees(events, n, links[n])
    /\ peer => links[Peer!Metrics] > 0 \/ ToldDown(events, Peer!Metrics)
    /\ links[Peer!Metrics] > 0 => peer \/ Told(events, Peer!Metrics)
    /\ boot # Nobody => links[boot] > 0 \/ ToldDown(events, boot)

\* The events that wait, without the first one.
LEMMA TailOrdered ==
    ASSUME NEW s \in Seq(Event), s # <<>>
    PROVE  /\ Tail(s) \in Seq(Event) /\ Len(Tail(s)) = Len(s) - 1
           /\ \A n : UpLast(s, n) => UpLast(Tail(s), n)
           /\ \A n : DownLast(s, n) => DownLast(Tail(s), n)
           /\ \A n : Told(s, n) => Told(Tail(s), n) \/ IsUp(Head(s), n)
           /\ \A n : ToldDown(s, n) => ToldDown(Tail(s), n) \/ IsDown(Head(s), n)
           /\ \A n : IsDown(Head(s), n) /\ UpLast(s, n) => Told(Tail(s), n)
           /\ \A n : IsUp(Head(s), n) /\ DownLast(s, n) => ToldDown(Tail(s), n)
<1> DEFINE t == Tail(s)
<1>1. /\ t \in Seq(Event) /\ Len(t) = Len(s) - 1 /\ Len(s) \in Nat \ {0}
      /\ DOMAIN s = 1 .. Len(s) /\ DOMAIN t = 1 .. Len(s) - 1
      /\ \A i \in 1 .. Len(s) - 1 : t[i] = s[i + 1]
      /\ Head(s) = s[1]
  OBVIOUS
<1> HIDE DEF t
<1>2. ASSUME NEW i \in DOMAIN s, i # 1
      PROVE  i - 1 \in DOMAIN t /\ t[i - 1] = s[i]
  BY <1>1, <1>2
<1>3. ASSUME NEW i \in DOMAIN t
      PROVE  i + 1 \in DOMAIN s /\ t[i] = s[i + 1]
  BY <1>1
<1>4. ASSUME NEW i \in DOMAIN t, NEW j \in DOMAIN s, j > i + 1
      PROVE  j - 1 \in DOMAIN t /\ j - 1 > i /\ t[j - 1] = s[j]
  BY <1>1, <1>4
<1>10. ASSUME NEW n, UpLast(s, n)
       PROVE  UpLast(t, n)
  <2> SUFFICES ASSUME NEW i \in DOMAIN t, IsDown(t[i], n)
               PROVE  \E j \in DOMAIN t : j > i /\ IsUp(t[j], n)
    BY DEF UpLast
  <2>1. PICK j \in DOMAIN s : j > i + 1 /\ IsUp(s[j], n)
    BY <1>3, <1>10 DEF UpLast
  <2> QED
    BY <1>4, <2>1
<1>11. ASSUME NEW n, DownLast(s, n)
       PROVE  DownLast(t, n)
  <2> SUFFICES ASSUME NEW i \in DOMAIN t, IsUp(t[i], n)
               PROVE  \E j \in DOMAIN t : j > i /\ IsDown(t[j], n)
    BY DEF DownLast
  <2>1. PICK j \in DOMAIN s : j > i + 1 /\ IsDown(s[j], n)
    BY <1>3, <1>11 DEF DownLast
  <2> QED
    BY <1>4, <2>1
<1>5. ASSUME NEW n, Told(s, n) PROVE Told(t, n) \/ IsUp(Head(s), n)
  BY <1>1, <1>2, <1>5 DEF Told
<1>6. ASSUME NEW n, ToldDown(s, n) PROVE ToldDown(t, n) \/ IsDown(Head(s), n)
  BY <1>1, <1>2, <1>6 DEF ToldDown
<1>7. 1 \in DOMAIN s /\ \A j \in DOMAIN s : j > 1 => j - 1 \in DOMAIN t /\ t[j - 1] = s[j]
  BY <1>1
<1>8. ASSUME NEW n, IsDown(Head(s), n), UpLast(s, n) PROVE Told(t, n)
  BY <1>1, <1>7, <1>8 DEF UpLast, Told
<1>9. ASSUME NEW n, IsUp(Head(s), n), DownLast(s, n) PROVE ToldDown(t, n)
  BY <1>1, <1>7, <1>9 DEF DownLast, ToldDown
<1> QED
  BY <1>1, <1>5, <1>6, <1>8, <1>9, <1>10, <1>11 DEF t

\* One more event waits.
LEMMA AppendOrdered ==
    ASSUME NEW s \in Seq(Event), NEW e \in Event
    PROVE  /\ Append(s, e) \in Seq(Event) /\ Len(Append(s, e)) = Len(s) + 1
           /\ \A n : UpLast(s, n) /\ ~IsDown(e, n) => UpLast(Append(s, e), n)
           /\ \A n : DownLast(s, n) /\ ~IsUp(e, n) => DownLast(Append(s, e), n)
           /\ \A n : IsUp(e, n) => UpLast(Append(s, e), n) /\ Told(Append(s, e), n)
           /\ \A n : IsDown(e, n) => DownLast(Append(s, e), n) /\ ToldDown(Append(s, e), n)
           /\ \A n : Told(s, n) => Told(Append(s, e), n)
           /\ \A n : ToldDown(s, n) => ToldDown(Append(s, e), n)
<1> DEFINE t == Append(s, e)
           m == Len(s) + 1
<1>1. /\ t \in Seq(Event) /\ Len(t) = m /\ m \in Nat \ {0}
      /\ DOMAIN t = 1 .. m /\ DOMAIN s = 1 .. m - 1
      /\ \A i \in DOMAIN s : t[i] = s[i]
      /\ t[m] = e
  OBVIOUS
<1> HIDE DEF t, m
<1>2. /\ m \in DOMAIN t /\ DOMAIN s \subseteq DOMAIN t
      /\ \A i \in DOMAIN t : i \in DOMAIN s \/ i = m
      /\ \A i \in DOMAIN s : m > i
  BY <1>1
<1>3. ASSUME NEW n, UpLast(s, n), ~IsDown(e, n) PROVE UpLast(t, n)
  BY <1>1, <1>2, <1>3 DEF UpLast
<1>8. ASSUME NEW n, DownLast(s, n), ~IsUp(e, n) PROVE DownLast(t, n)
  BY <1>1, <1>2, <1>8 DEF DownLast
<1>4. ASSUME NEW n, IsUp(e, n) PROVE UpLast(t, n) /\ Told(t, n)
  <2>1. ~IsDown(e, n)
    BY <1>4 DEF IsUp, IsDown
  <2> QED
    BY <1>1, <1>2, <1>4, <2>1 DEF UpLast, Told
<1>5. ASSUME NEW n, IsDown(e, n) PROVE DownLast(t, n) /\ ToldDown(t, n)
  <2>1. ~IsUp(e, n)
    BY <1>5 DEF IsUp, IsDown
  <2> QED
    BY <1>1, <1>2, <1>5, <2>1 DEF DownLast, ToldDown
<1>6. ASSUME NEW n, Told(s, n) PROVE Told(t, n)
  BY <1>1, <1>2, <1>6 DEF Told
<1>7. ASSUME NEW n, ToldDown(s, n) PROVE ToldDown(t, n)
  BY <1>1, <1>2, <1>7 DEF ToldDown
<1> QED
  BY <1>1, <1>3, <1>4, <1>5, <1>6, <1>7, <1>8 DEF t, m

\* An event that is handled leaves the others, and those that come of it.
LEMMA HandledQuiet ==
    ASSUME NEW s \in Seq(Event), s # <<>>
    PROVE  Tail(s) \o <<>> = Tail(s)
  OBVIOUS

LEMMA HandledOne ==
    ASSUME NEW s \in Seq(Event), s # <<>>, NEW e \in Event
    PROVE  Tail(s) \o <<e>> = Append(Tail(s), e)
  OBVIOUS

LEMMA NewEvents ==
    ASSUME NEW n \in Peer!Nodes
    PROVE  /\ \A d \in BOOLEAN : /\ Peer!Established(n, d) \in Event
                                 /\ IsUp(Peer!Established(n, d), n)
                                 /\ \A k : /\ ~IsDown(Peer!Established(n, d), k)
                                           /\ k # n => ~IsUp(Peer!Established(n, d), k)
           /\ \A m \in Nat : /\ Peer!Closed(n, m) \in Event
                             /\ m = 0 => IsDown(Peer!Closed(n, m), n)
                             /\ \A k : /\ ~IsUp(Peer!Closed(n, m), k)
                                       /\ k # n \/ m # 0 => ~IsDown(Peer!Closed(n, m), k)
           /\ Peer!Failed(n) \in Event
           /\ \A k : ~IsUp(Peer!Failed(n), k) /\ ~IsDown(Peer!Failed(n), k)
  BY DEF Peer!Established, Peer!Closed, Peer!Failed, Event, IsUp, IsDown

LEMMA PeerStep ==
    ASSUME Peer!PeerAssumption, PeerInv, [Peer!Next]_(Peer!vars)
    PROVE  PeerInv'
<1> USE DEF Peer!PeerAssumption
<1> DEFINE M == Peer!Metrics
<1>1. /\ Peer!TypeOK /\ events \in Seq(Event) /\ M \in Peer!Nodes
      /\ links \in [Peer!Nodes -> 0 .. MaxLinks] /\ Boots \subseteq Peer!Nodes
      /\ peer \in BOOLEAN /\ address \in BOOLEAN /\ boot \in Boots \cup {Nobody}
      /\ dials \subseteq Peer!Nodes /\ kad \subseteq Peer!Nodes /\ Len(events) <= MaxEvents
      /\ \A n \in Peer!Nodes : links[n] \in Nat /\ links[n] <= MaxLinks
  BY DEF PeerInv, Peer!TypeOK, Peer!Nodes
<1> HIDE DEF M
<1> USE DEF M
\* The first event is handled.
<1>2. ASSUME events # <<>>
      PROVE  /\ Head(events) \in Event /\ Head(events).node \in Peer!Nodes
             /\ Tail(events) \in Seq(Event) /\ Len(Tail(events)) + 1 <= MaxEvents
  <2>1. Len(events) \in Nat \ {0} /\ Len(Tail(events)) = Len(events) - 1
        /\ Tail(events) \in Seq(Event) /\ Head(events) \in Event
    BY <1>1, <1>2
  <2> QED
    BY <1>1, <2>1 DEF Event
\* What stays as it was when the loop's knowledge and the connections do.
<1>3. ASSUME UNCHANGED <<peer, boot, events, links>>, Peer!TypeOK'
      PROVE  PeerInv'
  BY <1>3 DEF PeerInv
<1>4. CASE Peer!MetricsEstablished
  <2>1. /\ events # <<>> /\ IsUp(Head(events), M) /\ ~IsDown(Head(events), M)
        /\ \A n : n # M => ~IsUp(Head(events), n) /\ ~IsDown(Head(events), n)
        /\ peer' = TRUE /\ boot' = Nobody /\ address' \in BOOLEAN
        /\ UNCHANGED <<dials, kad, reach>>
    BY <1>1, <1>4 DEF Peer!MetricsEstablished, Peer!Handling, IsUp, IsDown, Event
  <2>2. /\ \A n \in Peer!Nodes : Agrees(Tail(events), n, links[n])
        /\ links[M] > 0 \/ ToldDown(Tail(events), M)
    BY <1>1, <2>1, TailOrdered DEF PeerInv, Agrees
  <2>3. CASE boot = Nobody \/ links[boot] = 0
    <3>1. events' = Tail(events) /\ UNCHANGED links
      BY <1>1, <1>4, <2>1, <2>3, HandledQuiet DEF Peer!MetricsEstablished, Peer!Handled
    <3> QED
      BY <1>1, <1>2, <2>1, <2>2, <3>1 DEF PeerInv, Peer!TypeOK
  <2>4. CASE boot # Nobody /\ links[boot] # 0
    <3>1. boot \in Peer!Nodes /\ Peer!Closed(boot, 0) \in Event
      BY <1>1, <2>4, NewEvents
    <3>2. /\ events' = Append(Tail(events), Peer!Closed(boot, 0))
          /\ links' = [links EXCEPT ![boot] = 0]
      BY <1>1, <1>4, <2>1, <2>4, <3>1, HandledOne DEF Peer!MetricsEstablished, Peer!Handled
    <3>3. /\ links' \in [Peer!Nodes -> 0 .. MaxLinks] /\ links'[boot] = 0
          /\ \A n \in Peer!Nodes \ {boot} : links'[n] = links[n]
      BY <1>1, <3>1, <3>2
    <3>4. /\ events' \in Seq(Event) /\ Len(events') <= MaxEvents
          /\ DownLast(events', boot) /\ ToldDown(events', boot)
          /\ \A n \in Peer!Nodes \ {boot} : Agrees(events', n, links[n])
          /\ ToldDown(Tail(events), M) => ToldDown(events', M)
      BY <1>2, <2>1, <2>2, <3>1, <3>2, AppendOrdered, NewEvents DEF Agrees
    <3>5. \A n \in Peer!Nodes : Agrees(events, n, links[n])'
      BY <3>3, <3>4 DEF Agrees
    <3>6. links'[M] > 0 \/ ToldDown(events', M)
      BY <1>1, <2>2, <3>1, <3>3, <3>4
    <3> QED
      BY <1>1, <2>1, <3>3, <3>4, <3>5, <3>6 DEF PeerInv, Peer!TypeOK
  <2> QED
    BY <2>3, <2>4
<1>5. CASE Peer!OtherEstablished
  <2> DEFINE n == Head(events).node
  <2>1. /\ events # <<>> /\ n # M /\ n \in Peer!Nodes /\ IsUp(Head(events), n)
        /\ \A k : ~IsDown(Head(events), k) /\ (k # n => ~IsUp(Head(events), k))
        /\ boot' = IF Peer!Keeps(n) THEN n ELSE boot
        /\ UNCHANGED <<peer, address, dials, kad, reach>>
    BY <1>2, <1>5 DEF Peer!OtherEstablished, Peer!Handling, IsUp, IsDown
  <2>2. /\ \A k \in Peer!Nodes : Agrees(Tail(events), k, links[k])
        /\ \A k : ToldDown(events, k) => ToldDown(Tail(events), k)
        /\ Told(events, M) => Told(Tail(events), M)
        /\ links[n] > 0 \/ ToldDown(Tail(events), n)
    BY <1>1, <2>1, TailOrdered DEF PeerInv, Agrees
  <2>3. boot' \in Boots \cup {Nobody}
    BY <1>1, <2>1 DEF Peer!Keeps
  <2>4. CASE Peer!Keeps(n) \/ links[n] = 0
    <3>1. events' = Tail(events) /\ UNCHANGED links
      BY <1>5, <2>1, <2>4, HandledQuiet DEF Peer!OtherEstablished, Peer!Handled
    <3> HIDE DEF n
    <3> QED
      BY <1>1, <1>2, <2>1, <2>2, <2>3, <3>1 DEF PeerInv, Peer!TypeOK
  <2>5. CASE ~Peer!Keeps(n) /\ links[n] # 0
    <3>1. links[n] - 1 \in Nat /\ Peer!Closed(n, links[n] - 1) \in Event
      BY <1>1, <2>1, <2>5, NewEvents
    <3>2. /\ events' = Append(Tail(events), Peer!Closed(n, links[n] - 1))
          /\ links' = [links EXCEPT ![n] = links[n] - 1]
      BY <1>5, <2>1, <2>5, <3>1, HandledOne DEF Peer!OtherEstablished, Peer!Handled
    <3> HIDE DEF n
    <3>3. /\ links' \in [Peer!Nodes -> 0 .. MaxLinks] /\ links'[n] = links[n] - 1
          /\ \A k \in Peer!Nodes \ {n} : links'[k] = links[k]
      BY <1>1, <2>1, <3>1, <3>2
    <3>4. /\ events' \in Seq(Event) /\ Len(events') <= MaxEvents
          /\ \A k : ToldDown(Tail(events), k) => ToldDown(events', k)
          /\ Told(Tail(events), M) => Told(events', M)
      BY <1>2, <2>1, <3>1, <3>2, AppendOrdered DEF Agrees
    <3>5. \A k \in Peer!Nodes \ {n} : Agrees(events', k, links'[k])
      BY <1>2, <2>1, <2>2, <3>1, <3>2, <3>3, AppendOrdered, NewEvents DEF Agrees
    <3>6. /\ Agrees(events', n, links'[n])
          /\ links'[n] > 0 \/ ToldDown(events', n)
      <4>1. CASE links[n] = 1
        <5>1. IsDown(Peer!Closed(n, links[n] - 1), n) /\ ~(links'[n] > 0)
          BY <2>1, <3>1, <3>3, <4>1, NewEvents
        <5> QED
          BY <1>2, <2>1, <3>1, <3>2, <5>1, AppendOrdered DEF Agrees
      <4>2. CASE links[n] # 1
        <5>1. /\ ~IsDown(Peer!Closed(n, links[n] - 1), n) /\ ~IsUp(Peer!Closed(n, links[n] - 1), n)
              /\ links[n] > 0 /\ links'[n] > 0
          BY <1>1, <2>1, <2>5, <3>1, <3>3, <4>2, NewEvents
        <5>2. UpLast(Tail(events), n)
          BY <2>1, <2>2, <5>1 DEF Agrees
        <5> QED
          BY <1>2, <2>1, <3>1, <3>2, <5>1, <5>2, AppendOrdered DEF Agrees
      <4> QED
        BY <4>1, <4>2
    <3>7. boot' # Nobody => links'[boot'] > 0 \/ ToldDown(events', boot')
      BY <1>1, <2>1, <2>2, <2>5, <3>3, <3>4, <3>6 DEF PeerInv
    <3> QED
      BY <1>1, <2>1, <2>2, <2>3, <3>3, <3>4, <3>5, <3>6, <3>7 DEF PeerInv, Peer!TypeOK
  <2> QED
    BY <2>4, <2>5
<1>6. CASE Peer!OutgoingConnectionError
  <2>1. /\ events # <<>> /\ address' \in BOOLEAN /\ events' = Tail(events)
        /\ \A k : ~IsDown(Head(events), k) /\ ~IsUp(Head(events), k)
        /\ UNCHANGED <<peer, boot, links, dials, kad, reach>>
    BY <1>1, <1>2, <1>6, HandledQuiet
       DEF Peer!OutgoingConnectionError, Peer!Handling, Peer!Handled, IsUp, IsDown
  <2> QED
    BY <1>1, <1>2, <2>1, TailOrdered DEF PeerInv, Peer!TypeOK, Agrees
<1>7. CASE Peer!ConnectionClosed
  <2> DEFINE n == Head(events).node
             last == Head(events).left = 0
  <2>1. /\ events # <<>> /\ address' \in BOOLEAN /\ events' = Tail(events)
        /\ peer' = (peer /\ ~(last /\ n = M)) /\ n \in Peer!Nodes
        /\ boot' = IF last /\ n \in Boots THEN Nobody ELSE boot
        /\ \A k : ~IsUp(Head(events), k) /\ (IsDown(Head(events), k) <=> last /\ n = k)
        /\ UNCHANGED <<links, dials, kad, reach>>
    BY <1>1, <1>2, <1>7, HandledQuiet
       DEF Peer!ConnectionClosed, Peer!Handling, Peer!Handled, IsUp, IsDown
  <2> HIDE DEF n, last
  <2>2. /\ \A k \in Peer!Nodes : Agrees(events', k, links[k])
        /\ \A k : ToldDown(events, k) => ToldDown(events', k) \/ (last /\ n = k)
        /\ \A k : Told(events, k) => Told(events', k)
        /\ last /\ n = M /\ links[M] > 0 => Told(events', M)
    BY <1>1, <2>1, TailOrdered DEF PeerInv, Agrees
  <2>3. boot' # Nobody => links'[boot'] > 0 \/ ToldDown(events', boot')
    BY <1>1, <2>1, <2>2 DEF PeerInv
  <2>4. (links[M] > 0 => peer \/ Told(events, M))' /\ (peer => links[M] > 0 \/ ToldDown(events, M))'
    BY <2>1, <2>2 DEF PeerInv
  <2> QED
    BY <1>1, <1>2, <2>1, <2>2, <2>3, <2>4 DEF PeerInv, Peer!TypeOK
<1>8. ASSUME NEW n \in Peer!Nodes, Peer!Identify(n)
      PROVE  PeerInv'
  BY <1>1, <1>3, <1>8 DEF Peer!Identify, Peer!loopVars, Peer!TypeOK
<1>9. CASE Peer!ConnectBootNode
  BY <1>1, <1>3, <1>9 DEF Peer!ConnectBootNode, Peer!loopVars, Peer!TypeOK
<1>10. CASE Peer!CheckMetrics
  <2>1. /\ (peer => links[M] = 0) /\ peer' = FALSE /\ dials' \subseteq Peer!Nodes
        /\ UNCHANGED <<address, boot, events, links, kad, reach>>
    BY <1>1, <1>10 DEF Peer!CheckMetrics
  <2>2. Peer!TypeOK'
    BY <1>1, <2>1 DEF Peer!TypeOK
  <2>3. links[M] > 0 => Told(events, M)
    BY <1>1, <2>1 DEF PeerInv
  <2> QED
    BY <2>1, <2>2, <2>3 DEF PeerInv
<1>11. CASE Peer!Discover
  BY <1>1, <1>3, <1>11 DEF Peer!Discover, Peer!loopVars, Peer!TypeOK
\* A connection comes up.
<1>12. ASSUME NEW n \in Peer!Nodes, NEW d \in BOOLEAN, Peer!Room, links[n] < MaxLinks,
              links' = [links EXCEPT ![n] = links[n] + 1],
              events' = Append(events, Peer!Established(n, d)),
              dials' \subseteq Peer!Nodes, UNCHANGED <<peer, address, boot, kad>>
       PROVE  PeerInv'
  <2>1. /\ links' \in [Peer!Nodes -> 0 .. MaxLinks] /\ links'[n] > 0
        /\ \A k \in Peer!Nodes \ {n} : links'[k] = links[k]
    BY <1>1, <1>12
  <2>2. /\ events' \in Seq(Event) /\ Len(events') <= MaxEvents
        /\ UpLast(events', n) /\ Told(events', n)
        /\ \A k : Told(events, k) => Told(events', k)
        /\ \A k : ToldDown(events, k) => ToldDown(events', k)
        /\ \A k \in Peer!Nodes \ {n} : Agrees(events', k, links[k])
    BY <1>1, <1>12, AppendOrdered, NewEvents DEF PeerInv, Peer!Room, Agrees
  <2>3. \A k \in Peer!Nodes : Agrees(events', k, links'[k])
    BY <2>1, <2>2 DEF Agrees
  <2>4. /\ boot' # Nobody => links'[boot'] > 0 \/ ToldDown(events', boot')
        /\ peer' => links'[M] > 0 \/ ToldDown(events', M)
        /\ links'[M] > 0 => peer' \/ Told(events', M)
    BY <1>1, <1>12, <2>1, <2>2 DEF PeerInv
  <2> QED
    BY <1>1, <1>12, <2>1, <2>2, <2>3, <2>4 DEF PeerInv, Peer!TypeOK
<1>13. ASSUME NEW n \in Peer!Nodes, Peer!Dialled(n)
       PROVE  PeerInv'
  <2>1. /\ dials' \subseteq Peer!Nodes /\ Peer!Room
        /\ UNCHANGED <<peer, address, boot, kad, reach>>
    BY <1>1, <1>13 DEF Peer!Dialled, Peer!loopVars
  <2>2. CASE n \notin reach
    <3>1. events' = Append(events, Peer!Failed(n)) /\ UNCHANGED links
      BY <1>13, <2>2 DEF Peer!Dialled
    <3>2. /\ events' \in Seq(Event) /\ Len(events') <= MaxEvents
          /\ \A k : Told(events, k) => Told(events', k)
          /\ \A k : ToldDown(events, k) => ToldDown(events', k)
          /\ \A k \in Peer!Nodes : Agrees(events', k, links[k])
      BY <1>1, <2>1, <3>1, AppendOrdered, NewEvents DEF PeerInv, Peer!Room, Agrees
    <3> QED
      BY <1>1, <2>1, <3>1, <3>2 DEF PeerInv, Peer!TypeOK
  <2>3. CASE n \in reach /\ links[n] < MaxLinks
    BY <1>12, <1>13, <2>1, <2>3 DEF Peer!Dialled
  <2>4. CASE n \in reach /\ ~(links[n] < MaxLinks)
    BY <1>1, <1>3, <1>13, <2>1, <2>4 DEF Peer!Dialled, Peer!TypeOK
  <2> QED
    BY <2>2, <2>3, <2>4
<1>14. ASSUME NEW n \in Peer!Nodes, Peer!Inbound(n)
       PROVE  PeerInv'
  BY <1>1, <1>12, <1>14 DEF Peer!Inbound, Peer!loopVars
<1>15. ASSUME NEW n \in Peer!Nodes, Peer!Cut(n)
       PROVE  PeerInv'
  <2>1. /\ links[n] > 0 /\ Peer!Room /\ links[n] - 1 \in Nat
        /\ links' = [links EXCEPT ![n] = links[n] - 1]
        /\ events' = Append(events, Peer!Closed(n, links[n] - 1))
        /\ UNCHANGED <<peer, address, boot, dials, kad, reach>>
    BY <1>1, <1>15 DEF Peer!Cut, Peer!loopVars
  <2>2. /\ links' \in [Peer!Nodes -> 0 .. MaxLinks] /\ links'[n] = links[n] - 1
        /\ \A k \in Peer!Nodes \ {n} : links'[k] = links[k]
    BY <1>1, <2>1
  <2>3. /\ Peer!Closed(n, links[n] - 1) \in Event
        /\ \A k : ~IsUp(Peer!Closed(n, links[n] - 1), k)
        /\ \A k : k # n => ~IsDown(Peer!Closed(n, links[n] - 1), k)
    BY <2>1, NewEvents
  <2>4. /\ events' \in Seq(Event) /\ Len(events') <= MaxEvents
        /\ \A k : Told(events, k) => Told(events', k)
        /\ \A k : ToldDown(events, k) => ToldDown(events', k)
        /\ \A k \in Peer!Nodes \ {n} : Agrees(events', k, links[k])
    <3>1. /\ events' \in Seq(Event) /\ Len(events') <= MaxEvents
          /\ \A k : Told(events, k) => Told(events', k)
          /\ \A k : ToldDown(events, k) => ToldDown(events', k)
      BY <1>1, <2>1, <2>3, AppendOrdered DEF Peer!Room
    <3>2. ASSUME NEW k \in Peer!Nodes \ {n}
          PROVE  Agrees(events', k, links[k])
      BY <1>1, <2>1, <2>3, AppendOrdered DEF PeerInv, Agrees
    <3> QED
      BY <3>1, <3>2
  <2>5. Agrees(events', n, links'[n]) /\ (links'[n] > 0 \/ ToldDown(events', n))
    <3>1. CASE links[n] = 1
      <4>1. IsDown(Peer!Closed(n, links[n] - 1), n) /\ ~(links'[n] > 0)
        BY <2>1, <2>2, <3>1, NewEvents
      <4> QED
        BY <1>1, <2>1, <2>3, <4>1, AppendOrdered DEF Agrees
    <3>2. CASE links[n] # 1
      <4>1. ~IsDown(Peer!Closed(n, links[n] - 1), n) /\ links'[n] > 0
        BY <1>1, <2>1, <2>2, <3>2, NewEvents
      <4>2. UpLast(events, n)
        BY <2>1 DEF PeerInv, Agrees
      <4> QED
        BY <1>1, <2>1, <2>3, <4>1, <4>2, AppendOrdered DEF Agrees
    <3> QED
      BY <3>1, <3>2
  <2>6. \A k \in Peer!Nodes : Agrees(events', k, links'[k])
    BY <2>2, <2>4, <2>5 DEF Agrees
  <2>7. /\ boot' # Nobody => links'[boot'] > 0 \/ ToldDown(events', boot')
        /\ peer' => links'[M] > 0 \/ ToldDown(events', M)
        /\ links'[M] > 0 => peer' \/ Told(events', M)
    BY <1>1, <2>1, <2>2, <2>4, <2>5 DEF PeerInv
  <2> QED
    BY <1>1, <2>1, <2>2, <2>4, <2>6, <2>7 DEF PeerInv, Peer!TypeOK
<1>16. ASSUME NEW n \in Peer!Nodes, Peer!ComeOrGo(n)
       PROVE  PeerInv'
  BY <1>1, <1>3, <1>16 DEF Peer!ComeOrGo, Peer!loopVars, Peer!swarmVars, Peer!TypeOK
<1>17. CASE UNCHANGED Peer!vars
  BY <1>1, <1>3, <1>17 DEF Peer!vars, Peer!loopVars, Peer!swarmVars, Peer!TypeOK
<1> QED
  BY <1>4, <1>5, <1>6, <1>7, <1>8, <1>9, <1>10, <1>11, <1>13, <1>14, <1>15, <1>16, <1>17
     DEF Peer!Next, Peer!Handle, Peer!Trouble

LEMMA PeerInit ==
    ASSUME Peer!PeerAssumption, Peer!Init
    PROVE  PeerInv
<1>1. /\ events = <<>> /\ events \in Seq(Event) /\ DOMAIN events = {} /\ Len(events) = 0
      /\ links = [n \in Peer!Nodes |-> 0]
  BY DEF Peer!Init
<1>2. links \in [Peer!Nodes -> 0 .. MaxLinks] /\ Len(events) <= MaxEvents
  BY <1>1 DEF Peer!PeerAssumption
<1>3. Peer!TypeOK
  BY <1>2 DEF Peer!Init, Peer!TypeOK, Peer!Nodes
<1> QED
  BY <1>1, <1>3 DEF Peer!Init, PeerInv, Agrees, DownLast, Peer!Nodes

\* The loop and the swarm keep their types.
THEOREM PeerTypeCorrect ==
    ASSUME Peer!PeerAssumption
    PROVE  Peer!Spec => []Peer!TypeOK
<1>1. Peer!Init => PeerInv
  BY PeerInit
<1>2. PeerInv /\ [Peer!Next]_(Peer!vars) => PeerInv'
  BY PeerStep
<1>3. PeerInv => Peer!TypeOK
  BY DEF PeerInv
<1> QED
  BY <1>1, <1>2, <1>3, PTL DEF Peer!Spec

\* What the loop knows of its nodes is what there is, up to events that wait,
\* however connections come, go and cross each other.
THEOREM PeerSafe ==
    ASSUME Peer!PeerAssumption
    PROVE  Peer!Spec => []PeerKnown
<1>1. Peer!Init => PeerInv
  BY PeerInit
<1>2. PeerInv /\ [Peer!Next]_(Peer!vars) => PeerInv'
  BY PeerStep
<1>3. ASSUME PeerInv
      PROVE  Peer!PeerKnown
  <2>1. \A n : (Told(events, n) => Peer!Ups(n) # {}) /\ (ToldDown(events, n) => Peer!Downs(n) # {})
    BY DEF Told, ToldDown, IsUp, IsDown, Peer!Ups, Peer!Downs
  <2> QED
    BY <1>3, <2>1 DEF PeerInv, Peer!PeerKnown
<1> QED
  BY <1>1, <1>2, <1>3, PTL DEF Peer!Spec, PeerKnown

=============================================================================
