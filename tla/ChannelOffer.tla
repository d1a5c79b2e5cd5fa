---------------------------- MODULE ChannelOffer ----------------------------
(* How the proxy quotes a price, opens a channel and extends one.  While a *)
(* handler is at it, the project's price, the rate of its token and the    *)
(* controller may change, and the channel's key may be refreshed.          *)
EXTENDS Naturals, FiniteSetsExt

CONSTANTS
    Handlers,
    Kinds,          \* proposals: "open", "extend"
    Terms,          \* [price, token, expiration] a project may ask
    Rates,          \* price oracle: SQT for one of the other token
    Keys,           \* controllers
    Prices, Periods,    \* what consumers may propose, in SQT
    Day,            \* the life of a quote, 86400 in the code
    Gap,            \* 1800: how far an extension's start may be from the expiry
    MaxTime,        \* the clock stops here
    None            \* no project, no quote

OfferAssumption ==
    /\ \A t \in Terms : t.price \in Nat /\ t.expiration \in Nat
    /\ Rates \subseteq Nat /\ Prices \subseteq Nat /\ Periods \subseteq Nat
    /\ Day \in Nat /\ Gap \in Nat /\ MaxTime \in Nat
    /\ Kinds \subseteq {"open", "extend"}

VARIABLES
    now, terms, rate, key,
    expiry,         \* the expiration in the channel's key
    quote,          \* the last price signed
    handler,
    seen            \* history: the terms, rates and expiries a handler met

world == <<now, terms, rate, key, expiry>>
vars == <<world, quote, handler, seen>>

(* from_json gives a proposal without a quote these.                       *)
NoQuote(price) == [price |-> price, token |-> "sqt", until |-> 0, key |-> None]

Idle == [pc |-> "idle", kind |-> "open", price |-> 0, period |-> 0, from |-> 0,
         quote |-> NoQuote(0), terms |-> None, expiry |-> 0, used |-> 0]

----------------------------------------------------------------------------
(* convert_price: SQT, or a price without a token, is as it is.            *)
Convert(token, amount) == IF token = "sqt" THEN amount ELSE amount * rate

(* Mutant of ConvertEnough: the amounts are compared as they are.          *)
ConvertEnoughRaw(token, used, price) == price >= used

ConvertEnough(token, used, price) == price >= Convert(token, used)

(* open_payg, and merket_price for a project that is.                      *)
Offered(t) == t # None /\ t.price > 0 /\ t.expiration > 0

Quote ==
    /\ "open" \in Kinds /\ Offered(terms)
    /\ quote' = [price |-> terms.price, token |-> terms.token, until |-> now + Day, key |-> key]
    /\ UNCHANGED <<world, handler, seen>>

----------------------------------------------------------------------------
Do(h, k) == handler' = [handler EXCEPT ![h] = k]
Step(h, k) == Do(h, k) /\ UNCHANGED <<world, quote, seen>>
Refused(h) == [handler[h] EXCEPT !.pc = "refused"]

Unseen == [terms |-> {}, rates |-> {}, expiries |-> {}]
Met(h) ==
    seen' = [seen EXCEPT ![h] = [terms |-> {terms}, rates |-> {rate}, expiries |-> {expiry}]]

Propose(h) ==
    /\ handler[h].pc = "idle"
    /\ \E price \in Prices, period \in Periods :
          \/ \E q \in {NoQuote(price)} \cup ({quote} \ {None}) :
             /\ "open" \in Kinds
             /\ Do(h, [Idle EXCEPT !.pc = "find", !.price = price, !.period = period,
                                   !.quote = q])
          \/ \E from \in 0 .. MaxTime :
             /\ "extend" \in Kinds
             /\ Do(h, [Idle EXCEPT !.pc = "key", !.kind = "extend", !.price = price,
                                   !.period = period, !.from = from])
    /\ Met(h)
    /\ UNCHANGED <<world, quote>>

(* fetch_channel_cache, for an extension.                                  *)
FetchChannel(h) ==
    /\ handler[h].pc = "key"
    /\ Step(h, [handler[h] EXCEPT !.pc = "find", !.expiry = expiry])

FindProject(h) ==
    /\ handler[h].pc = "find"
    /\ Step(h, IF terms = None THEN Refused(h)
               ELSE [handler[h] EXCEPT !.terms = terms, !.used = terms.price,
                         !.pc = IF handler[h].kind = "open" THEN "quote" ELSE "convert"])

(* open_state: a quote that is higher than the price and still good has to *)
(* be signed by the controller, and is the price from then on.             *)
CheckQuote(h) ==
    LET k == handler[h]
        higher == k.terms.price < k.quote.price /\ now < k.quote.until IN
    /\ k.pc = "quote"
    /\ Step(h, IF higher /\ k.quote.key # key THEN Refused(h)
               ELSE [k EXCEPT !.pc = "convert",
                              !.used = IF higher THEN k.quote.price ELSE k.used])

Apart(a, b) == IF a > b THEN a - b ELSE b - a

(* The price, and the last checks of each.  The sign of the consumer and   *)
(* the indexer's address are not looked at here.                           *)
Check(h, kind, right) ==
    LET k == handler[h] IN
    /\ k.pc = "convert" /\ k.kind = kind
    /\ \/ /\ ConvertEnough(k.terms.token, k.used, k.price) /\ right
          /\ Step(h, [k EXCEPT !.pc = "sign"])
       \/ Step(h, Refused(h))

CheckOpening(h) == Check(h, "open", handler[h].period <= handler[h].terms.expiration)
CheckExtension(h) == Check(h, "extend", Apart(handler[h].from, handler[h].expiry) <= Gap)

SignOpening(h) ==
    /\ handler[h].pc = "sign" /\ handler[h].kind = "open"
    /\ Step(h, [handler[h] EXCEPT !.pc = "done"])

SignExtension(h) ==
    /\ handler[h].pc = "sign" /\ handler[h].kind = "extend"
    /\ Step(h, [handler[h] EXCEPT !.pc = "send"])

(* The coordinator is asked to save the extension, and may answer an error.*)
SendExtension(h) ==
    /\ handler[h].pc = "send"
    /\ \/ Step(h, Refused(h))
       \/ /\ Do(h, [handler[h] EXCEPT !.pc = "done"])
          /\ expiry' = Max({expiry, handler[h].from + handler[h].period})
          /\ seen' = [g \in Handlers |->
                IF handler[g].pc = "idle" THEN Unseen
                ELSE [seen[g] EXCEPT !.expiries = @ \cup {expiry'}]]
          /\ UNCHANGED <<now, terms, rate, key, quote>>

Leave(h) ==
    /\ handler[h].pc \in {"done", "refused"}
    /\ Do(h, Idle)
    /\ seen' = [seen EXCEPT ![h] = Unseen]
    /\ UNCHANGED <<world, quote>>

----------------------------------------------------------------------------
World ==
    /\ \/ \E t \in Terms \cup {None} : terms' = t /\ UNCHANGED <<rate, key>>
       \/ \E r \in Rates : rate' = r /\ UNCHANGED <<terms, key>>
       \/ \E k \in Keys : key' = k /\ UNCHANGED <<terms, rate>>
    /\ seen' = [h \in Handlers |->
          IF handler[h].pc = "idle" THEN Unseen
          ELSE [seen[h] EXCEPT !.terms = @ \cup {terms'},
                                        !.rates = @ \cup {rate'}]]
    /\ <<terms, rate, key>>' # <<terms, rate, key>>
    /\ UNCHANGED <<now, expiry, quote, handler>>

Tick ==
    /\ now < MaxTime /\ now' = now + 1
    /\ UNCHANGED <<terms, rate, key, expiry, quote, handler, seen>>

Init ==
    /\ now = 0 /\ terms = None
    /\ rate \in Rates /\ key \in Keys
    /\ expiry = 1
    /\ quote = None
    /\ handler = [h \in Handlers |-> Idle]
    /\ seen = [h \in Handlers |-> Unseen]

Next ==
    \/ Quote \/ World \/ Tick
    \/ \E h \in Handlers :
          \/ Propose(h) \/ FetchChannel(h) \/ FindProject(h) \/ CheckQuote(h)
          \/ CheckOpening(h) \/ CheckExtension(h) \/ SignOpening(h) \/ SignExtension(h)
          \/ SendExtension(h) \/ Leave(h)

Spec == Init /\ [][Next]_vars

Quotes == [price : Nat, token : {"sqt"} \cup {t.token : t \in Terms}, until : Nat,
           key : Keys \cup {None}]
Proposal == [pc : {"idle", "key", "find", "quote", "convert", "sign", "send", "done", "refused"},
             kind : {"open", "extend"}, price : Nat, period : Nat, from : Nat, quote : Quotes,
             terms : Terms \cup {None}, expiry : Nat, used : Nat]
Meeting == [terms : SUBSET (Terms \cup {None}), rates : SUBSET Rates, expiries : SUBSET Nat]

(* The types of the quotes, the handlers and what they met.                *)
TypeOK ==
    /\ now \in 0 .. MaxTime /\ terms \in Terms \cup {None} /\ rate \in Rates /\ key \in Keys
    /\ expiry \in Nat
    /\ quote \in Quotes \cup {None}
    /\ handler \in [Handlers -> Proposal]
    /\ seen \in [Handlers -> Meeting]

At(token, amount, r) == IF token = "sqt" THEN amount ELSE amount * r

(* Whatever changes while a proposal is looked at, a channel is opened or  *)
(* extended at a price and for a time that the project asked for at some   *)
(* moment of it, at a rate of that time; an opening that came with a good  *)
(* higher quote pays the quote.                                            *)
AcceptedAtPrice ==
    \A h \in Handlers :
        LET k == handler[h]
            s == seen[h] IN
        k.pc = "done" =>
            /\ \E t \in s.terms \ {None}, r \in s.rates :
                  /\ k.price >= At(t.token, t.price, r)
                  /\ k.kind = "open" => k.period <= t.expiration
                  /\ /\ k.kind = "open" /\ now < k.quote.until /\ k.quote.price > t.price
                     => k.price >= At(t.token, k.quote.price, r)
            /\ k.kind = "extend" => \E e \in s.expiries : Apart(k.from, e) <= Gap

=============================================================================
