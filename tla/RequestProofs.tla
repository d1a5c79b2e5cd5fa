---------------------------- MODULE RequestProofs ---------------------------
(* Proofs about the proxy's handlers, which look at a world that changes   *)
(* while they are at it: ChannelOffer, for any terms, rates and proposals, *)
(* and QueryServer, for any projects and requests.                         *)
EXTENDS ProxyParts, Naturals, Sequences, InductionLemmas, TLAPS

-----------------------------------------------------------------------------
(* ChannelOffer.  What a handler took from the world is among what it met, *)
(* and what is met only grows until the handler is done.                   *)

\* The price asked of an opening: the quote, if there is a good higher one.
Asked(k) ==
    /\ k.used >= k.terms.price
    /\ k.kind = "extend" => k.used = k.terms.price
    /\ k.kind = "open" /\ time < k.quote.until /\ k.quote.price > k.terms.price =>
          k.used = k.quote.price

\* The checks that are behind a handler that signs, at a rate it met.
Paid(k, s) ==
    /\ \E r \in s.rates : k.price >= Offer!At(k.terms.token, k.used, r)
    /\ k.kind = "open" => k.period <= k.terms.expiration
    /\ k.kind = "extend" => Offer!Apart(k.from, k.expiry) <= Gap

ProposalOK(k, s) ==
    /\ k.pc = "key" => k.kind = "extend"
    /\ k.pc = "quote" => k.kind = "open" /\ k.used = k.terms.price
    /\ k.pc = "send" => k.kind = "extend"
    /\ k.kind = "extend" /\ k.pc \in {"find", "convert", "sign", "send", "done"} =>
          k.expiry \in s.expiries
    /\ k.pc \in {"quote", "convert", "sign", "send", "done"} => k.terms \in s.terms \ {None}
    /\ k.pc \in {"convert", "sign", "send", "done"} => Asked(k)
    /\ k.pc \in {"sign", "send", "done"} => Paid(k, s)

MetNow(s) == terms \in s.terms /\ rate \in s.rates /\ expiry \in s.expiries

OfferInv ==
    /\ Offer!TypeOK
    /\ \A h \in Proposals : /\ ProposalOK(handler[h], seen[h])
                            /\ handler[h].pc # "idle" => MetNow(seen[h])

\* What a handler met later makes no difference to what it has checked.
LEMMA ProposalGrows ==
    ASSUME NEW k \in Offer!Proposal, NEW s \in Offer!Meeting, NEW m \in Offer!Meeting,
           s.terms \subseteq m.terms, s.rates \subseteq m.rates, s.expiries \subseteq m.expiries,
           ProposalOK(k, s)
    PROVE  ProposalOK(k, m)
  BY DEF ProposalOK, Paid

\* A handler keeps its type when one field is set.
LEMMA SetProposalField ==
    ASSUME NEW k \in Offer!Proposal
    PROVE  /\ \A v \in {"idle", "key", "find", "quote", "convert", "sign", "send", "done",
                        "refused"} : [k EXCEPT !.pc = v] \in Offer!Proposal
           /\ \A v \in {"open", "extend"} : [k EXCEPT !.kind = v] \in Offer!Proposal
           /\ \A v \in Offer!Quotes : [k EXCEPT !.quote = v] \in Offer!Proposal
           /\ \A v \in Terms \cup {None} : [k EXCEPT !.terms = v] \in Offer!Proposal
           /\ \A v \in Nat : /\ [k EXCEPT !.price = v] \in Offer!Proposal
                             /\ [k EXCEPT !.period = v] \in Offer!Proposal
                             /\ [k EXCEPT !.from = v] \in Offer!Proposal
                             /\ [k EXCEPT !.expiry = v] \in Offer!Proposal
                             /\ [k EXCEPT !.used = v] \in Offer!Proposal
  BY DEF Offer!Proposal

\* A step of a handler alone, to a state that is right.
LEMMA ProposalStep ==
    ASSUME OfferInv, NEW h \in Proposals, NEW k \in Offer!Proposal, Offer!Step(h, k),
           handler[h].pc # "idle", ProposalOK(k, seen[h])
    PROVE  OfferInv'
<1>1. /\ handler' = [handler EXCEPT ![h] = k]
      /\ UNCHANGED <<time, terms, rate, key, expiry, quote, seen>>
  BY DEF Offer!Step, Offer!Do, Offer!world
<1>2. Offer!TypeOK'
  BY <1>1 DEF OfferInv, Offer!TypeOK
<1>3. ASSUME NEW g \in Proposals
      PROVE  ProposalOK(handler'[g], seen'[g])
             /\ (handler'[g].pc # "idle" => handler[g].pc # "idle")
  BY <1>1 DEF OfferInv, Offer!TypeOK
<1>4. ASSUME NEW g \in Proposals
      PROVE  ProposalOK(handler[g], seen[g])'
  BY <1>1, <1>3 DEF ProposalOK, Asked, Paid
<1>5. ASSUME NEW g \in Proposals, handler'[g].pc # "idle"
      PROVE  MetNow(seen[g])'
  BY <1>1, <1>3, <1>5 DEF OfferInv, MetNow
<1> QED
  BY <1>2, <1>4, <1>5 DEF OfferInv

\* A refused handler has nothing to answer for.
LEMMA RefusedStep ==
    ASSUME OfferInv, NEW h \in Proposals, Offer!Step(h, Offer!Refused(h)),
           handler[h].pc # "idle"
    PROVE  OfferInv'
<1>1. handler[h] \in Offer!Proposal
  BY DEF OfferInv, Offer!TypeOK
<1>2. Offer!Refused(h) \in Offer!Proposal /\ Offer!Refused(h).pc = "refused"
  <2>1. Offer!Refused(h) \in Offer!Proposal
    BY <1>1, SetProposalField DEF Offer!Refused
  <2>2. Offer!Refused(h).pc = "refused"
    BY <1>1 DEF Offer!Refused, Offer!Proposal
  <2> QED
    BY <2>1, <2>2
<1>3. ProposalOK(Offer!Refused(h), seen[h])
  BY <1>2 DEF ProposalOK
<1> QED
  BY <1>2, <1>3, ProposalStep

\* A higher amount costs no less, at any rate.
LEMMA DearerCostsMore ==
    ASSUME NEW coin, NEW a \in Nat, NEW b \in Nat, a <= b, NEW r \in Nat
    PROVE  Offer!At(coin, a, r) <= Offer!At(coin, b, r)
<1>1. a * r <= b * r
  OBVIOUS
<1> QED
  BY <1>1 DEF Offer!At

LEMMA OfferStep ==
    ASSUME Offer!OfferAssumption, OfferInv, [Offer!Next]_(Offer!vars)
    PROVE  OfferInv'
<1>1. ASSUME NEW h \in Proposals
      PROVE  /\ handler[h] \in Offer!Proposal /\ seen[h] \in Offer!Meeting
             /\ ProposalOK(handler[h], seen[h])
             /\ handler[h].pc # "idle" => MetNow(seen[h])
  BY DEF OfferInv, Offer!TypeOK
<1>2. /\ time \in Nat /\ MaxTime \in Nat /\ terms \in Terms \cup {None} /\ rate \in Rates
      /\ expiry \in Nat /\ quote \in Offer!Quotes \cup {None} /\ key \in Keys
  BY DEF OfferInv, Offer!TypeOK, Offer!OfferAssumption
<1>3. CASE Offer!Quote
  <2>1. quote' = [price |-> terms.price, token |-> terms.token, until |-> time + QuoteDay,
                   key |-> key]
        /\ terms # None /\ UNCHANGED <<time, terms, rate, key, expiry, handler, seen>>
    BY <1>3 DEF Offer!Quote, Offer!Offered, Offer!world
  <2>2. quote' \in Offer!Quotes
    BY <1>2, <2>1 DEF Offer!Quotes, Offer!OfferAssumption
  <2> QED
    BY <2>1, <2>2 DEF OfferInv, Offer!TypeOK, ProposalOK, Asked, Paid, MetNow
\* A new proposal starts with what there is now.
<1>4. ASSUME NEW h \in Proposals, NEW p \in Offer!Proposal,
             \/ p.pc = "find" /\ p.kind = "open"
             \/ p.pc = "key" /\ p.kind = "extend",
             Offer!Do(h, p), Offer!Met(h), UNCHANGED <<time, terms, rate, key, expiry, quote>>
      PROVE  OfferInv'
  <2> DEFINE m == [terms |-> {terms}, rates |-> {rate}, expiries |-> {expiry}]
  <2>1. m \in Offer!Meeting
    BY <1>2 DEF Offer!Meeting
  <2>2. handler' = [handler EXCEPT ![h] = p] /\ seen' = [seen EXCEPT ![h] = m]
    BY <1>4 DEF Offer!Do, Offer!Met
  <2>3. ProposalOK(p, m) /\ MetNow(m)
    BY <1>4 DEF ProposalOK, MetNow
  <2> HIDE DEF m
  <2>4. Offer!TypeOK'
    BY <1>4, <2>1, <2>2 DEF OfferInv, Offer!TypeOK
  <2>5. ASSUME NEW g \in Proposals
        PROVE  /\ ProposalOK(handler'[g], seen'[g])
               /\ handler'[g].pc # "idle" => MetNow(seen'[g])
    BY <1>1, <2>2, <2>3 DEF OfferInv, Offer!TypeOK
  <2>6. ASSUME NEW g \in Proposals
        PROVE  ProposalOK(handler[g], seen[g])'
    BY <1>4, <2>5 DEF ProposalOK, Asked, Paid
  <2>7. ASSUME NEW g \in Proposals, handler'[g].pc # "idle"
        PROVE  MetNow(seen[g])'
    BY <1>4, <2>5, <2>7 DEF MetNow
  <2> QED
    BY <2>4, <2>6, <2>7 DEF OfferInv
<1>5. ASSUME NEW h \in Proposals, Offer!Propose(h)
      PROVE  OfferInv'
  <2>1. Offer!Met(h) /\ UNCHANGED <<time, terms, rate, key, expiry, quote>>
    BY <1>5 DEF Offer!Propose, Offer!world
  <2>2. PICK price \in Prices, period \in Periods :
          \/ \E q \in {Offer!NoQuote(price)} \cup ({quote} \ {None}) :
             /\ "open" \in Kinds
             /\ Offer!Do(h, [Offer!Idle EXCEPT !.pc = "find", !.price = price, !.period = period,
                                               !.quote = q])
          \/ \E from \in 0 .. MaxTime :
             /\ "extend" \in Kinds
             /\ Offer!Do(h, [Offer!Idle EXCEPT !.pc = "key", !.kind = "extend", !.price = price,
                                               !.period = period, !.from = from])
    BY <1>5 DEF Offer!Propose
  <2>3. \A n \in Nat : Offer!NoQuote(n) \in Offer!Quotes
    BY DEF Offer!NoQuote, Offer!Quotes
  <2>4. Offer!Idle \in Offer!Proposal /\ Offer!Idle.kind = "open"
    BY <2>3 DEF Offer!Idle, Offer!Proposal
  <2>5. price \in Nat /\ period \in Nat
    BY DEF Offer!OfferAssumption
  <2>6. ASSUME NEW q \in {Offer!NoQuote(price)} \cup ({quote} \ {None}),
               Offer!Do(h, [Offer!Idle EXCEPT !.pc = "find", !.price = price, !.period = period,
                                              !.quote = q])
        PROVE  OfferInv'
    <3> DEFINE p == [Offer!Idle EXCEPT !.pc = "find", !.price = price, !.period = period,
                                       !.quote = q]
    <3>1. q \in Offer!Quotes
      BY <1>2, <2>3, <2>5
    <3>2. p \in Offer!Proposal
      BY <2>4, <2>5, <3>1, SetProposalField
    <3>3. p.pc = "find" /\ p.kind = "open"
      BY DEF Offer!Idle
    <3>4. Offer!Do(h, p)
      BY <2>6
    <3> HIDE DEF p
    <3> QED
      BY <1>4, <2>1, <3>2, <3>3, <3>4
  <2>7. ASSUME NEW from \in 0 .. MaxTime,
               Offer!Do(h, [Offer!Idle EXCEPT !.pc = "key", !.kind = "extend", !.price = price,
                                              !.period = period, !.from = from])
        PROVE  OfferInv'
    <3> DEFINE p == [Offer!Idle EXCEPT !.pc = "key", !.kind = "extend", !.price = price,
                                       !.period = period, !.from = from]
    <3>1. from \in Nat
      BY <1>2
    <3>2. p \in Offer!Proposal
      BY <2>4, <2>5, <3>1, SetProposalField
    <3>3. p.pc = "key" /\ p.kind = "extend"
      BY DEF Offer!Idle
    <3>4. Offer!Do(h, p)
      BY <2>7
    <3> HIDE DEF p
    <3> QED
      BY <1>4, <2>1, <3>2, <3>3, <3>4
  <2> QED
    BY <2>2, <2>6, <2>7
<1>6. ASSUME NEW h \in Proposals, Offer!FetchChannel(h)
      PROVE  OfferInv'
  <2> DEFINE k == handler[h]
             p == [k EXCEPT !.pc = "find", !.expiry = expiry]
  <2>1. k.pc = "key" /\ Offer!Step(h, p)
    BY <1>6 DEF Offer!FetchChannel
  <2>2. p \in Offer!Proposal
    BY <1>1, <1>2, SetProposalField
  <2>3. p.pc = "find" /\ p.expiry = expiry
    BY <1>1 DEF Offer!Proposal
  <2> HIDE DEF p
  <2>4. ProposalOK(p, seen[h])
    BY <1>1, <2>1, <2>3 DEF ProposalOK, MetNow
  <2> QED
    BY <2>1, <2>2, <2>4, ProposalStep
<1>7. ASSUME NEW h \in Proposals, Offer!FindProject(h)
      PROVE  OfferInv'
  <2> DEFINE k == handler[h]
             p == [k EXCEPT !.terms = terms, !.used = terms.price,
                            !.pc = IF k.kind = "open" THEN "quote" ELSE "convert"]
  <2>1. k.pc = "find"
    BY <1>7 DEF Offer!FindProject
  <2>2. CASE terms = None
    BY <1>7, <2>1, <2>2, RefusedStep DEF Offer!FindProject
  <2>3. CASE terms # None
    <3>1. Offer!Step(h, p)
      BY <1>7, <2>3 DEF Offer!FindProject
    <3>2. terms \in Terms /\ terms.price \in Nat
      BY <1>2, <2>3 DEF Offer!OfferAssumption
    <3>3. p \in Offer!Proposal
      BY <1>1, <3>2, SetProposalField
    <3>4. /\ p.pc = (IF k.kind = "open" THEN "quote" ELSE "convert") /\ p.kind = k.kind
          /\ p.terms = terms /\ p.used = terms.price /\ p.expiry = k.expiry
          /\ k.kind \in {"open", "extend"}
      BY <1>1 DEF Offer!Proposal
    <3> HIDE DEF p
    <3>5. terms \in seen[h].terms \ {None}
      BY <1>1, <2>1, <2>3 DEF MetNow
    <3>6. p.pc = "convert" => Asked(p)
      BY <3>2, <3>4 DEF Asked
    <3>7. ProposalOK(p, seen[h])
      BY <1>1, <2>1, <3>4, <3>5, <3>6 DEF ProposalOK
    <3> QED
      BY <2>1, <3>1, <3>3, <3>7, ProposalStep
  <2> QED
    BY <2>2, <2>3
<1>8. ASSUME NEW h \in Proposals, Offer!CheckQuote(h)
      PROVE  OfferInv'
  <2> DEFINE k == handler[h]
             higher == k.terms.price < k.quote.price /\ time < k.quote.until
             amount == IF higher THEN k.quote.price ELSE k.used
             p == [k EXCEPT !.pc = "convert", !.used = amount]
  <2>1. k.pc = "quote" /\ (Offer!Step(h, Offer!Refused(h)) \/ Offer!Step(h, p))
    BY <1>8 DEF Offer!CheckQuote
  <2>2. CASE Offer!Step(h, Offer!Refused(h))
    BY <2>1, <2>2, RefusedStep
  <2>3. CASE Offer!Step(h, p)
    <3>1. /\ k.terms \in Terms /\ k.terms.price \in Nat /\ k.quote.price \in Nat
          /\ k.quote.until \in Nat /\ k.used = k.terms.price /\ k.kind = "open"
      BY <1>1, <2>1 DEF ProposalOK, Offer!Proposal, Offer!Quotes, Offer!OfferAssumption
    <3>2. amount \in Nat /\ amount >= k.terms.price /\ (higher => amount = k.quote.price)
      BY <3>1
    <3>3. p \in Offer!Proposal
      BY <1>1, <3>2, SetProposalField
    <3>4. /\ p.pc = "convert" /\ p.kind = k.kind /\ p.terms = k.terms /\ p.used = amount
          /\ p.quote = k.quote
      BY <1>1 DEF Offer!Proposal
    <3>5. Asked(p)
      BY <3>1, <3>2, <3>4 DEF Asked
    <3> HIDE DEF p, amount, higher
    <3>6. ProposalOK(p, seen[h])
      BY <1>1, <2>1, <3>1, <3>4, <3>5 DEF ProposalOK
    <3> QED
      BY <2>1, <2>3, <3>3, <3>6, ProposalStep
  <2> QED
    BY <2>1, <2>2, <2>3
<1>9. ASSUME NEW h \in Proposals, NEW kind, NEW right, Offer!Check(h, kind, right),
             kind \in {"open", "extend"},
             right => /\ kind = "open" => handler[h].period <= handler[h].terms.expiration
                      /\ kind = "extend" => Offer!Apart(handler[h].from, handler[h].expiry) <= Gap
      PROVE  OfferInv'
  <2> DEFINE k == handler[h]
             p == [k EXCEPT !.pc = "sign"]
  <2>1. /\ k.pc = "convert" /\ k.kind = kind
        /\ \/ Offer!ConvertEnough(k.terms.token, k.used, k.price) /\ right /\ Offer!Step(h, p)
           \/ Offer!Step(h, Offer!Refused(h))
    BY <1>9 DEF Offer!Check
  <2>2. CASE Offer!Step(h, Offer!Refused(h))
    BY <2>1, <2>2, RefusedStep
  <2>3. CASE Offer!ConvertEnough(k.terms.token, k.used, k.price) /\ right /\ Offer!Step(h, p)
    <3>1. p \in Offer!Proposal
      BY <1>1, SetProposalField
    <3>2. /\ p.pc = "sign" /\ p.kind = k.kind /\ p.terms = k.terms /\ p.used = k.used
          /\ p.quote = k.quote /\ p.price = k.price /\ p.period = k.period
          /\ p.from = k.from /\ p.expiry = k.expiry
      BY <1>1 DEF Offer!Proposal
    <3> HIDE DEF p
    <3>3. k.price >= Offer!At(k.terms.token, k.used, rate) /\ rate \in seen[h].rates
      BY <1>1, <2>1, <2>3 DEF Offer!ConvertEnough, Offer!Convert, Offer!At, MetNow
    <3>4. Paid(p, seen[h])
      BY <1>9, <2>1, <2>3, <3>2, <3>3 DEF Paid
    <3>5. Asked(p)
      BY <1>1, <2>1, <3>2 DEF ProposalOK, Asked
    <3>6. ProposalOK(p, seen[h])
      BY <1>1, <2>1, <3>2, <3>4, <3>5 DEF ProposalOK
    <3> QED
      BY <2>1, <2>3, <3>1, <3>6, ProposalStep
  <2> QED
    BY <2>1, <2>2, <2>3
<1>10. ASSUME NEW h \in Proposals, Offer!CheckOpening(h)
       PROVE  OfferInv'
  BY <1>9, <1>10 DEF Offer!CheckOpening
<1>11. ASSUME NEW h \in Proposals, Offer!CheckExtension(h)
       PROVE  OfferInv'
  BY <1>9, <1>11 DEF Offer!CheckExtension
\* A handler that has made its checks goes on.
<1>12. ASSUME NEW h \in Proposals, NEW pc \in {"send", "done"},
              handler[h].pc \in {"sign", "send"},
              pc = "send" => handler[h].kind = "extend"
       PROVE  /\ [handler[h] EXCEPT !.pc = pc] \in Offer!Proposal
              /\ ProposalOK([handler[h] EXCEPT !.pc = pc], seen[h])
  <2> DEFINE k == handler[h]
             p == [k EXCEPT !.pc = pc]
  <2>1. p \in Offer!Proposal
    BY <1>1, SetProposalField
  <2>2. /\ p.pc = pc /\ p.kind = k.kind /\ p.terms = k.terms /\ p.used = k.used
        /\ p.quote = k.quote /\ p.price = k.price /\ p.period = k.period
        /\ p.from = k.from /\ p.expiry = k.expiry
    BY <1>1 DEF Offer!Proposal
  <2> HIDE DEF p
  <2>3. Asked(p) /\ Paid(p, seen[h])
    BY <1>1, <1>12, <2>2 DEF ProposalOK, Asked, Paid
  <2>4. ProposalOK(p, seen[h])
    BY <1>1, <1>12, <2>2, <2>3 DEF ProposalOK
  <2> QED
    BY <2>1, <2>4 DEF p
<1>13. ASSUME NEW h \in Proposals, Offer!SignOpening(h) \/ Offer!SignExtension(h)
       PROVE  OfferInv'
  BY <1>12, <1>13, ProposalStep DEF Offer!SignOpening, Offer!SignExtension
<1>14. ASSUME NEW h \in Proposals, Offer!SendExtension(h)
       PROVE  OfferInv'
  <2>1. handler[h].pc = "send"
    BY <1>14 DEF Offer!SendExtension
  <2>2. CASE Offer!Step(h, Offer!Refused(h))
    BY <2>1, <2>2, RefusedStep
  <2>3. CASE ~Offer!Step(h, Offer!Refused(h))
    <3> DEFINE p == [handler[h] EXCEPT !.pc = "done"]
    <3>1. /\ handler' = [handler EXCEPT ![h] = p]
          /\ expiry' = Offer!Max({expiry, handler[h].from + handler[h].period})
          /\ seen' = [g \in Proposals |->
                IF handler[g].pc = "idle" THEN Offer!Unseen
                ELSE [seen[g] EXCEPT !.expiries = seen[g].expiries \cup {expiry'}]]
          /\ UNCHANGED <<time, terms, rate, key, quote>>
      BY <1>14, <2>3 DEF Offer!SendExtension, Offer!Do
    <3>2. p \in Offer!Proposal /\ ProposalOK(p, seen[h])
      BY <1>12, <2>1
    <3>3. expiry' \in Nat
      <4> DEFINE n == handler[h].from + handler[h].period
      <4>1. n \in Nat
        BY <1>1 DEF Offer!Proposal
      <4> HIDE DEF n
      <4>2. \E x \in {expiry, n} : \A y \in {expiry, n} : x >= y
        BY <1>2, <4>1
      <4>3. Offer!Max({expiry, n}) \in {expiry, n}
        BY <4>2, Zenon DEF Offer!Max
      <4> QED
        BY <1>2, <3>1, <4>1, <4>3 DEF n
    <3> HIDE DEF p
    <3>4. ASSUME NEW g \in Proposals
          PROVE  /\ seen'[g] \in Offer!Meeting
                 /\ handler[g].pc # "idle" =>
                       /\ seen'[g].terms = seen[g].terms /\ seen'[g].rates = seen[g].rates
                       /\ seen'[g].expiries = seen[g].expiries \cup {expiry'}
      BY <1>1, <3>1, <3>3 DEF Offer!Meeting, Offer!Unseen
    <3>5. Offer!TypeOK'
      BY <1>2, <3>1, <3>2, <3>3, <3>4 DEF OfferInv, Offer!TypeOK
    <3>6. ASSUME NEW g \in Proposals
          PROVE  /\ ProposalOK(handler'[g], seen'[g])
                 /\ handler'[g].pc # "idle" => handler[g].pc # "idle"
      <4>1. CASE g = h
        <5>1. handler'[h] = p
          BY <3>1 DEF OfferInv, Offer!TypeOK
        <5>2. ProposalOK(p, seen'[h])
          BY <1>1, <2>1, <3>2, <3>4, ProposalGrows
        <5> QED
          BY <2>1, <4>1, <5>1, <5>2
      <4>2. CASE g # h /\ handler[g].pc # "idle"
        <5>1. handler'[g] = handler[g] /\ ProposalOK(handler[g], seen[g])
          BY <1>1, <3>1, <4>2 DEF OfferInv, Offer!TypeOK
        <5>2. ProposalOK(handler[g], seen'[g])
          BY <1>1, <3>4, <4>2, <5>1, ProposalGrows
        <5> QED
          BY <5>1, <5>2
      <4>3. CASE g # h /\ handler[g].pc = "idle"
        BY <3>1, <4>3 DEF OfferInv, Offer!TypeOK, ProposalOK
      <4> QED
        BY <4>1, <4>2, <4>3
    <3>7. ASSUME NEW g \in Proposals
          PROVE  ProposalOK(handler[g], seen[g])'
      BY <3>1, <3>6 DEF ProposalOK, Asked, Paid
    <3>8. ASSUME NEW g \in Proposals, handler'[g].pc # "idle"
          PROVE  MetNow(seen[g])'
      BY <1>1, <3>1, <3>4, <3>6, <3>8 DEF MetNow
    <3> QED
      BY <3>5, <3>7, <3>8 DEF OfferInv
  <2> QED
    BY <2>2, <2>3
<1>15. ASSUME NEW h \in Proposals, Offer!Leave(h)
       PROVE  OfferInv'
  <2>1. /\ handler' = [handler EXCEPT ![h] = Offer!Idle]
        /\ seen' = [seen EXCEPT ![h] = Offer!Unseen]
        /\ UNCHANGED <<time, terms, rate, key, expiry, quote>>
    BY <1>15 DEF Offer!Leave, Offer!Do, Offer!world
  <2>2. Offer!Idle \in Offer!Proposal /\ Offer!Idle.pc = "idle"
    BY DEF Offer!Idle, Offer!Proposal, Offer!NoQuote, Offer!Quotes
  <2>3. Offer!Unseen \in Offer!Meeting
    BY DEF Offer!Unseen, Offer!Meeting
  <2>4. Offer!TypeOK'
    BY <2>1, <2>2, <2>3 DEF OfferInv, Offer!TypeOK
  <2>5. ASSUME NEW g \in Proposals
        PROVE  /\ ProposalOK(handler'[g], seen'[g])
               /\ handler'[g].pc # "idle" => MetNow(seen'[g])
    <3>1. CASE g = h
      BY <2>1, <2>2, <3>1 DEF OfferInv, Offer!TypeOK, ProposalOK
    <3>2. CASE g # h
      BY <1>1, <2>1, <3>2 DEF OfferInv, Offer!TypeOK
    <3> QED
      BY <3>1, <3>2
  <2>6. ASSUME NEW g \in Proposals
        PROVE  ProposalOK(handler[g], seen[g])'
    BY <2>1, <2>5 DEF ProposalOK, Asked, Paid
  <2>7. ASSUME NEW g \in Proposals, handler'[g].pc # "idle"
        PROVE  MetNow(seen[g])'
    BY <2>1, <2>5, <2>7 DEF MetNow
  <2> QED
    BY <2>4, <2>6, <2>7 DEF OfferInv
<1>16. CASE Offer!World
  <2>1. /\ seen' = [h \in Proposals |->
               IF handler[h].pc = "idle" THEN Offer!Unseen
               ELSE [seen[h] EXCEPT !.terms = seen[h].terms \cup {terms'},
                                    !.rates = seen[h].rates \cup {rate'}]]
        /\ UNCHANGED <<time, expiry, quote, handler>>
    BY <1>16 DEF Offer!World
  <2>2. terms' \in Terms \cup {None} /\ rate' \in Rates /\ key' \in Keys
    BY <1>2, <1>16 DEF Offer!World
  <2>3. ASSUME NEW g \in Proposals
        PROVE  /\ seen'[g] \in Offer!Meeting
               /\ handler[g].pc # "idle" =>
                     /\ seen'[g].terms = seen[g].terms \cup {terms'}
                     /\ seen'[g].rates = seen[g].rates \cup {rate'}
                     /\ seen'[g].expiries = seen[g].expiries
    BY <1>1, <2>1, <2>2 DEF Offer!Meeting, Offer!Unseen
  <2>4. Offer!TypeOK'
    BY <2>1, <2>2, <2>3 DEF OfferInv, Offer!TypeOK
  <2>5. ASSUME NEW g \in Proposals
        PROVE  ProposalOK(handler[g], seen'[g])
    <3>1. CASE handler[g].pc = "idle"
      BY <3>1 DEF ProposalOK
    <3>2. CASE handler[g].pc # "idle"
      BY <1>1, <2>3, <3>2, ProposalGrows
    <3> QED
      BY <3>1, <3>2
  <2>6. ASSUME NEW g \in Proposals
        PROVE  ProposalOK(handler[g], seen[g])'
    BY <2>1, <2>5 DEF ProposalOK, Asked, Paid
  <2>7. ASSUME NEW g \in Proposals, handler'[g].pc # "idle"
        PROVE  MetNow(seen[g])'
    BY <1>1, <2>1, <2>3, <2>7 DEF MetNow
  <2> QED
    BY <2>4, <2>6, <2>7 DEF OfferInv
<1>17. CASE Offer!Tick
  <2>1. time' = time + 1 /\ time' \in 0 .. MaxTime
        /\ UNCHANGED <<terms, rate, key, expiry, quote, handler, seen>>
    BY <1>2, <1>17 DEF Offer!Tick
  <2>2. Offer!TypeOK'
    BY <2>1 DEF OfferInv, Offer!TypeOK
  <2>3. ASSUME NEW g \in Proposals
        PROVE  ProposalOK(handler[g], seen[g])'
    <3>1. ProposalOK(handler[g], seen[g]) /\ handler[g] \in Offer!Proposal
      BY <1>1
    <3> QED
      BY <1>2, <2>1, <3>1
         DEF ProposalOK, Asked, Paid, Offer!Proposal, Offer!Quotes, Offer!At, Offer!Apart
  <2>4. ASSUME NEW g \in Proposals, handler'[g].pc # "idle"
        PROVE  MetNow(seen[g])'
    BY <1>1, <2>1, <2>4 DEF MetNow
  <2> QED
    BY <2>2, <2>3, <2>4 DEF OfferInv
<1>18. CASE UNCHANGED Offer!vars
  BY <1>18 DEF Offer!vars, Offer!world, OfferInv, Offer!TypeOK, ProposalOK, Asked, Paid, MetNow
<1> QED
  BY <1>3, <1>5, <1>6, <1>7, <1>8, <1>10, <1>11, <1>13, <1>14, <1>15, <1>16, <1>17, <1>18
     DEF Offer!Next

LEMMA OfferInit ==
    ASSUME Offer!OfferAssumption, Offer!Init
    PROVE  OfferInv
<1>1. Offer!Idle \in Offer!Proposal /\ Offer!Idle.pc = "idle"
  BY DEF Offer!Idle, Offer!Proposal, Offer!NoQuote, Offer!Quotes
<1>2. Offer!Unseen \in Offer!Meeting
  BY DEF Offer!Unseen, Offer!Meeting
<1>3. Offer!TypeOK
  BY <1>1, <1>2 DEF Offer!Init, Offer!TypeOK, Offer!OfferAssumption
<1> QED
  BY <1>1, <1>3 DEF Offer!Init, OfferInv, ProposalOK

\* The quotes, the handlers and what they met keep their types.
THEOREM OfferTypeCorrect ==
    ASSUME Offer!OfferAssumption
    PROVE  Offer!Spec => []Offer!TypeOK
<1>1. Offer!Init => OfferInv
  BY OfferInit
<1>2. OfferInv /\ [Offer!Next]_(Offer!vars) => OfferInv'
  BY OfferStep
<1>3. OfferInv => Offer!TypeOK
  BY DEF OfferInv
<1> QED
  BY <1>1, <1>2, <1>3, PTL DEF Offer!Spec

\* Whatever changes meanwhile, a channel is opened or extended at a price and
\* for a time that the project asked for.
THEOREM OfferSafe ==
    ASSUME Offer!OfferAssumption
    PROVE  Offer!Spec => []AcceptedAtPrice
<1>1. Offer!Init => OfferInv
  BY OfferInit
<1>2. OfferInv /\ [Offer!Next]_(Offer!vars) => OfferInv'
  BY OfferStep
<1>3. ASSUME OfferInv
      PROVE  Offer!AcceptedAtPrice
  <2> SUFFICES ASSUME NEW h \in Proposals, handler[h].pc = "done"
               PROVE  LET k == handler[h]
                          s == seen[h] IN
                      /\ \E t \in s.terms \ {None}, r \in s.rates :
                            /\ k.price >= Offer!At(t.token, t.price, r)
                            /\ k.kind = "open" => k.period <= t.expiration
                            /\ /\ k.kind = "open" /\ time < k.quote.until /\ k.quote.price > t.price
                               => k.price >= Offer!At(t.token, k.quote.price, r)
                      /\ k.kind = "extend" =>
                            \E e \in s.expiries : Offer!Apart(k.from, e) <= Gap
    BY DEF Offer!AcceptedAtPrice
  <2> DEFINE k == handler[h]
             s == seen[h]
             t == k.terms
  <2>1. k \in Offer!Proposal /\ s \in Offer!Meeting /\ ProposalOK(k, s)
    BY <1>3 DEF OfferInv, Offer!TypeOK
  <2>2. PICK r \in s.rates : k.price >= Offer!At(t.token, k.used, r)
    BY <2>1 DEF ProposalOK, Paid
  <2>3. t \in s.terms \ {None} /\ Asked(k) /\ Paid(k, s)
    BY <2>1 DEF ProposalOK
  <2>4. /\ t.price \in Nat /\ k.used \in Nat /\ k.price \in Nat /\ r \in Nat
        /\ k.quote.price \in Nat
    BY <2>1, <2>3
       DEF Offer!Proposal, Offer!Meeting, Offer!Quotes, Offer!OfferAssumption
  <2>5. t.price <= k.used
    BY <2>3, <2>4 DEF Asked
  <2>6. k.price >= Offer!At(t.token, t.price, r)
    <3>1. Offer!At(t.token, t.price, r) <= Offer!At(t.token, k.used, r)
      BY <2>4, <2>5, DearerCostsMore
    <3>2. Offer!At(t.token, t.price, r) \in Nat /\ Offer!At(t.token, k.used, r) \in Nat
      BY <2>4 DEF Offer!At
    <3> QED
      BY <2>2, <2>4, <3>1, <3>2
  <2>7. k.kind = "open" /\ time < k.quote.until /\ k.quote.price > t.price
        => k.price >= Offer!At(t.token, k.quote.price, r)
    BY <2>2, <2>3 DEF Asked
  <2>8. /\ k.kind = "open" => k.period <= t.expiration
        /\ k.kind = "extend" => k.expiry \in s.expiries /\ Offer!Apart(k.from, k.expiry) <= Gap
    BY <2>1, <2>3 DEF ProposalOK, Paid
  <2> QED
    BY <2>2, <2>3, <2>6, <2>7, <2>8
<1> QED
  BY <1>1, <1>2, <1>3, PTL DEF Offer!Spec, AcceptedAtPrice

-----------------------------------------------------------------------------
(* QueryServer.  What a request was shown stays on its record, so whatever *)
(* replaces the project, every check it passed is a check of a version the *)
(* table held for it.                                                      *)

Endpoints ==
    {Server!NoEndpoint} \cup UNION {{p.endpoints[n] : n \in DOMAIN p.endpoints} : p \in Projects}
Amounts == {0, 1} \cup {Server!Units(p, r.calls) : p \in Projects, r \in Requests}
Handler ==
    [pc : {"idle", "extract", "resolve", "connect", "rules", "limit", "count", "forward", "post",
           "answered", "refused", "open", "stream"},
     req : Requests \cup {None}, project : Projects \cup {None}, end : Endpoints,
     used : Nat, units : Amounts, charge : Amounts, served : BOOLEAN]

ServerTypes ==
    /\ table \in [Targets -> Projects \cup {None}]
    /\ query \in [Calls -> Handler]
    /\ offered \in [Calls -> SUBSET (Projects \cup {None})]
    /\ booked \in [Calls -> {0, 1}]
    /\ used \in [Targets -> Nat]

\* The endpoint was shown to the request, for the deployment of its credential.
Shown(k, held) ==
    /\ \E p \in held \ {None} : k.end \in Server!Visible(k.req, p)
    /\ k.req.route = "whitelist" \/ (k.req.route = "agreement" /\ Auth) =>
          k.req.cred = k.req.target

\* The calls passed the rules of a version, and the units are by the same.
Ruled(k, held) == \E p \in held \ {None} : Server!Computed(p, k.req.calls)
Measured(k, held) ==
    k.req.route = "payg" =>
        \E p \in held \ {None} : /\ Server!Computed(p, k.req.calls)
                                 /\ k.units = Server!Units(p, k.req.calls)

ServerOK(k, held, times) ==
    /\ k.served => k.pc \in {"open", "post", "answered"}
    /\ k.charge # 0 => k.pc = "answered"
    /\ k.pc \in {"connect", "open"} => k.req.socket
    /\ k.pc \in {"rules", "limit", "count", "forward", "post"} => ~k.req.socket
    /\ k.pc = "post" => k.req.route = "payg" /\ k.served
    /\ k.pc \in {"extract", "resolve", "rules", "limit", "count", "forward"} => times = 0
    /\ k.pc \in {"connect", "rules", "limit", "count", "forward", "post"} \/ k.served =>
          Shown(k, held)
    /\ k.pc \in {"limit", "count", "forward", "post"} \/ (k.served /\ ~k.req.socket) =>
          Ruled(k, held)
    /\ k.pc \in {"limit", "count", "forward", "post"} => Measured(k, held)
    /\ k.served /\ ~k.req.socket => times = 1
    /\ k.charge # 0 =>
          /\ k.served /\ k.req.route = "payg"
          /\ \E p \in held \ {None} :
                /\ Server!Computed(p, k.req.calls)
                /\ k.charge = Server!Charged(k.req, Server!Units(p, k.req.calls))

\* What the table holds for a request is on its record.
Recorded(k, held) == k.pc # "idle" => k.req \in Requests /\ table[k.req.target] \in held

ServerInv ==
    /\ ServerTypes
    /\ \A q \in Calls : /\ ServerOK(query[q], offered[q], booked[q])
                        /\ Recorded(query[q], offered[q])

\* The units of a body are a sum of numbers.
LEMMA UnitsNatural ==
    ASSUME Server!ServerAssumption, NEW p \in Projects, NEW r \in Requests
    PROVE  Server!Units(p, r.calls) \in Nat
<1> DEFINE calls == r.calls
           n == Len(calls)
           cost(i) == Server!MethodUnits(p, calls[i])
           sum == Server!UnitSums(p, calls)
           step == [x \in (1 .. n) \X Nat |-> x[2] + cost(x[1])]
<1>1. n \in Nat
  BY DEF Server!ServerAssumption
<1>2. \A i \in 1 .. n : cost(i) \in Nat
  BY DEF Server!ServerAssumption, Server!MethodUnits
<1> HIDE DEF cost
<1>3. step \in [(1 .. n) \X Nat -> Nat] /\ \A i \in 1 .. n, a \in Nat : step[<<i, a>>] = a + cost(i)
  BY <1>2
<1> HIDE DEF n, step
<1>4. PICK f \in [0 .. n -> Nat] : IsFold(f, n, 0, step)
  BY <1>1, <1>3, FoldExists
<1>5. f = [i \in 0 .. n |-> IF i = 0 THEN 0 ELSE f[i - 1] + cost(i)]
  <2>1. ASSUME NEW i \in 0 .. n
        PROVE  f[i] = IF i = 0 THEN 0 ELSE f[i - 1] + cost(i)
    <3>1. f[i] = IF i = 0 THEN 0 ELSE step[<<i, f[i - 1]>>]
      BY <1>4 DEF IsFold
    <3>2. i # 0 => i \in 1 .. n /\ i - 1 \in 0 .. n
      BY <1>1
    <3>3. i # 0 => step[<<i, f[i - 1]>>] = f[i - 1] + cost(i)
      BY <1>3, <1>4, <3>2
    <3> QED
      BY <3>1, <3>3
  <2> QED
    BY <1>4, <2>1
<1>6. sum = CHOOSE g : g = [i \in 0 .. n |-> IF i = 0 THEN 0 ELSE g[i - 1] + cost(i)]
  BY DEF Server!UnitSums, n, cost
<1> HIDE DEF sum
<1>7. sum = [i \in 0 .. n |-> IF i = 0 THEN 0 ELSE sum[i - 1] + cost(i)]
  BY <1>5, <1>6
<1> DEFINE P == {m \in Nat : m <= n => sum[m] \in Nat}
<1>8. 0 \in P
  BY <1>1, <1>7
<1>9. ASSUME NEW m \in Nat, m \in P
      PROVE  m + 1 \in P
  <2> SUFFICES ASSUME m + 1 <= n
               PROVE  sum[m + 1] \in Nat
    OBVIOUS
  <2>1. sum[m + 1] = sum[m] + cost(m + 1)
    <3>1. m + 1 \in 0 .. n /\ m + 1 # 0 /\ (m + 1) - 1 = m
      BY <1>1
    <3> QED
      BY <1>7, <3>1
  <2>2. sum[m] \in Nat /\ cost(m + 1) \in Nat
    BY <1>1, <1>2, <1>9
  <2> QED
    BY <2>1, <2>2
<1> HIDE DEF P
<1>10. n \in P
  BY <1>1, <1>8, <1>9, CountingUp
<1>11. sum[n] \in Nat
  BY <1>1, <1>10 DEF P
<1> QED
  BY <1>11 DEF Server!Units, sum, n

\* A longer record shows no less.
LEMMA RecordGrows ==
    ASSUME NEW k, NEW held, NEW more, held \subseteq more, NEW times, ServerOK(k, held, times)
    PROVE  ServerOK(k, more, times)
<1>1. /\ Shown(k, held) => Shown(k, more)
      /\ Ruled(k, held) => Ruled(k, more)
      /\ Measured(k, held) => Measured(k, more)
  BY DEF Shown, Ruled, Measured
<1> QED
  BY <1>1 DEF ServerOK

\* A handler keeps its type when one field is set.
LEMMA SetHandlerField ==
    ASSUME NEW k \in Handler
    PROVE  /\ \A v \in {"idle", "extract", "resolve", "connect", "rules", "limit", "count",
                        "forward", "post", "answered", "refused", "open", "stream"} :
                 [k EXCEPT !.pc = v] \in Handler
           /\ \A v \in Requests : [k EXCEPT !.req = v] \in Handler
           /\ \A v \in Projects : [k EXCEPT !.project = v] \in Handler
           /\ \A v \in Endpoints : [k EXCEPT !.end = v] \in Handler
           /\ \A v \in Nat : [k EXCEPT !.used = v] \in Handler
           /\ \A v \in Amounts : [k EXCEPT !.units = v] \in Handler
           /\ \A v \in Amounts : [k EXCEPT !.charge = v] \in Handler
           /\ \A v \in BOOLEAN : [k EXCEPT !.served = v] \in Handler
  BY DEF Handler

\* A handler's own step.
LEMMA HandlerStep ==
    ASSUME ServerInv, NEW q \in Calls, NEW k \in Handler, Server!Do(q, k),
           NEW held \in SUBSET (Projects \cup {None}), offered' = [offered EXCEPT ![q] = held],
           NEW times \in {0, 1}, booked' = [booked EXCEPT ![q] = times],
           ServerOK(k, held, times), Recorded(k, held),
           table' = table, used' \in [Targets -> Nat]
    PROVE  ServerInv'
<1>1. query' = [query EXCEPT ![q] = k]
  BY DEF Server!Do
<1>2. ServerTypes'
  BY <1>1 DEF ServerInv, ServerTypes
<1>3. ASSUME NEW p \in Calls
      PROVE  /\ ServerOK(query'[p], offered'[p], booked'[p])
             /\ Recorded(query'[p], offered'[p])
  BY <1>1 DEF ServerInv, ServerTypes
<1>4. ASSUME NEW p \in Calls
      PROVE  ServerOK(query[p], offered[p], booked[p])'
  BY <1>3 DEF ServerOK, Shown, Ruled, Measured
<1>5. ASSUME NEW p \in Calls
      PROVE  Recorded(query[p], offered[p])'
  BY <1>3 DEF Recorded
<1> QED
  BY <1>2, <1>4, <1>5 DEF ServerInv

\* The same for a step that leaves its records alone.
LEMMA HandlerStepQuiet ==
    ASSUME ServerInv, NEW q \in Calls, NEW k \in Handler, Server!Do(q, k),
           UNCHANGED <<table, offered, booked>>, used' \in [Targets -> Nat],
           ServerOK(k, offered[q], booked[q]), Recorded(k, offered[q])
    PROVE  ServerInv'
<1>1. /\ offered' = [offered EXCEPT ![q] = offered[q]] /\ booked' = [booked EXCEPT ![q] = booked[q]]
      /\ offered[q] \in SUBSET (Projects \cup {None}) /\ booked[q] \in {0, 1}
  BY DEF ServerInv, ServerTypes
<1> QED
  BY <1>1, HandlerStep

\* A refused request was not answered, whatever it was counted.
LEMMA RefusedRequest ==
    ASSUME ServerInv, NEW q \in Calls, Server!Refused(q),
           query[q].pc \in {"extract", "resolve", "connect", "rules", "limit", "forward"},
           UNCHANGED <<table, tokens, used, offered>>,
           NEW times \in {0, 1}, booked' = [booked EXCEPT ![q] = times]
    PROVE  ServerInv'
<1> DEFINE k == query[q]
           p == [k EXCEPT !.pc = "refused"]
<1>1. /\ k \in Handler /\ ServerOK(k, offered[q], booked[q]) /\ Recorded(k, offered[q])
      /\ offered[q] \in SUBSET (Projects \cup {None}) /\ used \in [Targets -> Nat]
  BY DEF ServerInv, ServerTypes
<1>2. p \in Handler
  BY <1>1, SetHandlerField
<1>3. p.pc = "refused" /\ p.req = k.req /\ p.served = k.served /\ p.charge = k.charge
  BY <1>1 DEF Handler
<1>4. Server!Do(q, p)
  BY DEF Server!Refused
<1> HIDE DEF p
<1>5. ~k.served /\ k.charge = 0
  BY <1>1 DEF ServerOK
<1>6. ServerOK(p, offered[q], times) /\ Recorded(p, offered[q])
  BY <1>1, <1>3, <1>5 DEF ServerOK, Recorded
<1>7. offered' = [offered EXCEPT ![q] = offered[q]]
  BY DEF ServerInv, ServerTypes
<1> QED
  BY <1>1, <1>2, <1>4, <1>6, <1>7, HandlerStep

LEMMA RefusedQuietly ==
    ASSUME ServerInv, NEW q \in Calls, Server!Refused(q),
           query[q].pc \in {"extract", "resolve", "connect", "rules", "limit", "forward"},
           UNCHANGED <<table, tokens, used, offered, booked>>
    PROVE  ServerInv'
<1>1. booked' = [booked EXCEPT ![q] = booked[q]] /\ booked[q] \in {0, 1}
  BY DEF ServerInv, ServerTypes
<1> QED
  BY <1>1, RefusedRequest

\* A request whose credential is accepted has been shown nothing yet.
LEMMA ExtractedStep ==
    ASSUME ServerInv, NEW q \in Calls, query[q].pc = "extract",
           Server!Do(q, [query[q] EXCEPT !.pc = "resolve"]),
           UNCHANGED <<table, tokens, used, offered, booked>>
    PROVE  ServerInv'
<1> DEFINE k == query[q]
           p == [k EXCEPT !.pc = "resolve"]
<1>1. /\ k \in Handler /\ ServerOK(k, offered[q], booked[q]) /\ Recorded(k, offered[q])
      /\ used \in [Targets -> Nat]
  BY DEF ServerInv, ServerTypes
<1>2. p \in Handler
  BY <1>1, SetHandlerField
<1>3. p.pc = "resolve" /\ p.req = k.req /\ p.served = k.served /\ p.charge = k.charge
  BY <1>1 DEF Handler
<1>4. Server!Do(q, p)
  OBVIOUS
<1> HIDE DEF p
<1>5. ServerOK(p, offered[q], booked[q]) /\ Recorded(p, offered[q])
  BY <1>1, <1>3 DEF ServerOK, Recorded
<1> QED
  BY <1>1, <1>2, <1>4, <1>5, HandlerStepQuiet

\* A visible endpoint is one of a project.
LEMMA VisibleEndpoint ==
    ASSUME NEW r, NEW p \in Projects \cup {None}, NEW e \in Server!Visible(r, p)
    PROVE  p # None /\ p \in Projects /\ e \in Endpoints
<1>1. e \in Server!Named(r, p)
  BY DEF Server!Visible
<1>2. p # None /\ r.name \in DOMAIN p.endpoints /\ e = p.endpoints[r.name]
  BY <1>1 DEF Server!Named
<1> QED
  BY <1>2 DEF Endpoints

\* The project and its endpoint are taken from the table.
LEMMA ResolveStep ==
    ASSUME ServerInv, NEW q \in Calls, query[q].pc = "resolve",
           NEW own, NEW allowed, NEW next \in {"forward", "rules", "stream", "connect"},
           Server!Resolve(q, own, allowed, next),
           LET r == query[q].req IN
           /\ r.route = "whitelist" \/ (r.route = "agreement" /\ Auth) => own
           /\ IF next = "connect" THEN r.socket ELSE ~r.socket
           /\ next = "forward" => /\ r.route # "payg"
                                  /\ allowed => Server!Computed(table[r.target], r.calls)
    PROVE  ServerInv'
<1> DEFINE k == query[q]
           r == k.req
           t == table[r.target]
<1>1. /\ k \in Handler /\ ServerOK(k, offered[q], booked[q]) /\ Recorded(k, offered[q])
      /\ used \in [Targets -> Nat] /\ t \in offered[q]
      /\ offered[q] \subseteq Projects \cup {None}
  BY DEF ServerInv, ServerTypes, Recorded
<1>2. UNCHANGED <<table, tokens, used, offered, booked>>
  BY DEF Server!Resolve
<1>3. CASE Server!Refused(q)
  BY <1>2, <1>3, RefusedQuietly
<1>4. CASE ~Server!Refused(q)
  <2>1. /\ ~(own /\ r.cred # r.target) /\ allowed
        /\ \E e \in Server!Visible(r, t) :
              Server!Do(q, [k EXCEPT !.project = t, !.end = e, !.pc = next])
    BY <1>4 DEF Server!Resolve
  <2>2. PICK e \in Server!Visible(r, t) :
              Server!Do(q, [k EXCEPT !.project = t, !.end = e, !.pc = next])
    BY <2>1
  <2> DEFINE p == [k EXCEPT !.project = t, !.end = e, !.pc = next]
  <2>3. t \in Projects /\ t # None /\ e \in Endpoints
    BY <1>1, VisibleEndpoint
  <2>4. p \in Handler
    BY <1>1, <2>3, SetHandlerField
  <2>5. /\ p.pc = next /\ p.req = r /\ p.end = e /\ p.served = k.served /\ p.charge = k.charge
        /\ p.units = k.units
    BY <1>1 DEF Handler
  <2>6. Server!Do(q, p)
    BY <2>2
  <2> HIDE DEF p
  <2>7. ~k.served /\ k.charge = 0 /\ booked[q] = 0
    BY <1>1 DEF ServerOK
  <2>8. Shown(p, offered[q])
    BY <1>1, <2>1, <2>2, <2>3, <2>5 DEF Shown
  <2>9. next = "forward" => Ruled(p, offered[q]) /\ Measured(p, offered[q])
    BY <1>1, <2>1, <2>3, <2>5 DEF Ruled, Measured
  <2>10. ServerOK(p, offered[q], booked[q])
    BY <2>5, <2>7, <2>8, <2>9 DEF ServerOK
  <2>11. Recorded(p, offered[q])
    BY <1>1, <2>5 DEF Recorded
  <2> QED
    BY <1>1, <1>2, <2>4, <2>6, <2>10, <2>11, HandlerStepQuiet
<1> QED
  BY <1>3, <1>4

\* The query is sent, counted once, and served or refused.
LEMMA PostStep ==
    ASSUME ServerInv, NEW q \in Calls, query[q].pc = "forward", Server!Post(q)
    PROVE  ServerInv'
<1> DEFINE k == query[q]
           p == [k EXCEPT !.served = TRUE,
                          !.pc = IF k.req.route = "payg" THEN "post" ELSE "answered"]
<1>1. /\ k \in Handler /\ ServerOK(k, offered[q], booked[q]) /\ Recorded(k, offered[q])
      /\ used \in [Targets -> Nat] /\ booked[q] = 0
      /\ offered[q] \in SUBSET (Projects \cup {None})
  BY DEF ServerInv, ServerTypes, ServerOK
<1>2. /\ booked' = [booked EXCEPT ![q] = 1] /\ UNCHANGED <<table, tokens, used, offered>>
      /\ Server!Do(q, p) \/ Server!Refused(q)
  BY <1>1 DEF Server!Post, ServerInv, ServerTypes
<1>3. CASE Server!Refused(q)
  BY <1>2, <1>3, RefusedRequest
<1>4. CASE Server!Do(q, p)
  <2>1. p \in Handler
    BY <1>1, SetHandlerField
  <2>2. /\ p.pc = (IF k.req.route = "payg" THEN "post" ELSE "answered") /\ p.served
        /\ p.req = k.req /\ p.end = k.end /\ p.charge = k.charge /\ p.units = k.units
    BY <1>1 DEF Handler
  <2> HIDE DEF p
  <2>3. /\ ~k.req.socket /\ k.charge = 0 /\ Shown(k, offered[q]) /\ Ruled(k, offered[q])
        /\ Measured(k, offered[q])
    BY <1>1 DEF ServerOK
  <2>4. Shown(p, offered[q]) /\ Ruled(p, offered[q]) /\ Measured(p, offered[q])
    BY <2>2, <2>3 DEF Shown, Ruled, Measured
  <2>5. ServerOK(p, offered[q], 1) /\ Recorded(p, offered[q])
    BY <1>1, <2>2, <2>3, <2>4 DEF ServerOK, Recorded
  <2>6. offered' = [offered EXCEPT ![q] = offered[q]]
    BY <1>2 DEF ServerInv, ServerTypes
  <2> QED
    BY <1>1, <1>2, <1>4, <2>1, <2>5, <2>6, HandlerStep
<1> QED
  BY <1>2, <1>3, <1>4

LEMMA ServerStep ==
    ASSUME Server!ServerAssumption, ServerInv, [Server!Next]_(Server!vars)
    PROVE  ServerInv'
<1>1. ASSUME NEW q \in Calls
      PROVE  /\ query[q] \in Handler /\ ServerOK(query[q], offered[q], booked[q])
             /\ Recorded(query[q], offered[q])
  BY DEF ServerInv, ServerTypes
<1>2. /\ table \in [Targets -> Projects \cup {None}] /\ used \in [Targets -> Nat]
      /\ offered \in [Calls -> SUBSET (Projects \cup {None})] /\ booked \in [Calls -> {0, 1}]
  BY DEF ServerInv, ServerTypes
\* Steps that change none of what the invariant is about.
<1>3. ASSUME UNCHANGED <<table, query, offered, booked>>, used' \in [Targets -> Nat]
      PROVE  ServerInv'
  <2>1. ServerTypes'
    BY <1>3 DEF ServerInv, ServerTypes
  <2> QED
    BY <1>3, <2>1 DEF ServerInv, ServerOK, Shown, Ruled, Measured, Recorded
<1>4. ASSUME NEW d \in Targets, Server!Generate(d)
      PROVE  ServerInv'
  BY <1>2, <1>3, <1>4 DEF Server!Generate
<1>5. ASSUME NEW q \in Calls, Server!Arrive(q)
      PROVE  ServerInv'
  <2>1. PICK r \in Requests :
          /\ Server!Do(q, [Server!Idle EXCEPT !.pc = "extract", !.req = r])
          /\ offered' = [offered EXCEPT ![q] = {table[r.target]}]
    BY <1>5 DEF Server!Arrive
  <2> DEFINE p == [Server!Idle EXCEPT !.pc = "extract", !.req = r]
  <2>2. Server!Idle \in Handler
    BY DEF Server!Idle, Handler, Endpoints, Amounts
  <2>3. p \in Handler
    BY <2>2, SetHandlerField
  <2>4. p.pc = "extract" /\ p.req = r /\ ~p.served /\ p.charge = 0
    BY DEF Server!Idle
  <2>5. Server!Do(q, p)
    BY <2>1
  <2> HIDE DEF p
  <2>6. table[r.target] \in Projects \cup {None}
    BY <1>2 DEF Server!ServerAssumption
  <2>7. ServerOK(p, {table[r.target]}, 0) /\ Recorded(p, {table[r.target]})
    BY <2>4 DEF ServerOK, Recorded
  <2> QED
    BY <1>2, <1>5, <2>1, <2>3, <2>5, <2>6, <2>7, HandlerStep DEF Server!Arrive
<1>6. ASSUME NEW q \in Calls,
             Server!ExtractToken(q) \/ Server!ExtractAccount(q) \/ Server!ExtractState(q)
      PROVE  ServerInv'
  BY <1>6, ExtractedStep, RefusedQuietly
     DEF Server!ExtractToken, Server!ExtractAccount, Server!ExtractState
<1>7. ASSUME NEW q \in Calls, Server!ResolveAccount(q)
      PROVE  ServerInv'
  <2>1. /\ query[q].pc = "resolve" /\ query[q].req.route = "whitelist" /\ ~query[q].req.socket
        /\ Server!Resolve(q, TRUE, Server!Admitted(q), "forward")
    BY <1>7 DEF Server!ResolveAccount, Server!AsksFor
  <2> QED
    BY <2>1, ResolveStep DEF Server!Admitted
<1>8. ASSUME NEW q \in Calls, Server!ResolveToken(q)
      PROVE  ServerInv'
  <2>1. /\ query[q].pc = "resolve" /\ query[q].req.route = "agreement" /\ ~query[q].req.socket
        /\ Server!Resolve(q, Auth, Server!Admitted(q), "forward")
    BY <1>8 DEF Server!ResolveToken, Server!AsksFor
  <2> QED
    BY <2>1, ResolveStep DEF Server!Admitted
<1>9. ASSUME NEW q \in Calls, Server!ResolveState(q)
      PROVE  ServerInv'
  <2>1. /\ query[q].pc = "resolve" /\ query[q].req.route = "payg" /\ ~query[q].req.socket
        /\ \E next \in {"stream", "rules"} : Server!Resolve(q, FALSE, TRUE, next)
    BY <1>9 DEF Server!ResolveState, Server!AsksFor
  <2> QED
    BY <2>1, ResolveStep
<1>10. ASSUME NEW q \in Calls, Server!ResolveSocket(q)
       PROVE  ServerInv'
  <2> DEFINE r == query[q].req
             own == r.route = "whitelist" \/ (r.route = "agreement" /\ Auth)
  <2>1. query[q].pc = "resolve" /\ r.socket /\ Server!Resolve(q, own, TRUE, "connect")
    BY <1>10 DEF Server!ResolveSocket
  <2> QED
    BY <2>1, ResolveStep
<1>11. ASSUME NEW q \in Calls, Server!Connect(q)
       PROVE  ServerInv'
  <2> DEFINE k == query[q]
             p == [k EXCEPT !.pc = "open", !.served = TRUE]
  <2>1. /\ k.pc = "connect" /\ UNCHANGED <<table, tokens, used, offered, booked>>
        /\ Server!Refused(q) \/ Server!Do(q, p)
    BY <1>11 DEF Server!Connect
  <2>2. CASE Server!Refused(q)
    BY <2>1, <2>2, RefusedQuietly
  <2>3. CASE Server!Do(q, p)
    <3>1. p \in Handler
      BY <1>1, SetHandlerField
    <3>2. /\ p.pc = "open" /\ p.served /\ p.req = k.req /\ p.end = k.end /\ p.charge = k.charge
      BY <1>1 DEF Handler
    <3> HIDE DEF p
    <3>3. k.req.socket /\ k.charge = 0 /\ Shown(k, offered[q])
      BY <1>1, <2>1 DEF ServerOK
    <3>4. Shown(p, offered[q])
      BY <3>2, <3>3 DEF Shown
    <3>5. ServerOK(p, offered[q], booked[q]) /\ Recorded(p, offered[q])
      BY <1>1, <2>1, <3>2, <3>3, <3>4 DEF ServerOK, Recorded
    <3> QED
      BY <1>2, <2>1, <2>3, <3>1, <3>5, HandlerStepQuiet
  <2> QED
    BY <2>1, <2>2, <2>3
<1>12. ASSUME NEW q \in Calls, Server!Rules(q)
       PROVE  ServerInv'
  <2> DEFINE k == query[q]
             t == table[k.req.target]
             units == Server!Units(t, k.req.calls)
             charged == [k EXCEPT !.pc = "limit", !.project = t, !.units = units]
             inactive == [k EXCEPT !.pc = "answered", !.project = t]
  <2>1. /\ k.pc = "rules" /\ UNCHANGED <<table, tokens, used, offered, booked>>
        /\ \/ Server!Refused(q)
           \/ /\ t # None /\ Server!Computed(t, k.req.calls)
              /\ Server!Do(q, charged) \/ Server!Do(q, inactive)
    BY <1>12 DEF Server!Rules
  <2>2. CASE Server!Refused(q)
    BY <2>1, <2>2, RefusedQuietly
  <2>3. CASE ~Server!Refused(q)
    <3>1. /\ t # None /\ Server!Computed(t, k.req.calls)
          /\ Server!Do(q, charged) \/ Server!Do(q, inactive)
      BY <2>1, <2>3
    <3>2. k.req \in Requests /\ t \in offered[q] /\ t \in Projects /\ units \in Amounts
      BY <1>1, <1>2, <2>1, <3>1 DEF Recorded, Server!ServerAssumption, Amounts
    <3>3. /\ ~k.served /\ k.charge = 0 /\ ~k.req.socket /\ booked[q] = 0 /\ Shown(k, offered[q])
      BY <1>1, <2>1 DEF ServerOK
    <3> HIDE DEF units
    <3>4. CASE Server!Do(q, charged)
      <4>1. charged \in Handler
        BY <1>1, <3>2, SetHandlerField
      <4>2. /\ charged.pc = "limit" /\ charged.req = k.req /\ charged.end = k.end
            /\ charged.served = k.served /\ charged.charge = k.charge /\ charged.units = units
        BY <1>1 DEF Handler
      <4> HIDE DEF charged
      <4>3. Shown(charged, offered[q])
        BY <3>3, <4>2 DEF Shown
      <4>4. Ruled(charged, offered[q]) /\ Measured(charged, offered[q])
        BY <3>1, <3>2, <4>2 DEF Ruled, Measured, units
      <4>5. ServerOK(charged, offered[q], booked[q]) /\ Recorded(charged, offered[q])
        BY <1>1, <2>1, <3>3, <4>2, <4>3, <4>4 DEF ServerOK, Recorded
      <4> QED
        BY <1>2, <2>1, <3>4, <4>1, <4>5, HandlerStepQuiet
    <3>5. CASE Server!Do(q, inactive)
      <4>1. inactive \in Handler
        BY <1>1, <3>2, SetHandlerField
      <4>2. /\ inactive.pc = "answered" /\ inactive.req = k.req /\ inactive.served = k.served
            /\ inactive.charge = k.charge
        BY <1>1 DEF Handler
      <4> HIDE DEF inactive
      <4>3. ServerOK(inactive, offered[q], booked[q]) /\ Recorded(inactive, offered[q])
        BY <1>1, <2>1, <3>3, <4>2 DEF ServerOK, Recorded
      <4> QED
        BY <1>2, <2>1, <3>5, <4>1, <4>3, HandlerStepQuiet
    <3> QED
      BY <3>1, <3>4, <3>5
  <2> QED
    BY <2>2, <2>3
\* The limit is behind a request that goes on; nothing it was shown changes.
<1>13. ASSUME NEW q \in Calls, NEW pc \in {"count", "forward"}, NEW n \in Nat,
              query[q].pc \in {"limit", "count"},
              Server!Do(q, [query[q] EXCEPT !.pc = pc, !.used = n]),
              UNCHANGED <<table, tokens, offered, booked>>, used' \in [Targets -> Nat]
       PROVE  ServerInv'
  <2> DEFINE k == query[q]
             p == [k EXCEPT !.pc = pc, !.used = n]
  <2>1. p \in Handler
    BY <1>1, SetHandlerField
  <2>2. /\ p.pc = pc /\ p.req = k.req /\ p.end = k.end /\ p.served = k.served
        /\ p.charge = k.charge /\ p.units = k.units
    BY <1>1 DEF Handler
  <2>3. Server!Do(q, p)
    BY <1>13
  <2> HIDE DEF p
  <2>4. /\ ~k.served /\ k.charge = 0 /\ ~k.req.socket /\ booked[q] = 0
        /\ Shown(k, offered[q]) /\ Ruled(k, offered[q]) /\ Measured(k, offered[q])
    BY <1>1, <1>13 DEF ServerOK
  <2>5. Shown(p, offered[q]) /\ Ruled(p, offered[q]) /\ Measured(p, offered[q])
    BY <2>2, <2>4 DEF Shown, Ruled, Measured
  <2>6. ServerOK(p, offered[q], booked[q]) /\ Recorded(p, offered[q])
    BY <1>1, <1>13, <2>2, <2>4, <2>5 DEF ServerOK, Recorded
  <2> QED
    BY <1>13, <2>1, <2>3, <2>6, HandlerStepQuiet
\* A field that keeps its value.
<1>14. ASSUME NEW q \in Calls, NEW pc
       PROVE  /\ [query[q] EXCEPT !.pc = pc] = [query[q] EXCEPT !.pc = pc, !.used = query[q].used]
              /\ query[q].used \in Nat
  BY <1>1 DEF Handler
<1>15. ASSUME NEW q \in Calls, Server!ReadLimit(q)
       PROVE  ServerInv'
  <2> DEFINE k == query[q]
             n == used[k.req.target] + 1
  <2>1. /\ k.pc = "limit" /\ UNCHANGED <<table, tokens, used, offered, booked>>
        /\ \/ Server!Do(q, [k EXCEPT !.pc = "forward"])
           \/ Server!Refused(q)
           \/ Server!Do(q, [k EXCEPT !.pc = "count", !.used = n])
    BY <1>15 DEF Server!ReadLimit
  <2>2. n \in Nat
    BY <1>1, <1>2, <2>1 DEF Recorded, Server!ServerAssumption
  <2> HIDE DEF n
  <2> QED
    BY <1>2, <1>13, <1>14, <2>1, <2>2, RefusedQuietly
<1>16. ASSUME NEW q \in Calls, Server!WriteLimit(q)
       PROVE  ServerInv'
  <2>1. /\ query[q].pc = "count" /\ UNCHANGED <<table, tokens, offered, booked>>
        /\ Server!Do(q, [query[q] EXCEPT !.pc = "forward"])
        /\ used' = [used EXCEPT ![query[q].req.target] = query[q].used]
    BY <1>16 DEF Server!WriteLimit
  <2>2. used' \in [Targets -> Nat]
    BY <1>2, <1>14, <2>1
  <2> QED
    BY <1>13, <1>14, <2>1, <2>2
<1>17. ASSUME NEW q \in Calls, Server!SubqueryRaw(q) \/ Server!RpcqueryRaw(q)
       PROVE  ServerInv'
  BY <1>17, PostStep DEF Server!SubqueryRaw, Server!RpcqueryRaw
<1>18. ASSUME NEW q \in Calls, Server!NotSent(q)
       PROVE  ServerInv'
  <2> DEFINE k == query[q]
             p == [k EXCEPT !.pc = "answered"]
  <2>1. /\ k.pc = "forward" /\ UNCHANGED <<table, tokens, used, offered, booked>>
        /\ Server!Refused(q) \/ Server!Do(q, p)
    BY <1>18 DEF Server!NotSent
  <2>2. CASE Server!Refused(q)
    BY <2>1, <2>2, RefusedQuietly
  <2>3. CASE Server!Do(q, p)
    <3>1. p \in Handler
      BY <1>1, SetHandlerField
    <3>2. p.pc = "answered" /\ p.req = k.req /\ p.served = k.served /\ p.charge = k.charge
      BY <1>1 DEF Handler
    <3> HIDE DEF p
    <3>3. ~k.served /\ k.charge = 0
      BY <1>1, <2>1 DEF ServerOK
    <3>4. ServerOK(p, offered[q], booked[q]) /\ Recorded(p, offered[q])
      BY <1>1, <2>1, <3>2, <3>3 DEF ServerOK, Recorded
    <3> QED
      BY <1>2, <2>1, <2>3, <3>1, <3>4, HandlerStepQuiet
  <2> QED
    BY <2>1, <2>2, <2>3
<1>19. ASSUME NEW q \in Calls, Server!PostState(q)
       PROVE  ServerInv'
  <2> DEFINE k == query[q]
             amount == Server!Charged(k.req, k.units)
             p == [k EXCEPT !.pc = "answered", !.charge = amount]
  <2>1. /\ k.pc = "post" /\ UNCHANGED <<table, tokens, used, offered, booked>>
        /\ Server!Do(q, p)
    BY <1>19 DEF Server!PostState
  <2>2. amount \in Amounts
    BY <1>1 DEF Server!Charged, Handler, Amounts
  <2>3. p \in Handler
    BY <1>1, <2>2, SetHandlerField
  <2>4. /\ p.pc = "answered" /\ p.req = k.req /\ p.end = k.end /\ p.served = k.served
        /\ p.charge = amount
    BY <1>1 DEF Handler
  <2> HIDE DEF p
  <2>5. /\ k.served /\ ~k.req.socket /\ booked[q] = 1 /\ k.req.route = "payg"
        /\ Shown(k, offered[q]) /\ Ruled(k, offered[q]) /\ Measured(k, offered[q])
    BY <1>1, <2>1 DEF ServerOK
  <2>6. Shown(p, offered[q]) /\ Ruled(p, offered[q])
    BY <2>4, <2>5 DEF Shown, Ruled
  <2>7. \E v \in offered[q] \ {None} :
            /\ Server!Computed(v, k.req.calls)
            /\ amount = Server!Charged(k.req, Server!Units(v, k.req.calls))
    BY <2>5 DEF Measured
  <2> HIDE DEF amount
  <2>8. ServerOK(p, offered[q], booked[q]) /\ Recorded(p, offered[q])
    BY <1>1, <2>1, <2>4, <2>5, <2>6, <2>7 DEF ServerOK, Recorded
  <2> QED
    BY <1>2, <2>1, <2>3, <2>8, HandlerStepQuiet
<1>20. ASSUME NEW q \in Calls, Server!Leave(q)
       PROVE  ServerInv'
  <2>1. Server!Idle \in Handler /\ Server!Idle.pc = "idle" /\ ~Server!Idle.served
        /\ Server!Idle.charge = 0
    BY DEF Server!Idle, Handler, Endpoints, Amounts
  <2>2. ServerOK(Server!Idle, {}, 0) /\ Recorded(Server!Idle, {})
    BY <2>1 DEF ServerOK, Recorded
  <2>3. /\ Server!Do(q, Server!Idle) /\ offered' = [offered EXCEPT ![q] = {}]
        /\ booked' = [booked EXCEPT ![q] = 0] /\ table' = table /\ used' = used
    BY <1>20 DEF Server!Leave
  <2>4. {} \in SUBSET (Projects \cup {None}) /\ 0 \in {0, 1}
    OBVIOUS
  <2> QED
    BY <1>2, <2>1, <2>2, <2>3, <2>4, HandlerStep
<1>21. ASSUME NEW d \in Targets, NEW p \in Projects \cup {None}, Server!Replace(d, p)
       PROVE  ServerInv'
  <2>1. /\ table' = [table EXCEPT ![d] = p] /\ UNCHANGED <<tokens, used, query, booked>>
        /\ offered' = [q \in Calls |->
              IF query[q].pc # "idle" /\ query[q].req.target = d THEN offered[q] \cup {p}
              ELSE offered[q]]
    BY <1>21 DEF Server!Replace
  <2>2. ServerTypes'
    BY <1>2, <2>1 DEF ServerInv, ServerTypes
  <2>3. ASSUME NEW q \in Calls
        PROVE  ServerOK(query[q], offered'[q], booked[q])
    BY <1>1, <2>1, RecordGrows
  <2>4. ASSUME NEW q \in Calls
        PROVE  ServerOK(query[q], offered[q], booked[q])'
    BY <2>1, <2>3 DEF ServerOK, Shown, Ruled, Measured
  <2>5. ASSUME NEW q \in Calls
        PROVE  Recorded(query[q], offered[q])'
    BY <1>1, <1>2, <2>1 DEF Recorded, Server!ServerAssumption
  <2> QED
    BY <2>2, <2>4, <2>5 DEF ServerInv
<1>22. CASE Server!NextSecond
  BY <1>3, <1>22 DEF Server!NextSecond
<1>23. CASE UNCHANGED Server!vars
  BY <1>2, <1>3, <1>23 DEF Server!vars
<1> QED
  BY <1>4, <1>5, <1>6, <1>7, <1>8, <1>9, <1>10, <1>11, <1>12, <1>15, <1>16, <1>17, <1>18,
     <1>19, <1>20, <1>21, <1>22, <1>23 DEF Server!Next

LEMMA ServerInit ==
    ASSUME Server!Init
    PROVE  ServerInv
<1>1. Server!Idle \in Handler /\ Server!Idle.pc = "idle" /\ ~Server!Idle.served
      /\ Server!Idle.charge = 0
  BY DEF Server!Idle, Handler, Endpoints, Amounts
<1>2. ServerTypes
  BY <1>1 DEF Server!Init, ServerTypes
<1> QED
  BY <1>1, <1>2 DEF Server!Init, ServerInv, ServerOK, Recorded

\* Tokens are created for deployments.
LEMMA TokensStep ==
    ASSUME tokens \subseteq Targets, [Server!Next]_(Server!vars)
    PROVE  tokens' \subseteq Targets
<1>1. ASSUME NEW d \in Targets, Server!Generate(d)
      PROVE  tokens' \subseteq Targets
  BY <1>1 DEF Server!Generate
<1>2. ASSUME NEW q \in Calls,
             \/ Server!Arrive(q) \/ Server!ExtractToken(q) \/ Server!ExtractAccount(q)
             \/ Server!ExtractState(q) \/ Server!Connect(q) \/ Server!Rules(q)
             \/ Server!ReadLimit(q) \/ Server!WriteLimit(q) \/ Server!NotSent(q)
             \/ Server!PostState(q) \/ Server!Leave(q)
      PROVE  tokens' = tokens
  BY <1>2 DEF Server!Arrive, Server!ExtractToken, Server!ExtractAccount, Server!ExtractState,
     Server!Connect, Server!Rules, Server!ReadLimit, Server!WriteLimit, Server!NotSent,
     Server!PostState, Server!Leave
<1>3. ASSUME NEW q \in Calls,
             \/ Server!ResolveAccount(q) \/ Server!ResolveToken(q) \/ Server!ResolveState(q)
             \/ Server!ResolveSocket(q)
      PROVE  tokens' = tokens
  BY <1>3 DEF Server!ResolveAccount, Server!ResolveToken, Server!ResolveState,
     Server!ResolveSocket, Server!Resolve
<1>4. ASSUME NEW q \in Calls, Server!SubqueryRaw(q) \/ Server!RpcqueryRaw(q)
      PROVE  tokens' = tokens
  BY <1>4 DEF Server!SubqueryRaw, Server!RpcqueryRaw, Server!Post
<1>5. ASSUME NEW d \in Targets, NEW p \in Projects \cup {None}, Server!Replace(d, p)
      PROVE  tokens' = tokens
  BY <1>5 DEF Server!Replace
<1>6. CASE Server!NextSecond
  BY <1>6 DEF Server!NextSecond
<1>7. CASE UNCHANGED Server!vars
  BY <1>7 DEF Server!vars
<1> QED
  BY <1>1, <1>2, <1>3, <1>4, <1>5, <1>6, <1>7 DEF Server!Next

\* The table, the handlers and the counts keep their types: a request is
\* counted once at most, whatever becomes of it.
THEOREM ServerTypeCorrect ==
    ASSUME Server!ServerAssumption
    PROVE  Server!Spec => []Server!TypeOK
<1> DEFINE Inv == ServerInv /\ tokens \subseteq Targets
<1>1. Server!Init => Inv
  BY ServerInit DEF Server!Init
<1>2. Inv /\ [Server!Next]_(Server!vars) => Inv'
  BY ServerStep, TokensStep
<1>3. ASSUME Inv
      PROVE  Server!TypeOK
  <2>1. Amounts \subseteq Nat
    BY UnitsNatural DEF Amounts
  <2>2. ASSUME NEW q \in Calls
        PROVE  /\ query[q] \in Handler /\ offered[q] \subseteq Projects \cup {None}
               /\ booked[q] \in {0, 1} /\ query[q].pc # "idle" => query[q].req \in Requests
    BY <1>3 DEF ServerInv, ServerTypes, Recorded
  <2>3. ASSUME NEW q \in Calls
        PROVE  query[q].units \in Nat /\ query[q].charge \in Nat
    BY <2>1, <2>2 DEF Handler
  <2> QED
    BY <1>3, <2>2, <2>3 DEF ServerInv, ServerTypes, Handler, Server!TypeOK
<1> QED
  BY <1>1, <1>2, <1>3, PTL DEF Server!Spec

\* An answer comes from an endpoint the request was shown, under rules the
\* project had meanwhile, is counted once and charged by those rules.
THEOREM ServerSafe ==
    ASSUME Server!ServerAssumption
    PROVE  Server!Spec => []AnsweredWasAdmitted
<1>1. Server!Init => ServerInv
  BY ServerInit
<1>2. ServerInv /\ [Server!Next]_(Server!vars) => ServerInv'
  BY ServerStep
<1>3. ServerInv => Server!AnsweredWasAdmitted
  BY DEF ServerInv, ServerOK, Shown, Ruled, Server!AnsweredWasAdmitted
<1> QED
  BY <1>1, <1>2, <1>3, PTL DEF Server!Spec, AnsweredWasAdmitted

=============================================================================
