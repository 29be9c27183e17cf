---------------------------- MODULE BarterProofs ----------------------------
(***************************************************************************)
(* Theorems about Barter for every mesh, every set of terms, every bound   *)
(* and every transport the constants describe.                             *)
(***************************************************************************)
EXTENDS Barter, TallyProofs

-----------------------------------------------------------------------------
\* A delivery is scored between nothing and all of Unit.
LEMMA RatioType ==
    ASSUME NEW e \in Resource, NEW d \in Resource
    PROVE  FulfillmentRatio(e, d) \in 0 .. Unit
<1>1. e.qty \in Nat /\ d.qty \in Nat /\ Unit \in Nat \ {0}
  BY WeightsAssumption DEF Resource
<1>2. ASSUME e.qty > 0, d.qty < e.qty
      PROVE  (d.qty * Unit) \div e.qty \in 0 .. Unit
  <2>1. d.qty * Unit \in Nat /\ d.qty * Unit <= e.qty * Unit
    BY <1>1, <1>2
  <2>2. (d.qty * Unit) \div e.qty \in Nat
    BY <1>1, <1>2, <2>1
  <2>3. (d.qty * Unit) \div e.qty <= Unit
    BY <1>1, <1>2, <2>1
  <2> QED
    BY <1>1, <2>2, <2>3
<1> QED
  BY <1>1, <1>2 DEF FulfillmentRatio

-----------------------------------------------------------------------------
(* Type correctness.                                                       *)

\* What Negotiator::sign builds in each handler is a message.
LEMMA BuiltMessage ==
    ASSUME NEW f \in Agent, NEW g \in Resource, NEW w \in Resource,
           NEW n \in Nonce, NEW t \in MessageType
    PROVE  [type |-> t, from |-> f, gives |-> g, wants |-> w, nonce |-> n]
                \in Message
BY DEF Message

\* Handing a message to an agent leaves it a set of messages.
LEMMA RestType ==
    ASSUME TypeOK, NEW a \in Agent, NEW m \in Message
    PROVE  Rest(a, m) \in SUBSET Message /\ Rest(a, m) \subseteq inbox[a]
BY DEF TypeOK, Rest

\* The blame of a sweep is a finite set of nonces.
LEMMA BrokenByType ==
    ASSUME NEW a \in Agent, NEW b \in Agent
    PROVE  /\ BrokenBy(a, b) \in SUBSET Nonce
           /\ Cardinality(BrokenBy(a, b)) \in Nat
<1>1. BrokenBy(a, b) \subseteq Nonce
  BY DEF BrokenBy, Expired
<1>2. IsFiniteSet(Nonce)
  BY FS_Interval, BarterAssumption DEF Nonce
<1>3. IsFiniteSet(BrokenBy(a, b))
  BY <1>1, <1>2, FS_Subset
<1> QED
  BY <1>1, <1>3, FS_CardinalityType

\* Agents start well typed.
LEMMA InitType == Init => TypeOK
BY BarterAssumption, WeightsAssumption DEF Init, TypeOK, Unseen, Record

\* An offer's nonce is fresh, its trade and its message typed.
LEMMA ProposeOfferType ==
    ASSUME TypeOK, NEW a \in Agent, ProposeOffer(a)
    PROVE  TypeOK'
<1> PICK t \in Terms :
        /\ issued < MaxNonce
        /\ issued' = issued + 1
        /\ proposed' = [proposed EXCEPT ![a][issued + 1] =
                [peer |-> Nobody, expect |-> t.wants, openedAt |-> cycle[a]]]
        /\ inbox' = [b \in Agent |->
                IF b = a THEN inbox[b]
                ELSE inbox[b] \cup
                     {[type |-> "Offer", from |-> a, gives |-> t.gives,
                       wants |-> t.wants, nonce |-> issued + 1]}]
        /\ UNCHANGED <<balance, accepted, pins, reputation, duties, cycle, history>>
  BY DEF ProposeOffer
<1>1. issued + 1 \in Nonce /\ issued' \in 0 .. MaxNonce
  BY BarterAssumption DEF TypeOK, Nonce
<1>2. t.gives \in Resource /\ t.wants \in Resource
  BY BarterAssumption
<1>3. proposed' \in [Agent -> [Nonce -> PendingTrade \cup {NoTrade}]]
  <2>1. [peer |-> Nobody, expect |-> t.wants, openedAt |-> cycle[a]]
            \in PendingTrade
    BY <1>2 DEF PendingTrade, TypeOK
  <2> QED
    BY <1>1, <2>1 DEF TypeOK
<1>4. inbox' \in [Agent -> SUBSET Message]
  <2>1. [type |-> "Offer", from |-> a, gives |-> t.gives,
         wants |-> t.wants, nonce |-> issued + 1] \in Message
    BY <1>1, <1>2, BuiltMessage DEF MessageType
  <2> QED
    BY <2>1 DEF TypeOK
<1> QED
  BY <1>1, <1>3, <1>4 DEF TypeOK, history

\* Accepting records a trade, a duty and an answer.
LEMMA AcceptOfferType ==
    ASSUME TypeOK, NEW a \in Agent, AcceptOffer(a)
    PROVE  TypeOK'
<1> PICK m \in inbox[a] :
        /\ Arrives(a, m, "Offer")
        /\ Verify(a, m)
        /\ accepted' = [accepted EXCEPT ![a][m.nonce] = PendingTradeOf(a, m)]
        /\ duties' = [duties EXCEPT ![a][m.nonce] =
                        [to |-> m.from, gives |-> m.wants]]
        /\ inbox' = [inbox EXCEPT ![a] = Rest(a, m),
                                  ![m.from] = @ \cup {AcceptOf(a, m)}]
        /\ UNCHANGED <<balance, proposed, reputation, cycle, issued, history>>
  BY DEF AcceptOffer
<1>1. m \in Message
  BY DEF TypeOK
<1>2. /\ m.from \in Agent /\ m.nonce \in Nonce
      /\ m.gives \in Resource /\ m.wants \in Resource
  BY <1>1 DEF Message
<1>3. accepted' \in [Agent -> [Nonce -> PendingTrade \cup {NoTrade}]]
  <2>1. PendingTradeOf(a, m) \in PendingTrade
    BY <1>2 DEF PendingTradeOf, PendingTrade, TypeOK
  <2> QED
    BY <1>2, <2>1 DEF TypeOK
<1>4. duties' \in [Agent -> [Nonce -> Duty \cup {NoDuty}]]
  BY <1>2 DEF TypeOK, Duty
<1>5. inbox' \in [Agent -> SUBSET Message]
  <2>1. AcceptOf(a, m) \in Message
    BY <1>2, BuiltMessage DEF AcceptOf, MessageType
  <2> QED
    BY <1>1, <1>2, <2>1, RestType DEF TypeOK
<1>6. pins' \in [Agent -> SUBSET Agent]
  BY <1>2 DEF TypeOK, Verify
<1> QED
  BY <1>3, <1>4, <1>5, <1>6 DEF TypeOK, history

\* The handlers that only take a message out of the inbox and pin its signer.
LEMMA DroppedType ==
    ASSUME TypeOK, NEW a \in Agent, NEW m \in inbox[a],
           Verify(a, m), Consume(a, m),
           UNCHANGED <<balance, accepted, proposed, reputation, duties, cycle,
                       issued, transit, outcomes, strikes>>,
           excused' \in {excused, excused \cup {m.nonce}}
    PROVE  TypeOK'
<1>1. m \in Message /\ m.from \in Agent /\ m.nonce \in Nonce
  BY DEF TypeOK, Message
<1>2. inbox' \in [Agent -> SUBSET Message]
  BY <1>1, RestType DEF TypeOK, Consume
<1>3. pins' \in [Agent -> SUBSET Agent]
  BY <1>1 DEF TypeOK, Verify
<1>4. excused' \in SUBSET Nonce
  BY <1>1 DEF TypeOK
<1> QED
  BY <1>2, <1>3, <1>4 DEF TypeOK

\* Binding names a peer and creates a duty.
LEMMA BindAcceptType ==
    ASSUME TypeOK, NEW a \in Agent, BindAccept(a)
    PROVE  TypeOK'
<1> PICK m \in inbox[a] :
        /\ Arrives(a, m, "Accept")
        /\ Bindable(a, m)
        /\ Verify(a, m)
        /\ proposed' = [proposed EXCEPT ![a][m.nonce].peer = m.from]
        /\ duties' = [duties EXCEPT ![a][m.nonce] =
                        [to |-> m.from, gives |-> m.gives]]
        /\ Consume(a, m)
        /\ UNCHANGED <<balance, accepted, reputation, cycle, issued, history>>
  BY DEF BindAccept
<1>1. m \in Message
  BY DEF TypeOK
<1>2. /\ m.from \in Agent /\ m.nonce \in Nonce
      /\ m.gives \in Resource
  BY <1>1 DEF Message
<1>3. proposed' \in [Agent -> [Nonce -> PendingTrade \cup {NoTrade}]]
  <2>1. proposed[a][m.nonce] \in PendingTrade
    BY <1>2 DEF TypeOK, Bindable
  <2>2. [proposed[a][m.nonce] EXCEPT !.peer = m.from] \in PendingTrade
    BY <1>2, <2>1 DEF PendingTrade
  <2> QED
    BY <1>2, <2>2 DEF TypeOK
<1>4. duties' \in [Agent -> [Nonce -> Duty \cup {NoDuty}]]
  BY <1>2 DEF TypeOK, Duty
<1>5. inbox' \in [Agent -> SUBSET Message]
  BY <1>1, RestType DEF TypeOK, Consume
<1>6. pins' \in [Agent -> SUBSET Agent]
  BY <1>2 DEF TypeOK, Verify
<1> QED
  BY <1>3, <1>4, <1>5, <1>6 DEF TypeOK, history

\* A delivery debits no more than there is.
LEMMA DeliverType ==
    ASSUME TypeOK, NEW a \in Agent, Deliver(a)
    PROVE  TypeOK'
<1> PICK n \in {k \in Nonce : duties[a][k] # NoDuty} :
    \E q \in 0 .. duties[a][n].gives.qty :
        LET duty == duties[a][n]
            paid == [kind |-> duty.gives.kind, qty |-> q]
            settle == [type |-> "Settle", from |-> a, gives |-> paid,
                       wants |-> [paid EXCEPT !.qty = 0], nonce |-> n]
        IN  /\ CanAfford(a, paid)
            /\ balance' = [balance EXCEPT ![a][paid.kind] = @ - q]
            /\ inbox' = [inbox EXCEPT ![duty.to] = @ \cup {settle}]
            /\ duties' = [duties EXCEPT ![a][n] = NoDuty]
            /\ transit' = transit \cup {ClaimOf(duty.to, settle)}
            /\ excused' = IF q < duty.gives.qty THEN excused \cup {n} ELSE excused
            /\ UNCHANGED <<accepted, proposed, pins, reputation, cycle, issued,
                           outcomes, strikes>>
  BY DEF Deliver
<1> PICK q \in 0 .. duties[a][n].gives.qty :
        LET duty == duties[a][n]
            paid == [kind |-> duty.gives.kind, qty |-> q]
            settle == [type |-> "Settle", from |-> a, gives |-> paid,
                       wants |-> [paid EXCEPT !.qty = 0], nonce |-> n]
        IN  /\ CanAfford(a, paid)
            /\ balance' = [balance EXCEPT ![a][paid.kind] = @ - q]
            /\ inbox' = [inbox EXCEPT ![duty.to] = @ \cup {settle}]
            /\ duties' = [duties EXCEPT ![a][n] = NoDuty]
            /\ transit' = transit \cup {ClaimOf(duty.to, settle)}
            /\ excused' = IF q < duty.gives.qty THEN excused \cup {n} ELSE excused
            /\ UNCHANGED <<accepted, proposed, pins, reputation, cycle, issued,
                           outcomes, strikes>>
  OBVIOUS
<1> DEFINE duty == duties[a][n]
           paid == [kind |-> duty.gives.kind, qty |-> q]
           settle == [type |-> "Settle", from |-> a, gives |-> paid,
                      wants |-> [paid EXCEPT !.qty = 0], nonce |-> n]
<1>1. duty \in Duty
  BY DEF TypeOK
<1>2. /\ duty.to \in Agent /\ duty.gives.kind \in Kind
      /\ duty.gives.qty \in Nat /\ q \in Nat
  BY <1>1 DEF Duty, Resource
<1>3. paid \in Resource /\ [paid EXCEPT !.qty = 0] \in Resource
  BY <1>2 DEF Resource
<1>4. settle \in Message
  BY <1>3, BuiltMessage DEF MessageType
<1>5. ClaimOf(duty.to, settle) \in Claim
  BY <1>2, <1>3 DEF ClaimOf, Claim
<1>6. balance' \in [Agent -> [Kind -> Nat]]
  <2>1. balance[a][paid.kind] - q \in Nat
    BY <1>2 DEF TypeOK, CanAfford
  <2> QED
    BY <1>2, <2>1 DEF TypeOK
<1>7. inbox' \in [Agent -> SUBSET Message]
  BY <1>2, <1>4 DEF TypeOK
<1>8. duties' \in [Agent -> [Nonce -> Duty \cup {NoDuty}]]
  BY DEF TypeOK
<1>9. transit' \in SUBSET Claim /\ excused' \in SUBSET Nonce
  BY <1>5 DEF TypeOK
<1> QED
  BY <1>6, <1>7, <1>8, <1>9 DEF TypeOK

\* A settlement credits a quantity and scores its sender.
LEMMA CreditSettleType ==
    ASSUME TypeOK, NEW a \in Agent, CreditSettle(a)
    PROVE  TypeOK'
<1> PICK m \in inbox[a] :
        /\ Creditable(a, m)
        /\ Verify(a, m)
        /\ accepted' = AcceptedAfter(a, m)
        /\ proposed' = ProposedAfter(a, m)
        /\ balance' = [balance EXCEPT ![a][m.gives.kind] = @ + m.gives.qty]
        /\ Score(a, m.from, m.nonce,
                 FulfillmentRatio(SettledTrade(a, m).expect, m.gives))
        /\ transit' = transit \ {ClaimOf(a, m)}
        /\ Consume(a, m)
        /\ UNCHANGED <<duties, cycle, issued, excused>>
  BY DEF CreditSettle
<1> DEFINE ratio == FulfillmentRatio(SettledTrade(a, m).expect, m.gives)
<1>1. m \in Message
  BY DEF TypeOK
<1>2. /\ m.from \in Agent /\ m.nonce \in Nonce
      /\ m.gives \in Resource
      /\ m.gives.kind \in Kind /\ m.gives.qty \in Nat
  BY <1>1 DEF Message, Resource
<1>3. ratio \in 0 .. Unit
  <2>1. SettledTrade(a, m) \in PendingTrade
    BY <1>2 DEF TypeOK, Creditable, SettledTrade
  <2>2. SettledTrade(a, m).expect \in Resource
    BY <2>1 DEF PendingTrade
  <2> QED
    BY <1>2, <2>2, RatioType
<1>4. accepted' \in [Agent -> [Nonce -> PendingTrade \cup {NoTrade}]]
  BY DEF TypeOK, AcceptedAfter
<1>5. proposed' \in [Agent -> [Nonce -> PendingTrade \cup {NoTrade}]]
  BY DEF TypeOK, ProposedAfter
<1>6. balance' \in [Agent -> [Kind -> Nat]]
  BY <1>2 DEF TypeOK
<1>7. reputation' \in [Agent -> [Agent -> Record]]
  <2>1. RecordOutcome(reputation[a][m.from], ratio, cycle[a]) \in Record
    BY <1>2, <1>3, OutcomeType DEF TypeOK
  <2> QED
    BY <1>2, <2>1 DEF TypeOK, Score
<1>8. /\ outcomes' \in [Agent -> [Nonce -> Nat]]
      /\ strikes' \in [Agent -> [Agent -> SUBSET Nonce]]
  BY <1>2 DEF TypeOK, Score
<1>9. inbox' \in [Agent -> SUBSET Message] /\ pins' \in [Agent -> SUBSET Agent]
  BY <1>1, <1>2, RestType DEF TypeOK, Consume, Verify
<1> QED
  BY <1>4, <1>5, <1>6, <1>7, <1>8, <1>9 DEF TypeOK

\* A sweep drops trades and scores their counterparties.
LEMMA SweepTimeoutsType ==
    ASSUME TypeOK, NEW a \in Agent, SweepTimeouts(a)
    PROVE  TypeOK'
<1>1. /\ accepted' \in [Agent -> [Nonce -> PendingTrade \cup {NoTrade}]]
      /\ proposed' \in [Agent -> [Nonce -> PendingTrade \cup {NoTrade}]]
  BY DEF TypeOK, SweepTimeouts, Without
<1>2. reputation' \in [Agent -> [Agent -> Record]]
  <2>1. ASSUME NEW b \in Agent
        PROVE  RecordBroken(reputation[a][b],
                            Cardinality(BrokenBy(a, b)), cycle[a]) \in Record
    BY BrokenByType, BrokenType DEF TypeOK
  <2> QED
    BY <2>1 DEF TypeOK, SweepTimeouts
<1>3. outcomes' \in [Agent -> [Nonce -> Nat]]
  BY DEF TypeOK, SweepTimeouts
<1>4. strikes' \in [Agent -> [Agent -> SUBSET Nonce]]
  BY BrokenByType DEF TypeOK, SweepTimeouts
<1> QED
  BY <1>1, <1>2, <1>3, <1>4 DEF TypeOK, SweepTimeouts

\* A cycle only counts.
LEMMA TickType ==
    ASSUME TypeOK, NEW a \in Agent, Tick(a)
    PROVE  TypeOK'
BY DEF TypeOK, Tick, negotiators

\* Every step keeps the types.
LEMMA NextType == TypeOK /\ [Next]_vars => TypeOK'
<1> SUFFICES ASSUME TypeOK, [Next]_vars
             PROVE  TypeOK'
  OBVIOUS
<1>1. ASSUME NEW a \in Agent, Step(a)
      PROVE  TypeOK'
  <2>1. CASE ProposeOffer(a)
    BY <2>1, ProposeOfferType
  <2>2. CASE AcceptOffer(a)
    BY <2>2, AcceptOfferType
  <2>3. CASE DeclineOffer(a)
    BY <2>3, DroppedType DEF DeclineOffer, history
  <2>4. CASE BindAccept(a)
    BY <2>4, BindAcceptType
  <2>5. CASE IgnoreAccept(a)
    BY <2>5, DroppedType DEF IgnoreAccept, history
  <2>6. CASE Deliver(a)
    BY <2>6, DeliverType
  <2>7. CASE CreditSettle(a)
    BY <2>7, CreditSettleType
  <2>8. CASE RejectSettle(a)
    BY <2>8, DroppedType DEF RejectSettle
  <2>9. CASE SweepTimeouts(a)
    BY <2>9, SweepTimeoutsType
  <2>10. CASE Tick(a)
    BY <2>10, TickType
  <2> QED
    BY <1>1, <2>1, <2>2, <2>3, <2>4, <2>5, <2>6, <2>7, <2>8, <2>9, <2>10
       DEF Step
<1>2. CASE UNCHANGED vars
  BY <1>2 DEF TypeOK, vars, negotiators, history
<1> QED
  BY <1>1, <1>2 DEF Next

\* Every reachable state is well typed: in particular no ledger, which
\* Ledger::debit could drive below zero, ever holds a negative balance.
THEOREM TypeCorrect == Spec => []TypeOK
BY InitType, NextType, PTL DEF Spec

-----------------------------------------------------------------------------
(* One outcome per trade.                                                  *)

\* No outcome is recorded before any trade.
LEMMA OutcomeInit == Init => OutcomeInv
BY DEF Init, OutcomeInv, OneOutcomePerTrade, Open, OfferWaiting

\* A step that opens nothing, scores nothing and puts no offer in an inbox.
LEMMA OutcomeQuiet ==
    ASSUME TypeOK, OutcomeInv,
           UNCHANGED <<issued, outcomes>>,
           \A b \in Agent, n \in Nonce :
               /\ accepted'[b][n] = NoTrade <=> accepted[b][n] = NoTrade
               /\ proposed'[b][n] = NoTrade <=> proposed[b][n] = NoTrade,
           \A b \in Agent : \A o \in inbox'[b] :
               o.type = "Offer" => o \in inbox[b]
    PROVE  OutcomeInv'
BY DEF OutcomeInv, OneOutcomePerTrade, Open, OfferWaiting

\* A fresh nonce has no outcome and is open nowhere.
LEMMA OutcomePropose ==
    ASSUME TypeOK, OutcomeInv, NEW a \in Agent, ProposeOffer(a)
    PROVE  OutcomeInv'
<1> PICK t \in Terms :
        /\ issued < MaxNonce
        /\ issued' = issued + 1
        /\ proposed' = [proposed EXCEPT ![a][issued + 1] =
                [peer |-> Nobody, expect |-> t.wants, openedAt |-> cycle[a]]]
        /\ inbox' = [b \in Agent |->
                IF b = a THEN inbox[b]
                ELSE inbox[b] \cup
                     {[type |-> "Offer", from |-> a, gives |-> t.gives,
                       wants |-> t.wants, nonce |-> issued + 1]}]
        /\ UNCHANGED <<balance, accepted, pins, reputation, duties, cycle, history>>
  BY DEF ProposeOffer
<1> DEFINE n0 == issued + 1
           offer == [type |-> "Offer", from |-> a, gives |-> t.gives,
                     wants |-> t.wants, nonce |-> n0]
<1>1. n0 \in Nonce /\ n0 > issued /\ issued \in Nat
  BY BarterAssumption DEF TypeOK, Nonce
<1>2. \A b \in Agent : outcomes[b][n0] = 0 /\ ~Open(b, n0) /\ ~OfferWaiting(b, n0)
  BY <1>1 DEF OutcomeInv
<1>3. \A b \in Agent : inbox'[b] \subseteq inbox[b] \cup {offer}
  BY DEF TypeOK
<1>4. inbox'[a] = inbox[a]
  BY DEF TypeOK
<1>5. \A b \in Agent, n \in Nonce :
        /\ outcomes'[b][n] = outcomes[b][n]
        /\ accepted'[b][n] = accepted[b][n]
        /\ proposed'[b][n] = proposed[b][n] \/ (b = a /\ n = n0)
  BY <1>1 DEF TypeOK, history
<1>6. \A b \in Agent, n \in Nonce :
        OfferWaiting(b, n)' => OfferWaiting(b, n) \/ (n = n0 /\ b # a)
  BY <1>3, <1>4 DEF OfferWaiting
<1>7. \A b \in Agent, n \in Nonce :
        Open(b, n)' => Open(b, n) \/ (b = a /\ n = n0)
  BY <1>5 DEF Open
<1>8. \A n \in Nonce : n > issued' => n > issued /\ n # n0
  BY <1>1 DEF Nonce
<1>9. \A b \in Agent : \A m, o \in inbox'[b] :
        m.type = "Offer" /\ o.type = "Offer" /\ m.nonce = o.nonce => m = o
  BY <1>2, <1>3 DEF OutcomeInv, OfferWaiting
<1>10. \A b \in Agent, n \in Nonce :
        accepted'[b][n] # NoTrade => proposed'[b][n] = NoTrade
  BY <1>2, <1>5 DEF OutcomeInv, Open
<1>11. OneOutcomePerTrade'
  BY <1>5 DEF OutcomeInv, OneOutcomePerTrade
<1>12. \A b \in Agent, n \in Nonce :
        /\ Open(b, n)' => outcomes'[b][n] = 0
        /\ OfferWaiting(b, n)' => outcomes'[b][n] = 0 /\ ~Open(b, n)'
        /\ n > issued' => /\ outcomes'[b][n] = 0
                          /\ ~Open(b, n)' /\ ~OfferWaiting(b, n)'
  BY <1>2, <1>5, <1>6, <1>7, <1>8 DEF OutcomeInv
<1> QED
  BY <1>9, <1>10, <1>11, <1>12 DEF OutcomeInv

\* An offer taken once leaves the inbox, so its nonce opens once.
LEMMA OutcomeAccept ==
    ASSUME TypeOK, OutcomeInv, "Offer" \notin Redelivered,
           NEW a \in Agent, AcceptOffer(a)
    PROVE  OutcomeInv'
<1> PICK m \in inbox[a] :
        /\ Arrives(a, m, "Offer")
        /\ accepted' = [accepted EXCEPT ![a][m.nonce] = PendingTradeOf(a, m)]
        /\ inbox' = [inbox EXCEPT ![a] = Rest(a, m),
                                  ![m.from] = @ \cup {AcceptOf(a, m)}]
        /\ UNCHANGED <<proposed, issued, history>>
  BY DEF AcceptOffer
<1>1. m \in Message /\ m.type = "Offer" /\ m.nonce \in Nonce /\ m.from \in Agent
  BY DEF TypeOK, Message, Arrives
<1>2. Rest(a, m) = inbox[a] \ {m}
  BY <1>1 DEF Rest
<1>3. \A b \in Agent : \A o \in inbox'[b] :
        o.type = "Offer" => o \in inbox[b] /\ (b = a => o # m)
  BY <1>1, <1>2 DEF TypeOK, AcceptOf
<1>4. /\ OfferWaiting(a, m.nonce)
      /\ outcomes[a][m.nonce] = 0
      /\ proposed[a][m.nonce] = NoTrade
      /\ ~(m.nonce > issued)
  BY <1>1 DEF OutcomeInv, OfferWaiting, Open
<1>5. ~OfferWaiting(a, m.nonce)'
  BY <1>1, <1>3 DEF OutcomeInv, OfferWaiting
<1>6. \A b \in Agent, n \in Nonce :
        /\ outcomes'[b][n] = outcomes[b][n]
        /\ proposed'[b][n] = proposed[b][n]
        /\ accepted'[b][n] = accepted[b][n] \/ (b = a /\ n = m.nonce)
        /\ OfferWaiting(b, n)' => OfferWaiting(b, n)
  BY <1>1, <1>3 DEF TypeOK, history, OfferWaiting
<1>7. issued' = issued
  OBVIOUS
<1>8. \A b \in Agent, n \in Nonce :
        Open(b, n)' => Open(b, n) \/ (b = a /\ n = m.nonce)
  BY <1>6 DEF Open
<1>9. \A b \in Agent : \A o, p \in inbox'[b] :
        o.type = "Offer" /\ p.type = "Offer" /\ o.nonce = p.nonce => o = p
  BY <1>3 DEF OutcomeInv
<1>10. \A b \in Agent, n \in Nonce :
        accepted'[b][n] # NoTrade => proposed'[b][n] = NoTrade
  BY <1>4, <1>6 DEF OutcomeInv
<1>11. OneOutcomePerTrade'
  BY <1>6 DEF OutcomeInv, OneOutcomePerTrade
<1>12. \A b \in Agent, n \in Nonce :
        /\ Open(b, n)' => outcomes'[b][n] = 0
        /\ OfferWaiting(b, n)' => outcomes'[b][n] = 0 /\ ~Open(b, n)'
        /\ n > issued' => /\ outcomes'[b][n] = 0
                          /\ ~Open(b, n)' /\ ~OfferWaiting(b, n)'
  BY <1>4, <1>5, <1>6, <1>7, <1>8 DEF OutcomeInv
<1> QED
  BY <1>9, <1>10, <1>11, <1>12 DEF OutcomeInv

\* Binding opens nothing and scores nothing.
LEMMA OutcomeBind ==
    ASSUME TypeOK, OutcomeInv, NEW a \in Agent, BindAccept(a)
    PROVE  OutcomeInv'
<1> PICK m \in inbox[a] :
        /\ Bindable(a, m)
        /\ proposed' = [proposed EXCEPT ![a][m.nonce].peer = m.from]
        /\ Consume(a, m)
        /\ UNCHANGED <<accepted, issued, history>>
  BY DEF BindAccept
<1>1. m \in Message /\ m.nonce \in Nonce /\ m.from \in Agent
  BY DEF TypeOK, Message
<1>2. proposed'[a][m.nonce] # NoTrade
  <2>1. proposed[a][m.nonce] \in PendingTrade
    BY <1>1 DEF TypeOK, Bindable
  <2>2. proposed'[a][m.nonce] = [proposed[a][m.nonce] EXCEPT !.peer = m.from]
    BY <1>1 DEF TypeOK
  <2>3. proposed'[a][m.nonce] \in PendingTrade
    BY <1>1, <2>1, <2>2 DEF PendingTrade
  <2> QED
    BY <2>3, NamesAssumption
<1>3. \A b \in Agent, n \in Nonce :
        /\ accepted'[b][n] = NoTrade <=> accepted[b][n] = NoTrade
        /\ proposed'[b][n] = NoTrade <=> proposed[b][n] = NoTrade
  BY <1>1, <1>2 DEF TypeOK, Bindable
<1>4. \A b \in Agent : inbox'[b] \subseteq inbox[b]
  BY <1>1, RestType DEF TypeOK, Consume
<1>5. UNCHANGED <<issued, outcomes>>
  BY DEF history
<1> QED
  BY <1>3, <1>4, <1>5, OutcomeQuiet

\* Messages set aside open nothing and score nothing.
LEMMA OutcomeDropped ==
    ASSUME TypeOK, OutcomeInv, NEW a \in Agent, NEW m \in inbox[a],
           Consume(a, m), UNCHANGED <<accepted, proposed, issued, outcomes>>
    PROVE  OutcomeInv'
<1>1. \A b \in Agent : inbox'[b] \subseteq inbox[b]
  BY RestType DEF TypeOK, Consume
<1> QED
  BY <1>1, OutcomeQuiet

\* A delivery opens nothing and scores nothing.
LEMMA OutcomeDeliver ==
    ASSUME TypeOK, OutcomeInv, NEW a \in Agent, Deliver(a)
    PROVE  OutcomeInv'
<1> PICK n \in Nonce : \E q \in 0 .. duties[a][n].gives.qty :
        LET duty == duties[a][n]
            paid == [kind |-> duty.gives.kind, qty |-> q]
            settle == [type |-> "Settle", from |-> a, gives |-> paid,
                       wants |-> [paid EXCEPT !.qty = 0], nonce |-> n]
        IN  /\ inbox' = [inbox EXCEPT ![duty.to] = @ \cup {settle}]
            /\ UNCHANGED <<accepted, proposed, issued, outcomes>>
  BY DEF Deliver
<1>1. \A b \in Agent : \A o \in inbox'[b] :
        o.type = "Offer" => o \in inbox[b]
  BY DEF TypeOK
<1> QED
  BY <1>1, OutcomeQuiet

\* A settlement closes the trade it scores.
LEMMA OutcomeCredit ==
    ASSUME TypeOK, OutcomeInv, NEW a \in Agent, CreditSettle(a)
    PROVE  OutcomeInv'
<1> PICK m \in inbox[a] :
        /\ Creditable(a, m)
        /\ accepted' = AcceptedAfter(a, m)
        /\ proposed' = ProposedAfter(a, m)
        /\ Score(a, m.from, m.nonce,
                 FulfillmentRatio(SettledTrade(a, m).expect, m.gives))
        /\ Consume(a, m)
        /\ UNCHANGED issued
  BY DEF CreditSettle
<1>1. m \in Message /\ m.nonce \in Nonce
  BY DEF TypeOK, Message
<1>2. /\ Open(a, m.nonce)
      /\ outcomes[a][m.nonce] = 0
      /\ ~OfferWaiting(a, m.nonce)
      /\ ~(m.nonce > issued)
  BY <1>1 DEF OutcomeInv, Open, Creditable, SettledTrade
<1>3. ~Open(a, m.nonce)'
  BY <1>1 DEF TypeOK, Open, AcceptedAfter, ProposedAfter, OutcomeInv
<1>4. \A b \in Agent, n \in Nonce :
        /\ accepted'[b][n] \in {accepted[b][n], NoTrade}
        /\ proposed'[b][n] \in {proposed[b][n], NoTrade}
  BY <1>1 DEF TypeOK, AcceptedAfter, ProposedAfter
<1>5. \A b \in Agent, n \in Nonce :
        outcomes'[b][n] = IF b = a /\ n = m.nonce THEN 1 ELSE outcomes[b][n]
  BY <1>1, <1>2 DEF TypeOK, Score
<1>6. \A b \in Agent : inbox'[b] \subseteq inbox[b]
  BY <1>1, RestType DEF TypeOK, Consume
<1>7. \A b \in Agent, n \in Nonce : OfferWaiting(b, n)' => OfferWaiting(b, n)
  BY <1>6 DEF OfferWaiting
<1>8. \A b \in Agent, n \in Nonce : Open(b, n)' => Open(b, n)
  BY <1>4 DEF Open
<1>9. \A b \in Agent : \A o, p \in inbox'[b] :
        o.type = "Offer" /\ p.type = "Offer" /\ o.nonce = p.nonce => o = p
  BY <1>6 DEF OutcomeInv
<1>10. \A b \in Agent, n \in Nonce :
        accepted'[b][n] # NoTrade => proposed'[b][n] = NoTrade
  BY <1>4 DEF OutcomeInv
<1>11. OneOutcomePerTrade'
  BY <1>5 DEF OutcomeInv, OneOutcomePerTrade
<1>12. \A b \in Agent, n \in Nonce :
        /\ Open(b, n)' => outcomes'[b][n] = 0
        /\ OfferWaiting(b, n)' => outcomes'[b][n] = 0 /\ ~Open(b, n)'
        /\ n > issued' => /\ outcomes'[b][n] = 0
                          /\ ~Open(b, n)' /\ ~OfferWaiting(b, n)'
  BY <1>2, <1>3, <1>5, <1>7, <1>8 DEF OutcomeInv
<1> QED
  BY <1>9, <1>10, <1>11, <1>12 DEF OutcomeInv

\* A sweep closes every trade it scores.
LEMMA OutcomeSweep ==
    ASSUME TypeOK, OutcomeInv, NEW a \in Agent, SweepTimeouts(a)
    PROVE  OutcomeInv'
<1>1. \A b \in Agent, n \in Nonce :
        /\ accepted'[b][n] \in {accepted[b][n], NoTrade}
        /\ proposed'[b][n] \in {proposed[b][n], NoTrade}
  BY DEF TypeOK, SweepTimeouts, Without
<1>2. \A b \in Agent, n \in Nonce :
        outcomes'[b][n] = IF b = a /\ \E c \in Agent : n \in BrokenBy(a, c)
                          THEN outcomes[b][n] + 1 ELSE outcomes[b][n]
  BY DEF TypeOK, SweepTimeouts
<1>3. \A c \in Agent, n \in Nonce :
        n \in BrokenBy(a, c) => Open(a, n) /\ ~Open(a, n)'
  <2> SUFFICES ASSUME NEW c \in Agent, NEW n \in Nonce, n \in BrokenBy(a, c)
               PROVE  Open(a, n) /\ ~Open(a, n)'
    OBVIOUS
  <2>1. n \in Expired(accepted, a) \/ n \in Expired(proposed, a)
    BY DEF BrokenBy
  <2>2. n \in Expired(accepted, a) => accepted[a][n] # NoTrade
    BY DEF Expired
  <2>3. n \in Expired(proposed, a) => proposed[a][n] # NoTrade
    BY DEF Expired
  <2>4. accepted'[a][n] = NoTrade
    BY <2>1, <2>3, <1>1 DEF TypeOK, SweepTimeouts, Without, OutcomeInv
  <2>5. proposed'[a][n] = NoTrade
    BY <2>1, <2>2, <1>1 DEF TypeOK, SweepTimeouts, Without, OutcomeInv
  <2> QED
    BY <2>1, <2>2, <2>3, <2>4, <2>5 DEF Open
<1>4. UNCHANGED <<inbox, issued>>
  BY DEF SweepTimeouts
<1>5. \A b \in Agent, n \in Nonce :
        /\ OfferWaiting(b, n)' <=> OfferWaiting(b, n)
        /\ Open(b, n)' => Open(b, n)
  BY <1>1, <1>4 DEF OfferWaiting, Open
<1>6. \A b \in Agent, n \in Nonce :
        \/ outcomes'[b][n] = outcomes[b][n]
        \/ Open(b, n) /\ ~Open(b, n)' /\ outcomes'[b][n] = 1
  BY <1>2, <1>3 DEF OutcomeInv
<1>7. \A b \in Agent : \A o, p \in inbox'[b] :
        o.type = "Offer" /\ p.type = "Offer" /\ o.nonce = p.nonce => o = p
  BY <1>4 DEF OutcomeInv
<1>8. \A b \in Agent, n \in Nonce :
        accepted'[b][n] # NoTrade => proposed'[b][n] = NoTrade
  BY <1>1 DEF OutcomeInv
<1>9. OneOutcomePerTrade'
  BY <1>6 DEF OutcomeInv, OneOutcomePerTrade
<1>10. \A b \in Agent, n \in Nonce :
        /\ Open(b, n)' => outcomes'[b][n] = 0
        /\ OfferWaiting(b, n)' => outcomes'[b][n] = 0 /\ ~Open(b, n)'
        /\ n > issued' => /\ outcomes'[b][n] = 0
                          /\ ~Open(b, n)' /\ ~OfferWaiting(b, n)'
  BY <1>4, <1>5, <1>6 DEF OutcomeInv
<1> QED
  BY <1>7, <1>8, <1>9, <1>10 DEF OutcomeInv

\* Every step keeps the strengthened invariant.
LEMMA OutcomeNext ==
    "Offer" \notin Redelivered /\ TypeOK /\ OutcomeInv /\ [Next]_vars
        => OutcomeInv'
<1> SUFFICES ASSUME "Offer" \notin Redelivered, TypeOK, OutcomeInv, [Next]_vars
             PROVE  OutcomeInv'
  OBVIOUS
<1>1. ASSUME NEW a \in Agent, Step(a)
      PROVE  OutcomeInv'
  <2>1. CASE ProposeOffer(a)
    BY <2>1, OutcomePropose
  <2>2. CASE AcceptOffer(a)
    BY <2>2, OutcomeAccept
  <2>3. CASE DeclineOffer(a)
    BY <2>3, OutcomeDropped DEF DeclineOffer, history
  <2>4. CASE BindAccept(a)
    BY <2>4, OutcomeBind
  <2>5. CASE IgnoreAccept(a)
    BY <2>5, OutcomeDropped DEF IgnoreAccept, history
  <2>6. CASE Deliver(a)
    BY <2>6, OutcomeDeliver
  <2>7. CASE CreditSettle(a)
    BY <2>7, OutcomeCredit
  <2>8. CASE RejectSettle(a)
    BY <2>8, OutcomeDropped DEF RejectSettle
  <2>9. CASE SweepTimeouts(a)
    BY <2>9, OutcomeSweep
  <2>10. CASE Tick(a)
    BY <2>10, OutcomeQuiet DEF Tick, negotiators
  <2> QED
    BY <1>1, <2>1, <2>2, <2>3, <2>4, <2>5, <2>6, <2>7, <2>8, <2>9, <2>10
       DEF Step
<1>2. CASE UNCHANGED vars
  BY <1>2, OutcomeQuiet DEF vars, negotiators, history
<1> QED
  BY <1>1, <1>2 DEF Next

\* If the transport never delivers an Offer twice to one agent, every agent
\* scores every nonce at most once, in every mesh and whatever else is lost,
\* delayed, repeated or paid short.  The premise is needed: BarterReplay shows
\* what a repeated Offer does.
THEOREM OneOutcome ==
    "Offer" \notin Redelivered => (Spec => []OneOutcomePerTrade)
<1> SUFFICES ASSUME "Offer" \notin Redelivered
             PROVE  Spec => []OneOutcomePerTrade
  OBVIOUS
<1>1. TypeOK /\ OutcomeInv /\ [Next]_vars => OutcomeInv'
  BY OutcomeNext
<1>2. OutcomeInv => OneOutcomePerTrade
  BY DEF OutcomeInv
<1> QED
  BY <1>1, <1>2, TypeCorrect, OutcomeInit, PTL DEF Spec

-----------------------------------------------------------------------------
(* A trade ages.                                                           *)

\* The cycle an open trade is reckoned from.
OpenedAt(a, n) ==
    IF accepted[a][n] # NoTrade THEN accepted[a][n].openedAt
                                ELSE proposed[a][n].openedAt

\* What a step may do to a trade in the books of a.
ClockKept(a, n) ==
    Open(a, n) =>
        /\ accepted'[a][n] \in {accepted[a][n], NoTrade}
        /\ \/ proposed'[a][n] = NoTrade
           \/ /\ proposed[a][n] # NoTrade
              /\ proposed'[a][n].openedAt = proposed[a][n].openedAt

\* A step that opens nothing and binds nothing keeps every clock.
LEMMA ClockQuiet ==
    ASSUME NEW b \in Agent, NEW n \in Nonce,
           accepted'[b][n] \in {accepted[b][n], NoTrade},
           proposed'[b][n] \in {proposed[b][n], NoTrade}
    PROVE  ClockKept(b, n)
BY DEF ClockKept

\* An offer is opened under a nonce that is open nowhere.
LEMMA ClockPropose ==
    ASSUME TypeOK, OutcomeInv, NEW a \in Agent, ProposeOffer(a),
           NEW b \in Agent, NEW n \in Nonce
    PROVE  ClockKept(b, n)
<1>1. issued + 1 \in Nonce /\ issued + 1 > issued
  BY BarterAssumption DEF TypeOK, ProposeOffer, Nonce
<1>2. ~Open(b, issued + 1)
  BY <1>1 DEF OutcomeInv
<1>3. CASE n = issued + 1
  BY <1>2, <1>3 DEF ClockKept
<1>4. CASE n # issued + 1
  <2>1. accepted' = accepted /\ proposed'[b][n] = proposed[b][n]
    BY <1>4 DEF TypeOK, ProposeOffer
  <2> QED
    BY <2>1, ClockQuiet
<1> QED
  BY <1>3, <1>4

\* An offer is accepted before its nonce is open.
LEMMA ClockAccept ==
    ASSUME TypeOK, OutcomeInv, NEW a \in Agent, AcceptOffer(a),
           NEW b \in Agent, NEW n \in Nonce
    PROVE  ClockKept(b, n)
<1> PICK m \in inbox[a] :
        /\ Arrives(a, m, "Offer")
        /\ accepted' = [accepted EXCEPT ![a][m.nonce] = PendingTradeOf(a, m)]
        /\ UNCHANGED proposed
  BY DEF AcceptOffer
<1>1. m \in Message /\ m.type = "Offer" /\ m.nonce \in Nonce
  BY DEF TypeOK, Message, Arrives
<1>2. ~Open(a, m.nonce)
  BY <1>1 DEF OutcomeInv, OfferWaiting
<1>3. CASE b = a /\ n = m.nonce
  BY <1>2, <1>3 DEF ClockKept
<1>4. CASE ~(b = a /\ n = m.nonce)
  <2>1. accepted'[b][n] = accepted[b][n]
    BY <1>4 DEF TypeOK
  <2> QED
    BY <2>1, ClockQuiet
<1> QED
  BY <1>3, <1>4

\* Binding an accepter does not start the clock again.
LEMMA ClockBind ==
    ASSUME TypeOK, NEW a \in Agent, BindAccept(a),
           NEW b \in Agent, NEW n \in Nonce
    PROVE  ClockKept(b, n)
<1> PICK m \in inbox[a] :
        /\ Bindable(a, m)
        /\ proposed' = [proposed EXCEPT ![a][m.nonce].peer = m.from]
        /\ UNCHANGED accepted
  BY DEF BindAccept
<1>1. m \in Message /\ m.nonce \in Nonce /\ m.from \in Agent
  BY DEF TypeOK, Message
<1>2. CASE b = a /\ n = m.nonce
  <2>1. proposed[a][n] \in PendingTrade /\ proposed[a][n] # NoTrade
    BY <1>2 DEF TypeOK, Bindable
  <2>2. proposed'[a][n] = [proposed[a][n] EXCEPT !.peer = m.from]
    BY <1>1, <1>2 DEF TypeOK
  <2>3. proposed'[a][n].openedAt = proposed[a][n].openedAt
    BY <2>1, <2>2 DEF PendingTrade
  <2> QED
    BY <1>2, <2>1, <2>3 DEF ClockKept
<1>3. CASE ~(b = a /\ n = m.nonce)
  <2>1. proposed'[b][n] = proposed[b][n]
    BY <1>1, <1>3 DEF TypeOK
  <2> QED
    BY <2>1, ClockQuiet
<1> QED
  BY <1>2, <1>3

\* No step starts a clock again.
LEMMA ClockNext ==
    ASSUME TypeOK, OutcomeInv, [Next]_vars, NEW b \in Agent, NEW n \in Nonce
    PROVE  ClockKept(b, n)
<1>1. ASSUME NEW a \in Agent, Step(a)
      PROVE  ClockKept(b, n)
  <2>1. CASE ProposeOffer(a)
    BY <2>1, ClockPropose
  <2>2. CASE AcceptOffer(a)
    BY <2>2, ClockAccept
  <2>3. CASE BindAccept(a)
    BY <2>3, ClockBind
  <2>4. CASE CreditSettle(a)
    <3>1. PICK m \in inbox[a] :
            accepted' = AcceptedAfter(a, m) /\ proposed' = ProposedAfter(a, m)
      BY <2>4 DEF CreditSettle
    <3>2. /\ accepted'[b][n] \in {accepted[b][n], NoTrade}
          /\ proposed'[b][n] \in {proposed[b][n], NoTrade}
      BY <3>1 DEF TypeOK, AcceptedAfter, ProposedAfter
    <3> QED
      BY <3>2, ClockQuiet
  <2>5. CASE SweepTimeouts(a)
    <3>1. /\ accepted'[b][n] \in {accepted[b][n], NoTrade}
          /\ proposed'[b][n] \in {proposed[b][n], NoTrade}
      BY <2>5 DEF TypeOK, SweepTimeouts, Without
    <3> QED
      BY <3>1, ClockQuiet
  <2>6. CASE UNCHANGED <<accepted, proposed>>
    BY <2>6, ClockQuiet
  <2> QED
    BY <1>1, <2>1, <2>2, <2>3, <2>4, <2>5, <2>6
       DEF Step, DeclineOffer, IgnoreAccept, Deliver, RejectSettle, Tick, negotiators
<1>2. CASE UNCHANGED vars
  BY <1>2, ClockQuiet DEF vars, negotiators
<1> QED
  BY <1>1, <1>2 DEF Next

\* No caller counts its cycles backwards.
LEMMA CyclesForward ==
    ASSUME TypeOK, [Next]_vars, NEW b \in Agent
    PROVE  cycle'[b] >= cycle[b]
<1>1. cycle[b] \in Nat
  BY DEF TypeOK
<1>2. ASSUME NEW a \in Agent, Tick(a)
      PROVE  cycle'[b] \in {cycle[b], cycle[b] + 1}
  BY <1>2 DEF TypeOK, Tick
<1>3. ASSUME NEW a \in Agent, Step(a), ~Tick(a)
      PROVE  cycle' = cycle
  <2>1. CASE ProposeOffer(a) \/ AcceptOffer(a) \/ DeclineOffer(a)
    BY <2>1 DEF ProposeOffer, AcceptOffer, DeclineOffer
  <2>2. CASE BindAccept(a) \/ IgnoreAccept(a) \/ Deliver(a)
    BY <2>2 DEF BindAccept, IgnoreAccept, Deliver
  <2>3. CASE CreditSettle(a) \/ RejectSettle(a) \/ SweepTimeouts(a)
    BY <2>3 DEF CreditSettle, RejectSettle, SweepTimeouts
  <2> QED
    BY <1>3, <2>1, <2>2, <2>3 DEF Step
<1>4. cycle'[b] \in {cycle[b], cycle[b] + 1}
  BY <1>2, <1>3 DEF Next, vars
<1> QED
  BY <1>1, <1>4

\* What is left open by a sweep has not timed out.
LEMMA SweepLeaves ==
    ASSUME TypeOK, OutcomeInv, NEW a \in Agent, NEW n \in Nonce,
           SweepTimeouts(a), Open(a, n)'
    PROVE  Elapsed(cycle[a], OpenedAt(a, n)) < Timeout
<1>1. cycle[a] \in Nat /\ Timeout \in Nat
  BY BarterAssumption DEF TypeOK
<1>2. /\ accepted'[a][n] = IF n \in Expired(accepted, a) THEN NoTrade ELSE accepted[a][n]
      /\ proposed'[a][n] = IF n \in Expired(proposed, a) THEN NoTrade ELSE proposed[a][n]
  BY DEF TypeOK, SweepTimeouts, Without
<1>3. ASSUME NEW trade \in PendingTrade, ~(Elapsed(cycle[a], trade.openedAt) >= Timeout)
      PROVE  Elapsed(cycle[a], trade.openedAt) < Timeout
  <2>1. trade.openedAt \in Nat
    BY DEF PendingTrade
  <2>2. Elapsed(cycle[a], trade.openedAt) \in Nat
    BY <1>1, <2>1 DEF Elapsed
  <2> QED
    BY <1>1, <1>3, <2>2
<1>4. CASE accepted[a][n] # NoTrade
  <2>1. proposed'[a][n] = NoTrade
    BY <1>2, <1>4 DEF OutcomeInv
  <2>2. n \notin Expired(accepted, a)
    BY <1>2, <2>1 DEF Open
  <2>3. accepted[a][n] \in PendingTrade
    BY <1>4 DEF TypeOK
  <2>4. ~(Elapsed(cycle[a], accepted[a][n].openedAt) >= Timeout)
    BY <1>4, <2>2 DEF Expired
  <2>5. OpenedAt(a, n) = accepted[a][n].openedAt
    BY <1>4 DEF OpenedAt
  <2> QED
    BY <1>3, <2>3, <2>4, <2>5
<1>5. CASE accepted[a][n] = NoTrade
  <2>1. n \notin Expired(proposed, a) /\ proposed[a][n] # NoTrade
    BY <1>2, <1>5 DEF Open
  <2>2. proposed[a][n] \in PendingTrade
    BY <2>1 DEF TypeOK
  <2>3. ~(Elapsed(cycle[a], proposed[a][n].openedAt) >= Timeout)
    BY <2>1 DEF Expired
  <2>4. OpenedAt(a, n) = proposed[a][n].openedAt
    BY <1>5 DEF OpenedAt
  <2> QED
    BY <1>3, <2>2, <2>3, <2>4
<1> QED
  BY <1>4, <1>5

\* A trade that a step leaves open is the one that was open, with its clock as
\* it was; and a sweep leaves none open that has reached its timeout.
Ages(a, n) ==
    /\ OpenedAt(a, n)' = OpenedAt(a, n)
    /\ cycle'[a] >= cycle[a]
    /\ SweepTimeouts(a) => Elapsed(cycle[a], OpenedAt(a, n)) < Timeout

\* So does every trade that stays open.
LEMMA TradeAges ==
    ASSUME TypeOK, OutcomeInv, [Next]_vars,
           NEW a \in Agent, NEW n \in Nonce, Open(a, n), Open(a, n)'
    PROVE  Ages(a, n)
<1>1. ClockKept(a, n) /\ cycle'[a] >= cycle[a]
  BY ClockNext, CyclesForward
<1>2. OpenedAt(a, n)' = OpenedAt(a, n)
  <2>1. CASE accepted[a][n] # NoTrade
    <3>1. proposed[a][n] = NoTrade
      BY <2>1 DEF OutcomeInv
    <3>2. accepted'[a][n] = accepted[a][n]
      BY <1>1, <3>1 DEF ClockKept, Open
    <3> QED
      BY <2>1, <3>2 DEF OpenedAt
  <2>2. CASE accepted[a][n] = NoTrade
    <3>1. accepted'[a][n] = NoTrade
      BY <1>1, <2>2 DEF ClockKept
    <3>2. proposed'[a][n].openedAt = proposed[a][n].openedAt
      BY <1>1, <3>1 DEF ClockKept, Open
    <3> QED
      BY <2>2, <3>1, <3>2 DEF OpenedAt
  <2> QED
    BY <2>1, <2>2
<1>3. SweepTimeouts(a) => Elapsed(cycle[a], OpenedAt(a, n)) < Timeout
  BY SweepLeaves
<1> QED
  BY <1>1, <1>2, <1>3 DEF Ages

\* Nothing a peer sends keeps a trade open beyond its timeout: no step starts its
\* clock again, cycles only go forward, and the first sweep at the timeout or
\* after it closes the trade.
THEOREM TradesAge ==
    "Offer" \notin Redelivered =>
        (Spec => [][\A a \in Agent, n \in Nonce :
                       Open(a, n) /\ Open(a, n)' => Ages(a, n)]_vars)
<1> SUFFICES ASSUME "Offer" \notin Redelivered
             PROVE  Spec => [][\A a \in Agent, n \in Nonce :
                                  Open(a, n) /\ Open(a, n)' => Ages(a, n)]_vars
  OBVIOUS
<1>1. TypeOK /\ OutcomeInv /\ [Next]_vars => OutcomeInv'
  BY OutcomeNext
<1>2. TypeOK /\ OutcomeInv /\ [Next]_vars =>
        [\A a \in Agent, n \in Nonce : Open(a, n) /\ Open(a, n)' => Ages(a, n)]_vars
  BY TradeAges
<1> QED
  BY <1>1, <1>2, TypeCorrect, OutcomeInit, PTL DEF Spec

-----------------------------------------------------------------------------
(* Two strikes.                                                            *)

\* Any set of nonces is finite.
LEMMA NoncesFinite ==
    ASSUME NEW S \in SUBSET Nonce
    PROVE  IsFiniteSet(S) /\ Cardinality(S) \in Nat
<1>1. IsFiniteSet(Nonce)
  BY FS_Interval, BarterAssumption DEF Nonce
<1>2. IsFiniteSet(S)
  BY <1>1, FS_Subset
<1> QED
  BY <1>2, FS_CardinalityType

\* The failures held against a peer weigh no more than the trades it fell short
\* at, and each of those has had its outcome, so it cannot be struck again.
StrikesInv ==
    \A a, b \in Agent :
        /\ WithinDings(reputation[a][b], Cardinality(strikes[a][b]))
        /\ \A n \in strikes[a][b] : outcomes[a][n] # 0

\* Nobody is struck at the start.
LEMMA StrikesInit == Init => StrikesInv
BY FS_EmptySet, WeightsAssumption DEF Init, StrikesInv, WithinDings, Unseen

\* A step that records no outcome.
LEMMA StrikesQuiet ==
    ASSUME StrikesInv, UNCHANGED <<reputation, outcomes, strikes>>
    PROVE  StrikesInv'
BY DEF StrikesInv, WithinDings

\* A settlement is the first outcome of its trade: what it weighs is new.
LEMMA StrikesCredit ==
    ASSUME TypeOK, OutcomeInv, StrikesInv, NEW a \in Agent, CreditSettle(a)
    PROVE  StrikesInv'
<1> PICK m \in inbox[a] :
        /\ Creditable(a, m)
        /\ Score(a, m.from, m.nonce,
                 FulfillmentRatio(SettledTrade(a, m).expect, m.gives))
  BY DEF CreditSettle
<1> DEFINE b == m.from
           n == m.nonce
           old == strikes[a][b]
           ratio == FulfillmentRatio(SettledTrade(a, m).expect, m.gives)
<1>1. b \in Agent /\ n \in Nonce /\ m.gives \in Resource
  BY DEF TypeOK, Message
<1>2. ratio \in 0 .. Unit
  <2>1. SettledTrade(a, m).expect \in Resource
    BY <1>1 DEF TypeOK, Creditable, SettledTrade, PendingTrade
  <2> QED
    BY <1>1, <2>1, RatioType
<1>3. outcomes[a][n] = 0 /\ n \notin old
  BY <1>1 DEF OutcomeInv, Open, Creditable, SettledTrade, StrikesInv
<1>4. /\ old \in SUBSET Nonce
      /\ Cardinality(old) \in Nat
      /\ Cardinality(old \cup {n}) = Cardinality(old) + 1
  <2>1. old \in SUBSET Nonce
    BY <1>1 DEF TypeOK
  <2>2. IsFiniteSet(old) /\ Cardinality(old) \in Nat
    BY <2>1, NoncesFinite
  <2> QED
    BY <1>3, <2>1, <2>2, FS_AddElement
<1>5. strikes'[a][b] = IF ratio < Unit THEN old \cup {n} ELSE old
  BY <1>1 DEF Score, TypeOK
<1>6. WithinDings(reputation'[a][b], Cardinality(strikes'[a][b]))
  <2>1. reputation'[a][b] = RecordOutcome(reputation[a][b], ratio, cycle[a])
    BY <1>1 DEF Score, TypeOK
  <2>2. /\ reputation[a][b] \in Record /\ cycle[a] \in Nat
        /\ WithinDings(reputation[a][b], Cardinality(old))
    BY <1>1 DEF TypeOK, StrikesInv
  <2>3. CASE ratio < Unit
    BY <1>2, <1>4, <1>5, <2>1, <2>2, <2>3, OutcomeWithinDings
  <2>4. CASE ratio = Unit
    BY <1>2, <1>4, <1>5, <2>1, <2>2, <2>4, WeightsAssumption, OutcomeWithinDings
  <2> QED
    BY <1>2, <2>3, <2>4, WeightsAssumption
<1>7. \A c, d \in Agent : c # a \/ d # b =>
        reputation'[c][d] = reputation[c][d] /\ strikes'[c][d] = strikes[c][d]
  BY <1>1 DEF Score, TypeOK
<1>8. \A c \in Agent, k \in Nonce :
        outcomes'[c][k] = IF c = a /\ k = n THEN 1 ELSE outcomes[c][k]
  BY <1>1, <1>3 DEF Score, TypeOK
<1>9. \A c, d \in Agent : \A k \in strikes'[c][d] : outcomes'[c][k] # 0
  <2> SUFFICES ASSUME NEW c \in Agent, NEW d \in Agent, NEW k \in strikes'[c][d]
               PROVE  outcomes'[c][k] # 0
    OBVIOUS
  <2>1. CASE c = a /\ k = n
    BY <1>1, <1>8, <2>1
  <2>2. CASE ~(c = a /\ k = n)
    <3>1. k \in strikes[c][d]
      BY <1>5, <1>7, <2>2
    <3>2. k \in Nonce
      BY <3>1 DEF TypeOK
    <3> QED
      BY <1>8, <2>2, <3>1, <3>2 DEF StrikesInv
  <2> QED
    BY <2>1, <2>2
<1>10. \A c, d \in Agent :
        WithinDings(reputation'[c][d], Cardinality(strikes'[c][d]))
  BY <1>6, <1>7 DEF StrikesInv
<1> QED
  BY <1>9, <1>10 DEF StrikesInv, WithinDings

\* So is every broken trade of a sweep.
LEMMA StrikesSweep ==
    ASSUME TypeOK, OutcomeInv, StrikesInv, NEW a \in Agent, SweepTimeouts(a)
    PROVE  StrikesInv'
<1>1. ASSUME NEW b \in Agent
      PROVE  /\ BrokenBy(a, b) \in SUBSET Nonce
             /\ \A n \in BrokenBy(a, b) : outcomes[a][n] = 0
             /\ BrokenBy(a, b) \cap strikes[a][b] = {}
  <2>1. BrokenBy(a, b) \in SUBSET Nonce
    BY BrokenByType
  <2>2. \A n \in BrokenBy(a, b) : Open(a, n)
    BY DEF BrokenBy, Expired, Open
  <2> QED
    BY <2>1, <2>2 DEF OutcomeInv, StrikesInv
<1>2. ASSUME NEW b \in Agent
      PROVE  WithinDings(reputation'[a][b], Cardinality(strikes'[a][b]))
  <2> DEFINE broken == BrokenBy(a, b)
             old == strikes[a][b]
  <2>1. strikes'[a][b] = old \cup broken
    BY DEF SweepTimeouts, TypeOK
  <2>2. /\ IsFiniteSet(old) /\ Cardinality(old) \in Nat
        /\ IsFiniteSet(broken) /\ Cardinality(broken) \in Nat
    BY <1>1, NoncesFinite DEF TypeOK
  <2>3. Cardinality(old \cup broken) = Cardinality(old) + Cardinality(broken)
    <3>1. old \cap broken = {}
      BY <1>1
    <3>2. Cardinality(old \cup broken)
            = Cardinality(old) + Cardinality(broken) - Cardinality({})
      BY <2>2, <3>1, FS_Union
    <3> HIDE DEF broken, old
    <3> QED
      BY <2>2, <3>2, FS_EmptySet
  <2>4. /\ reputation[a][b] \in Record /\ cycle[a] \in Nat
        /\ WithinDings(reputation[a][b], Cardinality(old))
    BY DEF TypeOK, StrikesInv
  <2>5. CASE broken = {}
    <3>1. reputation'[a][b] = reputation[a][b] /\ strikes'[a][b] = old
      BY <2>1, <2>5 DEF SweepTimeouts, TypeOK
    <3> QED
      BY <2>4, <3>1
  <2>6. CASE broken # {}
    <3>1. reputation'[a][b]
            = RecordBroken(reputation[a][b], Cardinality(broken), cycle[a])
      BY <2>6 DEF SweepTimeouts, TypeOK
    <3>2. WithinDings(RecordBroken(reputation[a][b], Cardinality(broken), cycle[a]),
                      Cardinality(old) + Cardinality(broken))
      BY <2>2, <2>4, BrokenWithinDings
    <3> QED
      BY <2>1, <2>3, <3>1, <3>2
  <2> QED
    BY <2>5, <2>6
<1>3. \A c, d \in Agent : c # a =>
        reputation'[c][d] = reputation[c][d] /\ strikes'[c][d] = strikes[c][d]
  BY DEF SweepTimeouts, TypeOK
<1>4. \A c \in Agent, n \in Nonce :
        outcomes'[c][n] = IF c = a /\ \E d \in Agent : n \in BrokenBy(a, d)
                          THEN outcomes[c][n] + 1 ELSE outcomes[c][n]
  BY DEF TypeOK, SweepTimeouts
<1>5. \A c, d \in Agent : \A n \in strikes'[c][d] : outcomes'[c][n] # 0
  <2> SUFFICES ASSUME NEW c \in Agent, NEW d \in Agent, NEW n \in strikes'[c][d]
               PROVE  outcomes'[c][n] # 0
    OBVIOUS
  <2>1. n \in strikes[c][d] \/ (c = a /\ n \in BrokenBy(a, d))
    BY <1>3 DEF SweepTimeouts, TypeOK
  <2>2. n \in Nonce
    BY <1>1, <2>1 DEF TypeOK
  <2>3. outcomes[c][n] \in Nat
    BY <2>2 DEF TypeOK
  <2>4. n \in strikes[c][d] => outcomes[c][n] # 0
    BY DEF StrikesInv
  <2> QED
    BY <1>4, <2>1, <2>2, <2>3, <2>4
<1>6. \A c, d \in Agent :
        WithinDings(reputation'[c][d], Cardinality(strikes'[c][d]))
  BY <1>2, <1>3 DEF StrikesInv
<1> QED
  BY <1>5, <1>6 DEF StrikesInv, WithinDings

\* Every step keeps every weight covered.
LEMMA StrikesNext ==
    TypeOK /\ OutcomeInv /\ StrikesInv /\ [Next]_vars => StrikesInv'
<1> SUFFICES ASSUME TypeOK, OutcomeInv, StrikesInv, [Next]_vars
             PROVE  StrikesInv'
  OBVIOUS
<1>1. ASSUME NEW a \in Agent, Step(a)
      PROVE  StrikesInv'
  <2>1. CASE CreditSettle(a)
    BY <2>1, StrikesCredit
  <2>2. CASE SweepTimeouts(a)
    BY <2>2, StrikesSweep
  <2>3. CASE UNCHANGED <<reputation, outcomes, strikes>>
    BY <2>3, StrikesQuiet
  <2> QED
    BY <1>1, <2>1, <2>2, <2>3
       DEF Step, ProposeOffer, AcceptOffer, DeclineOffer, BindAccept,
           IgnoreAccept, Deliver, RejectSettle, Tick, negotiators, history
<1>2. CASE UNCHANGED vars
  BY <1>2, StrikesQuiet DEF vars, negotiators, history
<1> QED
  BY <1>1, <1>2 DEF Next

\* With Offers delivered once, nobody is blacklisted for a single trade, for
\* every half-life, every threshold above one Unit and every way of delivering
\* short, late or never.
THEOREM BlacklistedForTwo ==
    "Offer" \notin Redelivered => (Spec => []TwoStrikes)
<1> SUFFICES ASSUME "Offer" \notin Redelivered
             PROVE  Spec => []TwoStrikes
  OBVIOUS
<1>1. TypeOK /\ OutcomeInv /\ [Next]_vars => OutcomeInv'
  BY OutcomeNext
<1>2. TypeOK /\ StrikesInv => TwoStrikes
  <2> SUFFICES ASSUME TypeOK, StrikesInv, NEW a \in Agent, NEW b \in Agent,
                      IsBlacklisted(a, b)
               PROVE  Cardinality(strikes[a][b]) >= 2
    BY DEF TwoStrikes
  <2>1. /\ reputation[a][b] \in Record /\ cycle[a] \in Nat
        /\ strikes[a][b] \in SUBSET Nonce
    BY DEF TypeOK
  <2>2. Cardinality(strikes[a][b]) \in Nat
    BY <2>1, NoncesFinite
  <2>3. WithinDings(reputation[a][b], Cardinality(strikes[a][b]))
    BY DEF StrikesInv
  <2> QED
    BY <2>1, <2>2, <2>3, BlacklistedTwice DEF IsBlacklisted
<1> QED
  BY <1>1, <1>2, TypeCorrect, OutcomeInit, StrikesInit, StrikesNext, PTL DEF Spec

-----------------------------------------------------------------------------
(* The cap on pending trades.                                              *)

\* Trades of one peer are a finite set of nonces.
LEMMA PendingFinite ==
    ASSUME NEW a \in Agent, NEW b \in Agent
    PROVE  /\ IsFiniteSet(PendingFrom(a, b))
           /\ Cardinality(PendingFrom(a, b)) \in Nat
BY NoncesFinite DEF PendingFrom

\* A step that takes no offer holds no more trades of any peer.
LEMMA CappedQuiet ==
    ASSUME PendingCapped,
           \A b \in Agent, n \in Nonce :
               accepted'[b][n] \in {accepted[b][n], NoTrade}
    PROVE  PendingCapped'
<1> SUFFICES ASSUME NEW a \in Agent, NEW b \in Agent
             PROVE  Cardinality(PendingFrom(a, b)') <= MaxPending
  BY DEF PendingCapped
<1>1. PendingFrom(a, b)' \in SUBSET PendingFrom(a, b)
  BY DEF PendingFrom
<1>2. Cardinality(PendingFrom(a, b)') <= Cardinality(PendingFrom(a, b))
  BY <1>1, PendingFinite, FS_Subset
<1>3. Cardinality(PendingFrom(a, b)) <= MaxPending
  BY DEF PendingCapped
<1>4. Cardinality(PendingFrom(a, b)') \in Nat
  BY NoncesFinite DEF PendingFrom
<1> QED
  BY <1>2, <1>3, <1>4, PendingFinite, BarterAssumption

\* An offer taken adds one trade to a peer that was below the cap.
LEMMA CappedAccept ==
    ASSUME TypeOK, PendingCapped, NEW a \in Agent, AcceptOffer(a)
    PROVE  PendingCapped'
<1> PICK m \in inbox[a] :
        /\ Acceptable(a, m)
        /\ accepted' = [accepted EXCEPT ![a][m.nonce] = PendingTradeOf(a, m)]
  BY DEF AcceptOffer
<1>1. m.nonce \in Nonce /\ m.from \in Agent
  BY DEF TypeOK, Message
<1> SUFFICES ASSUME NEW b \in Agent, NEW c \in Agent
             PROVE  Cardinality(PendingFrom(b, c)') <= MaxPending
  BY DEF PendingCapped
<1>2. /\ IsFiniteSet(PendingFrom(b, c)) /\ Cardinality(PendingFrom(b, c)) \in Nat
      /\ Cardinality(PendingFrom(b, c)) <= MaxPending /\ MaxPending \in Nat
  BY PendingFinite, BarterAssumption DEF PendingCapped
<1>3. CASE b = a /\ c = m.from
  <2> DEFINE more == PendingFrom(b, c) \cup {m.nonce}
  <2>1. PendingFrom(b, c)' \in SUBSET more
    BY <1>1, <1>3 DEF TypeOK, PendingFrom
  <2>2. IsFiniteSet(more) /\ Cardinality(more) <= Cardinality(PendingFrom(b, c)) + 1
    BY <1>2, FS_AddElement
  <2>3. Cardinality(PendingFrom(b, c)') <= Cardinality(more)
    BY <2>1, <2>2, FS_Subset
  <2>4. Cardinality(PendingFrom(b, c)) < MaxPending
    BY <1>3 DEF Acceptable
  <2>5. Cardinality(PendingFrom(b, c)') \in Nat /\ Cardinality(more) \in Nat
    BY <2>2, NoncesFinite, FS_CardinalityType DEF PendingFrom
  <2> HIDE DEF more
  <2> QED
    BY <1>2, <2>2, <2>3, <2>4, <2>5
<1>4. CASE ~(b = a /\ c = m.from)
  <2>1. PendingFrom(b, c)' \in SUBSET PendingFrom(b, c)
    BY <1>1, <1>4 DEF TypeOK, PendingFrom, PendingTradeOf
  <2>2. Cardinality(PendingFrom(b, c)') <= Cardinality(PendingFrom(b, c))
    BY <1>2, <2>1, FS_Subset
  <2>3. Cardinality(PendingFrom(b, c)') \in Nat
    BY NoncesFinite DEF PendingFrom
  <2> QED
    BY <1>2, <2>2, <2>3
<1> QED
  BY <1>3, <1>4

\* Every step keeps the cap.
LEMMA CappedNext == TypeOK /\ PendingCapped /\ [Next]_vars => PendingCapped'
<1> SUFFICES ASSUME TypeOK, PendingCapped, [Next]_vars
             PROVE  PendingCapped'
  OBVIOUS
<1>1. ASSUME NEW a \in Agent, Step(a)
      PROVE  PendingCapped'
  <2>1. CASE AcceptOffer(a)
    BY <2>1, CappedAccept
  <2>2. CASE CreditSettle(a)
    BY <2>2, CappedQuiet DEF CreditSettle, AcceptedAfter, TypeOK
  <2>3. CASE SweepTimeouts(a)
    BY <2>3, CappedQuiet DEF SweepTimeouts, Without, TypeOK
  <2>4. CASE UNCHANGED accepted
    BY <2>4, CappedQuiet
  <2> QED
    BY <1>1, <2>1, <2>2, <2>3, <2>4
       DEF Step, ProposeOffer, DeclineOffer, BindAccept, IgnoreAccept, Deliver,
           RejectSettle, Tick, negotiators
<1>2. CASE UNCHANGED vars
  BY <1>2, CappedQuiet DEF vars, negotiators
<1> QED
  BY <1>1, <1>2 DEF Next

\* No peer ever occupies more than max_pending_per_peer places in another's
\* book, whatever is delivered again and whatever trades are settled or swept.
THEOREM CapHolds == Spec => []PendingCapped
<1>1. Init => PendingCapped
  <2> SUFFICES ASSUME Init, NEW a \in Agent, NEW b \in Agent
               PROVE  Cardinality(PendingFrom(a, b)) <= MaxPending
    BY DEF PendingCapped
  <2>1. PendingFrom(a, b) = {}
    BY DEF Init, PendingFrom
  <2> QED
    BY <2>1, FS_EmptySet, BarterAssumption
<1> QED
  BY <1>1, CappedNext, TypeCorrect, PTL DEF Spec

-----------------------------------------------------------------------------
(* A binding is final.                                                     *)

\* Only nonces already drawn are in the proposer's book.
ProposedIssued ==
    \A a \in Agent, n \in Nonce : proposed[a][n] # NoTrade => n <= issued

\* What one step may do to a proposed trade.
ProposedStep ==
    \A a \in Agent, n \in Nonce :
        \/ proposed'[a][n] \in {proposed[a][n], NoTrade}
        \/ proposed[a][n] # NoTrade /\ proposed[a][n].peer = Nobody
        \/ n = issued + 1 /\ issued' = issued + 1

\* No step moves a bound trade to another peer.
LEMMA ProposedNext ==
    ASSUME TypeOK, [Next]_vars
    PROVE  ProposedStep /\ issued' \in {issued, issued + 1}
<1>1. ASSUME NEW a \in Agent, Step(a)
      PROVE  ProposedStep /\ issued' \in {issued, issued + 1}
  <2>1. CASE ProposeOffer(a)
    BY <2>1 DEF TypeOK, ProposeOffer, ProposedStep
  <2>2. CASE BindAccept(a)
    BY <2>2 DEF TypeOK, BindAccept, Bindable, ProposedStep
  <2>3. CASE CreditSettle(a)
    BY <2>3 DEF TypeOK, CreditSettle, ProposedAfter, ProposedStep
  <2>4. CASE SweepTimeouts(a)
    BY <2>4 DEF TypeOK, SweepTimeouts, Without, ProposedStep
  <2>5. CASE UNCHANGED <<proposed, issued>>
    BY <2>5 DEF ProposedStep
  <2> QED
    BY <1>1, <2>1, <2>2, <2>3, <2>4, <2>5
       DEF Step, AcceptOffer, DeclineOffer, IgnoreAccept, Deliver,
           RejectSettle, Tick, negotiators
<1>2. CASE UNCHANGED vars
  BY <1>2 DEF vars, negotiators, ProposedStep
<1> QED
  BY <1>1, <1>2 DEF Next

\* The bound accepter of an offer never changes: every step either leaves the
\* trade as it is or takes it out of the book, whatever Accepts are repeated.
THEOREM BindingFixed == Spec => SingleBinding
<1> DEFINE Fixed ==
        \A a \in Agent, n \in Nonce :
            proposed[a][n] # NoTrade /\ proposed[a][n].peer # Nobody
                => proposed'[a][n] \in {proposed[a][n], NoTrade}
<1>1. Init => ProposedIssued
  BY DEF Init, ProposedIssued
<1>2. TypeOK /\ ProposedIssued /\ [Next]_vars => ProposedIssued'
  <2> SUFFICES ASSUME TypeOK, ProposedIssued, [Next]_vars,
                      NEW a \in Agent, NEW n \in Nonce, proposed'[a][n] # NoTrade
               PROVE  n <= issued'
    BY DEF ProposedIssued
  <2>1. issued \in Nat /\ n \in Nat /\ issued' \in {issued, issued + 1}
    BY ProposedNext DEF TypeOK, Nonce
  <2>2. proposed[a][n] # NoTrade \/ (n = issued + 1 /\ issued' = issued + 1)
    BY ProposedNext DEF ProposedStep
  <2>3. n <= issued \/ n = issued'
    BY <2>2 DEF ProposedIssued
  <2> QED
    BY <2>1, <2>3
<1>3. TypeOK /\ ProposedIssued /\ [Next]_vars => [Fixed]_vars
  BY ProposedNext DEF ProposedIssued, ProposedStep, TypeOK, Nonce
<1> QED
  BY <1>1, <1>2, <1>3, TypeCorrect, PTL DEF Spec, SingleBinding

-----------------------------------------------------------------------------
(* The mesh implements Escrow.                                             *)

\* Nobody deals with itself.
NoSelfDealing ==
    \A a \in Agent :
        /\ \A m \in inbox[a] : m.from # a
        /\ \A n \in Nonce : duties[a][n] # NoDuty => duties[a][n].to # a

\* An offer of its own that may still bind an accepter.
Unbound(a, n) == proposed[a][n] # NoTrade /\ proposed[a][n].peer = Nobody

\* What an agent delivers under a nonce it delivers once: whoever owes or has
\* paid can no longer come to owe, and whoever has paid does not owe.
PaysOnce ==
    \A a \in Agent, n \in Nonce :
        /\ duties[a][n] # NoDuty =>
              ~OfferWaiting(a, n) /\ ~Unbound(a, n) /\ n <= issued
        /\ \A c \in transit : c.from = a /\ c.nonce = n =>
              /\ ~OfferWaiting(a, n) /\ ~Unbound(a, n) /\ n <= issued
              /\ duties[a][n] = NoDuty

\* A Settle still to be credited has its claim.
SettlesClaimed ==
    \A a \in Agent : \A m \in inbox[a] :
        m.type = "Settle" => ClaimOf(a, m) \in transit \/ outcomes[a][m.nonce] # 0

EscrowInv == NoSelfDealing /\ PaysOnce /\ SettlesClaimed

\* Nobody owes or has paid anything at the start.
LEMMA EscrowInit == Init => EscrowInv
BY DEF Init, EscrowInv, NoSelfDealing, PaysOnce, SettlesClaimed

\* A step that makes nobody owe, pays nothing, scores nothing and delivers.
LEMMA EscrowQuiet ==
    ASSUME TypeOK, EscrowInv,
           UNCHANGED <<issued, transit, duties, outcomes>>,
           \A b \in Agent, n \in Nonce : Unbound(b, n)' => Unbound(b, n),
           \A b \in Agent : inbox'[b] \subseteq inbox[b]
    PROVE  EscrowInv'
<1>1. \A b \in Agent, n \in Nonce : OfferWaiting(b, n)' => OfferWaiting(b, n)
  BY DEF OfferWaiting
<1>2. NoSelfDealing'
  BY DEF EscrowInv, NoSelfDealing
<1>3. PaysOnce'
  BY <1>1 DEF EscrowInv, PaysOnce
<1>4. SettlesClaimed'
  BY DEF EscrowInv, SettlesClaimed, ClaimOf
<1> QED
  BY <1>2, <1>3, <1>4 DEF EscrowInv

\* Messages set aside.
LEMMA EscrowDropped ==
    ASSUME TypeOK, EscrowInv, NEW a \in Agent, NEW m \in inbox[a], Consume(a, m),
           UNCHANGED <<proposed, issued, transit, duties, outcomes>>
    PROVE  EscrowInv'
<1>1. \A b \in Agent : inbox'[b] \subseteq inbox[b]
  BY RestType DEF TypeOK, Consume
<1> QED
  BY <1>1, EscrowQuiet DEF Unbound

\* Nobody owes or has paid anything under a fresh nonce.
LEMMA EscrowPropose ==
    ASSUME TypeOK, EscrowInv, NEW a \in Agent, ProposeOffer(a)
    PROVE  EscrowInv'
<1> PICK t \in Terms :
        /\ issued < MaxNonce
        /\ issued' = issued + 1
        /\ proposed' = [proposed EXCEPT ![a][issued + 1] =
                [peer |-> Nobody, expect |-> t.wants, openedAt |-> cycle[a]]]
        /\ inbox' = [b \in Agent |->
                IF b = a THEN inbox[b]
                ELSE inbox[b] \cup
                     {[type |-> "Offer", from |-> a, gives |-> t.gives,
                       wants |-> t.wants, nonce |-> issued + 1]}]
        /\ UNCHANGED <<balance, accepted, pins, reputation, duties, cycle, history>>
  BY DEF ProposeOffer
<1> DEFINE n0 == issued + 1
           offer == [type |-> "Offer", from |-> a, gives |-> t.gives,
                     wants |-> t.wants, nonce |-> n0]
<1>1. n0 \in Nonce /\ issued \in Nat /\ \A n \in Nonce : n \in Nat
  BY BarterAssumption DEF TypeOK, Nonce
<1>2. \A b \in Agent : \A m \in inbox'[b] : m \in inbox[b] \/ (m = offer /\ b # a)
  BY DEF TypeOK
<1>3. UNCHANGED <<transit, duties, outcomes>>
  BY DEF history
<1>4. \A b \in Agent, n \in Nonce :
        /\ OfferWaiting(b, n)' => OfferWaiting(b, n) \/ n = n0
        /\ Unbound(b, n)' => Unbound(b, n) \/ n = n0
  <2>1. \A b \in Agent, n \in Nonce :
            OfferWaiting(b, n)' => OfferWaiting(b, n) \/ n = n0
    BY <1>2 DEF OfferWaiting
  <2>2. \A b \in Agent, n \in Nonce : n # n0 => proposed'[b][n] = proposed[b][n]
    BY <1>1 DEF TypeOK
  <2> QED
    BY <2>1, <2>2 DEF Unbound
<1>5. NoSelfDealing'
  BY <1>2, <1>3 DEF EscrowInv, NoSelfDealing
<1>6. PaysOnce'
  <2>1. \A n \in Nonce : n <= issued => n # n0 /\ n <= issued'
    BY <1>1
  <2> QED
    BY <1>3, <1>4, <2>1 DEF EscrowInv, PaysOnce
<1>7. SettlesClaimed'
  BY <1>2, <1>3 DEF EscrowInv, SettlesClaimed, ClaimOf
<1> QED
  BY <1>5, <1>6, <1>7 DEF EscrowInv

\* Whoever takes an offer owes and has paid nothing under its nonce before.
LEMMA EscrowAccept ==
    ASSUME "Offer" \notin Redelivered,
           TypeOK, OutcomeInv, EscrowInv, NEW a \in Agent, AcceptOffer(a)
    PROVE  EscrowInv'
<1> PICK m \in inbox[a] :
        /\ Arrives(a, m, "Offer")
        /\ duties' = [duties EXCEPT ![a][m.nonce] =
                        [to |-> m.from, gives |-> m.wants]]
        /\ inbox' = [inbox EXCEPT ![a] = Rest(a, m),
                                  ![m.from] = @ \cup {AcceptOf(a, m)}]
        /\ UNCHANGED <<balance, proposed, reputation, cycle, issued, history>>
  BY DEF AcceptOffer
<1>1. /\ m \in Message /\ m.nonce \in Nonce /\ m.from \in Agent
      /\ m.from # a /\ m.type = "Offer"
  BY DEF TypeOK, Message, EscrowInv, NoSelfDealing, Arrives
<1>2. /\ OfferWaiting(a, m.nonce) /\ ~Open(a, m.nonce)
      /\ m.nonce <= issued
  <2>1. OfferWaiting(a, m.nonce)
    BY <1>1 DEF OfferWaiting
  <2>2. ~Open(a, m.nonce) /\ ~(m.nonce > issued)
    BY <1>1, <2>1 DEF OutcomeInv
  <2> QED
    BY <1>1, <2>1, <2>2 DEF TypeOK, Nonce
<1>3. \A b \in Agent : \A o \in inbox'[b] :
        \/ o \in inbox[b] /\ (b = a => o # m)
        \/ o = AcceptOf(a, m) /\ b = m.from
  BY <1>1 DEF TypeOK, Rest
<1>4. UNCHANGED <<proposed, issued, transit, outcomes>>
  BY DEF history
<1>5. \A b \in Agent, n \in Nonce :
        /\ OfferWaiting(b, n)' => OfferWaiting(b, n)
        /\ Unbound(b, n)' <=> Unbound(b, n)
  <2>1. AcceptOf(a, m).type # "Offer"
    BY DEF AcceptOf
  <2>2. \A b \in Agent, n \in Nonce : OfferWaiting(b, n)' => OfferWaiting(b, n)
    BY <1>3, <2>1 DEF OfferWaiting
  <2>3. \A b \in Agent, n \in Nonce : Unbound(b, n)' <=> Unbound(b, n)
    BY <1>4 DEF Unbound
  <2> QED
    BY <2>2, <2>3
<1>6. ~OfferWaiting(a, m.nonce)'
  BY <1>1, <1>3 DEF OfferWaiting, OutcomeInv, AcceptOf
<1>7. \A b \in Agent, n \in Nonce :
        duties'[b][n] = IF b = a /\ n = m.nonce
                        THEN [to |-> m.from, gives |-> m.wants]
                        ELSE duties[b][n]
  BY <1>1 DEF TypeOK
<1>8. NoSelfDealing'
  <2>1. AcceptOf(a, m).from = a
    BY DEF AcceptOf
  <2>2. \A b \in Agent : \A o \in inbox'[b] : o.from # b
    BY <1>1, <1>3, <2>1 DEF EscrowInv, NoSelfDealing
  <2>3. \A b \in Agent, n \in Nonce :
            duties'[b][n] # NoDuty => duties'[b][n].to # b
    BY <1>1, <1>7 DEF EscrowInv, NoSelfDealing
  <2> QED
    BY <2>2, <2>3 DEF NoSelfDealing
<1>9. PaysOnce'
  <2>1. \A c \in transit : ~(c.from = a /\ c.nonce = m.nonce)
    BY <1>1, <1>2 DEF EscrowInv, PaysOnce
  <2>2. ~Unbound(a, m.nonce)'
    BY <1>2, <1>4 DEF Unbound, Open
  <2> QED
    BY <1>2, <1>4, <1>5, <1>6, <1>7, <2>1, <2>2 DEF EscrowInv, PaysOnce
<1>10. SettlesClaimed'
  BY <1>3, <1>4 DEF EscrowInv, SettlesClaimed, AcceptOf, ClaimOf
<1> QED
  BY <1>8, <1>9, <1>10 DEF EscrowInv

\* Whoever binds an accepter owes and has paid nothing under its nonce before.
LEMMA EscrowBind ==
    ASSUME TypeOK, OutcomeInv, EscrowInv, NEW a \in Agent, BindAccept(a)
    PROVE  EscrowInv'
<1> PICK m \in inbox[a] :
        /\ Arrives(a, m, "Accept")
        /\ Bindable(a, m)
        /\ proposed' = [proposed EXCEPT ![a][m.nonce].peer = m.from]
        /\ duties' = [duties EXCEPT ![a][m.nonce] =
                        [to |-> m.from, gives |-> m.gives]]
        /\ Consume(a, m)
        /\ UNCHANGED <<balance, accepted, reputation, cycle, issued, history>>
  BY DEF BindAccept
<1>1. /\ m \in Message /\ m.nonce \in Nonce /\ m.from \in Agent
      /\ m.from # a
  BY DEF TypeOK, Message, EscrowInv, NoSelfDealing
<1>2. /\ Unbound(a, m.nonce) /\ ~OfferWaiting(a, m.nonce)
      /\ m.nonce <= issued
  <2>1. Unbound(a, m.nonce) /\ Open(a, m.nonce)
    BY DEF Bindable, Unbound, Open
  <2>2. ~OfferWaiting(a, m.nonce) /\ ~(m.nonce > issued)
    BY <1>1, <2>1 DEF OutcomeInv
  <2> QED
    BY <1>1, <2>1, <2>2 DEF TypeOK, Nonce
<1>3. \A b \in Agent : inbox'[b] \subseteq inbox[b]
  BY <1>1, RestType DEF TypeOK, Consume
<1>4. UNCHANGED <<issued, transit, outcomes>>
  BY DEF history
<1>5. ~Unbound(a, m.nonce)'
  <2>1. proposed[a][m.nonce] \in PendingTrade
    BY <1>1 DEF TypeOK, Bindable
  <2>2. proposed'[a][m.nonce] = [proposed[a][m.nonce] EXCEPT !.peer = m.from]
    BY <1>1 DEF TypeOK
  <2>3. proposed'[a][m.nonce].peer = m.from
    BY <2>1, <2>2 DEF PendingTrade
  <2> QED
    BY <1>1, <2>3, BarterAssumption DEF Unbound
<1>6. \A b \in Agent, n \in Nonce :
        /\ OfferWaiting(b, n)' => OfferWaiting(b, n)
        /\ Unbound(b, n)' => Unbound(b, n)
  <2>1. \A b \in Agent, n \in Nonce :
            ~(b = a /\ n = m.nonce) => proposed'[b][n] = proposed[b][n]
    BY <1>1 DEF TypeOK
  <2>2. \A b \in Agent, n \in Nonce : Unbound(b, n)' => Unbound(b, n)
    BY <1>5, <2>1 DEF Unbound
  <2> QED
    BY <1>3, <2>2 DEF OfferWaiting
<1>7. \A b \in Agent, n \in Nonce :
        duties'[b][n] = IF b = a /\ n = m.nonce
                        THEN [to |-> m.from, gives |-> m.gives]
                        ELSE duties[b][n]
  BY <1>1 DEF TypeOK
<1>8. NoSelfDealing'
  BY <1>1, <1>3, <1>7 DEF EscrowInv, NoSelfDealing
<1>9. PaysOnce'
  <2>1. \A c \in transit : ~(c.from = a /\ c.nonce = m.nonce)
    BY <1>1, <1>2 DEF EscrowInv, PaysOnce
  <2> QED
    BY <1>2, <1>4, <1>5, <1>6, <1>7, <2>1 DEF EscrowInv, PaysOnce
<1>10. SettlesClaimed'
  BY <1>3, <1>4 DEF EscrowInv, SettlesClaimed, ClaimOf
<1> QED
  BY <1>8, <1>9, <1>10 DEF EscrowInv

\* What a delivery pays for has not been paid for before.
LEMMA EscrowDeliver ==
    ASSUME TypeOK, EscrowInv, NEW a \in Agent, Deliver(a)
    PROVE  /\ EscrowInv'
           /\ \E c \in transit' \ transit : c \in Payable /\ Ledgers!Pay(c)
<1> PICK n \in {k \in Nonce : duties[a][k] # NoDuty} :
    \E q \in 0 .. duties[a][n].gives.qty :
        LET duty == duties[a][n]
            paid == [kind |-> duty.gives.kind, qty |-> q]
            settle == [type |-> "Settle", from |-> a, gives |-> paid,
                       wants |-> [paid EXCEPT !.qty = 0], nonce |-> n]
        IN  /\ CanAfford(a, paid)
            /\ balance' = [balance EXCEPT ![a][paid.kind] = @ - q]
            /\ inbox' = [inbox EXCEPT ![duty.to] = @ \cup {settle}]
            /\ duties' = [duties EXCEPT ![a][n] = NoDuty]
            /\ transit' = transit \cup {ClaimOf(duty.to, settle)}
            /\ UNCHANGED <<accepted, proposed, issued, outcomes>>
  BY DEF Deliver
<1> PICK q \in 0 .. duties[a][n].gives.qty :
        LET duty == duties[a][n]
            paid == [kind |-> duty.gives.kind, qty |-> q]
            settle == [type |-> "Settle", from |-> a, gives |-> paid,
                       wants |-> [paid EXCEPT !.qty = 0], nonce |-> n]
        IN  /\ CanAfford(a, paid)
            /\ balance' = [balance EXCEPT ![a][paid.kind] = @ - q]
            /\ inbox' = [inbox EXCEPT ![duty.to] = @ \cup {settle}]
            /\ duties' = [duties EXCEPT ![a][n] = NoDuty]
            /\ transit' = transit \cup {ClaimOf(duty.to, settle)}
            /\ UNCHANGED <<accepted, proposed, issued, outcomes>>
  OBVIOUS
<1> DEFINE duty == duties[a][n]
           paid == [kind |-> duty.gives.kind, qty |-> q]
           settle == [type |-> "Settle", from |-> a, gives |-> paid,
                      wants |-> [paid EXCEPT !.qty = 0], nonce |-> n]
           claim == ClaimOf(duty.to, settle)
<1>1. /\ n \in Nonce /\ duty \in Duty /\ duty.to \in Agent /\ duty.to # a
      /\ duty.gives.kind \in Kind /\ q \in Nat
  <2>1. n \in Nonce /\ duty \in Duty /\ duty.to # a
    BY DEF TypeOK, EscrowInv, NoSelfDealing
  <2>2. duty.gives.qty \in Nat /\ duty.gives.kind \in Kind /\ duty.to \in Agent
    BY <2>1 DEF Duty, Resource
  <2> QED
    BY <2>1, <2>2
<1>2. /\ settle.type = "Settle" /\ settle.from = a /\ settle.nonce = n
      /\ claim.from = a /\ claim.nonce = n /\ claim.to = duty.to
      /\ claim.gives.kind = paid.kind /\ claim.gives.qty = q
  BY DEF ClaimOf
<1>3. claim \in Payable
  BY <1>1, <1>2 DEF ClaimOf, Claim, Resource, Payable
<1>4. /\ claim \notin transit
      /\ ~OfferWaiting(a, n) /\ ~Unbound(a, n) /\ n <= issued
  BY <1>1, <1>2 DEF EscrowInv, PaysOnce
<1>5. \A b \in Agent : \A o \in inbox'[b] :
        o \in inbox[b] \/ (o = settle /\ b = duty.to)
  BY <1>1 DEF TypeOK
<1>6. \A b \in Agent, k \in Nonce :
        duties'[b][k] = IF b = a /\ k = n THEN NoDuty ELSE duties[b][k]
  BY <1>1 DEF TypeOK
<1>7. transit' = transit \cup {claim} /\ UNCHANGED <<proposed, issued, outcomes>>
  OBVIOUS
<1>8. /\ CanAfford(a, paid)
      /\ balance' = [balance EXCEPT ![a][paid.kind] = @ - q]
  OBVIOUS
<1> HIDE DEF claim, settle
<1>9. NoSelfDealing'
  BY <1>1, <1>2, <1>5, <1>6 DEF EscrowInv, NoSelfDealing
<1>10. PaysOnce'
  <2>1. \A b \in Agent, k \in Nonce :
            /\ OfferWaiting(b, k)' => OfferWaiting(b, k)
            /\ Unbound(b, k)' <=> Unbound(b, k)
    <3>1. \A b \in Agent, k \in Nonce : OfferWaiting(b, k)' => OfferWaiting(b, k)
      BY <1>2, <1>5 DEF OfferWaiting
    <3>2. \A b \in Agent, k \in Nonce : Unbound(b, k)' <=> Unbound(b, k)
      BY <1>7 DEF Unbound
    <3> QED
      BY <3>1, <3>2
  <2>2. \A b \in Agent, k \in Nonce : duties'[b][k] # NoDuty =>
            ~OfferWaiting(b, k)' /\ ~Unbound(b, k)' /\ k <= issued'
    BY <1>6, <1>7, <2>1 DEF EscrowInv, PaysOnce
  <2>3. \A b \in Agent, k \in Nonce :
            \A c \in transit' : c.from = b /\ c.nonce = k =>
              /\ ~OfferWaiting(b, k)' /\ ~Unbound(b, k)' /\ k <= issued'
              /\ duties'[b][k] = NoDuty
    BY <1>2, <1>4, <1>6, <1>7, <2>1 DEF EscrowInv, PaysOnce
  <2> QED
    BY <2>2, <2>3 DEF PaysOnce
<1>11. SettlesClaimed'
  <2>1. ClaimOf(duty.to, settle) = claim
    BY DEF claim
  <2>2. \A b \in Agent : \A o \in inbox'[b] :
            o.type = "Settle" => ClaimOf(b, o) \in transit' \/ outcomes'[b][o.nonce] # 0
    BY <1>5, <1>7, <2>1 DEF EscrowInv, SettlesClaimed
  <2> QED
    BY <2>2 DEF SettlesClaimed, ClaimOf
<1>12. Ledgers!Pay(claim)
  BY <1>2, <1>4, <1>7, <1>8 DEF Ledgers!Pay, CanAfford
<1> QED
  BY <1>3, <1>4, <1>7, <1>9, <1>10, <1>11, <1>12 DEF EscrowInv

\* What a settlement credits has its claim, and the claim is gone with it.
LEMMA EscrowCredit ==
    ASSUME TypeOK, OutcomeInv, EscrowInv, NEW a \in Agent, CreditSettle(a)
    PROVE  EscrowInv' /\ \E c \in transit : Ledgers!Collect(c)
<1> PICK m \in inbox[a] :
        /\ Arrives(a, m, "Settle")
        /\ Creditable(a, m)
        /\ proposed' = ProposedAfter(a, m)
        /\ balance' = [balance EXCEPT ![a][m.gives.kind] = @ + m.gives.qty]
        /\ outcomes' = [outcomes EXCEPT ![a][m.nonce] = @ + 1]
        /\ transit' = transit \ {ClaimOf(a, m)}
        /\ Consume(a, m)
        /\ UNCHANGED <<duties, cycle, issued, excused>>
  BY DEF CreditSettle, Score
<1>1. /\ m \in Message /\ m.nonce \in Nonce /\ m.type = "Settle"
  BY DEF TypeOK, Message, Arrives
<1>2. outcomes[a][m.nonce] = 0
  BY <1>1 DEF OutcomeInv, Open, Creditable, SettledTrade
<1>3. ClaimOf(a, m) \in transit
  BY <1>1, <1>2 DEF EscrowInv, SettlesClaimed
<1>4. Ledgers!Collect(ClaimOf(a, m))
  <2>1. ClaimOf(a, m).to = a /\ ClaimOf(a, m).gives = m.gives
    BY DEF ClaimOf
  <2> QED
    BY <1>3, <2>1 DEF Ledgers!Collect
<1>5. \A b \in Agent : inbox'[b] \subseteq inbox[b]
  BY <1>1, RestType DEF TypeOK, Consume
<1>6. \A b \in Agent, n \in Nonce :
        /\ OfferWaiting(b, n)' => OfferWaiting(b, n)
        /\ Unbound(b, n)' => Unbound(b, n)
  <2>1. \A b \in Agent, n \in Nonce : proposed'[b][n] \in {proposed[b][n], NoTrade}
    BY <1>1 DEF TypeOK, ProposedAfter
  <2>2. \A b \in Agent, n \in Nonce : Unbound(b, n)' => Unbound(b, n)
    BY <2>1 DEF Unbound
  <2> QED
    BY <1>5, <2>2 DEF OfferWaiting
<1>7. NoSelfDealing'
  BY <1>5 DEF EscrowInv, NoSelfDealing
<1>8. PaysOnce'
  BY <1>6 DEF EscrowInv, PaysOnce
<1>9. SettlesClaimed'
  <2> SUFFICES ASSUME NEW b \in Agent, NEW o \in inbox'[b], o.type = "Settle"
               PROVE  \/ ClaimOf(b, o) \in transit'
                      \/ outcomes'[b][o.nonce] # 0
    BY DEF SettlesClaimed, ClaimOf
  <2>1. o \in inbox[b] /\ o.nonce \in Nonce
    BY <1>5 DEF TypeOK, Message
  <2>2. CASE b = a /\ o.nonce = m.nonce
    BY <1>1, <1>2, <2>2 DEF TypeOK
  <2>3. CASE ~(b = a /\ o.nonce = m.nonce)
    <3>1. ClaimOf(b, o) # ClaimOf(a, m)
      BY <2>3 DEF ClaimOf
    <3>2. outcomes'[b][o.nonce] = outcomes[b][o.nonce]
      BY <1>1, <2>1, <2>3 DEF TypeOK
    <3> QED
      BY <2>1, <3>1, <3>2 DEF EscrowInv, SettlesClaimed
  <2> QED
    BY <2>2, <2>3
<1> QED
  BY <1>3, <1>4, <1>7, <1>8, <1>9 DEF EscrowInv

\* A sweep pays and credits nothing.
LEMMA EscrowSweep ==
    ASSUME TypeOK, EscrowInv, NEW a \in Agent, SweepTimeouts(a)
    PROVE  EscrowInv'
<1>1. /\ UNCHANGED <<inbox, issued, transit, duties>>
      /\ proposed' = Without(proposed, a)
  BY DEF SweepTimeouts
<1>2. \A b \in Agent, n \in Nonce :
        /\ OfferWaiting(b, n)' <=> OfferWaiting(b, n)
        /\ Unbound(b, n)' => Unbound(b, n)
  <2>1. \A b \in Agent, n \in Nonce : proposed'[b][n] \in {proposed[b][n], NoTrade}
    BY <1>1 DEF TypeOK, Without
  <2>2. \A b \in Agent, n \in Nonce : Unbound(b, n)' => Unbound(b, n)
    BY <2>1 DEF Unbound
  <2> QED
    BY <1>1, <2>2 DEF OfferWaiting
<1>3. \A b \in Agent, n \in Nonce : outcomes[b][n] # 0 => outcomes'[b][n] # 0
  <2>1. \A b \in Agent, n \in Nonce :
            outcomes'[b][n] \in {outcomes[b][n], outcomes[b][n] + 1}
    BY DEF TypeOK, SweepTimeouts
  <2> QED
    BY <2>1 DEF TypeOK
<1>4. NoSelfDealing'
  BY <1>1 DEF EscrowInv, NoSelfDealing
<1>5. PaysOnce'
  BY <1>1, <1>2 DEF EscrowInv, PaysOnce
<1>6. SettlesClaimed'
  <2>1. \A b \in Agent : \A o \in inbox[b] : o.nonce \in Nonce
    BY DEF TypeOK, Message
  <2> QED
    BY <1>1, <1>3, <2>1 DEF EscrowInv, SettlesClaimed, ClaimOf
<1> QED
  BY <1>4, <1>5, <1>6 DEF EscrowInv

\* Every step keeps the invariant and is a step of Escrow or none.
LEMMA EscrowNext ==
    "Offer" \notin Redelivered /\ TypeOK /\ OutcomeInv /\ EscrowInv /\ [Next]_vars
        => EscrowInv' /\ [Ledgers!Next]_(Ledgers!vars)
<1> SUFFICES ASSUME "Offer" \notin Redelivered,
                    TypeOK, OutcomeInv, EscrowInv, [Next]_vars
             PROVE  EscrowInv' /\ [Ledgers!Next]_(Ledgers!vars)
  OBVIOUS
<1>1. ASSUME NEW a \in Agent, Step(a)
      PROVE  EscrowInv' /\ (Ledgers!Next \/ UNCHANGED Ledgers!vars)
  <2>1. CASE ProposeOffer(a)
    BY <2>1, EscrowPropose DEF ProposeOffer, history, Ledgers!vars
  <2>2. CASE AcceptOffer(a)
    BY <2>2, EscrowAccept DEF AcceptOffer, history, Ledgers!vars
  <2>3. CASE DeclineOffer(a)
    BY <2>3, EscrowDropped DEF DeclineOffer, history, Ledgers!vars
  <2>4. CASE BindAccept(a)
    BY <2>4, EscrowBind DEF BindAccept, history, Ledgers!vars
  <2>5. CASE IgnoreAccept(a)
    BY <2>5, EscrowDropped DEF IgnoreAccept, history, Ledgers!vars
  <2>6. CASE Deliver(a)
    BY <2>6, EscrowDeliver DEF Ledgers!Next
  <2>7. CASE CreditSettle(a)
    BY <2>7, EscrowCredit DEF Ledgers!Next
  <2>8. CASE RejectSettle(a)
    BY <2>8, EscrowDropped DEF RejectSettle, Ledgers!vars
  <2>9. CASE SweepTimeouts(a)
    BY <2>9, EscrowSweep DEF SweepTimeouts, Ledgers!vars
  <2>10. CASE Tick(a)
    BY <2>10, EscrowQuiet DEF Tick, negotiators, Unbound, Ledgers!vars
  <2> QED
    BY <1>1, <2>1, <2>2, <2>3, <2>4, <2>5, <2>6, <2>7, <2>8, <2>9, <2>10
       DEF Step
<1>2. CASE UNCHANGED vars
  BY <1>2, EscrowQuiet DEF vars, negotiators, history, Unbound, Ledgers!vars
<1> QED
  BY <1>1, <1>2 DEF Next

\* If Offers are delivered once, the ledgers of every mesh implement Escrow:
\* whatever is lost, reordered, repeated, swept or paid short, a ledger is
\* credited only by its owner collecting, once, a claim that was debited for it.
THEOREM EscrowImplemented == "Offer" \notin Redelivered => (Spec => ImplementsEscrow)
<1> SUFFICES ASSUME "Offer" \notin Redelivered
             PROVE  Spec => ImplementsEscrow
  OBVIOUS
<1>1. TypeOK /\ OutcomeInv /\ [Next]_vars => OutcomeInv'
  BY OutcomeNext
<1>2. Init => Ledgers!Init
  BY DEF Init, Ledgers!Init
<1>3. TypeOK /\ OutcomeInv /\ EscrowInv /\ [Next]_vars
        => EscrowInv' /\ [Ledgers!Next]_(Ledgers!vars)
  BY EscrowNext
<1> QED
  BY <1>1, <1>2, <1>3, TypeCorrect, OutcomeInit, EscrowInit, PTL
     DEF Spec, ImplementsEscrow, Ledgers!Spec

-----------------------------------------------------------------------------
(* Nothing is created or destroyed.                                        *)

\* The claims of a kind, what each claim is worth, and what each ledger holds.
ClaimsOn(T, k) == {c \in T : c.gives.kind = k}
Worth(T) == [c \in T |-> c.gives.qty]
Share(ledgers, k) == [a \in Agent |-> ledgers[a][k]]

\* Escrow's total of the ledgers is a sum over the agents,
LEMMA TotalIsSum ==
    ASSUME NEW ledgers, NEW k
    PROVE  Ledgers!TotalOf(ledgers, k) = Sum(Share(ledgers, k), Agent)
<1> DEFINE f == Share(ledgers, k)
           Adds(g) == g = [S \in SUBSET Agent |->
                IF S = {} THEN 0 ELSE ledgers[Chosen(S)][k] + g[S \ {Chosen(S)}]]
<1>1. Ledgers!TotalOf(ledgers, k) = (CHOOSE g : Adds(g))[Agent]
  BY DEF Ledgers!TotalOf, Ledgers!MapThenSumSet, Ledgers!MapThenFoldSet, Chosen
<1>2. \A g : Adds(g) <=> Totals(g, f, Agent)
  <2>1. \A S \in SUBSET Agent : S # {} => f[Chosen(S)] = ledgers[Chosen(S)][k]
    BY ChosenIsIn DEF Share
  <2> QED
    BY <2>1 DEF Totals
<1> HIDE DEF Adds, f
<1>3. \E g : Totals(g, f, Agent)
  BY TotalsExist, BarterAssumption
<1>4. Adds(CHOOSE g : Adds(g))
  BY <1>2, <1>3
<1> QED
  BY <1>1, <1>2, <1>4, SumIsTotal, BarterAssumption DEF f

\* and what is claimed of a kind is a sum over its claims.
LEMMA ClaimedIsSum ==
    ASSUME IsFiniteSet(transit), NEW k
    PROVE  Ledgers!ClaimedOf(k) = Sum(Worth(transit), ClaimsOn(transit, k))
<1> DEFINE f == Worth(transit)
           U == ClaimsOn(transit, k)
           Adds(g) == g = [S \in SUBSET U |->
                IF S = {} THEN 0 ELSE Chosen(S).gives.qty + g[S \ {Chosen(S)}]]
<1>1. Ledgers!ClaimedOf(k) = (CHOOSE g : Adds(g))[U]
  BY DEF Ledgers!ClaimedOf, Ledgers!MapThenSumSet, Ledgers!MapThenFoldSet, Chosen, ClaimsOn
<1>2. \A g : Adds(g) <=> Totals(g, f, U)
  <2>1. \A S \in SUBSET U : S # {} => f[Chosen(S)] = Chosen(S).gives.qty
    BY ChosenIsIn DEF Worth, ClaimsOn
  <2> QED
    BY <2>1 DEF Totals
<1>0. IsFiniteSet(U)
  BY FS_Subset DEF ClaimsOn
<1> HIDE DEF Adds, f, U
<1>3. \E g : Totals(g, f, U)
  BY <1>0, TotalsExist
<1>4. Adds(CHOOSE g : Adds(g))
  BY <1>2, <1>3
<1> QED
  BY <1>0, <1>1, <1>2, <1>4, SumIsTotal DEF f, U


\* Ledgers and claims hold what the mesh started with.
Balanced(ledgers, claims) ==
    \A k \in Kind :
        Sum(Share(ledgers, k), Agent) + Sum(Worth(claims), ClaimsOn(claims, k))
            = Sum(Share(Endowment, k), Agent)

\* The ledgers once q has been added to one of them.
Moved(ledgers, a, kind, q) == [ledgers EXCEPT ![a][kind] = @ + q]

\* Moving a claim's worth off a ledger, or onto one, changes that kind's total
\* by as much.
LEMMA ShareMoves ==
    ASSUME NEW ledgers \in [Agent -> [Kind -> Int]], NEW a \in Agent,
           NEW kind \in Kind, NEW q \in Int, NEW k \in Kind
    PROVE  Sum(Share(Moved(ledgers, a, kind, q), k), Agent)
              = Sum(Share(ledgers, k), Agent) + (IF k = kind THEN q ELSE 0)
<1> DEFINE e == Share(Moved(ledgers, a, kind, q), k)
           f == Share(ledgers, k)
<1>1. /\ \A b \in Agent : f[b] \in Int /\ e[b] \in Int
      /\ \A b \in Agent \ {a} : e[b] = f[b]
      /\ e[a] - f[a] = IF k = kind THEN q ELSE 0
  BY DEF Share, Moved
<1>2. IsFiniteSet(Agent)
  BY BarterAssumption
<1> HIDE DEF e, f
<1>3. Sum(e, Agent) = Sum(f, Agent) + (e[a] - f[a])
  BY <1>1, <1>2, SumUpdates
<1> QED
  BY <1>1, <1>3 DEF e, f

\* One more claim adds its worth to its kind.
LEMMA ClaimAdds ==
    ASSUME NEW T \in SUBSET Payable, IsFiniteSet(T), NEW c \in Payable, c \notin T,
           NEW k \in Kind
    PROVE  Sum(Worth(T \cup {c}), ClaimsOn(T \cup {c}, k))
              = Sum(Worth(T), ClaimsOn(T, k))
                  + (IF k = c.gives.kind THEN c.gives.qty ELSE 0)
<1> DEFINE e == Worth(T \cup {c})
           U == ClaimsOn(T, k)
<1>1. IsFiniteSet(U) /\ c \notin U
  BY FS_Subset DEF ClaimsOn
<1>2. \A d \in T \cup {c} : e[d] = d.gives.qty /\ e[d] \in Int
  BY DEF Worth, Payable, Claim, Resource
<1>3. Sum(e, U) = Sum(Worth(T), U)
  <2>1. \A d \in U : e[d] = Worth(T)[d]
    BY DEF Worth, ClaimsOn
  <2> HIDE DEF e, U
  <2> QED
    BY <1>1, <2>1, SumAgree
<1>4. CASE k = c.gives.kind
  <2>1. ClaimsOn(T \cup {c}, k) = U \cup {c}
    BY <1>4 DEF ClaimsOn
  <2>2. Sum(e, U \cup {c}) = e[c] + Sum(e, U)
    <3>1. \A d \in U \cup {c} : e[d] \in Int
      BY <1>2 DEF ClaimsOn
    <3> HIDE DEF e, U
    <3> QED
      BY <1>1, <3>1, SumAdds
  <2>3. Sum(e, U) \in Int
    <3>1. \A d \in U : e[d] \in Int
      BY <1>2 DEF ClaimsOn
    <3> HIDE DEF e, U
    <3> QED
      BY <1>1, <3>1, SumType
  <2>4. e[c] = c.gives.qty /\ e[c] \in Int
    BY <1>2
  <2>5. Sum(e, U \cup {c}) = Sum(Worth(T), U) + c.gives.qty
    <3> HIDE DEF e, U
    <3> QED
      BY <1>3, <2>2, <2>3, <2>4
  <2> QED
    BY <1>4, <2>1, <2>5
<1>5. CASE k # c.gives.kind
  <2>1. ClaimsOn(T \cup {c}, k) = U
    BY <1>5 DEF ClaimsOn
  <2>2. Sum(Worth(T), U) \in Int
    <3>1. \A d \in U : Worth(T)[d] \in Int
      BY <1>2 DEF ClaimsOn, Worth
    <3> HIDE DEF U
    <3> QED
      BY <1>1, <3>1, SumType
  <2> QED
    BY <1>3, <1>5, <2>1, <2>2
<1> QED
  BY <1>4, <1>5

\* Both are integers.
LEMMA SumsAreInts ==
    ASSUME NEW ledgers \in [Agent -> [Kind -> Int]], NEW T \in SUBSET Payable,
           IsFiniteSet(T), NEW k \in Kind
    PROVE  /\ Sum(Share(ledgers, k), Agent) \in Int
           /\ Sum(Worth(T), ClaimsOn(T, k)) \in Int
<1>1. \A a \in Agent : Share(ledgers, k)[a] \in Int
  BY DEF Share
<1>2. \A d \in ClaimsOn(T, k) : Worth(T)[d] \in Int
  BY DEF ClaimsOn, Worth, Payable, Claim, Resource
<1>3. IsFiniteSet(ClaimsOn(T, k)) /\ IsFiniteSet(Agent)
  BY FS_Subset, BarterAssumption DEF ClaimsOn
<1> QED
  BY <1>1, <1>2, <1>3, SumType

\* What an Escrow keeps: claims are payable and finitely many, and all balances.
Books ==
    /\ balance \in [Agent -> [Kind -> Int]]
    /\ transit \in SUBSET Payable
    /\ IsFiniteSet(transit)
    /\ Balanced(balance, transit)

\* What a payment takes off the ledger is what its claim is worth.
LEMMA PayBalances ==
    ASSUME Books, NEW c \in Payable, Ledgers!Pay(c)
    PROVE  Books'
<1>1. /\ c.from \in Agent /\ c.gives.kind \in Kind /\ c.gives.qty \in Int
      /\ c \notin transit /\ transit' = transit \cup {c}
      /\ balance' = Moved(balance, c.from, c.gives.kind, 0 - c.gives.qty)
      /\ balance' \in [Agent -> [Kind -> Int]]
  <2>1. c.from \in Agent /\ c.gives.kind \in Kind /\ c.gives.qty \in Int
    BY DEF Payable, Claim, Resource
  <2>2. balance' = [balance EXCEPT ![c.from][c.gives.kind] = @ - c.gives.qty]
    BY DEF Ledgers!Pay
  <2>3. balance[c.from][c.gives.kind] \in Int
    BY <2>1 DEF Books
  <2>4. balance[c.from][c.gives.kind] - c.gives.qty
          = balance[c.from][c.gives.kind] + (0 - c.gives.qty)
    BY <2>1, <2>3
  <2>5. balance' \in [Agent -> [Kind -> Int]]
    BY <2>1, <2>2 DEF Books
  <2> QED
    BY <2>1, <2>2, <2>4, <2>5 DEF Ledgers!Pay, Moved
<1>2. /\ balance' \in [Agent -> [Kind -> Int]] /\ transit' \in SUBSET Payable
      /\ IsFiniteSet(transit')
  BY <1>1, FS_AddElement DEF Books
<1>3. Balanced(balance, transit)'
  <2> SUFFICES ASSUME NEW k \in Kind
               PROVE  Sum(Share(balance', k), Agent)
                        + Sum(Worth(transit'), ClaimsOn(transit', k))
                      = Sum(Share(Endowment, k), Agent)
    BY DEF Balanced
  <2> DEFINE held == Sum(Share(balance, k), Agent)
             claimed == Sum(Worth(transit), ClaimsOn(transit, k))
             q == IF k = c.gives.kind THEN c.gives.qty ELSE 0
  <2>1. Sum(Share(balance', k), Agent)
          = held + (IF k = c.gives.kind THEN 0 - c.gives.qty ELSE 0)
    <3> DEFINE less == 0 - c.gives.qty
    <3>1. balance' = Moved(balance, c.from, c.gives.kind, less) /\ less \in Int
      BY <1>1
    <3> HIDE DEF less
    <3>2. Sum(Share(balance', k), Agent)
            = held + (IF k = c.gives.kind THEN less ELSE 0)
      BY <1>1, <3>1, ShareMoves DEF Books
    <3> QED
      BY <3>2 DEF less
  <2>2. Sum(Worth(transit'), ClaimsOn(transit', k)) = claimed + q
    BY <1>1, ClaimAdds DEF Books
  <2>3. held \in Int /\ claimed \in Int /\ q \in Int
    BY <1>1, SumsAreInts DEF Books
  <2>4. held + claimed = Sum(Share(Endowment, k), Agent)
    BY DEF Books, Balanced
  <2>5. (IF k = c.gives.kind THEN 0 - c.gives.qty ELSE 0) = 0 - q
    BY <1>1
  <2> HIDE DEF held, claimed, q
  <2>6. Sum(Share(balance', k), Agent) = held - q
    BY <2>1, <2>3, <2>5
  <2>7. (held - q) + (claimed + q) = held + claimed
    BY <2>3
  <2> QED
    BY <2>2, <2>4, <2>6, <2>7
<1> QED
  BY <1>2, <1>3 DEF Books

\* What collecting a claim puts on the ledger is what it was worth.
LEMMA CollectBalances ==
    ASSUME Books, NEW c \in transit, Ledgers!Collect(c)
    PROVE  Books'
<1>1. /\ c \in Payable
      /\ c.to \in Agent /\ c.gives.kind \in Kind /\ c.gives.qty \in Int
      /\ c \notin transit' /\ transit = transit' \cup {c}
      /\ balance' = Moved(balance, c.to, c.gives.kind, c.gives.qty)
      /\ balance' \in [Agent -> [Kind -> Int]]
  BY DEF Ledgers!Collect, Books, Payable, Claim, Resource, Moved
<1>2. /\ balance' \in [Agent -> [Kind -> Int]] /\ transit' \in SUBSET Payable
      /\ IsFiniteSet(transit')
  BY <1>1, FS_Subset DEF Books
<1>3. Balanced(balance, transit)'
  <2> SUFFICES ASSUME NEW k \in Kind
               PROVE  Sum(Share(balance', k), Agent)
                        + Sum(Worth(transit'), ClaimsOn(transit', k))
                      = Sum(Share(Endowment, k), Agent)
    BY DEF Balanced
  <2> DEFINE held == Sum(Share(balance, k), Agent)
             claimed == Sum(Worth(transit'), ClaimsOn(transit', k))
             q == IF k = c.gives.kind THEN c.gives.qty ELSE 0
  <2>1. Sum(Share(balance', k), Agent) = held + q
    BY <1>1, ShareMoves DEF Books
  <2>2. Sum(Worth(transit), ClaimsOn(transit, k)) = claimed + q
    BY <1>1, <1>2, ClaimAdds
  <2>3. held \in Int /\ claimed \in Int /\ q \in Int
    BY <1>1, <1>2, SumsAreInts DEF Books
  <2>4. held + (claimed + q) = Sum(Share(Endowment, k), Agent)
    BY <2>2 DEF Books, Balanced
  <2> HIDE DEF held, claimed, q
  <2>5. (held + q) + claimed = held + (claimed + q)
    BY <2>3
  <2> QED
    BY <2>1, <2>4, <2>5 DEF claimed
<1> QED
  BY <1>2, <1>3 DEF Books

\* Every step of Escrow keeps the books balanced.
LEMMA BooksNext == Books /\ [Ledgers!Next]_(Ledgers!vars) => Books'
<1> SUFFICES ASSUME Books, [Ledgers!Next]_(Ledgers!vars)
             PROVE  Books'
  OBVIOUS
<1>1. CASE UNCHANGED Ledgers!vars
  BY <1>1 DEF Ledgers!vars, Books
<1>2. CASE Ledgers!Next
  BY <1>2, PayBalances, CollectBalances DEF Ledgers!Next
<1> QED
  BY <1>1, <1>2

\* They are when nobody has paid anything.
LEMMA BooksInit == Ledgers!Init => Books
<1> SUFFICES ASSUME Ledgers!Init PROVE Books
  OBVIOUS
<1>1. balance = Endowment /\ transit = {}
  BY DEF Ledgers!Init
<1>2. Endowment \in [Agent -> [Kind -> Int]] /\ IsFiniteSet({}) /\ {} \in SUBSET Payable
  BY BarterAssumption, FS_EmptySet
<1>3. \A k \in Kind : Sum(Worth({}), ClaimsOn({}, k)) = 0
  BY SumEmpty DEF ClaimsOn
<1>4. \A k \in Kind : Sum(Share(Endowment, k), Agent) \in Int
  BY <1>2, SumsAreInts
<1> QED
  BY <1>1, <1>2, <1>3, <1>4 DEF Books, Balanced

\* The abstract specification keeps its promise: an Escrow neither creates nor
\* destroys, whatever agents, kinds, claims and endowment it is given.
THEOREM EscrowConserves == ImplementsEscrow => []MeshConserves
<1>1. Books => MeshConserves
  BY TotalIsSum, ClaimedIsSum DEF Books, Balanced, MeshConserves, Ledgers!Conserved
<1> QED
  BY <1>1, BooksInit, BooksNext, PTL DEF ImplementsEscrow, Ledgers!Spec

\* So the mesh does: if Offers are delivered once, ledgers and unpaid claims hold
\* at every moment exactly what the agents started with.
THEOREM MeshConserved == "Offer" \notin Redelivered => (Spec => []MeshConserves)
BY EscrowImplemented, EscrowConserves

-----------------------------------------------------------------------------
(* Both ends of a trade agree.                                             *)

\* Nobody deals with itself, or is bound to its own offer.
NoOwnCounterparty ==
    /\ NoSelfDealing
    /\ \A a \in Agent, n \in Nonce :
          proposed[a][n] # NoTrade => proposed[a][n].peer # a

\* Nothing is said, promised or expected under a nonce not yet drawn.
Drawn ==
    \A a \in Agent :
        /\ \A m \in inbox[a] : m.nonce <= issued
        /\ \A n \in Nonce : n > issued =>
              /\ accepted[a][n] = NoTrade
              /\ proposed[a][n] = NoTrade
              /\ duties[a][n] = NoDuty

\* Every Offer and Accept under nonce n is of owner's offer of g for w.
Said(n, owner, g, w) ==
    \A a \in Agent : \A m \in inbox[a] : m.nonce = n =>
        /\ m.type = "Offer" => m.from = owner /\ m.gives = g /\ m.wants = w
        /\ m.type = "Accept" => a = owner /\ m.gives = g /\ m.wants = w

\* So is every trade in a book under n.
Booked(n, owner, g, w) ==
    \A a \in Agent :
        /\ accepted[a][n] # NoTrade =>
              accepted[a][n].peer = owner /\ accepted[a][n].expect = g
        /\ proposed[a][n] # NoTrade => a = owner /\ proposed[a][n].expect = w

\* And every promise: the owner owes g to whom it bound, the others owe it w.
Promised(n, owner, g, w) ==
    \A a \in Agent : duties[a][n] # NoDuty =>
        /\ a = owner =>
              /\ duties[a][n].gives = g
              /\ proposed[a][n] # NoTrade =>
                    duties[a][n].to = proposed[a][n].peer
        /\ a # owner => duties[a][n].to = owner /\ duties[a][n].gives = w

About(n, owner, g, w) ==
    Said(n, owner, g, w) /\ Booked(n, owner, g, w) /\ Promised(n, owner, g, w)

TermsInv ==
    /\ NoOwnCounterparty
    /\ Drawn
    /\ \A n \in Nonce : \E owner, g, w : About(n, owner, g, w)

\* The state after a step that says nothing and may only drop trades.
LEMMA TermsQuiet ==
    ASSUME TypeOK, TermsInv,
           issued' = issued,
           \A b \in Agent : inbox'[b] \subseteq inbox[b],
           \A b \in Agent, n \in Nonce :
               /\ accepted'[b][n] \in {accepted[b][n], NoTrade}
               /\ proposed'[b][n] \in {proposed[b][n], NoTrade}
               /\ duties'[b][n] \in {duties[b][n], NoDuty}
    PROVE  TermsInv'
<1>1. NoOwnCounterparty'
  BY DEF TermsInv, NoOwnCounterparty, NoSelfDealing
<1>2. Drawn'
  BY DEF TermsInv, Drawn
<1>3. ASSUME NEW n \in Nonce, NEW owner, NEW g, NEW w,
             About(n, owner, g, w)
      PROVE  About(n, owner, g, w)'
  <2>1. Said(n, owner, g, w)'
    BY <1>3 DEF About, Said
  <2>2. Booked(n, owner, g, w)'
    BY <1>3 DEF About, Booked
  <2>3. Promised(n, owner, g, w)'
    BY <1>3 DEF About, Promised
  <2> QED
    BY <2>1, <2>2, <2>3 DEF About
<1> QED
  BY <1>1, <1>2, <1>3 DEF TermsInv

\* Messages set aside.
LEMMA TermsDropped ==
    ASSUME TypeOK, TermsInv, NEW a \in Agent, NEW m \in inbox[a], Consume(a, m),
           UNCHANGED <<accepted, proposed, issued, duties>>
    PROVE  TermsInv'
<1>1. \A b \in Agent : inbox'[b] \subseteq inbox[b]
  BY RestType DEF TypeOK, Consume
<1> QED
  BY <1>1, TermsQuiet

\* A fresh nonce is about the offer made under it.
LEMMA TermsPropose ==
    ASSUME TypeOK, TermsInv, NEW a \in Agent, ProposeOffer(a)
    PROVE  TermsInv'
<1> PICK t \in Terms :
        /\ issued < MaxNonce
        /\ issued' = issued + 1
        /\ proposed' = [proposed EXCEPT ![a][issued + 1] =
                [peer |-> Nobody, expect |-> t.wants, openedAt |-> cycle[a]]]
        /\ inbox' = [b \in Agent |->
                IF b = a THEN inbox[b]
                ELSE inbox[b] \cup
                     {[type |-> "Offer", from |-> a, gives |-> t.gives,
                       wants |-> t.wants, nonce |-> issued + 1]}]
        /\ UNCHANGED <<balance, accepted, pins, reputation, duties, cycle, history>>
  BY DEF ProposeOffer
<1> PICK n0 \in Nonce : n0 = issued + 1
  BY BarterAssumption DEF TypeOK, Nonce
<1> DEFINE offer == [type |-> "Offer", from |-> a, gives |-> t.gives,
                     wants |-> t.wants, nonce |-> n0]
           trade == [peer |-> Nobody, expect |-> t.wants, openedAt |-> cycle[a]]
<1>1. /\ n0 \in Nonce /\ issued \in Nat /\ n0 > issued
      /\ \A n \in Nonce : n \in Nat
      /\ t.gives \in Resource /\ t.wants \in Resource
  BY BarterAssumption DEF TypeOK, Nonce
<1>2. \A b \in Agent : \A m \in inbox'[b] : m \in inbox[b] \/ (m = offer /\ b # a)
  BY DEF TypeOK
<1>3. \A b \in Agent, n \in Nonce :
        proposed'[b][n] = IF b = a /\ n = n0 THEN trade ELSE proposed[b][n]
  BY <1>1 DEF TypeOK
<1>4. \A b \in Agent : \A m \in inbox[b] : m.nonce <= issued /\ m.nonce \in Nat
  <2>1. \A b \in Agent : \A m \in inbox[b] : m.nonce \in Nonce
    BY DEF TypeOK, Message
  <2> QED
    BY <1>1, <2>1 DEF TermsInv, Drawn
<1>5. NoOwnCounterparty'
  <2>1. offer.from = a /\ trade.peer = Nobody
    OBVIOUS
  <2>2. NoSelfDealing'
    BY <1>2, <2>1 DEF TermsInv, NoOwnCounterparty, NoSelfDealing
  <2>3. \A b \in Agent, n \in Nonce :
            proposed'[b][n] # NoTrade => proposed'[b][n].peer # b
    BY <1>3, <2>1, BarterAssumption DEF TermsInv, NoOwnCounterparty
  <2> QED
    BY <2>2, <2>3 DEF NoOwnCounterparty
<1>6. Drawn'
  <2>1. \A b \in Agent : \A m \in inbox'[b] : m.nonce <= issued'
    BY <1>1, <1>2, <1>4
  <2>2. \A b \in Agent, n \in Nonce : n > issued' =>
            /\ n > issued
            /\ proposed'[b][n] = proposed[b][n]
    BY <1>1, <1>3
  <2> QED
    BY <2>1, <2>2 DEF TermsInv, Drawn
<1>7. About(n0, a, t.gives, t.wants)'
  <2>1. \A b \in Agent : \A m \in inbox'[b] : m.nonce = n0 => m = offer
    BY <1>1, <1>2, <1>4
  <2>2. \A b \in Agent :
            /\ accepted[b][n0] = NoTrade /\ duties[b][n0] = NoDuty
            /\ proposed[b][n0] = NoTrade
    BY <1>1 DEF TermsInv, Drawn
  <2>3. Said(n0, a, t.gives, t.wants)'
    BY <2>1 DEF Said
  <2>4. Booked(n0, a, t.gives, t.wants)'
    BY <1>1, <1>3, <2>2 DEF Booked
  <2>5. Promised(n0, a, t.gives, t.wants)'
    BY <2>2 DEF Promised
  <2> QED
    BY <2>3, <2>4, <2>5 DEF About
<1>8. ASSUME NEW n \in Nonce, n # n0, NEW owner, NEW g, NEW w,
             About(n, owner, g, w)
      PROVE  About(n, owner, g, w)'
  <2>1. Said(n, owner, g, w)'
    BY <1>2, <1>8 DEF About, Said
  <2>2. \A b \in Agent : proposed'[b][n] = proposed[b][n]
    BY <1>3, <1>8
  <2>3. Booked(n, owner, g, w)'
    BY <1>8, <2>2 DEF About, Booked
  <2>4. Promised(n, owner, g, w)'
    BY <1>8, <2>2 DEF About, Promised
  <2> QED
    BY <2>1, <2>3, <2>4 DEF About
<1>9. ASSUME NEW n \in Nonce
      PROVE  \E owner, g, w : About(n, owner, g, w)'
  <2>1. CASE n = n0
    BY <1>1, <1>7, <2>1
  <2>2. CASE n # n0
    BY <1>8, <2>2 DEF TermsInv
  <2> QED
    BY <2>1, <2>2
<1> QED
  BY <1>5, <1>6, <1>9 DEF TermsInv

\* Taking an offer records, promises and answers what the offer says.
LEMMA TermsAccept ==
    ASSUME TypeOK, TermsInv, NEW a \in Agent, AcceptOffer(a)
    PROVE  TermsInv'
<1> PICK m \in inbox[a] :
        /\ Arrives(a, m, "Offer")
        /\ accepted' = [accepted EXCEPT ![a][m.nonce] = PendingTradeOf(a, m)]
        /\ duties' = [duties EXCEPT ![a][m.nonce] =
                        [to |-> m.from, gives |-> m.wants]]
        /\ inbox' = [inbox EXCEPT ![a] = Rest(a, m),
                                  ![m.from] = @ \cup {AcceptOf(a, m)}]
        /\ UNCHANGED <<balance, proposed, reputation, cycle, issued, history>>
  BY DEF AcceptOffer
<1> DEFINE n0 == m.nonce
           trade == PendingTradeOf(a, m)
           duty == [to |-> m.from, gives |-> m.wants]
           answer == AcceptOf(a, m)
<1>1. /\ m \in Message /\ n0 \in Nonce /\ m.from \in Agent
      /\ m.from # a /\ m.type = "Offer" /\ n0 <= issued
  BY DEF TypeOK, Message, TermsInv, NoOwnCounterparty, NoSelfDealing, Drawn,
         Arrives
<1>2. \A b \in Agent : \A o \in inbox'[b] :
        o \in inbox[b] \/ (o = answer /\ b = m.from)
  BY <1>1, RestType DEF TypeOK
<1>3. \A b \in Agent, n \in Nonce :
        /\ accepted'[b][n] = IF b = a /\ n = n0 THEN trade ELSE accepted[b][n]
        /\ duties'[b][n] = IF b = a /\ n = n0 THEN duty ELSE duties[b][n]
  BY <1>1 DEF TypeOK
<1>4. /\ answer.type = "Accept" /\ answer.from = a /\ answer.nonce = n0
      /\ answer.gives = m.gives /\ answer.wants = m.wants
      /\ trade.peer = m.from /\ trade.expect = m.gives
      /\ duty.to = m.from /\ duty.gives = m.wants
  BY DEF AcceptOf, PendingTradeOf
<1> HIDE DEF trade, duty, answer
<1>5. UNCHANGED <<proposed, issued>>
  OBVIOUS
<1>6. NoOwnCounterparty'
  <2>1. \A b \in Agent : \A o \in inbox'[b] : o.from # b
    BY <1>1, <1>2, <1>4 DEF TermsInv, NoOwnCounterparty, NoSelfDealing
  <2>2. \A b \in Agent, n \in Nonce :
            duties'[b][n] # NoDuty => duties'[b][n].to # b
    BY <1>1, <1>3, <1>4 DEF TermsInv, NoOwnCounterparty, NoSelfDealing
  <2> QED
    BY <1>5, <2>1, <2>2 DEF TermsInv, NoOwnCounterparty, NoSelfDealing
<1>7. Drawn'
  <2>1. \A b \in Agent : \A o \in inbox'[b] : o.nonce <= issued'
    BY <1>1, <1>2, <1>4, <1>5 DEF TermsInv, Drawn
  <2>2. n0 \in Nat /\ issued \in Nat
    BY <1>1 DEF TypeOK, Nonce
  <2>3. \A b \in Agent, n \in Nonce : n > issued =>
            accepted'[b][n] = accepted[b][n] /\ duties'[b][n] = duties[b][n]
    <3>1. \A n \in Nonce : n > issued => n # n0
      BY <1>1, <2>2
    <3> QED
      BY <1>3, <3>1
  <2>4. \A b \in Agent, n \in Nonce : n > issued' =>
            /\ accepted'[b][n] = NoTrade
            /\ proposed'[b][n] = NoTrade
            /\ duties'[b][n] = NoDuty
    BY <1>5, <2>3 DEF TermsInv, Drawn
  <2> QED
    BY <2>1, <2>4 DEF Drawn
<1>8. ASSUME NEW n \in Nonce, NEW owner, NEW g, NEW w,
             About(n, owner, g, w)
      PROVE  About(n, owner, g, w)'
  <2>1. n = n0 => m.from = owner /\ m.gives = g /\ m.wants = w /\ a # owner
    BY <1>1, <1>8 DEF About, Said
  <2>2. Said(n, owner, g, w)'
    BY <1>2, <1>4, <1>8, <2>1 DEF About, Said
  <2>3. Booked(n, owner, g, w)'
    BY <1>3, <1>4, <1>5, <1>8, <2>1 DEF About, Booked
  <2>4. Promised(n, owner, g, w)'
    BY <1>3, <1>4, <1>5, <1>8, <2>1 DEF About, Promised
  <2> QED
    BY <2>2, <2>3, <2>4 DEF About
<1> QED
  BY <1>6, <1>7, <1>8 DEF TermsInv

\* Binding records and promises what the Accept repeats of the offer.
LEMMA TermsBind ==
    ASSUME TypeOK, TermsInv, NEW a \in Agent, BindAccept(a)
    PROVE  TermsInv'
<1> PICK m \in inbox[a] :
        /\ Arrives(a, m, "Accept")
        /\ Bindable(a, m)
        /\ proposed' = [proposed EXCEPT ![a][m.nonce].peer = m.from]
        /\ duties' = [duties EXCEPT ![a][m.nonce] =
                        [to |-> m.from, gives |-> m.gives]]
        /\ Consume(a, m)
        /\ UNCHANGED <<balance, accepted, reputation, cycle, issued, history>>
  BY DEF BindAccept
<1> DEFINE n0 == m.nonce
           duty == [to |-> m.from, gives |-> m.gives]
<1>1. /\ m \in Message /\ n0 \in Nonce /\ m.from \in Agent
      /\ m.from # a /\ m.type = "Accept" /\ n0 <= issued
  BY DEF TypeOK, Message, TermsInv, NoOwnCounterparty, NoSelfDealing, Drawn,
         Arrives
<1>2. \A b \in Agent : inbox'[b] \subseteq inbox[b]
  BY <1>1, RestType DEF TypeOK, Consume
<1>3. /\ proposed[a][n0] # NoTrade
      /\ proposed'[a][n0].peer = m.from
      /\ proposed'[a][n0].expect = proposed[a][n0].expect
  <2>1. proposed[a][n0] \in PendingTrade /\ proposed[a][n0] # NoTrade
    BY <1>1 DEF TypeOK, Bindable
  <2>2. proposed'[a][n0] = [proposed[a][n0] EXCEPT !.peer = m.from]
    BY <1>1 DEF TypeOK
  <2> QED
    BY <2>1, <2>2 DEF PendingTrade
<1>4. \A b \in Agent, n \in Nonce : ~(b = a /\ n = n0) =>
        proposed'[b][n] = proposed[b][n] /\ duties'[b][n] = duties[b][n]
  BY <1>1 DEF TypeOK
<1>5. duties'[a][n0] = duty /\ duty.to = m.from /\ duty.gives = m.gives
  BY <1>1 DEF TypeOK
<1>6. UNCHANGED <<accepted, issued>>
  OBVIOUS
<1> HIDE DEF duty
<1>7. NoOwnCounterparty'
  BY <1>1, <1>2, <1>3, <1>4 DEF TermsInv, NoOwnCounterparty, NoSelfDealing
<1>8. Drawn'
  <2>1. n0 \in Nat /\ issued \in Nat
    BY <1>1 DEF TypeOK, Nonce
  <2>2. \A b \in Agent, n \in Nonce : n > issued =>
            proposed'[b][n] = proposed[b][n] /\ duties'[b][n] = duties[b][n]
    BY <1>1, <1>4, <2>1
  <2> QED
    BY <1>2, <1>6, <2>2 DEF TermsInv, Drawn
<1>9. ASSUME NEW n \in Nonce, NEW owner, NEW g, NEW w,
             About(n, owner, g, w)
      PROVE  About(n, owner, g, w)'
  <2>1. n = n0 => a = owner /\ m.gives = g
    BY <1>1, <1>9 DEF About, Said
  <2>2. Said(n, owner, g, w)'
    BY <1>2, <1>9 DEF About, Said
  <2>3. Booked(n, owner, g, w)'
    BY <1>3, <1>4, <1>6, <1>9 DEF About, Booked
  <2>4. Promised(n, owner, g, w)'
    BY <1>3, <1>4, <1>5, <1>9, <2>1 DEF About, Promised
  <2> QED
    BY <2>2, <2>3, <2>4 DEF About
<1> QED
  BY <1>7, <1>8, <1>9 DEF TermsInv

\* A delivery fulfils a promise and says nothing about the terms.
LEMMA TermsDeliver ==
    ASSUME TypeOK, TermsInv, NEW a \in Agent, Deliver(a)
    PROVE  TermsInv'
<1> PICK n0 \in {k \in Nonce : duties[a][k] # NoDuty} :
    \E q \in 0 .. duties[a][n0].gives.qty :
        LET duty == duties[a][n0]
            paid == [kind |-> duty.gives.kind, qty |-> q]
            settle == [type |-> "Settle", from |-> a, gives |-> paid,
                       wants |-> [paid EXCEPT !.qty = 0], nonce |-> n0]
        IN  /\ inbox' = [inbox EXCEPT ![duty.to] = @ \cup {settle}]
            /\ duties' = [duties EXCEPT ![a][n0] = NoDuty]
            /\ UNCHANGED <<accepted, proposed, issued>>
  BY DEF Deliver
<1> PICK q \in 0 .. duties[a][n0].gives.qty :
        LET duty == duties[a][n0]
            paid == [kind |-> duty.gives.kind, qty |-> q]
            settle == [type |-> "Settle", from |-> a, gives |-> paid,
                       wants |-> [paid EXCEPT !.qty = 0], nonce |-> n0]
        IN  /\ inbox' = [inbox EXCEPT ![duty.to] = @ \cup {settle}]
            /\ duties' = [duties EXCEPT ![a][n0] = NoDuty]
            /\ UNCHANGED <<accepted, proposed, issued>>
  OBVIOUS
<1> DEFINE paid == [kind |-> duties[a][n0].gives.kind, qty |-> q]
           settle == [type |-> "Settle", from |-> a, gives |-> paid,
                      wants |-> [paid EXCEPT !.qty = 0], nonce |-> n0]
<1>1. n0 \in Nonce /\ n0 <= issued /\ duties[a][n0].to # a
  <2>1. n0 \in Nonce /\ duties[a][n0] # NoDuty /\ n0 \in Nat /\ issued \in Nat
    BY DEF TypeOK, Nonce
  <2> QED
    BY <2>1 DEF TermsInv, Drawn, NoOwnCounterparty, NoSelfDealing
<1>2. settle.type = "Settle" /\ settle.from = a /\ settle.nonce = n0
  OBVIOUS
<1>3. \A b \in Agent : \A o \in inbox'[b] :
        o \in inbox[b] \/ (o = settle /\ b = duties[a][n0].to)
  BY DEF TypeOK
<1>4. \A b \in Agent, n \in Nonce : duties'[b][n] \in {duties[b][n], NoDuty}
  BY DEF TypeOK
<1>5. UNCHANGED <<accepted, proposed, issued>>
  OBVIOUS
<1> HIDE DEF settle
<1>6. NoOwnCounterparty'
  BY <1>1, <1>2, <1>3, <1>4, <1>5 DEF TermsInv, NoOwnCounterparty, NoSelfDealing
<1>7. Drawn'
  BY <1>1, <1>2, <1>3, <1>4, <1>5 DEF TermsInv, Drawn
<1>8. ASSUME NEW n \in Nonce, NEW owner, NEW g, NEW w,
             About(n, owner, g, w)
      PROVE  About(n, owner, g, w)'
  <2>1. Said(n, owner, g, w)'
    BY <1>2, <1>3, <1>8 DEF About, Said
  <2>2. Booked(n, owner, g, w)'
    BY <1>5, <1>8 DEF About, Booked
  <2>3. Promised(n, owner, g, w)'
    BY <1>4, <1>5, <1>8 DEF About, Promised
  <2> QED
    BY <2>1, <2>2, <2>3 DEF About
<1> QED
  BY <1>6, <1>7, <1>8 DEF TermsInv

\* The start, and every step.
LEMMA TermsInit == Init => TermsInv
<1> SUFFICES ASSUME Init
             PROVE  TermsInv
  OBVIOUS
<1>1. NoOwnCounterparty /\ Drawn
  BY DEF Init, NoOwnCounterparty, NoSelfDealing, Drawn
<1>2. ASSUME NEW n \in Nonce
      PROVE  \E owner, g, w : About(n, owner, g, w)
  BY DEF Init, About, Said, Booked, Promised
<1> QED
  BY <1>1, <1>2 DEF TermsInv

\* Every step keeps both ends of every trade about one offer.
LEMMA TermsNext == TypeOK /\ TermsInv /\ [Next]_vars => TermsInv'
<1> SUFFICES ASSUME TypeOK, TermsInv, [Next]_vars
             PROVE  TermsInv'
  OBVIOUS
<1>1. ASSUME NEW a \in Agent, Step(a)
      PROVE  TermsInv'
  <2>1. CASE ProposeOffer(a)
    BY <2>1, TermsPropose
  <2>2. CASE AcceptOffer(a)
    BY <2>2, TermsAccept
  <2>3. CASE DeclineOffer(a)
    BY <2>3, TermsDropped DEF DeclineOffer
  <2>4. CASE BindAccept(a)
    BY <2>4, TermsBind
  <2>5. CASE IgnoreAccept(a)
    BY <2>5, TermsDropped DEF IgnoreAccept
  <2>6. CASE Deliver(a)
    BY <2>6, TermsDeliver
  <2>7. CASE CreditSettle(a)
    <3> PICK m \in inbox[a] :
            /\ accepted' = AcceptedAfter(a, m)
            /\ proposed' = ProposedAfter(a, m)
            /\ Consume(a, m)
            /\ UNCHANGED <<duties, issued>>
      BY <2>7 DEF CreditSettle
    <3>1. \A b \in Agent : inbox'[b] \subseteq inbox[b]
      BY RestType DEF TypeOK, Consume
    <3>2. \A b \in Agent, n \in Nonce :
            /\ accepted'[b][n] \in {accepted[b][n], NoTrade}
            /\ proposed'[b][n] \in {proposed[b][n], NoTrade}
      BY DEF TypeOK, Message, AcceptedAfter, ProposedAfter
    <3> QED
      BY <3>1, <3>2, TermsQuiet
  <2>8. CASE RejectSettle(a)
    BY <2>8, TermsDropped DEF RejectSettle
  <2>9. CASE SweepTimeouts(a)
    <3>1. \A b \in Agent, n \in Nonce :
            /\ accepted'[b][n] \in {accepted[b][n], NoTrade}
            /\ proposed'[b][n] \in {proposed[b][n], NoTrade}
      BY <2>9 DEF SweepTimeouts, TypeOK, Without
    <3>2. UNCHANGED <<duties, inbox, issued>>
      BY <2>9 DEF SweepTimeouts
    <3> QED
      BY <3>1, <3>2, TermsQuiet
  <2>10. CASE Tick(a)
    BY <2>10, TermsQuiet DEF Tick, negotiators
  <2> QED
    BY <1>1, <2>1, <2>2, <2>3, <2>4, <2>5, <2>6, <2>7, <2>8, <2>9, <2>10
       DEF Step
<1>2. CASE UNCHANGED vars
  BY <1>2, TermsQuiet DEF vars, negotiators
<1> QED
  BY <1>1, <1>2 DEF Next

\* Two agents holding the two ends of a nonce agree on it, whatever is lost,
\* reordered or delivered again, an Offer included.
THEOREM EndsAgree == Spec => []TermsAgree
<1>1. TypeOK /\ TermsInv => TermsAgree
  <2> SUFFICES ASSUME TypeOK, TermsInv
               PROVE  TermsAgree
    OBVIOUS
  <2>1. ASSUME NEW a \in Agent, NEW b \in Agent, NEW n \in Nonce,
               proposed[a][n] # NoTrade, proposed[a][n].peer = b,
               accepted[b][n] # NoTrade
        PROVE  /\ accepted[b][n].peer = a
               /\ duties[a][n] # NoDuty =>
                     /\ duties[a][n].to = b
                     /\ duties[a][n].gives = accepted[b][n].expect
               /\ duties[b][n] # NoDuty =>
                     /\ duties[b][n].to = a
                     /\ duties[b][n].gives = proposed[a][n].expect
    <3>1. PICK owner, g, w : About(n, owner, g, w)
      BY DEF TermsInv
    <3> QED
      BY <2>1, <3>1 DEF TermsInv, NoOwnCounterparty, About, Booked, Promised
  <2>2. \A a \in Agent, n \in Nonce : duties[a][n] # NoDuty =>
            duties[a][n] = [to |-> duties[a][n].to, gives |-> duties[a][n].gives]
    BY DEF TypeOK, Duty
  <2> SUFFICES ASSUME NEW a \in Agent, NEW b \in Agent, NEW n \in Nonce,
                      proposed[a][n] # NoTrade, proposed[a][n].peer = b,
                      accepted[b][n] # NoTrade
               PROVE  /\ accepted[b][n].peer = a
                      /\ duties[a][n]
                            \in {NoDuty, [to |-> b, gives |-> accepted[b][n].expect]}
                      /\ duties[b][n]
                            \in {NoDuty, [to |-> a, gives |-> proposed[a][n].expect]}
    BY Zenon DEF TermsAgree
  <2>3. duties[a][n] # NoDuty =>
            duties[a][n] = [to |-> b, gives |-> accepted[b][n].expect]
    BY <2>1, <2>2
  <2>4. duties[b][n] # NoDuty =>
            duties[b][n] = [to |-> a, gives |-> proposed[a][n].expect]
    BY <2>1, <2>2
  <2> QED
    BY <2>1, <2>3, <2>4
<1> QED
  BY <1>1, TermsInit, TermsNext, TypeCorrect, PTL DEF Spec
-----------------------------------------------------------------------------
(* Nobody is blamed for nothing.                                           *)

Offered(n) == \E a \in Agent : OfferWaiting(a, n)

AnswerWaiting(a, n) == \E m \in inbox[a] : m.type = "Accept" /\ m.nonce = n

\* b still has to deliver, or what it delivered is on its way to a.
Comes(a, b, n) ==
    \/ duties[b][n] # NoDuty
    \/ \E m \in inbox[a] : m.type = "Settle" /\ m.from = b /\ m.nonce = n

\* A trade nothing went wrong with was opened in the cycle its agent is still
\* in, and what would settle it is underway.
AcceptedInTime(n) ==
    \A a \in Agent : accepted[a][n] # NoTrade =>
        LET peer == accepted[a][n].peer
        IN  /\ accepted[a][n].openedAt = cycle[a]
            /\ Comes(a, peer, n) \/ (AnswerWaiting(peer, n) /\ Unbound(peer, n))

UnboundInTime(n) ==
    \A a \in Agent : Unbound(a, n) =>
        /\ Offered(n) \/ AnswerWaiting(a, n) => proposed[a][n].openedAt = cycle[a]
        /\ \A m \in inbox[a] :
              m.type = "Accept" /\ m.nonce = n => Comes(a, m.from, n)

BoundInTime(n) ==
    \A a \in Agent : proposed[a][n] # NoTrade /\ ~Unbound(a, n) =>
        /\ proposed[a][n].openedAt = cycle[a]
        /\ Comes(a, proposed[a][n].peer, n)

OfferedInTime(n) ==
    \A a \in Agent : \A m \in inbox[a] :
        m.type = "Offer" /\ m.nonce = n => Unbound(m.from, n)

PaidInFull(n) ==
    \A a \in Agent : \A m \in inbox[a] : m.type = "Settle" /\ m.nonce = n =>
        /\ accepted[a][n] # NoTrade => m.gives = accepted[a][n].expect
        /\ proposed[a][n] # NoTrade => m.gives = proposed[a][n].expect

NeverStruck(n) == \A a, b \in Agent : n \notin strikes[a][b]

InTime(n) ==
    /\ NeverStruck(n)
    /\ AcceptedInTime(n)
    /\ UnboundInTime(n)
    /\ BoundInTime(n)
    /\ OfferedInTime(n)
    /\ PaidInFull(n)

\* An offer still waiting is all there is of its trade outside the proposer.
Untouched(n) ==
    \A a \in Agent :
        /\ accepted[a][n] = NoTrade
        /\ duties[a][n] = NoDuty
        /\ \A m \in inbox[a] : m.nonce = n => m.type = "Offer"

Blame(n) ==
    /\ Offered(n) => Untouched(n)
    /\ n \notin excused => InTime(n)

AcceptedFromOther ==
    \A a \in Agent, n \in Nonce :
        accepted[a][n] # NoTrade => accepted[a][n].peer \in Agent \ {a}

BlameInv == AcceptedFromOther /\ \A n \in Nonce : Blame(n)

\* Of two agents, there is one other.
LEMMA OnlyOther ==
    ASSUME Cardinality(Agent) = 2, NEW a \in Agent, NEW b \in Agent, NEW c \in Agent,
           a # b, a # c
    PROVE  b = c
<1> SUFFICES ASSUME b # c
             PROVE  FALSE
  OBVIOUS
<1> DEFINE rest == Agent \ {a}
           last == rest \ {b}
<1>1. IsFiniteSet(Agent)
  BY BarterAssumption
<1>2. IsFiniteSet(rest) /\ Cardinality(rest) = 1
  BY <1>1, FS_RemoveElement
<1>3. IsFiniteSet(last) /\ Cardinality(last) = 0
  <2>1. b \in rest
    OBVIOUS
  <2> HIDE DEF rest
  <2> QED
    BY <1>2, <2>1, FS_RemoveElement
<1>4. last = {}
  <2> HIDE DEF last
  <2> QED
    BY <1>3, FS_EmptySet
<1> QED
  BY <1>4

\* Nothing is underway at the start.
LEMMA BlameInit == Init => BlameInv
<1> SUFFICES ASSUME Init
             PROVE  BlameInv
  OBVIOUS
<1>1. AcceptedFromOther
  BY DEF Init, AcceptedFromOther
<1>2. ASSUME NEW n \in Nonce
      PROVE  Blame(n)
  <2>1. \A a \in Agent :
            /\ inbox[a] = {} /\ accepted[a][n] = NoTrade /\ proposed[a][n] = NoTrade
            /\ \A b \in Agent : strikes[a][b] = {}
    BY DEF Init
  <2>2. ~Offered(n)
    BY <2>1 DEF Offered, OfferWaiting
  <2>3. NeverStruck(n) /\ AcceptedInTime(n) /\ UnboundInTime(n) /\ BoundInTime(n)
    BY <2>1 DEF NeverStruck, AcceptedInTime, UnboundInTime, BoundInTime, Unbound
  <2>4. OfferedInTime(n) /\ PaidInFull(n)
    BY <2>1 DEF OfferedInTime, PaidInFull
  <2> QED
    BY <2>2, <2>3, <2>4 DEF Blame, InTime
<1> QED
  BY <1>1, <1>2 DEF BlameInv

-----------------------------------------------------------------------------
(* Nonces a step does not concern.                                         *)

\* A message that changes nothing when it arrives.
Spent(a, m) ==
    \/ m.type = "Offer"
    \/ m.type = "Accept" /\ ~Bindable(a, m)
    \/ m.type = "Settle" /\ ~Creditable(a, m) /\ ~Premature(a, m)

\* No message of nonce n arrives in an inbox.
NoNews(n) ==
    \A a \in Agent : \A m \in inbox'[a] : m.nonce = n => m \in inbox[a]

\* An offer that still waits is still all there is of its trade.
LEMMA UntouchedFrame ==
    ASSUME NEW n \in Nonce, Offered(n) => Untouched(n), NoNews(n),
           \A a \in Agent : accepted'[a][n] \in {accepted[a][n], NoTrade},
           \A a \in Agent : duties'[a][n] = duties[a][n]
    PROVE  Offered(n)' => Untouched(n)'
<1> SUFFICES ASSUME Offered(n)'
             PROVE  Untouched(n)'
  OBVIOUS
<1>1. Offered(n)
  BY DEF Offered, OfferWaiting, NoNews
<1> QED
  BY <1>1 DEF Untouched, NoNews

\* A step that only takes spent messages of a nonce leaves it in time.
LEMMA InTimeFrame ==
    ASSUME TypeOK, OutcomeInv, AcceptedFromOther,
           NEW n \in Nonce, InTime(n), NoNews(n),
           \A a \in Agent :
               /\ accepted'[a][n] = accepted[a][n]
               /\ proposed'[a][n] = proposed[a][n]
               /\ duties'[a][n] = duties[a][n]
               /\ cycle'[a] = cycle[a],
           \A a \in Agent : \A m \in inbox[a] :
               m.nonce = n => m \in inbox'[a] \/ Spent(a, m),
           \A a, b \in Agent : n \in strikes'[a][b] => n \in strikes[a][b]
    PROVE  InTime(n)'
<1>1. \A a \in Agent :
        /\ Unbound(a, n)' <=> Unbound(a, n)
        /\ AnswerWaiting(a, n)' => AnswerWaiting(a, n)
        /\ AnswerWaiting(a, n) /\ Unbound(a, n) => AnswerWaiting(a, n)'
  <2>1. \A a \in Agent : Unbound(a, n)' <=> Unbound(a, n)
    BY DEF Unbound
  <2>2. \A a \in Agent : AnswerWaiting(a, n)' => AnswerWaiting(a, n)
    BY DEF AnswerWaiting, NoNews
  <2>3. \A a \in Agent :
            AnswerWaiting(a, n) /\ Unbound(a, n) => AnswerWaiting(a, n)'
    BY DEF AnswerWaiting, Unbound, Spent, Bindable
  <2> QED
    BY <2>1, <2>2, <2>3
<1>2. ASSUME NEW a \in Agent, NEW b \in Agent, Comes(a, b, n),
             \/ Unbound(a, n)
             \/ accepted[a][n] # NoTrade /\ accepted[a][n].peer = b
             \/ proposed[a][n] # NoTrade /\ proposed[a][n].peer = b
      PROVE  Comes(a, b, n)'
  <2>1. CASE duties[b][n] # NoDuty
    BY <2>1 DEF Comes
  <2>2. CASE \E m \in inbox[a] : m.type = "Settle" /\ m.from = b /\ m.nonce = n
    <3> PICK m \in inbox[a] : m.type = "Settle" /\ m.from = b /\ m.nonce = n
      BY <2>2
    <3>1. Creditable(a, m) \/ Premature(a, m)
      BY <1>2 DEF Creditable, SettledTrade, Premature, Unbound, OutcomeInv
    <3>2. m \in inbox'[a]
      BY <3>1 DEF Spent
    <3> QED
      BY <3>2 DEF Comes
  <2> QED
    BY <1>2, <2>1, <2>2 DEF Comes
<1>3. Offered(n)' => Offered(n)
  BY DEF Offered, OfferWaiting, NoNews
<1>4. NeverStruck(n)'
  BY DEF InTime, NeverStruck
<1>5. AcceptedInTime(n)'
  <2> SUFFICES ASSUME NEW a \in Agent, accepted[a][n] # NoTrade
               PROVE  /\ accepted[a][n].openedAt = cycle[a]
                      /\ \/ Comes(a, accepted[a][n].peer, n)'
                         \/ /\ AnswerWaiting(accepted[a][n].peer, n)'
                            /\ Unbound(accepted[a][n].peer, n)'
    BY DEF AcceptedInTime, Comes, AnswerWaiting, Unbound
  <2>1. accepted[a][n].peer \in Agent
    BY DEF AcceptedFromOther
  <2> QED
    BY <1>1, <1>2, <2>1 DEF InTime, AcceptedInTime
<1>6. UnboundInTime(n)'
  <2> SUFFICES ASSUME NEW a \in Agent, Unbound(a, n)
               PROVE  /\ Offered(n)' \/ AnswerWaiting(a, n)' =>
                            proposed[a][n].openedAt = cycle[a]
                      /\ \A m \in inbox'[a] :
                            m.type = "Accept" /\ m.nonce = n => Comes(a, m.from, n)'
    BY <1>1 DEF UnboundInTime, Comes
  <2>1. \A m \in inbox'[a] : m.type = "Accept" /\ m.nonce = n =>
            m \in inbox[a] /\ m.from \in Agent
    BY DEF NoNews, TypeOK, Message
  <2> QED
    BY <1>1, <1>2, <1>3, <2>1 DEF InTime, UnboundInTime
<1>7. BoundInTime(n)'
  <2> SUFFICES ASSUME NEW a \in Agent, proposed[a][n] # NoTrade, ~Unbound(a, n)
               PROVE  /\ proposed[a][n].openedAt = cycle[a]
                      /\ Comes(a, proposed[a][n].peer, n)'
    BY <1>1 DEF BoundInTime, Comes
  <2>1. proposed[a][n].peer \in Agent
    BY DEF TypeOK, PendingTrade, Unbound
  <2> QED
    BY <1>2, <2>1 DEF InTime, BoundInTime
<1>8. OfferedInTime(n)'
  <2>1. \A a \in Agent : \A m \in inbox'[a] : m.nonce = n =>
            m \in inbox[a] /\ m.from \in Agent
    BY DEF NoNews, TypeOK, Message
  <2> QED
    BY <1>1, <2>1 DEF InTime, OfferedInTime, Unbound
<1>9. PaidInFull(n)'
  BY DEF InTime, PaidInFull, NoNews
<1> QED
  BY <1>4, <1>5, <1>6, <1>7, <1>8, <1>9 DEF InTime

\* A step that leaves a nonce alone, or only takes spent messages of it.
LEMMA BlameFrame ==
    ASSUME TypeOK, OutcomeInv, BlameInv, NEW n \in Nonce, NoNews(n),
           \A a \in Agent :
               /\ accepted'[a][n] = accepted[a][n]
               /\ proposed'[a][n] = proposed[a][n]
               /\ duties'[a][n] = duties[a][n]
               /\ cycle'[a] = cycle[a],
           \A a \in Agent : \A m \in inbox[a] :
               m.nonce = n => m \in inbox'[a] \/ Spent(a, m),
           \A a, b \in Agent : n \in strikes'[a][b] => n \in strikes[a][b],
           n \in excused => n \in excused'
    PROVE  Blame(n)'
<1>1. Offered(n)' => Untouched(n)'
  BY UntouchedFrame DEF BlameInv, Blame
<1>2. ASSUME n \notin excused'
      PROVE  InTime(n)'
  <2>1. InTime(n) /\ AcceptedFromOther
    BY <1>2 DEF BlameInv, Blame
  <2> QED
    BY <2>1, InTimeFrame
<1> QED
  BY <1>1, <1>2 DEF Blame

\* Messages set aside: spent ones, and Settles that came too early.
LEMMA BlameDropped ==
    ASSUME TypeOK, OutcomeInv, BlameInv,
           NEW a \in Agent, NEW m \in inbox[a], Consume(a, m),
           UNCHANGED <<accepted, proposed, duties, cycle, strikes>>,
           \/ excused' = excused /\ Spent(a, m)
           \/ excused' = excused \cup {m.nonce}
    PROVE  BlameInv'
<1>1. \A b \in Agent : inbox'[b] \subseteq inbox[b]
  BY RestType DEF TypeOK, Consume
<1>2. \A b \in Agent : \A o \in inbox[b] : o \in inbox'[b] \/ (o = m /\ b = a)
  BY DEF TypeOK, Consume, Rest
<1>3. AcceptedFromOther'
  BY DEF BlameInv, AcceptedFromOther
<1>4. ASSUME NEW n \in Nonce
      PROVE  Blame(n)'
  <2>1. NoNews(n)
    BY <1>1 DEF NoNews
  <2>2. CASE n \in excused'
    BY <2>1, <2>2, UntouchedFrame DEF BlameInv, Blame
  <2>3. CASE n \notin excused'
    <3>1. \A b \in Agent : \A o \in inbox[b] :
            o.nonce = n => o \in inbox'[b] \/ Spent(b, o)
      BY <1>2, <2>3
    <3>2. n \in excused => n \in excused'
      OBVIOUS
    <3> QED
      BY <2>1, <3>1, <3>2, BlameFrame
  <2> QED
    BY <2>2, <2>3
<1> QED
  BY <1>3, <1>4 DEF BlameInv

\* An offer just made is all there is of its trade, and was made this cycle.
LEMMA BlamePropose ==
    ASSUME TypeOK, OutcomeInv, StrikesInv, TermsInv, BlameInv,
           NEW a \in Agent, ProposeOffer(a)
    PROVE  BlameInv'
<1> PICK t \in Terms :
        /\ issued < MaxNonce
        /\ issued' = issued + 1
        /\ proposed' = [proposed EXCEPT ![a][issued + 1] =
                [peer |-> Nobody, expect |-> t.wants, openedAt |-> cycle[a]]]
        /\ inbox' = [b \in Agent |->
                IF b = a THEN inbox[b]
                ELSE inbox[b] \cup
                     {[type |-> "Offer", from |-> a, gives |-> t.gives,
                       wants |-> t.wants, nonce |-> issued + 1]}]
        /\ UNCHANGED <<balance, accepted, pins, reputation, duties, cycle, history>>
  BY DEF ProposeOffer
<1> PICK n0 \in Nonce : n0 = issued + 1
  BY BarterAssumption DEF TypeOK, Nonce
<1> DEFINE offer == [type |-> "Offer", from |-> a, gives |-> t.gives,
                     wants |-> t.wants, nonce |-> n0]
           trade == [peer |-> Nobody, expect |-> t.wants, openedAt |-> cycle[a]]
<1>1. /\ issued \in Nat /\ n0 > issued
      /\ offer.type = "Offer" /\ offer.from = a /\ offer.nonce = n0
      /\ trade.peer = Nobody /\ trade.openedAt = cycle[a]
  BY DEF TypeOK, Nonce
<1>2. \A b \in Agent : \A m \in inbox'[b] : m \in inbox[b] \/ (m = offer /\ b # a)
  BY DEF TypeOK
<1>3. \A b \in Agent : inbox[b] \subseteq inbox'[b]
  BY DEF TypeOK
<1>4. \A b \in Agent, n \in Nonce :
        proposed'[b][n] = IF b = a /\ n = n0 THEN trade ELSE proposed[b][n]
  BY DEF TypeOK
<1>5. UNCHANGED <<accepted, duties, cycle, strikes, excused>>
  BY DEF history
<1> HIDE DEF offer, trade
<1>6. /\ \A b \in Agent : \A m \in inbox[b] : m.nonce # n0
      /\ \A b \in Agent :
            /\ accepted[b][n0] = NoTrade
            /\ proposed[b][n0] = NoTrade
            /\ duties[b][n0] = NoDuty
      /\ \A b, c \in Agent : n0 \notin strikes[b][c]
  <2>1. \A b \in Agent : \A m \in inbox[b] : m.nonce \in Nat
    BY DEF TypeOK, Message, Nonce
  <2>2. \A b, c \in Agent : n0 \notin strikes[b][c]
    BY <1>1 DEF StrikesInv, OutcomeInv
  <2> QED
    BY <1>1, <2>1, <2>2 DEF TermsInv, Drawn
<1>7. AcceptedFromOther'
  BY <1>5 DEF BlameInv, AcceptedFromOther
<1>8. Blame(n0)'
  <2>1. \A b \in Agent : \A m \in inbox'[b] : m.nonce = n0 => m = offer /\ b # a
    BY <1>2, <1>6
  <2>2. Untouched(n0)'
    BY <1>1, <1>5, <1>6, <2>1 DEF Untouched
  <2>3. NeverStruck(n0)' /\ AcceptedInTime(n0)'
    BY <1>5, <1>6 DEF NeverStruck, AcceptedInTime
  <2>4. \A b \in Agent : proposed'[b][n0] # NoTrade => b = a /\ proposed'[b][n0] = trade
    BY <1>4, <1>6
  <2>5. BoundInTime(n0)'
    BY <1>1, <2>4 DEF BoundInTime, Unbound
  <2>6. UnboundInTime(n0)'
    BY <1>1, <1>5, <2>1, <2>4 DEF UnboundInTime, Unbound
  <2>7. OfferedInTime(n0)'
    <3>1. proposed'[a][n0] = trade /\ trade # NoTrade
      <4>1. trade \in PendingTrade
        BY BarterAssumption DEF trade, TypeOK, PendingTrade
      <4> QED
        BY <1>4, <4>1, NamesAssumption
    <3> QED
      BY <1>1, <2>1, <3>1 DEF OfferedInTime, Unbound
  <2>8. PaidInFull(n0)'
    BY <1>1, <2>1 DEF PaidInFull
  <2> QED
    BY <2>2, <2>3, <2>5, <2>6, <2>7, <2>8 DEF Blame, InTime
<1>9. ASSUME NEW n \in Nonce, n # n0
      PROVE  Blame(n)'
  <2>1. NoNews(n)
    BY <1>1, <1>2, <1>9 DEF NoNews
  <2> QED
    BY <1>3, <1>4, <1>5, <1>9, <2>1, BlameFrame
<1> QED
  BY <1>7, <1>8, <1>9 DEF BlameInv

\* Taking the one offer there is leaves an answer and a promise, and no offer.
LEMMA BlameAccept ==
    ASSUME TypeOK, OutcomeInv, TermsInv, BlameInv, Cardinality(Agent) = 2,
           "Offer" \notin Redelivered, NEW a \in Agent, AcceptOffer(a)
    PROVE  BlameInv'
<1> PICK m \in inbox[a] :
        /\ Arrives(a, m, "Offer")
        /\ accepted' = [accepted EXCEPT ![a][m.nonce] = PendingTradeOf(a, m)]
        /\ duties' = [duties EXCEPT ![a][m.nonce] =
                        [to |-> m.from, gives |-> m.wants]]
        /\ inbox' = [inbox EXCEPT ![a] = Rest(a, m),
                                  ![m.from] = @ \cup {AcceptOf(a, m)}]
        /\ UNCHANGED <<balance, proposed, reputation, cycle, issued, history>>
  BY DEF AcceptOffer
<1> DEFINE n0 == m.nonce
           trade == PendingTradeOf(a, m)
           duty == [to |-> m.from, gives |-> m.wants]
           answer == AcceptOf(a, m)
<1>1. /\ m \in Message /\ n0 \in Nonce /\ m.from \in Agent
      /\ m.from # a /\ m.type = "Offer" /\ m.wants \in Resource
  BY DEF TypeOK, Message, TermsInv, NoOwnCounterparty, NoSelfDealing, Arrives
<1>2. \A b \in Agent : \A o \in inbox'[b] :
        \/ o \in inbox[b] /\ ~(b = a /\ o = m)
        \/ o = answer /\ b = m.from
  BY <1>1 DEF TypeOK, Rest
<1>3. /\ \A b \in Agent : \A o \in inbox[b] : o \in inbox'[b] \/ o = m
      /\ answer \in inbox'[m.from]
  BY <1>1 DEF TypeOK, Rest
<1>4. \A b \in Agent, n \in Nonce :
        /\ accepted'[b][n] = IF b = a /\ n = n0 THEN trade ELSE accepted[b][n]
        /\ duties'[b][n] = IF b = a /\ n = n0 THEN duty ELSE duties[b][n]
  BY <1>1 DEF TypeOK
<1>5. /\ answer.type = "Accept" /\ answer.from = a /\ answer.nonce = n0
      /\ trade.peer = m.from /\ trade.openedAt = cycle[a]
      /\ duty # NoDuty
  BY <1>1, NamesAssumption DEF AcceptOf, PendingTradeOf, Duty
<1>6. UNCHANGED <<proposed, cycle, strikes, excused>>
  BY DEF history
<1> HIDE DEF trade, duty, answer
<1>7. AcceptedFromOther'
  BY <1>1, <1>4, <1>5 DEF BlameInv, AcceptedFromOther
<1>8. Offered(n0) /\ Untouched(n0)
  BY <1>1 DEF Offered, OfferWaiting, BlameInv, Blame
<1>9. ~Offered(n0)'
  <2> SUFFICES ASSUME NEW b \in Agent, NEW o \in inbox'[b],
                      o.type = "Offer", o.nonce = n0
               PROVE  FALSE
    BY DEF Offered, OfferWaiting
  <2>1. o \in inbox[b] /\ ~(b = a /\ o = m)
    BY <1>2, <1>5
  <2>2. CASE b = a
    BY <1>1, <2>1, <2>2 DEF OutcomeInv
  <2>3. CASE b # a
    <3>1. b = m.from
      BY <1>1, <2>3, OnlyOther
    <3>2. o.from = m.from
      BY <1>1, <2>1 DEF TermsInv, About, Said
    <3> QED
      BY <2>1, <3>1, <3>2 DEF TermsInv, NoOwnCounterparty, NoSelfDealing
  <2> QED
    BY <2>2, <2>3
<1>10. ASSUME n0 \notin excused
       PROVE  InTime(n0)'
  <2>1. InTime(n0)
    BY <1>1, <1>10 DEF BlameInv, Blame
  <2>2. Unbound(m.from, n0)
    BY <1>1, <2>1 DEF InTime, OfferedInTime
  <2>3. NeverStruck(n0)'
    BY <1>6, <2>1 DEF InTime, NeverStruck
  <2>4. AcceptedInTime(n0)'
    <3>1. \A b \in Agent : accepted'[b][n0] # NoTrade =>
            b = a /\ accepted'[b][n0] = trade
      BY <1>1, <1>4, <1>8 DEF Untouched
    <3>2. AnswerWaiting(m.from, n0)'
      BY <1>3, <1>5 DEF AnswerWaiting
    <3>3. Unbound(m.from, n0)'
      BY <1>6, <2>2 DEF Unbound
    <3> QED
      BY <1>5, <1>6, <3>1, <3>2, <3>3 DEF AcceptedInTime
  <2>5. UnboundInTime(n0)'
    <3> SUFFICES ASSUME NEW b \in Agent, Unbound(b, n0)
                 PROVE  /\ proposed[b][n0].openedAt = cycle[b]
                        /\ \A o \in inbox'[b] :
                              o.type = "Accept" /\ o.nonce = n0 =>
                                  Comes(b, o.from, n0)'
      <4>1. \A b \in Agent : Unbound(b, n0)' <=> Unbound(b, n0)
        BY <1>6 DEF Unbound
      <4> QED
        BY <1>6, <4>1 DEF UnboundInTime, Comes
    <3>1. proposed[b][n0].openedAt = cycle[b]
      BY <1>8, <2>1 DEF InTime, UnboundInTime
    <3>2. \A o \in inbox'[b] :
            o.type = "Accept" /\ o.nonce = n0 => o = answer
      BY <1>2, <1>8 DEF Untouched
    <3>3. Comes(b, a, n0)'
      BY <1>1, <1>4, <1>5 DEF Comes
    <3> QED
      BY <1>5, <3>1, <3>2, <3>3
  <2>6. BoundInTime(n0)'
    <3> SUFFICES ASSUME NEW b \in Agent, proposed[b][n0] # NoTrade, ~Unbound(b, n0)
                 PROVE  FALSE
      BY <1>6 DEF BoundInTime, Unbound
    <3>1. proposed[b][n0].peer \in Agent
      BY <1>1 DEF TypeOK, PendingTrade, Unbound
    <3>2. Comes(b, proposed[b][n0].peer, n0)
      BY <2>1 DEF InTime, BoundInTime
    <3> QED
      BY <1>8, <3>1, <3>2 DEF Comes, Untouched
  <2>7. OfferedInTime(n0)'
    BY <1>9 DEF OfferedInTime, Offered, OfferWaiting
  <2>8. PaidInFull(n0)'
    BY <1>2, <1>5, <1>8 DEF PaidInFull, Untouched
  <2> QED
    BY <2>3, <2>4, <2>5, <2>6, <2>7, <2>8 DEF InTime
<1>11. Blame(n0)'
  BY <1>6, <1>9, <1>10 DEF Blame
<1>12. ASSUME NEW n \in Nonce, n # n0
       PROVE  Blame(n)'
  <2>1. NoNews(n)
    BY <1>2, <1>5, <1>12 DEF NoNews
  <2>2. \A b \in Agent : \A o \in inbox[b] : o.nonce = n => o \in inbox'[b]
    BY <1>3, <1>12
  <2>3. \A b \in Agent :
          accepted'[b][n] = accepted[b][n] /\ duties'[b][n] = duties[b][n]
    BY <1>4, <1>12
  <2> QED
    BY <1>6, <2>1, <2>2, <2>3, BlameFrame
<1> QED
  BY <1>1, <1>7, <1>11, <1>12 DEF BlameInv

\* Binding turns a waiting answer into a promise; what comes still comes.
LEMMA BlameBind ==
    ASSUME TypeOK, OutcomeInv, TermsInv, BlameInv, NEW a \in Agent, BindAccept(a)
    PROVE  BlameInv'
<1> PICK m \in inbox[a] :
        /\ Arrives(a, m, "Accept")
        /\ Bindable(a, m)
        /\ proposed' = [proposed EXCEPT ![a][m.nonce].peer = m.from]
        /\ duties' = [duties EXCEPT ![a][m.nonce] =
                        [to |-> m.from, gives |-> m.gives]]
        /\ Consume(a, m)
        /\ UNCHANGED <<balance, accepted, reputation, cycle, issued, history>>
  BY DEF BindAccept
<1> DEFINE n0 == m.nonce
           duty == [to |-> m.from, gives |-> m.gives]
<1>1. /\ m \in Message /\ n0 \in Nonce /\ m.from \in Agent
      /\ m.type = "Accept" /\ m.gives \in Resource
  BY DEF TypeOK, Message, Arrives
<1>2. /\ \A b \in Agent : inbox'[b] \subseteq inbox[b]
      /\ \A b \in Agent : \A o \in inbox[b] : o \in inbox'[b] \/ (o = m /\ b = a)
  BY <1>1, RestType DEF TypeOK, Consume, Rest
<1>3. /\ Unbound(a, n0)
      /\ proposed'[a][n0].peer = m.from
      /\ proposed'[a][n0].expect = proposed[a][n0].expect
      /\ proposed'[a][n0].openedAt = proposed[a][n0].openedAt
  <2>1. proposed[a][n0] \in PendingTrade /\ Unbound(a, n0)
    BY <1>1 DEF TypeOK, Bindable, Unbound
  <2>2. proposed'[a][n0] = [proposed[a][n0] EXCEPT !.peer = m.from]
    BY <1>1 DEF TypeOK
  <2> QED
    BY <2>1, <2>2 DEF PendingTrade
<1>4. \A b \in Agent, n \in Nonce : ~(b = a /\ n = n0) =>
        proposed'[b][n] = proposed[b][n] /\ duties'[b][n] = duties[b][n]
  BY <1>1 DEF TypeOK
<1>5. duties'[a][n0] # NoDuty
  BY <1>1, NamesAssumption DEF TypeOK, Duty
<1>6. UNCHANGED <<accepted, cycle, strikes, excused>>
  BY DEF history
<1>7. AcceptedFromOther'
  BY <1>6 DEF BlameInv, AcceptedFromOther
<1>8. ~Offered(n0) /\ ~Offered(n0)'
  <2>1. ~Offered(n0)
    BY <1>1 DEF BlameInv, Blame, Untouched
  <2> QED
    BY <1>2, <2>1 DEF Offered, OfferWaiting
<1>9. ASSUME n0 \notin excused
      PROVE  InTime(n0)'
  <2>1. InTime(n0)
    BY <1>1, <1>9 DEF BlameInv, Blame
  <2>2. \A b, c \in Agent : Comes(b, c, n0) => Comes(b, c, n0)'
    BY <1>1, <1>2, <1>4, <1>5 DEF Comes
  <2>3. NeverStruck(n0)'
    BY <1>6, <2>1 DEF InTime, NeverStruck
  <2>4. AcceptedInTime(n0)'
    <3> SUFFICES ASSUME NEW b \in Agent, accepted[b][n0] # NoTrade
                 PROVE  /\ accepted[b][n0].openedAt = cycle[b]
                        /\ \/ Comes(b, accepted[b][n0].peer, n0)'
                           \/ /\ AnswerWaiting(accepted[b][n0].peer, n0)'
                              /\ Unbound(accepted[b][n0].peer, n0)'
      BY <1>6 DEF AcceptedInTime, Comes, AnswerWaiting, Unbound
    <3>1. PICK c \in Agent : c = accepted[b][n0].peer
      BY <1>1 DEF BlameInv, AcceptedFromOther
    <3>2. \/ Comes(b, c, n0)
          \/ AnswerWaiting(c, n0) /\ Unbound(c, n0)
      BY <2>1, <3>1 DEF InTime, AcceptedInTime
    <3>3. c = a => Comes(b, c, n0)'
      BY <1>5 DEF Comes
    <3>4. c # a /\ AnswerWaiting(c, n0) /\ Unbound(c, n0)
            => AnswerWaiting(c, n0)' /\ Unbound(c, n0)'
      BY <1>1, <1>2, <1>4 DEF AnswerWaiting, Unbound
    <3>5. Comes(b, c, n0)' \/ (AnswerWaiting(c, n0)' /\ Unbound(c, n0)')
      BY <2>2, <3>2, <3>3, <3>4
    <3>6. accepted[b][n0].openedAt = cycle[b]
      BY <2>1 DEF InTime, AcceptedInTime
    <3> QED
      BY <3>1, <3>5, <3>6
  <2>5. UnboundInTime(n0)'
    <3> SUFFICES ASSUME NEW b \in Agent, Unbound(b, n0)'
                 PROVE  /\ AnswerWaiting(b, n0)' =>
                              proposed[b][n0].openedAt = cycle[b]
                        /\ b # a
                        /\ \A o \in inbox'[b] :
                              o.type = "Accept" /\ o.nonce = n0 =>
                                  Comes(b, o.from, n0)'
      BY <1>4, <1>6, <1>8 DEF UnboundInTime, Comes
    <3>1. b # a /\ Unbound(b, n0)
      BY <1>1, <1>3, <1>4, BarterAssumption DEF Unbound
    <3>2. AnswerWaiting(b, n0)' => AnswerWaiting(b, n0)
      BY <1>2 DEF AnswerWaiting
    <3>3. \A o \in inbox'[b] : o \in inbox[b] /\ o.from \in Agent
      BY <1>2 DEF TypeOK, Message
    <3> QED
      BY <2>1, <2>2, <3>1, <3>2, <3>3 DEF InTime, UnboundInTime
  <2>6. BoundInTime(n0)'
    <3>1. /\ proposed'[a][n0].openedAt = cycle[a]
          /\ Comes(a, m.from, n0)'
      BY <1>1, <1>3, <2>1, <2>2 DEF InTime, UnboundInTime, AnswerWaiting
    <3>2. ASSUME NEW b \in Agent, b # a, proposed[b][n0] # NoTrade, ~Unbound(b, n0)
          PROVE  /\ proposed[b][n0].openedAt = cycle[b]
                 /\ Comes(b, proposed[b][n0].peer, n0)'
      <4>1. proposed[b][n0].peer \in Agent
        BY <1>1, <3>2 DEF TypeOK, PendingTrade, Unbound
      <4> QED
        BY <2>1, <2>2, <3>2, <4>1 DEF InTime, BoundInTime
    <3>3. \A b \in Agent : b # a =>
            proposed'[b][n0] = proposed[b][n0] /\ (Unbound(b, n0)' <=> Unbound(b, n0))
      BY <1>1, <1>4 DEF Unbound
    <3> QED
      BY <1>3, <1>6, <3>1, <3>2, <3>3 DEF BoundInTime, Comes
  <2>7. OfferedInTime(n0)'
    BY <1>8 DEF OfferedInTime, Offered, OfferWaiting
  <2>8. PaidInFull(n0)'
    <3>1. \A b \in Agent : proposed'[b][n0] # NoTrade =>
            proposed[b][n0] # NoTrade /\ proposed'[b][n0].expect = proposed[b][n0].expect
      BY <1>1, <1>3, <1>4 DEF Unbound
    <3> QED
      BY <1>2, <1>6, <2>1, <3>1 DEF InTime, PaidInFull
  <2> QED
    BY <2>3, <2>4, <2>5, <2>6, <2>7, <2>8 DEF InTime
<1>10. Blame(n0)'
  BY <1>6, <1>8, <1>9 DEF Blame
<1>11. ASSUME NEW n \in Nonce, n # n0
       PROVE  Blame(n)'
  <2>1. NoNews(n)
    BY <1>2 DEF NoNews
  <2>2. \A b \in Agent : \A o \in inbox[b] : o.nonce = n => o \in inbox'[b]
    BY <1>2, <1>11
  <2> QED
    BY <1>4, <1>6, <1>11, <2>1, <2>2, BlameFrame
<1> QED
  BY <1>1, <1>7, <1>10, <1>11 DEF BlameInv

\* A full delivery turns the promise into a Settle of what is expected; a short
\* one excuses the trade.
LEMMA BlameDeliver ==
    ASSUME TypeOK, OutcomeInv, TermsInv, BlameInv, Cardinality(Agent) = 2,
           NEW a \in Agent, Deliver(a)
    PROVE  BlameInv'
<1> PICK n0 \in {k \in Nonce : duties[a][k] # NoDuty} :
    \E q \in 0 .. duties[a][n0].gives.qty :
        LET duty == duties[a][n0]
            paid == [kind |-> duty.gives.kind, qty |-> q]
            settle == [type |-> "Settle", from |-> a, gives |-> paid,
                       wants |-> [paid EXCEPT !.qty = 0], nonce |-> n0]
        IN  /\ inbox' = [inbox EXCEPT ![duty.to] = @ \cup {settle}]
            /\ duties' = [duties EXCEPT ![a][n0] = NoDuty]
            /\ excused' = IF q < duty.gives.qty THEN excused \cup {n0} ELSE excused
            /\ UNCHANGED <<accepted, proposed, cycle, strikes>>
  BY DEF Deliver
<1> PICK q \in 0 .. duties[a][n0].gives.qty :
        LET duty == duties[a][n0]
            paid == [kind |-> duty.gives.kind, qty |-> q]
            settle == [type |-> "Settle", from |-> a, gives |-> paid,
                       wants |-> [paid EXCEPT !.qty = 0], nonce |-> n0]
        IN  /\ inbox' = [inbox EXCEPT ![duty.to] = @ \cup {settle}]
            /\ duties' = [duties EXCEPT ![a][n0] = NoDuty]
            /\ excused' = IF q < duty.gives.qty THEN excused \cup {n0} ELSE excused
            /\ UNCHANGED <<accepted, proposed, cycle, strikes>>
  OBVIOUS
<1> PICK peer \in Agent : peer = duties[a][n0].to
  BY DEF TypeOK, Duty
<1> DEFINE paid == [kind |-> duties[a][n0].gives.kind, qty |-> q]
           settle == [type |-> "Settle", from |-> a, gives |-> paid,
                      wants |-> [paid EXCEPT !.qty = 0], nonce |-> n0]
<1>1. /\ n0 \in Nonce /\ duties[a][n0] # NoDuty /\ peer # a
      /\ duties[a][n0].gives \in Resource
  BY DEF TypeOK, Duty, TermsInv, NoOwnCounterparty, NoSelfDealing
<1>2. /\ settle.type = "Settle" /\ settle.from = a /\ settle.nonce = n0
      /\ settle.gives = paid
  OBVIOUS
<1>3. /\ \A b \in Agent : \A o \in inbox'[b] :
            o \in inbox[b] \/ (o = settle /\ b = peer)
      /\ \A b \in Agent : inbox[b] \subseteq inbox'[b]
      /\ settle \in inbox'[peer]
  BY DEF TypeOK
<1>4. \A b \in Agent, n \in Nonce :
        duties'[b][n] = IF b = a /\ n = n0 THEN NoDuty ELSE duties[b][n]
  BY DEF TypeOK
<1>5. /\ UNCHANGED <<accepted, proposed, cycle, strikes>>
      /\ excused \subseteq excused'
      /\ n0 \notin excused' => n0 \notin excused /\ paid = duties[a][n0].gives
  <2>1. n0 \notin excused' => q = duties[a][n0].gives.qty
    BY <1>1 DEF Resource
  <2> QED
    BY <1>1, <2>1 DEF Resource
<1> HIDE DEF settle, paid
<1>6. AcceptedFromOther'
  BY <1>5 DEF BlameInv, AcceptedFromOther
<1>7. ~Offered(n0) /\ ~Offered(n0)'
  <2>1. ~Offered(n0)
    BY <1>1 DEF BlameInv, Blame, Untouched
  <2> QED
    BY <1>2, <1>3, <2>1 DEF Offered, OfferWaiting
<1>8. ASSUME n0 \notin excused'
      PROVE  InTime(n0)'
  <2>1. InTime(n0) /\ paid = duties[a][n0].gives
    BY <1>1, <1>5, <1>8 DEF BlameInv, Blame
  <2>2. \A b, c \in Agent : b # c /\ Comes(b, c, n0) => Comes(b, c, n0)'
    <3>1. \A b \in Agent : b # a => b = peer
      BY <1>1, OnlyOther
    <3> QED
      BY <1>1, <1>2, <1>3, <1>4, <3>1 DEF Comes
  <2>3. \A b \in Agent :
          /\ Unbound(b, n0)' <=> Unbound(b, n0)
          /\ AnswerWaiting(b, n0)' <=> AnswerWaiting(b, n0)
    BY <1>2, <1>3, <1>5 DEF Unbound, AnswerWaiting
  <2>4. NeverStruck(n0)'
    BY <1>5, <2>1 DEF InTime, NeverStruck
  <2>5. AcceptedInTime(n0)'
    <3> SUFFICES ASSUME NEW b \in Agent, accepted[b][n0] # NoTrade
                 PROVE  /\ accepted[b][n0].openedAt = cycle[b]
                        /\ \/ Comes(b, accepted[b][n0].peer, n0)'
                           \/ /\ AnswerWaiting(accepted[b][n0].peer, n0)'
                              /\ Unbound(accepted[b][n0].peer, n0)'
      BY <1>5 DEF AcceptedInTime, Comes, AnswerWaiting, Unbound
    <3>1. accepted[b][n0].peer \in Agent \ {b}
      BY <1>1 DEF BlameInv, AcceptedFromOther
    <3> QED
      BY <2>1, <2>2, <2>3, <3>1 DEF InTime, AcceptedInTime
  <2>6. UnboundInTime(n0)'
    <3> SUFFICES ASSUME NEW b \in Agent, Unbound(b, n0)
                 PROVE  /\ AnswerWaiting(b, n0)' =>
                              proposed[b][n0].openedAt = cycle[b]
                        /\ \A o \in inbox'[b] :
                              o.type = "Accept" /\ o.nonce = n0 =>
                                  Comes(b, o.from, n0)'
      BY <1>5, <1>7, <2>3 DEF UnboundInTime, Comes
    <3>1. \A o \in inbox'[b] : o.type = "Accept" /\ o.nonce = n0 =>
            o \in inbox[b] /\ o.from \in Agent /\ o.from # b
      <4>1. \A o \in inbox[b] : o.from \in Agent /\ o.from # b
        BY DEF TypeOK, Message, TermsInv, NoOwnCounterparty, NoSelfDealing
      <4> QED
        BY <1>2, <1>3, <4>1
    <3> QED
      BY <2>1, <2>2, <2>3, <3>1 DEF InTime, UnboundInTime
  <2>7. BoundInTime(n0)'
    <3> SUFFICES ASSUME NEW b \in Agent, proposed[b][n0] # NoTrade, ~Unbound(b, n0)
                 PROVE  /\ proposed[b][n0].openedAt = cycle[b]
                        /\ Comes(b, proposed[b][n0].peer, n0)'
      BY <1>5, <2>3 DEF BoundInTime, Comes
    <3>1. proposed[b][n0].peer \in Agent /\ proposed[b][n0].peer # b
      BY <1>1 DEF TypeOK, PendingTrade, Unbound, TermsInv, NoOwnCounterparty
    <3> QED
      BY <2>1, <2>2, <3>1 DEF InTime, BoundInTime
  <2>8. OfferedInTime(n0)'
    BY <1>7 DEF OfferedInTime, Offered, OfferWaiting
  <2>9. PaidInFull(n0)'
    <3>1. PICK owner, g, w : About(n0, owner, g, w)
      BY <1>1 DEF TermsInv
    <3>2. accepted[peer][n0] # NoTrade => accepted[peer][n0].expect = paid
      <4> SUFFICES ASSUME accepted[peer][n0] # NoTrade
                   PROVE  accepted[peer][n0].expect = paid
        OBVIOUS
      <4>1. owner \in Agent /\ owner # peer /\ accepted[peer][n0].expect = g
        BY <1>1, <3>1 DEF About, Booked, BlameInv, AcceptedFromOther
      <4>2. owner = a
        BY <1>1, <4>1, OnlyOther
      <4> QED
        BY <1>1, <2>1, <3>1, <4>1, <4>2 DEF About, Promised
    <3>3. proposed[peer][n0] # NoTrade => proposed[peer][n0].expect = paid
      BY <1>1, <2>1, <3>1 DEF About, Booked, Promised
    <3> QED
      BY <1>2, <1>3, <1>5, <2>1, <3>2, <3>3 DEF InTime, PaidInFull
  <2> QED
    BY <2>4, <2>5, <2>6, <2>7, <2>8, <2>9 DEF InTime
<1>9. Blame(n0)'
  BY <1>7, <1>8 DEF Blame
<1>10. ASSUME NEW n \in Nonce, n # n0
       PROVE  Blame(n)'
  <2>1. NoNews(n)
    BY <1>2, <1>3, <1>10 DEF NoNews
  <2>2. \A b \in Agent : \A o \in inbox[b] : o.nonce = n => o \in inbox'[b]
    BY <1>3
  <2> QED
    BY <1>4, <1>5, <1>10, <2>1, <2>2, BlameFrame
<1> QED
  BY <1>1, <1>6, <1>9, <1>10 DEF BlameInv

\* A settlement paid in full strikes nobody and closes its receiver's end.
LEMMA BlameCredit ==
    ASSUME TypeOK, OutcomeInv, BlameInv, NEW a \in Agent, CreditSettle(a)
    PROVE  BlameInv'
<1> PICK m \in inbox[a] :
        /\ Arrives(a, m, "Settle")
        /\ Creditable(a, m)
        /\ accepted' = AcceptedAfter(a, m)
        /\ proposed' = ProposedAfter(a, m)
        /\ Score(a, m.from, m.nonce,
                 FulfillmentRatio(SettledTrade(a, m).expect, m.gives))
        /\ Consume(a, m)
        /\ UNCHANGED <<duties, cycle, issued, excused>>
  BY DEF CreditSettle
<1> DEFINE n0 == m.nonce
           ratio == FulfillmentRatio(SettledTrade(a, m).expect, m.gives)
<1>1. /\ m \in Message /\ n0 \in Nonce /\ m.from \in Agent
      /\ m.type = "Settle" /\ m.gives \in Resource
  BY DEF TypeOK, Message, Arrives
<1>2. /\ \A b \in Agent : inbox'[b] \subseteq inbox[b]
      /\ \A b \in Agent : \A o \in inbox[b] : o \in inbox'[b] \/ (o = m /\ b = a)
      /\ \A b \in Agent : b # a => inbox'[b] = inbox[b]
  BY <1>1, RestType DEF TypeOK, Consume, Rest
<1>3. \A b \in Agent, n \in Nonce : ~(b = a /\ n = n0) =>
        accepted'[b][n] = accepted[b][n] /\ proposed'[b][n] = proposed[b][n]
  BY <1>1 DEF TypeOK, AcceptedAfter, ProposedAfter
<1>4. accepted'[a][n0] = NoTrade /\ proposed'[a][n0] = NoTrade
  BY <1>1 DEF TypeOK, AcceptedAfter, ProposedAfter, OutcomeInv
<1>5. ~Unbound(a, n0)
  BY <1>1, BarterAssumption
     DEF Unbound, Creditable, SettledTrade, OutcomeInv
<1>6. /\ strikes' = IF ratio < Unit
                    THEN [strikes EXCEPT ![a][m.from] = @ \cup {n0}]
                    ELSE strikes
      /\ \A b, c \in Agent, n \in Nonce :
            n # n0 /\ n \in strikes'[b][c] => n \in strikes[b][c]
  BY <1>1 DEF Score, TypeOK
<1>7. UNCHANGED <<duties, cycle, excused>>
  OBVIOUS
<1>8. AcceptedFromOther'
  BY <1>3, <1>4 DEF BlameInv, AcceptedFromOther
<1>9. ~Offered(n0) /\ ~Offered(n0)'
  <2>1. ~Offered(n0)
    BY <1>1 DEF BlameInv, Blame, Untouched
  <2> QED
    BY <1>2, <2>1 DEF Offered, OfferWaiting
<1>10. ASSUME n0 \notin excused
       PROVE  InTime(n0)'
  <2>1. InTime(n0)
    BY <1>1, <1>10 DEF BlameInv, Blame
  <2>2. NeverStruck(n0)'
    <3>1. m.gives = SettledTrade(a, m).expect
      BY <1>1, <2>1 DEF InTime, PaidInFull, SettledTrade, Creditable
    <3>2. ratio = Unit
      <4>1. FulfillmentRatio(m.gives, m.gives) = Unit
        BY <1>1 DEF FulfillmentRatio, Resource
      <4> QED
        BY <3>1, <4>1
    <3>3. strikes' = strikes
      BY <1>6, <3>2, WeightsAssumption
    <3> QED
      BY <2>1, <3>3 DEF InTime, NeverStruck
  <2>3. AcceptedInTime(n0)'
    <3> SUFFICES ASSUME NEW b \in Agent, b # a, accepted[b][n0] # NoTrade
                 PROVE  /\ accepted[b][n0].openedAt = cycle[b]
                        /\ \/ Comes(b, accepted[b][n0].peer, n0)'
                           \/ /\ AnswerWaiting(accepted[b][n0].peer, n0)'
                              /\ Unbound(accepted[b][n0].peer, n0)'
      <4>1. \A b \in Agent : accepted'[b][n0] # NoTrade =>
              b # a /\ accepted'[b][n0] = accepted[b][n0]
        BY <1>1, <1>3, <1>4
      <4> QED
        BY <1>7, <4>1 DEF AcceptedInTime, Comes, AnswerWaiting, Unbound
    <3>1. PICK c \in Agent : c = accepted[b][n0].peer
      BY <1>1 DEF BlameInv, AcceptedFromOther
    <3>2. /\ accepted[b][n0].openedAt = cycle[b]
          /\ Comes(b, c, n0) \/ (AnswerWaiting(c, n0) /\ Unbound(c, n0))
      BY <2>1, <3>1 DEF InTime, AcceptedInTime
    <3>3. Comes(b, c, n0) => Comes(b, c, n0)'
      BY <1>2, <1>7 DEF Comes
    <3>4. AnswerWaiting(c, n0) /\ Unbound(c, n0)
            => AnswerWaiting(c, n0)' /\ Unbound(c, n0)'
      BY <1>1, <1>2, <1>3, <1>5 DEF AnswerWaiting, Unbound
    <3> QED
      BY <1>1, <1>3, <3>1, <3>2, <3>3, <3>4
  <2>4. UnboundInTime(n0)'
    <3> SUFFICES ASSUME NEW b \in Agent, Unbound(b, n0)'
                 PROVE  /\ AnswerWaiting(b, n0)' =>
                              proposed[b][n0].openedAt = cycle[b]
                        /\ b # a
                        /\ \A o \in inbox'[b] :
                              o.type = "Accept" /\ o.nonce = n0 =>
                                  Comes(b, o.from, n0)'
      BY <1>1, <1>3, <1>7, <1>9 DEF UnboundInTime, Comes
    <3>1. b # a /\ Unbound(b, n0) /\ inbox'[b] = inbox[b]
      BY <1>1, <1>2, <1>3, <1>4 DEF Unbound
    <3> QED
      BY <1>7, <2>1, <3>1 DEF InTime, UnboundInTime, Comes, AnswerWaiting
  <2>5. BoundInTime(n0)'
    <3>1. \A b \in Agent : proposed'[b][n0] # NoTrade =>
            b # a /\ proposed'[b][n0] = proposed[b][n0] /\ inbox'[b] = inbox[b]
      BY <1>1, <1>2, <1>3, <1>4
    <3> QED
      BY <1>7, <2>1, <3>1 DEF InTime, BoundInTime, Comes, Unbound
  <2>6. OfferedInTime(n0)'
    BY <1>9 DEF OfferedInTime, Offered, OfferWaiting
  <2>7. PaidInFull(n0)'
    BY <1>1, <1>2, <1>3, <1>4, <2>1 DEF InTime, PaidInFull
  <2> QED
    BY <2>2, <2>3, <2>4, <2>5, <2>6, <2>7 DEF InTime
<1>11. Blame(n0)'
  BY <1>7, <1>9, <1>10 DEF Blame
<1>12. ASSUME NEW n \in Nonce, n # n0
       PROVE  Blame(n)'
  <2>1. NoNews(n)
    BY <1>2 DEF NoNews
  <2>2. \A b \in Agent : \A o \in inbox[b] : o.nonce = n => o \in inbox'[b]
    BY <1>2, <1>12
  <2> QED
    BY <1>3, <1>6, <1>7, <1>12, <2>1, <2>2, BlameFrame
<1> QED
  BY <1>1, <1>8, <1>11, <1>12 DEF BlameInv

\* A sweep leaves every trade that is in time, except offers nobody can accept
\* any more, which blame nobody.
LEMMA BlameSweep ==
    ASSUME TypeOK, OutcomeInv, BlameInv, NEW a \in Agent, SweepTimeouts(a)
    PROVE  BlameInv'
<1>1. UNCHANGED <<duties, cycle, inbox, excused>>
  BY DEF SweepTimeouts
<1>2. \A b \in Agent, n \in Nonce :
        /\ accepted'[b][n] = IF b = a /\ n \in Expired(accepted, a)
                             THEN NoTrade ELSE accepted[b][n]
        /\ proposed'[b][n] = IF b = a /\ n \in Expired(proposed, a)
                             THEN NoTrade ELSE proposed[b][n]
  BY DEF SweepTimeouts, TypeOK, Without
<1>3. AcceptedFromOther'
  BY <1>2 DEF BlameInv, AcceptedFromOther
<1>4. ASSUME NEW n \in Nonce
      PROVE  Blame(n)'
  <2>1. NoNews(n)
    BY <1>1 DEF NoNews
  <2>2. Offered(n)' => Untouched(n)'
    BY <1>1, <1>2, <2>1, UntouchedFrame DEF BlameInv, Blame
  <2>3. ASSUME n \notin excused
        PROVE  InTime(n)'
    <3>1. InTime(n)
      BY <2>3 DEF BlameInv, Blame
    <3>2. \A book : book[a][n].openedAt = cycle[a] => n \notin Expired(book, a)
      BY BarterAssumption DEF Expired, Elapsed, TypeOK
    <3>3. n \notin Expired(accepted, a)
      BY <3>1, <3>2 DEF InTime, AcceptedInTime, Expired
    <3>4. n \in Expired(proposed, a) =>
            /\ proposed[a][n] # NoTrade
            /\ Unbound(a, n) /\ ~Offered(n) /\ ~AnswerWaiting(a, n)
      BY <3>1, <3>2 DEF InTime, BoundInTime, UnboundInTime, Expired
    <3>5. \A b \in Agent :
            /\ accepted'[b][n] = accepted[b][n]
            /\ \/ proposed'[b][n] = proposed[b][n]
               \/ /\ proposed'[b][n] = NoTrade
                  /\ Unbound(b, n) /\ ~Offered(n) /\ ~AnswerWaiting(b, n)
      BY <1>2, <3>3, <3>4
    <3>6. NeverStruck(n)'
      <4>1. \A b \in Agent : n \notin BrokenBy(a, b)
        BY <3>3, <3>4, BarterAssumption DEF BrokenBy, Unbound
      <4>2. \A b, c \in Agent : n \in strikes'[b][c] => n \in strikes[b][c]
        BY <4>1 DEF SweepTimeouts, TypeOK
      <4> QED
        BY <3>1, <4>2 DEF InTime, NeverStruck
    <3>7. AcceptedInTime(n)'
      <4> SUFFICES ASSUME NEW b \in Agent, accepted[b][n] # NoTrade
                   PROVE  /\ accepted[b][n].openedAt = cycle[b]
                          /\ \/ Comes(b, accepted[b][n].peer, n)
                             \/ /\ AnswerWaiting(accepted[b][n].peer, n)
                                /\ Unbound(accepted[b][n].peer, n)'
        BY <1>1, <3>5 DEF AcceptedInTime, Comes, AnswerWaiting, Unbound
      <4>1. PICK c \in Agent : c = accepted[b][n].peer
        BY DEF BlameInv, AcceptedFromOther
      <4>2. AnswerWaiting(c, n) /\ Unbound(c, n) => Unbound(c, n)'
        BY <3>5 DEF Unbound
      <4> QED
        BY <3>1, <3>5, <4>1, <4>2 DEF InTime, AcceptedInTime
    <3>8. UnboundInTime(n)'
      <4>1. \A b \in Agent : Unbound(b, n)' =>
              Unbound(b, n) /\ proposed'[b][n] = proposed[b][n]
        BY <3>5 DEF Unbound
      <4> QED
        BY <1>1, <3>1, <4>1
           DEF InTime, UnboundInTime, Offered, OfferWaiting, AnswerWaiting, Comes
    <3>9. BoundInTime(n)'
      <4>1. \A b \in Agent : proposed'[b][n] # NoTrade =>
              proposed'[b][n] = proposed[b][n] /\ (Unbound(b, n)' <=> Unbound(b, n))
        BY <3>5 DEF Unbound
      <4> QED
        BY <1>1, <3>1, <4>1 DEF InTime, BoundInTime, Comes
    <3>10. OfferedInTime(n)'
      <4> SUFFICES ASSUME NEW b \in Agent, NEW m \in inbox[b],
                          m.type = "Offer", m.nonce = n
                   PROVE  Unbound(m.from, n)'
        BY <1>1 DEF OfferedInTime
      <4>1. m.from \in Agent /\ Offered(n) /\ Unbound(m.from, n)
        BY <3>1 DEF TypeOK, Message, Offered, OfferWaiting, InTime, OfferedInTime
      <4> QED
        BY <3>5, <4>1 DEF Unbound
    <3>11. PaidInFull(n)'
      BY <1>1, <3>1, <3>5 DEF InTime, PaidInFull
    <3> QED
      BY <3>6, <3>7, <3>8, <3>9, <3>10, <3>11 DEF InTime
  <2> QED
    BY <1>1, <2>2, <2>3 DEF Blame
<1> QED
  BY <1>3, <1>4 DEF BlameInv

\* A trade with nothing underway when a cycle ends is not open at either end,
\* except as an offer nobody can accept any more.
LEMMA BlameTick ==
    ASSUME TypeOK, OutcomeInv, BlameInv, NEW a \in Agent, Tick(a)
    PROVE  BlameInv'
<1>1. /\ UNCHANGED <<accepted, proposed, duties, inbox, strikes>>
      /\ excused' = excused \cup {n \in Nonce : Underway(n)}
  BY DEF Tick, negotiators
<1>2. AcceptedFromOther'
  BY <1>1 DEF BlameInv, AcceptedFromOther
<1>3. ASSUME NEW n \in Nonce
      PROVE  Blame(n)'
  <2>1. Offered(n)' => Untouched(n)'
    BY <1>1 DEF BlameInv, Blame, Offered, OfferWaiting, Untouched
  <2>2. ASSUME n \notin excused'
        PROVE  InTime(n)'
    <3>1. InTime(n) /\ ~Underway(n)
      BY <1>1, <2>2 DEF BlameInv, Blame
    <3>2. /\ \A b \in Agent : duties[b][n] = NoDuty
          /\ ~Offered(n)
          /\ \A b \in Agent : \A m \in inbox[b] : m.nonce = n =>
                /\ m.type = "Accept" => ~Bindable(b, m)
                /\ m.type = "Settle" => ~Creditable(b, m)
      BY <3>1 DEF Underway, Offered, OfferWaiting
    <3>3. \A b \in Agent : AnswerWaiting(b, n) => ~Unbound(b, n)
      BY <3>2 DEF AnswerWaiting, Unbound, Bindable
    <3>4. \A b \in Agent : accepted[b][n] = NoTrade
      <4> SUFFICES ASSUME NEW b \in Agent, accepted[b][n] # NoTrade
                   PROVE  FALSE
        OBVIOUS
      <4>1. PICK c \in Agent : c = accepted[b][n].peer
        BY DEF BlameInv, AcceptedFromOther
      <4>2. Comes(b, c, n)
        BY <3>1, <3>3, <4>1 DEF InTime, AcceptedInTime
      <4> QED
        BY <3>2, <4>1, <4>2 DEF Comes, Creditable, SettledTrade
    <3>5. \A b \in Agent : proposed[b][n] # NoTrade => Unbound(b, n)
      <4> SUFFICES ASSUME NEW b \in Agent, proposed[b][n] # NoTrade, ~Unbound(b, n)
                   PROVE  FALSE
        OBVIOUS
      <4>1. PICK c \in Agent : c = proposed[b][n].peer
        BY DEF TypeOK, PendingTrade, Unbound
      <4>2. Comes(b, c, n)
        BY <3>1, <4>1 DEF InTime, BoundInTime
      <4> QED
        BY <3>2, <3>4, <4>1, <4>2 DEF Comes, Creditable, SettledTrade
    <3>6. NeverStruck(n)' /\ AcceptedInTime(n)'
      BY <1>1, <3>1, <3>4 DEF InTime, NeverStruck, AcceptedInTime
    <3>7. UnboundInTime(n)'
      BY <1>1, <3>2, <3>3
         DEF UnboundInTime, Unbound, Offered, OfferWaiting, AnswerWaiting
    <3>8. BoundInTime(n)'
      BY <1>1, <3>5 DEF BoundInTime, Unbound
    <3>9. OfferedInTime(n)' /\ PaidInFull(n)'
      BY <1>1, <3>1 DEF InTime, OfferedInTime, PaidInFull, Unbound
    <3> QED
      BY <3>6, <3>7, <3>8, <3>9 DEF InTime
  <2> QED
    BY <2>1, <2>2 DEF Blame
<1> QED
  BY <1>2, <1>3 DEF BlameInv

\* Every step of two agents keeps what was in time blameless.
LEMMA BlameNext ==
    ASSUME Cardinality(Agent) = 2, "Offer" \notin Redelivered
    PROVE  TypeOK /\ OutcomeInv /\ StrikesInv /\ TermsInv /\ BlameInv /\ [Next]_vars
                => BlameInv'
<1> SUFFICES ASSUME TypeOK, OutcomeInv, StrikesInv, TermsInv, BlameInv, [Next]_vars
             PROVE  BlameInv'
  OBVIOUS
<1>1. ASSUME NEW a \in Agent, Step(a)
      PROVE  BlameInv'
  <2>1. CASE ProposeOffer(a)
    BY <2>1, BlamePropose
  <2>2. CASE AcceptOffer(a)
    BY <2>2, BlameAccept
  <2>3. CASE DeclineOffer(a)
    BY <2>3, BlameDropped DEF DeclineOffer, Arrives, Spent, history
  <2>4. CASE BindAccept(a)
    BY <2>4, BlameBind
  <2>5. CASE IgnoreAccept(a)
    BY <2>5, BlameDropped DEF IgnoreAccept, Arrives, Spent, history
  <2>6. CASE Deliver(a)
    BY <2>6, BlameDeliver
  <2>7. CASE CreditSettle(a)
    BY <2>7, BlameCredit
  <2>8. CASE RejectSettle(a)
    BY <2>8, BlameDropped DEF RejectSettle, Arrives, Spent
  <2>9. CASE SweepTimeouts(a)
    BY <2>9, BlameSweep
  <2>10. CASE Tick(a)
    BY <2>10, BlameTick
  <2> QED
    BY <1>1, <2>1, <2>2, <2>3, <2>4, <2>5, <2>6, <2>7, <2>8, <2>9, <2>10
       DEF Step
<1>2. CASE UNCHANGED vars
  <2>1. AcceptedFromOther'
    BY <1>2 DEF vars, negotiators, BlameInv, AcceptedFromOther
  <2>2. ASSUME NEW n \in Nonce
        PROVE  Blame(n)'
    BY <1>2, BlameFrame DEF vars, negotiators, history, NoNews
  <2> QED
    BY <2>1, <2>2 DEF BlameInv
<1> QED
  BY <1>1, <1>2 DEF Next

\* Between two agents, a peer is scored short only at a trade where somebody
\* delivered less than promised, something was underway when a cycle ended, or a
\* Settle overtook its Accept: whatever else is lost, late or delivered again.
THEOREM NobodyBlamedForNothing == "Offer" \notin Redelivered => (Spec => []Blameless)
<1> SUFFICES ASSUME "Offer" \notin Redelivered
             PROVE  Spec => []Blameless
  OBVIOUS
<1>1. CASE Cardinality(Agent) = 2
  <2>1. TypeOK /\ BlameInv => Blameless
    BY DEF TypeOK, BlameInv, Blame, InTime, NeverStruck, Blameless
  <2>2. TypeOK /\ OutcomeInv /\ [Next]_vars => OutcomeInv'
    BY OutcomeNext
  <2>3. TypeOK /\ OutcomeInv /\ StrikesInv /\ [Next]_vars => StrikesInv'
    BY StrikesNext
  <2>4. TypeOK /\ OutcomeInv /\ StrikesInv /\ TermsInv /\ BlameInv /\ [Next]_vars
            => BlameInv'
    BY <1>1, BlameNext
  <2> QED
    BY <2>1, <2>2, <2>3, <2>4, TypeCorrect, OutcomeInit, StrikesInit, TermsInit,
       TermsNext, BlameInit, PTL DEF Spec
<1>2. CASE Cardinality(Agent) # 2
  <2>1. Blameless
    BY <1>2 DEF Blameless
  <2> QED
    BY <2>1, PTL
<1> QED
  BY <1>1, <1>2
=============================================================================
