------------------------------- MODULE Barter -------------------------------
(***************************************************************************)
(* The trading half of vitalis-negotiate: the Negotiator's handlers for    *)
(* Offer, Accept and Settle, delivery and the timeout sweep, run by a mesh *)
(* of agents over a transport that may lose, reorder and redeliver.  The   *)
(* signature check and the key pin are modelled for genuine messages; the  *)
(* gossip half of the Negotiator is not in this module.                    *)
(***************************************************************************)
EXTENDS Reputation, FiniteSets

CONSTANTS
    Agent,
    Kind,         \* ResourceKind
    Terms,        \* what an offer may say: [gives, wants]
    Endowment,    \* the ledger each Negotiator is built with
    MaxPending,   \* max_pending_per_peer
    Timeout,      \* timeout_cycles
    Nobody,       \* the counterparty of an offer nobody accepted yet
    NoTrade,      \* no pending trade under this nonce
    NoDuty        \* nothing promised and undelivered under this nonce

\* The transport and the callers, which the crate leaves to its user.
CONSTANTS
    Redelivered,  \* the message types the transport may deliver again
    MaxNonce,     \* bound: offers made in one behaviour
    MaxCycle      \* bound: cycles counted by each agent's caller

MessageType == {"Offer", "Accept", "Settle"}

Nonce == 1 .. MaxNonce

Resource == [kind : Kind, qty : Nat]

ASSUME BarterAssumption ==
    /\ Terms \in SUBSET [gives : Resource, wants : Resource]
    /\ Endowment \in [Agent -> [Kind -> Nat]]
    /\ MaxPending \in Nat
    /\ Timeout \in Nat \ {0}
    /\ MaxNonce \in Nat
    /\ MaxCycle \in Nat
    /\ Redelivered \subseteq MessageType
    /\ Nobody \notin Agent
    /\ IsFiniteSet(Agent)

\* A message as its verified content: Negotiator::sign names the signer.
Message == [type : MessageType, from : Agent, gives : Resource,
            wants : Resource, nonce : Nonce]

PendingTrade == [peer : Agent \cup {Nobody}, expect : Resource, openedAt : Nat]

\* What the program around a Negotiator still has to deliver for a trade.
Duty == [to : Agent, gives : Resource]

\* A Settle paid for by a debit, as the abstract ledger counts it.
Claim == [to : Agent, from : Agent, nonce : Nonce, gives : Resource]

ASSUME NamesAssumption == NoTrade \notin PendingTrade /\ NoDuty \notin Duty

VARIABLES
    balance,      \* Ledger, by agent and kind
    accepted,     \* trades accepted, by agent and nonce
    proposed,     \* trades proposed, by agent and nonce
    pins,         \* peers whose key each agent has pinned
    reputation,   \* direct pool each agent keeps of each peer
    duties,       \* deliveries each agent's caller has yet to make
    cycle,        \* the cycle each agent's caller has reached
    inbox,        \* messages the transport may deliver to each agent
    issued,       \* nonces drawn so far
    transit,      \* history: claims paid for and not credited
    outcomes,     \* history: outcomes recorded, by agent and nonce
    strikes,      \* history: nonces at which a peer fell short
    excused       \* history: nonces the transport or a caller failed

negotiators == <<balance, accepted, proposed, pins, reputation>>
history     == <<transit, outcomes, strikes, excused>>
vars == <<negotiators, duties, cycle, inbox, issued, history>>

Init ==
    /\ balance = Endowment
    /\ accepted = [a \in Agent |-> [n \in Nonce |-> NoTrade]]
    /\ proposed = [a \in Agent |-> [n \in Nonce |-> NoTrade]]
    /\ pins = [a \in Agent |-> {}]
    /\ reputation = [a \in Agent |-> [b \in Agent |-> Unseen]]
    /\ duties = [a \in Agent |-> [n \in Nonce |-> NoDuty]]
    /\ cycle = [a \in Agent |-> 0]
    /\ inbox = [a \in Agent |-> {}]
    /\ issued = 0
    /\ transit = {}
    /\ outcomes = [a \in Agent |-> [n \in Nonce |-> 0]]
    /\ strikes = [a \in Agent |-> [b \in Agent |-> {}]]
    /\ excused = {}

-----------------------------------------------------------------------------
(* Transport.  A message not received is lost; nothing obliges delivery.   *)

\* a's inbox once m has been handed to a.
Rest(a, m) == IF m.type \in Redelivered THEN inbox[a] ELSE inbox[a] \ {m}

Consume(a, m) == inbox' = [inbox EXCEPT ![a] = Rest(a, m)]

Arrives(a, m, type) ==
    /\ m \in inbox[a]
    /\ m.type = type

-----------------------------------------------------------------------------
(* Handlers.                                                               *)

IsBlacklisted(a, b) == Blacklisted(reputation[a][b], cycle[a])

\* verify: a genuine message passes, and its signer's key is pinned.
Verify(a, m) == pins' = [pins EXCEPT ![a] = @ \cup {m.from}]

\* record_direct_outcome for one trade, with the history of what was scored.
Score(a, b, n, ratio) ==
    /\ reputation' = [reputation EXCEPT
                        ![a][b] = RecordOutcome(@, ratio, cycle[a])]
    /\ outcomes' = [outcomes EXCEPT ![a][n] = @ + 1]
    /\ strikes' = IF ratio < Unit
                  THEN [strikes EXCEPT ![a][b] = @ \cup {n}]
                  ELSE strikes

\* Bound: a trade opens only while its timeout still fits in MaxCycle.
InHorizon(a) == cycle[a] + Timeout <= MaxCycle

\* propose_offer.  The nonce is 64 random bits: two draws never coincide here.
ProposeOffer(a) ==
    \E t \in Terms :
        /\ issued < MaxNonce
        /\ InHorizon(a)
        /\ issued' = issued + 1
        /\ proposed' = [proposed EXCEPT ![a][issued + 1] =
                [peer |-> Nobody, expect |-> t.wants, openedAt |-> cycle[a]]]
        /\ inbox' = [b \in Agent |->
                IF b = a THEN inbox[b]
                ELSE inbox[b] \cup
                     {[type |-> "Offer", from |-> a, gives |-> t.gives,
                       wants |-> t.wants, nonce |-> issued + 1]}]
        /\ UNCHANGED <<balance, accepted, pins, reputation, duties, cycle, history>>

\* Seeded fault: the ledger is not consulted.
Unchecked(a, r) == TRUE

\* Ledger::can_afford, and the check debit makes before it subtracts.
CanAfford(a, r) == balance[a][r.kind] >= r.qty

PendingFrom(a, b) ==
    {n \in Nonce : accepted[a][n] # NoTrade /\ accepted[a][n].peer = b}

\* Seeded fault: the cap is off by one.
AcceptableOneMore(a, m) ==
    /\ ~IsBlacklisted(a, m.from)
    /\ Cardinality(PendingFrom(a, m.from)) <= MaxPending
    /\ CanAfford(a, m.wants)

Acceptable(a, m) ==
    /\ ~IsBlacklisted(a, m.from)
    /\ Cardinality(PendingFrom(a, m.from)) < MaxPending
    /\ CanAfford(a, m.wants)

\* Seeded fault: the trade expects what the accepter itself will give.
PendingTradeReversed(a, m) ==
    [peer |-> m.from, expect |-> m.wants, openedAt |-> cycle[a]]

\* What receive_offer records and answers when it takes an offer.
PendingTradeOf(a, m) ==
    [peer |-> m.from, expect |-> m.gives, openedAt |-> cycle[a]]

AcceptOf(a, m) ==
    [type |-> "Accept", from |-> a, gives |-> m.gives, wants |-> m.wants,
     nonce |-> m.nonce]

\* receive_offer answering Some(Accept): the caller now owes m.wants.
AcceptOffer(a) ==
    \E m \in inbox[a] :
        /\ Arrives(a, m, "Offer")
        /\ Acceptable(a, m)
        /\ InHorizon(a)
        /\ Verify(a, m)
        /\ accepted' = [accepted EXCEPT ![a][m.nonce] = PendingTradeOf(a, m)]
        /\ duties' = [duties EXCEPT ![a][m.nonce] =
                        [to |-> m.from, gives |-> m.wants]]
        /\ inbox' = [inbox EXCEPT ![a] = Rest(a, m),
                                  ![m.from] = @ \cup {AcceptOf(a, m)}]
        /\ UNCHANGED <<balance, proposed, reputation, cycle, issued, history>>

\* receive_offer answering None (blacklisted, not affordable) or Err (cap).
DeclineOffer(a) ==
    \E m \in inbox[a] :
        /\ Arrives(a, m, "Offer")
        /\ ~Acceptable(a, m)
        /\ Verify(a, m)
        /\ Consume(a, m)
        /\ UNCHANGED <<balance, accepted, proposed, reputation, duties, cycle,
                       issued, history>>

\* Seeded fault: the last Accept binds.
LastAcceptBinds(a, m) == proposed[a][m.nonce] # NoTrade

\* The first Accept of a nonce we proposed may bind its signer.
Bindable(a, m) ==
    /\ proposed[a][m.nonce] # NoTrade
    /\ proposed[a][m.nonce].peer = Nobody

\* receive_accept binding the accepter: the caller now owes what it offered.
BindAccept(a) ==
    \E m \in inbox[a] :
        /\ Arrives(a, m, "Accept")
        /\ Bindable(a, m)
        /\ Verify(a, m)
        /\ proposed' = [proposed EXCEPT ![a][m.nonce].peer = m.from]
        /\ duties' = [duties EXCEPT ![a][m.nonce] =
                        [to |-> m.from, gives |-> m.gives]]
        /\ Consume(a, m)
        /\ UNCHANGED <<balance, accepted, reputation, cycle, issued, history>>

\* receive_accept changing nothing: repeated, too late, or by another peer.
IgnoreAccept(a) ==
    \E m \in inbox[a] :
        /\ Arrives(a, m, "Accept")
        /\ ~Bindable(a, m)
        /\ Verify(a, m)
        /\ Consume(a, m)
        /\ UNCHANGED <<balance, accepted, proposed, reputation, duties, cycle,
                       issued, history>>

ClaimOf(a, m) ==
    [to |-> a, from |-> m.from, nonce |-> m.nonce, gives |-> m.gives]

\* deliver, called once by each side for what it promised.  It debits and
\* signs; no pending trade is consulted or consumed.
Deliver(a) ==
    \E n \in {k \in Nonce : duties[a][k] # NoDuty} :
    \E q \in 0 .. duties[a][n].gives.qty :
        LET duty == duties[a][n]
            paid == [kind |-> duty.gives.kind, qty |-> q]
            settle == [type |-> "Settle", from |-> a, gives |-> paid,
                       wants |-> [paid EXCEPT !.qty = 0], nonce |-> n]
        IN  /\ CanAfford(a, paid)
            /\ balance' = [balance EXCEPT ![a][paid.kind] = @ - q]
            /\ inbox' = [inbox EXCEPT ![duty.to] = @ \cup {settle}]
            /\ duties' = [duties EXCEPT ![a][n] = NoDuty]
            /\ transit' = transit \cup {ClaimOf(duty.to, settle)}
            /\ excused' = IF q < duty.gives.qty THEN excused \cup {n} ELSE excused
            /\ UNCHANGED <<accepted, proposed, pins, reputation, cycle, issued,
                           outcomes, strikes>>

\* The pending trade a Settle is matched with: accepted before proposed.
SettledTrade(a, m) ==
    IF accepted[a][m.nonce] # NoTrade THEN accepted[a][m.nonce]
                                      ELSE proposed[a][m.nonce]

\* Only from the counterparty on record; an unbound offer has none.
Creditable(a, m) ==
    /\ SettledTrade(a, m) # NoTrade
    /\ SettledTrade(a, m).peer = m.from

\* Seeded faults: a settled trade is not consumed.
AcceptedKept(a, m) == accepted
ProposedKept(a, m) == proposed

\* The books once m's trade is taken out of the one it was found in.
AcceptedAfter(a, m) == [accepted EXCEPT ![a][m.nonce] = NoTrade]

ProposedAfter(a, m) ==
    IF accepted[a][m.nonce] # NoTrade THEN proposed
    ELSE [proposed EXCEPT ![a][m.nonce] = NoTrade]

\* receive_settle crediting the ledger and scoring the peer.
CreditSettle(a) ==
    \E m \in inbox[a] :
        /\ Arrives(a, m, "Settle")
        /\ Creditable(a, m)
        /\ Verify(a, m)
        /\ accepted' = AcceptedAfter(a, m)
        /\ proposed' = ProposedAfter(a, m)
        /\ balance' = [balance EXCEPT ![a][m.gives.kind] = @ + m.gives.qty]
        /\ Score(a, m.from, m.nonce,
                 FulfillmentRatio(SettledTrade(a, m).expect, m.gives))
        /\ transit' = transit \ {ClaimOf(a, m)}
        /\ Consume(a, m)
        /\ UNCHANGED <<duties, cycle, issued, excused>>

\* A Settle that overtook the Accept that would have bound its signer.
Premature(a, m) ==
    /\ proposed[a][m.nonce] # NoTrade
    /\ proposed[a][m.nonce].peer = Nobody

\* receive_settle answering Err: no such trade, nobody bound, or another peer.
RejectSettle(a) ==
    \E m \in inbox[a] :
        /\ Arrives(a, m, "Settle")
        /\ ~Creditable(a, m)
        /\ Verify(a, m)
        /\ Consume(a, m)
        /\ excused' = IF Premature(a, m) THEN excused \cup {m.nonce} ELSE excused
        /\ UNCHANGED <<balance, accepted, proposed, reputation, duties, cycle,
                       issued, transit, outcomes, strikes>>

\* Seeded faults: the timeout is off by one, either way.
ExpiredLate(book, a) ==
    {n \in Nonce : /\ book[a][n] # NoTrade
                   /\ Elapsed(cycle[a], book[a][n].openedAt) > Timeout}
ExpiredEarly(book, a) ==
    {n \in Nonce : /\ book[a][n] # NoTrade
                   /\ Elapsed(cycle[a], book[a][n].openedAt) + 1 >= Timeout}

Expired(book, a) ==
    {n \in Nonce : /\ book[a][n] # NoTrade
                   /\ Elapsed(cycle[a], book[a][n].openedAt) >= Timeout}

Without(book, a) ==
    [book EXCEPT ![a] = [n \in Nonce |->
        IF n \in Expired(book, a) THEN NoTrade ELSE book[a][n]]]

\* The expired trades of a that blame b; an unbound offer blames nobody.
BrokenBy(a, b) ==
    {n \in Expired(accepted, a) : accepted[a][n].peer = b}
        \cup {n \in Expired(proposed, a) : proposed[a][n].peer = b}

\* sweep_timeouts: every expired trade is dropped, and each one that has a
\* counterparty is scored against it as fully broken.
SweepTimeouts(a) ==
    /\ accepted' = Without(accepted, a)
    /\ proposed' = Without(proposed, a)
    /\ reputation' = [reputation EXCEPT ![a] = [b \in Agent |->
            IF BrokenBy(a, b) = {} THEN reputation[a][b]
            ELSE RecordBroken(reputation[a][b],
                              Cardinality(BrokenBy(a, b)), cycle[a])]]
    /\ outcomes' = [outcomes EXCEPT ![a] = [n \in Nonce |->
            IF \E b \in Agent : n \in BrokenBy(a, b) THEN outcomes[a][n] + 1
                                                     ELSE outcomes[a][n]]]
    /\ strikes' = [strikes EXCEPT ![a] = [b \in Agent |->
            strikes[a][b] \cup BrokenBy(a, b)]]
    /\ UNCHANGED <<balance, pins, duties, cycle, inbox, issued, transit, excused>>

\* A promise not yet delivered, or a message that would still change a trade.
Underway(n) ==
    \E a \in Agent :
        \/ duties[a][n] # NoDuty
        \/ \E m \in inbox[a] :
              /\ m.nonce = n
              /\ \/ m.type = "Offer"
                 \/ m.type = "Accept" /\ Bindable(a, m)
                 \/ m.type = "Settle" /\ Creditable(a, m)

\* a's caller ends a cycle; what is underway at its end is late.
Tick(a) ==
    /\ cycle[a] < MaxCycle
    /\ cycle' = [cycle EXCEPT ![a] = @ + 1]
    /\ excused' = excused \cup {n \in Nonce : Underway(n)}
    /\ UNCHANGED <<negotiators, duties, inbox, issued, transit, outcomes, strikes>>

Step(a) ==
    \/ ProposeOffer(a)
    \/ AcceptOffer(a)
    \/ DeclineOffer(a)
    \/ BindAccept(a)
    \/ IgnoreAccept(a)
    \/ Deliver(a)
    \/ CreditSettle(a)
    \/ RejectSettle(a)
    \/ SweepTimeouts(a)
    \/ Tick(a)

Next == \E a \in Agent : Step(a)

Spec == Init /\ [][Next]_vars

\* The caller keeps counting cycles and keeps sweeping, as the drive loop does
\* once per cycle; nothing is assumed of the transport or of the other agents.
FairSpec ==
    /\ Spec
    /\ \A a \in Agent : WF_vars(Tick(a)) /\ WF_vars(SweepTimeouts(a))

-----------------------------------------------------------------------------
(* Properties.                                                             *)

\* Every variable of the handlers, the transport and the history has its type.
TypeOK ==
    /\ balance \in [Agent -> [Kind -> Nat]]
    /\ accepted \in [Agent -> [Nonce -> PendingTrade \cup {NoTrade}]]
    /\ proposed \in [Agent -> [Nonce -> PendingTrade \cup {NoTrade}]]
    /\ pins \in [Agent -> SUBSET Agent]
    /\ reputation \in [Agent -> [Agent -> Record]]
    /\ duties \in [Agent -> [Nonce -> Duty \cup {NoDuty}]]
    /\ cycle \in [Agent -> Nat]
    /\ inbox \in [Agent -> SUBSET Message]
    /\ issued \in 0 .. MaxNonce
    /\ transit \in SUBSET Claim
    /\ outcomes \in [Agent -> [Nonce -> Nat]]
    /\ strikes \in [Agent -> [Agent -> SUBSET Nonce]]
    /\ excused \in SUBSET Nonce

Open(a, n) == accepted[a][n] # NoTrade \/ proposed[a][n] # NoTrade

\* One trade, one verdict: whatever is lost, late or delivered again, each
\* agent scores a nonce at most once, by settlement or by timeout, not both.
OneOutcomePerTrade == \A a \in Agent, n \in Nonce : outcomes[a][n] <= 1

\* Why: a nonce is open at an agent, or on offer to it, only before its outcome.
OfferWaiting(a, n) ==
    \E m \in inbox[a] : m.type = "Offer" /\ m.nonce = n

OutcomeInv ==
    /\ OneOutcomePerTrade
    /\ \A a \in Agent, n \in Nonce :
        /\ Open(a, n) => outcomes[a][n] = 0
        /\ accepted[a][n] # NoTrade => proposed[a][n] = NoTrade
        /\ OfferWaiting(a, n) => outcomes[a][n] = 0 /\ ~Open(a, n)
        /\ n > issued => outcomes[a][n] = 0 /\ ~Open(a, n) /\ ~OfferWaiting(a, n)
    /\ \A a \in Agent : \A m, o \in inbox[a] :
        m.type = "Offer" /\ o.type = "Offer" /\ m.nonce = o.nonce => m = o

\* Once an accepter is bound to an offer, a later or repeated Accept never
\* moves the trade to another peer (receive_accept's third branch).
SingleBinding ==
    [][\A a \in Agent, n \in Nonce :
        proposed[a][n] # NoTrade /\ proposed[a][n].peer # Nobody
            => proposed'[a][n] \in {proposed[a][n], NoTrade}]_vars

\* Two agents that hold the two ends of one nonce agree on it: each names the
\* other, and what either still has to deliver is what the other expects.
TermsAgree ==
    \A a, b \in Agent, n \in Nonce :
        LET mine == proposed[a][n]
            theirs == accepted[b][n]
        IN  mine # NoTrade /\ mine.peer = b /\ theirs # NoTrade =>
            /\ theirs.peer = a
            /\ duties[a][n] \in {NoDuty, [to |-> b, gives |-> theirs.expect]}
            /\ duties[b][n] \in {NoDuty, [to |-> a, gives |-> mine.expect]}

\* The two strikes the comment on DIRECT_BLACKLIST_THRESHOLD describes: a peer
\* is blacklisted only after falling short at two different trades.
TwoStrikes ==
    \A a, b \in Agent : IsBlacklisted(a, b) => Cardinality(strikes[a][b]) >= 2

\* No peer ever holds more than max_pending_per_peer places in another's book.
PendingCapped ==
    \A a, b \in Agent : Cardinality(PendingFrom(a, b)) <= MaxPending

\* Nobody is blamed for nothing: a peer is only scored short at a trade where
\* somebody delivered less than promised, something was still underway when a
\* cycle ended, or a Settle was lost by overtaking its Accept (for two agents:
\* among more, the loser of a broadcast offer blames the proposer for the trade).
Blameless ==
    Cardinality(Agent) = 2 => \A a, b \in Agent : strikes[a][b] \subseteq excused

\* Every pending trade is eventually settled or swept; none is held for ever.
TradesResolve == \A a \in Agent, n \in Nonce : Open(a, n) ~> ~Open(a, n)

\* The ledgers of the mesh implement Escrow: nothing is credited that was not
\* debited for that very receiver, and nothing is credited twice.
Payable == {c \in Claim : c.to # c.from}

Ledgers == INSTANCE Escrow WITH Claim <- Payable

ImplementsEscrow == Ledgers!Spec

\* The sum of it: at every moment the ledgers of the mesh and what is claimed
\* from them hold exactly what the agents started with.
MeshConserves == Ledgers!Conserved

-----------------------------------------------------------------------------
(* What the documents say and the code does not do.                        *)

\* "a captured `settle` cannot be replayed to re-credit the ledger": settled
\* trades never leave the ledgers of the mesh with more than they started with.
NothingMinted ==
    \A k \in Kind : Ledgers!TotalOf(balance, k) <= Ledgers!TotalOf(Endowment, k)

=============================================================================
