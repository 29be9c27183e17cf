------------------------------- MODULE Gossip -------------------------------
(***************************************************************************)
(* The gossip half of vitalis-negotiate: agents with direct experience of  *)
(* one another sign reports, others relay them, and every agent folds what *)
(* reaches it into a hearsay pool keyed by the original witness.  A trust  *)
(* score is abstracted to its basis: the agents whose word went into it.   *)
(* Reports once sent may be delivered late, again, or never.               *)
(***************************************************************************)
EXTENDS Reputation, FiniteSets, FiniteSetsExt

CONSTANTS
    Agent,
    MaxHops,       \* MAX_HOPS
    MaxAge,        \* MAX_REPORT_AGE_CYCLES
    NoClaim,       \* nothing heard from this witness
    Subject,       \* bound: the agents traded with and gossiped about
    Ratios,        \* bound: the outcomes trades have, as shares of Unit
    MaxSent,       \* bound: messages sent in one behaviour
    MaxDings,      \* bound: bad outcomes recorded of one peer
    MaxCycle       \* bound: cycles counted by each agent

ASSUME GossipAssumption ==
    /\ MaxHops \in Nat \ {0}
    /\ MaxAge \in Nat
    /\ {MaxSent, MaxDings, MaxCycle} \subseteq Nat
    /\ Subject \subseteq Agent
    /\ Ratios \subseteq 0 .. Unit
    /\ IsFiniteSet(Agent)

\* ReputationReport, as signed by its witness.
Report == [witness : Agent, subject : Agent, asOf : Nat, basis : SUBSET Agent]

\* A message: a report sent by its witness (one hop), or relayed inside an
\* envelope.  Two fields are history: steps, the hand-offs the report really
\* went through, and honest, that every envelope of it so far was right.
Message == [from : Agent, relayed : BOOLEAN, subject : Agent, origin : Agent,
            hops : 0 .. MaxHops + 1, report : Report, steps : Nat,
            honest : BOOLEAN]

\* Hearsay, with the same history.
Claim == [basis : SUBSET Agent, asOf : Nat, hops : 1 .. MaxHops, steps : Nat,
          honest : BOOLEAN]

ASSUME ClaimAssumption == NoClaim \notin Claim

VARIABLES
    direct,        \* direct pool each agent keeps of each peer
    hearsay,       \* hearsay pool: by agent, subject and original witness
    pins,          \* peers whose key each agent has pinned
    cycle,         \* the cycle each agent's caller has reached
    sent,          \* every message ever sent
    signed         \* history: every report a witness signed

vars == <<direct, hearsay, pins, cycle, sent, signed>>

Init ==
    /\ direct = [a \in Agent |-> [s \in Agent |-> Unseen]]
    /\ hearsay = [a \in Agent |-> [s \in Agent |-> [o \in Agent |-> NoClaim]]]
    /\ pins = [a \in Agent |-> {}]
    /\ cycle = [a \in Agent |-> 0]
    /\ sent = {}
    /\ signed = {}

-----------------------------------------------------------------------------
\* Seeded fault: a reported failure counts like one of one's own.
IsBlacklistedByHearsay(a, b) ==
    LET heard == {o \in Agent : hearsay[a][b][o] # NoClaim}
    IN  DecayedFailures(direct[a][b], cycle[a]) + Unit * Cardinality(heard)
            >= Threshold

IsBlacklisted(a, b) == Blacklisted(direct[a][b], cycle[a])

Met(a, s) == direct[a][s] # Unseen

Stale(asOf, now) == Elapsed(now, asOf) > MaxAge

\* hearsay_origins: the witnesses now backing what a has heard about s.
Origins(a, s) ==
    {o \in Agent : /\ hearsay[a][s][o] # NoClaim
                   /\ ~Stale(hearsay[a][s][o].asOf, cycle[a])}

\* What snapshot draws on: a's own record of s, or what it presumes of a peer it
\* never met, and every fresh claim.
Basis(a, s) == {a} \cup UNION {hearsay[a][s][o].basis : o \in Origins(a, s)}

-----------------------------------------------------------------------------
\* A trade of a with s ends well, or penalize is called.
DirectOutcome(a, s, ratio) ==
    /\ a # s
    /\ ratio < Unit =>
          MapThenSumSet(LAMBDA b : direct[b][s].dings, Agent) < MaxDings
    /\ ratio = Unit => ~Met(a, s)           \* bound: one good trade, first
    /\ direct' = [direct EXCEPT ![a][s] = RecordOutcome(@, ratio, cycle[a])]
    /\ UNCHANGED <<hearsay, pins, cycle, sent, signed>>

Send(m) ==
    /\ Cardinality(sent) < MaxSent
    /\ sent' = sent \cup {m}

\* report_reputation: the witness signs what its snapshot says.
ReportOf(a, s) ==
    [witness |-> a, subject |-> s, asOf |-> cycle[a], basis |-> Basis(a, s)]

SendReport(a, s) ==
    /\ Send([from |-> a, relayed |-> FALSE, subject |-> s, origin |-> a,
             hops |-> 1, report |-> ReportOf(a, s), steps |-> 1,
             honest |-> TRUE])
    /\ signed' = signed \cup {ReportOf(a, s)}
    /\ UNCHANGED <<direct, hearsay, pins, cycle>>

\* Seeded fault: the hop count is forwarded as it came.
RelayUncounted(a, m) ==
    [m EXCEPT !.from = a, !.relayed = TRUE, !.steps = @ + 1]

\* The envelope relay_reputation_report wraps around what it forwards.  It
\* checks nothing and the relayer need not believe it.
RelayOf(a, m) ==
    [m EXCEPT !.from = a, !.relayed = TRUE, !.hops = @ + 1, !.steps = @ + 1]

Relay(a) ==
    \E m \in sent :
        /\ m.hops < MaxHops
        /\ Send(RelayOf(a, m))
        /\ UNCHANGED <<direct, hearsay, pins, cycle, signed>>

\* A relayer gets a field of the envelope wrong (bound: one at a time).
WrongEnvelopes(e) ==
    {[e EXCEPT !.subject = s] : s \in Agent} \cup
    {[e EXCEPT !.origin = o] : o \in Agent} \cup
    {[e EXCEPT !.hops = h] : h \in 0 .. MaxHops + 1}

MalformedRelay(a) ==
    \E m \in sent : \E wrong \in WrongEnvelopes(RelayOf(a, m)) :
        /\ m.hops <= MaxHops
        /\ Send([wrong EXCEPT !.honest = FALSE])
        /\ UNCHANGED <<direct, hearsay, pins, cycle, signed>>

\* Seeded faults: a hop count past the cap passes; any signer passes.
HopsUnbounded(m) == m.hops \in 0 .. MaxHops + 1
SignedByAnyone(m) == TRUE

\* What receive_reputation_report requires of an envelope before it looks at
\* the signature of the report inside, and after.
HopsInRange(m) == m.hops \in 1 .. MaxHops
SignedByOrigin(m) == m.report.witness = m.origin
SameSubject(m) == m.report.subject = m.subject

WellFormed(m) ==
    m.relayed => HopsInRange(m) /\ SignedByOrigin(m) /\ SameSubject(m)

\* verify pins the sender; verify_binding, reached only for an envelope from a
\* peer that is not blacklisted, pins the witness.
PinnedBy(a, m) ==
    {m.from} \cup
    (IF m.relayed /\ ~IsBlacklisted(a, m.from) /\ HopsInRange(m)
            /\ SignedByOrigin(m)
     THEN {m.origin} ELSE {})

\* Seeded fault: an older report replaces a newer one.
FoldableLate(a, m) ==
    /\ m.subject \notin {a, m.origin}
    /\ m.report.asOf <= cycle[a]
    /\ ~Stale(m.report.asOf, cycle[a])

\* Seeded fault: what a peer says of itself is folded.
FoldableFromSubject(a, m) ==
    /\ m.subject # a
    /\ m.report.asOf <= cycle[a]
    /\ ~Stale(m.report.asOf, cycle[a])
    /\ LET held == hearsay[a][m.subject][m.origin]
       IN  held # NoClaim => m.report.asOf >= held.asOf

\* fold_hearsay's guards: not about oneself, not by the subject, not from the
\* future, not stale, and no older than what the witness said before.
Foldable(a, m) ==
    /\ m.subject \notin {a, m.origin}
    /\ m.report.asOf <= cycle[a]
    /\ ~Stale(m.report.asOf, cycle[a])
    /\ LET held == hearsay[a][m.subject][m.origin]
       IN  held # NoClaim => m.report.asOf >= held.asOf

ClaimOf(m) ==
    [basis |-> m.report.basis, asOf |-> m.report.asOf, hops |-> m.hops,
     steps |-> m.steps, honest |-> m.honest]

\* The pool entry a message is folded into: its original witness's.
KeyOf(m) == m.origin

\* receive_reputation_report folding the claim.
FoldReport(a) ==
    \E m \in sent :
        /\ m.from # a
        /\ ~IsBlacklisted(a, m.from)
        /\ WellFormed(m)
        /\ Foldable(a, m)
        /\ pins' = [pins EXCEPT ![a] = @ \cup PinnedBy(a, m)]
        /\ hearsay' = [hearsay EXCEPT ![a][m.subject][KeyOf(m)] = ClaimOf(m)]
        /\ UNCHANGED <<direct, cycle, sent, signed>>

\* receive_reputation_report returning early.
IgnoreReport(a) ==
    \E m \in sent :
        /\ m.from # a
        /\ \/ IsBlacklisted(a, m.from)
           \/ ~WellFormed(m)
           \/ ~Foldable(a, m)
        /\ pins' = [pins EXCEPT ![a] = @ \cup PinnedBy(a, m)]
        /\ UNCHANGED <<direct, hearsay, cycle, sent, signed>>

Tick(a) ==
    /\ cycle[a] < MaxCycle
    /\ \A b \in Agent : cycle[a] <= cycle[b]     \* bound: at most one ahead
    /\ cycle' = [cycle EXCEPT ![a] = @ + 1]
    /\ UNCHANGED <<direct, hearsay, pins, sent, signed>>

Next ==
    \E a \in Agent :
        \/ \E s \in Subject, ratio \in Ratios : DirectOutcome(a, s, ratio)
        \/ \E s \in Subject : SendReport(a, s)
        \/ Relay(a)
        \/ MalformedRelay(a)
        \/ FoldReport(a)
        \/ IgnoreReport(a)
        \/ Tick(a)

Spec == Init /\ [][Next]_vars

-----------------------------------------------------------------------------
(* Properties.                                                             *)

\* Pools, pins and messages have their types.
TypeOK ==
    /\ direct \in [Agent -> [Agent -> Record]]
    /\ hearsay \in [Agent -> [Agent -> [Agent -> Claim \cup {NoClaim}]]]
    /\ pins \in [Agent -> SUBSET Agent]
    /\ cycle \in [Agent -> Nat]
    /\ sent \subseteq Message
    /\ signed \subseteq Report

\* Whatever envelopes a claim travelled in, the pool entry under a witness is
\* a report that very witness signed, about that very subject.
ClaimsAreSigned ==
    \A a, s, o \in Agent :
        LET c == hearsay[a][s][o]
        IN  c # NoClaim =>
            [witness |-> o, subject |-> s, asOf |-> c.asOf, basis |-> c.basis]
                \in signed

\* If every relayer on its way built its envelope right, the discount a claim
\* gets is that of the distance it travelled, which never exceeds MAX_HOPS.
HopsAreDistance ==
    \A a, s, o \in Agent :
        LET c == hearsay[a][s][o]
        IN  c # NoClaim /\ c.honest => c.hops = c.steps /\ c.steps <= MaxHops

\* However late or often reports arrive, what a witness said is only ever
\* replaced by something it said no earlier.
FreshestKept ==
    [][\A a, s, o \in Agent :
        hearsay[a][s][o] # NoClaim =>
            /\ hearsay'[a][s][o] # NoClaim
            /\ hearsay'[a][s][o].asOf >= hearsay[a][s][o].asOf]_vars

\* Only an agent's own trades blacklist: without two of its own bad outcomes
\* no amount of gossip does.
OnlyOwnTradesBlacklist ==
    \A a, s \in Agent : IsBlacklisted(a, s) => direct[a][s].dings >= 2

\* What is heard of a peer is signed again as one's own opinion and heard again
\* by others, in envelopes that may say it is another's.  However often it goes
\* round, the word of the peer itself is never part of it.
SubjectHasNoSay ==
    \A a, s, o \in Agent :
        LET c == hearsay[a][s][o]
        IN  c # NoClaim => s \notin c.basis

=============================================================================
