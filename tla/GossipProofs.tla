---------------------------- MODULE GossipProofs ----------------------------
(***************************************************************************)
(* Theorems about Gossip for any number of agents, any cap on hops and any *)
(* age of reports, whatever relayers write on their envelopes and however  *)
(* often, late or out of order these arrive.                               *)
(***************************************************************************)
EXTENDS Gossip, TallyProofs

\* Every report under way, in whatever envelope, is one its witness signed,
\* under the count of the hand-offs it went through if the envelopes were right.
SentSigned ==
    \A m \in sent :
        /\ m.report \in signed
        /\ ~m.relayed => /\ m.report.witness = m.origin
                         /\ m.report.subject = m.subject
                         /\ m.hops = 1
        /\ m.honest => m.hops = m.steps /\ m.hops <= MaxHops

\* What is signed of another, and what is held, owes nothing to its subject.
SubjectSilent ==
    /\ \A r \in signed : r.witness # r.subject => r.subject \notin r.basis
    /\ SubjectHasNoSay

\* What is scored against a peer is covered by its dings.
DingsCover == \A a, s \in Agent : WithinDings(direct[a][s], direct[a][s].dings)

-----------------------------------------------------------------------------
(* Type correctness.                                                       *)

\* A peer nobody has seen has a record.
LEMMA UnseenType == Unseen \in Record
BY DEF Unseen, Record

\* An opinion is made of the words of agents.
LEMMA BasisType ==
    ASSUME TypeOK, NEW a \in Agent, NEW s \in Agent
    PROVE  Basis(a, s) \in SUBSET Agent
<1>1. ASSUME NEW o \in Origins(a, s)
      PROVE  hearsay[a][s][o].basis \in SUBSET Agent
  BY <1>1 DEF Origins, TypeOK, Claim
<1> QED
  BY <1>1 DEF Basis

\* What report_reputation signs is a report.
LEMMA ReportType ==
    ASSUME TypeOK, NEW a \in Agent, NEW s \in Agent
    PROVE  ReportOf(a, s) \in Report
<1>1. Basis(a, s) \in SUBSET Agent /\ cycle[a] \in Nat
  BY BasisType DEF TypeOK
<1> QED
  BY <1>1 DEF ReportOf, Report

\* One more hop keeps a message a message.
LEMMA RelayType ==
    ASSUME NEW a \in Agent, NEW m \in Message, m.hops <= MaxHops
    PROVE  LET r == RelayOf(a, m)
           IN  /\ r \in Message
               /\ r.relayed /\ r.hops = m.hops + 1 /\ r.steps = m.steps + 1
               /\ r.report = m.report /\ r.honest = m.honest
<1>1. m.hops + 1 \in 0 .. MaxHops + 1 /\ m.steps + 1 \in Nat
  BY GossipAssumption DEF Message
<1> QED
  BY <1>1 DEF RelayOf, Message

\* So does writing one field of the envelope wrong, and the report stays.
LEMMA WrongType ==
    ASSUME NEW e \in Message, NEW wrong \in WrongEnvelopes(e)
    PROVE  LET w == [wrong EXCEPT !.honest = FALSE]
           IN  /\ w \in Message
               /\ w.report = e.report /\ w.relayed = e.relayed /\ ~w.honest
<1>1. CASE \E s \in Agent : wrong = [e EXCEPT !.subject = s]
  BY <1>1 DEF Message
<1>2. CASE \E o \in Agent : wrong = [e EXCEPT !.origin = o]
  BY <1>2 DEF Message
<1>3. CASE \E h \in 0 .. MaxHops + 1 : wrong = [e EXCEPT !.hops = h]
  BY <1>3 DEF Message
<1> QED
  BY <1>1, <1>2, <1>3 DEF WrongEnvelopes

\* What passes the checks of an envelope is folded as a claim.
LEMMA ClaimType ==
    ASSUME NEW m \in Message, WellFormed(m), ~m.relayed => m.hops = 1
    PROVE  ClaimOf(m) \in Claim
<1>1. m.hops \in 1 .. MaxHops
  <2>1. CASE m.relayed
    BY <2>1 DEF WellFormed, HopsInRange
  <2>2. CASE ~m.relayed
    BY <2>2, GossipAssumption
  <2> QED
    BY <2>1, <2>2
<1>2. /\ m.report.basis \in SUBSET Agent /\ m.report.asOf \in Nat
      /\ m.steps \in Nat /\ m.honest \in BOOLEAN
  BY DEF Message, Report
<1> QED
  BY <1>1, <1>2 DEF ClaimOf, Claim

\* The pins a message adds are of agents.
LEMMA PinnedType ==
    ASSUME NEW a \in Agent, NEW m \in Message
    PROVE  PinnedBy(a, m) \in SUBSET Agent
<1>1. m.from \in Agent /\ m.origin \in Agent
  BY DEF Message
<1> QED
  BY <1>1 DEF PinnedBy

\* The start is well typed, and nothing is under way.
LEMMA InitType == Init => TypeOK /\ SentSigned
BY UnseenType DEF Init, TypeOK, SentSigned

\* A trade scored keeps the types.
LEMMA DirectOutcomeType ==
    ASSUME TypeOK, NEW a \in Agent, NEW s \in Subject, NEW ratio \in Ratios,
           DirectOutcome(a, s, ratio)
    PROVE  TypeOK'
<1>1. s \in Agent /\ ratio \in 0 .. Unit /\ direct[a][s] \in Record /\ cycle[a] \in Nat
  BY GossipAssumption DEF TypeOK
<1>2. RecordOutcome(direct[a][s], ratio, cycle[a]) \in Record
  BY <1>1, OutcomeType
<1>3. direct' = [direct EXCEPT ![a][s] = RecordOutcome(direct[a][s], ratio, cycle[a])]
  BY DEF DirectOutcome
<1>4. direct' \in [Agent -> [Agent -> Record]]
  BY <1>1, <1>2, <1>3 DEF TypeOK
<1> QED
  BY <1>4 DEF TypeOK, DirectOutcome

\* A report sent keeps the types.
LEMMA SendReportType ==
    ASSUME TypeOK, NEW a \in Agent, NEW s \in Subject, SendReport(a, s)
    PROVE  TypeOK'
<1>1. s \in Agent
  BY GossipAssumption
<1>2. ReportOf(a, s) \in Report
  BY <1>1, ReportType
<1>3. [from |-> a, relayed |-> FALSE, subject |-> s, origin |-> a, hops |-> 1,
       report |-> ReportOf(a, s), steps |-> 1, honest |-> TRUE] \in Message
  BY <1>1, <1>2, GossipAssumption DEF Message
<1> QED
  BY <1>2, <1>3 DEF TypeOK, SendReport, Send

\* A report relayed keeps the types.
LEMMA RelayPreservesType ==
    ASSUME TypeOK, NEW a \in Agent, Relay(a)
    PROVE  TypeOK'
<1> PICK m \in sent : m.hops < MaxHops /\ Send(RelayOf(a, m))
  BY DEF Relay
<1>1. m \in Message /\ m.hops <= MaxHops
  BY GossipAssumption DEF TypeOK, Message
<1>2. RelayOf(a, m) \in Message
  BY <1>1, RelayType
<1> QED
  BY <1>2 DEF TypeOK, Relay, Send

\* A report relayed in a wrong envelope keeps the types.
LEMMA MalformedPreservesType ==
    ASSUME TypeOK, NEW a \in Agent, MalformedRelay(a)
    PROVE  TypeOK'
<1> PICK m \in sent : \E wrong \in WrongEnvelopes(RelayOf(a, m)) :
        m.hops <= MaxHops /\ Send([wrong EXCEPT !.honest = FALSE])
  BY DEF MalformedRelay
<1> PICK wrong \in WrongEnvelopes(RelayOf(a, m)) :
        m.hops <= MaxHops /\ Send([wrong EXCEPT !.honest = FALSE])
  OBVIOUS
<1>1. m \in Message
  BY DEF TypeOK
<1>2. RelayOf(a, m) \in Message
  BY <1>1, RelayType
<1>3. [wrong EXCEPT !.honest = FALSE] \in Message
  BY <1>2, WrongType
<1> QED
  BY <1>3 DEF TypeOK, MalformedRelay, Send

\* A report folded into a pool keeps the types.
LEMMA FoldReportType ==
    ASSUME TypeOK, SentSigned, NEW a \in Agent, FoldReport(a)
    PROVE  TypeOK'
<1> PICK m \in sent :
        /\ WellFormed(m)
        /\ pins' = [pins EXCEPT ![a] = @ \cup PinnedBy(a, m)]
        /\ hearsay' = [hearsay EXCEPT ![a][m.subject][KeyOf(m)] = ClaimOf(m)]
  BY DEF FoldReport
<1>1. m \in Message /\ m.subject \in Agent /\ KeyOf(m) \in Agent
  BY DEF TypeOK, Message, KeyOf
<1>2. ClaimOf(m) \in Claim
  BY <1>1, ClaimType DEF SentSigned
<1>3. PinnedBy(a, m) \in SUBSET Agent
  BY <1>1, PinnedType
<1>4. hearsay' \in [Agent -> [Agent -> [Agent -> Claim \cup {NoClaim}]]]
  BY <1>1, <1>2 DEF TypeOK
<1>5. pins' \in [Agent -> SUBSET Agent]
  BY <1>3 DEF TypeOK
<1> QED
  BY <1>4, <1>5 DEF TypeOK, FoldReport

\* A report turned away keeps the types.
LEMMA IgnoreReportType ==
    ASSUME TypeOK, NEW a \in Agent, IgnoreReport(a)
    PROVE  TypeOK'
<1> PICK m \in sent : pins' = [pins EXCEPT ![a] = @ \cup PinnedBy(a, m)]
  BY DEF IgnoreReport
<1>1. PinnedBy(a, m) \in SUBSET Agent
  BY PinnedType DEF TypeOK
<1>2. pins' \in [Agent -> SUBSET Agent]
  BY <1>1 DEF TypeOK
<1> QED
  BY <1>2 DEF TypeOK, IgnoreReport

\* A cycle counted keeps the types.
LEMMA TickType ==
    ASSUME TypeOK, NEW a \in Agent, Tick(a)
    PROVE  TypeOK'
BY DEF TypeOK, Tick

-----------------------------------------------------------------------------
(* What is under way is signed.                                            *)

\* Whatever is sent or relayed carries a signed report.
LEMMA SentSignedNext ==
    ASSUME TypeOK, SentSigned, [Next]_vars
    PROVE  SentSigned'
<1>1. ASSUME UNCHANGED <<sent, signed>>
      PROVE  SentSigned'
  BY <1>1 DEF SentSigned
<1>2. ASSUME NEW a \in Agent, NEW s \in Subject, SendReport(a, s)
      PROVE  SentSigned'
  <2> DEFINE new == [from |-> a, relayed |-> FALSE, subject |-> s, origin |-> a,
                     hops |-> 1, report |-> ReportOf(a, s), steps |-> 1,
                     honest |-> TRUE]
  <2>1. sent' = sent \cup {new} /\ signed' = signed \cup {ReportOf(a, s)}
    BY <1>2 DEF SendReport, Send
  <2>2. ReportOf(a, s).witness = a /\ ReportOf(a, s).subject = s
    BY DEF ReportOf
  <2> QED
    BY <2>1, <2>2, GossipAssumption DEF SentSigned
<1>3. ASSUME NEW a \in Agent, Relay(a)
      PROVE  SentSigned'
  <2> PICK m \in sent : /\ m.hops < MaxHops
                        /\ sent' = sent \cup {RelayOf(a, m)}
                        /\ signed' = signed
    BY <1>3 DEF Relay, Send
  <2>1. m \in Message /\ m.hops <= MaxHops /\ m.hops \in Nat
    BY GossipAssumption DEF TypeOK, Message
  <2> DEFINE r == RelayOf(a, m)
  <2>2. /\ r.relayed /\ r.hops = m.hops + 1 /\ r.steps = m.steps + 1
        /\ r.report = m.report /\ r.honest = m.honest
    BY <2>1, RelayType
  <2> HIDE DEF r
  <2>4. sent' = sent \cup {r} /\ signed' = signed
    BY DEF r
  <2>3. m.hops + 1 <= MaxHops
    BY <2>1, GossipAssumption
  <2> QED
    BY <2>2, <2>3, <2>4 DEF SentSigned
<1>4. ASSUME NEW a \in Agent, MalformedRelay(a)
      PROVE  SentSigned'
  <2> PICK m \in sent : \E wrong \in WrongEnvelopes(RelayOf(a, m)) :
        /\ m.hops <= MaxHops
        /\ sent' = sent \cup {[wrong EXCEPT !.honest = FALSE]}
        /\ signed' = signed
    BY <1>4 DEF MalformedRelay, Send
  <2> PICK wrong \in WrongEnvelopes(RelayOf(a, m)) :
        /\ m.hops <= MaxHops
        /\ sent' = sent \cup {[wrong EXCEPT !.honest = FALSE]}
        /\ signed' = signed
    OBVIOUS
  <2> DEFINE w == [wrong EXCEPT !.honest = FALSE]
  <2>1. m \in Message
    BY DEF TypeOK
  <2>2. RelayOf(a, m) \in Message /\ RelayOf(a, m).report = m.report
        /\ RelayOf(a, m).relayed
    BY <2>1, RelayType
  <2>3. w.report = m.report /\ w.relayed /\ ~w.honest
    BY <2>2, WrongType
  <2> HIDE DEF w
  <2>4. sent' = sent \cup {w}
    BY DEF w
  <2> QED
    BY <2>3, <2>4 DEF SentSigned
<1> QED
  BY <1>1, <1>2, <1>3, <1>4 DEF Next, vars, DirectOutcome, FoldReport, IgnoreReport, Tick

\* Every step keeps the types and what is said of messages under way.
LEMMA TypeNext == TypeOK /\ SentSigned /\ [Next]_vars => TypeOK' /\ SentSigned'
<1> SUFFICES ASSUME TypeOK, SentSigned, [Next]_vars
             PROVE  TypeOK' /\ SentSigned'
  OBVIOUS
<1>1. CASE UNCHANGED vars
  BY <1>1 DEF TypeOK, SentSigned, vars
<1>2. CASE Next
  BY <1>2, DirectOutcomeType, SendReportType, RelayPreservesType,
     MalformedPreservesType, FoldReportType, IgnoreReportType, TickType,
     SentSignedNext
  DEF Next
<1> QED
  BY <1>1, <1>2

\* Both hold in every reachable state.
LEMMA TypedAndSigned == Spec => [](TypeOK /\ SentSigned)
BY InitType, TypeNext, PTL DEF Spec

\* Pools, pins and messages keep their types; in particular no hop count of a
\* claim is out of range.
THEOREM TypeCorrect == Spec => []TypeOK
BY TypedAndSigned, PTL

-----------------------------------------------------------------------------
(* What the hearsay pool holds.                                            *)

\* The only change to the pool is the claim of one message that passed.
LEMMA PoolChanges ==
    ASSUME TypeOK, SentSigned, [Next]_vars, hearsay' # hearsay
    PROVE  \E a \in Agent : \E m \in sent :
              /\ m \in Message
              /\ WellFormed(m) /\ Foldable(a, m)
              /\ m.report.witness = m.origin /\ m.report.subject = m.subject
              /\ hearsay' = [hearsay EXCEPT ![a][m.subject][m.origin] = ClaimOf(m)]
              /\ UNCHANGED <<direct, cycle, sent, signed>>
<1> PICK a \in Agent : FoldReport(a)
  BY DEF Next, vars, DirectOutcome, SendReport, Relay, MalformedRelay, IgnoreReport, Tick
<1> PICK m \in sent :
        /\ WellFormed(m) /\ Foldable(a, m)
        /\ hearsay' = [hearsay EXCEPT ![a][m.subject][KeyOf(m)] = ClaimOf(m)]
        /\ UNCHANGED <<direct, cycle, sent, signed>>
  BY DEF FoldReport
<1>1. m \in Message
  BY DEF TypeOK
<1>2. m.report.witness = m.origin /\ m.report.subject = m.subject
  BY DEF WellFormed, SignedByOrigin, SameSubject, SentSigned
<1> QED
  BY <1>1, <1>2 DEF KeyOf

\* An entry that changed holds what its message claims.
LEMMA EntryChanges ==
    ASSUME TypeOK, SentSigned, [Next]_vars,
           NEW a \in Agent, NEW s \in Agent, NEW o \in Agent,
           hearsay'[a][s][o] # hearsay[a][s][o]
    PROVE  \E m \in sent :
              /\ m \in Message /\ WellFormed(m) /\ Foldable(a, m)
              /\ s = m.subject /\ o = m.origin
              /\ m.report.witness = o /\ m.report.subject = s
              /\ hearsay'[a][s][o] = ClaimOf(m)
              /\ UNCHANGED <<direct, cycle, sent, signed>>
<1> PICK b \in Agent : \E m \in sent :
        /\ m \in Message
        /\ WellFormed(m) /\ Foldable(b, m)
        /\ m.report.witness = m.origin /\ m.report.subject = m.subject
        /\ hearsay' = [hearsay EXCEPT ![b][m.subject][m.origin] = ClaimOf(m)]
        /\ UNCHANGED <<direct, cycle, sent, signed>>
  BY PoolChanges
<1> PICK m \in sent :
        /\ m \in Message
        /\ WellFormed(m) /\ Foldable(b, m)
        /\ m.report.witness = m.origin /\ m.report.subject = m.subject
        /\ hearsay' = [hearsay EXCEPT ![b][m.subject][m.origin] = ClaimOf(m)]
        /\ UNCHANGED <<direct, cycle, sent, signed>>
  OBVIOUS
<1>1. m.subject \in Agent /\ m.origin \in Agent
  BY DEF Message
<1>2. hearsay \in [Agent -> [Agent -> [Agent -> Claim \cup {NoClaim}]]]
  BY DEF TypeOK
<1>3. a = b /\ s = m.subject /\ o = m.origin
  BY <1>1, <1>2
<1>4. hearsay'[a][s][o] = ClaimOf(m)
  BY <1>1, <1>2, <1>3
<1> QED
  BY <1>3, <1>4

\* What was signed stays signed.
LEMMA SignedGrows == [Next]_vars => signed \subseteq signed'
BY DEF Next, vars, DirectOutcome, SendReport, Relay, MalformedRelay, FoldReport,
       IgnoreReport, Tick

\* Folding a signed report leaves a signed claim at its distance.
LEMMA PoolSignedNext ==
    TypeOK /\ SentSigned /\ ClaimsAreSigned /\ HopsAreDistance /\ [Next]_vars
        => ClaimsAreSigned' /\ HopsAreDistance'
<1> SUFFICES ASSUME TypeOK, SentSigned, ClaimsAreSigned, HopsAreDistance, [Next]_vars,
                    NEW a \in Agent, NEW s \in Agent, NEW o \in Agent,
                    hearsay'[a][s][o] # NoClaim
             PROVE  LET c == hearsay'[a][s][o]
                    IN  /\ [witness |-> o, subject |-> s, asOf |-> c.asOf,
                            basis |-> c.basis] \in signed'
                        /\ c.honest => c.hops = c.steps /\ c.steps <= MaxHops
  BY DEF ClaimsAreSigned, HopsAreDistance
<1>1. CASE hearsay'[a][s][o] = hearsay[a][s][o]
  BY <1>1, SignedGrows DEF ClaimsAreSigned, HopsAreDistance
<1>2. CASE hearsay'[a][s][o] # hearsay[a][s][o]
  <2> PICK m \in sent :
        /\ m \in Message
        /\ m.report.witness = o /\ m.report.subject = s
        /\ hearsay'[a][s][o] = ClaimOf(m)
        /\ signed' = signed
    BY <1>2, EntryChanges
  <2>1. [witness |-> o, subject |-> s, asOf |-> m.report.asOf,
         basis |-> m.report.basis] = m.report
    BY DEF Message, Report
  <2>2. m.report \in signed /\ (m.honest => m.hops = m.steps /\ m.hops <= MaxHops)
    BY DEF SentSigned
  <2> QED
    BY <2>1, <2>2 DEF ClaimOf
<1> QED
  BY <1>1, <1>2

\* Every claim in a pool is a signed one at its distance, always.
LEMMA PoolSigned == Spec => [](ClaimsAreSigned /\ HopsAreDistance)
<1>1. Init => ClaimsAreSigned /\ HopsAreDistance
  BY DEF Init, ClaimsAreSigned, HopsAreDistance
<1> QED
  BY <1>1, PoolSignedNext, TypedAndSigned, PTL DEF Spec

\* Whatever a relayer writes, the pool holds under a witness, about a subject,
\* what that witness signed about that subject.
THEOREM ClaimsSigned == Spec => []ClaimsAreSigned
BY PoolSigned, PTL

\* A claim whose relayers all counted is discounted by the distance it came.
THEOREM DistanceCounted == Spec => []HopsAreDistance
BY PoolSigned, PTL

\* A step keeps the claims of a pool, or replaces one by a fresher one.
LEMMA FresherNext ==
    ASSUME TypeOK, SentSigned, [Next]_vars,
           NEW a \in Agent, NEW s \in Agent, NEW o \in Agent,
           hearsay[a][s][o] # NoClaim
    PROVE  /\ hearsay'[a][s][o] # NoClaim
           /\ hearsay'[a][s][o].asOf >= hearsay[a][s][o].asOf
<1>1. hearsay[a][s][o].asOf \in Nat
  BY DEF TypeOK, Claim
<1>2. CASE hearsay'[a][s][o] = hearsay[a][s][o]
  BY <1>1, <1>2
<1>3. CASE hearsay'[a][s][o] # hearsay[a][s][o]
  <2> PICK m \in sent :
        /\ m \in Message /\ WellFormed(m) /\ Foldable(a, m)
        /\ s = m.subject /\ o = m.origin
        /\ hearsay'[a][s][o] = ClaimOf(m)
    BY <1>3, EntryChanges
  <2>1. ClaimOf(m) \in Claim
    BY ClaimType DEF SentSigned
  <2>2. m.report.asOf >= hearsay[a][s][o].asOf
    BY DEF Foldable
  <2> QED
    BY <2>1, <2>2, ClaimAssumption DEF ClaimOf
<1> QED
  BY <1>2, <1>3

\* What a witness said is only ever replaced by something it said no earlier.
THEOREM FreshestStays == Spec => FreshestKept
<1>1. TypeOK /\ SentSigned /\ [Next]_vars =>
        [\A a, s, o \in Agent :
            hearsay[a][s][o] # NoClaim =>
                /\ hearsay'[a][s][o] # NoClaim
                /\ hearsay'[a][s][o].asOf >= hearsay[a][s][o].asOf]_vars
  BY FresherNext
<1> QED
  BY <1>1, TypedAndSigned, PTL DEF Spec, FreshestKept

-----------------------------------------------------------------------------
(* What blacklists.                                                        *)

\* A ding accompanies every failure that is scored.
LEMMA DingsCoverNext == TypeOK /\ DingsCover /\ [Next]_vars => DingsCover'
<1> SUFFICES ASSUME TypeOK, DingsCover, [Next]_vars
             PROVE  DingsCover'
  OBVIOUS
<1>1. CASE UNCHANGED direct
  BY <1>1 DEF DingsCover
<1>2. ASSUME NEW a \in Agent, NEW s \in Subject, NEW ratio \in Ratios,
             DirectOutcome(a, s, ratio)
      PROVE  DingsCover'
  <2> DEFINE old == direct[a][s]
             new == RecordOutcome(old, ratio, cycle[a])
  <2>1. /\ s \in Agent /\ ratio \in 0 .. Unit /\ old \in Record /\ cycle[a] \in Nat
        /\ WithinDings(old, old.dings)
    BY GossipAssumption DEF TypeOK, DingsCover
  <2>2. direct' = [direct EXCEPT ![a][s] = new]
    BY <1>2 DEF DirectOutcome
  <2>3. old.dings \in Nat /\ Unit \in Nat /\ ratio \in Nat
    BY <2>1, WeightsAssumption DEF Record
  <2>4. new.dings = old.dings + (IF ratio < Unit THEN 1 ELSE 0)
    BY DEF RecordOutcome, AddEvidence
  <2>5. WithinDings(new, new.dings)
    <3>1. CASE ratio < Unit
      BY <3>1, <2>1, <2>3, <2>4, OutcomeWithinDings
    <3>2. CASE ratio = Unit
      BY <3>2, <2>1, <2>3, <2>4, OutcomeWithinDings
    <3> QED
      BY <3>1, <3>2, <2>1, <2>3
  <2> HIDE DEF new, old
  <2> QED
    BY <2>1, <2>2, <2>5 DEF TypeOK, DingsCover, old
<1> QED
  BY <1>1, <1>2 DEF Next, vars, SendReport, Relay, MalformedRelay, FoldReport,
     IgnoreReport, Tick

\* Failures are covered by dings in every reachable state.
LEMMA DingsCovered == Spec => [](TypeOK /\ DingsCover)
<1>1. Init => DingsCover
  BY WeightsAssumption DEF Init, DingsCover, WithinDings, Unseen
<1> QED
  BY <1>1, DingsCoverNext, TypedAndSigned, PTL DEF Spec

\* No amount of gossip blacklists: it takes two bad outcomes of one's own.
THEOREM GossipNeverBlacklists == Spec => []OnlyOwnTradesBlacklist
<1>1. TypeOK /\ DingsCover => OnlyOwnTradesBlacklist
  <2> SUFFICES ASSUME TypeOK, DingsCover, NEW a \in Agent, NEW s \in Agent,
                      IsBlacklisted(a, s)
               PROVE  direct[a][s].dings >= 2
    BY DEF OnlyOwnTradesBlacklist
  <2>1. direct[a][s] \in Record /\ cycle[a] \in Nat /\ direct[a][s].dings \in Nat
    BY DEF TypeOK, Record
  <2> QED
    BY <2>1, BlacklistedTwice DEF DingsCover, IsBlacklisted
<1> QED
  BY <1>1, DingsCovered, PTL

-----------------------------------------------------------------------------
(* Whose word an opinion is made of.                                       *)

\* What an agent says of another owes nothing to it, if its pool does not.
LEMMA BasisSilent ==
    ASSUME SubjectSilent, NEW a \in Agent, NEW s \in Agent, a # s
    PROVE  s \notin Basis(a, s)
<1>1. ASSUME NEW o \in Origins(a, s)
      PROVE  s \notin hearsay[a][s][o].basis
  BY <1>1 DEF Origins, SubjectSilent, SubjectHasNoSay
<1> QED
  BY <1>1 DEF Basis

\* A step signs nothing new but what some agent thinks of some subject.
LEMMA SignedChanges ==
    ASSUME [Next]_vars, NEW r \in signed', r \notin signed
    PROVE  \E a \in Agent, s \in Agent : r = ReportOf(a, s)
<1>1. PICK a \in Agent, s \in Subject : SendReport(a, s)
  BY DEF Next, vars, DirectOutcome, Relay, MalformedRelay, FoldReport, IgnoreReport,
     Tick
<1>2. r = ReportOf(a, s) /\ s \in Agent
  BY <1>1, GossipAssumption DEF SendReport
<1> QED
  BY <1>2

\* A claim folded is of a witness other than its subject, so its basis is too.
LEMMA SubjectSilentNext ==
    TypeOK /\ SentSigned /\ SubjectSilent /\ [Next]_vars => SubjectSilent'
<1> SUFFICES ASSUME TypeOK, SentSigned, SubjectSilent, [Next]_vars
             PROVE  SubjectSilent'
  OBVIOUS
<1>1. ASSUME NEW r \in signed', r.witness # r.subject
      PROVE  r.subject \notin r.basis
  <2>1. CASE r \in signed
    BY <1>1, <2>1 DEF SubjectSilent
  <2>2. CASE r \notin signed
    <3>1. PICK a \in Agent, s \in Agent : r = ReportOf(a, s)
      BY <2>2, SignedChanges
    <3>2. r.witness = a /\ r.subject = s /\ r.basis = Basis(a, s)
      BY <3>1 DEF ReportOf
    <3> QED
      BY <1>1, <3>2, BasisSilent
  <2> QED
    BY <2>1, <2>2
<1>2. ASSUME NEW a \in Agent, NEW s \in Agent, NEW o \in Agent,
             hearsay'[a][s][o] # NoClaim
      PROVE  s \notin hearsay'[a][s][o].basis
  <2>1. CASE hearsay'[a][s][o] = hearsay[a][s][o]
    BY <1>2, <2>1 DEF SubjectSilent, SubjectHasNoSay
  <2>2. CASE hearsay'[a][s][o] # hearsay[a][s][o]
    <3> PICK m \in sent : /\ Foldable(a, m)
                          /\ s = m.subject /\ o = m.origin
                          /\ m.report.witness = o /\ m.report.subject = s
                          /\ hearsay'[a][s][o] = ClaimOf(m)
      BY <2>2, EntryChanges
    <3>1. m.report \in signed
      BY DEF SentSigned
    <3>2. o # s
      BY DEF Foldable
    <3>3. s \notin m.report.basis
      BY <3>1, <3>2 DEF SubjectSilent
    <3> QED
      BY <3>3 DEF ClaimOf
  <2> QED
    BY <2>1, <2>2
<1>3. SubjectHasNoSay'
  BY <1>2 DEF SubjectHasNoSay
<1> QED
  BY <1>1, <1>3 DEF SubjectSilent

\* However often an opinion is reported, relayed and reported again as one's
\* own, in whatever envelopes, the word of its subject is never part of it.
THEOREM SubjectUnheard == Spec => []SubjectHasNoSay
<1>1. Init => SubjectSilent
  BY DEF Init, SubjectSilent, SubjectHasNoSay
<1>2. SubjectSilent => SubjectHasNoSay
  BY DEF SubjectSilent
<1> QED
  BY <1>1, <1>2, SubjectSilentNext, TypedAndSigned, PTL DEF Spec
=============================================================================
