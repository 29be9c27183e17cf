\* Two agents and two offers over a transport that loses, reorders and redelivers
\* Accepts and Settles; callers may deliver short or never.
CONSTANTS
    ann = ann
    bob = bob
    eve = eve
    compute = compute
    storage = storage
    Nobody = Nobody
    NoTrade = NoTrade
    NoDuty = NoDuty
    Agent = {ann, bob}
    Kind = {compute, storage}
    Terms <- MCTerms
    Endowment <- MCScarce
    MaxPending = 1
    Timeout = 1
    Unit = 4
    Threshold = 6
    HalfLife = 1
    Redelivered = {"Accept", "Settle"}
    MaxNonce = 2
    MaxCycle = 2
SYMMETRY MCSymmetry
SPECIFICATION Spec
INVARIANT TypeOK
INVARIANT OneOutcomePerTrade
INVARIANT TermsAgree
INVARIANT TwoStrikes
INVARIANT PendingCapped
INVARIANT Blameless
