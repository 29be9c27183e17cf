\* An Offer, too, may be delivered again after its trade is settled.
CONSTANTS
    ann = ann
    bob = bob
    eve = eve
    compute = compute
    storage = storage
    Nobody = Nobody
    NoTrade = NoTrade
    NoDuty = NoDuty
    Agent = {ann, bob}
    Kind = {compute, storage}
    Terms <- MCTerms
    Endowment <- MCEndowment
    MaxPending = 1
    Timeout = 1
    Unit = 4
    Threshold = 6
    HalfLife = 1
    Redelivered = {"Offer", "Accept", "Settle"}
    MaxNonce = 1
    MaxCycle = 2
SYMMETRY MCSymmetry
SPECIFICATION Spec
INVARIANT NothingMinted
