\* Three agents and one offer that two of them may accept. Cycles go on, every
\* cycle sweeps, and the transport owes nothing. No symmetry: liveness is checked.
CONSTANTS
    ann = ann
    bob = bob
    eve = eve
    compute = compute
    storage = storage
    Nobody = Nobody
    NoTrade = NoTrade
    NoDuty = NoDuty
    Agent = {ann, bob, eve}
    Kind = {compute, storage}
    Terms <- MCTerms
    Endowment <- MCEndowment
    MaxPending = 1
    Timeout = 1
    Unit = 4
    Threshold = 6
    HalfLife = 1
    Redelivered = {"Accept", "Settle"}
    MaxNonce = 1
    MaxCycle = 1
SPECIFICATION FairSpec
INVARIANT MeshConserves
PROPERTY SingleBinding
PROPERTY ImplementsEscrow
PROPERTY TradesResolve
