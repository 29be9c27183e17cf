\* The example's own calls; the timeout it sweeps with, in cycles of one.
CONSTANTS
    scavenger = scavenger
    rich = rich
    honest1 = honest1
    liar = liar
    Nobody = Nobody
    NoTrade = NoTrade
    NoDuty = NoDuty
    Agent = {scavenger, rich, honest1, liar}
    Kind = {"Compute", "Energy"}
    Terms <- ScriptTerms
    Endowment <- ScriptEndowment
    MaxPending = 8
    Timeout = 10
    Unit = 4
    Threshold = 6
    HalfLife = 50
    Redelivered = {}
    MaxNonce = 2
    MaxCycle = 10
SPECIFICATION ScriptSpec
INVARIANT BreachBlacklists
CHECK_DEADLOCK FALSE
