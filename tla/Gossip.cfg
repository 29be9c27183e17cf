\* One subject, two agents that report and relay about it and the subject itself,
\* envelopes that may disagree with their content, cycles enough for a report to
\* go stale. An envelope reaches MAX_HOPS with its first relay.
CONSTANTS
    wit = wit
    rel = rel
    sub = sub
    NoClaim = NoClaim
    Agent = {wit, rel, sub}
    Subject = {sub}
    Ratios = {0}
    MaxHops = 2
    MaxAge = 1
    Unit = 4
    Threshold = 6
    HalfLife = 1
    MaxSent = 2
    MaxDings = 2
    MaxCycle = 2
SYMMETRY MCSymmetry
SPECIFICATION Spec
INVARIANT TypeOK
INVARIANT ClaimsAreSigned
INVARIANT OnlyOwnTradesBlacklist
INVARIANT HopsAreDistance
INVARIANT SubjectHasNoSay
PROPERTY FreshestKept
