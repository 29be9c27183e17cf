\* Two threads, three changes of which one is over the cap, a limit of two.
CONSTANTS
    Thread = {t1, t2}
    Change = {c1, c2, c3}
    Permitted = {c1, c2}
    MaxProposals = 2
    None = None
SPECIFICATION Spec
INVARIANTS TypeOK OvershootBounded LateBounded AuditMatches
