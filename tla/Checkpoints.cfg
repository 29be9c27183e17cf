\* Two nodes of one agent capture, restore and migrate; one blob and one shard
\* set, damaged and lost at will.
CONSTANTS
    n1 = n1
    n2 = n2
    home = home
    other = other
    p1 = p1
    p2 = p2
    None = None
    Garbled = Garbled
    Node = {n1, n2}
    Agent = {home, other}
    Hosts <- MCHosts
    Wired = {n1, n2}
    DataShards = 2
    ParityShards = 1
    MaxCopies = 1
    Payload = {p1, p2}
    Encoders = {n1}
    MaxMedia = 1
    MaxEntries = 1
SYMMETRY MCSymmetry
SPECIFICATION Spec
INVARIANTS TypeOK HeldWasCaptured OneSigner
PROPERTY MigrationsPaired
