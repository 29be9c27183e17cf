\* One node and the media it writes to; a blob may be damaged.
CONSTANTS
    n1 = n1
    n2 = n2
    home = home
    other = other
    p1 = p1
    p2 = p2
    None = None
    Garbled = Garbled
    Node = {n1}
    Agent = {home}
    Hosts <- MCHosts
    Wired = {n1}
    DataShards = 2
    ParityShards = 1
    MaxCopies = 0
    Payload = {p1}
    Encoders = {}
    MaxMedia = 1
    MaxEntries = 1
SPECIFICATION Spec
INVARIANT KnownGoodAccepted
