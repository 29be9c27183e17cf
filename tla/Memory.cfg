\* Two callers make three calls on two of the stores over one database; the
\* backend fails once and the process dies once, each at any step.
CONSTANTS
    c1 = c1
    c2 = c2
    k1 = k1
    k2 = k2
    p1 = p1
    Caller = {c1, c2}
    Table = {"state", "knowledge"}
    KnowledgeTable = "knowledge"
    Key = {k1, k2}
    fact = fact
    note = note
    Name = {fact, note}
    Named = {fact}
    Payload = {p1}
    Call <- MCCall
    Unreadable = Unreadable
    Nothing = Nothing
    Ok = Ok
    NoTable = NoTable
    Failed = Failed
    Undecodable = Undecodable
    Garbage = Garbage
    NoCall = NoCall
    Nobody = Nobody
    MaxCalls = 3
    MaxFailures = 1
    MaxCrashes = 1
SPECIFICATION FairSpec
INVARIANTS TypeOK NothingLost
PROPERTIES ImplementsStore CallsReturn
CHECK_DEADLOCK FALSE
