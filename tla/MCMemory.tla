------------------------------ MODULE MCMemory ------------------------------
(* The values TLC gives the constants of Memory. *)
EXTENDS Memory, TLC

CONSTANTS c1, c2, k1, k2, p1, fact, note

Fact(k, p) == [kind |-> [other |-> FALSE, name |-> fact], id |-> k, payload |-> p]

\* An old record may carry a kind the new schema has no variant for, and a new
\* one an Other that is spelt like a variant.
Note(k, p) == [kind |-> [other |-> TRUE, name |-> note], id |-> k, payload |-> p]
Posing(k, p) == [kind |-> [other |-> TRUE, name |-> fact], id |-> k, payload |-> p]

X(op, t, k, r) == [op |-> op, table |-> t, key |-> k, record |-> r]

\* One key of the state store; two of the knowledge store, in both schemas,
\* once under the key of another record.
MCCall ==
    {X("put", "state", k1, p1), X("remove", "state", k1, Nothing),
     X("get", "state", k1, Nothing),
     X("put", "knowledge", k1, Posing(k1, p1)),
     X("put_legacy_v1", "knowledge", k1, Fact(k1, p1)),
     X("put_legacy_v1", "knowledge", k2, Note(k2, p1)),
     X("save_raw", "knowledge", k2, Unreadable),
     X("save_raw", "knowledge", k2, Fact(k1, p1)),
     X("get", "knowledge", k1, Nothing), X("get", "knowledge", k2, Nothing),
     X("ids", "knowledge", k1, Nothing)}
=============================================================================
