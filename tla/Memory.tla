------------------------------- MODULE Memory -------------------------------
(***************************************************************************)
(* vitalis-memory: the identity, state and knowledge stores of one agent   *)
(* over one redb database, used by several callers at once.  A call is a   *)
(* transaction taken step by step; between two steps other callers go on,  *)
(* the backend fails, or the process dies and opens the same path again.   *)
(* redb itself is modelled as the crate relies on it: one write            *)
(* transaction at a time, readers on a snapshot, durable at commit.        *)
(***************************************************************************)
EXTENDS Naturals

CONSTANTS
    Caller,
    Table,            \* IDENTITY_TABLE, STATE_TABLE, KNOWLEDGE_TABLE
    KnowledgeTable,   \* the one whose records carry a schema version
    Key,
    Name,             \* the names a kind of knowledge may have
    Named,            \* those with a variant of their own; any other is an Other
    Payload,
    Call,             \* the calls made: [op, table, key, record]
    Unreadable, Nothing, Ok, NoTable, Failed, Undecodable,
    Garbage,          \* bytes no schema decodes
    NoCall,
    Nobody,           \* no write transaction is open
    MaxCalls,         \* bound: calls made in one behaviour
    MaxFailures,      \* bound: backend failures in one behaviour
    MaxCrashes        \* bound: times the process dies

KnowledgeKind == [other : BOOLEAN, name : Name]

Knowledge == [kind : KnowledgeKind, id : Key, payload : Payload]

\* The stored envelopes: version 1 has a kind by name and a text.
StoredV1 == [version : {1}, kind : Name, id : Key, text : Payload]
StoredV2 == [version : {2}, kind : KnowledgeKind, id : Key, payload : Payload]

Bytes == Payload \cup StoredV1 \cup StoredV2 \cup {Garbage}

Record == Payload \cup Knowledge \cup {Unreadable}

\* A kind the old schema could express: it told kinds apart by name only.
Legacy(record) == record \in Knowledge /\ (record.kind.other <=> record.kind.name \notin Named)

WriteOps == {"put", "put_legacy_v1", "save_raw", "remove"}
ReadOps  == {"get", "ids"}

\* Who may be called with what: knowledge for the knowledge store, plain
\* values for the others; only the knowledge store has old and raw writes.
WellFormed(x) ==
    \/ /\ x.op = "put"
       /\ x.record \in IF x.table = KnowledgeTable THEN Knowledge ELSE Payload
    \/ /\ x.op = "put_legacy_v1"
       /\ x.table = KnowledgeTable
       /\ Legacy(x.record)
    \/ /\ x.op = "save_raw"
       /\ x.table = KnowledgeTable
       /\ x.record \in Knowledge \cup {Unreadable}
    \/ x.op \in {"remove", "get", "ids"} /\ x.record = Nothing

ASSUME MemoryAssumption ==
    /\ KnowledgeTable \in Table
    /\ Named \subseteq Name
    /\ Call \subseteq [op : WriteOps \cup ReadOps, table : Table, key : Key,
                       record : Record \cup {Nothing}]
    /\ \A x \in Call : WellFormed(x)
    /\ MaxCalls \in Nat /\ MaxFailures \in Nat /\ MaxCrashes \in Nat

ASSUME NamesAssumption ==
    /\ Nobody \notin Caller
    /\ NoCall \notin Call
    /\ Nothing \notin Bytes \cup Record
    /\ Garbage \notin Payload \cup StoredV1 \cup StoredV2
    /\ Unreadable \notin Payload \cup Knowledge
    /\ Payload \cap (StoredV1 \cup StoredV2) = {}

VARIABLES
    disk,         \* the database as last committed
    up,           \* the process has the database open
    pc,           \* how far each caller's call has come
    call,         \* the call each caller is making
    view,         \* the database as each open transaction sees it
    answer,       \* what each finished call will return
    writer,       \* the caller whose write transaction is open
    made,         \* calls made so far
    failures,     \* backend failures so far
    crashes       \* times the process died

vars == <<disk, up, pc, call, view, answer, writer, made, failures, crashes>>

\* The knowledge table holds envelopes and raw bytes, the others plain values.
BytesOf(t) ==
    IF t = KnowledgeTable THEN StoredV1 \cup StoredV2 \cup {Garbage} ELSE Payload

Database ==
    {db \in [tables : SUBSET Table, rows : [Table -> [Key -> Bytes \cup {Nothing}]]] :
        \A t \in Table, k \in Key : db.rows[t][k] \in BytesOf(t) \cup {Nothing}}

Blank == [tables |-> {}, rows |-> [t \in Table |-> [k \in Key |-> Nothing]]]

Answer == {Ok, NoTable, Failed, Undecodable, Nothing} \cup Record
              \cup [ids : SUBSET Key]

Init ==
    /\ disk = Blank
    /\ up = TRUE
    /\ pc = [c \in Caller |-> "idle"]
    /\ call = [c \in Caller |-> NoCall]
    /\ view = [c \in Caller |-> Blank]
    /\ answer = [c \in Caller |-> Nothing]
    /\ writer = Nobody
    /\ made = 0
    /\ failures = 0
    /\ crashes = 0

-----------------------------------------------------------------------------
(* Encoding and migration.                                                 *)

\* KnowledgeStore::put writes the current schema, put_legacy_v1 the old one,
\* save_raw what it is given; the other stores write the value itself.
Encode(c) ==
    IF c.record = Unreadable THEN Garbage
    ELSE IF c.table # KnowledgeTable THEN c.record
    ELSE IF c.op = "put_legacy_v1"
    THEN [version |-> 1, kind |-> c.record.kind.name, id |-> c.record.id,
          text |-> c.record.payload]
    ELSE [version |-> 2, kind |-> c.record.kind, id |-> c.record.id,
          payload |-> c.record.payload]

\* migrate: a kind string with a variant of its own becomes that variant.
Migrate(env) ==
    IF env.version = 2
    THEN [kind |-> env.kind, id |-> env.id, payload |-> env.payload]
    ELSE [kind |-> [other |-> env.kind \notin Named, name |-> env.kind],
          id |-> env.id, payload |-> env.text]

\* What stored bytes are read back as.
Decode(t, bytes) ==
    IF bytes = Nothing THEN Nothing
    ELSE IF bytes = Garbage THEN Unreadable
    ELSE IF t = KnowledgeTable THEN Migrate(bytes)
    ELSE bytes

-----------------------------------------------------------------------------
(* Transactions.                                                           *)

IsWrite(c) == call[c].op \in WriteOps

\* The caller calls one of the stores.
Ask(c) ==
    /\ up
    /\ pc[c] = "idle"
    /\ made < MaxCalls
    /\ made' = made + 1
    /\ \E x \in Call : call' = [call EXCEPT ![c] = x]
    /\ pc' = [pc EXCEPT ![c] = "asked"]
    /\ UNCHANGED <<disk, up, view, answer, writer, failures, crashes>>

\* Seeded fault: the transaction does not wait for the one that is open.
BeginWriteAtOnce(c) ==
    /\ pc[c] = "asked"
    /\ IsWrite(c)
    /\ writer' = c
    /\ view' = [view EXCEPT ![c] = disk]
    /\ pc' = [pc EXCEPT ![c] = "begun"]
    /\ UNCHANGED <<disk, up, call, answer, made, failures, crashes>>

\* begin_write: waits until no write transaction is open.
BeginWrite(c) ==
    /\ pc[c] = "asked"
    /\ IsWrite(c)
    /\ writer = Nobody
    /\ writer' = c
    /\ view' = [view EXCEPT ![c] = disk]
    /\ pc' = [pc EXCEPT ![c] = "begun"]
    /\ UNCHANGED <<disk, up, call, answer, made, failures, crashes>>

\* begin_read: a snapshot of what is committed.
BeginRead(c) ==
    /\ pc[c] = "asked"
    /\ ~IsWrite(c)
    /\ view' = [view EXCEPT ![c] = disk]
    /\ pc' = [pc EXCEPT ![c] = "begun"]
    /\ UNCHANGED <<disk, up, call, answer, writer, made, failures, crashes>>

\* The call is over; its transaction goes and the caller holds its answer.
Finish(c, result) ==
    /\ pc' = [pc EXCEPT ![c] = "answered"]
    /\ answer' = [answer EXCEPT ![c] = result]
    /\ view' = [view EXCEPT ![c] = Blank]
    /\ writer' = IF writer = c THEN Nobody ELSE writer

\* open_table in save and delete: a table that is not there is created.
OpenForWrite(c) ==
    /\ pc[c] = "begun"
    /\ IsWrite(c)
    /\ view' = [view EXCEPT ![c].tables = @ \cup {call[c].table}]
    /\ pc' = [pc EXCEPT ![c] = "opened"]
    /\ UNCHANGED <<disk, up, call, answer, writer, made, failures, crashes>>

\* open_table in load and ids: a table that is not there is an error.
OpenForRead(c) ==
    /\ pc[c] = "begun"
    /\ ~IsWrite(c)
    /\ call[c].table \in view[c].tables
    /\ pc' = [pc EXCEPT ![c] = "opened"]
    /\ UNCHANGED <<disk, up, call, view, answer, writer, made, failures, crashes>>

MissTable(c) ==
    /\ pc[c] = "begun"
    /\ ~IsWrite(c)
    /\ call[c].table \notin view[c].tables
    /\ Finish(c, NoTable)
    /\ UNCHANGED <<disk, up, call, made, failures, crashes>>

\* t.insert and t.remove, on the transaction's own copy.
Change(c) ==
    /\ pc[c] = "opened"
    /\ IsWrite(c)
    /\ view' = [view EXCEPT ![c].rows[call[c].table][call[c].key] =
                  IF call[c].op = "remove" THEN Nothing ELSE Encode(call[c])]
    /\ pc' = [pc EXCEPT ![c] = "changed"]
    /\ UNCHANGED <<disk, up, call, answer, writer, made, failures, crashes>>

\* Seeded fault: the answer is given before the commit.
CommitLate(c) ==
    /\ pc[c] = "changed"
    /\ Finish(c, Ok)
    /\ UNCHANGED <<disk, up, call, made, failures, crashes>>

Commit(c) ==
    /\ pc[c] = "changed"
    /\ disk' = view[c]
    /\ Finish(c, Ok)
    /\ UNCHANGED <<up, call, made, failures, crashes>>

\* Seeded fault: what is found is returned in the schema it is stored in.
FoundUnmigrated(v, x) ==
    LET stored == v.rows[x.table][x.key]
    IN  IF x.op = "ids" THEN [ids |-> {k \in Key : v.rows[x.table][k] # Nothing}]
        ELSE IF stored = Garbage THEN Undecodable
        ELSE stored

\* t.get with the decoding of StateStore::get, IdentityStore::load and
\* KnowledgeStore::get, and the listing of ids.
Found(v, x) ==
    LET stored == v.rows[x.table][x.key]
    IN  IF x.op = "ids" THEN [ids |-> {k \in Key : v.rows[x.table][k] # Nothing}]
        ELSE IF Decode(x.table, stored) = Unreadable THEN Undecodable
        ELSE Decode(x.table, stored)

Get(c) ==
    /\ pc[c] = "opened"
    /\ ~IsWrite(c)
    /\ Finish(c, Found(view[c], call[c]))
    /\ UNCHANGED <<disk, up, call, made, failures, crashes>>

\* Seeded fault: a failed transaction is never dropped.
FailHolding(c) ==
    /\ pc[c] \in {"asked", "begun", "opened", "changed"}
    /\ failures < MaxFailures
    /\ failures' = failures + 1
    /\ pc' = [pc EXCEPT ![c] = "answered"]
    /\ answer' = [answer EXCEPT ![c] = Failed]
    /\ view' = [view EXCEPT ![c] = Blank]
    /\ UNCHANGED <<disk, up, call, writer, made, crashes>>

\* Any `?` of a call meets a backend error: the transaction is dropped.
Fail(c) ==
    /\ pc[c] \in {"asked", "begun", "opened", "changed"}
    /\ failures < MaxFailures
    /\ failures' = failures + 1
    /\ Finish(c, Failed)
    /\ UNCHANGED <<disk, up, call, made, crashes>>

\* commit fails after the new state reached the disk.
FailCommitted(c) ==
    /\ pc[c] = "changed"
    /\ failures < MaxFailures
    /\ failures' = failures + 1
    /\ disk' = view[c]
    /\ Finish(c, Failed)
    /\ UNCHANGED <<up, call, made, crashes>>

Return(c) ==
    /\ pc[c] = "answered"
    /\ pc' = [pc EXCEPT ![c] = "idle"]
    /\ answer' = [answer EXCEPT ![c] = Nothing]
    /\ call' = [call EXCEPT ![c] = NoCall]
    /\ UNCHANGED <<disk, up, view, writer, made, failures, crashes>>

\* The process dies with every call in it.
Crash ==
    /\ up
    /\ crashes < MaxCrashes
    /\ crashes' = crashes + 1
    /\ up' = FALSE
    /\ pc' = [c \in Caller |-> "idle"]
    /\ call' = [c \in Caller |-> NoCall]
    /\ view' = [c \in Caller |-> Blank]
    /\ answer' = [c \in Caller |-> Nothing]
    /\ writer' = Nobody
    /\ UNCHANGED <<disk, made, failures>>

\* MemoryStore::open on the path of the process that died.
Reopen ==
    /\ ~up
    /\ up' = TRUE
    /\ UNCHANGED <<disk, pc, call, view, answer, writer, made, failures, crashes>>

\* The steps of a call once it is made.
Proceed(c) ==
    \/ BeginWrite(c)
    \/ BeginRead(c)
    \/ OpenForWrite(c)
    \/ OpenForRead(c)
    \/ MissTable(c)
    \/ Change(c)
    \/ Commit(c)
    \/ Get(c)
    \/ Return(c)

Next ==
    \/ Crash
    \/ Reopen
    \/ \E c \in Caller : Ask(c) \/ Proceed(c) \/ Fail(c) \/ FailCommitted(c)

Spec == Init /\ [][Next]_vars

\* A thread in a call is scheduled again; calls are not made for ever.
FairSpec == Spec /\ \A c \in Caller : WF_vars(Proceed(c))

-----------------------------------------------------------------------------
(* Properties.                                                             *)

\* Every variable has its type; stored bytes suit the table they are in.
TypeOK ==
    /\ disk \in Database
    /\ up \in BOOLEAN
    /\ pc \in [Caller -> {"idle", "asked", "begun", "opened", "changed", "answered"}]
    /\ call \in [Caller -> Call \cup {NoCall}]
    /\ view \in [Caller -> Database]
    /\ answer \in [Caller -> Answer]
    /\ writer \in Caller \cup {Nobody}
    /\ made \in 0 .. MaxCalls
    /\ failures \in 0 .. MaxFailures
    /\ crashes \in 0 .. MaxCrashes

\* The view of a write transaction differs from what is committed in what its
\* own call changes and in nothing else, until it commits: no call undoes what
\* another one committed, in its table or in another.
Writing(c) == pc[c] \in {"begun", "opened", "changed"} /\ IsWrite(c)

StagedOver(c) ==
    LET x == call[c]
        tables == IF pc[c] = "begun" THEN disk.tables
                                     ELSE disk.tables \cup {x.table}
        bytes == IF x.op = "remove" THEN Nothing ELSE Encode(x)
        rows == IF pc[c] = "changed" THEN [disk.rows EXCEPT ![x.table][x.key] = bytes]
                                     ELSE disk.rows
    IN  [tables |-> tables, rows |-> rows]

NothingLost ==
    \A c \in Caller : Writing(c) => writer = c /\ view[c] = StagedOver(c)

\* What the steps of a call rest on: a call under way is one of the calls made,
\* a read past open_table has found its table, and only a write has changes.
CallsSound ==
    \A c \in Caller :
        /\ pc[c] # "idle" => call[c] \in Call
        /\ pc[c] = "opened" /\ ~IsWrite(c) => call[c].table \in view[c].tables
        /\ pc[c] = "changed" => IsWrite(c)

Contents == [t \in Table |-> [k \in Key |-> Decode(t, disk.rows[t][k])]]

\* A read has its answer once its snapshot is taken, a write once it committed.
StatusOf(c) ==
    IF pc[c] = "idle" THEN [phase |-> "idle"]
    ELSE IF pc[c] = "answered" THEN [phase |-> "answered", answer |-> answer[c]]
    ELSE IF pc[c] = "asked" \/ IsWrite(c)
    THEN [phase |-> "asked", call |-> call[c]]
    ELSE [phase |-> "answered",
          answer |-> IF call[c].table \in view[c].tables
                     THEN Found(view[c], call[c]) ELSE NoTable]

Status == [c \in Caller |-> StatusOf(c)]

Store == INSTANCE DurableStore WITH
            contents <- Contents, written <- disk.tables, status <- Status

\* Each call takes effect at one instant while it is being made, its answer
\* tells of that instant, and what took effect outlives the process: what is
\* read back is what its writer meant, in whatever schema it was written.
ImplementsStore == Store!Spec

\* No call waits for ever for a write transaction that will not end.
CallsReturn == \A c \in Caller : pc[c] # "idle" ~> pc[c] = "idle"
=============================================================================
