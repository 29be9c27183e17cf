---------------------------- MODULE MemoryProofs ----------------------------
(***************************************************************************)
(* Proofs about Memory: its types, that no call undoes what another one    *)
(* committed, that the write lock is never left behind and every step of a *)
(* call leaves it fewer to take, and that it implements DurableStore, for  *)
(* any callers, tables and keys, with failures and crashes at any step.    *)
(***************************************************************************)
EXTENDS Memory, TLAPS

-----------------------------------------------------------------------------
(* Encoding.                                                               *)

\* What a call may ask to be written.
LEMMA WrittenCall ==
    ASSUME NEW x \in Call, x.op \in WriteOps, x.op # "remove"
    PROVE  /\ x.table \in Table /\ x.key \in Key
           /\ \/ x.table # KnowledgeTable /\ x.record \in Payload
              \/ x.table = KnowledgeTable /\ x.record \in Knowledge
                 /\ (x.op = "put_legacy_v1" => Legacy(x.record))
              \/ x.table = KnowledgeTable /\ x.record = Unreadable
                 /\ x.op = "save_raw"
<1>1. WellFormed(x) /\ x.table \in Table /\ x.key \in Key
  BY MemoryAssumption
<1> QED
  BY <1>1 DEF WellFormed, WriteOps, Legacy

\* A record is stored as bytes of its table.
LEMMA EncodeType ==
    ASSUME NEW x \in Call, x.op \in WriteOps, x.op # "remove"
    PROVE  Encode(x) \in BytesOf(x.table) /\ Encode(x) \in Bytes
<1>1. CASE x.table # KnowledgeTable /\ x.record \in Payload
  BY <1>1, NamesAssumption DEF Encode, BytesOf, Bytes
<1>2. CASE x.record = Unreadable /\ x.table = KnowledgeTable
  BY <1>2 DEF Encode, BytesOf, Bytes
<1>3. CASE x.table = KnowledgeTable /\ x.record \in Knowledge
  <2>1. x.record # Unreadable
    BY <1>3, NamesAssumption
  <2>2. x.record.kind \in KnowledgeKind /\ x.record.id \in Key /\ x.record.payload \in Payload
    BY <1>3 DEF Knowledge
  <2>3. x.record.kind.name \in Name
    BY <2>2 DEF KnowledgeKind
  <2>4. CASE x.op = "put_legacy_v1"
    <3>1. Encode(x) = [version |-> 1, kind |-> x.record.kind.name,
                       id |-> x.record.id, text |-> x.record.payload]
      BY <2>1, <2>4, <1>3 DEF Encode
    <3>2. Encode(x) \in StoredV1
      BY <3>1, <2>2, <2>3 DEF StoredV1
    <3> QED
      BY <3>2, <1>3 DEF BytesOf, Bytes
  <2>5. CASE x.op # "put_legacy_v1"
    <3>1. Encode(x) = [version |-> 2, kind |-> x.record.kind,
                       id |-> x.record.id, payload |-> x.record.payload]
      BY <2>1, <2>5, <1>3 DEF Encode
    <3>2. Encode(x) \in StoredV2
      BY <3>1, <2>2 DEF StoredV2
    <3> QED
      BY <3>2, <1>3 DEF BytesOf, Bytes
  <2> QED
    BY <2>4, <2>5
<1> QED
  BY <1>1, <1>2, <1>3, WrittenCall

\* What is read back is what its writer meant: decoding undoes encoding, in
\* both schemas and for bytes no schema decodes.
THEOREM RoundTrip ==
    ASSUME NEW x \in Call, x.op \in WriteOps, x.op # "remove"
    PROVE  Decode(x.table, Encode(x)) = x.record
<1>0. Encode(x) # Nothing
  BY EncodeType, NamesAssumption
<1>1. CASE x.table # KnowledgeTable /\ x.record \in Payload
  BY <1>1, NamesAssumption DEF Encode, Decode, Bytes
<1>2. CASE x.record = Unreadable /\ x.table = KnowledgeTable
  BY <1>0, <1>2 DEF Encode, Decode
<1>3. CASE /\ x.table = KnowledgeTable /\ x.record \in Knowledge
           /\ (x.op = "put_legacy_v1" => Legacy(x.record))
  <2> DEFINE r == x.record
  <2>1. r # Unreadable
    BY <1>3, NamesAssumption
  <2>2. r = [kind |-> r.kind, id |-> r.id, payload |-> r.payload]
        /\ r.kind \in KnowledgeKind /\ r.id \in Key /\ r.payload \in Payload
    BY <1>3 DEF Knowledge
  <2>3. r.kind = [other |-> r.kind.other, name |-> r.kind.name]
        /\ r.kind.other \in BOOLEAN /\ r.kind.name \in Name
    BY <2>2 DEF KnowledgeKind
  <2>4. CASE x.op = "put_legacy_v1"
    <3>1. Encode(x) = [version |-> 1, kind |-> r.kind.name,
                       id |-> r.id, text |-> r.payload]
      BY <2>1, <2>4, <1>3 DEF Encode
    <3>2. Encode(x) \in StoredV1
      BY <3>1, <2>2, <2>3 DEF StoredV1
    <3>3. Encode(x) # Garbage
      BY <3>2, NamesAssumption
    <3>4. r.kind.other = (r.kind.name \notin Named)
      BY <2>3, <2>4, <1>3 DEF Legacy
    <3>5. Migrate(Encode(x)) =
            [kind |-> [other |-> r.kind.name \notin Named, name |-> r.kind.name],
             id |-> r.id, payload |-> r.payload]
      BY <3>1 DEF Migrate
    <3>6. Migrate(Encode(x)) = r
      BY <3>5, <3>4, <2>2, <2>3
    <3> QED
      BY <3>3, <3>6, <1>0, <1>3 DEF Decode
  <2>5. CASE x.op # "put_legacy_v1"
    <3>1. Encode(x) = [version |-> 2, kind |-> r.kind,
                       id |-> r.id, payload |-> r.payload]
      BY <2>1, <2>5, <1>3 DEF Encode
    <3>2. Encode(x) \in StoredV2
      BY <3>1, <2>2 DEF StoredV2
    <3>3. Encode(x) # Garbage
      BY <3>2, NamesAssumption
    <3>4. Migrate(Encode(x)) = r
      BY <3>1, <2>2 DEF Migrate
    <3> QED
      BY <3>3, <3>4, <1>0, <1>3 DEF Decode
  <2> QED
    BY <2>4, <2>5
<1> QED
  BY <1>1, <1>2, <1>3, WrittenCall

\* Stored bytes decode to a record, and to nothing only when there are none.
LEMMA DecodeType ==
    ASSUME NEW t \in Table, NEW b \in BytesOf(t) \cup {Nothing}
    PROVE  /\ Decode(t, b) \in Record \cup {Nothing}
           /\ Decode(t, b) = Nothing <=> b = Nothing
<1>1. CASE b = Nothing
  BY <1>1 DEF Decode
<1>2. CASE b = Garbage /\ b # Nothing
  <2>1. Decode(t, b) = Unreadable
    BY <1>2 DEF Decode
  <2> QED
    BY <2>1, <1>2, NamesAssumption DEF Record
<1>3. CASE b # Nothing /\ b # Garbage /\ t # KnowledgeTable
  <2>1. Decode(t, b) = b /\ b \in Payload
    BY <1>3 DEF Decode, BytesOf
  <2> QED
    BY <2>1, <1>3, NamesAssumption DEF Record
<1>4. CASE b # Nothing /\ b # Garbage /\ t = KnowledgeTable
  <2>1. Decode(t, b) = Migrate(b) /\ b \in StoredV1 \cup StoredV2
    BY <1>4 DEF Decode, BytesOf
  <2>2. Migrate(b) \in Knowledge
    <3>1. CASE b \in StoredV1
      <4>1. b.version = 1 /\ b.kind \in Name /\ b.id \in Key /\ b.text \in Payload
        BY <3>1 DEF StoredV1
      <4>2. [other |-> b.kind \notin Named, name |-> b.kind] \in KnowledgeKind
        BY <4>1 DEF KnowledgeKind
      <4> QED
        BY <4>1, <4>2 DEF Migrate, Knowledge
    <3>2. CASE b \in StoredV2
      BY <3>2 DEF StoredV2, Migrate, Knowledge
    <3> QED
      BY <2>1, <3>1, <3>2
  <2> QED
    BY <2>1, <2>2, <1>4, NamesAssumption DEF Record
<1> QED
  BY <1>1, <1>2, <1>3, <1>4

-----------------------------------------------------------------------------
(* Types.                                                                  *)

\* A view never opened is an empty database.
LEMMA BlankType == Blank \in Database
<1>1. Blank \in [tables : SUBSET Table, rows : [Table -> [Key -> Bytes \cup {Nothing}]]]
  BY DEF Blank
<1>2. \A t \in Table, k \in Key : Blank.rows[t][k] = Nothing
  BY DEF Blank
<1> QED
  BY <1>1, <1>2 DEF Database

\* A call that returns keeps the types of what it used.
LEMMA FinishType ==
    ASSUME TypeOK, NEW c \in Caller, NEW result \in Answer, Finish(c, result)
    PROVE  /\ pc' \in [Caller -> {"idle", "asked", "begun", "opened", "changed", "answered"}]
           /\ answer' \in [Caller -> Answer]
           /\ view' \in [Caller -> Database]
           /\ writer' \in Caller \cup {Nobody}
BY BlankType DEF TypeOK, Finish

\* What a call finds is an answer.
LEMMA FoundType ==
    ASSUME NEW v \in Database, NEW x \in Call
    PROVE  Found(v, x) \in Answer
<1>1. x.table \in Table /\ x.key \in Key
  BY MemoryAssumption
<1>2. v.rows[x.table][x.key] \in BytesOf(x.table) \cup {Nothing}
  BY <1>1 DEF Database
<1>3. Decode(x.table, v.rows[x.table][x.key]) \in Record \cup {Nothing}
  BY <1>1, <1>2, DecodeType
<1>4. CASE x.op = "ids"
  BY <1>4 DEF Found, Answer
<1>5. CASE x.op # "ids"
  BY <1>3, <1>5 DEF Found, Answer
<1> QED
  BY <1>4, <1>5

\* Creating a table leaves a database.
LEMMA OpenType ==
    ASSUME NEW v \in Database, NEW t \in Table
    PROVE  [v EXCEPT !.tables = @ \cup {t}] \in Database
<1> DEFINE w == [v EXCEPT !.tables = @ \cup {t}]
<1>1. w \in [tables : SUBSET Table, rows : [Table -> [Key -> Bytes \cup {Nothing}]]]
  BY DEF Database
<1>2. w.rows = v.rows
  BY DEF Database
<1>3. \A u \in Table, k \in Key : w.rows[u][k] \in BytesOf(u) \cup {Nothing}
  BY <1>2 DEF Database
<1> QED
  BY <1>1, <1>3 DEF Database

\* A change leaves a transaction's own copy a database.
LEMMA ChangeType ==
    ASSUME TypeOK, CallsSound, NEW c \in Caller, Change(c)
    PROVE  view' \in [Caller -> Database]
<1> DEFINE x == call[c]
           b == IF x.op = "remove" THEN Nothing ELSE Encode(x)
           w == [view[c] EXCEPT !.rows[x.table][x.key] = b]
<1>1. x \in Call /\ x.op \in WriteOps
  BY DEF CallsSound, Change, IsWrite
<1>2. x.table \in Table /\ x.key \in Key
  BY <1>1, MemoryAssumption
<1>3. b \in BytesOf(x.table) \cup {Nothing} /\ b \in Bytes \cup {Nothing}
  BY <1>1, EncodeType
<1>4. view[c] \in Database
  BY DEF TypeOK
<1>5. w \in Database
  <2>1. w \in [tables : SUBSET Table, rows : [Table -> [Key -> Bytes \cup {Nothing}]]]
    BY <1>2, <1>3, <1>4 DEF Database
  <2>2. ASSUME NEW t \in Table, NEW k \in Key
        PROVE  w.rows[t][k] \in BytesOf(t) \cup {Nothing}
    <3>1. CASE t = x.table /\ k = x.key
      BY <3>1, <1>2, <1>3, <1>4 DEF Database
    <3>2. CASE ~(t = x.table /\ k = x.key)
      BY <3>2, <1>2, <1>4 DEF Database
    <3> QED
      BY <3>1, <3>2
  <2> QED
    BY <2>1, <2>2 DEF Database
<1>6. view' = [view EXCEPT ![c] = w]
  BY DEF Change
<1> QED
  BY <1>5, <1>6 DEF TypeOK

\* Every step keeps the types.
LEMMA TypeStep ==
    ASSUME TypeOK, CallsSound, [Next]_vars
    PROVE  TypeOK'
<1>1. CASE Crash
  <2>1. Nothing \in Answer
    BY DEF Answer
  <2>2. crashes' \in 0 .. MaxCrashes
    BY <1>1, MemoryAssumption DEF TypeOK, Crash
  <2>3. /\ pc' = [c \in Caller |-> "idle"] /\ call' = [c \in Caller |-> NoCall]
        /\ view' = [c \in Caller |-> Blank] /\ answer' = [c \in Caller |-> Nothing]
    BY <1>1 DEF Crash
  <2> QED
    BY <1>1, <2>1, <2>2, <2>3, BlankType DEF TypeOK, Crash
<1>2. CASE Reopen
  BY <1>2 DEF TypeOK, Reopen
<1>3. ASSUME NEW c \in Caller
      PROVE  /\ Ask(c) => TypeOK'
             /\ BeginWrite(c) => TypeOK'
             /\ BeginRead(c) => TypeOK'
  <2>1. Ask(c) => TypeOK'
    BY MemoryAssumption DEF TypeOK, Ask
  <2>2. BeginWrite(c) => TypeOK'
    BY DEF TypeOK, BeginWrite
  <2>3. BeginRead(c) => TypeOK'
    BY DEF TypeOK, BeginRead
  <2> QED
    BY <2>1, <2>2, <2>3
<1>4. ASSUME NEW c \in Caller, OpenForWrite(c)
      PROVE  TypeOK'
  <2>1. call[c] \in Call
    BY <1>4 DEF OpenForWrite, CallsSound
  <2>2. call[c].table \in Table
    BY <2>1, MemoryAssumption
  <2>3. [view[c] EXCEPT !.tables = @ \cup {call[c].table}] \in Database
    BY <2>2, OpenType DEF TypeOK
  <2>4. view' = [view EXCEPT ![c] = [view[c] EXCEPT !.tables = @ \cup {call[c].table}]]
    BY <1>4 DEF OpenForWrite
  <2> QED
    BY <1>4, <2>3, <2>4 DEF TypeOK, OpenForWrite
<1>5. ASSUME NEW c \in Caller, OpenForRead(c)
      PROVE  TypeOK'
  BY <1>5 DEF TypeOK, OpenForRead
<1>6. ASSUME NEW c \in Caller, MissTable(c)
      PROVE  TypeOK'
  <2>1. NoTable \in Answer
    BY DEF Answer
  <2> QED
    BY <1>6, <2>1, FinishType DEF TypeOK, MissTable
<1>7. ASSUME NEW c \in Caller, Change(c)
      PROVE  TypeOK'
  BY <1>7, ChangeType DEF TypeOK, Change
<1>8. ASSUME NEW c \in Caller, Commit(c)
      PROVE  TypeOK'
  <2>1. Ok \in Answer
    BY DEF Answer
  <2> QED
    BY <1>8, <2>1, FinishType DEF TypeOK, Commit
<1>9. ASSUME NEW c \in Caller, Get(c)
      PROVE  TypeOK'
  <2>1. call[c] \in Call /\ view[c] \in Database
    BY <1>9 DEF Get, CallsSound, TypeOK
  <2>2. Found(view[c], call[c]) \in Answer
    BY <2>1, FoundType
  <2> QED
    BY <1>9, <2>2, FinishType DEF TypeOK, Get
<1>10. ASSUME NEW c \in Caller, Fail(c) \/ FailCommitted(c)
       PROVE  TypeOK'
  <2>1. Failed \in Answer
    BY DEF Answer
  <2> QED
    BY <1>10, <2>1, FinishType, MemoryAssumption DEF TypeOK, Fail, FailCommitted
<1>11. ASSUME NEW c \in Caller, Return(c)
       PROVE  TypeOK'
  BY <1>11 DEF TypeOK, Return, Answer
<1>12. CASE UNCHANGED vars
  BY <1>12 DEF TypeOK, vars
<1> QED
  BY <1>1, <1>2, <1>3, <1>4, <1>5, <1>6, <1>7, <1>8, <1>9, <1>10, <1>11, <1>12
  DEF Next, Proceed

-----------------------------------------------------------------------------
(* What the steps of a call rest on.                                       *)

\* Every step keeps what is said of the calls under way.
LEMMA SoundStep ==
    ASSUME TypeOK, CallsSound, [Next]_vars
    PROVE  CallsSound'
<1>1. CASE Crash
  BY <1>1 DEF Crash, CallsSound
<1>2. CASE Reopen
  BY <1>2 DEF Reopen, CallsSound, IsWrite
<1>3. ASSUME NEW c \in Caller, Ask(c)
      PROVE  CallsSound'
  BY <1>3 DEF TypeOK, Ask, CallsSound, IsWrite
<1>4. ASSUME NEW c \in Caller, BeginWrite(c) \/ BeginRead(c)
      PROVE  CallsSound'
  BY <1>4 DEF TypeOK, BeginWrite, BeginRead, CallsSound, IsWrite
<1>5. ASSUME NEW c \in Caller, OpenForWrite(c)
      PROVE  CallsSound'
  BY <1>5 DEF TypeOK, OpenForWrite, CallsSound, IsWrite
<1>6. ASSUME NEW c \in Caller, OpenForRead(c)
      PROVE  CallsSound'
  BY <1>6 DEF TypeOK, OpenForRead, CallsSound, IsWrite
<1>7. ASSUME NEW c \in Caller, Change(c)
      PROVE  CallsSound'
  BY <1>7 DEF TypeOK, Change, CallsSound, IsWrite
<1>8. ASSUME NEW c \in Caller, NEW result, Finish(c, result), UNCHANGED call, pc[c] # "idle"
      PROVE  CallsSound'
  BY <1>8 DEF TypeOK, Finish, CallsSound, IsWrite
<1>9. ASSUME NEW c \in Caller,
             \/ MissTable(c) \/ Commit(c) \/ Get(c) \/ Fail(c) \/ FailCommitted(c)
      PROVE  CallsSound'
  BY <1>8, <1>9 DEF MissTable, Commit, Get, Fail, FailCommitted
<1>10. ASSUME NEW c \in Caller, Return(c)
       PROVE  CallsSound'
  BY <1>10 DEF TypeOK, Return, CallsSound, IsWrite
<1>11. CASE UNCHANGED vars
  BY <1>11 DEF vars, CallsSound, IsWrite
<1> QED
  BY <1>1, <1>2, <1>3, <1>4, <1>5, <1>6, <1>7, <1>9, <1>10, <1>11 DEF Next, Proceed

-----------------------------------------------------------------------------
(* No call undoes what another one committed.                              *)

\* A step of c's call that leaves the disk alone leaves the others' views be.
LEMMA OthersKept ==
    ASSUME NothingLost, NEW c \in Caller, UNCHANGED disk,
           writer' = writer \/ writer \in {c, Nobody},
           \A d \in Caller \ {c} :
                pc'[d] = pc[d] /\ call'[d] = call[d] /\ view'[d] = view[d]
    PROVE  \A d \in Caller \ {c} :
                Writing(d)' => writer' = d /\ view'[d] = StagedOver(d)'
<1> SUFFICES ASSUME NEW d \in Caller \ {c}, Writing(d)'
             PROVE  writer' = d /\ view'[d] = StagedOver(d)'
  OBVIOUS
<1>1. Writing(d)
  BY DEF Writing, IsWrite
<1>2. writer = d /\ view[d] = StagedOver(d)
  BY <1>1 DEF NothingLost
<1>3. writer' = writer
  BY <1>2, NamesAssumption
<1>4. StagedOver(d)' = StagedOver(d)
  BY DEF StagedOver
<1> QED
  BY <1>2, <1>3, <1>4

\* The step that reaches the disk is the only writer's.
LEMMA CommitKept ==
    ASSUME TypeOK, CallsSound, NothingLost, NEW c \in Caller, NEW result,
           pc[c] = "changed", Finish(c, result), UNCHANGED call
    PROVE  NothingLost'
<1>1. Writing(c)
  BY DEF Writing, CallsSound
<1>2. writer = c
  BY <1>1 DEF NothingLost
<1>3. ASSUME NEW d \in Caller
      PROVE  ~Writing(d)'
  <2>1. CASE d = c
    BY <2>1 DEF TypeOK, Finish, Writing
  <2>2. CASE d # c
    <3>1. ~Writing(d)
      BY <1>2, <2>2 DEF NothingLost
    <3> QED
      BY <2>2, <3>1 DEF TypeOK, Finish, Writing, IsWrite
  <2> QED
    BY <2>1, <2>2
<1> QED
  BY <1>3 DEF NothingLost

\* No step loses what a finished call committed.
LEMMA LostStep ==
    ASSUME TypeOK, CallsSound, NothingLost, [Next]_vars
    PROVE  NothingLost'
<1>1. CASE Crash
  BY <1>1 DEF Crash, NothingLost, Writing
<1>2. CASE Reopen \/ UNCHANGED vars
  BY <1>2 DEF Reopen, vars, NothingLost, Writing, IsWrite, StagedOver
<1>3. ASSUME NEW c \in Caller, ~Writing(c)', UNCHANGED disk,
             writer' = writer \/ writer \in {c, Nobody},
             \A d \in Caller \ {c} :
                pc'[d] = pc[d] /\ call'[d] = call[d] /\ view'[d] = view[d]
      PROVE  NothingLost'
  BY <1>3, OthersKept DEF NothingLost
<1>4. ASSUME NEW c \in Caller, Ask(c) \/ BeginRead(c) \/ OpenForRead(c) \/ Return(c)
      PROVE  NothingLost'
  <2>1. ~Writing(c)'
    BY <1>4 DEF TypeOK, Ask, BeginRead, OpenForRead, Return, Writing, IsWrite
  <2> QED
    BY <1>3, <1>4, <2>1 DEF TypeOK, Ask, BeginRead, OpenForRead, Return
<1>5. ASSUME NEW c \in Caller, MissTable(c) \/ Get(c) \/ Fail(c)
      PROVE  NothingLost'
  <2>1. ~Writing(c)'
    BY <1>5 DEF TypeOK, MissTable, Get, Fail, Finish, Writing
  <2> QED
    BY <1>3, <1>5, <2>1 DEF TypeOK, MissTable, Get, Fail, Finish
<1>6. ASSUME NEW c \in Caller, Commit(c) \/ FailCommitted(c)
      PROVE  NothingLost'
  BY <1>6, CommitKept DEF Commit, FailCommitted
<1>7. ASSUME NEW c \in Caller, BeginWrite(c)
      PROVE  NothingLost'
  <2>1. \A d \in Caller \ {c} : Writing(d)' => writer' = d /\ view'[d] = StagedOver(d)'
    BY <1>7, OthersKept DEF TypeOK, BeginWrite
  <2>2. writer' = c /\ view'[c] = disk
    BY <1>7 DEF TypeOK, BeginWrite
  <2>3. pc'[c] = "begun" /\ disk' = disk
    BY <1>7 DEF TypeOK, BeginWrite
  <2>4. StagedOver(c)' = [tables |-> disk.tables, rows |-> disk.rows]
    BY <2>3 DEF StagedOver
  <2>5. disk = [tables |-> disk.tables, rows |-> disk.rows]
    BY DEF TypeOK, Database
  <2> QED
    BY <2>1, <2>2, <2>4, <2>5 DEF NothingLost
<1>8. ASSUME NEW c \in Caller, OpenForWrite(c)
      PROVE  NothingLost'
  <2>1. \A d \in Caller \ {c} : Writing(d)' => writer' = d /\ view'[d] = StagedOver(d)'
    BY <1>8, OthersKept DEF TypeOK, OpenForWrite
  <2>2. Writing(c) /\ pc[c] = "begun" /\ pc'[c] = "opened" /\ disk' = disk
        /\ call' = call /\ writer' = writer
    BY <1>8 DEF TypeOK, OpenForWrite, Writing
  <2>3. writer = c /\ view[c] = [tables |-> disk.tables, rows |-> disk.rows]
    BY <2>2 DEF NothingLost, StagedOver
  <2>4. view'[c] = [tables |-> disk.tables \cup {call[c].table}, rows |-> disk.rows]
    <3>1. view'[c] = [view[c] EXCEPT !.tables = @ \cup {call[c].table}]
      BY <1>8 DEF TypeOK, OpenForWrite
    <3> QED
      BY <3>1, <2>3
  <2>5. StagedOver(c)' = [tables |-> disk.tables \cup {call[c].table}, rows |-> disk.rows]
    BY <2>2 DEF StagedOver
  <2> QED
    BY <2>1, <2>2, <2>3, <2>4, <2>5 DEF NothingLost
<1>9. ASSUME NEW c \in Caller, Change(c)
      PROVE  NothingLost'
  <2> DEFINE x == call[c]
             b == IF x.op = "remove" THEN Nothing ELSE Encode(x)
             rows == [disk.rows EXCEPT ![x.table][x.key] = b]
  <2>1. \A d \in Caller \ {c} : Writing(d)' => writer' = d /\ view'[d] = StagedOver(d)'
    BY <1>9, OthersKept DEF TypeOK, Change
  <2>2. Writing(c) /\ pc[c] = "opened" /\ pc'[c] = "changed" /\ disk' = disk
        /\ call' = call /\ writer' = writer
    BY <1>9 DEF TypeOK, Change, Writing
  <2>3. writer = c /\ view[c] = [tables |-> disk.tables \cup {x.table}, rows |-> disk.rows]
    BY <2>2 DEF NothingLost, StagedOver
  <2>4. view'[c] = [tables |-> disk.tables \cup {x.table}, rows |-> rows]
    <3>1. view'[c] = [view[c] EXCEPT !.rows[x.table][x.key] = b]
      BY <1>9 DEF TypeOK, Change
    <3>2. view'[c] = [view[c] EXCEPT !.rows = [view[c].rows EXCEPT ![x.table][x.key] = b]]
      BY <3>1
    <3>3. view[c].rows = disk.rows
      BY <2>3
    <3>4. view[c] = [tables |-> disk.tables \cup {x.table}, rows |-> disk.rows]
      BY <2>3
    <3>5. view'[c] = [view[c] EXCEPT !.rows = rows]
      BY <3>2, <3>3
    <3> HIDE DEF rows, x
    <3> QED
      BY <3>4, <3>5
  <2>5. StagedOver(c)' = [tables |-> disk.tables \cup {x.table}, rows |-> rows]
    BY <2>2 DEF StagedOver, Encode
  <2> QED
    BY <2>1, <2>2, <2>3, <2>4, <2>5 DEF NothingLost
<1> QED
  BY <1>1, <1>2, <1>4, <1>5, <1>6, <1>7, <1>8, <1>9 DEF Next, Proceed

IInv == TypeOK /\ CallsSound /\ NothingLost

\* The invariant holds in every reachable state.
LEMMA Invariance == Spec => []IInv
<1>1. Init => IInv
  <2> SUFFICES ASSUME Init
               PROVE  IInv
    OBVIOUS
  <2>1. Nothing \in Answer
    BY DEF Answer
  <2>2. TypeOK
    BY <2>1, BlankType, MemoryAssumption DEF Init, TypeOK
  <2>3. CallsSound /\ NothingLost
    BY DEF Init, CallsSound, NothingLost, Writing
  <2> QED
    BY <2>2, <2>3 DEF IInv
<1>2. IInv /\ [Next]_vars => IInv'
  BY TypeStep, SoundStep, LostStep DEF IInv
<1> QED
  BY <1>1, <1>2, PTL DEF Spec

\* Whatever calls are made, fail or die with the process, every variable has
\* its type, and every table holds only bytes of the kind its store reads.
THEOREM TypeCorrect == Spec => []TypeOK
BY Invariance, PTL DEF IInv

\* An open write transaction is over what is committed now, and differs from
\* it by its own call only: committing it undoes nobody else's write.
THEOREM NoWriteLost == Spec => []NothingLost
BY Invariance, PTL DEF IInv

-----------------------------------------------------------------------------
(* A call ends.                                                            *)

\* The write transaction that is open belongs to a call under way.
WriterWorks == writer # Nobody => writer \in Caller /\ Writing(writer)

\* Every step of a caller other than the writer leaves the writer at work; what
\* the writer does keeps its transaction open until it ends it.
LEMMA WriterStep ==
    ASSUME TypeOK, CallsSound, NothingLost, WriterWorks, [Next]_vars
    PROVE  WriterWorks'
<1>1. CASE UNCHANGED vars \/ Reopen
  BY <1>1 DEF vars, Reopen, WriterWorks, Writing, IsWrite
<1>2. CASE Crash
  BY <1>2 DEF Crash, WriterWorks
<1>3. ASSUME NEW c \in Caller, ~Writing(c), writer' = writer,
             \A d \in Caller \ {c} : pc'[d] = pc[d] /\ call'[d] = call[d]
      PROVE  WriterWorks'
  <2>1. writer # c \/ writer = Nobody
    BY <1>3, NamesAssumption DEF WriterWorks
  <2> QED
    BY <1>3, <2>1 DEF WriterWorks, Writing, IsWrite
<1>4. ASSUME NEW c \in Caller, writer' = IF writer = c THEN Nobody ELSE writer,
             \A d \in Caller \ {c} : pc'[d] = pc[d] /\ call'[d] = call[d]
      PROVE  WriterWorks'
  BY <1>4 DEF WriterWorks, Writing, IsWrite
<1>5. ASSUME NEW c \in Caller, Ask(c) \/ BeginRead(c) \/ OpenForRead(c) \/ Return(c)
      PROVE  WriterWorks'
  <2>1. ~Writing(c) /\ writer' = writer
    BY <1>5 DEF Ask, BeginRead, OpenForRead, Return, Writing
  <2> QED
    BY <1>3, <1>5, <2>1 DEF TypeOK, Ask, BeginRead, OpenForRead, Return
<1>6. ASSUME NEW c \in Caller, MissTable(c) \/ Get(c) \/ Fail(c) \/ FailCommitted(c) \/ Commit(c)
      PROVE  WriterWorks'
  BY <1>4, <1>6 DEF TypeOK, MissTable, Get, Fail, FailCommitted, Commit, Finish
<1>7. ASSUME NEW c \in Caller, BeginWrite(c)
      PROVE  WriterWorks'
  <2>1. writer' = c /\ pc'[c] = "begun" /\ call' = call /\ IsWrite(c)
    BY <1>7 DEF TypeOK, BeginWrite
  <2> QED
    BY <2>1 DEF WriterWorks, Writing, IsWrite
<1>8. ASSUME NEW c \in Caller, OpenForWrite(c) \/ Change(c)
      PROVE  WriterWorks'
  <2>1. /\ writer' = writer /\ call' = call /\ IsWrite(c)
        /\ pc'[c] \in {"opened", "changed"}
        /\ \A d \in Caller \ {c} : pc'[d] = pc[d]
    BY <1>8 DEF TypeOK, OpenForWrite, Change
  <2> QED
    BY <2>1 DEF WriterWorks, Writing, IsWrite
<1> QED
  BY <1>1, <1>2, <1>5, <1>6, <1>7, <1>8 DEF Next, Proceed

\* The write lock is never left behind: whatever fails, whoever dies, it is held
\* only by a call that is on its way to its commit.
THEOREM WriterNeverLost == Spec => []WriterWorks
<1>1. Init => WriterWorks
  BY DEF Init, WriterWorks
<1>2. IInv /\ WriterWorks /\ [Next]_vars => WriterWorks'
  BY WriterStep DEF IInv
<1> QED
  BY <1>1, <1>2, Invariance, PTL DEF Spec

\* The steps a call may still take before its caller is idle again.
StepsOf ==
    [idle |-> 0, answered |-> 1, changed |-> 2, opened |-> 3, begun |-> 4, asked |-> 5]

StepsLeft == [c \in Caller |-> StepsOf[pc[c]]]

\* A step of a call, or its failure, uses up at least one of its steps and none
\* of anyone else's.
Advances(c) ==
    /\ StepsLeft'[c] \in 0 .. StepsLeft[c] - 1
    /\ \A d \in Caller \ {c} : StepsLeft'[d] = StepsLeft[d]

\* What one call does to the steps of all.
LEMMA CallAdvances ==
    ASSUME TypeOK, NEW c \in Caller, Proceed(c) \/ Fail(c) \/ FailCommitted(c)
    PROVE  Advances(c)
<1>1. \A d \in Caller : StepsLeft[d] = StepsOf[pc[d]] /\ StepsLeft'[d] = StepsOf[pc'[d]]
  BY DEF StepsLeft, StepsOf
<1>2. \A d \in Caller \ {c} : pc'[d] = pc[d]
  <2>1. CASE BeginWrite(c) \/ BeginRead(c) \/ OpenForWrite(c) \/ OpenForRead(c)
               \/ Change(c) \/ Return(c)
    BY <2>1 DEF TypeOK, BeginWrite, BeginRead, OpenForWrite, OpenForRead, Change, Return
  <2>2. CASE MissTable(c) \/ Commit(c) \/ Get(c) \/ Fail(c) \/ FailCommitted(c)
    BY <2>2 DEF TypeOK, MissTable, Commit, Get, Fail, FailCommitted, Finish
  <2> QED
    BY <2>1, <2>2 DEF Proceed
<1>3. StepsOf[pc'[c]] \in 0 .. StepsOf[pc[c]] - 1
  <2>1. CASE BeginWrite(c) \/ BeginRead(c)
    <3>1. pc[c] = "asked" /\ pc'[c] = "begun"
      BY <2>1 DEF TypeOK, BeginWrite, BeginRead
    <3> QED
      BY <3>1 DEF StepsOf
  <2>2. CASE OpenForWrite(c) \/ OpenForRead(c)
    <3>1. pc[c] = "begun" /\ pc'[c] = "opened"
      BY <2>2 DEF TypeOK, OpenForWrite, OpenForRead
    <3> QED
      BY <3>1 DEF StepsOf
  <2>3. CASE Change(c)
    <3>1. pc[c] = "opened" /\ pc'[c] = "changed"
      BY <2>3 DEF TypeOK, Change
    <3> QED
      BY <3>1 DEF StepsOf
  <2>4. CASE MissTable(c) \/ Commit(c) \/ Get(c) \/ Fail(c) \/ FailCommitted(c)
    <3>1. /\ pc[c] \in {"asked", "begun", "opened", "changed"}
          /\ pc'[c] = "answered"
      BY <2>4 DEF TypeOK, MissTable, Commit, Get, Fail, FailCommitted, Finish
    <3> QED
      BY <3>1 DEF StepsOf
  <2>5. CASE Return(c)
    <3>1. pc[c] = "answered" /\ pc'[c] = "idle"
      BY <2>5 DEF TypeOK, Return
    <3> QED
      BY <3>1 DEF StepsOf
  <2> QED
    BY <2>1, <2>2, <2>3, <2>4, <2>5 DEF Proceed
<1> QED
  BY <1>1, <1>2, <1>3 DEF Advances

\* No call goes round in circles: with threads that are scheduled again, and a
\* write lock that is never left behind, every call returns.
THEOREM CallsAdvance ==
    Spec => [][\A c \in Caller :
                  Proceed(c) \/ Fail(c) \/ FailCommitted(c) => Advances(c)]_vars
<1>1. IInv /\ [Next]_vars =>
        [\A c \in Caller : Proceed(c) \/ Fail(c) \/ FailCommitted(c) => Advances(c)]_vars
  BY CallAdvances DEF IInv
<1> QED
  BY <1>1, Invariance, PTL DEF Spec

-----------------------------------------------------------------------------
(* Refinement.                                                             *)

\* A step of c's call changes the status of no other caller.
LEMMA StatusOfOne ==
    ASSUME NEW c \in Caller,
           \A d \in Caller \ {c} :
                /\ pc'[d] = pc[d] /\ call'[d] = call[d]
                /\ view'[d] = view[d] /\ answer'[d] = answer[d]
    PROVE  Status' = [Status EXCEPT ![c] = StatusOf(c)']
<1>1. \A d \in Caller \ {c} : StatusOf(d)' = StatusOf(d)
  BY DEF StatusOf, IsWrite
<1>2. Status' = [d \in Caller |-> StatusOf(d)']
  BY DEF Status
<1> QED
  BY <1>1, <1>2 DEF Status

\* A call that stays in the same status is a step the store does not see.
LEMMA Unseen ==
    ASSUME NEW c \in Caller, UNCHANGED disk, StatusOf(c)' = StatusOf(c),
           \A d \in Caller \ {c} :
                /\ pc'[d] = pc[d] /\ call'[d] = call[d]
                /\ view'[d] = view[d] /\ answer'[d] = answer[d]
    PROVE  UNCHANGED <<Contents, disk.tables, Status>>
<1>1. Status' = [Status EXCEPT ![c] = StatusOf(c)']
  BY StatusOfOne
<1>2. Status' = Status
  BY <1>1 DEF Status
<1>3. Contents' = Contents
  BY DEF Contents
<1> QED
  BY <1>2, <1>3

\* A snapshot answers what the store's contents answer at that moment.
LEMMA SnapshotAnswers ==
    ASSUME TypeOK, NEW x \in Call
    PROVE  Store!Reply(Contents, disk.tables, x) =
              IF x.table \in disk.tables THEN Found(disk, x) ELSE NoTable
<1>1. x.table \in Table /\ x.key \in Key
  BY MemoryAssumption
<1>2. \A k \in Key : /\ disk.rows[x.table][k] \in BytesOf(x.table) \cup {Nothing}
                     /\ Contents[x.table][k] = Decode(x.table, disk.rows[x.table][k])
  BY <1>1 DEF TypeOK, Database, Contents
<1>3. \A k \in Key : Contents[x.table][k] = Nothing <=> disk.rows[x.table][k] = Nothing
  BY <1>1, <1>2, DecodeType
<1>4. {k \in Key : Contents[x.table][k] # Nothing}
        = {k \in Key : disk.rows[x.table][k] # Nothing}
  BY <1>3
<1>5. Contents[x.table][x.key] = Decode(x.table, disk.rows[x.table][x.key])
  BY <1>1, <1>2
<1> QED
  BY <1>4, <1>5 DEF Store!Reply, Found

\* Two functions of two arguments that differ in one entry.
LEMMA OneEntry ==
    ASSUME NEW S, NEW T, NEW V, NEW f \in [S -> [T -> V]], NEW e \in [S -> [T -> V]],
           NEW s \in S, NEW t \in T, NEW v,
           \A i \in S, j \in T : e[i][j] = IF i = s /\ j = t THEN v ELSE f[i][j]
    PROVE  e = [f EXCEPT ![s][t] = v]
<1> DEFINE row == [f[s] EXCEPT ![t] = v]
<1>1. e[s] = row
  <2>1. e[s] \in [T -> V] /\ f[s] \in [T -> V]
    OBVIOUS
  <2>2. \A j \in T : e[s][j] = IF j = t THEN v ELSE f[s][j]
    OBVIOUS
  <2> QED
    BY <2>1, <2>2
<1>2. ASSUME NEW i \in S, i # s
      PROVE  e[i] = f[i]
  <2>1. e[i] \in [T -> V] /\ f[i] \in [T -> V]
    OBVIOUS
  <2>2. \A j \in T : e[i][j] = f[i][j]
    BY <1>2
  <2> QED
    BY <2>1, <2>2
<1>3. e = [f EXCEPT ![s] = row]
  <2> HIDE DEF row
  <2> QED
    BY <1>1, <1>2
<1> QED
  BY <1>3

\* Reaching the disk is the write of the store, of what its caller meant.
LEMMA WriteReached ==
    ASSUME IInv, NEW c \in Caller, pc[c] = "changed", disk' = view[c]
    PROVE  /\ call[c] \in Call /\ call[c].op \in Store!Writes
           /\ Status[c] = Store!Asked(call[c])
           /\ Contents' = [Contents EXCEPT ![call[c].table][call[c].key] = call[c].record]
           /\ disk'.tables = disk.tables \cup {call[c].table}
<1> DEFINE x == call[c]
           b == IF x.op = "remove" THEN Nothing ELSE Encode(x)
<1>1. x \in Call /\ IsWrite(c) /\ x.op \in WriteOps
  BY DEF IInv, CallsSound, IsWrite
<1>2. x.table \in Table /\ x.key \in Key
  BY <1>1, MemoryAssumption
<1>3. Writing(c)
  BY <1>1 DEF Writing
<1>4. disk' = [tables |-> disk.tables \cup {x.table},
               rows |-> [disk.rows EXCEPT ![x.table][x.key] = b]]
  BY <1>3 DEF IInv, NothingLost, StagedOver
<1>5. Decode(x.table, b) = x.record
  <2>1. CASE x.op = "remove"
    <3>1. WellFormed(x)
      BY <1>1, MemoryAssumption
    <3>2. x.record = Nothing
      BY <2>1, <3>1 DEF WellFormed
    <3> QED
      BY <2>1, <3>2 DEF Decode
  <2>2. CASE x.op # "remove"
    BY <1>1, <2>2, RoundTrip
  <2> QED
    BY <2>1, <2>2
<1>6. disk.rows \in [Table -> [Key -> Bytes \cup {Nothing}]]
  BY DEF IInv, TypeOK, Database
<1>7. ASSUME NEW t \in Table, NEW k \in Key
      PROVE  Contents'[t][k] =
                IF t = x.table /\ k = x.key THEN x.record ELSE Contents[t][k]
  <2>1. Contents'[t][k] = Decode(t, disk'.rows[t][k])
    BY DEF Contents
  <2>2. Contents[t][k] = Decode(t, disk.rows[t][k])
    BY DEF Contents
  <2>3. disk'.rows[t][k] = IF t = x.table /\ k = x.key THEN b ELSE disk.rows[t][k]
    <3>1. disk'.rows = [disk.rows EXCEPT ![x.table][x.key] = b]
      BY <1>4
    <3> HIDE DEF b, x
    <3> QED
      BY <3>1, <1>2, <1>6
  <2> QED
    BY <2>1, <2>2, <2>3, <1>5
<1>8. Contents' = [Contents EXCEPT ![x.table][x.key] = x.record]
  <2> DEFINE V == Record \cup {Nothing}
  <2>1. Contents \in [Table -> [Key -> V]]
    <3>1. ASSUME NEW t \in Table, NEW k \in Key
          PROVE  Decode(t, disk.rows[t][k]) \in V
      <4>1. disk.rows[t][k] \in BytesOf(t) \cup {Nothing}
        BY DEF IInv, TypeOK, Database
      <4> QED
        BY <4>1, DecodeType
    <3> HIDE DEF V
    <3> QED
      BY <3>1 DEF Contents
  <2>2. x.record \in V
    BY <1>1, MemoryAssumption
  <2>3. Contents' \in [Table -> [Key -> V]]
    <3>1. ASSUME NEW t \in Table, NEW k \in Key
          PROVE  Decode(t, disk'.rows[t][k]) \in V
      <4>1. Decode(t, disk'.rows[t][k]) = Contents'[t][k]
        BY DEF Contents
      <4>2. Contents[t][k] \in V
        BY <2>1
      <4> HIDE DEF V
      <4> QED
        BY <1>7, <2>2, <4>1, <4>2
    <3> HIDE DEF V
    <3> QED
      BY <3>1 DEF Contents
  <2> HIDE DEF x, V
  <2> QED
    BY ONLY <1>2, <1>7, <2>1, <2>3, OneEntry
<1>9. Status[c] = Store!Asked(x)
  BY <1>1 DEF Status, StatusOf, Store!Asked
<1> QED
  BY <1>1, <1>4, <1>8, <1>9 DEF WriteOps, Store!Writes

\* Every step is a step of the store, or changes nothing of it.
LEMMA StoreStep ==
    ASSUME IInv, [Next]_vars
    PROVE  [Store!Next]_(Store!vars)
<1> USE DEF IInv
<1>1. CASE Crash
  <2>1. Status' = [c \in Caller |-> Store!Idle]
    BY <1>1 DEF Crash, Status, StatusOf, Store!Idle
  <2>2. Contents' = Contents /\ disk'.tables = disk.tables
    BY <1>1 DEF Crash, Contents
  <2> QED
    BY <2>1, <2>2 DEF Store!Crash, Store!Next
<1>2. CASE Reopen \/ UNCHANGED vars
  <2>1. Status' = Status /\ Contents' = Contents /\ disk' = disk
    BY <1>2 DEF Reopen, vars, Status, StatusOf, IsWrite, Contents
  <2> QED
    BY <2>1 DEF Store!vars
<1>3. ASSUME NEW c \in Caller, Ask(c)
      PROVE  Store!Ask(c)
  <2>1. PICK x \in Call : call' = [call EXCEPT ![c] = x]
    BY <1>3 DEF Ask
  <2>2. Status' = [Status EXCEPT ![c] = StatusOf(c)']
    BY <1>3, StatusOfOne DEF TypeOK, Ask
  <2>3. StatusOf(c)' = Store!Asked(x) /\ Status[c] = Store!Idle
    BY <1>3, <2>1 DEF TypeOK, Ask, Status, StatusOf, Store!Asked, Store!Idle
  <2>4. Contents' = Contents /\ disk'.tables = disk.tables
    BY <1>3 DEF Ask, Contents
  <2> QED
    BY <2>2, <2>3, <2>4 DEF Store!Ask
<1>4. ASSUME NEW c \in Caller, BeginRead(c)
      PROVE  Store!Read(c)
  <2>1. call[c] \in Call /\ call[c].op \notin WriteOps
    BY <1>4 DEF BeginRead, CallsSound, IsWrite
  <2>2. Status' = [Status EXCEPT ![c] = StatusOf(c)']
    BY <1>4, StatusOfOne DEF TypeOK, BeginRead
  <2>3. view'[c] = disk /\ pc'[c] = "begun" /\ call' = call
    BY <1>4 DEF TypeOK, BeginRead
  <2>4. StatusOf(c)' = Store!Answered(IF call[c].table \in disk.tables
                                      THEN Found(disk, call[c]) ELSE NoTable)
    BY <2>1, <2>3 DEF StatusOf, IsWrite, Found, Store!Answered
  <2>5. Status[c] = Store!Asked(call[c])
    BY <1>4 DEF BeginRead, Status, StatusOf, Store!Asked
  <2>6. Contents' = Contents /\ disk'.tables = disk.tables
    BY <1>4 DEF BeginRead, Contents
  <2> QED
    BY <2>1, <2>2, <2>4, <2>5, <2>6, SnapshotAnswers
    DEF Store!Read, Store!Writes, WriteOps
<1>5. ASSUME NEW c \in Caller,
             BeginWrite(c) \/ OpenForWrite(c) \/ OpenForRead(c) \/ Change(c)
      PROVE  UNCHANGED Store!vars
  <2>1. CASE BeginWrite(c) \/ OpenForWrite(c) \/ Change(c)
    <3>1. StatusOf(c)' = StatusOf(c)
      BY <2>1 DEF TypeOK, BeginWrite, OpenForWrite, Change, StatusOf, IsWrite
    <3> QED
      BY <2>1, <3>1, Unseen DEF TypeOK, BeginWrite, OpenForWrite, Change, Store!vars
  <2>2. CASE OpenForRead(c)
    <3>1. StatusOf(c)' = StatusOf(c)
      BY <2>2 DEF TypeOK, OpenForRead, StatusOf, IsWrite, Found
    <3> QED
      BY <2>2, <3>1, Unseen DEF TypeOK, OpenForRead, Store!vars
  <2> QED
    BY <1>5, <2>1, <2>2
<1>6. ASSUME NEW c \in Caller, MissTable(c) \/ Get(c)
      PROVE  UNCHANGED Store!vars
  <2>1. StatusOf(c)' = StatusOf(c)
    <3>1. CASE MissTable(c)
      BY <3>1 DEF TypeOK, MissTable, Finish, StatusOf
    <3>2. CASE Get(c)
      BY <3>2 DEF TypeOK, Get, Finish, CallsSound, StatusOf
    <3> QED
      BY <1>6, <3>1, <3>2
  <2> QED
    BY <1>6, <2>1, Unseen DEF TypeOK, MissTable, Get, Finish, Store!vars
<1>7. ASSUME NEW c \in Caller, Commit(c)
      PROVE  Store!Write(c)
  <2>1. Status' = [Status EXCEPT ![c] = StatusOf(c)']
    BY <1>7, StatusOfOne DEF TypeOK, Commit, Finish
  <2>2. StatusOf(c)' = Store!Answered(Ok)
    BY <1>7 DEF TypeOK, Commit, Finish, StatusOf, Store!Answered
  <2>3. pc[c] = "changed" /\ disk' = view[c]
    BY <1>7 DEF Commit
  <2> QED
    BY <2>1, <2>2, <2>3, WriteReached DEF Store!Write
<1>8. ASSUME NEW c \in Caller, FailCommitted(c)
      PROVE  Store!WriteAndSpoil(c)
  <2>1. Status' = [Status EXCEPT ![c] = StatusOf(c)']
    BY <1>8, StatusOfOne DEF TypeOK, FailCommitted, Finish
  <2>2. StatusOf(c)' = Store!Answered(Failed)
    BY <1>8 DEF TypeOK, FailCommitted, Finish, StatusOf, Store!Answered
  <2>3. pc[c] = "changed" /\ disk' = view[c]
    BY <1>8 DEF FailCommitted
  <2> QED
    BY <2>1, <2>2, <2>3, WriteReached DEF Store!WriteAndSpoil
<1>9. ASSUME NEW c \in Caller, Fail(c)
      PROVE  Store!Spoil(c)
  <2>1. Status' = [Status EXCEPT ![c] = StatusOf(c)']
    BY <1>9, StatusOfOne DEF TypeOK, Fail, Finish
  <2>2. StatusOf(c)' = Store!Answered(Failed)
    BY <1>9 DEF TypeOK, Fail, Finish, StatusOf, Store!Answered
  <2>3. Status[c].phase # "idle"
    BY <1>9 DEF Fail, Status, StatusOf
  <2>4. Contents' = Contents /\ disk'.tables = disk.tables
    BY <1>9 DEF Fail, Contents
  <2> QED
    BY <2>1, <2>2, <2>3, <2>4 DEF Store!Spoil, Store!Idle
<1>10. ASSUME NEW c \in Caller, Return(c)
       PROVE  Store!Return(c)
  <2>1. Status' = [Status EXCEPT ![c] = StatusOf(c)']
    BY <1>10, StatusOfOne DEF TypeOK, Return
  <2>2. StatusOf(c)' = Store!Idle
    BY <1>10 DEF TypeOK, Return, StatusOf, Store!Idle
  <2>3. Status[c].phase = "answered"
    BY <1>10 DEF Return, Status, StatusOf
  <2>4. Contents' = Contents /\ disk'.tables = disk.tables
    BY <1>10 DEF Return, Contents
  <2> QED
    BY <2>1, <2>2, <2>3, <2>4 DEF Store!Return
<1> QED
  BY <1>1, <1>2, <1>3, <1>4, <1>5, <1>6, <1>7, <1>8, <1>9, <1>10
  DEF Next, Proceed, Store!Next

\* The stores over one database, with every failure and every crash, implement
\* DurableStore: calls take effect one at a time, what is acknowledged is
\* there for ever, and old records are read as what they meant.
THEOREM StoreImplemented == Spec => ImplementsStore
<1>1. Init => Store!Init
  <2> SUFFICES ASSUME Init
               PROVE  Store!Init
    OBVIOUS
  <2>1. Contents = [t \in Table |-> [k \in Key |-> Nothing]]
    BY DEF Init, Blank, Contents, Decode
  <2>2. disk.tables = {}
    BY DEF Init, Blank
  <2>3. Status = [c \in Caller |-> Store!Idle]
    BY DEF Init, Status, StatusOf, Store!Idle
  <2> QED
    BY <2>1, <2>2, <2>3 DEF Store!Init
<1>2. IInv /\ [Next]_vars => [Store!Next]_(Store!vars)
  BY StoreStep
<1> QED
  BY <1>1, <1>2, Invariance, PTL DEF Spec, ImplementsStore, Store!Spec
=============================================================================
