---------------------------- MODULE DurableStore ----------------------------
(***************************************************************************)
(* What vitalis-memory promises its callers: each call on the store takes  *)
(* effect at one instant between its start and its answer, whatever other  *)
(* callers do; an answer of Ok is given for effects only; and nothing that *)
(* took effect is undone when the process dies.  A call that ends in an    *)
(* error of the backend may have taken effect or not.  Memory is shown to  *)
(* implement this module.                                                  *)
(***************************************************************************)
CONSTANTS
    Caller,
    Table,
    Key,
    Call,         \* [op, table, key, record]
    Record,
    Unreadable,   \* stored bytes that no schema decodes
    Nothing,      \* no record under this key
    Ok,           \* the answer of a write
    NoTable,      \* the answer of a read of a table nobody ever wrote
    Failed,       \* the answer of a call the backend failed
    Undecodable   \* the answer of a read of bytes that do not decode

Writes == {"put", "put_legacy_v1", "save_raw", "remove"}

VARIABLES
    contents,     \* the record under each key of each table
    written,      \* tables that were ever written
    status        \* what each caller is waiting for, or was answered

vars == <<contents, written, status>>

Idle == [phase |-> "idle"]
Asked(call) == [phase |-> "asked", call |-> call]
Answered(answer) == [phase |-> "answered", answer |-> answer]

Init ==
    /\ contents = [t \in Table |-> [k \in Key |-> Nothing]]
    /\ written = {}
    /\ status = [c \in Caller |-> Idle]

\* What a read of these contents answers.
Reply(rows, made, call) ==
    IF call.table \notin made THEN NoTable
    ELSE IF call.op = "ids"
    THEN [ids |-> {k \in Key : rows[call.table][k] # Nothing}]
    ELSE IF rows[call.table][call.key] = Unreadable THEN Undecodable
    ELSE rows[call.table][call.key]

Ask(c) ==
    \E call \in Call :
        /\ status[c] = Idle
        /\ status' = [status EXCEPT ![c] = Asked(call)]
        /\ UNCHANGED <<contents, written>>

Write(c) ==
    \E call \in Call :
        /\ status[c] = Asked(call)
        /\ call.op \in Writes
        /\ contents' = [contents EXCEPT ![call.table][call.key] = call.record]
        /\ written' = written \cup {call.table}
        /\ status' = [status EXCEPT ![c] = Answered(Ok)]

Read(c) ==
    \E call \in Call :
        /\ status[c] = Asked(call)
        /\ call.op \notin Writes
        /\ status' = [status EXCEPT ![c] =
                        Answered(Reply(contents, written, call))]
        /\ UNCHANGED <<contents, written>>

\* The backend fails the call, before it takes effect or after.
Spoil(c) ==
    /\ status[c] # Idle
    /\ status' = [status EXCEPT ![c] = Answered(Failed)]
    /\ UNCHANGED <<contents, written>>

\* Writing and failing to say so, in one.
WriteAndSpoil(c) ==
    \E call \in Call :
        /\ status[c] = Asked(call)
        /\ call.op \in Writes
        /\ contents' = [contents EXCEPT ![call.table][call.key] = call.record]
        /\ written' = written \cup {call.table}
        /\ status' = [status EXCEPT ![c] = Answered(Failed)]

Return(c) ==
    /\ status[c].phase = "answered"
    /\ status' = [status EXCEPT ![c] = Idle]
    /\ UNCHANGED <<contents, written>>

\* The process dies: calls are forgotten, what took effect is not.
Crash ==
    /\ status' = [c \in Caller |-> Idle]
    /\ UNCHANGED <<contents, written>>

Next ==
    \/ Crash
    \/ \E c \in Caller :
        Ask(c) \/ Write(c) \/ Read(c) \/ Spoil(c) \/ WriteAndSpoil(c) \/ Return(c)

Spec == Init /\ [][Next]_vars
=============================================================================
