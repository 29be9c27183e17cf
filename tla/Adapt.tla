------------------------------- MODULE Adapt -------------------------------
(***************************************************************************)
(* AdaptEngine of vitalis-adapt, shared by the threads that propose        *)
(* changes to it.  An attempt is a run of steps, the loads of the kill     *)
(* switch and of the counter, the fetch_add, the caller's hooks and the    *)
(* entry in the log, and the steps of other threads fall between them.     *)
(* What a hook does is one bit, whether the change is in force; a hook     *)
(* that fails leaves it either way.  Of the log the last entry of each     *)
(* change is kept.  Callers may propose, verify or roll back any change at *)
(* any time, an applied one too; only that two threads do not work on one  *)
(* change at once is left to them.                                         *)
(***************************************************************************)
EXTENDS Integers, FiniteSets

CONSTANTS
    Thread,
    Change,
    Permitted,      \* changes whose diff the sandbox's cap admits
    MaxProposals,   \* max_proposals
    None            \* a thread without a change

ASSUME AdaptAssumption ==
    /\ IsFiniteSet(Thread)
    /\ Thread # {}
    /\ Permitted \subseteq Change
    /\ MaxProposals \in Nat
    /\ None \notin Change

VARIABLES
    kill,       \* kill_switch
    proposals,  \* the atomic counter
    audit,      \* applied, in the last entry of each change; FALSE if none
    pc,         \* where in apply or rollback a thread is
    job,        \* the change it works on
    inForce,    \* the hooks' world: changes that have effect
    astray,     \* history: changes whose last entry may not tell, see below
    hooks,      \* history: calls of an apply_fn
    late        \* history: those a thread made after the switch was tripped

world  == <<inForce, astray>>
counts == <<hooks, late>>
vars   == <<kill, proposals, audit, pc, job, world, counts>>

Init ==
    /\ kill = FALSE
    /\ proposals = 0
    /\ audit = [c \in Change |-> FALSE]
    /\ pc = [t \in Thread |-> "idle"]
    /\ job = [t \in Thread |-> None]
    /\ inForce = {} /\ astray = {}
    /\ hooks = 0 /\ late = [t \in Thread |-> 0]

Goto(t, place) == pc' = [pc EXCEPT ![t] = place]

Free(c) == \A t \in Thread : job[t] # c

\* The change a thread takes up.
Take(t, c) ==
    /\ pc[t] = "idle"
    /\ Free(c)
    /\ job' = [job EXCEPT ![t] = c]

\* A hook that fails leaves the change in force or not.
Either(c) == {inForce \cup {c}, inForce \ {c}}

\* A change is astray once a rollback_fn returned Err on it, or it was refused
\* while the log had it as applied, until the next hook on it returns Ok.
Refuse(c) == astray' = IF audit[c] THEN astray \cup {c} ELSE astray

-----------------------------------------------------------------------------
(* verify.                                                                 *)

\* Seeded fault: the kill switch is not looked at.
BeginUnswitched(t, c) ==
    /\ Take(t, c)
    /\ \/ /\ c \in Permitted
          /\ Goto(t, "limit")
          /\ UNCHANGED astray
       \/ /\ c \notin Permitted
          /\ Goto(t, "refused")
          /\ Refuse(c)
    /\ UNCHANGED <<kill, proposals, audit, inForce, counts>>

\* verify up to the sandbox's answer: the kill switch is read here only.
Begin(t, c) ==
    /\ Take(t, c)
    /\ \/ /\ ~kill /\ c \in Permitted
          /\ Goto(t, "limit")
          /\ UNCHANGED astray
       \/ /\ kill \/ c \notin Permitted
          /\ Goto(t, "refused")
          /\ Refuse(c)
    /\ UNCHANGED <<kill, proposals, audit, inForce, counts>>

\* Seeded fault: the limit is overstepped by one.
CheckLimitLoose(t) ==
    /\ pc[t] = "limit"
    /\ proposals <= MaxProposals
    /\ Goto(t, "count")
    /\ UNCHANGED <<kill, proposals, audit, job, world, counts>>

\* The rate limit not reached, by what is loaded now.
CheckLimit(t) ==
    /\ pc[t] = "limit"
    /\ proposals < MaxProposals
    /\ Goto(t, "count")
    /\ UNCHANGED <<kill, proposals, audit, job, world, counts>>

\* The rate limit reached.
OverLimit(t) ==
    /\ pc[t] = "limit"
    /\ proposals >= MaxProposals
    /\ Goto(t, "refused")
    /\ Refuse(job[t])
    /\ UNCHANGED <<kill, proposals, audit, job, inForce, counts>>

\* verify called for its own sake returns Ok(true) and leaves no trace.
Verified(t) ==
    /\ pc[t] = "count"
    /\ job' = [job EXCEPT ![t] = None]
    /\ Goto(t, "idle")
    /\ UNCHANGED <<kill, proposals, audit, world, counts>>

-----------------------------------------------------------------------------
(* The rest of apply, and rollback.                                        *)

\* fetch_add(1).
Count(t) ==
    /\ pc[t] = "count"
    /\ proposals' = proposals + 1
    /\ Goto(t, "hook")
    /\ UNCHANGED <<kill, audit, job, world, counts>>

\* apply_fn returning Ok, or Err with or without effect.
Hook(t) ==
    /\ pc[t] = "hook"
    /\ hooks' = hooks + 1
    /\ late' = IF kill THEN [late EXCEPT ![t] = @ + 1] ELSE late
    /\ \/ /\ inForce' = inForce \cup {job[t]}
          /\ astray' = astray \ {job[t]}
          /\ Goto(t, "applied")
       \/ /\ inForce' \in Either(job[t])
          /\ UNCHANGED astray
          /\ Goto(t, "undo")
    /\ UNCHANGED <<kill, proposals, audit, job>>

\* Seeded fault: a failed apply is logged as rolled back and is not.
UndoSkipped(t) ==
    /\ pc[t] = "undo"
    /\ Goto(t, "refused")
    /\ UNCHANGED <<kill, proposals, audit, job, world, counts>>

\* rollback_fn after a failed apply_fn; that it may fail too is ignored.
Undo(t) ==
    /\ pc[t] = "undo"
    /\ \/ /\ inForce' = inForce \ {job[t]}
          /\ astray' = astray \ {job[t]}
       \/ /\ inForce' \in Either(job[t])
          /\ astray' = astray \cup {job[t]}
    /\ Goto(t, "refused")
    /\ UNCHANGED <<kill, proposals, audit, job, counts>>

\* Seeded fault: a refused attempt gives back a place it may not have taken.
RecordRefunding(t) ==
    /\ pc[t] \in {"applied", "refused"}
    /\ audit' = [audit EXCEPT ![job[t]] = (pc[t] = "applied")]
    /\ proposals' = IF pc[t] = "refused" THEN proposals - 1 ELSE proposals
    /\ job' = [job EXCEPT ![t] = None]
    /\ Goto(t, "idle")
    /\ UNCHANGED <<kill, world, counts>>

\* record, and verify's, apply's or rollback's return.
Record(t) ==
    /\ pc[t] \in {"applied", "refused"}
    /\ audit' = [audit EXCEPT ![job[t]] = (pc[t] = "applied")]
    /\ job' = [job EXCEPT ![t] = None]
    /\ Goto(t, "idle")
    /\ UNCHANGED <<kill, proposals, world, counts>>

\* rollback, to its entry in the log; neither the kill switch nor whether the
\* change was ever applied has a say in it.
Rollback(t, c) ==
    /\ Take(t, c)
    /\ inForce' = inForce \ {c}
    /\ astray' = astray \ {c}
    /\ Goto(t, "refused")
    /\ UNCHANGED <<kill, proposals, audit, counts>>

\* rollback_fn returning Err, with or without effect: nothing is logged.
RollbackFails(t, c) ==
    /\ pc[t] = "idle"
    /\ Free(c)
    /\ inForce' \in Either(c)
    /\ astray' = astray \cup {c}
    /\ UNCHANGED <<kill, proposals, audit, pc, job, counts>>

\* trip_kill_switch, by anyone; nothing resets it.
Trip ==
    /\ kill' = TRUE
    /\ UNCHANGED <<proposals, audit, pc, job, world, counts>>

Attempt(t) ==
    \/ CheckLimit(t) \/ OverLimit(t) \/ Verified(t)
    \/ Count(t) \/ Hook(t) \/ Undo(t) \/ Record(t)

Next ==
    \/ \E t \in Thread :
          \/ Attempt(t)
          \/ \E c \in Change :
                Begin(t, c) \/ Rollback(t, c) \/ RollbackFails(t, c)
    \/ Trip

Spec == Init /\ [][Next]_vars

-----------------------------------------------------------------------------
(* Properties.                                                             *)

\* Types; a thread has a change exactly while it is in the engine, and no two
\* threads have the same.
TypeOK ==
    /\ kill \in BOOLEAN
    /\ {proposals, hooks} \subseteq Nat
    /\ audit \in [Change -> BOOLEAN]
    /\ pc \in [Thread -> {"idle", "limit", "count", "hook", "undo",
                          "applied", "refused"}]
    /\ job \in [Thread -> Change \cup {None}]
    /\ \A t \in Thread : job[t] = None <=> pc[t] = "idle"
    /\ \A t, u \in Thread : t # u /\ job[t] = job[u] => job[t] = None
    /\ {inForce, astray} \subseteq SUBSET Change
    /\ late \in [Thread -> Nat]

\* However many threads race between the load of the counter and its fetch_add,
\* the hooks run in the engine's life exceed max_proposals by less than the
\* number of threads.
OvershootBounded == hooks <= MaxProposals + Cardinality(Thread) - 1

\* A thread that is past the kill switch when it is tripped still runs its hook,
\* and no thread runs more than that one after it.
LateBounded == \A t \in Thread : late[t] <= 1

\* While no thread is at work on a change, its last entry tells whether it is in
\* force, however often it was proposed, refused, undone and rolled back, unless
\* a rollback_fn returned Err on it (ignored when it follows a failed apply, not
\* logged when it was asked for) or it was refused while applied, and no hook
\* has returned Ok since.
AuditMatches ==
    \A c \in Change \ astray :
        Free(c) => (audit[c] <=> c \in inForce)
=============================================================================
