---------------------------- MODULE AdaptProofs ----------------------------
(***************************************************************************)
(* For every number of threads and changes and every limit: attempts       *)
(* exceed the rate limit by less than the number of threads, each thread   *)
(* runs at most one hook after the kill switch is tripped, and the log     *)
(* tells what is in force of every change that has not gone astray.        *)
(***************************************************************************)
EXTENDS Adapt, FiniteSetTheorems, TLAPS

\* The threads past the limit's test, and of those the ones that are counted
\* and about to run their hook.
Counting == {t \in Thread : pc[t] = "count"}
Hooking  == {t \in Thread : pc[t] = "hook"}

\* Each attempt is counted before its hook, and past the limit's test there is
\* room for all that passed it.
RateKept ==
    /\ proposals = hooks + Cardinality(Hooking)
    /\ proposals + Cardinality(Counting) <= MaxProposals + Cardinality(Thread) - 1

\* A thread that was late once is past the hook it was late with, and only a
\* thread that saw the switch untripped comes to another.
LateKept ==
    \A t \in Thread :
        /\ late[t] \in {0, 1}
        /\ late[t] = 1 => kill /\ pc[t] \notin {"limit", "count", "hook"}

\* The log tells of a change before anything was done to it, too; what its
\* thread is about to log is so.
Booked ==
    /\ AuditMatches
    /\ \A t \in Thread : job[t] \notin astray =>
          /\ pc[t] \in {"limit", "count"} => (audit[job[t]] <=> job[t] \in inForce)
          /\ pc[t] = "refused" => job[t] \notin inForce
          /\ pc[t] = "applied" => job[t] \in inForce

IInv == TypeOK /\ RateKept /\ LateKept /\ Booked

-----------------------------------------------------------------------------
(* Counting threads.                                                       *)

\* There is at least one thread, and the threads can be counted.
LEMMA ThreadCount == Cardinality(Thread) \in Nat \ {0}
BY FS_CardinalityType, FS_EmptySet, AdaptAssumption

\* So can any threads.
LEMMA SomeCount ==
    ASSUME NEW S \in SUBSET Thread
    PROVE  /\ IsFiniteSet(S)
           /\ Cardinality(S) \in Nat
           /\ Cardinality(S) <= Cardinality(Thread)
BY FS_Subset, FS_CardinalityType, AdaptAssumption

\* One more thread, and one less.
LEMMA OneMore ==
    ASSUME NEW S \in SUBSET Thread, NEW t \in Thread, t \notin S
    PROVE  /\ Cardinality(S \cup {t}) = Cardinality(S) + 1
           /\ Cardinality(S) + 1 <= Cardinality(Thread)
<1>1. S \cup {t} \in SUBSET Thread
    OBVIOUS
<1>2. Cardinality(S \cup {t}) = Cardinality(S) + 1
    BY SomeCount, FS_AddElement
<1> QED
    BY <1>1, <1>2, SomeCount

\* Taking a thread out of a set of threads leaves one fewer.
LEMMA OneLess ==
    ASSUME NEW S \in SUBSET Thread, NEW t \in S
    PROVE  Cardinality(S \ {t}) = Cardinality(S) - 1 /\ Cardinality(S) >= 1
<1>1. Cardinality(S \ {t}) = Cardinality(S) - 1
    BY SomeCount, FS_RemoveElement
<1>2. S \ {t} \in SUBSET Thread
    OBVIOUS
<1> QED
    BY <1>1, <1>2, SomeCount

\* What is counted is threads, in this state and the next.
LEMMA Counted == Counting \in SUBSET Thread /\ Hooking \in SUBSET Thread
BY DEF Counting, Hooking

-----------------------------------------------------------------------------
(* Every step keeps the invariant.                                         *)

\* The engine starts with nobody in it.
LEMMA InitEstablishes == Init => IInv
<1> SUFFICES ASSUME Init PROVE IInv
    OBVIOUS
<1>1. TypeOK
    <2>1. job \in [Thread -> Change \cup {None}] /\ \A t \in Thread : job[t] = None
        BY DEF Init
    <2>2. /\ pc \in [Thread -> {"idle", "limit", "count", "hook", "undo",
                                "applied", "refused"}]
          /\ \A t \in Thread : pc[t] = "idle"
        BY DEF Init
    <2>3. audit \in [Change -> BOOLEAN] /\ kill \in BOOLEAN
        BY DEF Init
    <2>4. /\ {proposals, hooks} \subseteq Nat /\ late \in [Thread -> Nat]
          /\ {inForce, astray} \subseteq SUBSET Change
        BY DEF Init
    <2> QED
        BY <2>1, <2>2, <2>3, <2>4 DEF TypeOK
<1>2. RateKept
    <2>1. Hooking = {} /\ Counting = {}
        BY DEF Init, Hooking, Counting
    <2>2. Cardinality(Hooking) = 0 /\ Cardinality(Counting) = 0
        BY <2>1, FS_EmptySet
    <2> QED
        BY <2>2, ThreadCount, AdaptAssumption DEF Init, RateKept
<1>3. LateKept
    BY DEF Init, LateKept
<1>4. Booked
    BY DEF Init, Booked, AuditMatches, Free
<1> QED
    BY <1>1, <1>2, <1>3, <1>4 DEF IInv

\* A step of a thread outside the counted places, to another, changes no count.
LEMMA CountsKept ==
    ASSUME TypeOK, RateKept, LateKept, NEW t \in Thread,
           pc[t] \in {"idle", "undo", "applied", "refused"},
           NEW q \in {"idle", "undo", "applied", "refused"}, Goto(t, q),
           UNCHANGED <<kill, proposals, counts>>
    PROVE  RateKept' /\ LateKept'
<1>1. Hooking' = Hooking /\ Counting' = Counting
    BY DEF TypeOK, Goto, Hooking, Counting
<1> QED
    BY <1>1 DEF TypeOK, Goto, RateKept, LateKept, counts

\* Begin admits nobody once the switch is tripped.
LEMMA BeginPreserves ==
    ASSUME IInv, NEW t \in Thread, NEW c \in Change, Begin(t, c) PROVE IInv'
<1> USE DEF Begin, Take, Refuse, Goto, counts
<1>1. TypeOK'
    BY AdaptAssumption DEF IInv, TypeOK, Free
<1>2. RateKept'
    <2>1. Hooking' = Hooking /\ Counting' = Counting
        BY DEF IInv, TypeOK, Hooking, Counting
    <2> QED
        BY <2>1 DEF IInv, RateKept
<1>3. LateKept'
    BY DEF IInv, TypeOK, LateKept
<1>4. Booked'
    BY AdaptAssumption DEF IInv, Booked, AuditMatches, TypeOK, Free
<1> QED
    BY <1>1, <1>2, <1>3, <1>4 DEF IInv

\* Whoever passes the limit's test takes a place that was free.
LEMMA CheckLimitPreserves ==
    ASSUME IInv, NEW t \in Thread, CheckLimit(t) PROVE IInv'
<1> USE DEF CheckLimit, Goto, world, counts
<1>1. TypeOK'
    BY DEF IInv, TypeOK
<1>2. RateKept'
    <2>1. Hooking' = Hooking
        BY DEF IInv, TypeOK, Hooking
    <2>2. Counting' = Counting \cup {t} /\ t \notin Counting
        BY DEF IInv, TypeOK, Counting
    <2> QED
        BY <2>1, <2>2, Counted, OneMore, SomeCount, ThreadCount, AdaptAssumption
            DEF IInv, TypeOK, RateKept
<1>3. LateKept'
    BY DEF IInv, TypeOK, LateKept
<1>4. Booked'
    BY DEF IInv, Booked, AuditMatches, TypeOK, Free
<1> QED
    BY <1>1, <1>2, <1>3, <1>4 DEF IInv

\* Whoever does not is refused, and counts nowhere.
LEMMA OverLimitPreserves ==
    ASSUME IInv, NEW t \in Thread, OverLimit(t) PROVE IInv'
<1> USE DEF OverLimit, Refuse, Goto, counts
<1>0. job[t] \in Change
    BY DEF IInv, TypeOK
<1>1. TypeOK'
    BY <1>0 DEF IInv, TypeOK
<1>2. RateKept'
    <2>1. Hooking' = Hooking /\ Counting' = Counting
        BY DEF IInv, TypeOK, Hooking, Counting
    <2> QED
        BY <2>1 DEF IInv, RateKept
<1>3. LateKept'
    BY DEF IInv, TypeOK, LateKept
<1>4. Booked'
    BY <1>0 DEF IInv, Booked, AuditMatches, TypeOK, Free
<1> QED
    BY <1>1, <1>2, <1>3, <1>4 DEF IInv

\* A verification that nothing follows gives up its place.
LEMMA VerifiedPreserves ==
    ASSUME IInv, NEW t \in Thread, Verified(t) PROVE IInv'
<1> USE DEF Verified, Goto, world, counts
<1>0. job[t] \in Change
    BY DEF IInv, TypeOK
<1>1. TypeOK'
    BY DEF IInv, TypeOK
<1>2. RateKept'
    <2>1. Hooking' = Hooking
        BY DEF IInv, TypeOK, Hooking
    <2>2. Counting' = Counting \ {t} /\ t \in Counting
        BY DEF IInv, TypeOK, Counting
    <2>3. Cardinality(Counting') = Cardinality(Counting) - 1
        BY <2>2, Counted, OneLess
    <2> QED
        BY <2>1, <2>3, Counted, SomeCount, ThreadCount, AdaptAssumption
            DEF IInv, TypeOK, RateKept
<1>3. LateKept'
    BY DEF IInv, TypeOK, LateKept
<1>4. Booked'
    BY <1>0 DEF IInv, Booked, AuditMatches, TypeOK, Free
<1> QED
    BY <1>1, <1>2, <1>3, <1>4 DEF IInv

\* fetch_add turns a thread that counts into one that runs its hook.
LEMMA CountPreserves ==
    ASSUME IInv, NEW t \in Thread, Count(t) PROVE IInv'
<1> USE DEF Count, Goto, world, counts
<1>1. TypeOK'
    BY DEF IInv, TypeOK
<1>2. RateKept'
    <2>1. Counting' = Counting \ {t} /\ t \in Counting
        BY DEF IInv, TypeOK, Counting
    <2>2. Hooking' = Hooking \cup {t} /\ t \notin Hooking
        BY DEF IInv, TypeOK, Hooking
    <2>3. /\ Cardinality(Counting') = Cardinality(Counting) - 1
          /\ Cardinality(Hooking') = Cardinality(Hooking) + 1
        BY <2>1, <2>2, Counted, OneLess, OneMore
    <2> QED
        BY <2>3, Counted, SomeCount, ThreadCount, AdaptAssumption
            DEF IInv, TypeOK, RateKept
<1>3. LateKept'
    BY DEF IInv, TypeOK, LateKept
<1>4. Booked'
    BY DEF IInv, Booked, AuditMatches, TypeOK, Free
<1> QED
    BY <1>1, <1>2, <1>3, <1>4 DEF IInv

\* A hook that runs late leaves its thread nothing more to be late with.
LEMMA HookPreserves ==
    ASSUME IInv, NEW t \in Thread, Hook(t) PROVE IInv'
<1> USE DEF Hook, Either, Goto
<1>1. job[t] \in Change /\ \A u \in Thread \ {t} : job[u] # job[t]
    BY AdaptAssumption DEF IInv, TypeOK
<1>2. TypeOK'
    BY <1>1 DEF IInv, TypeOK
<1>3. RateKept'
    <2>1. Counting' = Counting
        BY DEF IInv, TypeOK, Counting
    <2>2. Hooking' = Hooking \ {t} /\ t \in Hooking
        BY DEF IInv, TypeOK, Hooking
    <2>3. Cardinality(Hooking') = Cardinality(Hooking) - 1
        BY <2>2, Counted, OneLess
    <2> QED
        BY <2>1, <2>3, Counted, SomeCount DEF IInv, TypeOK, RateKept
<1>4. LateKept'
    BY DEF IInv, TypeOK, LateKept
<1>5. Booked'
    BY <1>1 DEF IInv, Booked, AuditMatches, TypeOK, Free
<1> QED
    BY <1>2, <1>3, <1>4, <1>5 DEF IInv

\* An undo takes the change out of force, or sends it astray.
LEMMA UndoPreserves ==
    ASSUME IInv, NEW t \in Thread, Undo(t) PROVE IInv'
<1> USE DEF Undo, Either
<1>1. job[t] \in Change /\ \A u \in Thread \ {t} : job[u] # job[t]
    BY AdaptAssumption DEF IInv, TypeOK
<1>2. TypeOK'
    BY <1>1 DEF IInv, TypeOK, Goto, counts
<1>3. RateKept' /\ LateKept'
    BY CountsKept DEF IInv
<1>4. Booked'
    BY <1>1 DEF IInv, Booked, AuditMatches, TypeOK, Free, Goto
<1> QED
    BY <1>2, <1>3, <1>4 DEF IInv

\* An entry says what its thread did to the change it lets go.
LEMMA RecordPreserves ==
    ASSUME IInv, NEW t \in Thread, Record(t) PROVE IInv'
<1> USE DEF Record, world
<1>1. job[t] \in Change /\ \A u \in Thread \ {t} : job[u] # job[t]
    BY AdaptAssumption DEF IInv, TypeOK
<1>2. TypeOK'
    BY <1>1, AdaptAssumption DEF IInv, TypeOK, Goto, counts
<1>3. RateKept' /\ LateKept'
    BY CountsKept DEF IInv
<1>4. Booked'
    <2>1. /\ audit' = [audit EXCEPT ![job[t]] = (pc[t] = "applied")]
          /\ job' = [job EXCEPT ![t] = None] /\ pc' = [pc EXCEPT ![t] = "idle"]
          /\ UNCHANGED <<inForce, astray>>
          /\ audit \in [Change -> BOOLEAN] /\ pc[t] \in {"applied", "refused"}
        BY DEF Goto, IInv, TypeOK
    <2>2. ASSUME NEW c \in Change \ astray, Free(c)' PROVE audit'[c] <=> c \in inForce
        <3>1. CASE c = job[t]
            <4>1. audit'[c] <=> pc[t] = "applied"
                BY <2>1, <3>1, Zenon
            <4> QED
                BY <2>1, <3>1, <4>1 DEF IInv, Booked
        <3>2. CASE c # job[t]
            <4>1. Free(c)
                BY <2>1, <2>2, <3>2 DEF Free, IInv, TypeOK
            <4>2. audit'[c] = audit[c]
                BY <2>1, <3>2
            <4> QED
                BY <4>1, <4>2 DEF IInv, Booked, AuditMatches
        <3> QED
            BY <3>1, <3>2
    <2>3. ASSUME NEW u \in Thread, pc'[u] # "idle"
          PROVE  u # t /\ pc'[u] = pc[u] /\ job'[u] = job[u] /\ audit'[job[u]] = audit[job[u]]
        <3>1. u # t
            BY <2>1, <2>3 DEF IInv, TypeOK
        <3>2. job[u] # job[t]
            BY <1>1, <3>1
        <3>3. pc'[u] = pc[u] /\ job'[u] = job[u]
            BY <2>1, <3>1 DEF IInv, TypeOK
        <3>4. job[u] \in Change
            BY <2>3, <3>3 DEF IInv, TypeOK
        <3>5. audit'[job[u]] = audit[job[u]]
            BY <2>1, <3>2, <3>4
        <3> QED
            BY <3>1, <3>3, <3>5
    <2>4. AuditMatches'
        BY <2>1, <2>2 DEF AuditMatches
    <2> QED
        BY <2>1, <2>3, <2>4 DEF IInv, Booked
<1> QED
    BY <1>2, <1>3, <1>4 DEF IInv

\* A rollback on demand takes the change out of force before it is logged.
LEMMA RollbackPreserves ==
    ASSUME IInv, NEW t \in Thread, NEW c \in Change, Rollback(t, c) PROVE IInv'
<1> USE DEF Rollback, Take
<1>1. TypeOK'
    BY AdaptAssumption DEF IInv, TypeOK, Free, Goto, counts
<1>2. RateKept' /\ LateKept'
    BY CountsKept DEF IInv
<1>3. Booked'
    BY AdaptAssumption DEF IInv, Booked, AuditMatches, TypeOK, Free, Goto
<1> QED
    BY <1>1, <1>2, <1>3 DEF IInv

\* One that fails sends a change astray that nobody works on.
LEMMA RollbackFailsPreserves ==
    ASSUME IInv, NEW t \in Thread, NEW c \in Change, RollbackFails(t, c) PROVE IInv'
<1> USE DEF RollbackFails, Either, counts
<1>1. TypeOK'
    BY DEF IInv, TypeOK
<1>2. RateKept' /\ LateKept'
    BY DEF IInv, RateKept, LateKept, Hooking, Counting
<1>3. Booked'
    BY DEF IInv, Booked, AuditMatches, TypeOK, Free
<1> QED
    BY <1>1, <1>2, <1>3 DEF IInv

\* The trip makes nobody late who was not past the switch.
LEMMA TripPreserves ==
    ASSUME IInv, Trip PROVE IInv'
BY DEF Trip, world, counts, IInv, TypeOK, RateKept, LateKept, Booked, AuditMatches,
    Free, Hooking, Counting

\* No step breaks the invariant.
LEMMA StepPreserves == IInv /\ [Next]_vars => IInv'
<1> SUFFICES ASSUME IInv, [Next]_vars PROVE IInv'
    OBVIOUS
<1>1. ASSUME NEW t \in Thread, Attempt(t) PROVE IInv'
    BY <1>1, CheckLimitPreserves, OverLimitPreserves, VerifiedPreserves, CountPreserves,
        HookPreserves, UndoPreserves, RecordPreserves DEF Attempt
<1>2. ASSUME NEW t \in Thread, NEW c \in Change, Begin(t, c) PROVE IInv'
    BY <1>2, BeginPreserves
<1>3. ASSUME NEW t \in Thread, NEW c \in Change, Rollback(t, c) PROVE IInv'
    BY <1>3, RollbackPreserves
<1>4. ASSUME NEW t \in Thread, NEW c \in Change, RollbackFails(t, c) PROVE IInv'
    BY <1>4, RollbackFailsPreserves
<1>5. CASE Trip
    BY <1>5, TripPreserves
<1>6. CASE UNCHANGED vars
    BY <1>6 DEF IInv, TypeOK, RateKept, LateKept, Booked, AuditMatches, Free, Hooking,
        Counting, vars, world, counts
<1> QED
    BY <1>1, <1>2, <1>3, <1>4, <1>5, <1>6 DEF Next

\* The invariant holds throughout.
LEMMA Invariant == Spec => []IInv
BY InitEstablishes, StepPreserves, PTL DEF Spec

-----------------------------------------------------------------------------
(* What follows.                                                           *)

\* Types, and that no two threads are in the engine with one change.
THEOREM EngineTyped == Spec => []TypeOK
<1>1. IInv => TypeOK
    BY DEF IInv
<1> QED
    BY <1>1, Invariant, PTL

\* The rate limit of verify is exceeded by less than the number of threads.
THEOREM RateLimited == Spec => []OvershootBounded
<1>1. IInv => OvershootBounded
    BY Counted, SomeCount, ThreadCount, AdaptAssumption
        DEF IInv, TypeOK, RateKept, OvershootBounded
<1> QED
    BY <1>1, Invariant, PTL

\* After trip_kill_switch each thread runs at most the hook it was on its way to.
THEOREM KillTakesHold == Spec => []LateBounded
<1>1. IInv => LateBounded
    BY DEF IInv, LateKept, LateBounded
<1> QED
    BY <1>1, Invariant, PTL

\* The log of record tells what is in force, of every change on which no
\* rollback_fn failed and that was not refused while applied since a hook on it
\* last succeeded; it may be proposed, applied and rolled back at will.
THEOREM LogTells == Spec => []AuditMatches
<1>1. IInv => AuditMatches
    BY DEF IInv, Booked
<1> QED
    BY <1>1, Invariant, PTL
=============================================================================
