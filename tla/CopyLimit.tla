----------------------------- MODULE CopyLimit -----------------------------
(***************************************************************************)
(* CopyLimitPolicy of vitalis-replicate: an atomic counter of live copies  *)
(* shared by the threads that hold a reference to it.  authorize_copy is a *)
(* load, a test of what was loaded, and a fetch_add; the steps of other    *)
(* threads may fall between them.  The counter lives in memory only: a     *)
(* restarted process builds a new one, and the copies live on.             *)
(***************************************************************************)
EXTENDS Integers, FiniteSets

CONSTANTS
    Thread,
    MaxCopies,        \* max_copies
    Wrap,             \* usize::MAX + 1
    MaxRestarts       \* bound: times the process is restarted

Word == 0 .. Wrap - 1

ASSUME CopyLimitAssumption ==
    /\ IsFiniteSet(Thread)
    /\ Thread # {}
    /\ MaxCopies \in Nat
    /\ Wrap \in Nat
    /\ MaxCopies + Cardinality(Thread) < Wrap
    /\ MaxRestarts \in Nat

Idle == -1

VARIABLES
    live,      \* the atomic counter
    cur,       \* what a thread past authorize_copy's test loaded, else Idle
    copies,    \* history: copies authorized less copies retired
    restarts   \* history: restarts so far

vars == <<live, cur, copies, restarts>>

Init ==
    /\ live = 0
    /\ cur = [t \in Thread |-> Idle]
    /\ copies = 0
    /\ restarts = 0

\* Seeded fault: the test lets one copy past the cap.
LoadAtCap(t) ==
    /\ cur[t] = Idle
    /\ live <= MaxCopies
    /\ cur' = [cur EXCEPT ![t] = live]
    /\ UNCHANGED <<live, copies, restarts>>

\* authorize_copy up to its test, which passes.
Load(t) ==
    /\ cur[t] = Idle
    /\ live < MaxCopies
    /\ cur' = [cur EXCEPT ![t] = live]
    /\ UNCHANGED <<live, copies, restarts>>

\* authorize_copy returning Err: the cap is reached.
Refuse(t) ==
    /\ cur[t] = Idle
    /\ live >= MaxCopies
    /\ UNCHANGED vars

\* Seeded fault: the counter is set from the value loaded.
IncrementedFromCur(t) == (cur[t] + 1) % Wrap

\* fetch_add(1) on the counter, whatever it has become since the load.
Incremented(t) == (live + 1) % Wrap

\* authorize_copy returning Ok.
Grant(t) ==
    /\ cur[t] # Idle
    /\ live' = Incremented(t)
    /\ cur' = [cur EXCEPT ![t] = Idle]
    /\ copies' = copies + 1
    /\ UNCHANGED restarts

\* retire_copy for a copy that is live: fetch_sub(1), which wraps below zero.
Retire(t) ==
    /\ cur[t] = Idle
    /\ copies > 0
    /\ live' = (live - 1) % Wrap
    /\ copies' = copies - 1
    /\ UNCHANGED <<cur, restarts>>

\* The process dies wherever its threads are, and a new policy is built.
Restart ==
    /\ restarts < MaxRestarts
    /\ restarts' = restarts + 1
    /\ live' = 0
    /\ cur' = [t \in Thread |-> Idle]
    /\ UNCHANGED copies

Next ==
    \/ \E t \in Thread : Load(t) \/ Refuse(t) \/ Grant(t) \/ Retire(t)
    \/ Restart

Spec == Init /\ [][Next]_vars

-----------------------------------------------------------------------------
(* Properties.                                                             *)

Deciding == {t \in Thread : cur[t] # Idle}

\* The counter fits its word; nobody is past the test on a value at the cap.
TypeOK ==
    /\ live \in Word
    /\ cur \in [Thread -> {Idle} \cup 0 .. MaxCopies - 1]
    /\ copies \in Nat
    /\ restarts \in 0 .. MaxRestarts

\* No update of the counter is lost between threads: until the first restart
\* it is exactly the number of copies authorized and not retired.
CountsCopies == restarts = 0 => live = copies

\* However many threads race between the load and the fetch_add, the copies
\* exceed the cap by less than the number of threads.
OvershootBounded ==
    restarts = 0 => copies <= MaxCopies + Cardinality(Thread) - 1

\* Why: every thread past its test may still add one copy.
RoomTaken ==
    restarts = 0 =>
        live + Cardinality(Deciding) <= MaxCopies + Cardinality(Thread) - 1

-----------------------------------------------------------------------------
(* What the documents say and the code does not do.                        *)

\* "a hard cap on the number of concurrent redundant copies".
HardCap == copies <= MaxCopies
=============================================================================
