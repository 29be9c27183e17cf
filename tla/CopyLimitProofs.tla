-------------------------- MODULE CopyLimitProofs --------------------------
(***************************************************************************)
(* For every number of threads and every cap: the counter never loses an   *)
(* update, and the copies exceed the cap by less than the number of        *)
(* threads, so that a sole caller never exceeds it.                        *)
(***************************************************************************)
EXTENDS CopyLimit, FiniteSetTheorems, TLAPS

\* The inductive invariant: the counter is the copies, and every thread past
\* its test has room set aside for the copy it may still add.
IInv == TypeOK /\ CountsCopies /\ RoomTaken

\* There is at least one thread, and the threads can be counted.
LEMMA ThreadCount == Cardinality(Thread) \in Nat \ {0}
BY FS_CardinalityType, FS_EmptySet, CopyLimitAssumption

\* The deciding threads are threads, so they can be counted too.
LEMMA DecidingCount ==
    /\ IsFiniteSet(Deciding)
    /\ Cardinality(Deciding) \in Nat
    /\ Cardinality(Deciding) <= Cardinality(Thread)
<1>1. Deciding \subseteq Thread
    BY DEF Deciding
<1> QED
    BY <1>1, FS_Subset, FS_CardinalityType, CopyLimitAssumption

\* The policy starts empty.
LEMMA InitEstablishes == Init => IInv
<1> SUFFICES ASSUME Init PROVE IInv
    OBVIOUS
<1>1. TypeOK
    BY CopyLimitAssumption, ThreadCount DEF Init, TypeOK, Word, Idle
<1>2. CountsCopies
    BY DEF Init, CountsCopies
<1>3. Deciding = {}
    BY DEF Init, Deciding
<1>4. RoomTaken
    BY <1>3, FS_EmptySet, ThreadCount, CopyLimitAssumption DEF Init, RoomTaken
<1> QED
    BY <1>1, <1>2, <1>4 DEF IInv

\* A load below the cap takes a place that was free.
LEMMA LoadPreserves ==
    ASSUME IInv, NEW t \in Thread, Load(t) PROVE IInv'
<1> USE DEF Load, Idle
<1>1. TypeOK'
    BY CopyLimitAssumption DEF IInv, TypeOK, Word
<1>2. CountsCopies'
    BY DEF IInv, CountsCopies
<1>3. Deciding' = Deciding \cup {t} /\ t \notin Deciding
    BY DEF IInv, TypeOK, Deciding, Word
<1>4. Cardinality(Deciding)' <= Cardinality(Thread)
    <2>1. Deciding' \subseteq Thread
        BY DEF Deciding
    <2> QED
        BY <2>1, FS_Subset, CopyLimitAssumption
<1>5. Cardinality(Deciding)' = Cardinality(Deciding) + 1
    BY <1>3, DecidingCount, FS_AddElement
<1>6. RoomTaken'
    BY <1>4, <1>5, DecidingCount, ThreadCount, CopyLimitAssumption
        DEF IInv, TypeOK, RoomTaken, Word
<1> QED
    BY <1>1, <1>2, <1>6 DEF IInv

\* A grant turns a place set aside into a copy; the counter does not wrap
\* before a restart, because the places all lie below it.
LEMMA GrantPreserves ==
    ASSUME IInv, NEW t \in Thread, Grant(t) PROVE IInv'
<1> USE DEF Grant, Incremented, Idle
<1>1. TypeOK'
    BY CopyLimitAssumption DEF IInv, TypeOK, Word
<1>2. Deciding' = Deciding \ {t} /\ t \in Deciding
    BY DEF IInv, TypeOK, Deciding
<1>3. Cardinality(Deciding)' = Cardinality(Deciding) - 1
    BY <1>2, DecidingCount, FS_RemoveElement
<1>4. Cardinality(Deciding) >= 1
    BY <1>2, DecidingCount, FS_EmptySet
<1>5. restarts = 0 => live' = live + 1
    <2> SUFFICES ASSUME restarts = 0 PROVE live' = live + 1
        OBVIOUS
    <2>1. live + 1 < Wrap /\ live \in Nat
        BY <1>4, DecidingCount, ThreadCount, CopyLimitAssumption
            DEF IInv, TypeOK, RoomTaken, Word
    <2> QED
        BY <2>1, CopyLimitAssumption
<1>6. CountsCopies'
    BY <1>5 DEF IInv, CountsCopies
<1>7. RoomTaken'
    BY <1>3, <1>5, DecidingCount, ThreadCount, CopyLimitAssumption
        DEF IInv, TypeOK, RoomTaken, Word
<1> QED
    BY <1>1, <1>6, <1>7 DEF IInv

\* A retirement gives a place back; before a restart there is one to give.
LEMMA RetirePreserves ==
    ASSUME IInv, NEW t \in Thread, Retire(t) PROVE IInv'
<1> USE DEF Retire
<1>1. TypeOK'
    BY CopyLimitAssumption DEF IInv, TypeOK, Word
<1>2. Deciding' = Deciding
    BY DEF Deciding
<1>3. restarts = 0 => live' = live - 1
    <2> SUFFICES ASSUME restarts = 0 PROVE live' = live - 1
        OBVIOUS
    <2>1. live \in Nat /\ live >= 1 /\ live < Wrap
        BY CopyLimitAssumption DEF IInv, TypeOK, CountsCopies, Word
    <2> QED
        BY <2>1, CopyLimitAssumption
<1>4. CountsCopies'
    BY <1>3 DEF IInv, CountsCopies
<1>5. RoomTaken'
    BY <1>2, <1>3, DecidingCount, ThreadCount, CopyLimitAssumption
        DEF IInv, TypeOK, RoomTaken, Word
<1> QED
    BY <1>1, <1>4, <1>5 DEF IInv

\* A restart voids the claims about the count.
LEMMA RestartPreserves ==
    ASSUME IInv, Restart PROVE IInv'
<1>1. TypeOK'
    BY CopyLimitAssumption, ThreadCount DEF IInv, TypeOK, Restart, Word, Idle
<1>2. restarts' # 0
    BY CopyLimitAssumption DEF IInv, TypeOK, Restart
<1> QED
    BY <1>1, <1>2 DEF IInv, CountsCopies, RoomTaken

\* No step of any thread breaks the invariant.
LEMMA StepPreserves == IInv /\ [Next]_vars => IInv'
<1> SUFFICES ASSUME IInv, [Next]_vars PROVE IInv'
    OBVIOUS
<1>1. ASSUME NEW t \in Thread, Load(t) PROVE IInv'
    BY <1>1, LoadPreserves
<1>2. ASSUME NEW t \in Thread, Grant(t) PROVE IInv'
    BY <1>2, GrantPreserves
<1>3. ASSUME NEW t \in Thread, Retire(t) PROVE IInv'
    BY <1>3, RetirePreserves
<1>4. CASE Restart
    BY <1>4, RestartPreserves
<1>5. CASE UNCHANGED vars
    BY <1>5 DEF IInv, TypeOK, CountsCopies, RoomTaken, Deciding, vars
<1>6. ASSUME NEW t \in Thread, Refuse(t) PROVE IInv'
    BY <1>5, <1>6 DEF Refuse
<1> QED
    BY <1>1, <1>2, <1>3, <1>4, <1>5, <1>6 DEF Next

\* The invariant holds throughout.
LEMMA Invariant == Spec => []IInv
BY InitEstablishes, StepPreserves, PTL DEF Spec

\* Types: no thread ever decides on a counter that had reached the cap.
THEOREM CounterTyped == Spec => []TypeOK
<1>1. IInv => TypeOK
    BY DEF IInv
<1> QED
    BY <1>1, Invariant, PTL

\* Before any restart the counter and the copies never part, whatever the
\* interleaving of the threads.
THEOREM NoLostUpdate == Spec => []CountsCopies
<1>1. IInv => CountsCopies
    BY DEF IInv
<1> QED
    BY <1>1, Invariant, PTL

\* The cap is exceeded by less than the number of racing threads.
THEOREM BoundedOvershoot == Spec => []OvershootBounded
<1>1. IInv => OvershootBounded
    BY DecidingCount, ThreadCount, CopyLimitAssumption
        DEF IInv, TypeOK, CountsCopies, RoomTaken, OvershootBounded, Word
<1> QED
    BY <1>1, Invariant, PTL

\* With one caller and no restart the cap is hard, as the documents have it.
THEOREM SoleCallerCapped ==
    Cardinality(Thread) = 1 /\ MaxRestarts = 0 => (Spec => []HardCap)
<1> SUFFICES ASSUME Cardinality(Thread) = 1, MaxRestarts = 0
             PROVE  Spec => []HardCap
    OBVIOUS
<1>1. IInv => HardCap
    BY DecidingCount, CopyLimitAssumption
        DEF IInv, TypeOK, CountsCopies, RoomTaken, HardCap, Word
<1> QED
    BY <1>1, Invariant, PTL
=============================================================================
