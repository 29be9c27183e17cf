---------------------------- MODULE DriveProofs ----------------------------
(***************************************************************************)
(* Proofs about Drive, for every capacity, cost and profile, any number of *)
(* runs and lives, with sensing and storage failing and the process dying  *)
(* at any step: an agent that ran out of energy left a checkpoint, the     *)
(* flag that stops replication is set only when everything is stored,      *)
(* there is one replication at most, less energy never throttles up, and   *)
(* every step leaves a run fewer steps to take.  Of the reflector, for     *)
(* every window and horizon: no prediction is dropped, each is judged at   *)
(* the first chance, the energy of a steady drain is foreseen within the   *)
(* band, and no more alarms are missed than must be.                       *)
(***************************************************************************)
EXTENDS Drive, TallyProofs, SequenceTheorems

\* Within replicate nothing has been replicated yet, and each put is where the
\* next one finds it.
Replicating ==
    /\ pc \in {"capture", "store", "shards", "authorize"} => ~replicated
    /\ pc \in {"store", "shards", "authorize"} => captured # None
    /\ pc \in {"shards", "authorize"} => checkpoint # None
    /\ pc = "authorize" => sharded
    /\ ~replicated => live = 0 /\ replications = 0

\* Past replication, a cycle whose spend leaves nothing has replicated.
Foreseen == pc \in {"reflect", "act"} /\ energy <= Cost => replicated

IInv ==
    /\ LoopTypeOK
    /\ Replicating
    /\ Foreseen
    /\ ReplicatedMeansStored
    /\ ExhaustedHasCheckpoint
    /\ OneReplication

-----------------------------------------------------------------------------
(* The throttle.                                                           *)

\* A quotient of at most k times its divisor is at most k.
LEMMA Quotient ==
    ASSUME NEW a \in Nat, NEW b \in Nat \ {0}, NEW k \in Nat, a <= k * b
    PROVE  a \div b \in 0 .. k
BY Z3

\* Squares grow with what is squared.
LEMMA Product ==
    ASSUME NEW r \in Nat, NEW q \in Nat, r <= q
    PROVE  r * r <= q * q /\ r * r \in Nat /\ q * q \in Nat
BY Z3

\* Both curves stay within the scale.
LEMMA ThrottleType ==
    ASSUME NEW e \in 0 .. Capacity
    PROVE  ThrottleFor(e) \in 0 .. 1000
<1> DEFINE rise == Percent(e, ThrottleFloor)
           span == (ThrottleStart - ThrottleFloor) * Capacity
<1>1. /\ Capacity \in Nat \ {0} /\ ThrottleStart \in Nat /\ ThrottleFloor \in Nat
      /\ ThrottleFloor < ThrottleStart
  BY DriveAssumption
<1>2. ThrottleStart * Capacity \in Nat /\ ThrottleFloor * Capacity \in Nat
  BY <1>1
<1>3. span = ThrottleStart * Capacity - ThrottleFloor * Capacity
  BY <1>1, Z3
<1>4. span \in Nat \ {0}
  <2>1. (ThrottleStart - ThrottleFloor) \in Nat \ {0}
    BY <1>1
  <2> QED
    BY <2>1, <1>1, Z3
<1>5. /\ rise = e * 100 - ThrottleFloor * Capacity
      /\ Percent(e, ThrottleStart) = e * 100 - ThrottleStart * Capacity
  BY DEF Percent
<1>6. CASE Percent(e, ThrottleStart) >= 0 \/ rise <= 0
  BY <1>6 DEF ThrottleFor
<1>7. CASE Percent(e, ThrottleStart) < 0 /\ rise > 0
  <2>1. rise \in Nat /\ rise <= span
    BY <1>1, <1>2, <1>3, <1>5, <1>7
  <2> HIDE DEF rise, span
  <2>2. rise * rise <= span * span /\ rise * rise \in Nat /\ span * span \in Nat \ {0}
    <3>1. rise * rise <= span * span /\ rise * rise \in Nat /\ span * span \in Nat
      BY <2>1, <1>4, Product
    <3>2. span * span # 0
      BY <1>4, Z3
    <3> QED
      BY <3>1, <3>2
  <2>3. 1000 * rise * rise = 1000 * (rise * rise)
    BY <2>1, Z3
  <2>4. (1000 * rise * rise) \div (span * span) \in 0 .. 1000
    <3> DEFINE r == rise * rise
               s == span * span
    <3>1. r \in Nat /\ s \in Nat \ {0} /\ r <= s
      BY <2>2
    <3>2. 1000 * rise * rise = 1000 * r
      BY <2>3
    <3> HIDE DEF r, s
    <3>3. 1000 * r \in Nat /\ 1000 * r <= 1000 * s
      BY <3>1
    <3>4. (1000 * r) \div s \in 0 .. 1000
      BY <3>1, <3>3, Quotient
    <3> QED
      BY <3>2, <3>4 DEF s
  <2>5. (1000 * rise) \div span \in 0 .. 1000
    BY <2>1, <1>4, Quotient
  <2>6. ThrottleFor(e) = IF Aggressive THEN (1000 * rise * rise) \div (span * span)
                                       ELSE (1000 * rise) \div span
    BY <1>7, <1>1, <1>2, <1>5 DEF ThrottleFor, rise, span
  <2> QED
    BY <2>4, <2>5, <2>6
<1> QED
  BY <1>1, <1>2, <1>5, <1>6, <1>7

\* Where the profile scales the throttle, its level is a quotient by the span.
LEMMA ThrottleRises ==
    ASSUME NEW e \in 0 .. Capacity, Percent(e, ThrottleFloor) > 0,
           Percent(e, ThrottleStart) < 0
    PROVE  LET rise == Percent(e, ThrottleFloor)
               span == (ThrottleStart - ThrottleFloor) * Capacity
           IN  /\ rise \in Nat /\ span \in Nat \ {0}
               /\ ThrottleFor(e) = IF Aggressive
                                   THEN (1000 * (rise * rise)) \div (span * span)
                                   ELSE (1000 * rise) \div span
<1> DEFINE rise == Percent(e, ThrottleFloor)
           span == (ThrottleStart - ThrottleFloor) * Capacity
<1>1. /\ Capacity \in Nat \ {0} /\ ThrottleStart \in Nat /\ ThrottleFloor \in Nat
      /\ ThrottleFloor < ThrottleStart
  BY DriveAssumption
<1>2. ThrottleStart * Capacity \in Nat /\ ThrottleFloor * Capacity \in Nat
  BY <1>1
<1>3. span \in Nat \ {0}
  <2>1. (ThrottleStart - ThrottleFloor) \in Nat \ {0}
    BY <1>1
  <2> QED
    BY <2>1, <1>1, Z3
<1>4. /\ rise = e * 100 - ThrottleFloor * Capacity
      /\ Percent(e, ThrottleStart) = e * 100 - ThrottleStart * Capacity
  BY DEF Percent
<1>5. rise \in Nat /\ rise > 0
  BY <1>1, <1>2, <1>4
<1>6. ~(Percent(e, ThrottleStart) >= 0) /\ ~(rise <= 0)
  BY <1>1, <1>2, <1>4, <1>5
<1>7. ThrottleFor(e) = IF Aggressive THEN (1000 * rise * rise) \div (span * span)
                                     ELSE (1000 * rise) \div span
  BY <1>6 DEF ThrottleFor, rise, span
<1> HIDE DEF rise, span
<1>8. 1000 * rise * rise = 1000 * (rise * rise)
  BY <1>5, Z3
<1>9. ThrottleFor(e) = IF Aggressive THEN (1000 * (rise * rise)) \div (span * span)
                                     ELSE (1000 * rise) \div span
  BY <1>7, <1>8
<1> QED
  BY <1>3, <1>5, <1>9 DEF rise, span

\* A quotient grows with what is divided.
LEMMA QuotientGrows ==
    ASSUME NEW a \in Nat, NEW b \in Nat, NEW m \in Nat \ {0}, a <= b
    PROVE  (1000 * a) \div m <= (1000 * b) \div m
BY Z3

\* An agent with less energy left is never throttled up: both curves fall from
\* full power above the start of the profile to none at its floor, rounding
\* included.
THEOREM ThrottleMonotone ==
    \A d, e \in 0 .. Capacity : d <= e => ThrottleFor(d) <= ThrottleFor(e)
<1> SUFFICES ASSUME NEW d \in 0 .. Capacity, NEW e \in 0 .. Capacity, d <= e
             PROVE  ThrottleFor(d) <= ThrottleFor(e)
  OBVIOUS
<1> DEFINE low == Percent(d, ThrottleFloor)
           high == Percent(e, ThrottleFloor)
           span == (ThrottleStart - ThrottleFloor) * Capacity
<1>1. /\ ThrottleStart * Capacity \in Nat /\ ThrottleFloor * Capacity \in Nat
      /\ Capacity \in Nat
  <2>1. Capacity \in Nat /\ ThrottleStart \in Nat /\ ThrottleFloor \in Nat
    BY DriveAssumption
  <2> QED
    BY <2>1
<1>2. /\ low = d * 100 - ThrottleFloor * Capacity
      /\ high = e * 100 - ThrottleFloor * Capacity
      /\ Percent(d, ThrottleStart) = d * 100 - ThrottleStart * Capacity
      /\ Percent(e, ThrottleStart) = e * 100 - ThrottleStart * Capacity
  BY DEF Percent
<1>3. ThrottleFor(d) \in 0 .. 1000 /\ ThrottleFor(e) \in 0 .. 1000
  BY ThrottleType
<1>4. CASE Percent(e, ThrottleStart) >= 0
  <2>1. ThrottleFor(e) = 1000
    BY <1>4 DEF ThrottleFor
  <2> QED
    BY <1>3, <2>1
<1>5. CASE Percent(e, ThrottleStart) < 0 /\ low <= 0
  <2>1. ~(Percent(d, ThrottleStart) >= 0)
    BY <1>1, <1>2, <1>5
  <2>2. ThrottleFor(d) = 0
    BY <1>5, <2>1 DEF ThrottleFor
  <2> QED
    BY <1>3, <2>2
<1>6. CASE Percent(e, ThrottleStart) < 0 /\ low > 0
  <2>1. Percent(d, ThrottleStart) < 0 /\ high > 0 /\ low <= high
    BY <1>1, <1>2, <1>6
  <2>2. /\ low \in Nat /\ span \in Nat \ {0}
        /\ ThrottleFor(d) = IF Aggressive THEN (1000 * (low * low)) \div (span * span)
                                          ELSE (1000 * low) \div span
    BY <1>6, <2>1, ThrottleRises
  <2>3. /\ high \in Nat
        /\ ThrottleFor(e) = IF Aggressive THEN (1000 * (high * high)) \div (span * span)
                                          ELSE (1000 * high) \div span
    BY <1>6, <2>1, ThrottleRises
  <2> HIDE DEF low, high, span
  <2>4. CASE ~Aggressive
    BY <2>1, <2>2, <2>3, <2>4, QuotientGrows
  <2>5. CASE Aggressive
    <3>1. low * low <= high * high /\ low * low \in Nat /\ high * high \in Nat
      BY <2>1, <2>2, <2>3, Product
    <3>2. span * span \in Nat \ {0}
      BY <2>2, Z3
    <3>3. (1000 * (low * low)) \div (span * span) <= (1000 * (high * high)) \div (span * span)
      <4> DEFINE a == low * low
                 b == high * high
                 m == span * span
      <4>1. a \in Nat /\ b \in Nat /\ m \in Nat \ {0} /\ a <= b
        BY <3>1, <3>2
      <4> HIDE DEF a, b, m
      <4>2. (1000 * a) \div m <= (1000 * b) \div m
        BY <4>1, QuotientGrows
      <4> QED
        BY <4>2 DEF a, b, m
    <3> QED
      BY <2>2, <2>3, <2>5, <3>3
  <2> QED
    BY <2>4, <2>5
<1>7. low <= 0 \/ low > 0
  BY <1>1, <1>2
<1>8. Percent(e, ThrottleStart) >= 0 \/ Percent(e, ThrottleStart) < 0
  BY <1>1, <1>2
<1> QED
  BY <1>4, <1>5, <1>6, <1>7, <1>8

-----------------------------------------------------------------------------
(* Every step keeps the invariant.                                         *)

\* What a fresh organism starts with, and the constants it starts from.
LEMMA FreshTypes ==
    /\ Fresh.pc = "idle" /\ Fresh.throttle = 1000 /\ Fresh.energy = Capacity
    /\ Fresh.checkpoint = None
    /\ Capacity \in Nat \ {0} /\ MaxCopies \in Nat
BY DriveAssumption DEF Fresh

\* A fresh organism satisfies the invariant.
LEMMA InitEstablishes == Init => IInv
<1> SUFFICES ASSUME Init
             PROVE  IInv
  OBVIOUS
<1>1. LoopTypeOK
  <2>1. energy \in 0 .. Capacity /\ throttle \in 0 .. 1000 /\ live \in 0 .. MaxCopies
    BY FreshTypes DEF Init
  <2>2. {replicated, sharded} \subseteq BOOLEAN
    BY Zenon DEF Init
  <2> QED
    BY <2>1, <2>2, FreshTypes DEF Init, LoopTypeOK
<1>2. Replicating /\ Foreseen /\ ReplicatedMeansStored /\ OneReplication
  BY DEF Init, Fresh, Replicating, Foreseen, ReplicatedMeansStored, OneReplication
<1>3. ExhaustedHasCheckpoint
  BY DriveAssumption DEF Init, Fresh, ExhaustedHasCheckpoint
<1> QED
  BY <1>1, <1>2, <1>3 DEF IInv

\* The steps that leave checkpoint, flag, counts and energy as they are.
LEMMA QuietPreserves ==
    ASSUME IInv, LoopTypeOK',
           UNCHANGED <<energy, replicated, live, store, captured>>,
           replications' \in {replications, 0},
           pc' \in {"idle", "sense", "defend"}
    PROVE  IInv'
BY DEF IInv, LoopTypeOK, Replicating, Foreseen, ReplicatedMeansStored,
       ExhaustedHasCheckpoint, OneReplication, store

\* Being told how many cycles to run keeps the invariant.
LEMMA RunPreserves ==
    ASSUME IInv, NEW m \in 0 .. MaxCycles, Run(m)
    PROVE  IInv'
<1>1. LoopTypeOK'
  BY DriveAssumption DEF IInv, LoopTypeOK, Run, store
<1> QED
  BY <1>1, QuietPreserves DEF Run

\* Sensing, or failing to, keeps the invariant.
LEMMA SensePreserves ==
    ASSUME IInv, Sense \/ SenseFails
    PROVE  IInv'
<1>1. CASE Sense
  <2>1. LoopTypeOK'
    BY <1>1, ThrottleType DEF IInv, LoopTypeOK, Sense, loop, store
  <2> QED
    BY <1>1, <2>1, QuietPreserves DEF Sense, loop
<1>2. CASE SenseFails
  <2>1. LoopTypeOK'
    BY <1>2 DEF IInv, LoopTypeOK, SenseFails, loop, store
  <2> QED
    BY <1>2, <2>1, QuietPreserves DEF SenseFails, loop
<1> QED
  BY <1>1, <1>2

\* A failed put, which ends the run, keeps the invariant.
LEMMA StoreFailsPreserves ==
    ASSUME IInv, StoreFails
    PROVE  IInv'
<1>1. LoopTypeOK'
  BY DEF IInv, LoopTypeOK, StoreFails, loop, store
<1> QED
  BY <1>1, QuietPreserves DEF StoreFails, loop

\* The signal is critical in the cycle whose spend leaves nothing.
LEMMA SignalForesees ==
    ASSUME energy \in Nat, energy <= Cost
    PROVE  Signal \in Critical
BY DriveAssumption DEF Signal, Critical

\* Classifying keeps the invariant.
LEMMA ClassifyPreserves ==
    ASSUME IInv, Classify
    PROVE  IInv'
<1>1. LoopTypeOK'
  BY DEF IInv, LoopTypeOK, Classify, loop, store, Severity
<1>2. UNCHANGED <<energy, replicated, captured, live, checkpoint, sharded, replications>>
  BY DEF Classify, loop, store
<1>3. CASE Escapes
  BY <1>1, <1>2, <1>3 DEF IInv, Classify, Escapes, Replicating, Foreseen,
     ReplicatedMeansStored, ExhaustedHasCheckpoint, OneReplication
<1>4. CASE ~Escapes
  <2>1. energy <= Cost => replicated
    BY <1>4, SignalForesees DEF IInv, LoopTypeOK, Escapes
  <2> QED
    BY <1>1, <1>2, <1>4, <2>1 DEF IInv, Classify, Replicating, Foreseen,
       ReplicatedMeansStored, ExhaustedHasCheckpoint, OneReplication
<1> QED
  BY <1>3, <1>4

\* Capturing the state of an exhausted agent keeps the invariant.
LEMMA CapturePreserves ==
    ASSUME IInv, Capture
    PROVE  IInv'
<1>1. captured' \in Snapshot /\ captured' # None
  BY NoneAssumption DEF IInv, LoopTypeOK, Capture, Snapshot
<1>2. LoopTypeOK'
  BY <1>1 DEF IInv, LoopTypeOK, Capture, loop, store
<1> QED
  BY <1>1, <1>2 DEF IInv, Capture, loop, store, Replicating, Foreseen,
     ReplicatedMeansStored, ExhaustedHasCheckpoint, OneReplication

\* Storing the checkpoint and its shards keeps the invariant.
LEMMA PutsPreserve ==
    ASSUME IInv, StoreCheckpoint \/ StoreShards
    PROVE  IInv'
<1>1. CASE StoreCheckpoint
  <2>1. LoopTypeOK'
    BY <1>1 DEF IInv, LoopTypeOK, StoreCheckpoint, loop
  <2> QED
    BY <1>1, <2>1 DEF IInv, StoreCheckpoint, loop, Replicating, Foreseen,
       ReplicatedMeansStored, ExhaustedHasCheckpoint, OneReplication
<1>2. CASE StoreShards
  <2>1. LoopTypeOK'
    BY <1>2 DEF IInv, LoopTypeOK, StoreShards, loop
  <2> QED
    BY <1>2, <2>1 DEF IInv, StoreShards, loop, Replicating, Foreseen,
       ReplicatedMeansStored, ExhaustedHasCheckpoint, OneReplication
<1> QED
  BY <1>1, <1>2

\* Nothing was counted before: this copy is the one, and it is stored.
LEMMA AuthorizePreserves ==
    ASSUME IInv, Authorize
    PROVE  IInv'
<1>1. live = 0 /\ replications = 0 /\ checkpoint # None /\ sharded
  BY DEF IInv, Authorize, Replicating
<1>2. LoopTypeOK'
  BY <1>1, DriveAssumption DEF IInv, LoopTypeOK, Authorize, store
<1> QED
  BY <1>1, <1>2 DEF IInv, Authorize, store, Replicating, Foreseen,
     ReplicatedMeansStored, ExhaustedHasCheckpoint, OneReplication

\* Reflection and the end of the cycle keep the invariant.
LEMMA ReflectionPreserves ==
    ASSUME IInv, Reflection
    PROVE  IInv'
<1>1. LoopTypeOK'
  BY DEF IInv, LoopTypeOK, Reflection, loop, store
<1> QED
  BY <1>1 DEF IInv, Reflection, loop, store, Replicating, Foreseen,
     ReplicatedMeansStored, ExhaustedHasCheckpoint, OneReplication

\* Energy reaches zero only by a spend that replication came before.
LEMMA ActPreserves ==
    ASSUME IInv, Act
    PROVE  IInv'
<1>1. energy' = (IF energy > Cost THEN energy - Cost ELSE 0) /\ energy \in 0 .. Capacity
  BY DEF IInv, LoopTypeOK, Act
<1>2. energy' \in 0 .. Capacity /\ (energy' = 0 => energy <= Cost)
  BY <1>1, DriveAssumption
<1>3. LoopTypeOK'
  BY <1>2 DEF IInv, LoopTypeOK, Act, store
<1>4. energy' = 0 => replicated
  BY <1>2 DEF IInv, Act, Foreseen
<1>5. ExhaustedHasCheckpoint'
  BY <1>4 DEF IInv, Act, store, ExhaustedHasCheckpoint, ReplicatedMeansStored
<1>6. pc' \in {"idle", "sense"}
  BY DEF Act
<1>7. UNCHANGED <<replicated, live, replications, captured, checkpoint, sharded>>
  BY DEF Act, store
<1> QED
  BY <1>3, <1>5, <1>6, <1>7 DEF IInv, Replicating, Foreseen, ReplicatedMeansStored,
     OneReplication

\* A crash, which leaves only what was stored, keeps the invariant.
LEMMA CrashPreserves ==
    ASSUME IInv, Crash
    PROVE  IInv'
<1>1. LoopTypeOK'
  <2>1. energy' \in 0 .. Capacity /\ throttle' \in 0 .. 1000 /\ live' \in 0 .. MaxCopies
    BY FreshTypes DEF Crash
  <2>2. {replicated', sharded'} \subseteq BOOLEAN
    BY Zenon DEF Crash
  <2> QED
    BY <2>1, <2>2, FreshTypes DEF IInv, LoopTypeOK, Crash
<1>2. ExhaustedHasCheckpoint'
  BY DriveAssumption DEF Crash, Fresh, ExhaustedHasCheckpoint
<1> QED
  BY <1>1, <1>2 DEF IInv, Crash, Fresh, Replicating, Foreseen,
     ReplicatedMeansStored, OneReplication

\* Every step keeps the invariant.
LEMMA NextPreserves == IInv /\ [Next]_vars => IInv'
<1> SUFFICES ASSUME IInv, [Next]_vars
             PROVE  IInv'
  OBVIOUS
<1>1. CASE UNCHANGED vars
  BY <1>1 DEF IInv, vars, loop, store, LoopTypeOK, Replicating, Foreseen,
     ReplicatedMeansStored, ExhaustedHasCheckpoint, OneReplication
<1>2. CASE Next
  BY <1>2, RunPreserves, SensePreserves, StoreFailsPreserves, ClassifyPreserves,
     CapturePreserves, PutsPreserve, AuthorizePreserves, ReflectionPreserves,
     ActPreserves, CrashPreserves
  DEF Next, Step
<1> QED
  BY <1>1, <1>2

\* The invariant holds in every reachable state.
LEMMA Invariance == Spec => []IInv
BY InitEstablishes, NextPreserves, PTL DEF Spec

-----------------------------------------------------------------------------
(* What holds of every drive.                                              *)

\* The loop's variables have their types: the throttle stays on its scale for
\* every profile, and energy never falls below zero.
THEOREM LoopTypeCorrect == Spec => []LoopTypeOK
BY Invariance, PTL DEF IInv

\* An agent that ran out of energy has replicated, in this life, before.
THEOREM ExhaustedCheckpointed == Spec => []ExhaustedHasCheckpoint
BY Invariance, PTL DEF IInv

\* The one-shot flag means that both puts succeeded, whatever failed before.
THEOREM ReplicatedStored == Spec => []ReplicatedMeansStored
BY Invariance, PTL DEF IInv

\* One replication a run and one copy a life, for every cap.
THEOREM OneReplicationKept == Spec => []OneReplication
BY Invariance, PTL DEF IInv

-----------------------------------------------------------------------------
(* A run ends.                                                             *)

\* The steps a cycle may still take, counted from its end.
StepsOf ==
    [idle |-> 0, act |-> 1, reflect |-> 2, authorize |-> 3, shards |-> 4,
     store |-> 5, capture |-> 6, defend |-> 7, sense |-> 8]

\* The steps a run may still take: what is left of its cycle, and eight for each
\* cycle to come.
StepsLeft == IF pc = "idle" THEN 0 ELSE 8 * (limit - cycle) + StepsOf[pc]

\* The loop counter of a run under way is within what run was asked for.
Counting == pc # "idle" => cycle \in 1 .. limit

\* Each step but the last of a cycle leaves the counters alone and comes nearer
\* to the end of the cycle.
LEMMA WithinCycle ==
    ASSUME LoopTypeOK, pc # "idle",
           Sense \/ SenseFails \/ Classify \/ Capture \/ StoreCheckpoint
             \/ StoreShards \/ StoreFails \/ Authorize \/ Reflection
    PROVE  /\ UNCHANGED <<cycle, limit>>
           /\ pc' # "idle" => StepsOf[pc'] \in 1 .. StepsOf[pc] - 1
<1>1. CASE Sense \/ SenseFails \/ Classify
  BY <1>1 DEF Sense, SenseFails, Classify, loop, StepsOf
<1>2. CASE Capture \/ StoreCheckpoint \/ StoreShards \/ StoreFails
  BY <1>2 DEF Capture, StoreCheckpoint, StoreShards, StoreFails, loop, StepsOf
<1>3. CASE Authorize \/ Reflection
  BY <1>3 DEF Authorize, Reflection, loop, StepsOf
<1> QED
  BY <1>1, <1>2, <1>3

\* How many steps are left of a cycle.
LEMMA StepsType ==
    ASSUME LoopTypeOK
    PROVE  StepsOf[pc] \in 0 .. 8 /\ (pc # "idle" => StepsOf[pc] # 0)
BY DEF LoopTypeOK, StepsOf

\* Every step of the loop uses up one of the steps left, and keeps the count.
LEMMA StepSpends ==
    ASSUME LoopTypeOK, LoopTypeOK', Counting, Step
    PROVE  Counting' /\ StepsLeft' \in 0 .. StepsLeft - 1
<1>1. cycle \in Nat /\ limit \in Nat
  BY DEF LoopTypeOK
<1>2. pc # "idle"
  BY DEF Step, Sense, SenseFails, Classify, Capture, StoreCheckpoint, StoreShards,
     StoreFails, Authorize, Reflection, Act
<1>3. cycle \in 1 .. limit /\ StepsOf[pc] \in 1 .. 8
  BY <1>2, StepsType DEF Counting
<1> DEFINE s == StepsOf[pc]
           t == StepsOf[pc']
<1>4. StepsLeft = 8 * (limit - cycle) + s /\ s \in 1 .. 8
  BY <1>2, <1>3 DEF StepsLeft
<1>5. StepsLeft' = IF pc' = "idle" THEN 0 ELSE 8 * (limit' - cycle') + t
  BY DEF StepsLeft, StepsOf
<1> HIDE DEF s, t
<1>6. CASE Act
  <2>1. limit' = limit
    BY <1>6 DEF Act
  <2>2. CASE pc' = "idle"
    BY <2>2, <1>1, <1>3, <1>4, <1>5 DEF Counting
  <2>3. CASE pc' # "idle"
    <3>1. pc' = "sense" /\ cycle' = cycle + 1 /\ cycle # limit
      BY <1>6, <2>3 DEF Act
    <3>2. t = 8
      BY <3>1 DEF t, StepsOf
    <3>3. cycle + 1 \in 1 .. limit
      BY <1>1, <1>3, <3>1
    <3>4. 8 * (limit - (cycle + 1)) + 8 \in 0 .. 8 * (limit - cycle) + s - 1
      BY <1>1, <1>4, <3>3
    <3>5. StepsLeft' = 8 * (limit - (cycle + 1)) + 8
      BY <1>5, <2>1, <2>3, <3>1, <3>2
    <3>6. StepsLeft' \in 0 .. StepsLeft - 1
      BY <1>1, <1>4, <3>4, <3>5
    <3>7. Counting'
      BY <2>1, <3>1, <3>3 DEF Counting
    <3> QED
      BY <3>6, <3>7
  <2> QED
    BY <2>2, <2>3
<1>7. CASE ~Act
  <2>1. /\ cycle' = cycle /\ limit' = limit
        /\ pc' # "idle" => t \in 1 .. s - 1
    BY <1>2, <1>7, WithinCycle DEF Step, s, t
  <2>2. StepsLeft' \in 0 .. StepsLeft - 1
    BY <1>1, <1>3, <1>4, <1>5, <2>1
  <2> QED
    BY <1>2, <1>3, <2>1, <2>2 DEF Counting
<1> QED
  BY <1>6, <1>7

\* Neither a call of run nor a new process starts past its last cycle.
LEMMA StartsCounting ==
    ASSUME LoopTypeOK, Crash \/ \E m \in 0 .. MaxCycles : Run(m)
    PROVE  Counting'
<1>1. CASE Crash
  BY <1>1 DEF Crash, Fresh, Counting
<1>2. ASSUME NEW m \in 0 .. MaxCycles, Run(m)
      PROVE  Counting'
  BY <1>2, DriveAssumption DEF Run, Counting
<1> QED
  BY <1>1, <1>2

\* What every step does to the count.
LEMMA CountNext ==
    ASSUME IInv, Counting, [Next]_vars
    PROVE  Counting' /\ (Step => StepsLeft' \in 0 .. StepsLeft - 1)
<1>1. LoopTypeOK /\ LoopTypeOK'
  BY NextPreserves DEF IInv
<1>2. CASE Step
  BY <1>1, <1>2, StepSpends
<1>3. CASE ~Step
  <2>1. CASE UNCHANGED vars
    BY <1>3, <2>1 DEF Counting, vars, loop
  <2>2. CASE Crash \/ \E m \in 0 .. MaxCycles : Run(m)
    BY <1>1, <1>3, <2>2, StartsCounting
  <2> QED
    BY <1>3, <2>1, <2>2 DEF Next
<1> QED
  BY <1>2, <1>3

\* The count holds of every run.
LEMMA CountKept == Spec => [](IInv /\ Counting)
<1>1. Init => Counting
  BY DEF Init, Fresh, Counting
<1>2. Counting /\ IInv /\ [Next]_vars => Counting'
  BY CountNext
<1> QED
  BY <1>1, <1>2, Invariance, PTL DEF Spec

\* Each step of a run, whatever fails in it, leaves fewer steps to take: with a
\* loop that is scheduled again while it is not idle, every run returns.
THEOREM RunsShrink == Spec => [][Step => StepsLeft' \in 0 .. StepsLeft - 1]_vars
<1>1. IInv /\ Counting /\ [Next]_vars => [Step => StepsLeft' \in 0 .. StepsLeft - 1]_vars
  BY CountNext
<1> QED
  BY <1>1, CountKept, PTL DEF Spec

\* A run takes at most eight steps for each of its max_cycles.
THEOREM RunsBounded == Spec => [](StepsLeft \in 0 .. 8 * limit)
<1>1. IInv /\ Counting => StepsLeft \in 0 .. 8 * limit
  <2> SUFFICES ASSUME IInv, Counting
               PROVE  StepsLeft \in 0 .. 8 * limit
    OBVIOUS
  <2>1. LoopTypeOK /\ cycle \in Nat /\ limit \in Nat
    BY DEF IInv, LoopTypeOK
  <2>2. CASE pc = "idle"
    BY <2>1, <2>2 DEF StepsLeft
  <2>3. CASE pc # "idle"
    <3> DEFINE s == StepsOf[pc]
    <3>1. cycle \in 1 .. limit /\ s \in 1 .. 8
      BY <2>1, <2>3, StepsType DEF Counting
    <3>2. StepsLeft = 8 * (limit - cycle) + s
      BY <2>3 DEF StepsLeft
    <3> HIDE DEF s
    <3> QED
      BY <2>1, <3>1, <3>2
  <2> QED
    BY <2>2, <2>3
<1> QED
  BY <1>1, CountKept, PTL

-----------------------------------------------------------------------------
(* The reflector.                                                          *)

\* A reflector that last reflected at now or before: its predictions wait in the
\* order of their cycles, at most one for each cycle of the horizon, none of them
\* past; and none that was judged could have been judged before.
Orderly(r, now) ==
    /\ r.history \in Seq(Sample)
    /\ \E S : r.pending \in Seq(S)
    /\ \A i \in DOMAIN r.history : r.history[i].cycle <= now
    /\ Len(r.pending) <= Horizon
    /\ \A i \in DOMAIN r.pending :
          /\ r.pending[i].target \in Nat
          /\ r.pending[i].target + (Len(r.pending) - i) <= now + Horizon
    /\ \A i, j \in DOMAIN r.pending :
          i < j => r.pending[i].target < r.pending[j].target
    /\ \A h \in DOMAIN r.history, i \in DOMAIN r.pending :
          r.history[h].cycle < r.pending[i].target
    /\ \A e \in r.audit :
          /\ e.target \in Nat /\ e.at \in Nat
          /\ e.target <= e.at /\ e.at <= now
          /\ \A h \in DOMAIN r.history :
                ~(e.target <= r.history[h].cycle /\ r.history[h].cycle < e.at)

\* Due counts the predictions before the first one that is not due.
LEMMA DuePrefix ==
    ASSUME NEW S, NEW p \in Seq(S), NEW c \in Nat,
           \A i \in DOMAIN p : p[i].target \in Nat
    PROVE  /\ Due(p, c) \in 0 .. Len(p)
           /\ \A i \in 1 .. Due(p, c) : p[i].target <= c
           /\ Due(p, c) < Len(p) => p[Due(p, c) + 1].target > c
<1> DEFINE n == Len(p)
           stop == {i \in 1 .. n + 1 : i \in DOMAIN p => p[i].target > c}
<1>1. n \in Nat /\ DOMAIN p = 1 .. n
  OBVIOUS
<1>2. stop \in SUBSET Nat /\ n + 1 \in stop
  BY <1>1
<1>3. PICK m \in stop : \A i \in stop : m <= i
  BY <1>2, Least
<1>4. m \in 1 .. n + 1 /\ \A i \in 1 .. m - 1 : p[i].target <= c
  BY <1>1, <1>3
<1>5. {i \in DOMAIN p : \A j \in 1 .. i : p[j].target <= c} = 1 .. m - 1
  <2>1. \A i \in 1 .. m - 1 : i \in DOMAIN p /\ \A j \in 1 .. i : p[j].target <= c
    BY <1>1, <1>4
  <2>2. ASSUME NEW i \in DOMAIN p, \A j \in 1 .. i : p[j].target <= c
        PROVE  i \in 1 .. m - 1
    <3>1. ASSUME i >= m
          PROVE  FALSE
      <4>1. m \in 1 .. i /\ m \in DOMAIN p
        BY <1>1, <1>4, <3>1
      <4>2. p[m].target <= c /\ p[m].target > c /\ p[m].target \in Nat
        BY <1>3, <2>2, <4>1
      <4> QED
        BY <4>2
    <3> QED
      BY <1>1, <1>4, <3>1
  <2> QED
    BY <2>1, <2>2
<1>6. Due(p, c) = m - 1
  <2>1. m - 1 \in Nat /\ Cardinality(1 .. m - 1) = m - 1
    BY <1>4, FS_Interval
  <2> QED
    BY <1>5, <2>1 DEF Due
<1>7. m - 1 < n => p[m].target > c
  BY <1>1, <1>3, <1>4
<1> QED
  BY <1>4, <1>6, <1>7

\* The newest of a sequence are all of it, while it is short enough.
LEMMA NewestAll ==
    ASSUME NEW S, NEW s \in Seq(S), NEW k \in Nat, Len(s) <= k
    PROVE  Newest(s, k) = s
<1>1. Len(s) \in Nat /\ \A i \in 1 .. Len(s) : s[i] \in S
  BY LenProperties, ElementOfSeq
<1>2. Newest(s, k) = SubSeq(s, 1, Len(s))
  <2>1. (IF Len(s) > k THEN Len(s) - k + 1 ELSE 1) = 1
    BY <1>1
  <2> QED
    BY <2>1 DEF Newest
<1>3. /\ SubSeq(s, 1, Len(s)) \in Seq(S)
      /\ Len(SubSeq(s, 1, Len(s))) = Len(s)
      /\ \A i \in 1 .. Len(s) : SubSeq(s, 1, Len(s))[i] = s[i]
  BY <1>1, SubSeqProperties
<1> QED
  BY <1>2, <1>3, SeqEqual

\* The newest of a sequence are among it.
LEMMA NewestType ==
    ASSUME NEW S, NEW s \in Seq(S), NEW k \in Nat
    PROVE  /\ Newest(s, k) \in Seq(S)
           /\ \A i \in DOMAIN Newest(s, k) : \E j \in DOMAIN s : Newest(s, k)[i] = s[j]
<1> DEFINE from == IF Len(s) > k THEN Len(s) - k + 1 ELSE 1
<1>1. /\ Len(s) \in Nat /\ DOMAIN s = 1 .. Len(s)
      /\ from \in 1 .. Len(s) + 1
      /\ Newest(s, k) = SubSeq(s, from, Len(s))
  BY DEF Newest
<1> HIDE DEF from
<1>2. \A i \in from .. Len(s) : s[i] \in S
  BY <1>1, ElementOfSeq
<1>3. /\ SubSeq(s, from, Len(s)) \in Seq(S)
      /\ Len(SubSeq(s, from, Len(s))) = IF from <= Len(s) THEN Len(s) - from + 1 ELSE 0
      /\ \A i \in 1 .. Len(s) - from + 1 :
            SubSeq(s, from, Len(s))[i] = s[from + i - 1]
  BY <1>1, <1>2, SubSeqProperties
<1>4. \A i \in DOMAIN Newest(s, k) :
        i \in 1 .. Len(s) - from + 1 /\ from + i - 1 \in DOMAIN s
  BY <1>1, <1>3
<1> QED
  BY <1>1, <1>3, <1>4

\* Samples are of a cycle.
LEMMA SampleCycles ==
    ASSUME NEW s \in Seq(Sample)
    PROVE  \A i \in DOMAIN s : s[i].cycle \in Nat
<1>1. \A i \in DOMAIN s : s[i] \in Sample
  BY ElementOfSeq, LenProperties
<1> QED
  BY <1>1 DEF Sample

\* Reflecting on a later sample keeps the reflector in order.
LEMMA ReflectOrderly ==
    ASSUME NEW r, NEW now \in Nat, Orderly(r, now),
           NEW sample \in Sample, now < sample.cycle
    PROVE  Orderly(ReflectorTick(r, sample), sample.cycle)
<1> PICK S : r.pending \in Seq(S)
  BY DEF Orderly
<1> DEFINE c == sample.cycle
           p == r.pending
           due == Due(p, c)
           left == SubSeq(p, due + 1, Len(p))
           history == Newest(Append(r.history, sample), ReflectCap)
           new == PredictAll(history, sample)
           pending == Append(left, new)
           T == S \cup {new}
           after == ReflectorTick(r, sample)
<1>1. /\ c \in Nat /\ Horizon \in Nat \ {0} /\ ReflectCap \in Nat
      /\ Horizon <= ReflectCap
  BY ReflectAssumption DEF Sample, ReflectCap
<1>2. /\ Len(p) \in Nat /\ DOMAIN p = 1 .. Len(p)
      /\ \A i \in 1 .. Len(p) : p[i] \in S /\ p[i].target \in Nat
  BY LenProperties, ElementOfSeq DEF Orderly
<1>3. /\ due \in 0 .. Len(p)
      /\ \A i \in 1 .. due : p[i].target <= c
      /\ due < Len(p) => p[due + 1].target > c
  BY <1>1, <1>2, DuePrefix
<1> HIDE DEF due
<1>parts.
      /\ r.history \in Seq(Sample)
      /\ \A g \in DOMAIN r.history : r.history[g].cycle <= now
      /\ \A i \in 1 .. Len(p) : p[i].target + (Len(p) - i) <= now + Horizon
      /\ \A i, j \in 1 .. Len(p) : i < j => p[i].target < p[j].target
      /\ \A g \in DOMAIN r.history, i \in 1 .. Len(p) :
            r.history[g].cycle < p[i].target
  BY <1>2 DEF Orderly
<1>4. new.target = c + Horizon
  BY DEF PredictAll
<1> HIDE DEF new
<1>5. /\ left \in Seq(T)
      /\ Len(left) = Len(p) - due
      /\ \A i \in 1 .. Len(p) - due : left[i] = p[due + i]
  <2>1. \A i \in due + 1 .. Len(p) : p[i] \in T
    BY <1>2, <1>3
  <2>2. /\ left \in Seq(T)
        /\ Len(left) = IF due + 1 <= Len(p) THEN Len(p) - (due + 1) + 1 ELSE 0
        /\ \A i \in 1 .. Len(p) - (due + 1) + 1 : left[i] = p[(due + 1) + i - 1]
    BY <1>2, <1>3, <2>1, SubSeqProperties
  <2> QED
    BY <1>2, <1>3, <2>2
<1> HIDE DEF left, T
<1>6. \A i \in 1 .. Len(left) :
        /\ left[i] = p[due + i] /\ due + i \in 1 .. Len(p)
        /\ left[i].target > c
  <2>1. \A i \in 1 .. Len(left) : due + i \in 1 .. Len(p) /\ left[i] = p[due + i]
    BY <1>2, <1>3, <1>5
  <2>2. \A i \in 1 .. Len(left) : p[due + i].target > c
    <3> SUFFICES ASSUME NEW i \in 1 .. Len(left)
                 PROVE  p[due + i].target > c
      OBVIOUS
    <3>1. p[due + 1].target > c /\ due + 1 \in 1 .. Len(p)
      BY <1>2, <1>3, <1>5
    <3>2. i = 1 \/ p[due + 1].target < p[due + i].target
      <4>1. i # 1 => due + 1 < due + i
        BY <1>2, <1>3, <1>5
      <4> QED
        BY <1>parts, <2>1, <3>1, <4>1
    <3> QED
      BY <1>1, <1>2, <2>1, <3>1, <3>2
  <2> QED
    BY <2>1, <2>2
<1>7. \A i \in 1 .. Len(left) : left[i].target + (Len(left) - i) <= now + Horizon
  <2>1. \A i \in 1 .. Len(left) :
          p[due + i].target + (Len(p) - (due + i)) <= now + Horizon
    BY <1>parts, <1>6
  <2> SUFFICES ASSUME NEW i \in 1 .. Len(left)
               PROVE  left[i].target + (Len(left) - i) <= now + Horizon
    OBVIOUS
  <2>2. left[i] = p[due + i] /\ p[due + i].target + (Len(p) - (due + i)) <= now + Horizon
    BY <1>6, <2>1
  <2>3. Len(p) - (due + i) = Len(left) - i
    BY <1>2, <1>3, <1>5
  <2> QED
    BY <2>2, <2>3
<1>8. Len(left) + 1 <= Horizon
  <2>1. CASE Len(left) = 0
    BY <1>1, <2>1
  <2>2. CASE Len(left) > 0
    <3>1. 1 \in 1 .. Len(left)
      BY <1>2, <1>3, <1>5, <2>2
    <3>2. left[1].target > c /\ left[1].target \in Nat
      BY <1>2, <1>6, <3>1
    <3>3. left[1].target + (Len(left) - 1) <= now + Horizon
      BY <1>7, <3>1
    <3> QED
      BY <1>1, <1>2, <1>3, <1>5, <3>2, <3>3
  <2> QED
    BY <1>2, <1>3, <1>5, <2>1, <2>2
<1>9. /\ pending \in Seq(T)
      /\ Len(pending) = Len(left) + 1
      /\ \A i \in 1 .. Len(left) : pending[i] = left[i]
      /\ pending[Len(left) + 1] = new
  BY <1>5, AppendProperties DEF T
<1> HIDE DEF pending
<1>10. /\ history \in Seq(Sample)
       /\ \A h \in DOMAIN history :
             \/ history[h] = sample
             \/ \E g \in DOMAIN r.history : history[h] = r.history[g]
  <2> DEFINE longer == Append(r.history, sample)
  <2>1. r.history \in Seq(Sample) /\ DOMAIN r.history = 1 .. Len(r.history)
    BY LenProperties DEF Orderly
  <2>2. /\ longer \in Seq(Sample)
        /\ Len(longer) = Len(r.history) + 1
        /\ \A i \in 1 .. Len(r.history) : longer[i] = r.history[i]
        /\ longer[Len(r.history) + 1] = sample
    BY <2>1, AppendProperties
  <2>3. DOMAIN longer = 1 .. Len(r.history) + 1 /\ Len(r.history) \in Nat
    BY <2>1, <2>2, LenProperties
  <2> HIDE DEF longer
  <2>4. /\ history \in Seq(Sample)
        /\ \A i \in DOMAIN history : \E j \in DOMAIN longer : history[i] = longer[j]
    <3>1. history = Newest(longer, ReflectCap)
      BY DEF longer
    <3> HIDE DEF history
    <3> QED
      BY <1>1, <2>2, <3>1, NewestType
  <2> QED
    BY <2>1, <2>2, <2>3, <2>4
<1>11. /\ after.history = history
       /\ after.pending = pending
       /\ after.audit = r.audit \cup {Evaluate(p[i], sample) : i \in 1 .. due}
  <2>1. Newest(pending, ReflectCap) = pending
    <3>1. Len(pending) <= ReflectCap
      BY <1>1, <1>2, <1>3, <1>5, <1>8, <1>9
    <3> QED
      BY <1>1, <1>9, <3>1, NewestAll
  <2> QED
    BY <2>1 DEF ReflectorTick, pending, left, due, new
<1> HIDE DEF history, after
<1>12. /\ \A h \in DOMAIN history :
             /\ history[h].cycle \in Nat /\ history[h].cycle <= c
             /\ \/ history[h].cycle = c
                \/ \E g \in DOMAIN r.history : history[h] = r.history[g]
  <2>1. \A g \in DOMAIN r.history :
          r.history[g].cycle \in Nat /\ r.history[g].cycle <= now
    BY <1>parts, SampleCycles
  <2> QED
    BY <1>1, <1>10, <2>1
<1>13. DOMAIN pending = 1 .. Len(left) + 1 /\ Len(left) \in Nat
  BY <1>2, <1>3, <1>5, <1>9, LenProperties
<1>14. \A i \in DOMAIN pending :
        /\ pending[i].target \in Nat /\ pending[i].target > c
        /\ pending[i].target + (Len(pending) - i) <= c + Horizon
        /\ i <= Len(left) => pending[i].target < c + Horizon
        /\ i = Len(left) + 1 => pending[i].target = c + Horizon
  <2>1. \A i \in 1 .. Len(left) : pending[i].target \in Nat
    BY <1>2, <1>6, <1>9
  <2>2. ASSUME NEW i \in 1 .. Len(left)
        PROVE  /\ pending[i].target \in Nat /\ pending[i].target > c
               /\ pending[i].target + (Len(pending) - i) <= c + Horizon
               /\ pending[i].target < c + Horizon
    <3>1. /\ pending[i] = left[i] /\ left[i].target > c /\ left[i].target \in Nat
          /\ left[i].target + (Len(left) - i) <= now + Horizon
      BY <1>6, <1>7, <1>9, <2>1
    <3> QED
      BY <1>1, <1>9, <1>13, <3>1
  <2>3. /\ pending[Len(left) + 1].target = c + Horizon
        /\ Len(pending) - (Len(left) + 1) = 0
    BY <1>4, <1>9, <1>13
  <2>4. c + Horizon \in Nat /\ c + Horizon > c
    BY <1>1
  <2>5. \A i \in DOMAIN pending :
          i \in 1 .. Len(left) \/ (i = Len(left) + 1 /\ ~(i <= Len(left)))
    BY <1>13
  <2>6. \A i \in 1 .. Len(left) : i # Len(left) + 1
    BY <1>13
  <2> QED
    BY <2>2, <2>3, <2>4, <2>5, <2>6
<1>15. \A i, j \in DOMAIN pending : i < j => pending[i].target < pending[j].target
  <2>1. \A i, j \in 1 .. Len(left) : i < j => left[i].target < left[j].target
    <3>1. \A i, j \in 1 .. Len(left) : i < j => due + i < due + j
      BY <1>2, <1>3
    <3> QED
      BY <1>parts, <1>6, <3>1
  <2>2. \A i, j \in DOMAIN pending : i < j =>
          /\ i \in 1 .. Len(left)
          /\ j \in 1 .. Len(left) \/ j = Len(left) + 1
    BY <1>13
  <2>3. \A i \in 1 .. Len(left) :
          /\ i \in DOMAIN pending /\ i <= Len(left)
          /\ pending[i].target < c + Horizon /\ pending[i] = left[i]
    BY <1>9, <1>13, <1>14
  <2>4. pending[Len(left) + 1].target = c + Horizon
    BY <1>4, <1>9
  <2> QED
    BY <2>1, <2>2, <2>3, <2>4
<1>16. \A h \in DOMAIN history, i \in DOMAIN pending :
        history[h].cycle < pending[i].target
  BY <1>1, <1>12, <1>14
<1>17. ASSUME NEW e \in after.audit
       PROVE  /\ e.target \in Nat /\ e.at \in Nat
              /\ e.target <= e.at /\ e.at <= c
              /\ \A h \in DOMAIN history :
                    ~(e.target <= history[h].cycle /\ history[h].cycle < e.at)
  <2>1. CASE e \in r.audit
    <3>1. /\ e.target \in Nat /\ e.at \in Nat /\ e.target <= e.at /\ e.at <= now
          /\ \A g \in DOMAIN r.history :
                ~(e.target <= r.history[g].cycle /\ r.history[g].cycle < e.at)
      BY <2>1 DEF Orderly
    <3> QED
      BY <1>1, <1>12, <3>1
  <2>2. CASE \E i \in 1 .. due : e = Evaluate(p[i], sample)
    <3> PICK i \in 1 .. due : e = Evaluate(p[i], sample)
      BY <2>2
    <3>1. e.target = p[i].target /\ e.at = c /\ i \in 1 .. Len(p)
      BY <1>2, <1>3 DEF Evaluate
    <3>2. p[i].target \in Nat /\ p[i].target <= c
      BY <1>2, <1>3, <3>1
    <3>3. \A g \in DOMAIN r.history : r.history[g].cycle < p[i].target
      BY <1>2, <3>1 DEF Orderly
    <3> QED
      BY <1>1, <1>12, <3>1, <3>2, <3>3
  <2> QED
    BY <1>11, <2>1, <2>2
<1>18. Len(after.pending) <= Horizon
  BY <1>8, <1>9, <1>11
<1>19. \E U : after.pending \in Seq(U)
  BY <1>9, <1>11
<1>20. Orderly(after, c)
  BY <1>10, <1>11, <1>12, <1>14, <1>15, <1>16, <1>17, <1>18, <1>19 DEF Orderly
<1> QED
  BY <1>20 DEF after

\* What is in order stays so as time passes.
LEMMA OrderlyLater ==
    ASSUME NEW r, NEW now \in Nat, NEW later \in Nat, now <= later, Orderly(r, now)
    PROVE  Orderly(r, later)
<1>1. \A i \in DOMAIN r.history : r.history[i].cycle \in Nat
  BY SampleCycles DEF Orderly
<1>2. \A i \in DOMAIN r.history : r.history[i].cycle <= later
  BY <1>1 DEF Orderly
<1>3. \A i \in DOMAIN r.pending :
        r.pending[i].target + (Len(r.pending) - i) <= later + Horizon
  <2>1. Len(r.pending) \in Nat /\ \A i \in DOMAIN r.pending : i \in Nat
    BY LenProperties DEF Orderly
  <2>2. \A i \in DOMAIN r.pending :
          /\ r.pending[i].target \in Nat
          /\ r.pending[i].target + (Len(r.pending) - i) <= now + Horizon
    BY DEF Orderly
  <2> QED
    BY <2>1, <2>2, ReflectAssumption
<1>4. \A e \in r.audit : e.at \in Nat /\ e.at <= later
  BY DEF Orderly
<1> QED
  BY <1>2, <1>3, <1>4 DEF Orderly

\* Between a poll and its reflection the sample of this tick is still to come.
Sampling == {"defend", "capture", "store", "shards", "authorize", "reflect"}

LastReflection == IF pc \in Sampling THEN tick - 1 ELSE tick

InOrder == (pc \in Sampling => tick > 0) /\ Orderly(reflector, LastReflection)

\* A new reflector is in order.
LEMMA NewOrderly == Orderly(NewReflector, 0)
<1>1. /\ NewReflector.history = <<>> /\ NewReflector.pending = <<>>
      /\ NewReflector.audit = {}
  BY DEF NewReflector
<1>2. <<>> \in Seq(Sample) /\ Len(<<>>) = 0 /\ DOMAIN <<>> = {}
  BY EmptySeq
<1> QED
  BY <1>1, <1>2, ReflectAssumption DEF Orderly

\* The steps that neither poll nor reflect.
LEMMA OrderQuiet ==
    ASSUME IInv, InOrder, UNCHANGED <<tick, reflector>>,
           pc' \in Sampling => pc \in Sampling
    PROVE  InOrder'
<1>1. tick \in Nat
  BY DEF IInv, LoopTypeOK
<1>2. LastReflection \in Nat /\ LastReflection' \in Nat
  BY <1>1 DEF InOrder, LastReflection
<1>3. LastReflection <= LastReflection'
  BY <1>1 DEF InOrder, LastReflection
<1> QED
  BY <1>2, <1>3, OrderlyLater DEF InOrder

\* Every step keeps the reflector in order: each tick is reflected on once, and
\* after all that were reflected on before.
LEMMA OrderNext == IInv /\ InOrder /\ [Next]_vars => InOrder'
<1> SUFFICES ASSUME IInv, InOrder, [Next]_vars
             PROVE  InOrder'
  OBVIOUS
<1>1. CASE Sense
  <2>1. /\ tick' = tick + 1 /\ tick \in Nat /\ reflector' = reflector
        /\ pc \notin Sampling
    BY <1>1 DEF IInv, LoopTypeOK, Sense, Sampling
  <2>2. LastReflection' = LastReflection /\ tick' > 0
    BY <1>1, <2>1 DEF Sense, LastReflection, Sampling
  <2> QED
    BY <2>1, <2>2 DEF InOrder
<1>2. CASE Reflection
  <2> DEFINE sample == [cycle |-> tick, energy |-> energy, threat |-> threat # None]
  <2>1. tick \in Nat /\ energy \in Nat
    BY DriveAssumption DEF IInv, LoopTypeOK
  <2>2. sample \in Sample /\ sample.cycle = tick
    BY <2>1 DEF Sample
  <2>3. /\ LastReflection = tick - 1 /\ tick - 1 \in Nat /\ tick - 1 < tick
        /\ Orderly(reflector, tick - 1)
    BY <1>2, <2>1 DEF InOrder, LastReflection, Reflection, Sampling
  <2>4. reflector' = ReflectorTick(reflector, sample)
    BY <1>2 DEF Reflection
  <2> HIDE DEF sample
  <2>5. Orderly(reflector', tick)
    BY <2>2, <2>3, <2>4, ReflectOrderly
  <2>6. pc' \notin Sampling /\ tick' = tick
    BY <1>2 DEF Reflection, Sampling
  <2> QED
    BY <2>5, <2>6 DEF InOrder, LastReflection
<1>3. CASE Crash
  <2>1. pc' = "idle" /\ tick' = 0 /\ reflector' = NewReflector
    BY <1>3 DEF Crash, Fresh
  <2>2. pc' \notin Sampling
    BY <2>1 DEF Sampling
  <2> QED
    BY <2>1, <2>2, NewOrderly DEF InOrder, LastReflection
<1>4. CASE \E m \in 0 .. MaxCycles : Run(m)
  BY <1>4, OrderQuiet DEF Run, Sampling
<1>5. CASE SenseFails \/ Classify \/ Capture \/ StoreCheckpoint \/ StoreShards
             \/ StoreFails \/ Authorize \/ Act
  BY <1>5, OrderQuiet DEF SenseFails, Classify, Capture, StoreCheckpoint,
     StoreShards, StoreFails, Authorize, Act, Sampling
<1>6. CASE UNCHANGED vars
  BY <1>6, OrderQuiet DEF vars
<1> QED
  BY <1>1, <1>2, <1>3, <1>4, <1>5, <1>6 DEF Next, Step

\* The reflector is in order in every reachable state.
LEMMA OrderKept == Spec => [](IInv /\ InOrder)
<1>1. Init => InOrder
  <2> SUFFICES ASSUME Init
               PROVE  InOrder
    OBVIOUS
  <2>1. pc = "idle" /\ tick = 0 /\ reflector = NewReflector
    BY DEF Init, Fresh
  <2>2. pc \notin Sampling
    BY <2>1 DEF Sampling
  <2> QED
    BY <2>1, <2>2, NewOrderly DEF InOrder, LastReflection
<1> QED
  BY <1>1, OrderNext, Invariance, PTL DEF Spec

\* No prediction is dropped for want of room, for every window and horizon: each
\* waits for its own cycle, and those of at most Horizon cycles wait together.
THEOREM NoForecastDropped == Spec => []ForecastsKept
<1>1. InOrder => ForecastsKept
  BY DEF InOrder, Orderly, ForecastsKept
<1> QED
  BY <1>1, OrderKept, PTL

\* A prediction is judged by the first sample of its cycle or a later one, also
\* when sensing or storage failed in between, for every window and horizon.
THEOREM JudgedFirst == Spec => []JudgedAtFirstChance
<1>1. IInv /\ InOrder => JudgedAtFirstChance
  <2> SUFFICES ASSUME IInv, InOrder
               PROVE  JudgedAtFirstChance
    OBVIOUS
  <2>1. \A h \in DOMAIN reflector.history : reflector.history[h].cycle \in Nat
    BY SampleCycles DEF InOrder, Orderly
  <2>2. ASSUME NEW e \in reflector.audit
        PROVE  e.at >= e.target /\ ~Reflected(e.target, e.at - 1)
    BY <2>1 DEF InOrder, Orderly, Reflected
  <2>3. ASSUME NEW i \in DOMAIN reflector.pending
        PROVE  ~Reflected(reflector.pending[i].target, tick)
    BY <2>1 DEF InOrder, Orderly, Reflected
  <2> QED
    BY <2>2, <2>3 DEF JudgedAtFirstChance
<1> QED
  BY <1>1, OrderKept, PTL

-----------------------------------------------------------------------------
(* The line.                                                               *)

\* What a line is fitted to: the cycles and the energies of its points.
Cycles(p)   == [i \in 1 .. Len(p) |-> p[i].cycle]
Energies(p) == [i \in 1 .. Len(p) |-> p[i].energy]

\* linreg's line, by the sums over its points.
LEMMA LineIs ==
    ASSUME NEW p \in Seq(Sample)
    PROVE  LET n   == Len(p)
               x   == Cycles(p)
               y   == Energies(p)
               sx  == Sum(x, 1 .. n)
               sy  == Sum(y, 1 .. n)
               sxx == Together(x, x, 1 .. n)
               sxy == Together(x, y, 1 .. n)
           IN  Line[p] =
                 IF sxx = 0 THEN [base |-> sy, slope |-> 0, den |-> n]
                 ELSE [base |-> sy * sxx - sxy * sx, slope |-> n * sxy, den |-> n * sxx]
<1> DEFINE n == Len(p)
           D == 1 .. n
           x == Cycles(p)
           y == Energies(p)
           AddsX(g) == g = [S \in SUBSET D |->
             IF S = {} THEN 0 ELSE p[Chosen(S)].cycle + g[S \ {Chosen(S)}]]
           AddsY(g) == g = [S \in SUBSET D |->
             IF S = {} THEN 0 ELSE p[Chosen(S)].energy + g[S \ {Chosen(S)}]]
           AddsXX(g) == g = [S \in SUBSET D |->
             IF S = {} THEN 0
             ELSE p[Chosen(S)].cycle * p[Chosen(S)].cycle + g[S \ {Chosen(S)}]]
           AddsXY(g) == g = [S \in SUBSET D |->
             IF S = {} THEN 0
             ELSE p[Chosen(S)].cycle * p[Chosen(S)].energy + g[S \ {Chosen(S)}]]
           SX == (CHOOSE g : AddsX(g))[D]
           SY == (CHOOSE g : AddsY(g))[D]
           XX == (CHOOSE g : AddsXX(g))[D]
           XY == (CHOOSE g : AddsXY(g))[D]
           SXX == n * XX - SX * SX
           SXY == n * XY - SX * SY
<1>1. Line[p] = IF SXX = 0 THEN [base |-> SY, slope |-> 0, den |-> n]
                ELSE [base |-> SY * SXX - SXY * SX, slope |-> n * SXY, den |-> n * SXX]
  BY DEF Line, MapThenSumSet, MapThenFoldSet, Chosen
<1>2. IsFiniteSet(D)
  BY FS_Interval
<1>3. SX = Sum(x, D)
  <2>1. \A g : AddsX(g) <=> Totals(g, x, D)
    <3>1. \A S \in SUBSET D : S # {} => x[Chosen(S)] = p[Chosen(S)].cycle
      BY ChosenIsIn DEF Cycles
    <3> QED
      BY <3>1 DEF Totals
  <2> HIDE DEF AddsX, x, D
  <2>2. AddsX(CHOOSE g : AddsX(g))
    BY <1>2, <2>1, TotalsExist
  <2> QED
    BY <1>2, <2>1, <2>2, SumIsTotal
<1>4. SY = Sum(y, D)
  <2>1. \A g : AddsY(g) <=> Totals(g, y, D)
    <3>1. \A S \in SUBSET D : S # {} => y[Chosen(S)] = p[Chosen(S)].energy
      BY ChosenIsIn DEF Energies
    <3> QED
      BY <3>1 DEF Totals
  <2> HIDE DEF AddsY, y, D
  <2>2. AddsY(CHOOSE g : AddsY(g))
    BY <1>2, <2>1, TotalsExist
  <2> QED
    BY <1>2, <2>1, <2>2, SumIsTotal
<1>5. XX = Sum(Products(x, x, D), D)
  <2> DEFINE f == Products(x, x, D)
  <2>1. \A g : AddsXX(g) <=> Totals(g, f, D)
    <3>1. \A S \in SUBSET D :
            S # {} => f[Chosen(S)] = p[Chosen(S)].cycle * p[Chosen(S)].cycle
      BY ChosenIsIn DEF Cycles, Products
    <3> QED
      BY <3>1 DEF Totals
  <2> HIDE DEF AddsXX, f, D
  <2>2. AddsXX(CHOOSE g : AddsXX(g))
    BY <1>2, <2>1, TotalsExist
  <2> QED
    BY <1>2, <2>1, <2>2, SumIsTotal DEF f
<1>6. XY = Sum(Products(x, y, D), D)
  <2> DEFINE f == Products(x, y, D)
  <2>1. \A g : AddsXY(g) <=> Totals(g, f, D)
    <3>1. \A S \in SUBSET D :
            S # {} => f[Chosen(S)] = p[Chosen(S)].cycle * p[Chosen(S)].energy
      BY ChosenIsIn DEF Cycles, Energies, Products
    <3> QED
      BY <3>1 DEF Totals
  <2> HIDE DEF AddsXY, f, D
  <2>2. AddsXY(CHOOSE g : AddsXY(g))
    BY <1>2, <2>1, TotalsExist
  <2> QED
    BY <1>2, <2>1, <2>2, SumIsTotal DEF f
<1>7. SXX = Together(x, x, D) /\ SXY = Together(x, y, D)
  <2>1. Cardinality(D) = n
    <3>1. n \in Nat
      OBVIOUS
    <3>2. Cardinality(1 .. n) = IF 1 > n THEN 0 ELSE n - 1 + 1
      BY <3>1, FS_Interval
    <3> QED
      BY <3>1, <3>2
  <2> HIDE DEF x, y, D, n, SX, SY, XX, XY
  <2> QED
    BY <1>3, <1>4, <1>5, <1>6, <2>1 DEF Together
<1> HIDE DEF x, y, SX, SY, SXX, SXY
<1> QED
  BY <1>1, <1>3, <1>4, <1>7 DEF x, y

\* The points of a line are naturals.
LEMMA PointsType ==
    ASSUME NEW p \in Seq(Sample)
    PROVE  /\ \A i \in 1 .. Len(p) : Cycles(p)[i] \in Int
           /\ \A i \in 1 .. Len(p) : Energies(p)[i] \in Int
           /\ \A i \in 1 .. Len(p) : p[i].cycle \in Nat /\ p[i].energy \in Nat
           /\ Len(p) \in Nat
           /\ DOMAIN p = 1 .. Len(p)
           /\ IsFiniteSet(1 .. Len(p))
<1>1. \A i \in 1 .. Len(p) : p[i] \in Sample
  OBVIOUS
<1>2. IsFiniteSet(1 .. Len(p))
  BY FS_Interval
<1> QED
  BY <1>1, <1>2 DEF Cycles, Energies, Sample

\* The line has integer coefficients over a positive denominator.
LEMMA LineType ==
    ASSUME NEW p \in Seq(Sample), Len(p) > 0
    PROVE  /\ Line[p].base \in Int /\ Line[p].slope \in Int
           /\ Line[p].den \in Nat \ {0}
<1> DEFINE n == Len(p)
           D == 1 .. n
           x == Cycles(p)
           y == Energies(p)
           sx == Sum(x, D)
           sy == Sum(y, D)
           sxx == Together(x, x, D)
           sxy == Together(x, y, D)
<1>1. n \in Nat \ {0} /\ IsFiniteSet(D)
  BY PointsType
<1>2. sx \in Int /\ sy \in Int /\ sxy \in Int
  BY <1>1, PointsType, SumType, TogetherType
<1>3. sxx \in Nat
  <2>1. \A i, j \in D : (x[i] - x[j]) * (x[i] - x[j]) >= 0
    <3>1. \A i, j \in D : x[i] - x[j] \in Int
      BY PointsType
    <3> QED
      BY <3>1, Square
  <2> HIDE DEF x
  <2>2. \A i \in D : x[i] \in Int
    BY PointsType DEF x
  <2> QED
    BY <1>1, <2>1, <2>2, TogetherNatural
<1>4. Line[p] = IF sxx = 0 THEN [base |-> sy, slope |-> 0, den |-> n]
                ELSE [base |-> sy * sxx - sxy * sx, slope |-> n * sxy, den |-> n * sxx]
  BY LineIs
<1> HIDE DEF n, sx, sy, sxx, sxy
<1>5. \A i, j \in Int : i * j \in Int
  BY Z3
<1>6. \A i, j \in Nat \ {0} : i * j \in Nat \ {0}
  BY Z3
<1>7. sxx # 0 => n * sxx \in Nat \ {0}
  BY <1>1, <1>3, <1>6
<1>8. sy * sxx - sxy * sx \in Int /\ n * sxy \in Int
  BY <1>1, <1>2, <1>3, <1>5
<1> QED
  BY <1>1, <1>2, <1>4, <1>7, <1>8

-----------------------------------------------------------------------------
(* The types of the reflector.                                             *)

\* The image of a finite set is finite, and no larger.
LEMMA ImageFinite ==
    ASSUME NEW S, IsFiniteSet(S), NEW f
    PROVE  /\ IsFiniteSet({f[x] : x \in S})
           /\ Cardinality({f[x] : x \in S}) <= Cardinality(S)
<1> DEFINE T == {f[x] : x \in S}
           g == [x \in S |-> f[x]]
<1>1. g \in Surjection(S, T)
  BY DEF Surjection
<1> HIDE DEF g, T
<1>2. IsFiniteSet(T) /\ Cardinality(T) <= Cardinality(S)
  BY <1>1, FS_Surjection
<1> QED
  BY <1>2 DEF T

\* A distance is natural.
LEMMA DistanceType == \A a, b \in Int : Distance(a, b) \in Nat
BY DEF Distance

\* The band is the largest distance of a point from the line.
LEMMA BandType ==
    ASSUME NEW p \in Seq(Sample), Len(p) > 0, NEW line,
           line.base \in Int, line.slope \in Int, line.den \in Int
    PROVE  /\ Band(line, p) \in Nat
           /\ \A i \in 1 .. Len(p) :
                 Distance(p[i].energy * line.den, At(line, p[i].cycle)) <= Band(line, p)
<1> DEFINE D == 1 .. Len(p)
           f == [i \in D |-> Distance(p[i].energy * line.den, At(line, p[i].cycle))]
           S == {f[i] : i \in D}
<1>1. /\ Len(p) \in Nat /\ IsFiniteSet(D) /\ DOMAIN p = D
      /\ \A i \in D : p[i].cycle \in Nat /\ p[i].energy \in Nat
  BY PointsType
<1>2. \A i, j \in Int : i * j \in Int
  BY Z3
<1>3. \A i \in D : p[i].energy * line.den \in Int /\ line.slope * p[i].cycle \in Int
  <2> SUFFICES ASSUME NEW i \in D
               PROVE  p[i].energy * line.den \in Int /\ line.slope * p[i].cycle \in Int
    OBVIOUS
  <2>1. p[i].energy \in Int /\ p[i].cycle \in Int
    BY <1>1
  <2> QED
    BY <1>2, <2>1
<1>4. \A i \in D : At(line, p[i].cycle) \in Int
  BY <1>3 DEF At
<1>5. \A i \in D : f[i] \in Nat
  BY <1>3, <1>4, DistanceType
<1>6. IsFiniteSet(S)
  <2> HIDE DEF f
  <2> QED
    BY <1>1, ImageFinite
<1>7. 1 \in D
  BY <1>1
<1>8. Band(line, p) = Max(S)
  BY <1>1 DEF Band
<1> HIDE DEF f
<1>9. S \in SUBSET Int /\ S \subseteq Nat /\ S # {}
  BY <1>5, <1>7
<1>10. Max(S) \in S /\ \A x \in S : x <= Max(S)
  <2> HIDE DEF S
  <2> QED
    BY <1>6, <1>9, MaxIs
<1> QED
  BY <1>8, <1>9, <1>10 DEF f

\* The line's value where it is read, and no less than zero.
LEMMA ValueIs ==
    ASSUME NEW p, NEW target, At(Line[p], target) \in Int
    PROVE  PredictEnergy(p, target).value =
             IF At(Line[p], target) >= 0 THEN At(Line[p], target) ELSE 0
<1> DEFINE v == At(Line[p], target)
           S == {v, 0}
<1>1. IsFiniteSet(S)
  <2>1. IsFiniteSet({v}) /\ S = {v} \cup {0}
    BY FS_Singleton
  <2> QED
    BY <2>1, FS_AddElement
<1>2. Max(S) \in S /\ \A x \in S : x <= Max(S)
  <2>1. S \in SUBSET Int /\ S # {}
    OBVIOUS
  <2> HIDE DEF S
  <2> QED
    BY <1>1, <2>1, MaxIs
<1>3. PredictEnergy(p, target).value = Max(S)
  BY DEF PredictEnergy
<1> HIDE DEF v
<1>4. v <= Max(S) /\ 0 <= Max(S) /\ (Max(S) = v \/ Max(S) = 0) /\ v \in Int
  BY <1>2 DEF v
<1> QED
  BY <1>3, <1>4 DEF v

\* What is forecast from samples is a forecast.
LEMMA ForecastType ==
    ASSUME NEW p \in Seq(Sample), Len(p) > 0, NEW target \in Nat
    PROVE  PredictEnergy(p, target) \in Forecast
<1>1. /\ Line[p].base \in Int /\ Line[p].slope \in Int
      /\ Line[p].den \in Nat \ {0}
  BY LineType
<1>2. Band(Line[p], p) \in Nat
  BY <1>1, BandType
<1>3. At(Line[p], target) \in Int
  <2>1. \A i, j \in Int : i * j \in Int
    BY Z3
  <2>2. Line[p].slope * target \in Int
    BY <1>1, <2>1
  <2> QED
    BY <1>1, <2>2 DEF At
<1>4. PredictEnergy(p, target).value \in Nat
  BY <1>3, ValueIs
<1> QED
  BY <1>1, <1>2, <1>4 DEF PredictEnergy, Forecast

\* The newest of a sequence are its last ones.
LEMMA NewestIs ==
    ASSUME NEW S, NEW s \in Seq(S), NEW k \in Nat
    PROVE  /\ Newest(s, k) \in Seq(S)
           /\ Len(Newest(s, k)) \in Nat /\ Len(Newest(s, k)) <= k
           /\ Len(s) \in Nat
           /\ Len(Newest(s, k)) = IF Len(s) > k THEN k ELSE Len(s)
           /\ \A i \in 1 .. Len(Newest(s, k)) :
                 /\ i + (Len(s) - Len(Newest(s, k))) \in 1 .. Len(s)
                 /\ Newest(s, k)[i] = s[i + (Len(s) - Len(Newest(s, k)))]
<1> DEFINE from == IF Len(s) > k THEN Len(s) - k + 1 ELSE 1
           t == SubSeq(s, from, Len(s))
<1>1. /\ Len(s) \in Nat /\ DOMAIN s = 1 .. Len(s)
      /\ from \in 1 .. Len(s) + 1
      /\ Newest(s, k) = t
  BY DEF Newest
<1>2. Len(s) - from + 1 = IF Len(s) > k THEN k ELSE Len(s)
  BY <1>1
<1> HIDE DEF from
<1>3. \A i \in from .. Len(s) : s[i] \in S
  BY <1>1, ElementOfSeq
<1>4. /\ t \in Seq(S)
      /\ Len(t) = IF from <= Len(s) THEN Len(s) - from + 1 ELSE 0
      /\ \A i \in 1 .. Len(s) - from + 1 : t[i] = s[from + i - 1]
  BY <1>1, <1>3, SubSeqProperties
<1> HIDE DEF t
<1>5. Len(t) = Len(s) - from + 1
  BY <1>1, <1>4
<1>6. \A i \in 1 .. Len(t) :
        i + (Len(s) - Len(t)) = from + i - 1 /\ from + i - 1 \in 1 .. Len(s)
  BY <1>1, <1>5
<1>7. Len(t) \in Nat /\ Len(t) <= k
  BY <1>1, <1>2, <1>5
<1> QED
  BY <1>1, <1>2, <1>4, <1>5, <1>6, <1>7

\* After a tick there waits the new prediction, and what was not due.
StillWaiting(r, sample, after) ==
    \A i \in DOMAIN after.pending :
       \/ after.pending[i] = PredictAll(after.history, sample)
       \/ \E j \in Due(r.pending, sample.cycle) + 1 .. Len(r.pending) :
             after.pending[i] = r.pending[j]

\* A history that goes on with a sample, and may have forgotten older ones.
Continues(history, before, sample) ==
    \A i \in 1 .. Len(history) - 1 :
       /\ i + (Len(before) + 1 - Len(history)) \in 1 .. Len(before)
       /\ history[i] = before[i + (Len(before) + 1 - Len(history))]

\* What a tick makes of a reflector: the new history ends in the sample, and a
\* prediction that waits was waiting or is the new one.
LEMMA TickMakes ==
    ASSUME NEW r, NEW S, r.history \in Seq(Sample), r.pending \in Seq(S),
           \A i \in DOMAIN r.pending : r.pending[i].target \in Nat,
           NEW sample \in Sample
    PROVE  LET after == ReflectorTick(r, sample)
               due   == Due(r.pending, sample.cycle)
               new   == PredictAll(after.history, sample)
               h     == Len(after.history)
           IN  /\ due \in 0 .. Len(r.pending)
               /\ \A i \in 1 .. due : r.pending[i].target <= sample.cycle
               /\ after.history \in Seq(Sample)
               /\ h \in Nat \ {0} /\ h <= ReflectCap
               /\ Len(r.history) \in Nat
               /\ h = IF Len(r.history) + 1 > ReflectCap THEN ReflectCap
                      ELSE Len(r.history) + 1
               /\ after.history[h] = sample
               /\ Continues(after.history, r.history, sample)
               /\ after.pending \in Seq(S \cup {new})
               /\ Len(after.pending) <= ReflectCap
               /\ Len(after.pending) <= Len(r.pending) - due + 1
               /\ StillWaiting(r, sample, after)
               /\ after.audit = r.audit \cup {Evaluate(r.pending[i], sample) : i \in 1 .. due}
<1> DEFINE p == r.pending
           n == Len(p)
           due == Due(p, sample.cycle)
           left == SubSeq(p, due + 1, n)
           longer == Append(r.history, sample)
           history == Newest(longer, ReflectCap)
           new == PredictAll(history, sample)
           T == S \cup {new}
           queue == Append(left, new)
           after == ReflectorTick(r, sample)
           h == Len(history)
<1>1. sample.cycle \in Nat /\ ReflectCap \in Nat /\ ReflectCap >= 1
  BY ReflectAssumption DEF Sample, ReflectCap
<1>2. n \in Nat /\ DOMAIN p = 1 .. n /\ \A i \in 1 .. n : p[i] \in S
  BY LenProperties, ElementOfSeq
<1>3. due \in 0 .. n /\ \A i \in 1 .. due : p[i].target <= sample.cycle
  BY <1>1, <1>2, DuePrefix
<1>4. /\ after.history = history
      /\ after.pending = Newest(queue, ReflectCap)
      /\ after.audit = r.audit \cup {Evaluate(p[i], sample) : i \in 1 .. due}
  BY DEF ReflectorTick
<1> HIDE DEF due
<1>5. /\ longer \in Seq(Sample) /\ Len(r.history) \in Nat
      /\ Len(longer) = Len(r.history) + 1
      /\ \A i \in 1 .. Len(r.history) : longer[i] = r.history[i]
      /\ longer[Len(r.history) + 1] = sample
  BY AppendProperties, LenProperties
<1> HIDE DEF longer
<1>6. /\ history \in Seq(Sample)
      /\ h \in Nat /\ h <= ReflectCap
      /\ h = IF Len(longer) > ReflectCap THEN ReflectCap ELSE Len(longer)
      /\ \A i \in 1 .. h :
            /\ i + (Len(longer) - h) \in 1 .. Len(longer)
            /\ history[i] = longer[i + (Len(longer) - h)]
  BY <1>1, <1>5, NewestIs
<1> HIDE DEF history
<1>7. h \in Nat \ {0}
  BY <1>1, <1>5, <1>6
<1>8. history[h] = sample
  <2>1. h \in 1 .. h /\ h + (Len(longer) - h) = Len(r.history) + 1
    BY <1>5, <1>7
  <2> QED
    BY <1>5, <1>6, <2>1
<1>9. \A i \in 1 .. h - 1 :
        /\ i + (Len(r.history) + 1 - h) \in 1 .. Len(r.history)
        /\ history[i] = r.history[i + (Len(r.history) + 1 - h)]
  <2> SUFFICES ASSUME NEW i \in 1 .. h - 1
               PROVE  /\ i + (Len(r.history) + 1 - h) \in 1 .. Len(r.history)
                      /\ history[i] = r.history[i + (Len(r.history) + 1 - h)]
    OBVIOUS
  <2>1. i \in 1 .. h
    BY <1>7
  <2>2. /\ i + (Len(r.history) + 1 - h) \in 1 .. Len(longer)
        /\ history[i] = longer[i + (Len(r.history) + 1 - h)]
    BY <1>5, <1>6, <2>1
  <2>3. i + (Len(r.history) + 1 - h) \in 1 .. Len(r.history)
    BY <1>5, <1>6, <1>7, <2>2
  <2> QED
    BY <1>5, <2>2, <2>3
<1> HIDE DEF new
<1>10. /\ left \in Seq(T)
       /\ Len(left) = n - due
       /\ \A i \in 1 .. n - due : left[i] = p[due + i]
  <2>1. \A i \in due + 1 .. n : p[i] \in T
    BY <1>2, <1>3
  <2>2. /\ left \in Seq(T)
        /\ Len(left) = IF due + 1 <= n THEN n - (due + 1) + 1 ELSE 0
        /\ \A i \in 1 .. n - (due + 1) + 1 : left[i] = p[(due + 1) + i - 1]
    BY <1>2, <1>3, <2>1, SubSeqProperties
  <2> QED
    BY <1>2, <1>3, <2>2
<1> HIDE DEF left
<1>11. /\ queue \in Seq(T)
       /\ Len(queue) = Len(left) + 1
       /\ \A i \in 1 .. Len(left) : queue[i] = left[i]
       /\ queue[Len(left) + 1] = new
  BY <1>10, AppendProperties
<1>12. \A i \in 1 .. Len(queue) :
         \/ queue[i] = new
         \/ \E j \in due + 1 .. n : queue[i] = p[j]
  <2>1. \A i \in 1 .. n - due : due + i \in due + 1 .. n
    BY <1>2, <1>3
  <2>2. \A i \in 1 .. n - due : queue[i] = p[due + i]
    BY <1>10, <1>11
  <2>3. \A i \in 1 .. Len(queue) : i \in 1 .. n - due \/ i = Len(left) + 1
    <3>1. n - due \in Nat /\ Len(queue) = (n - due) + 1 /\ Len(left) + 1 = (n - due) + 1
      BY <1>2, <1>3, <1>10, <1>11
    <3> QED
      BY <3>1
  <2> QED
    BY <1>11, <2>1, <2>2, <2>3
<1> HIDE DEF queue, T
<1>13. /\ after.pending \in Seq(T)
       /\ Len(after.pending) <= ReflectCap
       /\ Len(after.pending) <= n - due + 1
       /\ \A i \in DOMAIN after.pending :
             \E j \in 1 .. Len(queue) : after.pending[i] = queue[j]
  <2> DEFINE q == Newest(queue, ReflectCap)
  <2>1. /\ q \in Seq(T) /\ Len(q) \in Nat /\ Len(q) <= ReflectCap
        /\ Len(q) = IF Len(queue) > ReflectCap THEN ReflectCap ELSE Len(queue)
        /\ \A i \in 1 .. Len(q) :
              /\ i + (Len(queue) - Len(q)) \in 1 .. Len(queue)
              /\ q[i] = queue[i + (Len(queue) - Len(q))]
    <3> queue \in Seq(T) /\ ReflectCap \in Nat
      BY <1>1, <1>11
    <3> QED
      BY NewestIs
  <2>2. Len(q) <= n - due + 1
    BY <1>1, <1>2, <1>3, <1>10, <1>11, <2>1
  <2>3. DOMAIN q = 1 .. Len(q)
    BY <2>1, LenProperties
  <2> HIDE DEF q
  <2> QED
    BY <1>4, <2>1, <2>2, <2>3 DEF q
<1>14. \A i \in DOMAIN after.pending :
         \/ after.pending[i] = new
         \/ \E j \in due + 1 .. n : after.pending[i] = p[j]
  BY <1>12, <1>13
<1>15. StillWaiting(r, sample, after)
  <2> HIDE DEF after
  <2> QED
    BY <1>4, <1>14 DEF StillWaiting, new, due
<1>16. Continues(after.history, r.history, sample)
  BY <1>4, <1>9 DEF Continues
<1> HIDE DEF after
<1> QED
  BY <1>3, <1>4, <1>5, <1>6, <1>7, <1>8, <1>13, <1>15, <1>16 DEF after, due, new, T

\* The types of a reflector, within its bounds.
Typed(r) ==
    /\ r.history \in Seq(Sample)
    /\ r.pending \in Seq(Prediction)
    /\ r.audit \subseteq Evaluation
    /\ {Len(r.history), Len(r.pending)} \subseteq 0 .. ReflectCap

\* The points of a prediction: the newest samples, at least one of them.
LEMMA PointsAre ==
    ASSUME NEW history \in Seq(Sample), Len(history) > 0
    PROVE  LET points == Newest(history, Window)
           IN  /\ points \in Seq(Sample) /\ Len(points) \in Nat \ {0}
               /\ Len(points) <= Len(history) /\ Len(points) <= Window
               /\ \A i \in 1 .. Len(points) :
                     /\ i + (Len(history) - Len(points)) \in 1 .. Len(history)
                     /\ points[i] = history[i + (Len(history) - Len(points))]
<1>1. Window \in Nat \ {0} /\ Len(history) \in Nat
  BY ReflectAssumption, LenProperties
<1> DEFINE points == Newest(history, Window)
<1>2. /\ points \in Seq(Sample) /\ Len(points) \in Nat
      /\ Len(points) = IF Len(history) > Window THEN Window ELSE Len(history)
      /\ \A i \in 1 .. Len(points) :
            /\ i + (Len(history) - Len(points)) \in 1 .. Len(history)
            /\ points[i] = history[i + (Len(history) - Len(points))]
  BY <1>1, NewestIs
<1> HIDE DEF points
<1>3. /\ Len(points) \in Nat \ {0} /\ Len(points) <= Len(history)
      /\ Len(points) <= Window
  BY <1>1, <1>2
<1> QED
  BY <1>2, <1>3 DEF points

\* A prediction is one.
LEMMA PredictionType ==
    ASSUME NEW history \in Seq(Sample), Len(history) > 0, NEW sample \in Sample
    PROVE  PredictAll(history, sample) \in Prediction
<1> DEFINE points == Newest(history, Window)
           target == sample.cycle + Horizon
<1>1. sample.cycle \in Nat /\ target \in Nat
  BY ReflectAssumption DEF Sample
<1>2. points \in Seq(Sample) /\ Len(points) \in Nat \ {0}
  BY PointsAre
<1> HIDE DEF points, target
<1>3. PredictEnergy(points, target) \in Forecast
  BY <1>1, <1>2, ForecastType
<1>4. PredictThreat(points) \in BOOLEAN
  BY DEF PredictThreat
<1> QED
  BY <1>1, <1>2, <1>3, <1>4 DEF PredictAll, Prediction, points, target

\* A judgement is one.
LEMMA EvaluationType ==
    ASSUME NEW p \in Prediction, NEW sample \in Sample
    PROVE  Evaluate(p, sample) \in Evaluation
<1>1. sample.cycle \in Nat /\ p.made \in Nat /\ p.target \in Nat /\ p.points \in Nat
  BY DEF Sample, Prediction
<1>2. (Distance(sample.energy * p.energy.den, p.energy.value) <= p.energy.band) \in BOOLEAN
  OBVIOUS
<1>3. (p.alarm = sample.threat) \in BOOLEAN
  OBVIOUS
<1> QED
  BY <1>1, <1>2, <1>3 DEF Evaluate, Evaluation

\* A tick keeps the types.
LEMMA ReflectTyped ==
    ASSUME NEW r, Typed(r), NEW sample \in Sample
    PROVE  Typed(ReflectorTick(r, sample))
<1> DEFINE after == ReflectorTick(r, sample)
           due == Due(r.pending, sample.cycle)
           new == PredictAll(after.history, sample)
<1>1. /\ r.history \in Seq(Sample) /\ r.pending \in Seq(Prediction)
      /\ r.audit \subseteq Evaluation
  BY DEF Typed
<1>2. \A i \in 1 .. Len(r.pending) : r.pending[i] \in Prediction
  BY <1>1, ElementOfSeq
<1>3. \A i \in DOMAIN r.pending : r.pending[i].target \in Nat
  BY <1>1, <1>2, LenProperties DEF Prediction
<1>4. /\ due \in 0 .. Len(r.pending)
      /\ after.history \in Seq(Sample)
      /\ Len(after.history) \in Nat \ {0} /\ Len(after.history) <= ReflectCap
      /\ after.pending \in Seq(Prediction \cup {new})
      /\ Len(after.pending) <= ReflectCap
  BY <1>1, <1>3, TickMakes
<1>audit. after.audit = r.audit \cup {Evaluate(r.pending[i], sample) : i \in 1 .. due}
  BY DEF ReflectorTick
<1> HIDE DEF after, due
<1>5. new \in Prediction
  BY <1>4, PredictionType
<1> HIDE DEF new
<1>6. after.pending \in Seq(Prediction)
  <2>1. Prediction \cup {new} = Prediction
    BY <1>5
  <2> QED
    BY <1>4, <2>1
<1>7. after.audit \subseteq Evaluation
  <2>1. \A i \in 1 .. due : i \in 1 .. Len(r.pending)
    BY <1>1, <1>4, LenProperties
  <2>2. \A i \in 1 .. due : Evaluate(r.pending[i], sample) \in Evaluation
    BY <1>2, <2>1, EvaluationType
  <2> QED
    BY <1>1, <1>4, <1>audit, <2>2
<1>8. Len(after.pending) \in Nat /\ ReflectCap \in Nat
  BY <1>6, LenProperties, ReflectAssumption DEF ReflectCap
<1>9. {Len(after.history), Len(after.pending)} \subseteq 0 .. ReflectCap
  BY <1>4, <1>8
<1> QED
  BY <1>4, <1>6, <1>7, <1>9 DEF Typed, after

\* So is a new reflector.
LEMMA NewTyped == Typed(NewReflector)
<1>1. /\ NewReflector.history = <<>> /\ NewReflector.pending = <<>>
      /\ NewReflector.audit = {}
  BY DEF NewReflector
<1>2. <<>> \in Seq(Sample) /\ <<>> \in Seq(Prediction) /\ Len(<<>>) = 0
  BY EmptySeq
<1>3. ReflectCap \in Nat
  BY ReflectAssumption DEF ReflectCap
<1> QED
  BY <1>1, <1>2, <1>3 DEF Typed

\* The sample of a tick.
Polled == [cycle |-> tick, energy |-> energy, threat |-> threat # None]

\* Steps that change the reflector reflect on the tick's sample, or start anew.
LEMMA ReflectorChanges ==
    ASSUME IInv, [Next]_vars
    PROVE  \/ UNCHANGED reflector
           \/ reflector' = NewReflector
           \/ reflector' = ReflectorTick(reflector, Polled) /\ Polled \in Sample
<1>1. CASE Reflection
  <2>1. tick \in Nat /\ energy \in Nat
    BY DriveAssumption DEF IInv, LoopTypeOK
  <2>2. Polled \in Sample
    BY <2>1 DEF Sample, Polled
  <2> QED
    BY <1>1, <2>2 DEF Reflection, Polled
<1>2. CASE Crash
  BY <1>2 DEF Crash
<1>3. CASE \E m \in 0 .. MaxCycles : Run(m)
  BY <1>3 DEF Run
<1>4. CASE Sense \/ SenseFails \/ Classify \/ Capture \/ StoreCheckpoint \/ StoreShards
             \/ StoreFails \/ Authorize \/ Act
  BY <1>4 DEF Sense, SenseFails, Classify, Capture, StoreCheckpoint,
     StoreShards, StoreFails, Authorize, Act
<1>5. CASE UNCHANGED vars
  BY <1>5 DEF vars
<1> QED
  BY <1>1, <1>2, <1>3, <1>4, <1>5 DEF Next, Step

\* The reflector keeps its types in every reachable state.
LEMMA ReflectorTyped == Spec => [](IInv /\ Typed(reflector))
<1>1. Init => Typed(reflector)
  BY NewTyped DEF Init
<1>2. IInv /\ Typed(reflector) /\ [Next]_vars => Typed(reflector)'
  <2> SUFFICES ASSUME IInv, Typed(reflector), [Next]_vars
               PROVE  Typed(reflector')
    BY DEF Typed
  <2> QED
    BY ReflectorChanges, NewTyped, ReflectTyped
<1> QED
  BY <1>1, <1>2, Invariance, PTL DEF Spec

\* The drive's state has its type, the reflector's with it: history and queue stay
\* within the bounds, and a forecast is a natural value with a natural band over a
\* positive denominator, whatever line fits the samples.
THEOREM TypeCorrect == Spec => []TypeOK
<1>1. IInv /\ Typed(reflector) => TypeOK
  BY DEF IInv, Typed, TypeOK
<1> QED
  BY <1>1, ReflectorTyped, PTL

\* In an orderly queue what follows those due is not due.
LEMMA WaitingNotDue ==
    ASSUME NEW r, NEW now \in Nat, Orderly(r, now), Typed(r), NEW c \in Nat
    PROVE  /\ \A i \in 1 .. Due(r.pending, c) :
                 i \in DOMAIN r.pending /\ r.pending[i].target <= c
           /\ \A j \in Due(r.pending, c) + 1 .. Len(r.pending) :
                 j \in DOMAIN r.pending /\ r.pending[j].target > c
<1> DEFINE p == r.pending
           due == Due(p, c)
<1>1. /\ p \in Seq(Prediction) /\ Len(p) \in Nat /\ DOMAIN p = 1 .. Len(p)
      /\ \A i \in DOMAIN p : p[i].target \in Nat
      /\ \A i, j \in DOMAIN p : i < j => p[i].target < p[j].target
  BY LenProperties DEF Typed, Orderly
<1>2. /\ due \in 0 .. Len(p)
      /\ \A i \in 1 .. due : p[i].target <= c
      /\ due < Len(p) => p[due + 1].target > c
  BY <1>1, DuePrefix
<1> HIDE DEF due
<1>3. \A i \in 1 .. due : i \in DOMAIN p
  BY <1>1, <1>2
<1>4. ASSUME NEW j \in due + 1 .. Len(p)
      PROVE  j \in DOMAIN p /\ p[j].target > c
  <2>1. /\ due + 1 \in DOMAIN p /\ j \in DOMAIN p /\ due < Len(p)
        /\ j = due + 1 \/ due + 1 < j
    BY <1>1, <1>2
  <2>2. p[due + 1].target > c /\ p[due + 1].target \in Nat /\ p[j].target \in Nat
    BY <1>1, <1>2, <2>1
  <2>3. j = due + 1 \/ p[due + 1].target < p[j].target
    BY <1>1, <2>1
  <2> QED
    BY <2>1, <2>2, <2>3
<1> QED
  BY <1>2, <1>3, <1>4 DEF due

-----------------------------------------------------------------------------
(* The forecast of energy.                                                 *)

\* The energy at the t-th poll of a life, if no poll failed to be reflected on.
Drain(t) == IF Capacity > (t - 1) * Cost THEN Capacity - (t - 1) * Cost ELSE 0

\* It is a line while it lasts, and only falls.
LEMMA DrainIs ==
    ASSUME NEW t \in Nat \ {0}
    PROVE  /\ Drain(t) \in Nat
           /\ Drain(t) = IF (Capacity + Cost) + (-Cost) * t > 0
                         THEN (Capacity + Cost) + (-Cost) * t ELSE 0
           /\ Drain(t + 1) = IF Drain(t) > Cost THEN Drain(t) - Cost ELSE 0
<1>1. Capacity \in Nat /\ Cost \in Nat
  BY DriveAssumption
<1> DEFINE m == (t - 1) * Cost
<1>2. m \in Nat /\ (t + 1 - 1) * Cost = m + Cost
  BY <1>1, Z3
<1>3. Capacity - m = (Capacity + Cost) + (-Cost) * t
  BY <1>1, Z3
<1> HIDE DEF m
<1>4. Drain(t) = IF Capacity > m THEN Capacity - m ELSE 0
  BY DEF Drain, m
<1>5. Drain(t + 1) = IF Capacity > m + Cost THEN Capacity - (m + Cost) ELSE 0
  BY <1>2 DEF Drain
<1>6. Drain(t) \in Nat
  BY <1>1, <1>2, <1>4
<1>7. Drain(t) = IF (Capacity + Cost) + (-Cost) * t > 0
                 THEN (Capacity + Cost) + (-Cost) * t ELSE 0
  BY <1>1, <1>2, <1>3, <1>4
<1>8. Drain(t + 1) = IF Drain(t) > Cost THEN Drain(t) - Cost ELSE 0
  BY <1>1, <1>2, <1>4, <1>5
<1> QED
  BY <1>6, <1>7, <1>8

\* Later, there is no more of it.
LEMMA DrainFalls ==
    ASSUME NEW s \in Nat \ {0}, NEW t \in Nat \ {0}, s <= t
    PROVE  Drain(t) <= Drain(s)
<1>1. Capacity \in Nat /\ Cost \in Nat
  BY DriveAssumption
<1> DEFINE u == (s - 1) * Cost
           v == (t - 1) * Cost
<1>2. u \in Nat /\ v \in Nat /\ u <= v
  BY <1>1, Z3
<1>3. /\ Drain(s) = IF Capacity > u THEN Capacity - u ELSE 0
      /\ Drain(t) = IF Capacity > v THEN Capacity - v ELSE 0
  BY DEF Drain
<1> HIDE DEF u, v
<1> QED
  BY <1>1, <1>2, <1>3

\* Points of a steady drain: each of a later cycle than the one before it, with the
\* energy of its cycle.
Drained(p) ==
    /\ p \in Seq(Sample)
    /\ \A i \in DOMAIN p : p[i].cycle >= 1 /\ p[i].energy = Drain(p[i].cycle)
    /\ \A i, j \in DOMAIN p : i < j => p[i].cycle < p[j].cycle

\* Points of different cycles have a line that is not level by default.
LEMMA Spread ==
    ASSUME NEW p, Drained(p), Len(p) >= 2
    PROVE  Together(Cycles(p), Cycles(p), 1 .. Len(p)) \in Nat \ {0}
<1> DEFINE D == 1 .. Len(p)
           x == Cycles(p)
<1>1. p \in Seq(Sample)
  BY DEF Drained
<1>2. /\ Len(p) \in Nat /\ IsFiniteSet(D) /\ DOMAIN p = D
      /\ \A i \in D : x[i] \in Int
  BY <1>1, PointsType
<1>3. x[1] < x[2] /\ 1 \in D /\ 2 \in D
  <2>1. 1 \in D /\ 2 \in D
    BY <1>2
  <2>2. p[1].cycle < p[2].cycle
    BY <1>2, <2>1 DEF Drained
  <2> QED
    BY <2>1, <2>2 DEF Cycles
<1> HIDE DEF x
<1>4. \A i, j \in D : (x[i] - x[j]) * (x[i] - x[j]) >= 0
  <2>1. \A i, j \in D : x[i] - x[j] \in Int
    BY <1>2
  <2> QED
    BY <2>1, Square
<1>5. Together(x, x, D) >= (x[2] - x[1]) * (x[2] - x[1])
  <2> HIDE DEF D
  <2>1. 1 # 2
    OBVIOUS
  <2> QED
    BY <1>2, <1>3, <1>4, <2>1, TogetherApart
<1>6. Together(x, x, D) \in Int
  BY <1>2, TogetherType
<1>7. (x[2] - x[1]) * (x[2] - x[1]) >= 1
  <2>1. x[2] - x[1] \in Nat \ {0}
    BY <1>2, <1>3
  <2>2. \A i \in Nat \ {0} : i * i >= 1 /\ i * i \in Int
    BY Z3
  <2> QED
    BY <2>1, <2>2
<1>8. (x[2] - x[1]) * (x[2] - x[1]) \in Int
  <2>1. x[2] - x[1] \in Int
    BY <1>2, <1>3
  <2> QED
    BY <2>1, Square
<1>9. Together(x, x, D) \in Nat \ {0}
  BY <1>5, <1>6, <1>7, <1>8
<1> QED
  BY <1>9 DEF x

\* Points whose energy is a line over their cycles.
OnLine(p, level, fall) ==
    \A i \in 1 .. Len(p) : p[i].energy = level + fall * p[i].cycle

\* The line that is fitted to them is that line.
LEMMA LineOnLine ==
    ASSUME NEW p, Drained(p), Len(p) >= 2,
           NEW level \in Int, NEW fall \in Int, OnLine(p, level, fall),
           NEW t \in Int
    PROVE  At(Line[p], t) = Line[p].den * (level + fall * t)
<1> DEFINE n == Len(p)
           D == 1 .. n
           x == Cycles(p)
           y == Energies(p)
           sx == Sum(x, D)
           sy == Sum(y, D)
           sxx == Together(x, x, D)
           sxy == Together(x, y, D)
<1>1. p \in Seq(Sample)
  BY DEF Drained
<1>2. /\ n \in Nat /\ IsFiniteSet(D) /\ Cardinality(D) = n
      /\ \A i \in D : x[i] \in Int
  <2>1. Cardinality(1 .. n) = IF 1 > n THEN 0 ELSE n - 1 + 1
    BY <1>1, PointsType, FS_Interval
  <2> QED
    BY <1>1, <2>1, PointsType
<1>3. LinearIn(y, level, fall, x, D)
  BY DEF Cycles, Energies, OnLine, LinearIn
<1>4. Line[p] = IF sxx = 0 THEN [base |-> sy, slope |-> 0, den |-> n]
                ELSE [base |-> sy * sxx - sxy * sx, slope |-> n * sxy, den |-> n * sxx]
  BY <1>1, LineIs
<1>5. sxx \in Nat \ {0}
  BY Spread
<1> HIDE DEF n, x, y, D
<1>6. sy = level * n + fall * sx /\ sxy = fall * sxx
  <2>1. IsFiniteSet(D) /\ \A i \in D : x[i] \in Int
    BY <1>2
  <2>2. Sum(y, D) = level * Cardinality(D) + fall * Sum(x, D)
    BY <1>3, <2>1, TogetherLinear
  <2>3. Together(x, y, D) = fall * Together(x, x, D)
    BY <1>3, <2>1, TogetherLinear
  <2> QED
    BY <1>2, <2>2, <2>3
<1>7. sx \in Int
  BY <1>2, SumType
<1> HIDE DEF sx, sy, sxx, sxy
<1>8. /\ Line[p].base = sy * sxx - sxy * sx
      /\ Line[p].slope = n * sxy
      /\ Line[p].den = n * sxx
  BY <1>4, <1>5
<1>9. At(Line[p], t) = ((level * n + fall * sx) * sxx - (fall * sxx) * sx) + (n * (fall * sxx)) * t
  BY <1>6, <1>8 DEF At
<1>10. \A m, u, v \in Int :
         ((level * m + fall * u) * v - (fall * v) * u) + (m * (fall * v)) * t
           = (m * v) * (level + fall * t)
  BY Z3
<1> QED
  BY <1>2, <1>5, <1>7, <1>8, <1>9, <1>10

\* The line of a drain does not rise.
LEMMA LineFalls ==
    ASSUME NEW p, Drained(p), Len(p) >= 2
    PROVE  Line[p].slope <= 0
<1> DEFINE n == Len(p)
           D == 1 .. n
           x == Cycles(p)
           y == Energies(p)
           m == [i \in D |-> 0 + (-1) * y[i]]
           sxx == Together(x, x, D)
           sxy == Together(x, y, D)
<1>1. p \in Seq(Sample)
  BY DEF Drained
<1>2. /\ n \in Nat /\ IsFiniteSet(D) /\ DOMAIN p = D
      /\ \A i \in D : x[i] \in Int /\ y[i] \in Int
  BY <1>1, PointsType
<1>3. Line[p] = IF sxx = 0 THEN [base |-> Sum(y, D), slope |-> 0, den |-> n]
                ELSE [base |-> Sum(y, D) * sxx - sxy * Sum(x, D), slope |-> n * sxy,
                      den |-> n * sxx]
  BY <1>1, LineIs
<1>4. \A i, j \in D : i < j => x[i] < x[j] /\ y[i] >= y[j]
  <2> SUFFICES ASSUME NEW i \in D, NEW j \in D, i < j
               PROVE  x[i] < x[j] /\ y[i] >= y[j]
    OBVIOUS
  <2>1. p[i].cycle \in Nat /\ p[j].cycle \in Nat
    BY <1>1, PointsType
  <2>2. /\ p[i].cycle >= 1 /\ p[i].energy = Drain(p[i].cycle)
        /\ p[j].cycle >= 1 /\ p[j].energy = Drain(p[j].cycle)
        /\ p[i].cycle < p[j].cycle
    BY <1>2 DEF Drained
  <2>3. Drain(p[j].cycle) <= Drain(p[i].cycle)
    <3>1. p[i].cycle \in Nat \ {0} /\ p[j].cycle \in Nat \ {0} /\ p[i].cycle <= p[j].cycle
      BY <2>1, <2>2
    <3> QED
      BY <3>1, DrainFalls
  <2>4. Drain(p[i].cycle) \in Nat /\ Drain(p[j].cycle) \in Nat
    <3>1. p[i].cycle \in Nat \ {0} /\ p[j].cycle \in Nat \ {0}
      BY <2>1, <2>2
    <3> QED
      BY <3>1, DrainIs
  <2> QED
    BY <2>2, <2>3, <2>4 DEF Cycles, Energies
<1>5. \A i \in D : m[i] = 0 + (-1) * y[i]
  OBVIOUS
<1> HIDE DEF x, y, m
<1>6. \A i \in D : m[i] \in Int
  BY <1>2, <1>5
<1>7. \A i, j \in D : i < j => m[i] <= m[j]
  BY <1>2, <1>4, <1>5
<1>8. \A i, j \in D : (x[i] - x[j]) * (m[i] - m[j]) >= 0
  <2> SUFFICES ASSUME NEW i \in D, NEW j \in D
               PROVE  (x[i] - x[j]) * (m[i] - m[j]) >= 0
    OBVIOUS
  <2> DEFINE u == x[i] - x[j]
             v == m[i] - m[j]
  <2>1. u \in Int /\ v \in Int
    BY <1>2, <1>6
  <2>2. (u <= 0 /\ v <= 0) \/ (u >= 0 /\ v >= 0)
    BY <1>2, <1>4, <1>6, <1>7
  <2> HIDE DEF u, v
  <2>3. u * v >= 0
    BY <2>1, <2>2, Z3
  <2> QED
    BY <2>3 DEF u, v
<1> HIDE DEF D
<1>9. Together(x, m, D) \in Nat
  BY <1>2, <1>6, <1>8, TogetherNatural
<1>10. Together(x, m, D) = (-1) * sxy
  <2>1. LinearIn(m, 0, -1, y, D)
    BY <1>5 DEF LinearIn
  <2> QED
    BY <1>2, <2>1, TogetherLinear
<1>11. sxy \in Int
  BY <1>2, TogetherType
<1>12. sxy <= 0
  <2> HIDE DEF sxy
  <2> QED
    BY <1>9, <1>10, <1>11
<1>13. n * sxy <= 0
  <2> HIDE DEF sxy, n
  <2> QED
    BY <1>2, <1>11, <1>12, Z3
<1> HIDE DEF sxx, sxy, n
<1> QED
  BY <1>3, <1>13

\* A forecast from two points or more of a steady drain is right within its band:
\* exact while the drain lasts; and once nothing is left, what the line foresees is
\* no more than it already misses the last point by.
LEMMA DrainForeseen ==
    ASSUME NEW p, Drained(p), Len(p) >= 2,
           NEW t \in Nat, p[Len(p)].cycle < t
    PROVE  LET f == PredictEnergy(p, t)
           IN  Distance(Drain(t) * f.den, f.value) <= f.band
<1> DEFINE f == PredictEnergy(p, t)
           n == Len(p)
           line == Line[p]
           c == p[n].cycle
           level == Capacity + Cost
           fall == -Cost
           v == At(line, t)
           w == At(line, c)
<1>1. /\ p \in Seq(Sample) /\ n \in Nat \ {0} /\ DOMAIN p = 1 .. n
      /\ \A i \in 1 .. n : p[i].cycle \in Nat
  <2>1. p \in Seq(Sample)
    BY DEF Drained
  <2> QED
    BY <2>1, PointsType
<1>2. /\ n \in 1 .. n
      /\ \A i \in 1 .. n :
           /\ p[i].cycle \in Nat \ {0} /\ p[i].energy = Drain(p[i].cycle)
           /\ p[i].cycle <= c
  <2>1. n \in 1 .. n
    BY <1>1
  <2>2. \A i \in 1 .. n : p[i].cycle >= 1 /\ p[i].energy = Drain(p[i].cycle)
    BY <1>1 DEF Drained
  <2>3. \A i \in 1 .. n : i = n \/ i < n
    <3> n \in Nat
      BY <1>1
    <3> HIDE DEF n
    <3> QED
      OBVIOUS
  <2>4. \A i \in 1 .. n : i < n => p[i].cycle < c
    BY <1>1, <2>1 DEF Drained
  <2>5. \A i \in 1 .. n : p[i].cycle \in Nat \ {0} /\ p[i].cycle <= c
    <3> SUFFICES ASSUME NEW i \in 1 .. n
                 PROVE  p[i].cycle \in Nat \ {0} /\ p[i].cycle <= c
      OBVIOUS
    <3>1. p[i].cycle \in Nat /\ p[i].cycle >= 1 /\ c \in Nat
      BY <1>1, <2>1, <2>2
    <3>2. p[i].cycle <= c
      BY <2>3, <2>4, <3>1
    <3> QED
      BY <3>1, <3>2
  <2> QED
    BY <2>1, <2>2, <2>5
<1>3. level \in Int /\ fall \in Int /\ c \in Nat \ {0} /\ t \in Nat \ {0} /\ c < t
  <2>1. c \in Nat \ {0} /\ c < t
    BY <1>2
  <2> QED
    BY <2>1, DriveAssumption
<1>4. /\ line.base \in Int /\ line.slope \in Int /\ line.den \in Nat \ {0}
      /\ Band(line, p) \in Nat
      /\ Distance(p[n].energy * line.den, w) <= Band(line, p)
  <2>1. /\ line.base \in Int /\ line.slope \in Int /\ line.den \in Nat \ {0}
    BY <1>1, LineType
  <2> HIDE DEF line
  <2> QED
    BY <1>1, <1>2, <2>1, BandType
<1>5. f.den = line.den /\ f.band = Band(line, p)
  BY DEF PredictEnergy
<1>6. v = line.base + line.slope * t /\ w = line.base + line.slope * c
  BY DEF At
<1>7. v \in Int /\ w \in Int
  <2>1. \A i, j, k \in Int : i + j * k \in Int
    BY Z3
  <2> HIDE DEF line
  <2> QED
    BY <1>3, <1>4, <1>6, <2>1
<1>8. f.value = IF v >= 0 THEN v ELSE 0
  BY <1>7, ValueIs
<1>9. /\ Drain(t) \in Nat /\ Drain(c) \in Nat
      /\ Drain(t) = (IF level + fall * t > 0 THEN level + fall * t ELSE 0)
  BY <1>3, DrainIs
<1>10. CASE Drain(c) > 0
  <2>1. \A i \in 1 .. n : p[i].energy = level + fall * p[i].cycle
    <3> SUFFICES ASSUME NEW i \in 1 .. n
                 PROVE  p[i].energy = level + fall * p[i].cycle
      OBVIOUS
    <3> DEFINE b == p[i].cycle
    <3>1. b \in Nat \ {0} /\ b <= c /\ p[i].energy = Drain(b)
      BY <1>2
    <3> HIDE DEF b
    <3>2. Drain(c) <= Drain(b) /\ Drain(b) \in Nat
      BY <1>3, <3>1, DrainFalls, DrainIs
    <3>3. Drain(b) = IF level + fall * b > 0 THEN level + fall * b ELSE 0
      BY <3>1, DrainIs
    <3>4. Drain(b) = level + fall * b
      BY <1>9, <1>10, <3>2, <3>3
    <3> QED
      BY <3>1, <3>4 DEF b
  <2> HIDE DEF level, fall
  <2>2. v = line.den * (level + fall * t)
    <3>1. level \in Int /\ fall \in Int /\ t \in Int
      BY <1>3
    <3>2. OnLine(p, level, fall)
      BY <2>1 DEF OnLine
    <3>3. At(Line[p], t) = Line[p].den * (level + fall * t)
      BY <3>1, <3>2, LineOnLine
    <3> QED
      BY <3>3
  <2>3. \A d \in Nat \ {0}, e \in Int :
          /\ e > 0 => d * e = e * d /\ d * e \in Nat
          /\ ~(e > 0) => (d * e < 0 \/ d * e = 0) /\ 0 * d = 0
    BY Z3
  <2>4. level + fall * t \in Int
    <3>1. \A i, j, k \in Int : i + j * k \in Int
      BY Z3
    <3> QED
      BY <1>3, <3>1
  <2> DEFINE e == level + fall * t
             d == line.den
  <2>5. /\ e > 0 => d * e = e * d /\ d * e \in Nat
        /\ ~(e > 0) => (d * e < 0 \/ d * e = 0) /\ 0 * d = 0
    BY <1>4, <2>3, <2>4
  <2>6. v = d * e /\ Drain(t) = (IF e > 0 THEN e ELSE 0)
    BY <1>9, <2>2
  <2> HIDE DEF e, d, v
  <2>7. f.value = Drain(t) * d
    <3>1. CASE e > 0
      BY <1>8, <2>5, <2>6, <3>1
    <3>2. CASE ~(e > 0)
      <4>1. Drain(t) * d = 0
        BY <2>5, <2>6, <3>2
      <4>2. f.value = 0
        BY <1>8, <2>5, <2>6, <3>2
      <4> QED
        BY <4>1, <4>2
    <3> QED
      BY <3>1, <3>2
  <2>8. f.value \in Nat
    BY <1>7, <1>8
  <2>9. Distance(Drain(t) * f.den, f.value) = 0
    <3>1. Drain(t) * f.den = f.value
      BY <1>5, <2>7 DEF d
    <3> QED
      BY <2>8, <3>1 DEF Distance
  <2>10. Distance(Drain(t) * f.den, f.value) <= f.band
    <3> HIDE DEF f
    <3> QED
      BY <1>4, <1>5, <2>9
  <2> QED
    BY <2>10
<1>11. CASE Drain(c) = 0
  <2>1. Drain(t) = 0
    <3>1. Drain(t) <= Drain(c)
      BY <1>3, DrainFalls
    <3> QED
      BY <1>9, <1>11, <3>1
  <2>2. Drain(t) * f.den = 0 /\ p[n].energy * line.den = 0
    <3>1. p[n].energy = 0
      BY <1>2, <1>11
    <3>2. \A i \in Int : 0 * i = 0
      BY Z3
    <3> HIDE DEF f, line
    <3> QED
      BY <1>4, <1>5, <2>1, <3>1, <3>2
  <2>3. v <= w
    <3>1. line.slope <= 0
      BY LineFalls
    <3>2. \A i, j \in Int : i <= 0 => i * t <= i * c
      BY <1>3, Z3
    <3>3. line.slope * t <= line.slope * c
      <4> HIDE DEF line
      <4> QED
        BY <1>4, <3>1, <3>2
    <3>4. line.slope * t \in Int /\ line.slope * c \in Int
      <4>1. \A i, j \in Int : i * j \in Int
        BY Z3
      <4> HIDE DEF line
      <4> QED
        BY <1>3, <1>4, <4>1
    <3> HIDE DEF line
    <3> QED
      BY <1>4, <1>6, <3>3, <3>4
  <2> HIDE DEF f, line, v, w
  <2>4. Distance(0, w) <= f.band /\ f.band \in Nat
    BY <1>4, <1>5, <2>2
  <2>5. Distance(0, f.value) <= f.band
    BY <1>7, <1>8, <2>3, <2>4 DEF Distance
  <2> QED
    BY <2>2, <2>5 DEF f
<1> QED
  BY <1>9, <1>10, <1>11

\* The newest points of a steady drain.
LEMMA DrainedNewest ==
    ASSUME NEW s, Drained(s), NEW k \in Nat
    PROVE  Drained(Newest(s, k))
<1> DEFINE p == Newest(s, k)
           d == Len(s) - Len(p)
<1>1. s \in Seq(Sample) /\ Len(s) \in Nat /\ DOMAIN s = 1 .. Len(s)
  BY LenProperties DEF Drained
<1>2. /\ p \in Seq(Sample) /\ Len(p) \in Nat
      /\ \A i \in 1 .. Len(p) : i + d \in 1 .. Len(s) /\ p[i] = s[i + d]
  BY <1>1, NewestIs
<1>3. DOMAIN p = 1 .. Len(p)
  BY <1>2, LenProperties
<1>4. d \in Int
  BY <1>1, <1>2
<1> HIDE DEF p, d
<1>5. \A i \in DOMAIN p : p[i].cycle >= 1 /\ p[i].energy = Drain(p[i].cycle)
  BY <1>1, <1>2, <1>3 DEF Drained
<1>6. \A i, j \in DOMAIN p : i < j => p[i].cycle < p[j].cycle
  <2>1. \A i, j \in DOMAIN p : i < j => i + d < j + d
    BY <1>2, <1>3, <1>4
  <2> QED
    BY <1>1, <1>2, <1>3, <2>1 DEF Drained
<1> QED
  BY <1>2, <1>5, <1>6 DEF Drained, p

\* One point more of it.
LEMMA DrainedAppend ==
    ASSUME NEW s, Drained(s), NEW sample \in Sample,
           sample.cycle >= 1, sample.energy = Drain(sample.cycle),
           \A i \in DOMAIN s : s[i].cycle < sample.cycle
    PROVE  Drained(Append(s, sample))
<1> DEFINE p == Append(s, sample)
           n == Len(s)
<1>1. s \in Seq(Sample) /\ n \in Nat /\ DOMAIN s = 1 .. n
  BY LenProperties DEF Drained
<1>2. /\ p \in Seq(Sample) /\ Len(p) = n + 1
      /\ \A i \in 1 .. n : p[i] = s[i]
      /\ p[n + 1] = sample
  BY <1>1, AppendProperties
<1>3. DOMAIN p = 1 .. n + 1
  BY <1>2, LenProperties
<1> HIDE DEF p, n
<1>4. \A i \in DOMAIN p : i \in 1 .. n \/ i = n + 1
  BY <1>1, <1>3
<1>5. \A i \in DOMAIN p : p[i].cycle >= 1 /\ p[i].energy = Drain(p[i].cycle)
  <2>1. \A i \in 1 .. n : p[i].cycle >= 1 /\ p[i].energy = Drain(p[i].cycle)
    BY <1>1, <1>2 DEF Drained
  <2> QED
    BY <1>2, <1>4, <2>1
<1>6. \A i, j \in DOMAIN p : i < j => p[i].cycle < p[j].cycle
  <2>1. \A i, j \in DOMAIN p : i < j => i \in 1 .. n
    BY <1>1, <1>3
  <2>2. \A i, j \in 1 .. n : i < j => p[i].cycle < p[j].cycle
    BY <1>1, <1>2 DEF Drained
  <2>3. \A i \in 1 .. n : p[i].cycle < p[n + 1].cycle
    BY <1>1, <1>2
  <2> QED
    BY <1>4, <2>1, <2>2, <2>3
<1> QED
  BY <1>2, <1>5, <1>6 DEF Drained, p

\* A prediction that will be right if the drain goes on, made from enough of it.
Right(p) ==
    p.points >= 2 =>
        Distance(Drain(p.target) * p.energy.den, p.energy.value) <= p.energy.band

\* A reflector that was given every sample of a steady drain up to now: what waits
\* is to come, and will be right.
Foretold(r, now) ==
    /\ Drained(r.history)
    /\ \A i \in DOMAIN r.pending : r.pending[i].target > now /\ Right(r.pending[i])
    /\ \A e \in r.audit : e.points >= 2 => e.hit

\* What is predicted from a steady drain will be right.
LEMMA PredictedRight ==
    ASSUME NEW history, Drained(history), Len(history) > 0,
           NEW sample \in Sample, history[Len(history)] = sample
    PROVE  Right(PredictAll(history, sample))
<1> DEFINE points == Newest(history, Window)
           target == sample.cycle + Horizon
           new == PredictAll(history, sample)
<1>1. history \in Seq(Sample) /\ Len(history) \in Nat
  BY LenProperties DEF Drained
<1>2. sample.cycle \in Nat /\ target \in Nat /\ sample.cycle < target
  BY ReflectAssumption DEF Sample
<1>3. /\ Len(points) \in Nat \ {0}
      /\ \A i \in 1 .. Len(points) :
            /\ i + (Len(history) - Len(points)) \in 1 .. Len(history)
            /\ points[i] = history[i + (Len(history) - Len(points))]
  BY <1>1, PointsAre
<1>4. Drained(points)
  BY ReflectAssumption, DrainedNewest
<1>5. /\ new.target = target /\ new.points = Len(points)
      /\ new.energy = PredictEnergy(points, target)
  BY DEF PredictAll
<1> HIDE DEF points, target, new
<1>6. points[Len(points)] = sample
  <2>1. Len(points) \in 1 .. Len(points)
    BY <1>3
  <2>2. Len(points) + (Len(history) - Len(points)) = Len(history)
    BY <1>1, <1>3
  <2> QED
    BY <1>3, <2>1, <2>2
<1>7. ASSUME Len(points) >= 2
      PROVE  Distance(Drain(target) * new.energy.den, new.energy.value) <= new.energy.band
  BY <1>2, <1>4, <1>5, <1>6, <1>7, DrainForeseen
<1> QED
  BY <1>5, <1>7 DEF Right, new

\* Reflecting on the next sample of the drain keeps it foretold: each prediction is
\* judged in its own cycle, and right.
LEMMA ReflectForetold ==
    ASSUME NEW r, NEW now \in Nat, Orderly(r, now), Typed(r), Foretold(r, now),
           NEW sample \in Sample, sample.cycle = now + 1,
           sample.energy = Drain(now + 1)
    PROVE  Foretold(ReflectorTick(r, sample), now + 1)
<1> DEFINE after == ReflectorTick(r, sample)
           p == r.pending
           c == now + 1
           due == Due(p, c)
           history == after.history
           new == PredictAll(history, sample)
<1>1. c \in Nat \ {0} /\ now < c
  OBVIOUS
<1>2. /\ p \in Seq(Prediction) /\ r.history \in Seq(Sample)
      /\ Len(p) \in Nat /\ DOMAIN p = 1 .. Len(p)
      /\ \A i \in DOMAIN p : p[i].target \in Nat /\ p[i].target > now /\ Right(p[i])
      /\ \A i, j \in DOMAIN p : i < j => p[i].target < p[j].target
  BY LenProperties DEF Typed, Orderly, Foretold
<1>3. /\ due \in 0 .. Len(p)
      /\ \A i \in 1 .. due : p[i].target <= c
      /\ due < Len(p) => p[due + 1].target > c
  BY <1>1, <1>2, DuePrefix
<1>4. /\ after.history \in Seq(Sample)
      /\ Len(after.history) \in Nat \ {0}
      /\ after.history[Len(after.history)] = sample
      /\ \A i \in DOMAIN after.pending :
            \/ after.pending[i] = PredictAll(after.history, sample)
            \/ \E j \in Due(r.pending, sample.cycle) + 1 .. Len(r.pending) :
                  after.pending[i] = r.pending[j]
  <2>1. \A i \in DOMAIN r.pending : r.pending[i].target \in Nat
    BY <1>2
  <2>2. r.history \in Seq(Sample) /\ r.pending \in Seq(Prediction)
    BY <1>2
  <2>3. /\ after.history \in Seq(Sample)
        /\ Len(after.history) \in Nat \ {0}
        /\ after.history[Len(after.history)] = sample
    BY <2>1, <2>2, TickMakes
  <2>4. StillWaiting(r, sample, after)
    BY <2>1, <2>2, TickMakes
  <2> QED
    BY <2>3, <2>4 DEF StillWaiting
<1>5. /\ history = Newest(Append(r.history, sample), ReflectCap)
      /\ after.audit = r.audit \cup {Evaluate(p[i], sample) : i \in 1 .. due}
  BY DEF ReflectorTick
<1>6. \A i \in DOMAIN after.pending :
        \/ after.pending[i] = new
        \/ \E j \in due + 1 .. Len(p) : after.pending[i] = p[j]
  BY <1>4
<1> HIDE DEF after, due
<1>7. Drained(history)
  <2>1. Drained(r.history)
    BY DEF Foretold
  <2>2. \A i \in DOMAIN r.history : r.history[i].cycle < sample.cycle
    <3>1. \A i \in DOMAIN r.history : r.history[i].cycle \in Nat /\ r.history[i].cycle <= now
      BY <1>2, SampleCycles DEF Orderly
    <3> QED
      BY <3>1
  <2>3. Drained(Append(r.history, sample))
    BY <2>1, <2>2, DrainedAppend
  <2>4. ReflectCap \in Nat
    BY ReflectAssumption DEF ReflectCap
  <2> HIDE DEF history
  <2> QED
    BY <1>5, <2>3, <2>4, DrainedNewest
<1>8. Right(new) /\ new.target > c
  <2>1. Right(new)
    BY <1>4, <1>7, PredictedRight
  <2>2. new.target = c + Horizon
    BY DEF PredictAll
  <2> HIDE DEF new
  <2> QED
    BY <2>1, <2>2, ReflectAssumption
<1> HIDE DEF new, history
<1>9. \A j \in due + 1 .. Len(p) : p[j].target > c /\ Right(p[j])
  BY <1>1, <1>2, WaitingNotDue DEF due
<1>10. \A i \in DOMAIN after.pending :
         after.pending[i].target > c /\ Right(after.pending[i])
  BY <1>6, <1>8, <1>9
<1>11. \A e \in after.audit : e.points >= 2 => e.hit
  <2> SUFFICES ASSUME NEW e \in after.audit, e.points >= 2
               PROVE  e.hit
    OBVIOUS
  <2>1. CASE e \in r.audit
    BY <2>1 DEF Foretold
  <2>2. CASE \E i \in 1 .. due : e = Evaluate(p[i], sample)
    <3> PICK i \in 1 .. due : e = Evaluate(p[i], sample)
      BY <2>2
    <3>1. i \in DOMAIN p
      BY <1>2, <1>3
    <3>2. p[i].target = c
      <4>1. p[i].target \in Nat /\ p[i].target > now /\ p[i].target <= c
        BY <1>2, <1>3, <3>1
      <4> QED
        BY <4>1
    <3>3. Right(p[i])
      BY <1>2, <3>1
    <3>4. /\ e.points = p[i].points
          /\ e.hit = (Distance(sample.energy * p[i].energy.den, p[i].energy.value)
                        <= p[i].energy.band)
      BY DEF Evaluate
    <3> QED
      BY <3>2, <3>3, <3>4 DEF Right
  <2> QED
    BY <1>5, <2>1, <2>2
<1> QED
  BY <1>7, <1>10, <1>11 DEF Foretold, after, history

\* Forecasts that wait or were judged.
Reckoned(r) == Len(r.pending) + Cardinality(r.audit)

\* A tick adds one at most.
LEMMA ReckonedGrows ==
    ASSUME NEW r, Typed(r), IsFiniteSet(r.audit), NEW sample \in Sample
    PROVE  /\ IsFiniteSet(ReflectorTick(r, sample).audit)
           /\ Reckoned(r) \in Nat /\ Reckoned(ReflectorTick(r, sample)) \in Nat
           /\ Reckoned(ReflectorTick(r, sample)) <= Reckoned(r) + 1
<1> DEFINE after == ReflectorTick(r, sample)
           p == r.pending
           due == Due(p, sample.cycle)
           judged == {Evaluate(p[i], sample) : i \in 1 .. due}
<1>1. /\ p \in Seq(Prediction) /\ r.history \in Seq(Sample)
      /\ Len(p) \in Nat /\ DOMAIN p = 1 .. Len(p)
  BY LenProperties DEF Typed
<1>2. \A i \in DOMAIN p : p[i].target \in Nat
  <2>1. \A i \in DOMAIN p : p[i] \in Prediction
    BY <1>1, ElementOfSeq
  <2> QED
    BY <2>1 DEF Prediction
<1>3. due \in 0 .. Len(p) /\ Len(after.pending) <= Len(p) - due + 1
  BY <1>1, <1>2, TickMakes
<1>4. after.audit = r.audit \cup judged
  BY DEF ReflectorTick
<1>5. Len(after.pending) \in Nat
  BY ReflectTyped, LenProperties DEF Typed
<1> HIDE DEF due, after
<1>6. IsFiniteSet(judged) /\ Cardinality(judged) \in Nat /\ Cardinality(judged) <= due
  <2> DEFINE f == [i \in 1 .. due |-> Evaluate(p[i], sample)]
             S == 1 .. due
  <2>1. IsFiniteSet(S) /\ Cardinality(S) = due
    <3>1. Cardinality(1 .. due) = IF 1 > due THEN 0 ELSE due - 1 + 1
      BY <1>3, FS_Interval
    <3> QED
      BY <1>3, <3>1, FS_Interval
  <2>2. judged = {f[i] : i \in S}
    OBVIOUS
  <2> HIDE DEF f, S, judged
  <2>3. IsFiniteSet(judged) /\ Cardinality(judged) <= due
    BY <2>1, <2>2, ImageFinite
  <2> QED
    BY <2>3, FS_CardinalityType
<1> HIDE DEF judged
<1>7. IsFiniteSet(after.audit) /\ Cardinality(after.audit) <= Cardinality(r.audit) + due
  <2>1. /\ IsFiniteSet(r.audit \cup judged)
        /\ Cardinality(r.audit \cup judged)
             = Cardinality(r.audit) + Cardinality(judged) - Cardinality(r.audit \cap judged)
    BY <1>6, FS_Union
  <2>2. Cardinality(r.audit) \in Nat /\ Cardinality(r.audit \cap judged) \in Nat
    BY FS_CardinalityType, FS_Intersection
  <2> QED
    BY <1>3, <1>4, <1>6, <2>1, <2>2
<1>8. Cardinality(after.audit) \in Nat /\ Cardinality(r.audit) \in Nat
  BY <1>7, FS_CardinalityType
<1>9. /\ Reckoned(r) = Len(p) + Cardinality(r.audit)
      /\ Reckoned(after) = Len(after.pending) + Cardinality(after.audit)
  BY DEF Reckoned
<1>10. /\ Reckoned(r) \in Nat /\ Reckoned(after) \in Nat
       /\ Reckoned(after) <= Reckoned(r) + 1
  <2> HIDE DEF p
  <2> QED
    BY <1>1, <1>3, <1>5, <1>7, <1>8, <1>9
<1> QED
  BY <1>7, <1>10 DEF after

\* In these steps the spend that ends this tick is still to come.
Spending == Sampling \cup {"act"}

\* While every tick up to the last reflection has been reflected on, the energy is
\* that of the drain, and all forecasts are right. When one was not, fewer forecasts
\* have been made than there were ticks, and always will be.
Steady ==
    /\ pc \in Spending => tick > 0
    /\ IsFiniteSet(reflector.audit)
    /\ Reckoned(reflector) <= LastReflection
    /\ Reckoned(reflector) = LastReflection =>
          /\ energy = Drain(IF pc \in Spending THEN tick ELSE tick + 1)
          /\ Foretold(reflector, LastReflection)

\* A new reflector is foretold, and has nothing to reckon.
LEMMA NewForetold ==
    /\ Foretold(NewReflector, 0)
    /\ IsFiniteSet(NewReflector.audit)
    /\ Reckoned(NewReflector) = 0
<1>1. /\ NewReflector.history = <<>> /\ NewReflector.pending = <<>>
      /\ NewReflector.audit = {}
  BY DEF NewReflector
<1>2. <<>> \in Seq(Sample) /\ Len(<<>>) = 0 /\ DOMAIN <<>> = {}
  BY EmptySeq
<1>3. IsFiniteSet({}) /\ Cardinality({}) = 0
  BY FS_EmptySet
<1> QED
  BY <1>1, <1>2, <1>3 DEF Foretold, Drained, Reckoned

\* The drain starts full.
LEMMA DrainStarts == Drain(1) = Capacity
<1>1. Capacity \in Nat \ {0} /\ Cost \in Nat
  BY DriveAssumption
<1>2. (1 - 1) * Cost = 0
  BY <1>1, Z3
<1> QED
  BY <1>1, <1>2 DEF Drain

\* The steps that neither poll, reflect nor spend, nor lose a sample.
LEMMA SteadyQuiet ==
    ASSUME Steady, UNCHANGED <<tick, energy, reflector>>,
           pc' \in Sampling <=> pc \in Sampling,
           pc' \in Spending <=> pc \in Spending
    PROVE  Steady'
<1>1. LastReflection' = LastReflection
  BY DEF LastReflection
<1>2. (IF pc' \in Spending THEN tick ELSE tick + 1)
        = (IF pc \in Spending THEN tick ELSE tick + 1)
  OBVIOUS
<1> QED
  BY <1>1, <1>2 DEF Steady

\* Every step keeps the drain steady, or loses a sample of it for good.
LEMMA SteadyNext ==
    IInv /\ InOrder /\ Typed(reflector) /\ Steady /\ [Next]_vars => Steady'
<1> SUFFICES ASSUME IInv, InOrder, Typed(reflector), Steady, [Next]_vars
             PROVE  Steady'
  OBVIOUS
<1> USE DEF Spending
<1>0. tick \in Nat /\ energy \in Nat /\ Reckoned(reflector) \in Nat
  <2>1. Cardinality(reflector.audit) \in Nat
    BY FS_CardinalityType DEF Steady
  <2>2. Len(reflector.pending) \in Nat
    BY LenProperties DEF Typed
  <2> QED
    BY <2>1, <2>2, DriveAssumption DEF IInv, LoopTypeOK, Reckoned
<1>1. CASE Sense
  <2>1. /\ tick' = tick + 1 /\ reflector' = reflector /\ energy' = energy
        /\ pc \notin Spending /\ pc' \in Spending /\ pc \notin Sampling /\ pc' \in Sampling
    BY <1>1 DEF Sense, Sampling
  <2>2. LastReflection = tick /\ LastReflection' = tick
    BY <1>0, <2>1 DEF LastReflection
  <2>3. tick' > 0
    BY <1>0, <2>1
  <2> HIDE DEF Spending
  <2> QED
    BY <2>1, <2>2, <2>3 DEF Steady
<1>2. CASE Reflection
  <2>1. /\ pc \in Spending /\ pc \in Sampling /\ pc' \in Spending /\ pc' \notin Sampling
        /\ tick' = tick /\ energy' = energy
        /\ reflector' = ReflectorTick(reflector, Polled)
    BY <1>2 DEF Reflection, Sampling, Polled
  <2>2. Polled \in Sample /\ Polled.cycle = tick /\ Polled.energy = energy
    BY <1>0 DEF Polled, Sample
  <2>3. /\ tick > 0 /\ LastReflection = tick - 1 /\ LastReflection' = tick
        /\ tick - 1 \in Nat /\ (tick - 1) + 1 = tick
    BY <1>0, <2>1 DEF Steady, LastReflection
  <2> HIDE DEF Spending
  <2>4. /\ IsFiniteSet(reflector'.audit)
        /\ Reckoned(reflector') \in Nat
        /\ Reckoned(reflector') <= Reckoned(reflector) + 1
    BY <2>1, <2>2, ReckonedGrows DEF Steady
  <2>5. /\ Reckoned(reflector') <= tick
        /\ Reckoned(reflector') = tick => Reckoned(reflector) = tick - 1
    BY <1>0, <2>3, <2>4 DEF Steady
  <2>6. ASSUME Reckoned(reflector') = tick
        PROVE  energy' = Drain(tick) /\ Foretold(reflector', tick)
    <3>1. energy = Drain(tick) /\ Foretold(reflector, tick - 1)
      BY <2>1, <2>3, <2>5, <2>6 DEF Steady
    <3>2. Orderly(reflector, tick - 1)
      BY <2>3 DEF InOrder
    <3>3. Foretold(ReflectorTick(reflector, Polled), (tick - 1) + 1)
      <4>1. Polled.cycle = (tick - 1) + 1 /\ Polled.energy = Drain((tick - 1) + 1)
        BY <2>2, <2>3, <3>1
      <4> QED
        BY <2>2, <2>3, <3>1, <3>2, <4>1, ReflectForetold
    <3> QED
      BY <2>1, <2>3, <3>1, <3>3
  <2> QED
    BY <2>1, <2>3, <2>4, <2>5, <2>6 DEF Steady
<1>3. CASE Crash
  <2>1. pc' = "idle" /\ tick' = 0 /\ reflector' = NewReflector /\ energy' = Capacity
    BY <1>3 DEF Crash, Fresh
  <2>2. pc' \notin Sampling /\ pc' \notin Spending
    BY <2>1 DEF Sampling
  <2>3. LastReflection' = 0
    BY <2>1, <2>2 DEF LastReflection
  <2> HIDE DEF Spending
  <2> QED
    BY <2>1, <2>2, <2>3, NewForetold, DrainStarts DEF Steady
<1>4. CASE Act
  <2>1. /\ tick' = tick /\ reflector' = reflector
        /\ energy' = (IF energy > Cost THEN energy - Cost ELSE 0)
        /\ pc \in Spending /\ pc \notin Sampling /\ pc' \notin Spending /\ pc' \notin Sampling
    BY <1>4 DEF Act, Sampling
  <2>2. tick \in Nat \ {0} /\ LastReflection = tick /\ LastReflection' = tick
    BY <1>0, <2>1 DEF Steady, LastReflection
  <2>3. energy = Drain(tick) => energy' = Drain(tick + 1)
    BY <2>1, <2>2, DrainIs
  <2> HIDE DEF Spending
  <2> QED
    BY <2>1, <2>2, <2>3 DEF Steady
<1>5. CASE StoreFails
  <2>1. /\ tick' = tick /\ reflector' = reflector
        /\ pc \in Sampling /\ pc' \notin Spending /\ pc' \notin Sampling
    BY <1>5 DEF StoreFails, Sampling
  <2>2. LastReflection = tick - 1 /\ LastReflection' = tick
    BY <2>1 DEF LastReflection
  <2> HIDE DEF Spending
  <2>3. Reckoned(reflector) <= tick /\ Reckoned(reflector) # tick
    BY <1>0, <2>2 DEF Steady
  <2> QED
    BY <2>1, <2>2, <2>3 DEF Steady
<1>6. CASE \E m \in 0 .. MaxCycles : Run(m)
  <2>1. /\ UNCHANGED <<tick, energy, reflector>>
        /\ pc \notin Spending /\ pc \notin Sampling /\ pc' \notin Spending /\ pc' \notin Sampling
    BY <1>6 DEF Run, Sampling
  <2> QED
    BY <2>1, SteadyQuiet
<1>7. CASE SenseFails \/ Classify \/ Capture \/ StoreCheckpoint \/ StoreShards \/ Authorize
  <2>1. /\ UNCHANGED <<tick, energy, reflector>>
        /\ pc' \in Sampling <=> pc \in Sampling
        /\ pc' \in Spending <=> pc \in Spending
    BY <1>7 DEF SenseFails, Classify, Capture, StoreCheckpoint, StoreShards,
       Authorize, Sampling
  <2> QED
    BY <2>1, SteadyQuiet
<1>8. CASE UNCHANGED vars
  <2>1. UNCHANGED <<pc, tick, energy, reflector>>
    BY <1>8 DEF vars
  <2> QED
    BY <2>1, SteadyQuiet
<1> QED
  BY <1>1, <1>2, <1>3, <1>4, <1>5, <1>6, <1>7, <1>8 DEF Next, Step

\* Nothing has been reckoned at first.
LEMMA SteadyInit == Init => Steady
<1> SUFFICES ASSUME Init
             PROVE  Steady
  OBVIOUS
<1>1. pc = "idle" /\ tick = 0 /\ reflector = NewReflector /\ energy = Capacity
  BY DEF Init, Fresh
<1>2. pc \notin Sampling /\ pc \notin Spending
  BY <1>1 DEF Sampling, Spending
<1>3. LastReflection = 0
  BY <1>1, <1>2 DEF LastReflection
<1> QED
  BY <1>1, <1>2, <1>3, NewForetold, DrainStarts DEF Steady

\* Every forecast made from two samples or more is right within its band, for every
\* window, horizon, capacity and cost, while no failure came between a poll and its
\* reflection: the line through a steady drain is the drain.
THEOREM DrainForecast == Spec => []SteadyDrainForeseen
<1>1. IInv /\ Steady => SteadyDrainForeseen
  <2> SUFFICES ASSUME IInv, Steady, Reckoned(reflector) = tick
               PROVE  \A e \in reflector.audit : e.points >= 2 => e.hit
    BY DEF SteadyDrainForeseen, Reckoned
  <2>1. tick \in Nat
    BY DEF IInv, LoopTypeOK
  <2>2. LastReflection = tick
    BY <2>1 DEF Steady, LastReflection
  <2> QED
    BY <2>2 DEF Steady, Foretold
<1> QED
  BY <1>1, SteadyInit, SteadyNext, ReflectorTyped, OrderKept, PTL DEF Spec

-----------------------------------------------------------------------------
(* The forecast of threats.                                                *)

\* What was missed, and what waits without expecting a threat.
Missed(r) == {e \in r.audit : ~e.alarmHit}
Doubtful(r) == {q \in {r.pending[i] : i \in DOMAIN r.pending} : ~q.alarm}

\* A reflector that no threat was reported to.
Quiet(r) ==
    /\ \A i \in DOMAIN r.history : ~r.history[i].threat
    /\ \A i \in DOMAIN r.pending : ~r.pending[i].alarm
    /\ \A e \in r.audit : e.alarmHit

\* One that was told of a threat by its last k samples: every sample since may have
\* been missed, while they are less than half of a window, and what waited before.
Learning(r) ==
    \E k \in 0 .. (Window - 1) \div 2 :
        /\ k <= Len(r.history)
        /\ \A i \in DOMAIN r.history : i > Len(r.history) - k => r.history[i].threat
        /\ Cardinality(Missed(r)) + Cardinality(Doubtful(r)) <= Horizon + k

Alarmed == IF threat = None THEN Quiet(reflector) ELSE Learning(reflector)

\* What waits is finite, and no more than the queue is long.
LEMMA DoubtfulFew ==
    ASSUME NEW r, r.pending \in Seq(Prediction)
    PROVE  /\ IsFiniteSet(Doubtful(r)) /\ Cardinality(Doubtful(r)) \in Nat
           /\ Cardinality(Doubtful(r)) <= Len(r.pending)
<1> DEFINE p == r.pending
           n == Len(p)
           all == {p[i] : i \in 1 .. n}
<1>1. n \in Nat /\ DOMAIN p = 1 .. n
  BY LenProperties
<1>2. IsFiniteSet(1 .. n) /\ Cardinality(1 .. n) = n
  <2>1. Cardinality(1 .. n) = IF 1 > n THEN 0 ELSE n - 1 + 1
    BY <1>1, FS_Interval
  <2> QED
    BY <1>1, <2>1, FS_Interval
<1>3. Doubtful(r) \subseteq all
  BY <1>1 DEF Doubtful
<1> HIDE DEF n
<1>4. IsFiniteSet(all) /\ Cardinality(all) <= n
  <2> DEFINE S == 1 .. n
  <2>1. IsFiniteSet(S) /\ Cardinality(S) = n
    BY <1>2
  <2> HIDE DEF S
  <2>2. IsFiniteSet({p[i] : i \in S}) /\ Cardinality({p[i] : i \in S}) <= n
    BY <2>1, ImageFinite
  <2> QED
    BY <2>2 DEF S
<1> HIDE DEF all
<1>5. /\ IsFiniteSet(Doubtful(r))
      /\ Cardinality(Doubtful(r)) <= Cardinality(all)
  BY <1>3, <1>4, FS_Subset
<1>6. Cardinality(Doubtful(r)) \in Nat /\ Cardinality(all) \in Nat
  BY <1>4, <1>5, FS_CardinalityType
<1> QED
  BY <1>1, <1>4, <1>5, <1>6 DEF n

\* Nothing was missed by a reflector that no threat was reported to.
LEMMA QuietMissed ==
    ASSUME NEW r, Quiet(r)
    PROVE  IsFiniteSet(Missed(r)) /\ Cardinality(Missed(r)) = 0
<1>1. Missed(r) = {}
  BY DEF Quiet, Missed
<1> QED
  BY <1>1, FS_EmptySet

\* It starts learning with nothing missed.
LEMMA QuietLearning ==
    ASSUME NEW r, Typed(r), Quiet(r), Len(r.pending) <= Horizon
    PROVE  Learning(r)
<1>1. r.pending \in Seq(Prediction) /\ Len(r.history) \in Nat
      /\ DOMAIN r.history = 1 .. Len(r.history) /\ Len(r.pending) \in Nat
  BY LenProperties DEF Typed
<1>2. Cardinality(Missed(r)) = 0 /\ Cardinality(Doubtful(r)) \in Nat
      /\ Cardinality(Doubtful(r)) <= Len(r.pending)
  BY <1>1, QuietMissed, DoubtfulFew
<1>3. 0 \in 0 .. (Window - 1) \div 2 /\ Horizon \in Nat
  <2>1. Window \in Nat \ {0} /\ Horizon \in Nat
    BY ReflectAssumption
  <2>2. (Window - 1) \div 2 \in Nat
    BY <2>1
  <2> QED
    BY <2>1, <2>2
<1>4. /\ 0 <= Len(r.history)
      /\ \A i \in DOMAIN r.history : ~(i > Len(r.history) - 0)
      /\ Cardinality(Missed(r)) + Cardinality(Doubtful(r)) <= Horizon + 0
  BY <1>1, <1>2, <1>3
<1> QED
  BY <1>3, <1>4 DEF Learning

\* Reflecting on a sample without a threat stays quiet.
LEMMA ReflectQuiet ==
    ASSUME NEW r, Typed(r), Quiet(r), NEW sample \in Sample, ~sample.threat
    PROVE  Quiet(ReflectorTick(r, sample))
<1> DEFINE after == ReflectorTick(r, sample)
           p == r.pending
           due == Due(p, sample.cycle)
           history == after.history
           h == Len(history)
           new == PredictAll(history, sample)
           points == Newest(history, Window)
<1>1. /\ r.history \in Seq(Sample) /\ p \in Seq(Prediction)
      /\ Len(p) \in Nat /\ DOMAIN p = 1 .. Len(p)
      /\ Len(r.history) \in Nat /\ DOMAIN r.history = 1 .. Len(r.history)
  BY LenProperties DEF Typed
<1>2. \A i \in DOMAIN p : p[i] \in Prediction
  BY <1>1, ElementOfSeq
<1>3. \A i \in DOMAIN p : p[i].target \in Nat /\ p[i].alarm \in BOOLEAN
  BY <1>2 DEF Prediction
<1>4. /\ due \in 0 .. Len(p)
      /\ history \in Seq(Sample)
      /\ h \in Nat \ {0}
      /\ history[h] = sample
      /\ Continues(history, r.history, sample)
      /\ StillWaiting(r, sample, after)
  <2>1. \A i \in DOMAIN r.pending : r.pending[i].target \in Nat
    BY <1>3
  <2>2. r.history \in Seq(Sample) /\ r.pending \in Seq(Prediction)
    BY <1>1
  <2> QED
    BY <2>1, <2>2, TickMakes
<1>5. after.audit = r.audit \cup {Evaluate(p[i], sample) : i \in 1 .. due}
  BY DEF ReflectorTick
<1>6. \A i \in DOMAIN after.pending :
        \/ after.pending[i] = new
        \/ \E j \in due + 1 .. Len(p) : after.pending[i] = p[j]
  BY <1>4 DEF StillWaiting
<1>hist. \A i \in 1 .. h - 1 :
           /\ i + (Len(r.history) + 1 - h) \in 1 .. Len(r.history)
           /\ history[i] = r.history[i + (Len(r.history) + 1 - h)]
  BY <1>4 DEF Continues
<1> HIDE DEF after, due, history, h
<1>7. \A i \in DOMAIN history : ~history[i].threat
  <2>1. DOMAIN history = 1 .. h
    BY <1>4, LenProperties DEF h
  <2>2. \A i \in 1 .. h : i = h \/ i \in 1 .. h - 1
    BY <1>4
  <2>3. \A i \in 1 .. h - 1 : ~history[i].threat
    BY <1>1, <1>hist DEF Quiet
  <2> QED
    BY <1>4, <2>1, <2>2, <2>3
<1>8. ~new.alarm
  <2>1. /\ points \in Seq(Sample) /\ Len(points) \in Nat \ {0}
        /\ \A i \in 1 .. Len(points) :
              /\ i + (Len(history) - Len(points)) \in 1 .. Len(history)
              /\ points[i] = history[i + (Len(history) - Len(points))]
    BY <1>4, PointsAre DEF h
  <2>2. DOMAIN points = 1 .. Len(points) /\ DOMAIN history = 1 .. Len(history)
    BY <1>4, <2>1, LenProperties
  <2>3. new.alarm = PredictThreat(points)
    BY DEF PredictAll
  <2> HIDE DEF points, new
  <2>4. {i \in DOMAIN points : points[i].threat} = {}
    BY <1>7, <2>1, <2>2
  <2>5. Cardinality({i \in DOMAIN points : points[i].threat}) = 0
    BY <2>4, FS_EmptySet
  <2>6. ~PredictThreat(points)
    BY <2>1, <2>5 DEF PredictThreat
  <2> QED
    BY <2>3, <2>6
<1>9. \A i \in DOMAIN after.pending : ~after.pending[i].alarm
  <2>1. \A j \in due + 1 .. Len(p) : j \in DOMAIN p
    BY <1>1, <1>4
  <2>2. \A j \in DOMAIN p : ~p[j].alarm
    BY DEF Quiet
  <2> HIDE DEF new
  <2> QED
    BY <1>6, <1>8, <2>1, <2>2
<1>10. \A e \in after.audit : e.alarmHit
  <2>1. ASSUME NEW i \in 1 .. due
        PROVE  Evaluate(p[i], sample).alarmHit
    <3>1. i \in DOMAIN p
      BY <1>1, <1>4
    <3>2. p[i].alarm = FALSE /\ sample.threat = FALSE
      BY <1>3, <3>1 DEF Quiet, Sample
    <3> QED
      BY <3>2 DEF Evaluate
  <2>2. \A e \in r.audit : e.alarmHit
    BY DEF Quiet
  <2> QED
    BY <1>5, <2>1, <2>2
<1> QED
  BY <1>7, <1>9, <1>10 DEF Quiet, after, history

\* Samples that carried a threat are too few to expect one only while they are less
\* than half of a window.
LEMMA AlarmExpected ==
    ASSUME NEW history \in Seq(Sample), Len(history) > 0, NEW sample,
           NEW k \in Nat, k <= Len(history),
           \A i \in DOMAIN history : i > Len(history) - k => history[i].threat,
           ~PredictAll(history, sample).alarm
    PROVE  2 * k < Window
<1> DEFINE points == Newest(history, Window)
           n == Len(points)
           h == Len(history)
           I == {i \in DOMAIN points : points[i].threat}
<1>1. /\ points \in Seq(Sample) /\ n \in Nat \ {0} /\ n <= h /\ n <= Window
      /\ \A i \in 1 .. n : i + (h - n) \in 1 .. h /\ points[i] = history[i + (h - n)]
  BY PointsAre
<1>2. DOMAIN points = 1 .. n /\ DOMAIN history = 1 .. h /\ h \in Nat
  BY <1>1, LenProperties
<1>3. ~PredictThreat(points)
  BY DEF PredictAll
<1> HIDE DEF points
<1>4. IsFiniteSet(1 .. n) /\ Cardinality(1 .. n) = n
  <2>1. Cardinality(1 .. n) = IF 1 > n THEN 0 ELSE n - 1 + 1
    BY <1>1, FS_Interval
  <2> QED
    BY <1>1, <2>1, FS_Interval
<1> HIDE DEF n, h
<1>5. \A i \in 1 .. n : i > n - k => i \in I
  <2> SUFFICES ASSUME NEW i \in 1 .. n, i > n - k
               PROVE  points[i].threat
    BY <1>2
  <2>1. i + (h - n) > h - k
    BY <1>1, <1>2
  <2> QED
    BY <1>1, <1>2, <2>1 DEF h
<1>6. I \subseteq 1 .. n
  BY <1>2
<1> HIDE DEF I
<1>7. 2 * Cardinality(I) < n /\ Cardinality(I) \in Nat
  <2>1. Cardinality(I) \in Nat
    BY <1>4, <1>6, FS_Subset, FS_CardinalityType
  <2>2. ~(2 * Cardinality(I) >= n)
    BY <1>3 DEF PredictThreat, I, n
  <2> QED
    BY <1>1, <2>1, <2>2
<1>8. k < n
  <2>1. ASSUME k >= n
        PROVE  FALSE
    <3>1. \A i \in 1 .. n : i > n - k
      BY <1>1, <2>1
    <3>2. I = 1 .. n
      BY <1>5, <1>6, <3>1
    <3> QED
      BY <1>1, <1>4, <1>7, <3>2
  <2> QED
    BY <1>1, <2>1
<1>9. k <= Cardinality(I)
  <2> DEFINE J == n - k + 1 .. n
  <2>1. J \subseteq I
    BY <1>1, <1>5, <1>8
  <2>2. Cardinality(J) = k
    <3>1. Cardinality(n - k + 1 .. n) = IF n - k + 1 > n THEN 0 ELSE n - (n - k + 1) + 1
      BY <1>1, FS_Interval
    <3> QED
      BY <1>1, <3>1
  <2> HIDE DEF J
  <2>3. Cardinality(J) <= Cardinality(I)
    <3>1. IsFiniteSet(I)
      BY <1>4, <1>6, FS_Subset
    <3> QED
      BY <2>1, <3>1, FS_Subset
  <2> QED
    BY <2>2, <2>3
<1>10. Window \in Nat
  BY ReflectAssumption
<1> QED
  BY <1>1, <1>7, <1>9, <1>10

\* A sample with a threat moves what was doubtful and due to what was missed, and
\* leaves one more doubtful at most.
LEMMA LearningCounts ==
    ASSUME NEW r, NEW now \in Nat, Orderly(r, now), Typed(r), IsFiniteSet(r.audit),
           NEW sample \in Sample, sample.threat
    PROVE  LET after == ReflectorTick(r, sample)
               more  == IF PredictAll(after.history, sample).alarm THEN 0 ELSE 1
           IN  /\ Cardinality(Missed(r)) + Cardinality(Doubtful(r)) \in Nat
               /\ Cardinality(Missed(after)) + Cardinality(Doubtful(after)) \in Nat
               /\ Cardinality(Missed(after)) + Cardinality(Doubtful(after))
                    <= Cardinality(Missed(r)) + Cardinality(Doubtful(r)) + more
<1> DEFINE after == ReflectorTick(r, sample)
           c == sample.cycle
           p == r.pending
           due == Due(p, c)
           new == PredictAll(after.history, sample)
           extra == IF new.alarm THEN {} ELSE {new}
           more == IF new.alarm THEN 0 ELSE 1
           U == {q \in Doubtful(r) : q.target <= c}
           V == {q \in Doubtful(r) : ~(q.target <= c)}
           judged == {Evaluate(q, sample) : q \in U}
<1>1. c \in Nat /\ p \in Seq(Prediction) /\ r.history \in Seq(Sample)
  BY DEF Sample, Typed
<1>2. /\ \A i \in 1 .. due : i \in DOMAIN p /\ p[i].target <= c
      /\ \A j \in due + 1 .. Len(p) : j \in DOMAIN p /\ p[j].target > c
  BY <1>1, WaitingNotDue
<1>3. \A i \in DOMAIN p : p[i].target \in Nat /\ p[i].alarm \in BOOLEAN
  <2>1. \A i \in DOMAIN p : p[i] \in Prediction
    BY <1>1, ElementOfSeq, LenProperties
  <2> QED
    BY <2>1 DEF Prediction
<1>4. StillWaiting(r, sample, after)
  <2>1. \A i \in DOMAIN r.pending : r.pending[i].target \in Nat
    BY <1>3
  <2> QED
    BY <1>1, <2>1, TickMakes
<1>5. after.audit = r.audit \cup {Evaluate(p[i], sample) : i \in 1 .. due}
  BY DEF ReflectorTick
<1>6. \A i \in DOMAIN after.pending :
        \/ after.pending[i] = new
        \/ \E j \in due + 1 .. Len(p) : after.pending[i] = p[j]
  BY <1>4 DEF StillWaiting
<1>7. after.pending \in Seq(Prediction)
  BY ReflectTyped DEF Typed
<1> HIDE DEF after, due, new
<1>8. Doubtful(after) \subseteq V \cup extra
  <2> SUFFICES ASSUME NEW i \in DOMAIN after.pending, ~after.pending[i].alarm
               PROVE  after.pending[i] \in V \cup extra
    BY DEF Doubtful
  <2>1. CASE after.pending[i] = new
    BY <2>1
  <2>2. CASE \E j \in due + 1 .. Len(p) : after.pending[i] = p[j]
    <3> PICK j \in due + 1 .. Len(p) : after.pending[i] = p[j]
      BY <2>2
    <3>1. j \in DOMAIN p /\ p[j].target > c /\ p[j].target \in Nat
      BY <1>2, <1>3
    <3>2. p[j] \in Doubtful(r)
      BY <3>1 DEF Doubtful
    <3>3. ~(p[j].target <= c)
      BY <1>1, <3>1
    <3> QED
      BY <3>2, <3>3
  <2> QED
    BY <1>6, <2>1, <2>2
<1>9. Missed(after) \subseteq Missed(r) \cup judged
  <2> SUFFICES ASSUME NEW e \in after.audit, ~e.alarmHit
               PROVE  e \in Missed(r) \cup judged
    BY DEF Missed
  <2>1. CASE e \in r.audit
    BY <2>1 DEF Missed
  <2>2. CASE \E i \in 1 .. due : e = Evaluate(p[i], sample)
    <3> PICK i \in 1 .. due : e = Evaluate(p[i], sample)
      BY <2>2
    <3>1. i \in DOMAIN p /\ p[i].target <= c /\ p[i].alarm \in BOOLEAN
      BY <1>2, <1>3
    <3>2. e.alarmHit = (p[i].alarm = sample.threat) /\ sample.threat = TRUE
      BY DEF Evaluate, Sample
    <3>3. ~p[i].alarm
      BY <3>1, <3>2
    <3>4. p[i] \in U
      BY <3>1, <3>3 DEF Doubtful
    <3> QED
      BY <3>4
  <2> QED
    BY <1>5, <2>1, <2>2
<1>10. IsFiniteSet(Doubtful(r)) /\ Cardinality(Doubtful(r)) \in Nat
  BY <1>1, DoubtfulFew
<1>11. /\ IsFiniteSet(U) /\ IsFiniteSet(V) /\ Cardinality(U) \in Nat /\ Cardinality(V) \in Nat
       /\ Cardinality(Doubtful(r)) = Cardinality(U) + Cardinality(V)
  <2>1. U \subseteq Doubtful(r) /\ V \subseteq Doubtful(r)
        /\ U \cup V = Doubtful(r) /\ U \cap V = {}
    OBVIOUS
  <2> HIDE DEF U, V
  <2>2. IsFiniteSet(U) /\ IsFiniteSet(V)
    BY <1>10, <2>1, FS_Subset
  <2>3. Cardinality(U \cup V) = Cardinality(U) + Cardinality(V) - Cardinality(U \cap V)
    BY <2>2, FS_Union
  <2>4. Cardinality(U) \in Nat /\ Cardinality(V) \in Nat /\ Cardinality(U \cap V) = 0
    BY <2>1, <2>2, FS_CardinalityType, FS_EmptySet
  <2>5. Cardinality(Doubtful(r)) = Cardinality(U \cup V)
    BY <2>1
  <2>6. Cardinality(Doubtful(r)) = Cardinality(U) + Cardinality(V)
    BY <2>3, <2>4, <2>5
  <2> QED
    BY <2>2, <2>4, <2>6
<1>12. IsFiniteSet(judged) /\ Cardinality(judged) <= Cardinality(U) /\ Cardinality(judged) \in Nat
  <2> DEFINE f == [q \in U |-> Evaluate(q, sample)]
  <2>1. judged = {f[q] : q \in U}
    OBVIOUS
  <2> HIDE DEF f, U, judged
  <2>2. IsFiniteSet(judged) /\ Cardinality(judged) <= Cardinality(U)
    BY <1>11, <2>1, ImageFinite
  <2> QED
    BY <2>2, FS_CardinalityType
<1>13. IsFiniteSet(extra) /\ Cardinality(extra) = more
  BY FS_EmptySet, FS_Singleton
<1>14. IsFiniteSet(Missed(r)) /\ Cardinality(Missed(r)) \in Nat
  <2>1. Missed(r) \subseteq r.audit
    BY DEF Missed
  <2> QED
    BY <2>1, FS_Subset, FS_CardinalityType
<1>15. more \in Nat
  OBVIOUS
<1> HIDE DEF U, V, judged, extra, more
<1>16. /\ Cardinality(Missed(after)) \in Nat
       /\ Cardinality(Missed(after)) <= Cardinality(Missed(r)) + Cardinality(U)
  <2>1. /\ IsFiniteSet(Missed(r) \cup judged)
        /\ Cardinality(Missed(r) \cup judged)
             = Cardinality(Missed(r)) + Cardinality(judged) - Cardinality(Missed(r) \cap judged)
    BY <1>12, <1>14, FS_Union
  <2>2. Cardinality(Missed(r) \cap judged) \in Nat
    BY <1>12, FS_Intersection, FS_CardinalityType
  <2>3. /\ IsFiniteSet(Missed(after))
        /\ Cardinality(Missed(after)) <= Cardinality(Missed(r) \cup judged)
    BY <1>9, <2>1, FS_Subset
  <2>4. Cardinality(Missed(after)) \in Nat
    BY <2>3, FS_CardinalityType
  <2> QED
    BY <1>11, <1>12, <1>14, <2>1, <2>2, <2>3, <2>4
<1>17. /\ Cardinality(Doubtful(after)) \in Nat
       /\ Cardinality(Doubtful(after)) <= Cardinality(V) + more
  <2>1. /\ IsFiniteSet(V \cup extra)
        /\ Cardinality(V \cup extra)
             = Cardinality(V) + Cardinality(extra) - Cardinality(V \cap extra)
    BY <1>11, <1>13, FS_Union
  <2>2. Cardinality(V \cap extra) \in Nat
    BY <1>11, FS_Intersection, FS_CardinalityType
  <2>3. /\ IsFiniteSet(Doubtful(after))
        /\ Cardinality(Doubtful(after)) <= Cardinality(V \cup extra)
    BY <1>8, <2>1, FS_Subset
  <2>4. Cardinality(Doubtful(after)) \in Nat
    BY <2>3, FS_CardinalityType
  <2> QED
    BY <1>11, <1>13, <1>15, <2>1, <2>2, <2>3, <2>4
<1>18. /\ Cardinality(Missed(r)) + Cardinality(Doubtful(r)) \in Nat
       /\ Cardinality(Missed(after)) + Cardinality(Doubtful(after)) \in Nat
       /\ Cardinality(Missed(after)) + Cardinality(Doubtful(after))
            <= Cardinality(Missed(r)) + Cardinality(Doubtful(r)) + more
  BY <1>10, <1>11, <1>14, <1>15, <1>16, <1>17
<1> QED
  BY <1>18 DEF more, new, after

\* So a reflector that is told of a threat at every tick goes on learning.
LEMMA ReflectLearning ==
    ASSUME NEW r, NEW now \in Nat, Orderly(r, now), Typed(r), IsFiniteSet(r.audit),
           Learning(r), NEW sample \in Sample, sample.threat
    PROVE  Learning(ReflectorTick(r, sample))
<1> DEFINE after == ReflectorTick(r, sample)
           history == after.history
           h == Len(history)
           b == Len(r.history)
           new == PredictAll(history, sample)
           half == (Window - 1) \div 2
           most == Cardinality(Missed(r)) + Cardinality(Doubtful(r))
           mostAfter == Cardinality(Missed(after)) + Cardinality(Doubtful(after))
<1>1. PICK k \in 0 .. half :
        /\ k <= b
        /\ \A i \in DOMAIN r.history : i > b - k => r.history[i].threat
        /\ most <= Horizon + k
  BY DEF Learning
<1>2. /\ Window \in Nat \ {0} /\ Horizon \in Nat /\ half \in Nat
      /\ 2 * half <= Window - 1 /\ half + 1 <= ReflectCap
      /\ \A m \in Nat : 2 * m < Window => m <= half
  <2>1. Window \in Nat \ {0} /\ Horizon \in Nat
    BY ReflectAssumption
  <2>2. half \in Nat /\ 2 * half <= Window - 1 /\ half <= Window
        /\ \A m \in Nat : 2 * m < Window => m <= half
    BY <2>1
  <2> HIDE DEF half
  <2> QED
    BY <2>1, <2>2 DEF ReflectCap
<1>3. /\ r.history \in Seq(Sample) /\ r.pending \in Seq(Prediction)
      /\ b \in Nat /\ DOMAIN r.history = 1 .. b
  BY LenProperties DEF Typed
<1>4. /\ history \in Seq(Sample) /\ h \in Nat \ {0}
      /\ h = IF b + 1 > ReflectCap THEN ReflectCap ELSE b + 1
      /\ history[h] = sample
      /\ Continues(history, r.history, sample)
  <2>1. \A i \in DOMAIN r.pending : r.pending[i].target \in Nat
    BY DEF Orderly
  <2> QED
    BY <1>3, <2>1, TickMakes
<1>5. \A i \in 1 .. h - 1 :
        /\ i + (b + 1 - h) \in 1 .. b
        /\ history[i] = r.history[i + (b + 1 - h)]
  BY <1>4 DEF Continues
<1>6. /\ most \in Nat /\ mostAfter \in Nat
      /\ mostAfter <= most + (IF new.alarm THEN 0 ELSE 1)
  BY LearningCounts
<1> HIDE DEF after, history, h, new, half, most, mostAfter, b
<1>7. k + 1 <= h /\ k \in Nat
  <2>1. ReflectCap \in Nat
    BY <1>2, ReflectAssumption DEF ReflectCap
  <2> QED
    BY <1>1, <1>2, <1>3, <1>4, <2>1
<1>8. DOMAIN history = 1 .. h
  BY <1>4, LenProperties DEF h
<1>9. \A i \in DOMAIN history : i > h - (k + 1) => history[i].threat
  <2> SUFFICES ASSUME NEW i \in 1 .. h, i > h - (k + 1)
               PROVE  history[i].threat
    BY <1>8
  <2>1. CASE i = h
    BY <1>4, <2>1
  <2>2. CASE i \in 1 .. h - 1
    <3>1. i + (b + 1 - h) > b - k /\ i + (b + 1 - h) \in 1 .. b
      BY <1>3, <1>4, <1>5, <1>7, <2>2
    <3> QED
      BY <1>1, <1>3, <1>5, <2>2, <3>1
  <2> QED
    BY <1>4, <2>1, <2>2
<1>10. CASE new.alarm
  <2>1. mostAfter <= Horizon + k
    BY <1>1, <1>2, <1>6, <1>7, <1>10
  <2>2. k <= h
    BY <1>4, <1>7
  <2>3. \A i \in DOMAIN history : i > h - k => history[i].threat
    <3>1. \A i \in DOMAIN history : i > h - k => i > h - (k + 1)
      BY <1>4, <1>7, <1>8
    <3> QED
      BY <1>9, <3>1
  <2> QED
    BY <1>1, <2>1, <2>2, <2>3 DEF Learning, after, history, h, half, mostAfter
<1>11. CASE ~new.alarm
  <2>1. 2 * (k + 1) < Window
    <3> DEFINE m == k + 1
    <3>1. /\ m \in Nat /\ m <= Len(history) /\ Len(history) > 0
          /\ \A i \in DOMAIN history : i > Len(history) - m => history[i].threat
          /\ ~PredictAll(history, sample).alarm
      BY <1>4, <1>7, <1>9, <1>11 DEF h, new
    <3> HIDE DEF m
    <3>2. 2 * m < Window
      BY <1>4, <3>1, AlarmExpected
    <3> QED
      BY <3>2 DEF m
  <2>2. k + 1 \in 0 .. half
    BY <1>2, <1>7, <2>1
  <2>3. mostAfter <= Horizon + (k + 1)
    BY <1>1, <1>2, <1>6, <1>7, <1>11
  <2> QED
    BY <1>7, <1>9, <2>2, <2>3 DEF Learning, after, history, h, half, mostAfter
<1> QED
  BY <1>10, <1>11 DEF after

\* Every step keeps the reflector quiet until a threat is classified, and learning
\* from then on: last_threat is not cleared while the process lives.
LEMMA AlarmedNext ==
    /\ IInv /\ InOrder /\ Steady /\ Typed(reflector) /\ Alarmed /\ [Next]_vars
    => Alarmed'
<1> SUFFICES ASSUME IInv, InOrder, Steady, Typed(reflector), Alarmed, [Next]_vars
             PROVE  Alarmed'
  OBVIOUS
<1>1. CASE Reflection
  <2>1. /\ reflector' = ReflectorTick(reflector, Polled) /\ threat' = threat
        /\ Polled.threat = (threat # None) /\ Polled.cycle = tick
        /\ pc \in Sampling
    BY <1>1 DEF Reflection, Polled, Sampling
  <2>2. /\ tick \in Nat /\ energy \in Nat
        /\ LastReflection \in Nat /\ Orderly(reflector, LastReflection)
    BY <2>1, DriveAssumption DEF IInv, LoopTypeOK, InOrder, LastReflection
  <2>3. Polled \in Sample
    BY <2>2 DEF Polled, Sample
  <2>4. CASE threat = None
    <3>1. Quiet(reflector')
      BY <2>1, <2>3, <2>4, ReflectQuiet DEF Alarmed
    <3> QED
      BY <2>1, <2>4, <3>1 DEF Alarmed
  <2>5. CASE threat # None
    <3>1. Learning(reflector')
      BY <2>1, <2>2, <2>3, <2>5, ReflectLearning DEF Alarmed, Steady
    <3> QED
      BY <2>1, <2>5, <3>1 DEF Alarmed
  <2> QED
    BY <2>4, <2>5
<1>2. CASE Classify
  <2>1. reflector' = reflector /\ (threat' = threat \/ threat' # None)
    BY <1>2, NoneAssumption DEF Classify, Severity
  <2>2. Quiet(reflector) => Learning(reflector)
    BY QuietLearning DEF InOrder, Orderly
  <2> QED
    BY <2>1, <2>2 DEF Alarmed
<1>3. CASE Crash
  <2>1. reflector' = NewReflector /\ threat' = None
    BY <1>3 DEF Crash
  <2>2. Quiet(NewReflector)
    BY DEF Quiet, NewReflector
  <2> QED
    BY <2>1, <2>2 DEF Alarmed
<1>4. CASE \E m \in 0 .. MaxCycles : Run(m)
  BY <1>4 DEF Run, Alarmed
<1>5. CASE Sense \/ SenseFails \/ Capture \/ StoreCheckpoint \/ StoreShards
             \/ StoreFails \/ Authorize \/ Act
  BY <1>5 DEF Sense, SenseFails, Capture, StoreCheckpoint, StoreShards, StoreFails,
     Authorize, Act, Alarmed
<1>6. CASE UNCHANGED vars
  BY <1>6 DEF vars, Alarmed
<1> QED
  BY <1>1, <1>2, <1>3, <1>4, <1>5, <1>6 DEF Next, Step

\* For every window and horizon, over any number of ticks and failures, the forecast
\* of threats misses no more than what was predicted before the first alarm of a life,
\* and what is predicted until alarms fill half of the window.
THEOREM AlarmsLearnt == Spec => []AlarmLearnt
<1>1. Typed(reflector) /\ Steady /\ Alarmed => AlarmLearnt
  <2> SUFFICES ASSUME Typed(reflector), Steady, Alarmed
               PROVE  Cardinality(Missed(reflector)) <= Horizon + (Window - 1) \div 2
    BY DEF AlarmLearnt, Missed
  <2> DEFINE half == (Window - 1) \div 2
  <2>1. Horizon \in Nat /\ half \in Nat
    BY ReflectAssumption
  <2>2. Missed(reflector) \subseteq reflector.audit
    BY DEF Missed
  <2>3. Cardinality(Missed(reflector)) \in Nat /\ Cardinality(Doubtful(reflector)) \in Nat
    BY <2>2, FS_Subset, FS_CardinalityType, DoubtfulFew DEF Steady, Typed
  <2>4. CASE threat = None
    <3>1. Cardinality(Missed(reflector)) = 0
      BY <2>4, QuietMissed DEF Alarmed
    <3> HIDE DEF half
    <3> QED
      BY <2>1, <3>1 DEF half
  <2>5. CASE threat # None
    <3>1. PICK k \in 0 .. half :
            Cardinality(Missed(reflector)) + Cardinality(Doubtful(reflector)) <= Horizon + k
      BY <2>5 DEF Alarmed, Learning
    <3> HIDE DEF half
    <3>2. Cardinality(Missed(reflector)) <= Horizon + half
      BY <2>1, <2>3, <3>1
    <3> QED
      BY <3>2 DEF half
  <2> QED
    BY <2>4, <2>5
<1>2. Init => Alarmed
  BY DEF Init, Alarmed, Quiet, NewReflector
<1> QED
  BY <1>1, <1>2, AlarmedNext, SteadyInit, SteadyNext, ReflectorTyped, OrderKept, PTL DEF Spec
=============================================================================
