------------------------------- MODULE Drive -------------------------------
(***************************************************************************)
(* The survival loop of the vitalis-drive app: each cycle senses, sets the *)
(* throttle, classifies one threat signal, replicates at most once if it   *)
(* is escape-worthy, reflects, and spends energy.  Storage and sensing may *)
(* fail, which ends the run with an error wherever it was, and the process *)
(* may be killed between any two steps.                                    *)
(*                                                                         *)
(* Left out: the metabolism's ledger, which nothing in the loop reads, and *)
(* the negotiator's sweep, which finds nothing because the drive gives its *)
(* negotiator no message.  Fractions of the capacity are in percent.       *)
(***************************************************************************)
EXTENDS Reflect

CONSTANTS
    Capacity,        \* energy_capacity
    Cost,            \* cost_per_cycle
    ReplicateBelow,  \* replicate_below
    ThrottleStart,   \* ThrottleProfile of the survival profile
    ThrottleFloor,
    Aggressive,
    KillAt,          \* simulate_kill_at; 0 is None
    MaxCopies,       \* max_copies
    Faulty,          \* sensing and storage may fail
    None,            \* no checkpoint, no threat
    MaxCycles,       \* bound: the argument of run
    MaxRuns,         \* bound: calls of run on one Drive
    MaxLives         \* bound: processes started one after the other

ASSUME DriveAssumption ==
    /\ Capacity \in Nat \ {0}
    /\ {Cost, KillAt, MaxCopies, MaxCycles, MaxRuns} \subseteq Nat
    /\ {ReplicateBelow, ThrottleStart, ThrottleFloor} \subseteq 0 .. 100
    /\ ThrottleFloor < ThrottleStart
    /\ {Aggressive, Faulty} \subseteq BOOLEAN
    /\ MaxLives \in Nat \ {0}

Snapshot == [tick : Nat, energy : 0 .. Capacity]

Severity == {"warning", "critical"}

ASSUME NoneAssumption == None \notin Snapshot \cup Severity

VARIABLES
    pc,            \* where run is; "idle" between runs
    cycle,         \* run's loop counter
    limit,         \* run's max_cycles
    replications,  \* run's count
    tick,          \* SenseTick's counter, which runs share
    throttle,      \* throttle_level, in thousandths
    energy,        \* energy_remaining
    replicated,
    threat,        \* severity of last_threat
    captured,      \* the replicator's current checkpoint
    live,          \* copies authorized
    reflector,     \* the Reflector's state
    checkpoint,    \* "checkpoint" in the state store
    sharded,       \* "shards" is in the state store
    persisted,     \* history: the checkpoint stored last, in any life
    runs,          \* bound: runs so far in this life
    lives          \* bound: processes so far

loop  == <<cycle, limit, replications>>
store == <<checkpoint, sharded, persisted>>
vars  == <<pc, loop, tick, throttle, energy, replicated, threat, captured, live,
           reflector, store, runs, lives>>

\* Drive::new: nothing is read back, and the memory store is a new one.
Fresh ==
    [pc |-> "idle", energy |-> Capacity, throttle |-> 1000, checkpoint |-> None]

Init ==
    /\ pc = Fresh.pc
    /\ cycle = 0 /\ limit = 0 /\ replications = 0
    /\ tick = 0
    /\ throttle = Fresh.throttle
    /\ energy = Fresh.energy
    /\ replicated = FALSE
    /\ threat = None
    /\ captured = None
    /\ live = 0
    /\ reflector = NewReflector
    /\ checkpoint = Fresh.checkpoint
    /\ sharded = FALSE
    /\ persisted = None
    /\ runs = 0
    /\ lives = 1

-----------------------------------------------------------------------------
(* compute_throttle, floored at the safety ceiling's minimum of zero.      *)

Percent(e, p) == e * 100 - p * Capacity     \* e's excess over p percent

ThrottleFor(e) ==
    LET rise == Percent(e, ThrottleFloor)
        span == (ThrottleStart - ThrottleFloor) * Capacity
    IN  IF Percent(e, ThrottleStart) >= 0 THEN 1000
        ELSE IF rise <= 0 THEN 0
        ELSE IF Aggressive THEN (1000 * rise * rise) \div (span * span)
        ELSE (1000 * rise) \div span

-----------------------------------------------------------------------------
(* The steps of a run.                                                     *)

\* run(m); with no cycle to run it returns at once.
Run(m) ==
    /\ pc = "idle"
    /\ runs < MaxRuns
    /\ runs' = runs + 1
    /\ pc' = IF m = 0 THEN "idle" ELSE "sense"
    /\ cycle' = 1
    /\ limit' = m
    /\ replications' = 0
    /\ UNCHANGED <<tick, throttle, energy, replicated, threat, captured, live,
                   reflector, store, lives>>

\* poll and tick_energy.
Sense ==
    /\ pc = "sense"
    /\ tick' = tick + 1
    /\ throttle' = ThrottleFor(energy)
    /\ pc' = "defend"
    /\ UNCHANGED <<loop, energy, replicated, threat, captured, live, reflector,
                   store, runs, lives>>

\* poll returning Err: run returns it.
SenseFails ==
    /\ Faulty
    /\ pc = "sense"
    /\ pc' = "idle"
    /\ UNCHANGED <<loop, tick, throttle, energy, replicated, threat, captured,
                   live, reflector, store, runs, lives>>

\* Seeded fault: starvation is noticed only once nothing is left.
SignalLate ==
    IF KillAt = cycle THEN "SIGKILL"
    ELSE IF energy <= 0 THEN "STARVATION"
    ELSE IF Percent(energy, ReplicateBelow) < 0 THEN "LOW_BATTERY"
    ELSE "HEARTBEAT"

\* The one signal of the cycle, decided on the energy left after its spend.
Signal ==
    IF KillAt = cycle THEN "SIGKILL"
    ELSE IF energy - Cost <= 0 THEN "STARVATION"
    ELSE IF Percent(energy, ReplicateBelow) < 0 THEN "LOW_BATTERY"
    ELSE "HEARTBEAT"

\* classify_signal: a heartbeat is no threat, a low battery only a warning.
Critical == {"SIGKILL", "STARVATION"}

\* Seeded fault: every escape-worthy threat replicates again.
EscapesAgain == Signal \in Critical

Escapes == Signal \in Critical /\ ~replicated

Classify ==
    /\ pc = "defend"
    /\ threat' = IF Signal = "HEARTBEAT" THEN threat
                 ELSE IF Signal \in Critical THEN "critical" ELSE "warning"
    /\ pc' = IF Escapes THEN "capture" ELSE "reflect"
    /\ UNCHANGED <<loop, tick, throttle, energy, replicated, captured, live,
                   reflector, store, runs, lives>>

\* Seeded fault: the flag is set before anything is stored.
CaptureMarked ==
    /\ pc = "capture"
    /\ captured' = [tick |-> tick, energy |-> energy]
    /\ replicated' = TRUE
    /\ pc' = "store"
    /\ UNCHANGED <<loop, tick, throttle, energy, threat, live, reflector,
                   store, runs, lives>>

\* replicate, from here to Authorize: capture the state as it is.
Capture ==
    /\ pc = "capture"
    /\ captured' = [tick |-> tick, energy |-> energy]
    /\ pc' = "store"
    /\ UNCHANGED <<loop, tick, throttle, energy, replicated, threat, live,
                   reflector, store, runs, lives>>

StoreCheckpoint ==
    /\ pc = "store"
    /\ checkpoint' = captured
    /\ persisted' = captured
    /\ pc' = "shards"
    /\ UNCHANGED <<loop, tick, throttle, energy, replicated, threat, captured,
                   live, reflector, sharded, runs, lives>>

\* Only the number of shards is stored.
StoreShards ==
    /\ pc = "shards"
    /\ sharded' = TRUE
    /\ pc' = "authorize"
    /\ UNCHANGED <<loop, tick, throttle, energy, replicated, threat, captured,
                   live, reflector, checkpoint, persisted, runs, lives>>

\* Seeded fault: a failed put is tried again from the start, for ever.
StoreRetries ==
    /\ Faulty
    /\ pc \in {"store", "shards"}
    /\ pc' = "capture"
    /\ UNCHANGED <<loop, tick, throttle, energy, replicated, threat, captured,
                   live, reflector, store, runs, lives>>

\* A put returning Err: replicate and run return it.
StoreFails ==
    /\ Faulty
    /\ pc \in {"store", "shards"}
    /\ pc' = "idle"
    /\ UNCHANGED <<loop, tick, throttle, energy, replicated, threat, captured,
                   live, reflector, store, runs, lives>>

\* authorize_copy; at the cap the loop goes on and still counts a replication.
Authorize ==
    /\ pc = "authorize"
    /\ live' = IF live < MaxCopies THEN live + 1 ELSE live
    /\ replicated' = TRUE
    /\ replications' = replications + 1
    /\ pc' = "reflect"
    /\ UNCHANGED <<cycle, limit, tick, throttle, energy, threat, captured,
                   reflector, store, runs, lives>>

\* REFLECT: the reflector is given the cycle of the poll and the energy before
\* the spend; nothing else reads what it makes of them.
Reflection ==
    /\ pc = "reflect"
    /\ reflector' = ReflectorTick(reflector,
            [cycle |-> tick, energy |-> energy, threat |-> threat # None])
    /\ pc' = "act"
    /\ UNCHANGED <<loop, tick, throttle, energy, replicated, threat, captured,
                   live, store, runs, lives>>

\* Seeded fault: the energy left is not clamped at zero.
ActUnclamped ==
    /\ pc = "act"
    /\ energy' = energy - Cost
    /\ IF energy' <= 0 \/ cycle = limit
       THEN pc' = "idle" /\ UNCHANGED cycle
       ELSE pc' = "sense" /\ cycle' = cycle + 1
    /\ UNCHANGED <<limit, replications, tick, throttle, replicated, threat,
                   captured, live, reflector, store, runs, lives>>

\* ACT: spend; depletion or the last cycle ends the run.
Act ==
    /\ pc = "act"
    /\ energy' = IF energy > Cost THEN energy - Cost ELSE 0
    /\ IF energy' = 0 \/ cycle = limit
       THEN pc' = "idle" /\ UNCHANGED cycle
       ELSE pc' = "sense" /\ cycle' = cycle + 1
    /\ UNCHANGED <<limit, replications, tick, throttle, replicated, threat,
                   captured, live, reflector, store, runs, lives>>

\* The process is killed, and a new one built by Drive::new.
Crash ==
    /\ lives < MaxLives
    /\ lives' = lives + 1
    /\ pc' = Fresh.pc
    /\ cycle' = 0 /\ limit' = 0 /\ replications' = 0
    /\ tick' = 0
    /\ throttle' = Fresh.throttle
    /\ energy' = Fresh.energy
    /\ replicated' = FALSE
    /\ threat' = None
    /\ captured' = None
    /\ live' = 0
    /\ reflector' = NewReflector
    /\ checkpoint' = Fresh.checkpoint
    /\ sharded' = FALSE
    /\ runs' = 0
    /\ UNCHANGED persisted

Step ==
    \/ Sense \/ SenseFails \/ Classify \/ Capture \/ StoreCheckpoint
    \/ StoreShards \/ StoreFails \/ Authorize \/ Reflection \/ Act

Next == Step \/ Crash \/ \E m \in 0 .. MaxCycles : Run(m)

Spec == Init /\ [][Next]_vars

\* run is a loop in one thread: while it is not idle it takes its next step.
FairSpec == Spec /\ WF_vars(Step)

-----------------------------------------------------------------------------
(* Properties.                                                             *)

\* The loop's own variables have their types; no copy of one life exceeds the cap.
LoopTypeOK ==
    /\ pc \in {"idle", "sense", "defend", "capture", "store", "shards",
               "authorize", "reflect", "act"}
    /\ {cycle, limit, replications, tick, runs, lives} \subseteq Nat
    /\ throttle \in 0 .. 1000
    /\ energy \in 0 .. Capacity
    /\ {replicated, sharded} \subseteq BOOLEAN
    /\ threat \in Severity \cup {None}
    /\ {captured, checkpoint, persisted} \subseteq Snapshot \cup {None}
    /\ live \in 0 .. MaxCopies

\* So have the reflector's, within the bounds it keeps.
TypeOK ==
    /\ LoopTypeOK
    /\ reflector.history \in Seq(Sample)
    /\ reflector.pending \in Seq(Prediction)
    /\ reflector.audit \subseteq Evaluation
    /\ {Len(reflector.history), Len(reflector.pending)} \subseteq 0 .. ReflectCap

\* Whatever failed on the way, over however many runs, an agent that ran out of
\* energy left a checkpoint first (the signal is decided on the energy left
\* after the spend, so that the last cycle already escapes).
ExhaustedHasCheckpoint == energy = 0 => replicated /\ checkpoint # None

\* The flag that stops further replication is only set once checkpoint and
\* shards are both stored: a put that fails leaves the escape to be tried again.
ReplicatedMeansStored == replicated => checkpoint # None /\ sharded

\* "the drive caps itself at one redundant copy per run".
OneReplication == replications <= 1 /\ live <= 1

\* No prediction is dropped unjudged: the queue drains before its bound matters.
ForecastsKept == Len(reflector.pending) <= Horizon

Reflected(from, to) ==
    \E i \in DOMAIN reflector.history : reflector.history[i].cycle \in from .. to

\* A prediction is judged by the first sample of its cycle or a later one, also
\* when a failure left its own cycle without a sample; until then it waits.
JudgedAtFirstChance ==
    /\ \A e \in reflector.audit :
          e.at >= e.target /\ ~Reflected(e.target, e.at - 1)
    /\ \A i \in DOMAIN reflector.pending :
          ~Reflected(reflector.pending[i].target, tick)

\* The loop drains energy steadily, so that while no failure has come between
\* a poll and its reflection every forecast from two samples or more is a hit.
SteadyDrainForeseen ==
    Len(reflector.pending) + Cardinality(reflector.audit) = tick =>
        \A e \in reflector.audit : e.points >= 2 => e.hit

\* last_threat is never cleared, so that after the first alarm of a life every
\* sample carries one; the forecast of threats misses no more than it must: what
\* was predicted before the alarm, and until it fills half of the window.
AlarmLearnt ==
    Cardinality({e \in reflector.audit : ~e.alarmHit}) <= Horizon + (Window - 1) \div 2

\* A run returns, whatever fails in it.
RunReturns == pc # "idle" ~> pc = "idle"

=============================================================================
