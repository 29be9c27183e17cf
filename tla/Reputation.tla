----------------------------- MODULE Reputation -----------------------------
(***************************************************************************)
(* The direct pool of a peer's reputation, as vitalis-negotiate keeps it   *)
(* (ReputationRecord in negotiator.rs).  Weights are integers: Unit stands *)
(* for the code's 1.0, so Threshold is the code's 1.5 times Unit.  The     *)
(* code's direct_failures and direct_failure_weight are updated by the     *)
(* same expression at the same places and never differ; one field,         *)
(* failures, stands for both.                                              *)
(***************************************************************************)
EXTENDS Integers, Sequences

CONSTANTS
    Unit,         \* the weight of one fully kept or fully broken bargain
    Threshold,    \* DIRECT_BLACKLIST_THRESHOLD
    HalfLife      \* decay_half_life_cycles; 0 switches decay off

ASSUME WeightsAssumption ==
    /\ Unit \in Nat \ {0}
    /\ Threshold \in Nat
    /\ Unit < Threshold
    /\ HalfLife \in Nat

\* u64::saturating_sub, which is how the code takes every age.
Elapsed(now, since) == IF now > since THEN now - since ELSE 0

\* What a weight is divided by after 0, 1, 2, ... half-lives.
Halvings == <<1, 2, 4, 8, 16, 32, 64, 128>>

\* decay_factor applied to a weight: exact when a whole number of half-lives
\* has passed and Unit is a multiple of the divisor, else the floor of the
\* code's curve.  Past the last divisor nothing is left.
Decay(w, elapsed) ==
    LET k == IF HalfLife = 0 THEN 0 ELSE elapsed \div HalfLife
    IN  IF k < Len(Halvings) THEN w \div Halvings[k + 1] ELSE 0

Record == [successes : Nat, failures : Nat, dings : Nat, last : Nat]

Unseen == [successes |-> 0, failures |-> 0, dings |-> 0, last |-> 0]

DecayedSuccesses(r, now) == Decay(r.successes, Elapsed(now, r.last))
DecayedFailures(r, now)  == Decay(r.failures, Elapsed(now, r.last))

\* Decays what is there to now, then adds the new evidence.
AddEvidence(r, kept, broken, strikes, now) ==
    [successes |-> DecayedSuccesses(r, now) + kept,
     failures  |-> DecayedFailures(r, now) + broken,
     dings     |-> r.dings + strikes,
     last      |-> now]

\* record_direct_outcome; ratio is a share of Unit.
RecordOutcome(r, ratio, now) ==
    AddEvidence(r, ratio, Unit - ratio, IF ratio < Unit THEN 1 ELSE 0, now)

\* k outcomes of ratio 0.0 recorded one after the other at the same cycle.
RecordBroken(r, k, now) == AddEvidence(r, 0, k * Unit, k, now)

\* Seeded fault: one broken bargain is enough.
BlacklistedAtOnce(r, now) == DecayedFailures(r, now) >= Unit

Blacklisted(r, now) == DecayedFailures(r, now) >= Threshold

\* fulfillment_ratio, as a share of Unit.
FulfillmentRatio(expected, delivered) ==
    IF expected.kind # delivered.kind THEN 0
    ELSE IF expected.qty <= 0 \/ delivered.qty >= expected.qty THEN Unit
    ELSE (delivered.qty * Unit) \div expected.qty
=============================================================================
