------------------------------- MODULE Reflect -------------------------------
(***************************************************************************)
(* The Reflector of vitalis-reflect, as operators on its state: a bounded  *)
(* history of samples, a queue of predictions that wait for their cycle,   *)
(* and the audit of those that were judged.  It predicts energy and threat *)
(* here; the peers it can also predict are never given to it by the drive. *)
(* The code's floating-point numbers are exact fractions.                  *)
(***************************************************************************)
EXTENDS Integers, Sequences, FiniteSets, FiniteSetsExt

CONSTANTS
    Window,      \* samples a prediction is made from
    Horizon      \* cycles ahead it is about

ASSUME ReflectAssumption == {Window, Horizon} \subseteq Nat \ {0}

\* The most samples, and the most predictions, that are kept.
ReflectCap == Window + Horizon + 4

\* threat tells whether one of at least warning severity was reported.
Sample == [cycle : Nat, energy : Nat, threat : BOOLEAN]

\* value, with its band of uncertainty, over den; points is history.
Forecast == [value : Nat, band : Nat, den : Nat \ {0}]

Prediction == [made : Nat, target : Nat, points : Nat, energy : Forecast,
               alarm : BOOLEAN]

Evaluation == [made : Nat, target : Nat, points : Nat, at : Nat, hit : BOOLEAN,
               alarmHit : BOOLEAN]

NewReflector == [history |-> <<>>, pending |-> <<>>, audit |-> {}]

-----------------------------------------------------------------------------
Newest(s, k) == SubSeq(s, IF Len(s) > k THEN Len(s) - k + 1 ELSE 1, Len(s))

\* linreg, as a line over a common denominator; level if there is one point.
\* (A function: TLC evaluates the argument of one once.)
Line[points \in Seq(Sample)] ==
    LET n   == Len(points)
        Total(Of(_)) == MapThenSumSet(LAMBDA i : Of(points[i]), 1 .. n)
        sx  == Total(LAMBDA p : p.cycle)
        sy  == Total(LAMBDA p : p.energy)
        sxx == n * Total(LAMBDA p : p.cycle * p.cycle) - sx * sx
        sxy == n * Total(LAMBDA p : p.cycle * p.energy) - sx * sy
    IN  IF sxx = 0 THEN [base |-> sy, slope |-> 0, den |-> n]
        ELSE [base |-> sy * sxx - sxy * sx, slope |-> n * sxy, den |-> n * sxx]

At(line, x) == line.base + line.slope * x

Distance(a, b) == IF a > b THEN a - b ELSE b - a

\* The largest distance of a point from the line.
Band(line, points) ==
    Max({Distance(points[i].energy * line.den, At(line, points[i].cycle)) :
            i \in DOMAIN points})

\* Seeded fault: the line is read at the last sample.
PredictEnergyNow(points, target) ==
    LET line == Line[points]
    IN  [value |-> Max({At(line, points[Len(points)].cycle), 0}),
         band |-> Band(line, points), den |-> line.den]

PredictEnergy(points, target) ==
    LET line == Line[points]
    IN  [value |-> Max({At(line, target), 0}),
         band |-> Band(line, points), den |-> line.den]

\* Seeded fault: a threat is expected only if every point carried one.
PredictThreatAll(points) == \A i \in DOMAIN points : points[i].threat

\* predict_threat_likelihood, as evaluate_prediction reads it: a threat is
\* expected if at least half of the points carried one.
PredictThreat(points) ==
    2 * Cardinality({i \in DOMAIN points : points[i].threat}) >= Len(points)

PredictAll(history, sample) ==
    LET points == Newest(history, Window)
        target == sample.cycle + Horizon
    IN  [made |-> sample.cycle, target |-> target, points |-> Len(points),
         energy |-> PredictEnergy(points, target),
         alarm |-> PredictThreat(points)]

Evaluate(p, sample) ==
    [made |-> p.made, target |-> p.target, points |-> p.points,
     at |-> sample.cycle,
     hit |-> Distance(sample.energy * p.energy.den, p.energy.value)
                <= p.energy.band,
     alarmHit |-> p.alarm = sample.threat]

\* Seeded faults: a prediction is judged a cycle late; only one at a time.
DueLate(pending, cycle) ==
    Cardinality({i \in DOMAIN pending : \A j \in 1 .. i : pending[j].target < cycle})
DueSingly(pending, cycle) ==
    IF pending # <<>> /\ pending[1].target <= cycle THEN 1 ELSE 0

\* How many predictions are taken from the front: those due, up to the first
\* one that is not.
Due(pending, cycle) ==
    Cardinality({i \in DOMAIN pending : \A j \in 1 .. i : pending[j].target <= cycle})

\* Reflector::tick: judge, record, predict.
ReflectorTick(r, sample) ==
    LET due == Due(r.pending, sample.cycle)
        left == SubSeq(r.pending, due + 1, Len(r.pending))
        history == Newest(Append(r.history, sample), ReflectCap)
    IN  [history |-> history,
         pending |-> Newest(Append(left, PredictAll(history, sample)), ReflectCap),
         audit |-> r.audit \cup {Evaluate(r.pending[i], sample) : i \in 1 .. due}]
=============================================================================
