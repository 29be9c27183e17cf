---------------------------- MODULE MCCheckpoint ----------------------------
(* The values TLC gives the constants of Checkpoint. *)
EXTENDS Checkpoint, TLC

CONSTANTS n1, n2, home, other, p1, p2

\* Every node hosts the same agent, as the receiving end of a migration does;
\* blobs of another agent come from damage.
MCHosts == [n \in Node |-> home]

\* Which state an agent was captured in makes no difference to anything.
MCSymmetry == Permutations(Payload)
=============================================================================
