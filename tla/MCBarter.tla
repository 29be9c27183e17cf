------------------------------ MODULE MCBarter ------------------------------
(* The values TLC gives the constants of Barter. *)
EXTENDS Barter, TLC

CONSTANTS ann, bob, eve, compute, storage

\* Ann offers compute for storage; the quantities make half a delivery exact.
MCTerms ==
    {[gives |-> [kind |-> compute, qty |-> 2],
      wants |-> [kind |-> storage, qty |-> 2]]}

MCEndowment == [a \in Agent |-> [k \in Kind |-> 4]]

\* Enough for one delivery, not for two.
MCScarce == [a \in Agent |-> [k \in Kind |-> 2]]

MCSymmetry == Permutations(Agent)
=============================================================================
