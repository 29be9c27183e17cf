------------------------------ MODULE MCGossip ------------------------------
(* The values TLC gives the constants of Gossip. *)
EXTENDS Gossip, TLC

CONSTANTS wit, rel, sub

\* Only agents that are not gossiped about are interchangeable.
MCSymmetry == Permutations(Agent \ Subject)
=============================================================================
