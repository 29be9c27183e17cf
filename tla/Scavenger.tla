----------------------------- MODULE Scavenger -----------------------------
(***************************************************************************)
(* The barter scripts of the feral-scavenger example: run_negotiate, and   *)
(* run_gossip up to its assertion on the breach.  Each step is one call on *)
(* a Negotiator, in the order main makes them, over the handlers of Barter;*)
(* the transport is main itself, which hands every message on at once.     *)
(***************************************************************************)
EXTENDS Barter

CONSTANTS scavenger, rich, honest1, liar

VARIABLE calls      \* calls made so far

\* 2 cu for 500 J between scavenger and rich, 1 cu for 100 J with the liar.
Trade(cu, joule) ==
    [gives |-> [kind |-> "Compute", qty |-> cu],
     wants |-> [kind |-> "Energy", qty |-> joule]]

Swap == Trade(2, 500)
Bait == Trade(1, 100)

ScriptTerms == {Swap, Bait}

ScriptEndowment ==
    [a \in Agent |-> IF a \in {scavenger, honest1}
                     THEN [Compute |-> 10, Energy |-> 0]
                     ELSE [Compute |-> 0, Energy |-> 1000]]

ScriptInit == Init /\ calls = 0

\* The n-th call of main.
Call(n, A) == calls = n - 1 /\ A /\ calls' = n

Offers(a, n, t) == ProposeOffer(a) /\ proposed'[a][n].expect = t.wants

\* Of the offers a has seen, the one main hands it is that of nonce n.
Takes(a, n) == AcceptOffer(a) /\ accepted'[a][n] # NoTrade

DeliversAll(a) == Deliver(a) /\ UNCHANGED excused

\* run_negotiate: the barter is honoured on both sides.
Negotiate ==
    \/ Call(1, Offers(scavenger, 1, Swap))
    \/ Call(2, Takes(rich, 1))
    \/ Call(3, BindAccept(scavenger))
    \/ Call(4, DeliversAll(rich))
    \/ Call(5, CreditSettle(scavenger))
    \/ Call(6, DeliversAll(scavenger))
    \/ Call(7, CreditSettle(rich))

\* run_gossip: the liar accepts and never delivers; the next look honest1 takes
\* at its books is past the timeout.
Breach ==
    \/ Call(8, Offers(honest1, 2, Bait))
    \/ Call(9, Takes(liar, 2))
    \/ Call(10, BindAccept(honest1))
    \/ calls = 10 /\ Tick(honest1) /\ UNCHANGED calls
    \/ Call(11, SweepTimeouts(honest1) /\ cycle[honest1] >= Timeout)

ScriptNext == Negotiate \/ Breach

ScriptSpec == ScriptInit /\ [][ScriptNext]_<<vars, calls>>

-----------------------------------------------------------------------------
(* What the example asserts and the code does not do.                      *)

\* run_gossip asserts, right after the sweep that found it, that the one broken
\* bargain has blacklisted the liar.
BreachBlacklists == calls = 11 => IsBlacklisted(honest1, liar)

=============================================================================
