------------------------------- MODULE Escrow -------------------------------
(***************************************************************************)
(* What a barter mesh promises about resources: a quantity leaves a ledger *)
(* only into a claim held for one named receiver, and enters a ledger only *)
(* by that receiver collecting that claim, once.  A claim may be lost for  *)
(* ever (the transport may lose the settlement that carries it); nothing   *)
(* is ever created.  Barter is shown to implement this module.             *)
(***************************************************************************)
EXTENDS Integers, FiniteSets, FiniteSetsExt

CONSTANTS
    Agent,
    Kind,
    Claim,        \* [to, from, nonce, gives]; gives is a kind and a quantity
    Endowment     \* what each ledger starts with

VARIABLES
    balance,      \* each agent's ledger
    transit       \* claims paid for and not collected

vars == <<balance, transit>>

Init ==
    /\ balance = Endowment
    /\ transit = {}

Pay(c) ==
    /\ c \notin transit
    /\ balance[c.from][c.gives.kind] >= c.gives.qty
    /\ balance' = [balance EXCEPT ![c.from][c.gives.kind] = @ - c.gives.qty]
    /\ transit' = transit \cup {c}

Collect(c) ==
    /\ c \in transit
    /\ balance' = [balance EXCEPT ![c.to][c.gives.kind] = @ + c.gives.qty]
    /\ transit' = transit \ {c}

\* A payment may be of any claim; the one paid is named by what it adds.
Next ==
    \/ \E c \in transit' \ transit : c \in Claim /\ Pay(c)
    \/ \E c \in transit : Collect(c)

Spec == Init /\ [][Next]_vars

-----------------------------------------------------------------------------
TotalOf(ledgers, k) == MapThenSumSet(LAMBDA a : ledgers[a][k], Agent)

ClaimedOf(k) ==
    MapThenSumSet(LAMBDA c : c.gives.qty, {c \in transit : c.gives.kind = k})

\* Ledgers and claims together always hold exactly what the mesh started with.
Conserved ==
    \A k \in Kind : TotalOf(balance, k) + ClaimedOf(k) = TotalOf(Endowment, k)
=============================================================================
