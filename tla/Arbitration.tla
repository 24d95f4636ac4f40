----------------------------- MODULE Arbitration -----------------------------
(***************************************************************************)
(* What the insurance contracts rely on of a proxy they ask for a ruling   *)
(* (ArbitrationManager.sol, isDisputeExecutable): disputes are numbered in *)
(* the order they are created, and each is ruled at most once, at any time *)
(* and in any way.  How a ruling comes about is ArbitrableProxy.tla's.     *)
(***************************************************************************)
EXTENDS Naturals, Sequences

CONSTANTS
    Rulings,
    Unruled         \* in place of a ruling that is not in yet

VARIABLE
    rulings         \* one for each dispute

Init == rulings = << >>

Create == rulings' = Append(rulings, Unruled)

Rule(d, r) ==
    /\ rulings[d] = Unruled
    /\ rulings' = [rulings EXCEPT ![d] = r]

Next == Create \/ \E d \in DOMAIN rulings, r \in Rulings : Rule(d, r)

Spec == Init /\ [][Next]_rulings
=============================================================================
