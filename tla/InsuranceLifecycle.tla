------------------------- MODULE InsuranceLifecycle -------------------------
(***************************************************************************)
(* What the insurance flow promises, without its contracts: an insurance   *)
(* is asked for at most once and bought at most once; a claim is made only *)
(* where insurance was asked for, and is paid at most once; the claims of  *)
(* a node are numbered in the order they are made.                         *)
(***************************************************************************)
EXTENDS Naturals

CONSTANTS Nodes, ClaimIds

VARIABLES
    cover,  \* node -> "none", "requested", "bought"
    claim   \* node -> claim number -> "none", "filed", "paid"

Init ==
    /\ cover \in [Nodes -> {"none", "requested"}]
    /\ claim = [n \in Nodes |-> [id \in ClaimIds |-> "none"]]

Request(n) ==
    /\ cover[n] = "none"
    /\ cover' = [cover EXCEPT ![n] = "requested"]
    /\ UNCHANGED claim

\* Approved and paid for, with or without a request that was pending.
Buy(n) ==
    /\ cover[n] # "bought"
    /\ cover' = [cover EXCEPT ![n] = "bought"]
    /\ UNCHANGED claim

NextNumber(n, id) ==
    /\ claim[n][id] = "none"
    /\ \A earlier \in ClaimIds : earlier < id => claim[n][earlier] # "none"

File(n, id) ==
    /\ cover[n] # "none"
    /\ NextNumber(n, id)
    /\ claim' = [claim EXCEPT ![n][id] = "filed"]
    /\ UNCHANGED cover

PayFiled(n, id) ==
    /\ claim[n][id] = "filed"
    /\ claim' = [claim EXCEPT ![n][id] = "paid"]
    /\ UNCHANGED cover

\* Made and paid in one call.
PayAtOnce(n, id) ==
    /\ cover[n] # "none"
    /\ NextNumber(n, id)
    /\ claim' = [claim EXCEPT ![n][id] = "paid"]
    /\ UNCHANGED cover

Next ==
    \E n \in Nodes :
        \/ Request(n)
        \/ Buy(n)
        \/ \E id \in ClaimIds : File(n, id) \/ PayFiled(n, id) \/ PayAtOnce(n, id)

Spec == Init /\ [][Next]_<<cover, claim>>
=============================================================================
