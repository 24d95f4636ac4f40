---------------------- MODULE AutoAppealableArbitrator ----------------------
(***************************************************************************)
(* The arbitrator that decides the disputes of ArbitrableProxy.tla         *)
(* (very-insure/contracts/test/AutoAppealableArbitrator.sol): its owner    *)
(* gives rulings, some of which may be appealed against payment until a    *)
(* period has passed.  The owner's actions and appeals only; the calls     *)
(* that end a case also call the contract that asked for arbitration, and  *)
(* become actions there.                                                   *)
(***************************************************************************)
EXTENDS Naturals, Sequences

CONSTANTS
    NumberOfRulings,    \* 0 refuses to arbitrate, 1..NumberOfRulings decide
    ArbitrationPrices,  \* prices of a dispute that the owner sets
    AppealCosts,        \* prices of an appeal that the owner sets
    AppealTimes,        \* lengths of an appeal period
    MaxCases,           \* bound of the model: disputes at the arbitrator
    MaxTime             \* bound of the model: the last block timestamp

ASSUME ArbitratorAssumption ==
    /\ NumberOfRulings \in Nat
    /\ ArbitrationPrices \subseteq Nat /\ ArbitrationPrices # {}
    /\ AppealCosts \subseteq Nat /\ AppealTimes \subseteq Nat
    /\ MaxCases \in Nat /\ MaxTime \in Nat

VARIABLES
    now,        \* block.timestamp
    price,      \* arbitrationPrice
    cases       \* disputes, in the order of their creation

Rulings == 0..NumberOfRulings

\* arbitrated is the contract to call with the ruling.  The fees collected go to
\* whoever ends the case and decide nothing; they are left out.
NewCase(arbitrated) ==
    [arbitrated |-> arbitrated, ruling |-> 0, status |-> "Waiting", appealCost |-> 0,
     appealPeriodStart |-> 0, appealPeriodEnd |-> 0]

CreateCase(arbitrated, fee) ==
    /\ Len(cases) < MaxCases
    /\ fee >= price
    /\ cases' = Append(cases, NewCase(arbitrated))

SetArbitrationPrice(p) ==
    /\ price' = p
    /\ UNCHANGED <<now, cases>>

\* A final ruling at once.
GiveRuling(e, ruling) ==
    /\ cases[e].status = "Waiting"
    /\ cases' = [cases EXCEPT ![e] = [@ EXCEPT !.ruling = ruling, !.status = "Solved"]]
    /\ UNCHANGED <<now, price>>

GiveAppealableRuling(e, ruling, cost, time) ==
    /\ cases[e].status = "Waiting"
    /\ cases' = [cases EXCEPT ![e] = [@ EXCEPT
                    !.ruling = ruling, !.status = "Appealable", !.appealCost = cost,
                    !.appealPeriodStart = now, !.appealPeriodEnd = now + time]]
    /\ UNCHANGED <<now, price>>

ChangeAppealFee(e, cost) ==
    /\ cases[e].status = "Appealable"
    /\ cases' = [cases EXCEPT ![e].appealCost = cost]
    /\ UNCHANGED <<now, price>>

\* What appealing against the ruling in e with a payment does to it.
AppealReverts(e, payment) ==
    \/ cases[e].status # "Appealable"
    \/ payment < cases[e].appealCost
    \/ now >= cases[e].appealPeriodEnd

Appealed(e) == [cases EXCEPT ![e].status = "Waiting"]

\* Anyone may appeal without the proxy, which does not learn of it.
AppealDirectly(e, payment) ==
    /\ ~AppealReverts(e, payment)
    /\ cases' = Appealed(e)
    /\ UNCHANGED <<now, price>>

\* Anyone may execute a ruling once its appeal period is over.
ExecuteRuling(e) ==
    /\ cases[e].status = "Appealable"
    /\ now >= cases[e].appealPeriodEnd
    /\ cases' = [cases EXCEPT ![e].status = "Solved"]
    /\ UNCHANGED <<now, price>>

Tick ==
    /\ now < MaxTime
    /\ now' = now + 1
    /\ UNCHANGED <<price, cases>>

ArbitratorInit ==
    /\ now = 1
    /\ price \in ArbitrationPrices
    /\ cases = << >>
=============================================================================
