------------------- MODULE InsuranceOwnershipTokenHistory -------------------
(***************************************************************************)
(* The owner's token with two history variables: what each account was     *)
(* paid, and whether shares have moved since a first reward came in.       *)
(***************************************************************************)
EXTENDS InsuranceOwnershipToken

VARIABLES
    received,   \* token -> account -> reward paid so far
    moved       \* a transfer followed a distribution

hvars == <<own, received, moved>>

HInit ==
    /\ Init
    /\ received = [t \in Tokens |-> [a \in Accounts |-> 0]]
    /\ moved = FALSE

PaidTo(paid, o, p, target) ==
    [t \in Tokens |-> [paid[t] EXCEPT ![target] = @ + o.funds[t] - p.funds[t]]]

HHarvest(t, a) ==
    Harvest(t, a) /\ received' = PaidTo(received, own, own', a) /\ UNCHANGED moved

HHarvestEverything(a) ==
    HarvestEverything(a) /\ received' = PaidTo(received, own, own', a) /\ UNCHANGED moved

HDistribute(s, t, n) == Distribute(s, t, n) /\ UNCHANGED <<received, moved>>

HSend(a, b, n) ==
    /\ Send(a, b, n)
    /\ LET first == HarvestAll(own, a)
       IN  received' = PaidTo(PaidTo(received, own, first, a), first, own', b)
    /\ moved' = (moved \/ \E t \in Tokens : own.total[t] > 0)

HNext ==
    \/ \E t \in Tokens, a \in Accounts : HHarvest(t, a)
    \/ \E a \in Accounts : HHarvestEverything(a)
    \/ \E s \in Accounts \cup {Registrar} \cup RewardAdders, t \in Tokens, n \in 0..MaxRewards :
            HDistribute(s, t, n)
    \/ \E a, b \in Accounts, n \in 0..Supply : HSend(a, b, n)

HSpec == HInit /\ [][HNext]_hvars

----------------------------------------------------------------------------
Pending(t) == [a \in Accounts |-> PendingReward(own, t, a)]

\* While no shares move after the first reward, the contract holds all that
\* its views say is pending, so harvest (lines 66-91) pays every owner in full
\* whatever the others do and in whatever order they come, and nobody's total
\* differs from its part by a whole unit.
FairUntilSharesMove ==
    ~moved => \A t \in Tokens :
        /\ SumFunction(Pending(t)) <= own.funds[t]
        /\ \A a \in Accounts :
              LET due == own.acc[t] * own.balance[a]
                  got == received[t][a] + PendingReward(own, t, a)
              IN  Precision * got <= due /\ due < Precision * (got + 1)

\* A transfer pays both parties what was pending before the shares change
\* hands (lines 122-132), unless that takes the last of the funds.
TransferSettlesFirst ==
    [][ \A t \in Tokens, a \in Accounts :
            own'.balance[a] # own.balance[a] =>
                \/ received'[t][a] = received[t][a] + Pending(t)[a]
                \/ own'.funds[t] = 0 ]_hvars

\* What the test says of harvestAll (very-insure/test/Insurance.ts:993-1001):
\* it pays exactly the pendingReward it was asked about.
HarvestPaysPending ==
    \A t \in own.assets, a \in Accounts : Pending(t)[a] <= own.funds[t]
=============================================================================
