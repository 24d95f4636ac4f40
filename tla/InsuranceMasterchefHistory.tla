--------------------- MODULE InsuranceMasterchefHistory ---------------------
(***************************************************************************)
(* The reward ledger together with what a holder would write down beside   *)
(* it: what every distribution owed to its shares, what it was paid, and   *)
(* how often its debt was rewritten because its shares changed.  The       *)
(* history variables restrict nothing but the number of share updates.     *)
(***************************************************************************)
EXTENDS InsuranceMasterchef

CONSTANT MaxUpdates     \* bound of the model: share updates of all accounts

VARIABLES
    earned,     \* token -> account -> reward owed so far, times Precision
    received,   \* token -> account -> reward paid so far
    updates     \* account -> share updates so far

history == <<earned, received, updates>>
hvars == <<chef, earned, received, updates>>

HInit ==
    /\ Init
    /\ earned = [t \in Tokens |-> [a \in Accounts |-> 0]]
    /\ received = [t \in Tokens |-> [a \in Accounts |-> 0]]
    /\ updates = [a \in Accounts |-> 0]

\* What leaves the ledger between c and d goes to target.
PaidTo(paid, c, d, target) ==
    [t \in Tokens |-> [paid[t] EXCEPT ![target] = @ + c.funds[t] - d.funds[t]]]

\* A distribution owes every share the same, whoever holds it.
Owed(c, d) ==
    [t \in Tokens |-> [a \in Accounts |->
        earned[t][a] + (d.acc[t] - c.acc[t]) * c.shares[a]]]

UpdatesSoFar == SumFunction(updates)

Harvested(target) ==
    /\ received' = PaidTo(received, chef, chef', target)
    /\ UNCHANGED <<earned, updates>>

Updated(target) ==
    /\ UpdatesSoFar < MaxUpdates
    /\ received' = PaidTo(received, chef, chef', target)
    /\ updates' = [updates EXCEPT ![target] = @ + 1]
    /\ UNCHANGED earned

HHarvest(t, a) == Harvest(t, a) /\ Harvested(a)

HHarvestEverything(a) == HarvestEverything(a) /\ Harvested(a)

HDistribute(s, t, n) ==
    /\ Distribute(s, t, n)
    /\ earned' = Owed(chef, chef')
    /\ UNCHANGED <<received, updates>>

HIncrease(a, n) == Increase(a, n) /\ Updated(a)

HDecrease(a, n) == Decrease(a, n) /\ Updated(a)

HMove(a, b, n) ==
    /\ UpdatesSoFar + 1 < MaxUpdates
    /\ Move(a, b, n)
    /\ LET taken == DecreaseShare(chef, a, n)
       IN  received' = PaidTo(PaidTo(received, chef, taken, a), taken, chef', b)
    /\ updates' = [[updates EXCEPT ![a] = @ + 1] EXCEPT ![b] = @ + 1]
    /\ UNCHANGED earned

HNext ==
    \/ \E t \in Tokens, a \in Accounts : HHarvest(t, a)
    \/ \E a \in Accounts : HHarvestEverything(a)
    \/ \E s \in Accounts \cup {Pool} \cup TrustedProxies, t \in Tokens, n \in 0..MaxRewards :
            HDistribute(s, t, n)
    \/ \E a \in Accounts, n \in 0..MaxShares : HIncrease(a, n)
    \/ \E a \in Accounts, n \in 0..MaxShares : HDecrease(a, n)
    \/ \E a, b \in Accounts, n \in 0..MaxShares : HMove(a, b, n)

HSpec == HInit /\ [][HNext]_hvars

----------------------------------------------------------------------------
Pending(t) == [a \in Accounts |-> PendingReward(chef, t, a)]

\* The ledger can owe more than it holds, because a share update rounds the
\* new debt down, but never by more than one unit for each update: this is as
\* far as harvest's cap on the payment (lines 81-85) ever reaches.
BoundedDeficit ==
    \A t \in Tokens :
        SumFunction(Pending(t)) <= chef.funds[t] + UpdatesSoFar

\* Nobody is paid more than the distributions owed to the shares it held when
\* they were made, but for one unit for each of its share updates: shares
\* bought or received later bring no part of an earlier reward.
NoMoreThanEarned ==
    \A t \in Tokens, a \in Accounts :
        Precision * (received[t][a] + PendingReward(chef, t, a))
            <= earned[t][a] + Precision * updates[a]

\* Nobody gets less than that, but for roundings of its own and for what the
\* roundings of others left missing from the funds.
NoLessThanEarned ==
    \A t \in Tokens, a \in Accounts :
        Precision * (received[t][a] + PendingReward(chef, t, a) + UpdatesSoFar + 1)
            > earned[t][a]

\* Whatever is called, what an account was paid and what it can still collect
\* do not fall together, unless the call leaves the ledger with none of the
\* token: a share update settles both parties in full before it rewrites debts.
SettledInFull ==
    [][ \A t \in Tokens, a \in Accounts :
            \/ received'[t][a] + Pending(t)'[a] >= received[t][a] + Pending(t)[a]
            \/ chef'.funds[t] = 0 ]_hvars
=============================================================================
