------------------------ MODULE InsuranceMasterchef ------------------------
(***************************************************************************)
(* The reward ledger of one insurance pool                                 *)
(* (very-insure/contracts/InsuranceMasterchef.sol).                        *)
(*                                                                         *)
(* The contract's storage is one record, chef, together with what it holds *)
(* of every token.  A handler is an operator that takes the record and     *)
(* returns the record the handler leaves; a revert is an operator of its   *)
(* own (...Reverts) that the action, or the contract that makes the call,  *)
(* negates in its guard.  InsurancePool.tla calls the same operators.      *)
(*                                                                         *)
(* Precision stands for the 1e18 the code scales rewards per share by.     *)
(***************************************************************************)
EXTENDS Naturals, FiniteSets, Functions, FiniteSetsExt

CONSTANTS
    Accounts,      \* addresses that can hold shares; the zero address is not one
    Tokens,        \* ERC20 contracts
    Pool,          \* insurancePool, the only caller of the share updates
    TrustedProxies,\* callers for which the pool's isTrustedProxy is true
    Precision,     \* 1e18
    MaxAssets,     \* MAX_MASTERCHEF_ASSETS
    MaxShares,     \* bound of the model: the supply of pool shares
    MaxRewards     \* bound of the model: what is ever distributed of a token

ASSUME MasterchefAssumption ==
    /\ Precision \in Nat \ {0}
    /\ MaxAssets \in Nat
    /\ MaxShares \in Nat
    /\ MaxRewards \in Nat
    /\ Pool \notin Accounts
    /\ IsFiniteSet(Accounts)
    /\ IsFiniteSet(Tokens)

VARIABLE chef

LedgerType ==
    [ assets : SUBSET Tokens,                   \* EnumerableSet of reward tokens
      totalAssets : [Tokens -> Nat],
      acc : [Tokens -> Nat],                    \* accRewardPerShare
      shares : [Accounts -> Nat],
      debt : [Tokens -> [Accounts -> Nat]],
      totalShares : Nat,
      funds : [Tokens -> Nat] ]                 \* token.balanceOf(address(this))

InitLedger ==
    [ assets |-> {},
      totalAssets |-> [t \in Tokens |-> 0],
      acc |-> [t \in Tokens |-> 0],
      shares |-> [a \in Accounts |-> 0],
      debt |-> [t \in Tokens |-> [a \in Accounts |-> 0]],
      totalShares |-> 0,
      funds |-> [t \in Tokens |-> 0] ]

----------------------------------------------------------------------------
(* Harvesting.                                                             *)

Smaller(m, n) == IF m < n THEN m ELSE n

\* totalToWithdraw: all that the shares of target have earned since the
\* ledger began, rounded down.
Entitlement(c, token, target) == (c.acc[token] * c.shares[target]) \div Precision

HasShare(c, target) == c.shares[target] # 0 /\ c.totalShares # 0

\* The view pendingReward.
PendingReward(c, token, target) ==
    IF HasShare(c, target) /\ c.debt[token][target] < Entitlement(c, token, target)
    THEN Entitlement(c, token, target) - c.debt[token][target]
    ELSE 0

\* Mistaken form of Payout: the cap at the current balance is forgotten.
PayoutUncapped(c, token, target) == PendingReward(c, token, target)

\* harvest pays what is pending, or all there is when there is less.
Payout(c, token, target) == Smaller(PendingReward(c, token, target), c.funds[token])

\* revert PoolDrained: something is pending and nothing is held.
HarvestReverts(c, harvested, target) ==
    \E t \in harvested : PendingReward(c, t, target) > 0 /\ c.funds[t] = 0

\* Mistaken form of HarvestTokens: the payment is not booked.
HarvestTokensUnbooked(c, harvested, target) ==
    [c EXCEPT !.funds = [t \in Tokens |->
        IF t \in harvested THEN c.funds[t] - Payout(c, t, target) ELSE c.funds[t]]]

\* harvest for each of a set of tokens.  The handlers' loop visits the tokens
\* one after the other and no iteration reads what another one writes.
HarvestTokens(c, harvested, target) ==
    [c EXCEPT
        !.funds = [t \in Tokens |->
            IF t \in harvested THEN c.funds[t] - Payout(c, t, target) ELSE c.funds[t]],
        !.debt = [t \in Tokens |->
            IF t \in harvested /\ HasShare(c, target)
            THEN [c.debt[t] EXCEPT ![target] = Entitlement(c, t, target)]
            ELSE c.debt[t]]]

HarvestAll(c, target) == HarvestTokens(c, c.assets, target)

----------------------------------------------------------------------------
(* Shares.                                                                 *)

\* Mistaken form of UpdateDebt: it is forgotten.
UpdateDebtSkipped(c, target) == c

\* _updateDebt over the whole asset table.
UpdateDebt(c, target) ==
    [c EXCEPT !.debt = [t \in Tokens |->
        IF t \in c.assets
        THEN [c.debt[t] EXCEPT ![target] =
                 IF c.totalShares > 0 THEN Entitlement(c, t, target) ELSE 0]
        ELSE c.debt[t]]]

IncreaseShareReverts(c, target) == HarvestReverts(c, c.assets, target)

\* Mistaken form of IncreaseShare: what was pending is not paid first.
IncreaseShareUnsettled(c, target, amount) ==
    UpdateDebt([c EXCEPT !.shares[target] = @ + amount, !.totalShares = @ + amount], target)

IncreaseShare(c, target, amount) ==
    UpdateDebt([HarvestAll(c, target) EXCEPT !.shares[target] = @ + amount,
                                             !.totalShares = @ + amount], target)

\* Checked arithmetic: taking more shares than there are underflows.
DecreaseShareReverts(c, target, amount) ==
    \/ HarvestReverts(c, c.assets, target)
    \/ c.shares[target] < amount
    \/ c.totalShares < amount

\* Mistaken forms of DecreaseShare: what was pending is not paid first; the
\* total is left alone.
DecreaseShareUnsettled(c, target, amount) ==
    UpdateDebt([c EXCEPT !.shares[target] = @ - amount, !.totalShares = @ - amount], target)

DecreaseShareKeepingTotal(c, target, amount) ==
    UpdateDebt([HarvestAll(c, target) EXCEPT !.shares[target] = @ - amount], target)

DecreaseShare(c, target, amount) ==
    UpdateDebt([HarvestAll(c, target) EXCEPT !.shares[target] = @ - amount,
                                             !.totalShares = @ - amount], target)

----------------------------------------------------------------------------
(* Rewards.                                                                *)

\* A token nobody distributed before needs a free place in the table
\* (TooManyAssets) and a caller that may add it (AssetNotAllowed).
DistributeReverts(c, token, mayAdd) ==
    /\ token \notin c.assets
    /\ Cardinality(c.assets) >= MaxAssets \/ ~mayAdd

\* Mistaken form of DistributeReward: the token gets no place in the table.
DistributeRewardUnlisted(c, token, amount) ==
    IF c.totalShares > 0
    THEN [c EXCEPT !.funds[token] = @ + amount,
                   !.totalAssets[token] = @ + amount,
                   !.acc[token] = @ + (amount * Precision) \div c.totalShares]
    ELSE c

\* Nothing is taken from the caller while there are no shares, but the token
\* has its place in the table.
DistributeReward(c, token, amount) ==
    LET listed == [c EXCEPT !.assets = @ \cup {token},
                            !.totalAssets[token] = IF token \in c.assets THEN @ ELSE 0]
    IN  IF c.totalShares > 0
        THEN [listed EXCEPT !.funds[token] = @ + amount,
                            !.totalAssets[token] = @ + amount,
                            !.acc[token] = @ + (amount * Precision) \div c.totalShares]
        ELSE listed

----------------------------------------------------------------------------
(* The contract as a state machine.                                        *)

Init == chef = InitLedger

\* harvest(token, target), which anyone may call.
Harvest(token, target) ==
    /\ ~HarvestReverts(chef, {token}, target)
    /\ chef' = HarvestTokens(chef, {token}, target)

\* harvestAll(target)
HarvestEverything(target) ==
    /\ ~HarvestReverts(chef, chef.assets, target)
    /\ chef' = HarvestAll(chef, target)

\* distributeReward(token, amount) called by caller.
Distribute(caller, token, amount) ==
    /\ ~DistributeReverts(chef, token, caller \in {Pool} \cup TrustedProxies)
    /\ chef.totalAssets[token] + amount <= MaxRewards
    /\ chef' = DistributeReward(chef, token, amount)

\* The pool mints shares to target.
Increase(target, amount) ==
    /\ ~IncreaseShareReverts(chef, target)
    /\ chef.totalShares + amount <= MaxShares
    /\ chef' = IncreaseShare(chef, target, amount)

\* The pool burns shares of target.
Decrease(target, amount) ==
    /\ ~DecreaseShareReverts(chef, target, amount)
    /\ chef' = DecreaseShare(chef, target, amount)

\* The pool moves shares: decreaseShare(from), then increaseShare(to), in one
\* transaction (InsurancePool._update).
Move(from, to, amount) ==
    /\ ~DecreaseShareReverts(chef, from, amount)
    /\ LET taken == DecreaseShare(chef, from, amount)
       IN  /\ ~IncreaseShareReverts(taken, to)
           /\ chef' = IncreaseShare(taken, to, amount)

Next ==
    \/ \E t \in Tokens, a \in Accounts : Harvest(t, a)
    \/ \E a \in Accounts : HarvestEverything(a)
    \/ \E s \in Accounts \cup {Pool} \cup TrustedProxies, t \in Tokens, n \in 0..MaxRewards :
            Distribute(s, t, n)
    \/ \E a \in Accounts, n \in 0..MaxShares : Increase(a, n)
    \/ \E a \in Accounts, n \in 0..MaxShares : Decrease(a, n)
    \/ \E a, b \in Accounts, n \in 0..MaxShares : Move(a, b, n)

Spec == Init /\ [][Next]_chef

----------------------------------------------------------------------------
(* What is promised.                                                       *)

\* Every field of the ledger has its type; no counter goes below zero.
TypeOK == chef \in LedgerType

\* The shares of all holders one by one: share number i of account a.
Units(held) == UNION {{a} \X (1..held[a]) : a \in Accounts}

\* The total that rewards are divided by is the sum of the holders' shares, so
\* no holder has more than there are and the ledger never takes its last holder
\* for nobody (lines 38, 66 and 116 test the total for zero).
SharesAddUp == chef.totalShares = Cardinality(Units(chef.shares))

\* A holder is never booked as having received more than its shares earned:
\* the branch of harvest that writes the debt down (lines 70-73) never lowers
\* it, so no holder has to earn again what an earlier booking took.
DebtWithinEntitlement ==
    \A t \in Tokens, a \in Accounts :
        chef.debt[t][a] <= Entitlement(chef, t, a)

\* A token that is not in the table carries no reward, no debt and no funds.
OnlyListedTokensCarryRewards ==
    \A t \in Tokens \ chef.assets :
        /\ chef.acc[t] = 0 /\ chef.totalAssets[t] = 0 /\ chef.funds[t] = 0
        /\ \A a \in Accounts : chef.debt[t][a] = 0
=============================================================================
