---------------------- MODULE InsuranceOwnershipToken ----------------------
(***************************************************************************)
(* The token of a pool's owner                                             *)
(* (very-insure/contracts/InsuranceOwnershipToken.sol): a fixed supply of  *)
(* shares, minted to the owner of the pool's node, that collects the       *)
(* owner's part of every premium.                                          *)
(*                                                                         *)
(* Laid out as InsuranceMasterchef.tla is: own is the contract's storage   *)
(* and what it holds of each token, handlers are operators on it.  What    *)
(* differs is in the code: a transfer harvests for both parties but        *)
(* rewrites no debt (_updateDebt is defined at lines 50-63 and called      *)
(* nowhere), and harvest has no guard for an account without shares.       *)
(***************************************************************************)
EXTENDS Naturals, FiniteSets, Functions, FiniteSetsExt

CONSTANTS
    Accounts,
    Tokens,
    Creator,      \* registry().ownerOf(ownerNode) when the pool is deployed
    Registrar,    \* the registrar that deployed the token
    RewardAdders, \* isAuthorised(_, ownerNode, ROLE_NEW_OWNERSHIP_REWARD_TOKEN)
    Precision,    \* 1e18
    Supply,       \* 10000 ether
    MaxAssets,    \* MAX_MASTERCHEF_ASSETS
    MaxRewards    \* bound of the model: what is ever distributed of a token

ASSUME OwnershipAssumption ==
    /\ Precision \in Nat \ {0}
    /\ Supply \in Nat \ {0}
    /\ MaxAssets \in Nat
    /\ MaxRewards \in Nat
    /\ Creator \in Accounts
    /\ IsFiniteSet(Accounts)
    /\ IsFiniteSet(Tokens)

VARIABLE own

HoldingType ==
    [ assets : SUBSET Tokens,
      total : [Tokens -> Nat],
      acc : [Tokens -> Nat],
      balance : [Accounts -> Nat],
      debt : [Tokens -> [Accounts -> Nat]],
      funds : [Tokens -> Nat] ]

\* initialize mints the whole supply to the owner of the node.
InitHolding ==
    [ assets |-> {},
      total |-> [t \in Tokens |-> 0],
      acc |-> [t \in Tokens |-> 0],
      balance |-> [a \in Accounts |-> IF a = Creator THEN Supply ELSE 0],
      debt |-> [t \in Tokens |-> [a \in Accounts |-> 0]],
      funds |-> [t \in Tokens |-> 0] ]

----------------------------------------------------------------------------
OwnerEntitlement(o, token, target) == (o.acc[token] * o.balance[target]) \div Precision

\* The view pendingReward.
PendingReward(o, token, target) ==
    IF o.debt[token][target] < OwnerEntitlement(o, token, target)
    THEN OwnerEntitlement(o, token, target) - o.debt[token][target]
    ELSE 0

\* Mistaken form of Payout: the cap "for safety" is forgotten.
PayoutUncapped(o, token, target) == PendingReward(o, token, target)

Payout(o, token, target) ==
    IF PendingReward(o, token, target) < o.funds[token]
    THEN PendingReward(o, token, target)
    ELSE o.funds[token]

\* revert PoolDrained
HarvestReverts(o, harvested, target) ==
    \E t \in harvested : PendingReward(o, t, target) > 0 /\ o.funds[t] = 0

\* Mistaken form of HarvestTokens: the payment is not booked.
HarvestTokensUnbooked(o, harvested, target) ==
    [o EXCEPT !.funds = [t \in Tokens |->
        IF t \in harvested THEN o.funds[t] - Payout(o, t, target) ELSE o.funds[t]]]

\* Both branches of harvest book the entitlement, up or down.
HarvestTokens(o, harvested, target) ==
    [o EXCEPT
        !.funds = [t \in Tokens |->
            IF t \in harvested THEN o.funds[t] - Payout(o, t, target) ELSE o.funds[t]],
        !.debt = [t \in Tokens |->
            IF t \in harvested
            THEN [o.debt[t] EXCEPT ![target] = OwnerEntitlement(o, t, target)]
            ELSE o.debt[t]]]

HarvestAll(o, target) == HarvestTokens(o, o.assets, target)

DistributeReverts(o, token, mayAdd) ==
    /\ token \notin o.assets
    /\ Cardinality(o.assets) >= MaxAssets \/ ~mayAdd

DistributeToOwners(o, token, amount) ==
    [o EXCEPT !.assets = @ \cup {token},
              !.funds[token] = @ + amount,
              !.total[token] = @ + amount,
              !.acc[token] = @ + (amount * Precision) \div Supply]

\* _update for a transfer: harvestAll(from), harvestAll(to), then the balances.
TransferReverts(o, from, to, amount) ==
    \/ HarvestReverts(o, o.assets, from)
    \/ HarvestReverts(HarvestAll(o, from), o.assets, to)
    \/ o.balance[from] < amount

\* Mistaken form of Transfer: only the sender is settled.
TransferSettlingSender(o, from, to, amount) ==
    LET sent == [HarvestAll(o, from) EXCEPT !.balance[from] = @ - amount]
    IN  [sent EXCEPT !.balance[to] = @ + amount]

Transfer(o, from, to, amount) ==
    LET harvested == HarvestAll(HarvestAll(o, from), to)
        sent == [harvested EXCEPT !.balance[from] = @ - amount]
    IN  [sent EXCEPT !.balance[to] = @ + amount]

----------------------------------------------------------------------------
Init == own = InitHolding

Harvest(token, target) ==
    /\ ~HarvestReverts(own, {token}, target)
    /\ own' = HarvestTokens(own, {token}, target)

HarvestEverything(target) ==
    /\ ~HarvestReverts(own, own.assets, target)
    /\ own' = HarvestAll(own, target)

Distribute(caller, token, amount) ==
    /\ ~DistributeReverts(own, token, caller \in {Registrar} \cup RewardAdders)
    /\ own.total[token] + amount <= MaxRewards
    /\ own' = DistributeToOwners(own, token, amount)

Send(from, to, amount) ==
    /\ ~TransferReverts(own, from, to, amount)
    /\ own' = Transfer(own, from, to, amount)

Next ==
    \/ \E t \in Tokens, a \in Accounts : Harvest(t, a)
    \/ \E a \in Accounts : HarvestEverything(a)
    \/ \E s \in Accounts \cup {Registrar} \cup RewardAdders, t \in Tokens, n \in 0..MaxRewards :
            Distribute(s, t, n)
    \/ \E a, b \in Accounts, n \in 0..Supply : Send(a, b, n)

Spec == Init /\ [][Next]_own

----------------------------------------------------------------------------
\* Every field has its type.
TypeOK == own \in HoldingType
=============================================================================
