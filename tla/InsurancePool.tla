--------------------------- MODULE InsurancePool ---------------------------
(***************************************************************************)
(* An insurance pool as a vault (very-insure/contracts/InsurancePool.sol): *)
(* investors buy shares for the underlying asset, premiums come in through *)
(* distribute, claims go out, and every change of a share balance is       *)
(* reported to the pool's reward ledger (InsuranceMasterchef.tla).  Who    *)
(* may claim, and when a claim is approved, is the business of             *)
(* VeryInsure.tla; here an approved claim is the call of _claim.           *)
(*                                                                         *)
(* The underlying asset is an ERC20 outside this system: held is what it   *)
(* records for the pool, approved what the pool lets the ledger take.      *)
(* Callers' own balances of it are not modelled: a caller that could not   *)
(* pay would see a revert.                                                 *)
(***************************************************************************)
EXTENDS Naturals, FiniteSets, Functions

CONSTANTS
    Accounts, Tokens, Pool, TrustedProxies, Precision, MaxAssets,
    Asset,          \* the underlying asset
    BasisPoints,    \* 10000
    ReserveDivisor, \* 20: a claim leaves a twentieth of the supply
    WithdrawalFee,  \* withdrawalFee, in basis points
    InstantReward,  \* instantReward, in basis points
    Expirations,    \* the expiration a pool may be deployed with
    MaxShares,      \* bound of the model: the supply of shares
    MaxRewards,     \* bound of the model: what the ledger ever distributes of a token
    MaxHeld,        \* bound of the model: what the pool holds of the asset
    MaxAllowance,   \* bound of the model: what an owner of shares lets a spender use
    MaxTime         \* bound of the model: the last block timestamp

ASSUME PoolAssumption ==
    /\ Precision \in Nat \ {0} /\ MaxAssets \in Nat
    /\ Pool \notin Accounts
    /\ IsFiniteSet(Accounts) /\ IsFiniteSet(Tokens)
    /\ Asset \in Tokens
    /\ BasisPoints \in Nat \ {0}
    /\ ReserveDivisor \in Nat \ {0}
    /\ InstantReward \in 0..BasisPoints
    /\ WithdrawalFee \in Nat /\ 2 * WithdrawalFee <= BasisPoints
    /\ Expirations \subseteq Nat
    /\ MaxShares \in Nat /\ MaxRewards \in Nat /\ MaxHeld \in Nat
    /\ MaxAllowance \in Nat /\ MaxTime \in Nat

VARIABLES
    now,         \* block.timestamp
    expiration,
    balanceOf,   \* shares of every account
    totalSupply,
    allowance,   \* owner -> spender -> shares
    held,        \* _asset.balanceOf(address(this))
    approved,    \* _asset.allowance(address(this), masterchef)
    chef         \* the storage of the pool's InsuranceMasterchef

Chef == INSTANCE InsuranceMasterchef

shareVars == <<balanceOf, totalSupply, chef>>
vars == <<now, expiration, balanceOf, totalSupply, allowance, held, approved, chef>>

----------------------------------------------------------------------------
(* The price of shares.                                                    *)

MulDivDown(x, y, d) == (x * y) \div d
MulDivUp(x, y, d) == (x * y + d - 1) \div d

\* Mistaken form of AssetsFor: rounded in favour of the one who leaves.
AssetsForRoundedUp(shares, supply, total) == MulDivUp(shares, total + 1, supply + 1)

\* _convertToShares, rounded up, and _convertToAssets, rounded down.
SharesFor(assets, supply, total) == MulDivUp(assets, supply + 1, total + 1)
AssetsFor(shares, supply, total) == MulDivDown(shares, total + 1, supply + 1)

Larger(m, n) == IF m < n THEN n ELSE m
Smaller(m, n) == IF m < n THEN m ELSE n

\* block.timestamp < expiration: no profit is paid out, and a fee is taken.
Running == now < expiration

\* Mistaken forms of the previews: no fee; no cap on profit and no fee.
PreviewWithdrawFree(assets, supply, total) ==
    IF Running
    THEN Larger(SharesFor(assets, supply, total), assets)
    ELSE SharesFor(assets, supply, total)

PreviewRedeemAtPrice(shares, supply, total) == AssetsFor(shares, supply, total)

PreviewWithdraw(assets, supply, total) ==
    IF Running
    THEN MulDivUp(Larger(SharesFor(assets, supply, total), assets),
                  BasisPoints, BasisPoints - WithdrawalFee)
    ELSE SharesFor(assets, supply, total)

PreviewRedeem(shares, supply, total) ==
    IF Running
    THEN MulDivDown(Smaller(AssetsFor(shares, supply, total), shares),
                    BasisPoints - WithdrawalFee, BasisPoints)
    ELSE AssetsFor(shares, supply, total)

MaxWithdraw(owner) == AssetsFor(balanceOf[owner], totalSupply, held)

----------------------------------------------------------------------------
(* Shares change hands: _update, for a mint, a burn and a transfer.        *)

\* Mistaken form of Mint: the ledger is not told.
MintUnreported(to, amount) ==
    /\ totalSupply + amount <= MaxShares
    /\ balanceOf' = [balanceOf EXCEPT ![to] = @ + amount]
    /\ totalSupply' = totalSupply + amount
    /\ UNCHANGED chef

Mint(to, amount) ==
    /\ totalSupply + amount <= MaxShares
    /\ ~Chef!IncreaseShareReverts(chef, to)
    /\ balanceOf' = [balanceOf EXCEPT ![to] = @ + amount]
    /\ totalSupply' = totalSupply + amount
    /\ chef' = Chef!IncreaseShare(chef, to, amount)

\* Mistaken form of Burn: the ledger's shares are set without a settlement.
BurnUnsettled(from, amount) ==
    /\ amount <= balanceOf[from]
    /\ balanceOf' = [balanceOf EXCEPT ![from] = @ - amount]
    /\ totalSupply' = totalSupply - amount
    /\ chef' = [chef EXCEPT !.shares[from] = @ - amount, !.totalShares = @ - amount]

Burn(from, amount) ==
    /\ amount <= balanceOf[from]
    /\ ~Chef!DecreaseShareReverts(chef, from, amount)
    /\ balanceOf' = [balanceOf EXCEPT ![from] = @ - amount]
    /\ totalSupply' = totalSupply - amount
    /\ chef' = Chef!DecreaseShare(chef, from, amount)

MoveShares(from, to, amount) ==
    /\ amount <= balanceOf[from]
    /\ ~Chef!DecreaseShareReverts(chef, from, amount)
    /\ LET taken == Chef!DecreaseShare(chef, from, amount)
       IN  /\ ~Chef!IncreaseShareReverts(taken, to)
           /\ chef' = Chef!IncreaseShare(taken, to, amount)
    /\ balanceOf' = [[balanceOf EXCEPT ![from] = @ - amount] EXCEPT ![to] = @ + amount]
    /\ UNCHANGED totalSupply

\* _spendAllowance, when the caller is not the owner of the shares.
Spend(owner, caller, shares) ==
    IF caller = owner
    THEN UNCHANGED allowance
    ELSE /\ shares <= allowance[owner][caller]
         /\ allowance' = [allowance EXCEPT ![owner][caller] = @ - shares]

----------------------------------------------------------------------------
(* The calls of investors.                                                 *)

Open == expiration = 0 \/ now < expiration

\* Mistaken form of Deposit: it does not look at the expiration.
DepositAnytime(receiver, assets) ==
    /\ held + assets <= MaxHeld
    /\ held' = held + assets
    /\ Mint(receiver, assets)
    /\ UNCHANGED <<now, expiration, allowance, approved>>

\* deposit(assets, receiver), and mint(shares, receiver), which differs from it
\* in nothing but its name: one share for each unit of the asset.
Deposit(receiver, assets) ==
    /\ Open
    /\ held + assets <= MaxHeld
    /\ held' = held + assets
    /\ Mint(receiver, assets)
    /\ UNCHANGED <<now, expiration, allowance, approved>>

\* _withdraw
PayOut(caller, owner, assets, shares) ==
    /\ Spend(owner, caller, shares)
    /\ Burn(owner, shares)
    /\ assets <= held
    /\ held' = held - assets
    /\ UNCHANGED <<now, expiration, approved>>

\* withdraw(assets, receiver, owner)
Withdraw(caller, owner, assets) ==
    /\ assets <= MaxWithdraw(owner)
    /\ PayOut(caller, owner, assets, PreviewWithdraw(assets, totalSupply, held))

\* redeem(shares, receiver, owner)
Redeem(caller, owner, shares) ==
    /\ shares <= balanceOf[owner]
    /\ PayOut(caller, owner, PreviewRedeem(shares, totalSupply, held), shares)

\* ERC20 approve, and transfer or transferFrom.
Approve(owner, spender, shares) ==
    /\ allowance' = [allowance EXCEPT ![owner][spender] = shares]
    /\ UNCHANGED <<now, expiration, balanceOf, totalSupply, held, approved, chef>>

Transfer(caller, from, to, shares) ==
    /\ Spend(from, caller, shares)
    /\ MoveShares(from, to, shares)
    /\ UNCHANGED <<now, expiration, held, approved>>

----------------------------------------------------------------------------
(* Premiums, claims, rewards and time.                                     *)

Instant(amount) == (amount * InstantReward) \div BasisPoints

\* Mistaken form of Distribute: the instant part is not approved first.
DistributeUnapproved(amount) ==
    LET instant == Instant(amount)
        taken == IF chef.totalShares > 0 THEN instant ELSE 0
    IN  /\ held + amount <= MaxHeld
        /\ chef.totalAssets[Asset] + instant <= MaxRewards
        /\ held' = held + amount - taken
        /\ approved' = approved - taken
        /\ chef' = Chef!DistributeReward(chef, Asset, instant)
        /\ UNCHANGED <<now, expiration, balanceOf, totalSupply, allowance>>

\* distribute(amount): the ledger takes the instant part only if there is a
\* holder to give it to, and what it does not take stays approved.
Distribute(amount) ==
    LET instant == Instant(amount)
        taken == IF chef.totalShares > 0 THEN instant ELSE 0
    IN  /\ held + amount <= MaxHeld
        /\ chef.totalAssets[Asset] + instant <= MaxRewards
        /\ approved + instant <= MaxHeld
        /\ ~Chef!DistributeReverts(chef, Asset, TRUE)
        /\ held' = held + amount - taken
        /\ approved' = approved + instant - taken
        /\ chef' = Chef!DistributeReward(chef, Asset, instant)
        /\ UNCHANGED <<now, expiration, balanceOf, totalSupply, allowance>>

\* Mistaken form of PayClaim: the reserve is not kept.
PayClaimToTheLast(amount) ==
    /\ Running
    /\ amount <= held
    /\ held' = held - amount
    /\ UNCHANGED <<now, expiration, balanceOf, totalSupply, allowance, approved, chef>>

\* _claim: pay an approved claim, if the pool has not expired and a part of
\* the supply stays covered.
PayClaim(amount) ==
    /\ Running
    /\ amount <= held
    /\ held - amount >= totalSupply \div ReserveDivisor
    /\ held' = held - amount
    /\ UNCHANGED <<now, expiration, balanceOf, totalSupply, allowance, approved, chef>>

\* conclude(), by an authorised caller.
Conclude ==
    /\ expiration' = now
    /\ UNCHANGED <<now, balanceOf, totalSupply, allowance, held, approved, chef>>

\* Anyone may call the ledger.
HarvestReward(token, target) ==
    /\ Chef!Harvest(token, target)
    /\ UNCHANGED <<now, expiration, balanceOf, totalSupply, allowance, held, approved>>

Reward(caller, token, amount) ==
    /\ Chef!Distribute(caller, token, amount)
    /\ UNCHANGED <<now, expiration, balanceOf, totalSupply, allowance, held, approved>>

\* Anyone may send the asset to the pool's address.
Donate(amount) ==
    /\ held + amount <= MaxHeld
    /\ held' = held + amount
    /\ UNCHANGED <<now, expiration, balanceOf, totalSupply, allowance, approved, chef>>

Tick ==
    /\ now < MaxTime
    /\ now' = now + 1
    /\ UNCHANGED <<expiration, balanceOf, totalSupply, allowance, held, approved, chef>>

----------------------------------------------------------------------------
Init ==
    /\ now = 1
    /\ expiration \in Expirations
    /\ balanceOf = [a \in Accounts |-> 0]
    /\ totalSupply = 0
    /\ allowance = [a \in Accounts |-> [b \in Accounts |-> 0]]
    /\ held = 0
    /\ approved = 0
    /\ Chef!Init

Investor ==
    \E a, b \in Accounts :
        \/ \E n \in 0..MaxShares : Deposit(a, n)
        \/ \E n \in 0..MaxHeld : Withdraw(a, b, n)
        \/ \E n \in 0..MaxShares : Redeem(a, b, n)
        \/ \E n \in 0..MaxAllowance : Approve(a, b, n)
        \/ \E c \in Accounts, n \in 0..MaxShares : Transfer(c, a, b, n)

Rewards ==
    \E t \in Tokens :
        \/ \E a \in Accounts : HarvestReward(t, a)
        \/ \E s \in Accounts \cup TrustedProxies, n \in 0..MaxRewards : Reward(s, t, n)

Next ==
    \/ Investor
    \/ Rewards
    \/ \E n \in 0..MaxHeld : Distribute(n) \/ PayClaim(n) \/ Donate(n)
    \/ Conclude
    \/ Tick

Spec == Init /\ [][Next]_vars

----------------------------------------------------------------------------
(* What is promised.                                                       *)

\* Every variable has its type; no balance goes below zero.
TypeOK ==
    /\ now \in Nat /\ expiration \in Nat
    /\ balanceOf \in [Accounts -> Nat] /\ totalSupply \in Nat
    /\ allowance \in [Accounts -> [Accounts -> Nat]]
    /\ held \in Nat /\ approved \in Nat
    /\ chef \in Chef!LedgerType

\* The ledger's idea of who holds how much is the pool's, at all times: no
\* path through _update (lines 356-366) tells it anything else.
LedgerMirrorsShares == chef.shares = balanceOf /\ chef.totalShares = totalSupply

\* The twentieth of the supply that a claim must leave (line 416) is there at
\* all times, also after any withdrawals and transfers that follow the claim.
ReserveHolds == held >= totalSupply \div ReserveDivisor

\* What the comments at lines 223 and 236 and the test at lines 610-619 say:
\* a pool that takes deposits, one without an expiration included, pays no
\* profit for its shares.
NoProfitWhileOpen ==
    Open => \A n \in 0..totalSupply : PreviewRedeem(n, totalSupply, held) <= n

\* The two ways to leave agree (the previews of lines 224-247): withdrawing
\* what some shares redeem for costs these shares and two more at the most,
\* and the shares a withdrawal costs redeem for the sum, less one unit at the
\* most: the roundings do not add up, and the fee is taken once.
WaysOutAgree ==
    /\ \A n \in 0..totalSupply :
          PreviewWithdraw(PreviewRedeem(n, totalSupply, held), totalSupply, held) <= n + 2
    /\ \A n \in 0..held :
          PreviewRedeem(PreviewWithdraw(n, totalSupply, held), totalSupply, held) + 1 >= n

\* An investor who leaves does not lower what the others' shares are worth.
LeaversDiluteNobody ==
    [][ totalSupply' < totalSupply =>
            (held' + 1) * (totalSupply + 1) >= (held + 1) * (totalSupply' + 1) ]_vars

\* A pool that has expired never opens again, mints nothing and pays no claim:
\* the asset leaves it only for shares that are burned.
Expired == expiration # 0 /\ expiration <= now
ExpiredForGood ==
    [][ Expired => /\ Expired'
                   /\ totalSupply' <= totalSupply
                   /\ held' < held => totalSupply' < totalSupply ]_vars

\* Seen from its ledger the pool is the caller InsuranceMasterchef.tla expects.
LedgerSpec == Chef!Spec
=============================================================================
