-------------------------- MODULE InsurancePoolProofs --------------------------
(***************************************************************************)
(* What holds of the vault for every number of accounts, every fee, every  *)
(* reserve and every bound.                                                *)
(*                                                                         *)
(* The ledger's lemmas come in under the name Ledger.  The vault itself    *)
(* calls the ledger Chef: the first part identifies the two and says what  *)
(* each call does to the vault's view of the ledger.                       *)
(***************************************************************************)
EXTENDS InsurancePoolHistory, FiniteSetTheorems, TLAPS

Ledger == INSTANCE InsuranceMasterchefProofs

\* What the ledger assumes of its constants is assumed of the pool's.
LEMMA LedgerAssumption == Ledger!MasterchefAssumption
  BY PoolAssumption DEF Ledger!MasterchefAssumption, Ledger!IsFiniteSet, IsFiniteSet

\* The calls of the vault are the handlers the ledger's lemmas are about.
LEMMA SameLedger ==
  /\ Chef!LedgerType = Ledger!LedgerType /\ Chef!InitLedger = Ledger!InitLedger
  /\ \A c, T, a : Chef!HarvestTokens(c, T, a) = Ledger!HarvestTokens(c, T, a)
  /\ \A c, a : Chef!HarvestAll(c, a) = Ledger!HarvestAll(c, a)
  /\ \A c, a, n : /\ Chef!IncreaseShare(c, a, n) = Ledger!IncreaseShare(c, a, n)
                  /\ Chef!DecreaseShare(c, a, n) = Ledger!DecreaseShare(c, a, n)
                  /\ Chef!DecreaseShareReverts(c, a, n) <=> Ledger!DecreaseShareReverts(c, a, n)
  /\ \A c, t, n : Chef!DistributeReward(c, t, n) = Ledger!DistributeReward(c, t, n)
<1> USE DEF Chef!Smaller, Ledger!Smaller, Chef!Entitlement, Ledger!Entitlement,
        Chef!HasShare, Ledger!HasShare, Chef!PendingReward, Ledger!PendingReward,
        Chef!Payout, Ledger!Payout
<1>1. Chef!LedgerType = Ledger!LedgerType /\ Chef!InitLedger = Ledger!InitLedger
  BY DEF Chef!LedgerType, Ledger!LedgerType, Chef!InitLedger, Ledger!InitLedger
<1>2. \A c, T, a : Chef!HarvestTokens(c, T, a) = Ledger!HarvestTokens(c, T, a)
  BY DEF Chef!HarvestTokens, Ledger!HarvestTokens
<1>3. \A c, a : Chef!HarvestAll(c, a) = Ledger!HarvestAll(c, a)
  BY <1>2 DEF Chef!HarvestAll, Ledger!HarvestAll
<1>4. \A c, a : Chef!UpdateDebt(c, a) = Ledger!UpdateDebt(c, a)
  BY DEF Chef!UpdateDebt, Ledger!UpdateDebt
<1>5. \A c, a, n : /\ Chef!IncreaseShare(c, a, n) = Ledger!IncreaseShare(c, a, n)
                   /\ Chef!DecreaseShare(c, a, n) = Ledger!DecreaseShare(c, a, n)
  BY <1>3, <1>4 DEF Chef!IncreaseShare, Ledger!IncreaseShare,
                    Chef!DecreaseShare, Ledger!DecreaseShare
<1>6. \A c, a, n : Chef!DecreaseShareReverts(c, a, n) <=> Ledger!DecreaseShareReverts(c, a, n)
  BY DEF Chef!DecreaseShareReverts, Ledger!DecreaseShareReverts,
         Chef!HarvestReverts, Ledger!HarvestReverts
<1>7. \A c, t, n : Chef!DistributeReward(c, t, n) = Ledger!DistributeReward(c, t, n)
  BY DEF Chef!DistributeReward, Ledger!DistributeReward
<1> QED BY <1>1, <1>2, <1>3, <1>5, <1>6, <1>7

\* A ledger whose shares are those of the vault.
Mirrors(c, shares, total) ==
    Ledger!LedgerInv(c) /\ c.shares = shares /\ c.totalShares = total

\* Minting, as the ledger sees it.
LEMMA IncreaseMirrors ==
  ASSUME NEW c, NEW f, NEW s, Mirrors(c, f, s), NEW a \in Accounts, NEW n \in Nat
  PROVE  Mirrors(Chef!IncreaseShare(c, a, n), [f EXCEPT ![a] = @ + n], s + n)
<1> DEFINE h == Ledger!HarvestAll(c, a)
           u == Ledger!IncreaseShare(c, a, n)
<1>1. Ledger!LedgerInv(c) /\ c \in Ledger!LedgerType /\ c.assets \in SUBSET Tokens
      /\ c.shares = f /\ c.totalShares = s
  BY LedgerAssumption, Ledger!LedgerFields DEF Mirrors, Ledger!LedgerInv
<1>2. /\ Ledger!AfterUpdate(h, u, a, c.shares[a] + n, c.totalShares + n)
      /\ Ledger!LedgerInv(u)
  BY <1>1, LedgerAssumption, Ledger!IncreaseFields
<1>3. h.shares = c.shares
  <2>1. Ledger!AfterHarvest(c, h, c.assets, a)
    BY <1>1, LedgerAssumption, Ledger!HarvestFields DEF Ledger!HarvestAll
  <2> QED BY <2>1 DEF Ledger!AfterHarvest
<1> HIDE DEF h, u
<1>4. u.shares = [f EXCEPT ![a] = @ + n] /\ u.totalShares = s + n
  BY <1>1, <1>2, <1>3 DEF Ledger!AfterUpdate
<1> QED BY <1>2, <1>4, SameLedger DEF Mirrors, u

\* Burning, as the ledger sees it: what it takes is there.
LEMMA DecreaseMirrors ==
  ASSUME NEW c, NEW f, NEW s, Mirrors(c, f, s), NEW a \in Accounts, NEW n \in Nat,
         ~Chef!DecreaseShareReverts(c, a, n)
  PROVE  /\ Mirrors(Chef!DecreaseShare(c, a, n), [f EXCEPT ![a] = @ - n], s - n)
         /\ n <= f[a] /\ n <= s
<1> DEFINE h == Ledger!HarvestAll(c, a)
           u == Ledger!DecreaseShare(c, a, n)
<1>1. /\ Ledger!LedgerInv(c) /\ c \in Ledger!LedgerType /\ c.assets \in SUBSET Tokens
      /\ c.shares = f /\ c.totalShares = s /\ c.shares \in [Accounts -> Nat] /\ c.totalShares \in Nat
      /\ ~Ledger!DecreaseShareReverts(c, a, n)
  BY LedgerAssumption, Ledger!LedgerFields, SameLedger DEF Mirrors, Ledger!LedgerInv
<1>2. /\ Ledger!AfterUpdate(h, u, a, c.shares[a] - n, c.totalShares - n)
      /\ Ledger!LedgerInv(u)
  BY <1>1, LedgerAssumption, Ledger!DecreaseFields
<1>3. h.shares = c.shares
  <2>1. Ledger!AfterHarvest(c, h, c.assets, a)
    BY <1>1, LedgerAssumption, Ledger!HarvestFields DEF Ledger!HarvestAll
  <2> QED BY <2>1 DEF Ledger!AfterHarvest
<1>4. n <= f[a] /\ n <= s  BY <1>1 DEF Ledger!DecreaseShareReverts
<1> HIDE DEF h, u
<1>5. u.shares = [f EXCEPT ![a] = @ - n] /\ u.totalShares = s - n
  BY <1>1, <1>2, <1>3 DEF Ledger!AfterUpdate
<1> QED BY <1>2, <1>4, <1>5, SameLedger DEF Mirrors, u

\* Harvests and distributions leave the shares alone.
LEMMA HarvestMirrors ==
  ASSUME NEW c, NEW f, NEW s, Mirrors(c, f, s), NEW T \in SUBSET Tokens, NEW a \in Accounts
  PROVE  Mirrors(Chef!HarvestTokens(c, T, a), f, s)
<1>1. Ledger!LedgerInv(c) /\ c \in Ledger!LedgerType  BY DEF Mirrors, Ledger!LedgerInv
<1>2. Ledger!LedgerInv(Ledger!HarvestTokens(c, T, a))
  BY <1>1, LedgerAssumption, Ledger!HarvestKeepsInv
<1>3. Ledger!AfterHarvest(c, Ledger!HarvestTokens(c, T, a), T, a)
  BY <1>1, LedgerAssumption, Ledger!HarvestFields
<1> QED BY <1>2, <1>3, SameLedger DEF Mirrors, Ledger!AfterHarvest

LEMMA DistributeMirrors ==
  ASSUME NEW c, NEW f, NEW s, Mirrors(c, f, s), NEW t \in Tokens, NEW n \in Nat
  PROVE  Mirrors(Chef!DistributeReward(c, t, n), f, s)
<1>1. Ledger!LedgerInv(c) /\ c \in Ledger!LedgerType  BY DEF Mirrors, Ledger!LedgerInv
<1>2. Ledger!LedgerInv(Ledger!DistributeReward(c, t, n))
  BY <1>1, LedgerAssumption, Ledger!DistributeKeepsInv
<1>3. Ledger!AfterDistribute(c, Ledger!DistributeReward(c, t, n), t, n)
  BY <1>1, LedgerAssumption, Ledger!DistributeFields
<1> QED BY <1>2, <1>3, SameLedger DEF Mirrors, Ledger!AfterDistribute

----------------------------------------------------------------------------
(* The price of shares: what the roundings of the previews amount to.      *)

\* Multiplication keeps the order, in each factor, and loses it for no factor
\* but zero.
LEMMA Products ==
  ASSUME NEW a \in Nat, NEW b \in Nat, NEW k \in Nat
  PROVE  /\ a * k \in Nat /\ a * k = k * a
         /\ a <= b => a * k <= b * k /\ k * a <= k * b
         /\ k > 0 /\ a * k <= b * k => a <= b
         /\ a * k < b * k => a < b
  OBVIOUS

\* Rounding down, and by less than the divisor.
LEMMA RoundsDown ==
  ASSUME NEW x \in Nat, NEW y \in Nat, NEW d \in Nat \ {0}
  PROVE  LET q == MulDivDown(x, y, d)
         IN  q \in Nat /\ q * d <= x * y /\ x * y < q * d + d
<1> DEFINE p == x * y
           q == p \div d
<1>1. p \in Nat  BY Products
<1> HIDE DEF p
<1>2. q \in Nat /\ q * d <= p /\ p < q * d + d  BY <1>1
<1> QED BY <1>2 DEF MulDivDown, p

\* Rounding up.
LEMMA RoundsUp ==
  ASSUME NEW x \in Nat, NEW y \in Nat, NEW d \in Nat \ {0}
  PROVE  LET q == MulDivUp(x, y, d)
         IN  q \in Nat /\ x * y <= q * d /\ q * d < x * y + d
<1> DEFINE p == x * y
           q == (p + d - 1) \div d
<1>1. p \in Nat  BY Products
<1> HIDE DEF p
<1>2. p + d - 1 \in Nat  BY <1>1
<1>3. q \in Nat /\ q * d <= p + d - 1 /\ p + d - 1 < q * d + d  BY <1>2
<1>4. q * d \in Nat  BY <1>3, Products
<1> QED BY <1>1, <1>3, <1>4 DEF MulDivUp, p

\* The fee leaves a part of every payment.
LEMMA FeeLeaves ==
  /\ BasisPoints \in Nat \ {0} /\ WithdrawalFee \in Nat
  /\ BasisPoints - WithdrawalFee \in Nat \ {0}
  /\ BasisPoints - WithdrawalFee <= BasisPoints
  /\ BasisPoints <= 2 * (BasisPoints - WithdrawalFee)
  BY PoolAssumption

\* A price is fair to those who stay: assets leave for at least their part of
\* the shares.
Fair(assets, shares, supply, total) == assets * (supply + 1) <= shares * (total + 1)

\* Withdrawing costs at least the shares the assets are worth; while the pool
\* runs, it costs a share for each unit, too.
LEMMA WithdrawIsFair ==
  ASSUME NEW a \in Nat, NEW s \in Nat, NEW h \in Nat
  PROVE  LET n == PreviewWithdraw(a, s, h)
         IN  n \in Nat /\ Fair(a, n, s, h) /\ (Running => a <= n)
<1> DEFINE q == SharesFor(a, s, h)
           n == PreviewWithdraw(a, s, h)
           L == Larger(q, a)
           B == BasisPoints
           F == BasisPoints - WithdrawalFee
           w == MulDivUp(L, B, F)
<1>1. q \in Nat /\ a * (s + 1) <= q * (h + 1)
  <2>1. s + 1 \in Nat /\ h + 1 \in Nat \ {0}  OBVIOUS
  <2> QED BY <2>1, RoundsUp DEF SharesFor
<1>2. L \in Nat /\ q <= L /\ a <= L  BY <1>1 DEF Larger
<1>3. F \in Nat \ {0} /\ B \in Nat /\ F <= B  BY FeeLeaves
<1> HIDE DEF q, L, F, B
<1>4. w \in Nat /\ L * B <= w * F  BY <1>2, <1>3, RoundsUp
<1> HIDE DEF w
<1>5. L <= w
  <2>1. L * F <= L * B  BY <1>2, <1>3, Products
  <2>2. L * F \in Nat /\ L * B \in Nat /\ w * F \in Nat  BY <1>2, <1>3, <1>4, Products
  <2>3. L * F <= w * F  BY <1>4, <2>1, <2>2
  <2> QED BY <1>2, <1>3, <1>4, <2>3, Products
<1>6. n \in Nat /\ q <= n /\ (Running => a <= n)
  <2>1. n = IF Running THEN w ELSE q  BY DEF PreviewWithdraw, w, L, q, B, F
  <2> QED BY <1>1, <1>2, <1>4, <1>5, <2>1
<1> HIDE DEF n
<1>7. q * (h + 1) <= n * (h + 1)  BY <1>1, <1>6, Products
<1>8. a * (s + 1) \in Nat /\ q * (h + 1) \in Nat /\ n * (h + 1) \in Nat
  BY <1>1, <1>6, Products
<1>9. a * (s + 1) <= n * (h + 1)  BY <1>1, <1>7, <1>8
<1> QED BY <1>6, <1>9 DEF Fair, n

\* Redeeming pays at most what the shares are worth; while the pool runs, at
\* most a unit for each share, too.
LEMMA RedeemIsFair ==
  ASSUME NEW n \in Nat, NEW s \in Nat, NEW h \in Nat
  PROVE  LET a == PreviewRedeem(n, s, h)
         IN  a \in Nat /\ Fair(a, n, s, h) /\ (Running => a <= n)
<1> DEFINE v == AssetsFor(n, s, h)
           a == PreviewRedeem(n, s, h)
           L == Smaller(v, n)
           B == BasisPoints
           F == BasisPoints - WithdrawalFee
           w == MulDivDown(L, F, B)
<1>1. v \in Nat /\ v * (s + 1) <= n * (h + 1)
  <2>1. s + 1 \in Nat \ {0} /\ h + 1 \in Nat  OBVIOUS
  <2> QED BY <2>1, RoundsDown DEF AssetsFor
<1>2. L \in Nat /\ L <= v /\ L <= n  BY <1>1 DEF Smaller
<1>3. F \in Nat /\ B \in Nat \ {0} /\ F <= B  BY FeeLeaves
<1> HIDE DEF v, L, F, B
<1>4. w \in Nat /\ w * B <= L * F  BY <1>2, <1>3, RoundsDown
<1> HIDE DEF w
<1>5. w <= L
  <2>1. L * F <= L * B  BY <1>2, <1>3, Products
  <2>2. L * F \in Nat /\ L * B \in Nat /\ w * B \in Nat  BY <1>2, <1>3, <1>4, Products
  <2>3. w * B <= L * B  BY <1>4, <2>1, <2>2
  <2> QED BY <1>2, <1>3, <1>4, <2>3, Products
<1>6. a \in Nat /\ a <= v /\ (Running => a <= n)
  <2>1. a = IF Running THEN w ELSE v  BY DEF PreviewRedeem, w, L, v, B, F
  <2> QED BY <1>1, <1>2, <1>4, <1>5, <2>1
<1> HIDE DEF a
<1>7. a * (s + 1) <= v * (s + 1)  BY <1>1, <1>6, Products
<1>8. a * (s + 1) \in Nat /\ v * (s + 1) \in Nat /\ n * (h + 1) \in Nat
  BY <1>1, <1>6, Products
<1>9. a * (s + 1) <= n * (h + 1)  BY <1>1, <1>7, <1>8
<1> QED BY <1>6, <1>9 DEF Fair, a

\* A fair price pays nothing for no shares.
LEMMA NothingForNothing ==
  ASSUME NEW a \in Nat, NEW s \in Nat, NEW h \in Nat, Fair(a, 0, s, h)
  PROVE  a = 0
<1>1. 0 * (h + 1) = 0 /\ s + 1 \in Nat  OBVIOUS
<1>2. a * (s + 1) <= 0  BY <1>1 DEF Fair
<1>3. a > 0 => 1 * (s + 1) <= a * (s + 1)  BY <1>1, Products
<1>4. a * (s + 1) \in Nat  BY <1>1, Products
<1> QED BY <1>1, <1>2, <1>3, <1>4

----------------------------------------------------------------------------
(* The inductive invariant, and what a step does to the price.             *)

\* Shares and the ledger's idea of them, within the bound on the supply.
SharesInv ==
    /\ balanceOf \in [Accounts -> Nat] /\ totalSupply \in 0..MaxShares
    /\ Mirrors(chef, balanceOf, totalSupply)

\* The inductive invariant.  The ledger's own is a part of it: without the
\* count of the shares a burn might take more than the supply.
VaultInv ==
    /\ now \in Nat \ {0} /\ expiration \in Nat
    /\ allowance \in [Accounts -> [Accounts -> Nat]]
    /\ held \in Nat /\ approved \in Nat
    /\ SharesInv

\* The steps of the vault, as far as the price of a share is concerned: shares
\* are bought for the asset, one for one, while the pool is open; ...
Invests ==
    \E n \in Nat : /\ Open
                   /\ held' = held + n /\ totalSupply' = totalSupply + n
                   /\ UNCHANGED <<now, expiration>>

\* ... they are given up at a fair price, ...
Leaves ==
    \E a, n \in Nat :
        /\ Fair(a, n, totalSupply, held) /\ (Running => a <= n)
        /\ a <= held /\ held' = held - a
        /\ n <= totalSupply /\ totalSupply' = totalSupply - n
        /\ UNCHANGED <<now, expiration>>

\* ... the asset comes in for no shares, or nothing happens to either, ...
Receives == held' \in Nat /\ held <= held' /\ UNCHANGED <<totalSupply, now, expiration>>

\* ... a claim is paid, ...
Claims ==
    /\ Running
    /\ held' \in Nat /\ totalSupply \div ReserveDivisor <= held'
    /\ UNCHANGED <<totalSupply, now, expiration>>

\* ... and time goes by, or the pool is concluded.
Ages ==
    /\ UNCHANGED <<held, totalSupply>>
    /\ \/ now' = now + 1 /\ expiration' = expiration
       \/ now' = now /\ expiration' = now

\* What changes hands changes it in the ledger too.
LEMMA MintKeeps ==
  ASSUME SharesInv, NEW a \in Accounts, NEW n \in Nat, Mint(a, n)
  PROVE  SharesInv' /\ totalSupply' = totalSupply + n
<1>1. /\ balanceOf \in [Accounts -> Nat] /\ totalSupply \in Nat /\ MaxShares \in Nat
      /\ Mirrors(chef, balanceOf, totalSupply)
  BY PoolAssumption DEF SharesInv
<1>2. /\ totalSupply + n <= MaxShares
      /\ balanceOf' = [balanceOf EXCEPT ![a] = @ + n]
      /\ totalSupply' = totalSupply + n
      /\ chef' = Chef!IncreaseShare(chef, a, n)
  BY DEF Mint
<1>3. Mirrors(chef', balanceOf', totalSupply')  BY <1>1, <1>2, IncreaseMirrors
<1> QED BY <1>1, <1>2, <1>3 DEF SharesInv

LEMMA BurnKeeps ==
  ASSUME SharesInv, NEW a \in Accounts, NEW n \in Nat, Burn(a, n)
  PROVE  SharesInv' /\ totalSupply' = totalSupply - n /\ n <= totalSupply
<1>1. /\ balanceOf \in [Accounts -> Nat] /\ totalSupply \in 0..MaxShares /\ MaxShares \in Nat
      /\ Mirrors(chef, balanceOf, totalSupply)
  BY PoolAssumption DEF SharesInv
<1>2. /\ balanceOf' = [balanceOf EXCEPT ![a] = @ - n]
      /\ totalSupply' = totalSupply - n
      /\ ~Chef!DecreaseShareReverts(chef, a, n)
      /\ chef' = Chef!DecreaseShare(chef, a, n)
  BY DEF Burn
<1>3. Mirrors(chef', balanceOf', totalSupply') /\ n <= balanceOf[a] /\ n <= totalSupply
  BY <1>1, <1>2, DecreaseMirrors
<1> QED BY <1>1, <1>2, <1>3 DEF SharesInv

LEMMA MoveKeeps ==
  ASSUME SharesInv, NEW a \in Accounts, NEW b \in Accounts, NEW n \in Nat, MoveShares(a, b, n)
  PROVE  SharesInv' /\ totalSupply' = totalSupply
<1> DEFINE taken == Chef!DecreaseShare(chef, a, n)
           f == [balanceOf EXCEPT ![a] = @ - n]
<1>1. /\ balanceOf \in [Accounts -> Nat] /\ totalSupply \in Nat
      /\ Mirrors(chef, balanceOf, totalSupply)
  BY PoolAssumption DEF SharesInv
<1>2. /\ balanceOf' = [f EXCEPT ![b] = @ + n]
      /\ totalSupply' = totalSupply
      /\ ~Chef!DecreaseShareReverts(chef, a, n)
      /\ chef' = Chef!IncreaseShare(taken, b, n)
  BY DEF MoveShares
<1>3. Mirrors(taken, f, totalSupply - n) /\ n <= balanceOf[a] /\ n <= totalSupply
  BY <1>1, <1>2, DecreaseMirrors
<1>4. f \in [Accounts -> Nat] /\ f[b] + n \in Nat /\ (totalSupply - n) + n = totalSupply
  BY <1>1, <1>3
<1> HIDE DEF taken, f
<1>5. Mirrors(chef', balanceOf', (totalSupply - n) + n)  BY <1>2, <1>3, IncreaseMirrors
<1>6. balanceOf' \in [Accounts -> Nat]  BY <1>2, <1>4
<1> QED BY <1>1, <1>2, <1>4, <1>5, <1>6 DEF SharesInv

\* An allowance is spent down to zero at the most.
LEMMA SpendKeeps ==
  ASSUME allowance \in [Accounts -> [Accounts -> Nat]], NEW a \in Accounts, NEW b \in Accounts,
         NEW n \in Nat, Spend(a, b, n)
  PROVE  allowance' \in [Accounts -> [Accounts -> Nat]]
  BY DEF Spend

\* Paying out a fair price is a step of Leaves.
LEMMA PayOutKeeps ==
  ASSUME VaultInv, NEW c \in Accounts, NEW a \in Accounts, NEW v \in Nat, NEW n \in Nat,
         Fair(v, n, totalSupply, held), Running => v <= n, PayOut(c, a, v, n)
  PROVE  VaultInv' /\ Leaves
<1>1. SharesInv' /\ totalSupply' = totalSupply - n /\ n <= totalSupply
  BY BurnKeeps DEF PayOut, VaultInv
<1>2. allowance' \in [Accounts -> [Accounts -> Nat]]  BY SpendKeeps DEF PayOut, VaultInv
<1>3. /\ v <= held /\ held' = held - v
      /\ UNCHANGED <<now, expiration, approved>>
  BY DEF PayOut
<1> QED BY <1>1, <1>2, <1>3 DEF VaultInv, Leaves

\* What the holders are given at once is a part of the premium.
LEMMA InstantPart ==
  ASSUME NEW n \in Nat
  PROVE  Instant(n) \in Nat /\ Instant(n) <= n
<1>1. BasisPoints \in Nat \ {0} /\ InstantReward \in Nat /\ InstantReward <= BasisPoints
  BY PoolAssumption
<1>2. /\ MulDivDown(n, InstantReward, BasisPoints) \in Nat
      /\ MulDivDown(n, InstantReward, BasisPoints) * BasisPoints <= n * InstantReward
  BY <1>1, RoundsDown
<1>3. Instant(n) = MulDivDown(n, InstantReward, BasisPoints)  BY DEF Instant, MulDivDown
<1>4. n * InstantReward <= n * BasisPoints  BY <1>1, Products
<1>5. /\ n * InstantReward \in Nat /\ n * BasisPoints \in Nat
      /\ Instant(n) * BasisPoints \in Nat
  BY <1>1, <1>2, <1>3, Products
<1>6. Instant(n) * BasisPoints <= n * BasisPoints  BY <1>2, <1>3, <1>4, <1>5
<1> QED BY <1>1, <1>2, <1>3, <1>6, Products

----------------------------------------------------------------------------
(* The actions, one by one.                                                *)

\* What investors do, and what any step of the vault does.
Trades == Invests \/ Leaves \/ Receives
Priced == Trades \/ Claims \/ Ages

\* The calls of investors keep the invariant and the price.
LEMMA InvestorKeeps == ASSUME VaultInv, Investor PROVE VaultInv' /\ Trades
<1>1. PICK a \in Accounts, b \in Accounts :
        \/ \E n \in 0..MaxShares : Deposit(a, n)
        \/ \E n \in 0..MaxHeld : Withdraw(a, b, n)
        \/ \E n \in 0..MaxShares : Redeem(a, b, n)
        \/ \E n \in 0..MaxAllowance : Approve(a, b, n)
        \/ \E c \in Accounts, n \in 0..MaxShares : Transfer(c, a, b, n)
  BY DEF Investor
<1>2. /\ SharesInv /\ held \in Nat /\ totalSupply \in Nat
      /\ allowance \in [Accounts -> [Accounts -> Nat]]
  BY DEF VaultInv, SharesInv
<1>3. ASSUME NEW n \in 0..MaxShares, Deposit(a, n) PROVE VaultInv' /\ Trades
  <2>1. SharesInv' /\ totalSupply' = totalSupply + n  BY <1>2, <1>3, MintKeeps DEF Deposit
  <2> QED BY <1>2, <1>3, <2>1 DEF Deposit, VaultInv, Invests, Trades
<1>4. ASSUME NEW n \in 0..MaxHeld, Withdraw(a, b, n) PROVE VaultInv' /\ Trades
  <2> DEFINE w == PreviewWithdraw(n, totalSupply, held)
  <2>1. w \in Nat /\ Fair(n, w, totalSupply, held) /\ (Running => n <= w)
    <3>1. n \in Nat  OBVIOUS
    <3> QED BY <1>2, <3>1, WithdrawIsFair
  <2>2. PayOut(a, b, n, w)  BY <1>4 DEF Withdraw
  <2> HIDE DEF w
  <2> QED BY <2>1, <2>2, PayOutKeeps DEF Trades
<1>5. ASSUME NEW n \in 0..MaxShares, Redeem(a, b, n) PROVE VaultInv' /\ Trades
  <2> DEFINE v == PreviewRedeem(n, totalSupply, held)
  <2>1. v \in Nat /\ Fair(v, n, totalSupply, held) /\ (Running => v <= n)
    <3>1. n \in Nat  OBVIOUS
    <3> QED BY <1>2, <3>1, RedeemIsFair
  <2>2. PayOut(a, b, v, n)  BY <1>5 DEF Redeem
  <2> HIDE DEF v
  <2> QED BY <2>1, <2>2, PayOutKeeps DEF Trades
<1>6. ASSUME NEW n \in 0..MaxAllowance, Approve(a, b, n) PROVE VaultInv' /\ Trades
  <2>1. allowance' \in [Accounts -> [Accounts -> Nat]]  BY <1>2, <1>6 DEF Approve
  <2> QED BY <1>2, <1>6, <2>1 DEF Approve, VaultInv, SharesInv, Receives, Trades
<1>7. ASSUME NEW c \in Accounts, NEW n \in 0..MaxShares, Transfer(c, a, b, n)
      PROVE  VaultInv' /\ Trades
  <2>1. SharesInv' /\ totalSupply' = totalSupply  BY <1>2, <1>7, MoveKeeps DEF Transfer
  <2>2. allowance' \in [Accounts -> [Accounts -> Nat]]  BY <1>2, <1>7, SpendKeeps DEF Transfer
  <2> QED BY <1>2, <1>7, <2>1, <2>2 DEF Transfer, VaultInv, Receives, Trades
<1> QED BY <1>1, <1>3, <1>4, <1>5, <1>6, <1>7

\* So do the calls anyone makes of the ledger.
LEMMA RewardsKeep == ASSUME VaultInv, Rewards PROVE VaultInv' /\ Receives
<1>1. PICK t \in Tokens :
        \/ \E a \in Accounts : HarvestReward(t, a)
        \/ \E s \in Accounts \cup TrustedProxies, n \in 0..MaxRewards : Reward(s, t, n)
  BY DEF Rewards
<1>2. Mirrors(chef, balanceOf, totalSupply)  BY DEF VaultInv, SharesInv
<1>3. Mirrors(chef', balanceOf, totalSupply)
  <2>1. ASSUME NEW a \in Accounts, HarvestReward(t, a) PROVE Mirrors(chef', balanceOf, totalSupply)
    <3>1. {t} \in SUBSET Tokens /\ chef' = Chef!HarvestTokens(chef, {t}, a)
      BY <2>1 DEF HarvestReward, Chef!Harvest
    <3> QED BY <1>2, <3>1, HarvestMirrors
  <2>2. ASSUME NEW s, NEW n \in 0..MaxRewards, Reward(s, t, n)
        PROVE  Mirrors(chef', balanceOf, totalSupply)
    <3>1. n \in Nat /\ chef' = Chef!DistributeReward(chef, t, n)
      BY <2>2 DEF Reward, Chef!Distribute
    <3> QED BY <1>2, <3>1, DistributeMirrors
  <2> QED BY <1>1, <2>1, <2>2
<1>4. UNCHANGED <<now, expiration, balanceOf, totalSupply, allowance, held, approved>>
  BY <1>1 DEF HarvestReward, Reward
<1> QED BY <1>3, <1>4 DEF VaultInv, SharesInv, Receives

\* A premium comes in, and what the ledger takes of it is no more than came.
LEMMA DistributeKeeps ==
  ASSUME VaultInv, NEW n \in Nat, Distribute(n)
  PROVE  VaultInv' /\ Receives
<1> DEFINE i == Instant(n)
           taken == IF chef.totalShares > 0 THEN i ELSE 0
<1>1. i \in Nat /\ i <= n  BY InstantPart
<1>2. /\ held' = held + n - taken
      /\ approved' = approved + i - taken
      /\ chef' = Chef!DistributeReward(chef, Asset, i)
      /\ UNCHANGED <<now, expiration, balanceOf, totalSupply, allowance>>
  BY DEF Distribute
<1> HIDE DEF i
<1>3. taken \in Nat /\ taken <= i  BY <1>1
<1> HIDE DEF taken
<1>4. held' \in Nat /\ held <= held' /\ approved' \in Nat
  BY <1>1, <1>2, <1>3 DEF VaultInv
<1>5. Asset \in Tokens /\ Mirrors(chef, balanceOf, totalSupply)
  BY PoolAssumption DEF VaultInv, SharesInv
<1>6. Mirrors(chef', balanceOf, totalSupply)  BY <1>1, <1>2, <1>5, DistributeMirrors
<1> QED BY <1>2, <1>4, <1>6 DEF VaultInv, SharesInv, Receives

\* Every step keeps the inductive invariant, and is a step of the price.
LEMMA VaultNext == ASSUME VaultInv, [Next]_vars PROVE VaultInv' /\ Priced
<1>1. CASE Investor  BY <1>1, InvestorKeeps DEF Priced
<1>2. CASE Rewards  BY <1>2, RewardsKeep DEF Trades, Priced
<1>3. ASSUME NEW n \in 0..MaxHeld, Distribute(n) PROVE VaultInv' /\ Priced
  BY <1>3, DistributeKeeps DEF Trades, Priced
<1>4. ASSUME NEW n \in 0..MaxHeld, PayClaim(n) PROVE VaultInv' /\ Priced
  <2>1. held' = held - n /\ n <= held /\ held - n >= totalSupply \div ReserveDivisor /\ Running
    BY <1>4 DEF PayClaim
  <2>2. UNCHANGED <<now, expiration, balanceOf, totalSupply, allowance, approved, chef>>
    BY <1>4 DEF PayClaim
  <2>3. held' \in Nat /\ totalSupply \div ReserveDivisor <= held'
    <3>1. held \in Nat /\ totalSupply \in Nat  BY DEF VaultInv, SharesInv
    <3>2. totalSupply \div ReserveDivisor \in Nat  BY <3>1, PoolAssumption
    <3> QED BY <2>1, <3>1, <3>2
  <2> QED BY <2>1, <2>2, <2>3 DEF VaultInv, SharesInv, Claims, Priced
<1>5. ASSUME NEW n \in 0..MaxHeld, Donate(n) PROVE VaultInv' /\ Priced
  BY <1>5 DEF Donate, VaultInv, SharesInv, Receives, Trades, Priced
<1>6. CASE Conclude  BY <1>6 DEF Conclude, VaultInv, SharesInv, Ages, Priced
<1>7. CASE Tick  BY <1>7 DEF Tick, VaultInv, SharesInv, Ages, Priced
<1>8. CASE UNCHANGED vars  BY <1>8 DEF vars, VaultInv, SharesInv, Receives, Trades, Priced
<1> QED BY <1>1, <1>2, <1>3, <1>4, <1>5, <1>6, <1>7, <1>8 DEF Next

\* A new pool satisfies the inductive invariant.
LEMMA VaultStart == ASSUME Init PROVE VaultInv
<1>1. Mirrors(chef, balanceOf, totalSupply)
  <2>1. chef = Ledger!InitLedger /\ balanceOf = [a \in Accounts |-> 0] /\ totalSupply = 0
    BY SameLedger DEF Init, Chef!Init
  <2>2. Ledger!LedgerInv(chef)  BY <2>1, LedgerAssumption, Ledger!InitInv
  <2> QED BY <2>1, <2>2 DEF Mirrors, Ledger!InitLedger
<1> QED BY <1>1, PoolAssumption DEF Init, VaultInv, SharesInv

\* The inductive invariant holds in every reachable state.
LEMMA VaultInvariant == Spec => []VaultInv
<1>1. Init => VaultInv  BY VaultStart
<1>2. VaultInv /\ [Next]_vars => VaultInv'  BY VaultNext
<1> QED BY <1>1, <1>2, PTL DEF Spec

\* Every variable of the vault keeps its type: no balance, no allowance and
\* nothing the pool holds goes below zero.
THEOREM PoolTyped == Spec => []TypeOK
<1>1. VaultInv => TypeOK
  BY SameLedger DEF VaultInv, SharesInv, Mirrors, Ledger!LedgerInv, TypeOK
<1> QED BY <1>1, VaultInvariant, PTL

\* The ledger's shares are the pool's, whatever mints, burns and transfers do.
THEOREM PoolMirrored == Spec => []LedgerMirrorsShares
<1>1. VaultInv => LedgerMirrorsShares
  BY DEF VaultInv, SharesInv, Mirrors, LedgerMirrorsShares
<1> QED BY <1>1, VaultInvariant, PTL

----------------------------------------------------------------------------
(* The price of a share over time.                                         *)

\* Leaving at a fair price does not lower it: what is left over what is left
\* is no less than what there was over what there was.
LEMMA FairKeepsPrice ==
  ASSUME NEW a \in Nat, NEW n \in Nat, NEW s \in Nat, NEW h \in Nat,
         a <= h, n <= s, Fair(a, n, s, h)
  PROVE  (h - a + 1) * (s + 1) >= (h + 1) * (s - n + 1)
<1> DEFINE H == h + 1
           S == s + 1
<1>1. H \in Nat /\ S \in Nat /\ H - a = h - a + 1 /\ S - n = s - n + 1  OBVIOUS
<1>2. a * S <= n * H  BY DEF Fair
<1> HIDE DEF H, S
<1>3. (H - a) * S = H * S - a * S /\ H * (S - n) = H * S - n * H  BY <1>1
<1>4. H * S \in Nat /\ a * S \in Nat /\ n * H \in Nat  BY <1>1, Products
<1>5. (H - a) * S >= H * (S - n)  BY <1>2, <1>3, <1>4
<1> QED BY <1>1, <1>5 DEF H, S

\* The reserve as a price: a part of the supply is covered exactly when a
\* share is worth a part of the asset.
LEMMA ReserveIsPrice ==
  ASSUME NEW s \in Nat, NEW h \in Nat, NEW d \in Nat \ {0}
  PROVE  h >= s \div d <=> s + 1 <= (h + 1) * d
<1> DEFINE q == s \div d
<1>1. q \in Nat /\ q * d <= s /\ s < q * d + d  OBVIOUS
<1> HIDE DEF q
<1>2. q * d \in Nat /\ (h + 1) * d \in Nat /\ (q + 1) * d = q * d + d  BY <1>1, Products
<1>3. ASSUME h >= q PROVE s + 1 <= (h + 1) * d
  <2>1. (q + 1) * d <= (h + 1) * d  BY <1>1, <1>3, Products
  <2> QED BY <1>1, <1>2, <2>1
<1>4. ASSUME s + 1 <= (h + 1) * d PROVE h >= q
  <2>1. SUFFICES ASSUME h + 1 <= q PROVE FALSE  BY <1>1
  <2>2. (h + 1) * d <= q * d  BY <1>1, <2>1, Products
  <2> QED BY <1>1, <1>2, <1>4, <2>2
<1> QED BY <1>3, <1>4 DEF q

\* Nobody's leaving lowers what the shares of the others are worth.
THEOREM PoolUndiluted == Spec => LeaversDiluteNobody
<1> DEFINE Kept == totalSupply' < totalSupply =>
                     (held' + 1) * (totalSupply + 1) >= (held + 1) * (totalSupply' + 1)
<1>1. ASSUME VaultInv, [Next]_vars PROVE Kept
  <2>1. totalSupply \in Nat /\ held \in Nat  BY <1>1 DEF VaultInv, SharesInv
  <2>2. Priced  BY <1>1, VaultNext
  <2>3. CASE Leaves
    <3>1. PICK a \in Nat, n \in Nat :
            /\ Fair(a, n, totalSupply, held)
            /\ a <= held /\ held' = held - a
            /\ n <= totalSupply /\ totalSupply' = totalSupply - n
      BY <2>3 DEF Leaves
    <3>2. (held - a + 1) * (totalSupply + 1) >= (held + 1) * (totalSupply - n + 1)
      BY <2>1, <3>1, FairKeepsPrice
    <3> QED BY <3>1, <3>2
  <2>4. CASE ~Leaves
    <3>1. ~(totalSupply' < totalSupply)
      BY <2>1, <2>2, <2>4 DEF Priced, Trades, Invests, Receives, Claims, Ages
    <3> QED BY <3>1
  <2> QED BY <2>3, <2>4
<1>2. VaultInv /\ [Next]_vars => [Kept]_vars  BY <1>1
<1> QED BY <1>2, VaultInvariant, PTL DEF Spec, LeaversDiluteNobody

\* Buying shares at a unit each keeps the reserve.
LEMMA ReserveWhenInvested ==
  ASSUME NEW s \in Nat, NEW h \in Nat, NEW d \in Nat \ {0}, NEW n \in Nat, h >= s \div d
  PROVE  h + n >= (s + n) \div d
<1>1. s + 1 <= (h + 1) * d  BY ReserveIsPrice
<1>2. n <= n * d /\ n * d \in Nat /\ (h + 1) * d \in Nat  BY Products
<1>3. ((h + n) + 1) * d = (h + 1) * d + n * d  OBVIOUS
<1>4. (s + n) + 1 <= ((h + n) + 1) * d  BY <1>1, <1>2, <1>3
<1>5. s + n \in Nat /\ h + n \in Nat  OBVIOUS
<1> QED BY <1>4, <1>5, ReserveIsPrice

\* Leaving at a fair price keeps it.
LEMMA ReserveWhenLeft ==
  ASSUME NEW s \in Nat, NEW h \in Nat, NEW d \in Nat \ {0}, NEW a \in Nat, NEW n \in Nat,
         a <= h, n <= s, Fair(a, n, s, h), h >= s \div d
  PROVE  h - a >= (s - n) \div d
<1> DEFINE H == h + 1
           S == s + 1
           I == h - a + 1
           T == s - n + 1
<1>1. I * S >= H * T  BY FairKeepsPrice
<1>2. H \in Nat \ {0} /\ S \in Nat /\ I \in Nat /\ T \in Nat /\ S <= H * d
  BY ReserveIsPrice
<1>3. h - a \in Nat /\ s - n \in Nat  OBVIOUS
<1> HIDE DEF H, S, I, T
<1>4. H * d \in Nat /\ I * S <= I * (H * d)  BY <1>2, Products
<1>5. I * (H * d) = (I * d) * H /\ H * T = T * H  BY <1>2
<1>6. I * S \in Nat /\ T * H \in Nat /\ I * d \in Nat /\ (I * d) * H \in Nat
  BY <1>2, Products
<1>7. T * H <= (I * d) * H  BY <1>1, <1>4, <1>5, <1>6
<1>8. T <= I * d  BY <1>2, <1>6, <1>7, Products
<1> QED BY <1>3, <1>8, ReserveIsPrice DEF I, T

\* The part of the supply that a claim must leave is there in every state.
THEOREM PoolReserved == Spec => []ReserveHolds
<1>1. Init => ReserveHolds
  <2>1. 0 \div ReserveDivisor = 0  BY PoolAssumption
  <2> QED BY <2>1 DEF Init, ReserveHolds
<1>2. ASSUME VaultInv, ReserveHolds, [Next]_vars PROVE ReserveHolds'
  <2>1. /\ totalSupply \in Nat /\ held \in Nat /\ ReserveDivisor \in Nat \ {0}
        /\ held >= totalSupply \div ReserveDivisor
    BY <1>2, PoolAssumption DEF VaultInv, SharesInv, ReserveHolds
  <2>2. Priced  BY <1>2, VaultNext
  <2>3. CASE Invests
    <3>1. PICK n \in Nat : held' = held + n /\ totalSupply' = totalSupply + n
      BY <2>3 DEF Invests
    <3>2. held + n >= (totalSupply + n) \div ReserveDivisor  BY <2>1, ReserveWhenInvested
    <3> QED BY <3>1, <3>2 DEF ReserveHolds
  <2>4. CASE Leaves
    <3>1. PICK a \in Nat, n \in Nat :
            /\ Fair(a, n, totalSupply, held)
            /\ a <= held /\ held' = held - a
            /\ n <= totalSupply /\ totalSupply' = totalSupply - n
      BY <2>4 DEF Leaves
    <3>2. held - a >= (totalSupply - n) \div ReserveDivisor  BY <2>1, <3>1, ReserveWhenLeft
    <3> QED BY <3>1, <3>2 DEF ReserveHolds
  <2>5. CASE Receives
    <3> DEFINE more == held'
    <3>1. more \in Nat /\ held <= more  BY <2>5 DEF Receives
    <3>2. totalSupply \div ReserveDivisor \in Nat  BY <2>1
    <3> HIDE DEF more
    <3>3. more >= totalSupply \div ReserveDivisor  BY <2>1, <3>1, <3>2
    <3> QED BY <2>5, <3>3 DEF Receives, ReserveHolds, more
  <2>6. CASE Claims
    <3> DEFINE rest == held'
    <3>1. rest \in Nat /\ totalSupply \div ReserveDivisor <= rest  BY <2>6 DEF Claims
    <3> HIDE DEF rest
    <3>2. rest >= totalSupply \div ReserveDivisor  BY <3>1
    <3> QED BY <2>6, <3>2 DEF Claims, ReserveHolds, rest
  <2>7. CASE Ages  BY <1>2, <2>7 DEF Ages, ReserveHolds
  <2> QED BY <2>2, <2>3, <2>4, <2>5, <2>6, <2>7 DEF Priced, Trades
<1>3. VaultInv /\ ReserveHolds /\ [Next]_vars => ReserveHolds'  BY <1>2
<1> QED BY <1>1, <1>3, VaultInvariant, PTL DEF Spec

\* A pool that has expired stays so, and pays only for shares.
THEOREM PoolExpired == Spec => ExpiredForGood
<1> DEFINE Closed == Expired => /\ Expired'
                                /\ totalSupply' <= totalSupply
                                /\ held' < held => totalSupply' < totalSupply
<1>1. ASSUME VaultInv, [Next]_vars, Expired
      PROVE  Expired' /\ totalSupply' <= totalSupply /\ (held' < held => totalSupply' < totalSupply)
  <2>1. /\ totalSupply \in Nat /\ held \in Nat /\ now \in Nat \ {0} /\ expiration \in Nat
        /\ expiration # 0 /\ expiration <= now
    BY <1>1 DEF VaultInv, SharesInv, Expired
  <2>2. ~Open /\ ~Running  BY <2>1 DEF Open, Running
  <2>3. Leaves \/ Receives \/ Ages
    BY <1>1, <2>2, VaultNext DEF Priced, Trades, Invests, Claims
  <2>4. CASE Leaves
    <3>1. PICK a \in Nat, n \in Nat :
            /\ Fair(a, n, totalSupply, held)
            /\ a <= held /\ held' = held - a
            /\ n <= totalSupply /\ totalSupply' = totalSupply - n
            /\ UNCHANGED <<now, expiration>>
      BY <2>4 DEF Leaves
    <3>2. n = 0 => a = 0  BY <2>1, <3>1, NothingForNothing
    <3> QED BY <2>1, <3>1, <3>2 DEF Expired
  <2>5. CASE Receives  BY <2>1, <2>5 DEF Receives, Expired
  <2>6. CASE Ages  BY <2>1, <2>6 DEF Ages, Expired
  <2> QED BY <2>3, <2>4, <2>5, <2>6
<1>2. VaultInv /\ [Next]_vars => [Closed]_vars  BY <1>1
<1> QED BY <1>2, VaultInvariant, PTL DEF Spec, ExpiredForGood

----------------------------------------------------------------------------
(* The two ways to leave, against each other.                              *)

\* Redeeming and withdrawing what that pays: each rounding costs less than a
\* unit, and the fee at most doubles what the first one costs.
LEMMA WithdrawRedeemed ==
  ASSUME NEW n \in Nat, NEW s \in Nat, NEW h \in Nat
  PROVE  PreviewWithdraw(PreviewRedeem(n, s, h), s, h) <= n + 2
<1> DEFINE S == s + 1
           H == h + 1
           B == BasisPoints
           F == BasisPoints - WithdrawalFee
           v == AssetsFor(n, s, h)
           r == PreviewRedeem(n, s, h)
           q == SharesFor(r, s, h)
           w == PreviewWithdraw(r, s, h)
<1>1. /\ S \in Nat \ {0} /\ H \in Nat \ {0} /\ S \in Nat /\ H \in Nat
      /\ B \in Nat \ {0} /\ F \in Nat \ {0} /\ B \in Nat /\ F \in Nat /\ B <= 2 * F
  BY FeeLeaves
<1>2. v \in Nat /\ v * S <= n * H  BY <1>1, RoundsDown DEF AssetsFor
<1>3. r \in Nat  BY RedeemIsFair
<1> HIDE DEF r
<1>4. q \in Nat /\ q * H < r * S + H  BY <1>1, <1>3, RoundsUp DEF SharesFor
<1> HIDE DEF S, H, B, F, v, q
<1>5. CASE Running
  <2> DEFINE L == Smaller(v, n)
             M == Larger(q, r)
  <2>1. L \in Nat /\ L <= v /\ L <= n  BY <1>2 DEF Smaller
  <2>2. M \in Nat /\ (M = q \/ M = r)  BY <1>3, <1>4 DEF Larger
  <2>3. r * B <= L * F
    BY <1>1, <1>5, <2>1, RoundsDown DEF PreviewRedeem, r, L, v, B, F
  <2>4. w * F < M * B + F /\ w \in Nat
    BY <1>1, <1>5, <2>2, RoundsUp DEF PreviewWithdraw, w, M, q, B, F
  <2> HIDE DEF L, M, w
  <2>5. /\ r * B \in Nat /\ L * F \in Nat /\ n * F \in Nat /\ M * B \in Nat /\ w * F \in Nat
        /\ q * B \in Nat /\ v * F \in Nat
    BY <1>1, <1>2, <1>3, <1>4, <2>1, <2>2, <2>4, Products
  <2>6. L * F <= n * F /\ L * F <= v * F  BY <1>1, <1>2, <2>1, Products
  <2>7. q * B < n * F + B
    <3>1. /\ (q * H) * B < (r * S + H) * B
          /\ (r * S) * B = (r * B) * S /\ (v * F) * S = (v * S) * F
          /\ (n * H) * F = (n * F) * H
      BY <1>1, <1>2, <1>3, <1>4
    <3>2. r * B <= v * F  BY <2>3, <2>5, <2>6
    <3>3. (r * B) * S <= (v * F) * S  BY <1>1, <2>5, <3>2, Products
    <3>4. v * S \in Nat /\ n * H \in Nat  BY <1>1, <1>2, Products
    <3>5. (v * S) * F <= (n * H) * F  BY <1>1, <1>2, <3>4, Products
    <3>6. (r * S + H) * B = (r * B) * S + B * H  BY <1>1, <1>3
    <3>7. (n * F + B) * H = (n * F) * H + B * H  BY <1>1, <2>5
    <3>8. /\ (q * B) * H = (q * H) * B
          /\ (r * B) * S \in Nat /\ (v * F) * S \in Nat /\ (n * F) * H \in Nat /\ B * H \in Nat
      BY <1>1, <1>4, <2>5, Products
    <3>9. (q * B) * H < (n * F + B) * H
      <4>1. (q * B) * H < (r * B) * S + B * H  BY <3>1, <3>6, <3>8
      <4>2. (r * B) * S <= (n * F) * H  BY <3>1, <3>3, <3>5, <3>8
      <4>3. (q * B) * H \in Nat  BY <1>1, <2>5, Products
      <4>4. (q * B) * H < (n * F) * H + B * H  BY <3>8, <4>1, <4>2, <4>3
      <4> QED BY <3>7, <4>4
    <3>10. n * F + B \in Nat  BY <1>1, <2>5
    <3> QED BY <1>1, <2>5, <3>9, <3>10, Products
  <2>8. M * B < n * F + B  BY <1>1, <2>2, <2>3, <2>5, <2>6, <2>7
  <2>9. w * F < (n + 3) * F
    <3>1. (n + 3) * F = n * F + 3 * F  BY <1>1
    <3> QED BY <1>1, <2>4, <2>5, <2>8, <3>1
  <2>10. w < n + 3  BY <1>1, <2>4, <2>9, Products
  <2> QED BY <2>4, <2>10 DEF w, r
<1>6. CASE ~Running
  <2>1. r = v /\ w = q  BY <1>6 DEF PreviewRedeem, PreviewWithdraw, r, w, q, v
  <2>2. q * H < n * H + H
    <3>1. v * S \in Nat /\ n * H \in Nat /\ q * H \in Nat  BY <1>1, <1>2, <1>4, Products
    <3> QED BY <1>1, <1>2, <1>4, <2>1, <3>1
  <2>3. q * H < (n + 1) * H  BY <1>1, <2>2
  <2>4. q < n + 1  BY <1>1, <1>4, <2>3, Products
  <2> QED BY <1>4, <2>1, <2>4 DEF w, r
<1> QED BY <1>5, <1>6

\* Withdrawing a sum and redeeming the shares that takes.
LEMMA RedeemWithdrawn ==
  ASSUME NEW n \in Nat, NEW s \in Nat, NEW h \in Nat
  PROVE  PreviewRedeem(PreviewWithdraw(n, s, h), s, h) + 1 >= n
<1> DEFINE S == s + 1
           H == h + 1
           B == BasisPoints
           F == BasisPoints - WithdrawalFee
           q == SharesFor(n, s, h)
           w == PreviewWithdraw(n, s, h)
           v == AssetsFor(w, s, h)
           r == PreviewRedeem(w, s, h)
<1>1. /\ S \in Nat \ {0} /\ H \in Nat \ {0} /\ S \in Nat /\ H \in Nat
      /\ B \in Nat \ {0} /\ F \in Nat \ {0} /\ B \in Nat /\ F \in Nat /\ F <= B
  BY FeeLeaves
<1>2. q \in Nat /\ n * S <= q * H  BY <1>1, RoundsUp DEF SharesFor
<1>3. w \in Nat  BY WithdrawIsFair
<1> HIDE DEF w
<1>4. v \in Nat /\ w * H < v * S + S  BY <1>1, <1>3, RoundsDown DEF AssetsFor
<1>5. r \in Nat  BY <1>3, RedeemIsFair
<1> HIDE DEF S, H, B, F, v, q, r
<1>6. CASE Running
  <2> DEFINE M == Larger(q, n)
             L == Smaller(v, w)
  <2>1. M \in Nat /\ q <= M /\ n <= M  BY <1>2 DEF Larger
  <2>2. L \in Nat /\ (L = v \/ L = w)  BY <1>3, <1>4 DEF Smaller
  <2>3. M * B <= w * F
    BY <1>1, <1>6, <2>1, RoundsUp DEF PreviewWithdraw, w, M, q, B, F
  <2>4. L * F < r * B + B
    BY <1>1, <1>6, <2>2, RoundsDown DEF PreviewRedeem, r, L, v, B, F
  <2> HIDE DEF L, M
  <2>5. /\ M * B \in Nat /\ w * F \in Nat /\ L * F \in Nat /\ r * B \in Nat /\ n * B \in Nat
        /\ q * B \in Nat /\ v * F \in Nat
    BY <1>1, <1>2, <1>3, <1>4, <1>5, <2>1, <2>2, Products
  <2>6. n * B <= M * B /\ q * B <= M * B  BY <1>1, <1>2, <2>1, Products
  <2>7. n * B < v * F + F
    <3>1. /\ (w * H) * F < (v * S + S) * F
          /\ (n * S) * B = (n * B) * S /\ (q * H) * B = (q * B) * H
          /\ (w * H) * F = (w * F) * H /\ (v * S + S) * F = (v * F + F) * S
      BY <1>1, <1>2, <1>3, <1>4
    <3>2. q * B <= w * F  BY <2>3, <2>5, <2>6
    <3>3. (q * B) * H <= (w * F) * H  BY <1>1, <2>5, <3>2, Products
    <3>4. n * S \in Nat /\ q * H \in Nat  BY <1>1, <1>2, Products
    <3>5. (n * S) * B <= (q * H) * B  BY <1>1, <1>2, <3>4, Products
    <3>6. /\ v * F + F \in Nat
          /\ (n * B) * S \in Nat /\ (q * B) * H \in Nat /\ (w * F) * H \in Nat
          /\ (v * F + F) * S \in Nat
      BY <1>1, <2>5, Products
    <3>7. (n * B) * S < (v * F + F) * S  BY <3>1, <3>3, <3>5, <3>6
    <3> QED BY <1>1, <2>5, <3>6, <3>7, Products
  <2>8. n * B < L * F + F  BY <1>1, <2>2, <2>3, <2>5, <2>6, <2>7
  <2>9. n * B < (r + 2) * B
    <3>1. (r + 2) * B = r * B + 2 * B  BY <1>1, <1>5
    <3> QED BY <1>1, <2>4, <2>5, <2>8, <3>1
  <2>10. n < r + 2  BY <1>1, <1>5, <2>9, Products
  <2> QED BY <1>5, <2>10 DEF r, w
<1>7. CASE ~Running
  <2>1. r = v /\ w = q  BY <1>7 DEF PreviewRedeem, PreviewWithdraw, r, w, q, v
  <2>2. n * S < (v + 1) * S
    <3>1. n * S \in Nat /\ q * H \in Nat /\ v * S \in Nat  BY <1>1, <1>2, <1>4, Products
    <3>2. (v + 1) * S = v * S + S  BY <1>1, <1>4
    <3> QED BY <1>1, <1>2, <1>4, <2>1, <3>1, <3>2
  <2>3. n < v + 1  BY <1>1, <1>4, <2>2, Products
  <2> QED BY <1>4, <2>1, <2>3 DEF r, w
<1> QED BY <1>6, <1>7

\* The ways out agree but for the units the roundings cost.
THEOREM PoolWaysOut == Spec => []WaysOutAgree
<1>1. VaultInv => WaysOutAgree
  <2> SUFFICES ASSUME VaultInv PROVE WaysOutAgree
    OBVIOUS
  <2>1. totalSupply \in Nat /\ held \in Nat  BY DEF VaultInv, SharesInv
  <2>2. ASSUME NEW n \in 0..totalSupply
        PROVE  PreviewWithdraw(PreviewRedeem(n, totalSupply, held), totalSupply, held) <= n + 2
    <3>1. n \in Nat  OBVIOUS
    <3> QED BY <2>1, <3>1, WithdrawRedeemed
  <2>3. ASSUME NEW n \in 0..held
        PROVE  PreviewRedeem(PreviewWithdraw(n, totalSupply, held), totalSupply, held) + 1 >= n
    <3>1. n \in Nat  OBVIOUS
    <3> QED BY <2>1, <3>1, RedeemWithdrawn
  <2> QED BY <2>2, <2>3 DEF WaysOutAgree
<1> QED BY <1>1, VaultInvariant, PTL

----------------------------------------------------------------------------
(* The vault is the caller the ledger expects.                             *)

\* Every step of the vault is a step of the ledger, or leaves it alone: mints,
\* burns and transfers come within the bound on the supply, and rewards within
\* the bound on what is distributed.
LEMMA VaultStepsLedger == ASSUME VaultInv, [Next]_vars PROVE [Chef!Next]_chef
<1>1. /\ totalSupply \in 0..MaxShares /\ held \in Nat /\ MaxShares \in Nat
      /\ chef \in Ledger!LedgerType /\ chef.totalShares = totalSupply
      /\ Mirrors(chef, balanceOf, totalSupply)
  BY PoolAssumption DEF VaultInv, SharesInv, Mirrors, Ledger!LedgerInv
<1>2. ASSUME Investor PROVE [Chef!Next]_chef
  <2>1. PICK a \in Accounts, b \in Accounts :
          \/ \E n \in 0..MaxShares : Deposit(a, n)
          \/ \E n \in 0..MaxHeld : Withdraw(a, b, n)
          \/ \E n \in 0..MaxShares : Redeem(a, b, n)
          \/ \E n \in 0..MaxAllowance : Approve(a, b, n)
          \/ \E c \in Accounts, n \in 0..MaxShares : Transfer(c, a, b, n)
    BY <1>2 DEF Investor
  <2>2. ASSUME NEW n \in 0..MaxShares, Deposit(a, n) PROVE Chef!Next
    <3>1. Chef!Increase(a, n)  BY <1>1, <2>2 DEF Deposit, Mint, Chef!Increase
    <3> QED BY <3>1 DEF Chef!Next
  <2>3. ASSUME NEW n \in Nat, Burn(b, n) PROVE Chef!Next
    <3>1. ~Chef!DecreaseShareReverts(chef, b, n)  BY <2>3 DEF Burn
    <3>2. n <= totalSupply  BY <1>1, <3>1, DecreaseMirrors
    <3>3. n \in 0..MaxShares  BY <1>1, <3>2
    <3>4. Chef!Decrease(b, n)  BY <2>3 DEF Burn, Chef!Decrease
    <3> QED BY <3>3, <3>4 DEF Chef!Next
  <2>4. ASSUME NEW n \in 0..MaxHeld, Withdraw(a, b, n) PROVE Chef!Next
    <3>1. PreviewWithdraw(n, totalSupply, held) \in Nat
      <4>1. n \in Nat /\ totalSupply \in Nat  BY <1>1
      <4> QED BY <1>1, <4>1, WithdrawIsFair
    <3>2. Burn(b, PreviewWithdraw(n, totalSupply, held))  BY <2>4 DEF Withdraw, PayOut
    <3> QED BY <2>3, <3>1, <3>2
  <2>5. ASSUME NEW n \in 0..MaxShares, Redeem(a, b, n) PROVE Chef!Next
    <3>1. n \in Nat /\ Burn(b, n)  BY <2>5 DEF Redeem, PayOut
    <3> QED BY <2>3, <3>1
  <2>6. ASSUME NEW n \in 0..MaxAllowance, Approve(a, b, n) PROVE UNCHANGED chef
    BY <2>6 DEF Approve
  <2>7. ASSUME NEW c \in Accounts, NEW n \in 0..MaxShares, Transfer(c, a, b, n)
        PROVE  Chef!Next
    <3>1. Chef!Move(a, b, n)  BY <2>7 DEF Transfer, MoveShares, Chef!Move
    <3> QED BY <3>1 DEF Chef!Next
  <2> QED BY <2>1, <2>2, <2>4, <2>5, <2>6, <2>7
<1>3. ASSUME Rewards PROVE Chef!Next
  <2>1. PICK t \in Tokens :
          \/ \E a \in Accounts : HarvestReward(t, a)
          \/ \E s \in Accounts \cup TrustedProxies, n \in 0..MaxRewards : Reward(s, t, n)
    BY <1>3 DEF Rewards
  <2> QED BY <2>1 DEF HarvestReward, Reward, Chef!Next
<1>4. ASSUME NEW n \in Nat, Distribute(n) PROVE Chef!Next
  <2> DEFINE i == Instant(n)
  <2>1. i \in Nat  BY InstantPart
  <2>2. /\ chef.totalAssets[Asset] + i <= MaxRewards
        /\ ~Chef!DistributeReverts(chef, Asset, TRUE)
        /\ chef' = Chef!DistributeReward(chef, Asset, i)
    BY <1>4 DEF Distribute
  <2> HIDE DEF i
  <2>3. chef.totalAssets[Asset] \in Nat /\ Asset \in Tokens /\ MaxRewards \in Nat
    BY <1>1, PoolAssumption, LedgerAssumption, Ledger!LedgerFields
  <2>4. i \in 0..MaxRewards  BY <2>1, <2>2, <2>3
  <2>5. Chef!Distribute(Pool, Asset, i)
    <3>1. (Pool \in {Pool} \cup TrustedProxies) = TRUE  OBVIOUS
    <3> QED BY <2>2, <3>1 DEF Chef!Distribute
  <2> QED BY <2>3, <2>4, <2>5 DEF Chef!Next
<1>5. ASSUME NEW n \in 0..MaxHeld, PayClaim(n) \/ Donate(n) PROVE UNCHANGED chef
  BY <1>5 DEF PayClaim, Donate
<1>6. ASSUME Conclude \/ Tick \/ UNCHANGED vars PROVE UNCHANGED chef
  BY <1>6 DEF Conclude, Tick, vars
<1>7. ASSUME NEW n \in 0..MaxHeld, Distribute(n) PROVE Chef!Next
  BY <1>4, <1>7
<1> QED BY <1>2, <1>3, <1>5, <1>6, <1>7 DEF Next

\* The vault implements the ledger's specification: every behaviour of the
\* pool, seen from its ledger, is one the ledger allows.
THEOREM PoolCallsLedger == Spec => LedgerSpec
<1>1. Init => Chef!Init  BY DEF Init
<1>2. VaultInv /\ [Next]_vars => [Chef!Next]_chef  BY VaultStepsLedger
<1> QED BY <1>1, <1>2, VaultInvariant, PTL DEF Spec, LedgerSpec, Chef!Spec

-----------------------------------------------------------------------------
(***************************************************************************)
(* The investors of a running pool as a group: by the shape of the steps   *)
(* of the vault that is shown above, each change of the principal is       *)
(* matched by the change of the supply.                                    *)
(***************************************************************************)

\* What the investors' steps do to the principal, less the supply.
LEMMA TradesKeepPrincipal ==
  ASSUME VaultInv, Trades, principal \in Int, principal' = principal + held' - held
  PROVE  /\ principal' \in Int
         /\ Running' => Running
         /\ Running /\ principal >= totalSupply => principal' >= totalSupply'
<1>1. totalSupply \in Nat /\ held \in Nat  BY DEF VaultInv, SharesInv
<1>2. CASE Invests
  <2>1. PICK n \in Nat : held' = held + n /\ totalSupply' = totalSupply + n
                         /\ UNCHANGED <<now, expiration>>
    BY <1>2 DEF Invests
  <2>2. principal' = principal + n  BY <1>1, <2>1
  <2> QED BY <1>1, <2>1, <2>2 DEF Running
<1>3. CASE Leaves
  <2>1. PICK a \in Nat, n \in Nat :
          /\ Running => a <= n
          /\ a <= held /\ held' = held - a
          /\ n <= totalSupply /\ totalSupply' = totalSupply - n
          /\ UNCHANGED <<now, expiration>>
    BY <1>3 DEF Leaves
  <2>2. principal' = principal - a  BY <1>1, <2>1
  <2> QED BY <1>1, <2>1, <2>2 DEF Running
<1>4. CASE Receives
  <2> DEFINE more == held'
             then == principal'
  <2>1. /\ more \in Nat /\ held <= more /\ then = principal + more - held
        /\ UNCHANGED <<totalSupply, now, expiration>>
    BY <1>4 DEF Receives
  <2> HIDE DEF more, then
  <2>2. then \in Int /\ (principal >= totalSupply => then >= totalSupply)
    BY <1>1, <2>1
  <2> QED BY <2>1, <2>2 DEF Running, then
<1> QED BY <1>2, <1>3, <1>4 DEF Trades

\* The other steps change neither, and open no pool that has closed.
LEMMA OthersKeepSupply ==
  ASSUME VaultInv, Others
  PROVE  totalSupply' = totalSupply /\ (Running' => Running)
<1>1. ASSUME Rewards PROVE Receives  BY <1>1, RewardsKeep
<1>2. ASSUME NEW n \in 0..MaxHeld, Distribute(n) PROVE Receives
  <2>1. n \in Nat  OBVIOUS
  <2> QED BY <1>2, <2>1, DistributeKeeps
<1>3. ASSUME NEW n \in 0..MaxHeld, PayClaim(n) \/ Donate(n)
      PROVE  UNCHANGED <<totalSupply, now, expiration>>
  BY <1>3 DEF PayClaim, Donate
<1>4. CASE UNCHANGED <<totalSupply, now, expiration>>  BY <1>4 DEF Running
<1>5. CASE Conclude
  <2>1. totalSupply' = totalSupply /\ now' = now /\ expiration' = now  BY <1>5 DEF Conclude
  <2>2. now \in Nat  BY DEF VaultInv
  <2>3. ~Running'  BY <2>1, <2>2 DEF Running
  <2> QED BY <2>1, <2>3
<1>6. CASE Tick
  <2>1. totalSupply' = totalSupply /\ now' = now + 1 /\ expiration' = expiration
    BY <1>6 DEF Tick
  <2>2. now \in Nat /\ expiration \in Nat  BY DEF VaultInv
  <2>3. now + 1 < expiration => now < expiration  BY <2>2
  <2> QED BY <2>1, <2>3 DEF Running
<1> QED BY <1>1, <1>2, <1>3, <1>4, <1>5, <1>6 DEF Others, Receives

\* While the pool runs, its investors together have taken out no more than
\* they put in: every share that is left is still paid for.
THEOREM PoolNoProfit == HSpec => []NoProfitInTotal
<1> DEFINE Inv == VaultInv /\ principal \in Int /\ NoProfitInTotal
<1>1. HInit => Inv  BY VaultStart DEF HInit, Init, NoProfitInTotal
<1>2. ASSUME Inv, [HNext]_hvars PROVE Inv'
  <2>1. [Next]_vars  BY <1>2 DEF HNext, HInvestor, Others, Next, hvars, vars
  <2>2. VaultInv'  BY <1>2, <2>1, VaultNext
  <2>3. CASE HInvestor
    <3>1. Investor /\ principal' = principal + held' - held  BY <2>3 DEF HInvestor
    <3>2. Trades  BY <1>2, <3>1, InvestorKeeps
    <3> QED BY <1>2, <2>2, <3>1, <3>2, TradesKeepPrincipal DEF NoProfitInTotal
  <2>4. CASE Others /\ UNCHANGED principal
    BY <1>2, <2>2, <2>4, OthersKeepSupply DEF NoProfitInTotal
  <2>5. CASE UNCHANGED hvars
    BY <1>2, <2>2, <2>5 DEF hvars, NoProfitInTotal, Running
  <2> QED BY <1>2, <2>3, <2>4, <2>5 DEF HNext
<1>3. Inv /\ [HNext]_hvars => Inv'  BY <1>2
<1>4. Inv => NoProfitInTotal  OBVIOUS
<1> QED BY <1>1, <1>3, <1>4, PTL DEF HSpec
====
