----------------------- MODULE InsuranceMasterchefProofs -----------------------
(***************************************************************************)
(* What holds of the reward ledger for every number of accounts, tokens    *)
(* and shares and every precision.                                         *)
(*                                                                         *)
(* Each handler is an operator on ledgers, so each has a lemma on ledgers: *)
(* ...Fields says what it changes, ...KeepsInv that it keeps LedgerInv.    *)
(* The theorems at the end put them together along Next.                   *)
(***************************************************************************)
EXTENDS InsuranceMasterchef, Arithmetic

\* The types of the fields of a ledger.
LEMMA LedgerFields ==
  ASSUME NEW c \in LedgerType
  PROVE  /\ c.assets \subseteq Tokens
         /\ c.totalAssets \in [Tokens -> Nat]
         /\ c.acc \in [Tokens -> Nat]
         /\ c.shares \in [Accounts -> Nat]
         /\ c.debt \in [Tokens -> [Accounts -> Nat]]
         /\ c.totalShares \in Nat
         /\ c.funds \in [Tokens -> Nat]
  BY DEF LedgerType

\* What shares have earned is a counter.
LEMMA EntitlementType ==
  ASSUME NEW c \in LedgerType, NEW t \in Tokens, NEW a \in Accounts
  PROVE  Entitlement(c, t, a) \in Nat
<1>1. c.acc[t] \in Nat /\ c.shares[a] \in Nat  BY LedgerFields
<1>2. c.acc[t] * c.shares[a] \in Nat  BY <1>1, TimesNat
<1> QED BY <1>2, DivType, MasterchefAssumption DEF Entitlement

\* The view pendingReward returns a counter.
LEMMA PendingType ==
  ASSUME NEW c \in LedgerType, NEW t \in Tokens, NEW a \in Accounts
  PROVE  PendingReward(c, t, a) \in Nat
<1>1. c.debt[t][a] \in Nat BY LedgerFields
<1> QED BY <1>1, EntitlementType DEF PendingReward

\* A payment is covered by what is pending and by what is held.
LEMMA PayoutType ==
  ASSUME NEW c \in LedgerType, NEW t \in Tokens, NEW a \in Accounts
  PROVE  /\ Payout(c, t, a) \in Nat
         /\ Payout(c, t, a) <= PendingReward(c, t, a)
         /\ Payout(c, t, a) <= c.funds[t]
  <1>1. c.funds[t] \in Nat BY LedgerFields
  <1> QED BY <1>1, PendingType DEF Payout, Smaller

\* harvest never takes more out of the funds than there is.
LEMMA HarvestType ==
  ASSUME NEW c \in LedgerType, NEW T \in SUBSET Tokens, NEW a \in Accounts
  PROVE  HarvestTokens(c, T, a) \in LedgerType
<1> DEFINE F == [t \in Tokens |-> IF t \in T THEN c.funds[t] - Payout(c, t, a) ELSE c.funds[t]]
           D == [t \in Tokens |-> IF t \in T /\ HasShare(c, a)
                    THEN [c.debt[t] EXCEPT ![a] = Entitlement(c, t, a)] ELSE c.debt[t]]
<1>1. F \in [Tokens -> Nat]  BY PayoutType, LedgerFields
<1>2. D \in [Tokens -> [Accounts -> Nat]] BY EntitlementType, LedgerFields
<1>3. HarvestTokens(c, T, a) = [c EXCEPT !.funds = F, !.debt = D] BY DEF HarvestTokens
<1> HIDE DEF F, D
<1> QED BY <1>1, <1>2, <1>3 DEF LedgerType

\* n shares more of one account are n shares more in all.
LEMMA UnitsGrow ==
  ASSUME NEW f \in [Accounts -> Nat], NEW a \in Accounts, NEW n \in Nat,
         IsFiniteSet(Units(f))
  PROVE  LET g == [f EXCEPT ![a] = @ + n]
         IN  /\ IsFiniteSet(Units(g))
             /\ Cardinality(Units(g)) = Cardinality(Units(f)) + n
<1> DEFINE g == [f EXCEPT ![a] = @ + n]
           New == {a} \X (f[a] + 1 .. f[a] + n)
<1>1. Units(g) = Units(f) \cup New
  <2>1. ASSUME NEW u \in Units(g) PROVE u \in Units(f) \cup New
    <3>1. PICK b \in Accounts : u \in {b} \X (1..g[b])  BY <2>1 DEF Units
    <3>2. CASE b = a
      BY <3>1, <3>2 DEF Units
    <3>3. CASE b # a  BY <3>1, <3>3 DEF Units
    <3> QED BY <3>2, <3>3
  <2>2. ASSUME NEW u \in Units(f) PROVE u \in Units(g)
    <3>1. PICK b \in Accounts : u \in {b} \X (1..f[b])  BY <2>2 DEF Units
    <3>2. f[b] <= g[b] /\ f[b] \in Nat /\ g[b] \in Nat OBVIOUS
    <3>3. u \in {b} \X (1..g[b])  BY <3>1, <3>2
    <3> QED BY <3>3 DEF Units
  <2>3. New \subseteq Units(g)
    <3>1. New \subseteq {a} \X (1..g[a])  OBVIOUS
    <3> QED BY <3>1 DEF Units
  <2> QED BY <2>1, <2>2, <2>3
<1>2. Units(f) \cap New = {}
  <2>1. ASSUME NEW u \in Units(f), u \in New PROVE FALSE
    <3>1. PICK b \in Accounts : u \in {b} \X (1..f[b])  BY <2>1 DEF Units
    <3>2. u[1] = b /\ u[2] \in 1..f[b] /\ u[1] = a /\ u[2] \in (f[a] + 1 .. f[a] + n)  BY <2>1, <3>1
    <3>3. f[a] \in Nat  OBVIOUS
    <3> QED BY <3>2, <3>3
  <2> QED BY <2>1
<1>3. IsFiniteSet(New) /\ Cardinality(New) = n
  <2> DEFINE I == f[a] + 1 .. f[a] + n
  <2>1. f[a] + 1 \in Int /\ f[a] + n \in Int /\ f[a] \in Nat  OBVIOUS
  <2>2. /\ IsFiniteSet(I)
        /\ Cardinality(I) = IF f[a] + 1 > f[a] + n THEN 0 ELSE (f[a] + n) - (f[a] + 1) + 1
    BY <2>1, FS_Interval
  <2>3. Cardinality(I) = n  BY <2>1, <2>2
  <2>4. IsFiniteSet({a}) /\ Cardinality({a}) = 1  BY FS_Singleton
  <2> HIDE DEF I
  <2>5. IsFiniteSet({a} \X I) /\ Cardinality({a} \X I) = Cardinality({a}) * Cardinality(I)
    BY <2>2, <2>4, FS_Product
  <2>6. IsFiniteSet({a} \X I) /\ Cardinality({a} \X I) = n  BY <2>3, <2>4, <2>5
  <2> QED BY <2>6 DEF I
<1>4. IsFiniteSet({}) /\ Cardinality({}) = 0  BY FS_EmptySet
<1> HIDE DEF New, g
<1>5. IsFiniteSet(Units(g)) /\ Cardinality(Units(g)) = Cardinality(Units(f)) + Cardinality(New) - Cardinality(Units(f) \cap New)
  BY <1>1, <1>3, FS_Union
<1>6. Cardinality(Units(f)) \in Nat  BY FS_CardinalityType
<1> QED BY <1>2, <1>3, <1>4, <1>5, <1>6 DEF g

\* n shares less of one account are n shares less in all.
LEMMA UnitsShrink ==
  ASSUME NEW f \in [Accounts -> Nat], NEW a \in Accounts, NEW n \in Nat, n <= f[a],
         IsFiniteSet(Units(f))
  PROVE  LET g == [f EXCEPT ![a] = @ - n]
         IN  /\ IsFiniteSet(Units(g))
             /\ Cardinality(Units(g)) = Cardinality(Units(f)) - n
<1> DEFINE g == [f EXCEPT ![a] = @ - n]
<1>1. /\ g \in [Accounts -> Nat]
      /\ f = [g EXCEPT ![a] = @ + n]
  <2>1. f[a] - n \in Nat /\ (f[a] - n) + n = f[a]  OBVIOUS
  <2>2. g \in [Accounts -> Nat]  BY <2>1
  <2>3. \A b \in Accounts : f[b] = [g EXCEPT ![a] = @ + n][b]  BY <2>1
  <2> QED BY <2>2, <2>3
<1>2. Units(g) \subseteq Units(f)
  <2>1. ASSUME NEW u \in Units(g) PROVE u \in Units(f)
    <3>1. PICK b \in Accounts : u \in {b} \X (1..g[b])  BY <2>1 DEF Units
    <3>2. f[b] >= g[b] /\ f[b] \in Nat /\ g[b] \in Nat OBVIOUS
    <3>3. u \in {b} \X (1..f[b])  BY <3>1, <3>2
    <3> QED BY <3>3 DEF Units
  <2> QED BY <2>1
<1> HIDE DEF g
<1>3. IsFiniteSet(Units(g))  BY <1>2, FS_Subset
<1>4. Cardinality(Units(f)) = Cardinality(Units(g)) + n  BY <1>1, <1>3, UnitsGrow
<1>5. Cardinality(Units(g)) \in Nat  BY <1>3, FS_CardinalityType
<1> QED BY <1>3, <1>4, <1>5 DEF g

\* No account has more shares than there are.
LEMMA UnitsOfOne ==
  ASSUME NEW f \in [Accounts -> Nat], NEW a \in Accounts, IsFiniteSet(Units(f))
  PROVE  f[a] <= Cardinality(Units(f))
<1> DEFINE I == 1..f[a]
<1>1. {a} \X I \subseteq Units(f)  BY DEF Units
<1>2. f[a] \in Nat /\ f[a] \in Int /\ 1 \in Int  OBVIOUS
<1>3. IsFiniteSet(I) /\ Cardinality(I) = IF 1 > f[a] THEN 0 ELSE f[a] - 1 + 1
  BY <1>2, FS_Interval
<1>4. Cardinality(I) = f[a]  BY <1>2, <1>3
<1>5. IsFiniteSet({a}) /\ Cardinality({a}) = 1  BY FS_Singleton
<1> HIDE DEF I
<1>6. Cardinality({a} \X I) = Cardinality({a}) * Cardinality(I)  BY <1>3, <1>5, FS_Product
<1>7. Cardinality({a} \X I) = f[a]  BY <1>2, <1>4, <1>5, <1>6
<1>8. Cardinality({a} \X I) <= Cardinality(Units(f))  BY <1>1, FS_Subset
<1> QED BY <1>7, <1>8

----------------------------------------------------------------------------
\* No debt is above what the shares of its account have earned.
DebtWithin(c) ==
    \A t \in Tokens, a \in Accounts : c.debt[t][a] <= Entitlement(c, t, a)

\* Tokens without a place in the table carry nothing.
Clean(c) ==
    \A t \in Tokens \ c.assets :
        /\ c.acc[t] = 0 /\ c.totalAssets[t] = 0 /\ c.funds[t] = 0
        /\ \A a \in Accounts : c.debt[t][a] = 0

\* The total is the number of shares held.
Counted(c) ==
    IsFiniteSet(Units(c.shares)) /\ c.totalShares = Cardinality(Units(c.shares))

\* The inductive invariant, of a ledger.
LedgerInv(c) == c \in LedgerType /\ Counted(c) /\ DebtWithin(c) /\ Clean(c)

\* What a harvest leaves as it was, and what it does to debts and funds.
AfterHarvest(c, h, T, a) ==
    /\ h.assets = c.assets /\ h.totalAssets = c.totalAssets /\ h.acc = c.acc
    /\ h.shares = c.shares /\ h.totalShares = c.totalShares
    /\ \A t \in Tokens, b \in Accounts :
          /\ Entitlement(h, t, b) = Entitlement(c, t, b)
          /\ h.debt[t][b] = IF t \in T /\ b = a /\ HasShare(c, a)
                            THEN Entitlement(c, t, a) ELSE c.debt[t][b]
    /\ \A t \in Tokens :
          h.funds[t] = IF t \in T THEN c.funds[t] - Payout(c, t, a) ELSE c.funds[t]

\* HarvestTokens does what AfterHarvest says.
LEMMA HarvestFields ==
  ASSUME NEW c \in LedgerType, NEW T \in SUBSET Tokens, NEW a \in Accounts
  PROVE  AfterHarvest(c, HarvestTokens(c, T, a), T, a)
<1> DEFINE F == [t \in Tokens |-> IF t \in T THEN c.funds[t] - Payout(c, t, a) ELSE c.funds[t]]
           D == [t \in Tokens |-> IF t \in T /\ HasShare(c, a)
                    THEN [c.debt[t] EXCEPT ![a] = Entitlement(c, t, a)] ELSE c.debt[t]]
           h == HarvestTokens(c, T, a)
<1>1. h = [c EXCEPT !.funds = F, !.debt = D]  BY DEF HarvestTokens
<1>2. /\ h.assets = c.assets /\ h.totalAssets = c.totalAssets /\ h.acc = c.acc
      /\ h.shares = c.shares /\ h.totalShares = c.totalShares
      /\ h.debt = D /\ h.funds = F
  BY <1>1 DEF LedgerType
<1>3. \A t \in Tokens, b \in Accounts : Entitlement(h, t, b) = Entitlement(c, t, b)
  BY <1>2 DEF Entitlement
<1>4. \A t \in Tokens, b \in Accounts :
         D[t][b] = IF t \in T /\ b = a /\ HasShare(c, a)
                   THEN Entitlement(c, t, a) ELSE c.debt[t][b]
  BY LedgerFields
<1>5. \A t \in Tokens :
         F[t] = IF t \in T THEN c.funds[t] - Payout(c, t, a) ELSE c.funds[t]
  OBVIOUS
<1> HIDE DEF h, F, D
<1> QED BY <1>2, <1>3, <1>4, <1>5 DEF AfterHarvest, h

\* A harvest keeps the inductive invariant.
LEMMA HarvestKeepsInv ==
  ASSUME NEW c, LedgerInv(c), NEW T \in SUBSET Tokens, NEW a \in Accounts
  PROVE  LedgerInv(HarvestTokens(c, T, a))
<1> DEFINE h == HarvestTokens(c, T, a)
<1>1. c \in LedgerType  BY DEF LedgerInv
<1>2. h \in LedgerType  BY <1>1, HarvestType
<1>3. AfterHarvest(c, h, T, a)  BY <1>1, HarvestFields
<1> HIDE DEF h
<1>4. Counted(h)  BY <1>3 DEF AfterHarvest, Counted, LedgerInv
<1>5. DebtWithin(h)
  <2>1. \A t \in Tokens, b \in Accounts : Entitlement(c, t, b) \in Nat  BY <1>1, EntitlementType
  <2> QED BY <1>3, <2>1 DEF AfterHarvest, DebtWithin, LedgerInv
<1>6. Clean(h)
  <2>1. SUFFICES ASSUME NEW t \in Tokens \ c.assets
                 PROVE  /\ h.funds[t] = 0 /\ \A b \in Accounts : h.debt[t][b] = 0
                        /\ h.acc[t] = 0 /\ h.totalAssets[t] = 0
    BY <1>3 DEF AfterHarvest, Clean
  <2>2. /\ c.acc[t] = 0 /\ c.totalAssets[t] = 0 /\ c.funds[t] = 0
        /\ \A b \in Accounts : c.debt[t][b] = 0
    BY DEF LedgerInv, Clean
  <2>3. Entitlement(c, t, a) = 0
    <3>1. c.shares[a] \in Nat /\ 0 * c.shares[a] = 0  BY <1>1, LedgerFields
    <3>2. 0 \div Precision = 0  BY MasterchefAssumption
    <3> QED BY <2>2, <3>1, <3>2 DEF Entitlement
  <2>4. Payout(c, t, a) = 0
    BY <1>1, <2>2, PayoutType
  <2> QED BY <1>3, <2>2, <2>3, <2>4 DEF AfterHarvest
<1> QED BY <1>2, <1>4, <1>5, <1>6 DEF LedgerInv, h

----------------------------------------------------------------------------
\* What writing new shares and rewriting the debts of one account does.
AfterUpdate(c, u, a, s, n) ==
    /\ u.assets = c.assets /\ u.totalAssets = c.totalAssets /\ u.acc = c.acc
    /\ u.funds = c.funds /\ u.totalShares = n
    /\ u.shares = [c.shares EXCEPT ![a] = s]
    /\ \A t \in Tokens, b \in Accounts :
          /\ Entitlement(u, t, b) =
                IF b = a THEN (c.acc[t] * s) \div Precision ELSE Entitlement(c, t, b)
          /\ u.debt[t][b] =
                IF t \in c.assets /\ b = a
                THEN (IF n > 0 THEN (c.acc[t] * s) \div Precision ELSE 0)
                ELSE c.debt[t][b]

\* Writing shares and then _updateDebt does what AfterUpdate says.
LEMMA UpdateFields ==
  ASSUME NEW c \in LedgerType, NEW a \in Accounts, NEW s \in Nat, NEW n \in Nat
  PROVE  LET u == UpdateDebt([c EXCEPT !.shares[a] = s, !.totalShares = n], a)
         IN  u \in LedgerType /\ AfterUpdate(c, u, a, s, n)
<1> DEFINE S == [c.shares EXCEPT ![a] = s]
           r == [c EXCEPT !.shares[a] = s, !.totalShares = n]
           D == [t \in Tokens |->
                    IF t \in r.assets
                    THEN [r.debt[t] EXCEPT ![a] = IF r.totalShares > 0 THEN Entitlement(r, t, a) ELSE 0]
                    ELSE r.debt[t]]
           u == UpdateDebt(r, a)
<1>1. /\ r.assets = c.assets /\ r.totalAssets = c.totalAssets /\ r.acc = c.acc
      /\ r.funds = c.funds /\ r.debt = c.debt /\ r.shares = S /\ r.totalShares = n
  BY DEF LedgerType
<1>2. S \in [Accounts -> Nat]  BY LedgerFields
<1>3. r = [c EXCEPT !.shares = S, !.totalShares = n]  BY DEF LedgerType
<1>4. u = [r EXCEPT !.debt = D]  BY DEF UpdateDebt
<1>5. \A b \in Accounts : S[b] = IF b = a THEN s ELSE c.shares[b]  BY LedgerFields
<1> HIDE DEF r, S
<1>6. r \in LedgerType  BY <1>2, <1>3 DEF LedgerType
<1>7. \A t \in Tokens, b \in Accounts :
         Entitlement(r, t, b) =
            IF b = a THEN (c.acc[t] * s) \div Precision ELSE Entitlement(c, t, b)
  BY <1>1, <1>5 DEF Entitlement
<1>8. D \in [Tokens -> [Accounts -> Nat]]  BY <1>1, <1>6, EntitlementType, LedgerFields
<1>9. \A t \in Tokens, b \in Accounts :
         D[t][b] = IF t \in c.assets /\ b = a
                   THEN (IF n > 0 THEN Entitlement(r, t, a) ELSE 0)
                   ELSE c.debt[t][b]
  BY <1>1, LedgerFields
<1> HIDE DEF D, u
<1>10. u \in LedgerType  BY <1>4, <1>6, <1>8 DEF LedgerType
<1>11. /\ u.assets = r.assets /\ u.totalAssets = r.totalAssets /\ u.acc = r.acc
       /\ u.funds = r.funds /\ u.shares = r.shares /\ u.totalShares = r.totalShares
       /\ u.debt = D
  BY <1>4, <1>6 DEF LedgerType
<1>12. \A t \in Tokens, b \in Accounts : Entitlement(u, t, b) = Entitlement(r, t, b)
  BY <1>11 DEF Entitlement
<1>13. AfterUpdate(c, u, a, s, n)
  BY <1>1, <1>7, <1>9, <1>11, <1>12 DEF AfterUpdate, S
<1> QED BY <1>10, <1>13 DEF u, r

\* A share update that counts its shares keeps the inductive invariant.
LEMMA UpdateKeepsInv ==
  ASSUME NEW c, LedgerInv(c), NEW a \in Accounts, NEW u \in LedgerType,
         NEW s \in Nat, NEW n \in Nat, AfterUpdate(c, u, a, s, n), Counted(u)
  PROVE  LedgerInv(u)
<1>1. c \in LedgerType /\ DebtWithin(c) /\ Clean(c)  BY DEF LedgerInv
<1>2. ASSUME NEW t \in Tokens
      PROVE  /\ (c.acc[t] * s) \div Precision \in Nat
             /\ c.acc[t] = 0 => (c.acc[t] * s) \div Precision = 0
  <2>1. c.acc[t] \in Nat /\ c.acc[t] * s \in Nat /\ 0 * s = 0  BY <1>1, LedgerFields, TimesNat
  <2>2. 0 \div Precision = 0  BY MasterchefAssumption
  <2> QED BY <2>1, <2>2, DivType, MasterchefAssumption
<1>3. DebtWithin(u)
  <2> SUFFICES ASSUME NEW t \in Tokens, NEW b \in Accounts
               PROVE  u.debt[t][b] <= Entitlement(u, t, b)
    BY DEF DebtWithin
  <2>1. CASE b = a /\ t \in c.assets  BY <1>2, <2>1 DEF AfterUpdate
  <2>2. CASE b = a /\ t \notin c.assets
    <3>1. c.debt[t][b] = 0  BY <1>1, <2>2 DEF Clean
    <3> QED BY <1>2, <2>2, <3>1 DEF AfterUpdate
  <2>3. CASE b # a  BY <1>1, <2>3 DEF AfterUpdate, DebtWithin
  <2> QED BY <2>1, <2>2, <2>3
<1>4. Clean(u)  BY <1>1 DEF AfterUpdate, Clean
<1> QED BY <1>3, <1>4 DEF LedgerInv

\* A share update is a harvest of everything followed by the new shares.
LEMMA IncreaseFields ==
  ASSUME NEW c, LedgerInv(c), NEW a \in Accounts, NEW n \in Nat
  PROVE  LET h == HarvestAll(c, a)
             u == IncreaseShare(c, a, n)
         IN  /\ u \in LedgerType
             /\ AfterUpdate(h, u, a, c.shares[a] + n, c.totalShares + n)
             /\ LedgerInv(u)
<1> DEFINE h == HarvestAll(c, a)
           u == IncreaseShare(c, a, n)
<1>1. c \in LedgerType /\ c.assets \in SUBSET Tokens /\ Counted(c)
  BY LedgerFields DEF LedgerInv
<1>2. LedgerInv(h) /\ AfterHarvest(c, h, c.assets, a)
  BY <1>1, HarvestKeepsInv, HarvestFields DEF HarvestAll
<1>3. h.shares = c.shares /\ h.totalShares = c.totalShares /\ h \in LedgerType
  BY <1>2 DEF AfterHarvest, LedgerInv
<1>4. u = UpdateDebt([h EXCEPT !.shares[a] = @ + n, !.totalShares = @ + n], a)
  BY DEF IncreaseShare
<1> HIDE DEF h, u
<1>5. [h EXCEPT !.shares[a] = @ + n, !.totalShares = @ + n]
        = [h EXCEPT !.shares[a] = c.shares[a] + n, !.totalShares = c.totalShares + n]
  BY <1>3
<1>6. /\ c.shares[a] \in Nat /\ c.totalShares \in Nat
      /\ c.shares[a] + n \in Nat /\ c.totalShares + n \in Nat
  BY <1>1, LedgerFields
<1>7. u \in LedgerType /\ AfterUpdate(h, u, a, c.shares[a] + n, c.totalShares + n)
  BY <1>3, <1>4, <1>5, <1>6, UpdateFields
<1>8. Counted(u)
  BY <1>1, <1>3, <1>7, UnitsGrow, LedgerFields DEF AfterUpdate, Counted
<1>9. LedgerInv(u)  BY <1>2, <1>6, <1>7, <1>8, UpdateKeepsInv
<1> QED BY <1>7, <1>9 DEF h, u

\* The same for a decrease that does not revert.
LEMMA DecreaseFields ==
  ASSUME NEW c, LedgerInv(c), NEW a \in Accounts, NEW n \in Nat,
         ~DecreaseShareReverts(c, a, n)
  PROVE  LET h == HarvestAll(c, a)
             u == DecreaseShare(c, a, n)
         IN  /\ u \in LedgerType
             /\ AfterUpdate(h, u, a, c.shares[a] - n, c.totalShares - n)
             /\ LedgerInv(u)
<1> DEFINE h == HarvestAll(c, a)
           u == DecreaseShare(c, a, n)
<1>1. c \in LedgerType /\ c.assets \in SUBSET Tokens /\ Counted(c)
  BY LedgerFields DEF LedgerInv
<1>2. LedgerInv(h) /\ AfterHarvest(c, h, c.assets, a)
  BY <1>1, HarvestKeepsInv, HarvestFields DEF HarvestAll
<1>3. h.shares = c.shares /\ h.totalShares = c.totalShares /\ h \in LedgerType
  BY <1>2 DEF AfterHarvest, LedgerInv
<1>4. u = UpdateDebt([h EXCEPT !.shares[a] = @ - n, !.totalShares = @ - n], a)
  BY DEF DecreaseShare
<1> HIDE DEF h, u
<1>5. [h EXCEPT !.shares[a] = @ - n, !.totalShares = @ - n]
        = [h EXCEPT !.shares[a] = c.shares[a] - n, !.totalShares = c.totalShares - n]
  BY <1>3
<1>6. /\ c.shares[a] \in Nat /\ c.totalShares \in Nat
      /\ n <= c.shares[a] /\ n <= c.totalShares
      /\ c.shares[a] - n \in Nat /\ c.totalShares - n \in Nat
  BY <1>1, LedgerFields DEF DecreaseShareReverts
<1>7. u \in LedgerType /\ AfterUpdate(h, u, a, c.shares[a] - n, c.totalShares - n)
  BY <1>3, <1>4, <1>5, <1>6, UpdateFields
<1>8. Counted(u)
  BY <1>1, <1>3, <1>6, <1>7, UnitsShrink, LedgerFields DEF AfterUpdate, Counted
<1>9. LedgerInv(u)  BY <1>2, <1>6, <1>7, <1>8, UpdateKeepsInv
<1> QED BY <1>7, <1>9 DEF h, u

----------------------------------------------------------------------------
\* What a distribution does: a token is listed and its rewards per share grow.
AfterDistribute(c, d, t, n) ==
    /\ d.assets = c.assets \cup {t}
    /\ d.shares = c.shares /\ d.totalShares = c.totalShares /\ d.debt = c.debt
    /\ d.acc[t] >= c.acc[t]
    /\ LET listed == IF t \in c.assets THEN c.totalAssets[t] ELSE 0
       IN  /\ c.totalShares > 0 => /\ d.acc[t] = c.acc[t] + (n * Precision) \div c.totalShares
                                   /\ d.funds[t] = c.funds[t] + n
                                   /\ d.totalAssets[t] = listed + n
           /\ c.totalShares = 0 => /\ d.acc[t] = c.acc[t] /\ d.funds[t] = c.funds[t]
                                   /\ d.totalAssets[t] = listed
    /\ \A s \in Tokens \ {t} :
          d.acc[s] = c.acc[s] /\ d.funds[s] = c.funds[s] /\ d.totalAssets[s] = c.totalAssets[s]

\* DistributeReward does what AfterDistribute says.
LEMMA DistributeFields ==
  ASSUME NEW c \in LedgerType, NEW t \in Tokens, NEW n \in Nat
  PROVE  LET d == DistributeReward(c, t, n)
         IN  d \in LedgerType /\ AfterDistribute(c, d, t, n)
<1> DEFINE A == c.assets \cup {t}
           G == [c.totalAssets EXCEPT ![t] = IF t \in c.assets THEN @ ELSE 0]
           l == [c EXCEPT !.assets = A, !.totalAssets = G]
           d == DistributeReward(c, t, n)
<1>1. /\ c.assets \subseteq Tokens /\ c.totalAssets \in [Tokens -> Nat]
      /\ c.acc \in [Tokens -> Nat] /\ c.funds \in [Tokens -> Nat] /\ c.totalShares \in Nat
  BY LedgerFields
<1>2. A \in SUBSET Tokens /\ G \in [Tokens -> Nat]  BY <1>1
<1>3. l \in LedgerType  BY <1>2 DEF LedgerType
<1>4. /\ l.assets = A /\ l.totalAssets = G /\ l.acc = c.acc /\ l.shares = c.shares
      /\ l.debt = c.debt /\ l.totalShares = c.totalShares /\ l.funds = c.funds
  BY DEF LedgerType
<1>5. l = [c EXCEPT !.assets = @ \cup {t},
                    !.totalAssets[t] = IF t \in c.assets THEN @ ELSE 0]
  BY DEF LedgerType
<1>6. CASE c.totalShares > 0
  <2> DEFINE F == [c.funds EXCEPT ![t] = @ + n]
             T == [G EXCEPT ![t] = @ + n]
             R == [c.acc EXCEPT ![t] = @ + (n * Precision) \div c.totalShares]
  <2>1. (n * Precision) \div c.totalShares \in Nat
    BY <1>1, <1>6, TimesNat, DivType, MasterchefAssumption
  <2>2. F \in [Tokens -> Nat] /\ T \in [Tokens -> Nat] /\ R \in [Tokens -> Nat]
    BY <1>1, <1>2, <2>1
  <2>3. d = [l EXCEPT !.funds = F, !.totalAssets = T, !.acc = R]
    <3>1. d = [l EXCEPT !.funds[t] = @ + n,
                        !.totalAssets[t] = @ + n,
                        !.acc[t] = @ + (n * Precision) \div c.totalShares]
      BY <1>5, <1>6 DEF DistributeReward
    <3> HIDE DEF l, d
    <3> QED BY <1>3, <1>4, <3>1
  <2>4. /\ R[t] >= c.acc[t]
        /\ R[t] = c.acc[t] + (n * Precision) \div c.totalShares /\ F[t] = c.funds[t] + n
        /\ T[t] = (IF t \in c.assets THEN c.totalAssets[t] ELSE 0) + n
        /\ \A s \in Tokens \ {t} : R[s] = c.acc[s] /\ F[s] = c.funds[s] /\ T[s] = c.totalAssets[s]
    BY <1>1, <2>1
  <2> HIDE DEF l, F, T, R, A, G, d
  <2>5. d \in LedgerType  BY <1>3, <2>2, <2>3 DEF LedgerType
  <2>6. /\ d.assets = A /\ d.shares = c.shares /\ d.totalShares = c.totalShares
        /\ d.debt = c.debt /\ d.acc = R /\ d.funds = F /\ d.totalAssets = T
    BY <1>3, <1>4, <2>3 DEF LedgerType
  <2>7. AfterDistribute(c, d, t, n)  BY <1>6, <2>4, <2>6 DEF AfterDistribute, A
  <2> QED BY <2>5, <2>7 DEF d
<1>7. CASE ~(c.totalShares > 0)
  <2>1. d = l  BY <1>5, <1>7 DEF DistributeReward
  <2>2. AfterDistribute(c, l, t, n)
    <3>1. c.totalShares = 0  BY <1>1, <1>7
    <3>2. G[t] = IF t \in c.assets THEN c.totalAssets[t] ELSE 0  BY <1>1
    <3>3. \A s \in Tokens \ {t} : G[s] = c.totalAssets[s]  BY <1>1
    <3> HIDE DEF l, G
    <3> QED BY <1>1, <1>4, <1>7, <3>1, <3>2, <3>3 DEF AfterDistribute
  <2> QED BY <1>3, <2>1, <2>2
<1> QED BY <1>6, <1>7

\* A distribution keeps the inductive invariant.
LEMMA DistributeKeepsInv ==
  ASSUME NEW c, LedgerInv(c), NEW t \in Tokens, NEW n \in Nat
  PROVE  LedgerInv(DistributeReward(c, t, n))
<1> DEFINE d == DistributeReward(c, t, n)
<1>1. c \in LedgerType /\ Counted(c) /\ DebtWithin(c) /\ Clean(c)  BY DEF LedgerInv
<1>2. d \in LedgerType /\ AfterDistribute(c, d, t, n)  BY <1>1, DistributeFields
<1> HIDE DEF d
<1>3. Counted(d)  BY <1>1, <1>2 DEF AfterDistribute, Counted
<1>4. DebtWithin(d)
  <2> SUFFICES ASSUME NEW s \in Tokens, NEW b \in Accounts
               PROVE  d.debt[s][b] <= Entitlement(d, s, b)
    BY DEF DebtWithin
  <2>1. /\ c.acc[s] \in Nat /\ d.acc[s] \in Nat /\ c.shares[b] \in Nat
        /\ c.acc[s] <= d.acc[s] /\ d.shares[b] = c.shares[b] /\ d.debt[s][b] = c.debt[s][b]
    <3>1. c.acc[s] \in Nat /\ d.acc[s] \in Nat /\ c.shares[b] \in Nat
      BY <1>1, <1>2, LedgerFields
    <3>2. CASE s = t  BY <1>2, <3>1, <3>2 DEF AfterDistribute
    <3>3. CASE s # t  BY <1>2, <3>1, <3>3 DEF AfterDistribute
    <3> QED BY <3>2, <3>3
  <2>2. c.acc[s] * c.shares[b] <= d.acc[s] * c.shares[b]  BY <2>1, TimesMono
  <2>3. c.acc[s] * c.shares[b] \in Nat /\ d.acc[s] * c.shares[b] \in Nat  BY <2>1, TimesNat
  <2>4. Entitlement(c, s, b) <= Entitlement(d, s, b)
    BY <2>1, <2>2, <2>3, DivMono, MasterchefAssumption DEF Entitlement
  <2>5. c.debt[s][b] <= Entitlement(c, s, b) /\ c.debt[s][b] \in Nat
    BY <1>1, LedgerFields DEF DebtWithin
  <2> QED BY <1>1, <1>2, <2>1, <2>4, <2>5, EntitlementType
<1>5. Clean(d)  BY <1>1, <1>2 DEF AfterDistribute, Clean
<1> QED BY <1>2, <1>3, <1>4, <1>5 DEF LedgerInv, d

----------------------------------------------------------------------------

\* The ledger starts empty, and the inductive invariant holds of it.
LEMMA InitInv == LedgerInv(InitLedger)
<1>1. InitLedger \in LedgerType  BY DEF InitLedger, LedgerType
<1>2. Counted(InitLedger)
  <2>1. InitLedger.shares = [a \in Accounts |-> 0] /\ InitLedger.totalShares = 0
    BY DEF InitLedger
  <2>2. Units([a \in Accounts |-> 0]) = {}  BY DEF Units
  <2> QED BY <2>1, <2>2, FS_EmptySet DEF Counted
<1>3. DebtWithin(InitLedger)
  <2> SUFFICES ASSUME NEW t \in Tokens, NEW a \in Accounts
               PROVE  InitLedger.debt[t][a] <= Entitlement(InitLedger, t, a)
    BY DEF DebtWithin
  <2>1. InitLedger.debt[t][a] = 0  BY DEF InitLedger
  <2> QED BY <1>1, <2>1, EntitlementType
<1>4. Clean(InitLedger)  BY DEF InitLedger, Clean
<1> QED BY <1>1, <1>2, <1>3, <1>4 DEF LedgerInv

\* The inductive invariant: typing, the count of shares, debts that are covered
\* and clean unlisted tokens hold each other up.
ChefInv == LedgerInv(chef)

\* Every action keeps the inductive invariant, one step per action.
LEMMA NextInv == ChefInv /\ [Next]_chef => ChefInv'
<1> SUFFICES ASSUME ChefInv, [Next]_chef PROVE LedgerInv(chef')
  BY DEF ChefInv
<1>1. LedgerInv(chef)  BY DEF ChefInv
<1>2. chef.assets \in SUBSET Tokens  BY <1>1, LedgerFields DEF LedgerInv
<1>3. ASSUME NEW t \in Tokens, NEW a \in Accounts, Harvest(t, a) PROVE LedgerInv(chef')
  BY <1>1, <1>3, HarvestKeepsInv DEF Harvest
<1>4. ASSUME NEW a \in Accounts, HarvestEverything(a) PROVE LedgerInv(chef')
  BY <1>1, <1>2, <1>4, HarvestKeepsInv DEF HarvestEverything, HarvestAll
<1>5. ASSUME NEW s, NEW t \in Tokens, NEW n \in 0..MaxRewards, Distribute(s, t, n)
      PROVE  LedgerInv(chef')
  BY <1>1, <1>5, DistributeKeepsInv DEF Distribute
<1>6. ASSUME NEW a \in Accounts, NEW n \in 0..MaxShares, Increase(a, n) PROVE LedgerInv(chef')
  <2>1. n \in Nat /\ chef' = IncreaseShare(chef, a, n)  BY <1>6 DEF Increase
  <2> QED BY <1>1, <2>1, IncreaseFields
<1>7. ASSUME NEW a \in Accounts, NEW n \in 0..MaxShares, Decrease(a, n) PROVE LedgerInv(chef')
  <2>1. n \in Nat /\ ~DecreaseShareReverts(chef, a, n) /\ chef' = DecreaseShare(chef, a, n)
    BY <1>7 DEF Decrease
  <2> QED BY <1>1, <2>1, DecreaseFields
<1>8. ASSUME NEW a \in Accounts, NEW b \in Accounts, NEW n \in 0..MaxShares, Move(a, b, n)
      PROVE  LedgerInv(chef')
  <2> DEFINE taken == DecreaseShare(chef, a, n)
  <2>1. n \in Nat /\ ~DecreaseShareReverts(chef, a, n) /\ chef' = IncreaseShare(taken, b, n)
    BY <1>8 DEF Move
  <2>2. LedgerInv(taken)  BY <1>1, <2>1, DecreaseFields
  <2> HIDE DEF taken
  <2> QED BY <2>1, <2>2, IncreaseFields
<1>9. CASE UNCHANGED chef  BY <1>1, <1>9
<1> QED BY <1>3, <1>4, <1>5, <1>6, <1>7, <1>8, <1>9 DEF Next

\* The inductive invariant holds in every reachable state.
LEMMA ChefInvariant == Spec => []ChefInv
<1>1. Init => ChefInv  BY InitInv DEF Init, ChefInv
<1> QED BY <1>1, NextInv, PTL DEF Spec

\* Every field of the ledger keeps its type: no subtraction goes below zero.
THEOREM LedgerTyped == Spec => []TypeOK
<1>1. ChefInv => TypeOK  BY DEF ChefInv, LedgerInv, TypeOK
<1> QED BY <1>1, ChefInvariant, PTL

\* The total is the number of shares the holders have.
THEOREM LedgerCounted == Spec => []SharesAddUp
<1>1. ChefInv => SharesAddUp  BY DEF ChefInv, LedgerInv, Counted, SharesAddUp
<1> QED BY <1>1, ChefInvariant, PTL

\* No debt exceeds what the shares of its account have earned.
THEOREM LedgerDebtsCovered == Spec => []DebtWithinEntitlement
<1>1. ChefInv => DebtWithinEntitlement
  BY DEF ChefInv, LedgerInv, DebtWithin, DebtWithinEntitlement
<1> QED BY <1>1, ChefInvariant, PTL

\* Tokens without a place in the table carry nothing.
THEOREM LedgerUnlistedClean == Spec => []OnlyListedTokensCarryRewards
<1>1. ChefInv => OnlyListedTokensCarryRewards
  BY DEF ChefInv, LedgerInv, Clean, OnlyListedTokensCarryRewards
<1> QED BY <1>1, ChefInvariant, PTL
====
