-------------------- MODULE InsuranceMasterchefHistoryProofs --------------------
(***************************************************************************)
(* What the ledger pays, for all values of the constants: nobody is paid   *)
(* more than it earned, what is held covers what is pending for all but    *)
(* for the roundings, and then everybody is paid what it earned.           *)
(***************************************************************************)
EXTENDS InsuranceMasterchefHistory, InsuranceMasterchefProofs

Ledgers == [Tokens -> [Accounts -> Nat]]

HistoryType ==
    earned \in Ledgers /\ received \in Ledgers /\ updates \in [Accounts -> Nat]

\* The books of every account balance, on the side of the ledger: what it was
\* paid and what its shares stand for are covered by what it earned, what it is
\* booked to have had, and one unit for each update of its shares.
Fair(c, paid, due, upd) ==
    \A t \in Tokens, a \in Accounts :
        Precision * paid[t][a] + c.acc[t] * c.shares[a]
            <= due[t][a] + Precision * (c.debt[t][a] + upd[a])

\* Rounding: the entitlement is within a unit of the product it is made of.
LEMMA EntitlementBounds ==
  ASSUME NEW x \in Nat, NEW y \in Nat
  PROVE  /\ Precision * ((x * y) \div Precision) <= x * y
         /\ x * y < Precision * ((x * y) \div Precision) + Precision
         /\ (x * y) \div Precision \in Nat /\ x * y \in Nat
  BY TimesNat, DivBounds, DivType, MasterchefAssumption

\* No holder has more shares than the total that rewards are divided by.
LEMMA HoldersWithinTotal ==
  ASSUME NEW c, LedgerInv(c), NEW a \in Accounts
  PROVE  c.shares[a] <= c.totalShares /\ c.shares[a] \in Nat /\ c.totalShares \in Nat
<1>1. c.shares \in [Accounts -> Nat] /\ c.totalShares \in Nat  BY LedgerFields DEF LedgerInv
<1> QED BY <1>1, UnitsOfOne DEF LedgerInv, Counted

\* Without a share nothing is booked and nothing pending.
LEMMA NoShareNoDebt ==
  ASSUME NEW c, LedgerInv(c), NEW t \in Tokens, NEW a \in Accounts, ~HasShare(c, a)
  PROVE  /\ c.shares[a] = 0 /\ Entitlement(c, t, a) = 0 /\ c.debt[t][a] = 0
         /\ Payout(c, t, a) = 0
<1>1. c \in LedgerType /\ DebtWithin(c)  BY DEF LedgerInv
<1>2. c.shares[a] = 0  BY HoldersWithinTotal DEF HasShare
<1>3. Entitlement(c, t, a) = 0
  <2>1. c.acc[t] \in Nat /\ c.acc[t] * 0 = 0  BY <1>1, LedgerFields
  <2>2. 0 \div Precision = 0  BY MasterchefAssumption
  <2> QED BY <1>2, <2>1, <2>2 DEF Entitlement
<1>4. c.debt[t][a] = 0  BY <1>1, <1>3, LedgerFields DEF DebtWithin
<1>5. PendingReward(c, t, a) = 0  BY DEF PendingReward
<1> QED BY <1>1, <1>2, <1>3, <1>4, <1>5, PayoutType

\* What is booked as paid is what left the funds, to one account.
LEMMA PaidToType ==
  ASSUME NEW paid \in Ledgers, NEW c \in LedgerType, NEW d \in LedgerType, NEW a \in Accounts,
         \A t \in Tokens : d.funds[t] <= c.funds[t]
  PROVE  /\ PaidTo(paid, c, d, a) \in Ledgers
         /\ \A t \in Tokens, b \in Accounts :
               PaidTo(paid, c, d, a)[t][b] =
                  IF b = a THEN paid[t][b] + (c.funds[t] - d.funds[t]) ELSE paid[t][b]
<1>1. \A t \in Tokens : c.funds[t] \in Nat /\ d.funds[t] \in Nat /\ c.funds[t] - d.funds[t] \in Nat
  BY LedgerFields
<1> QED BY <1>1 DEF PaidTo, Ledgers

\* Where a harvest has been, an account has no more than it earned; elsewhere
\* its books balance as before.
LEMMA HarvestSettles ==
  ASSUME NEW c, LedgerInv(c), NEW T \in SUBSET Tokens, NEW a \in Accounts,
         NEW h \in LedgerType, AfterHarvest(c, h, T, a),
         NEW paid \in Ledgers, NEW due \in Ledgers, NEW upd \in [Accounts -> Nat],
         Fair(c, paid, due, upd), NEW t \in Tokens
  PROVE  LET now == PaidTo(paid, c, h, a)[t][a]
         IN  /\ now \in Nat
             /\ t \in T => Precision * now <= due[t][a] + Precision * upd[a]
             /\ Precision * now + h.acc[t] * h.shares[a]
                  <= due[t][a] + Precision * (h.debt[t][a] + upd[a])
<1> DEFINE now == PaidTo(paid, c, h, a)[t][a]
<1>1. c \in LedgerType /\ DebtWithin(c)  BY DEF LedgerInv
<1>2. \A s \in Tokens : h.funds[s] <= c.funds[s]
  BY <1>1, PayoutType, LedgerFields DEF AfterHarvest
<1>3. now = paid[t][a] + (c.funds[t] - h.funds[t]) /\ now \in Nat
  BY <1>1, <1>2, PaidToType DEF Ledgers
<1> HIDE DEF now
<1>4. /\ c.acc[t] \in Nat /\ c.shares[a] \in Nat /\ c.debt[t][a] \in Nat /\ c.funds[t] \in Nat
      /\ paid[t][a] \in Nat /\ due[t][a] \in Nat /\ upd[a] \in Nat
      /\ h.acc[t] = c.acc[t] /\ h.shares[a] = c.shares[a] /\ Precision \in Nat
  BY <1>1, LedgerFields, MasterchefAssumption DEF AfterHarvest, Ledgers
<1>5. Precision * paid[t][a] + c.acc[t] * c.shares[a]
        <= due[t][a] + Precision * (c.debt[t][a] + upd[a])
  BY DEF Fair
<1> DEFINE E == Entitlement(c, t, a)
<1>6. E \in Nat /\ Precision * E <= c.acc[t] * c.shares[a] /\ c.acc[t] * c.shares[a] \in Nat
  BY <1>4, EntitlementBounds DEF Entitlement
<1>7. CASE t \notin T
  BY <1>3, <1>4, <1>5, <1>7 DEF AfterHarvest, now
<1>8. CASE t \in T /\ HasShare(c, a)
  <2>1. Payout(c, t, a) \in Nat /\ Payout(c, t, a) <= E - c.debt[t][a] /\ c.debt[t][a] <= E
    <3>1. c.debt[t][a] <= E  BY <1>1 DEF DebtWithin
    <3>2. PendingReward(c, t, a) = E - c.debt[t][a]
      BY <1>4, <1>6, <1>8, <3>1 DEF PendingReward
    <3> QED BY <1>1, <3>1, <3>2, PayoutType
  <2>2. h.debt[t][a] = E /\ now = paid[t][a] + Payout(c, t, a)
    BY <1>1, <1>3, <1>4, <1>8, <2>1 DEF AfterHarvest
  <2> HIDE DEF E
  <2>3. Precision * now <= Precision * paid[t][a] + Precision * E - Precision * c.debt[t][a]
    <3>1. now <= paid[t][a] + E - c.debt[t][a]  BY <1>4, <1>6, <2>1, <2>2
    <3>2. paid[t][a] + E - c.debt[t][a] \in Nat  BY <1>4, <1>6, <2>1
    <3>3. now * Precision <= (paid[t][a] + E - c.debt[t][a]) * Precision
      BY <1>3, <1>4, <3>1, <3>2, TimesMono
    <3> QED BY <1>3, <1>4, <1>6, <3>2, <3>3
  <2>4. Precision * (c.debt[t][a] + upd[a]) = Precision * c.debt[t][a] + Precision * upd[a]
    BY <1>4
  <2>5. Precision * (E + upd[a]) = Precision * E + Precision * upd[a]  BY <1>4, <1>6
  <2>6. /\ Precision * now \in Nat /\ Precision * paid[t][a] \in Nat /\ Precision * E \in Nat
        /\ Precision * c.debt[t][a] \in Nat /\ Precision * upd[a] \in Nat
    BY <1>3, <1>4, <1>6, TimesNat
  <2>7. Precision * now <= due[t][a] + Precision * upd[a]
    BY <1>4, <1>5, <1>6, <2>3, <2>4, <2>6
  <2>8. Precision * now + c.acc[t] * c.shares[a] <= due[t][a] + Precision * (E + upd[a])
    BY <1>4, <1>5, <1>6, <2>3, <2>4, <2>5, <2>6
  <2> QED BY <1>3, <1>4, <2>2, <2>7, <2>8 DEF now
<1>9. CASE t \in T /\ ~HasShare(c, a)
  <2>1. c.shares[a] = 0 /\ c.debt[t][a] = 0 /\ Payout(c, t, a) = 0  BY <1>9, NoShareNoDebt
  <2>2. now = paid[t][a] /\ h.debt[t][a] = 0  BY <1>3, <1>4, <1>9, <2>1 DEF AfterHarvest
  <2>3. c.acc[t] * 0 = 0 /\ Precision * (0 + upd[a]) = Precision * upd[a]  BY <1>4
  <2>4. Precision * now <= due[t][a] + Precision * upd[a]
    BY <1>4, <1>5, <2>1, <2>2, <2>3, TimesNat
  <2> QED BY <1>3, <1>4, <1>5, <2>1, <2>2, <2>4 DEF now
<1> QED BY <1>7, <1>8, <1>9

\* The other accounts' books do not move when one account's do.
LEMMA OthersUnmoved ==
  ASSUME NEW c \in LedgerType, NEW u \in LedgerType,
         NEW a \in Accounts, NEW b \in Accounts, b # a, NEW t \in Tokens,
         u.acc = c.acc, u.shares[b] = c.shares[b], u.debt[t][b] = c.debt[t][b],
         \A s \in Tokens : u.funds[s] <= c.funds[s],
         NEW paid \in Ledgers, NEW due \in Ledgers, NEW upd \in [Accounts -> Nat],
         NEW now \in [Accounts -> Nat], now[b] = upd[b],
         Fair(c, paid, due, upd)
  PROVE  Precision * PaidTo(paid, c, u, a)[t][b] + u.acc[t] * u.shares[b]
            <= due[t][b] + Precision * (u.debt[t][b] + now[b])
<1>1. PaidTo(paid, c, u, a)[t][b] = paid[t][b]  BY PaidToType
<1> QED BY <1>1 DEF Fair

\* A harvest keeps the books of all accounts in balance.
LEMMA HarvestIsFair ==
  ASSUME NEW c, LedgerInv(c), NEW T \in SUBSET Tokens, NEW a \in Accounts,
         NEW paid \in Ledgers, NEW due \in Ledgers, NEW upd \in [Accounts -> Nat],
         Fair(c, paid, due, upd)
  PROVE  LET h == HarvestTokens(c, T, a)
         IN  PaidTo(paid, c, h, a) \in Ledgers /\ Fair(h, PaidTo(paid, c, h, a), due, upd)
<1> DEFINE h == HarvestTokens(c, T, a)
<1>1. c \in LedgerType /\ h \in LedgerType /\ AfterHarvest(c, h, T, a)
  BY HarvestType, HarvestFields DEF LedgerInv
<1> HIDE DEF h
<1>2. \A s \in Tokens : h.funds[s] <= c.funds[s]
  BY <1>1, PayoutType, LedgerFields DEF AfterHarvest
<1>3. PaidTo(paid, c, h, a) \in Ledgers  BY <1>1, <1>2, PaidToType
<1>4. ASSUME NEW t \in Tokens, NEW b \in Accounts
      PROVE  Precision * PaidTo(paid, c, h, a)[t][b] + h.acc[t] * h.shares[b]
                <= due[t][b] + Precision * (h.debt[t][b] + upd[b])
  <2>1. CASE b = a  BY <1>1, <2>1, HarvestSettles
  <2>2. CASE b # a
    <3>1. h.acc = c.acc /\ h.shares[b] = c.shares[b] /\ h.debt[t][b] = c.debt[t][b]
      BY <1>1, <2>2 DEF AfterHarvest
    <3> QED BY <1>1, <1>2, <2>2, <3>1, OthersUnmoved
  <2> QED BY <2>1, <2>2
<1> QED BY <1>3, <1>4 DEF Fair, h

\* A share update puts at most one unit into the books of its account.
LEMMA UpdateIsFair ==
  ASSUME NEW c, LedgerInv(c), NEW a \in Accounts, NEW u, LedgerInv(u),
         NEW s \in Nat, NEW n \in Nat, AfterUpdate(HarvestAll(c, a), u, a, s, n),
         NEW paid \in Ledgers, NEW due \in Ledgers, NEW upd \in [Accounts -> Nat],
         Fair(c, paid, due, upd)
  PROVE  LET now == PaidTo(paid, c, u, a)
         IN  now \in Ledgers /\ Fair(u, now, due, [upd EXCEPT ![a] = @ + 1])
<1> DEFINE h == HarvestAll(c, a)
           more == [upd EXCEPT ![a] = @ + 1]
           now == PaidTo(paid, c, u, a)
<1>1. /\ c \in LedgerType /\ u \in LedgerType /\ c.assets \in SUBSET Tokens
      /\ h \in LedgerType /\ AfterHarvest(c, h, c.assets, a)
  BY HarvestType, HarvestFields, LedgerFields DEF LedgerInv, HarvestAll
<1>2. AfterUpdate(h, u, a, s, n)  OBVIOUS
<1> HIDE DEF h
<1>3. u.funds = h.funds /\ \A t \in Tokens : u.funds[t] <= c.funds[t]
  BY <1>1, <1>2, PayoutType, LedgerFields DEF AfterHarvest, AfterUpdate
<1>4. now \in Ledgers /\ more \in [Accounts -> Nat]  BY <1>1, <1>3, PaidToType
<1>5. now = PaidTo(paid, c, h, a)  BY <1>3 DEF PaidTo
<1>6. ASSUME NEW t \in Tokens
      PROVE  Precision * now[t][a] + u.acc[t] * u.shares[a]
                <= due[t][a] + Precision * (u.debt[t][a] + more[a])
  <2> DEFINE x == now[t][a]
             E == (c.acc[t] * s) \div Precision
  <2>1. /\ x \in Nat /\ due[t][a] \in Nat /\ upd[a] \in Nat /\ Precision \in Nat
        /\ c.acc[t] \in Nat /\ more[a] = upd[a] + 1
    BY <1>1, <1>4, LedgerFields, MasterchefAssumption DEF Ledgers
  <2>2. u.acc[t] = c.acc[t] /\ u.shares[a] = s /\ u.totalShares = n
    BY <1>1, <1>2, LedgerFields DEF AfterHarvest, AfterUpdate
  <2>3. /\ t \in c.assets => Precision * x <= due[t][a] + Precision * upd[a]
        /\ Precision * x + c.acc[t] * c.shares[a]
              <= due[t][a] + Precision * (h.debt[t][a] + upd[a])
    <3> DEFINE y == PaidTo(paid, c, h, a)[t][a]
    <3>1. /\ t \in c.assets => Precision * y <= due[t][a] + Precision * upd[a]
          /\ Precision * y + h.acc[t] * h.shares[a]
                <= due[t][a] + Precision * (h.debt[t][a] + upd[a])
      BY <1>1, HarvestSettles
    <3>2. x = y /\ h.acc = c.acc /\ h.shares = c.shares  BY <1>1, <1>5 DEF AfterHarvest
    <3> HIDE DEF x, y
    <3> QED BY <3>1, <3>2
  <2>4. E \in Nat /\ c.acc[t] * s \in Nat /\ c.acc[t] * s <= Precision * E + Precision
    BY <2>1, EntitlementBounds
  <2>5. Precision * (upd[a] + 1) = Precision * upd[a] + Precision
    BY <2>1
  <2>6. Precision * x \in Nat /\ Precision * upd[a] \in Nat  BY <2>1, TimesNat
  <2> HIDE DEF E, x
  <2>7. CASE t \in c.assets /\ n > 0
    <3>1. u.debt[t][a] = E
      BY <1>1, <1>2, <2>7 DEF AfterUpdate, AfterHarvest, E
    <3>2. Precision * (E + (upd[a] + 1)) = Precision * E + (Precision * upd[a] + Precision)
      BY <2>1, <2>4
    <3>3. Precision * E \in Nat  BY <2>1, <2>4, TimesNat
    <3>4. Precision * x + c.acc[t] * s <= due[t][a] + Precision * (E + (upd[a] + 1))
      BY <2>1, <2>3, <2>4, <2>6, <2>7, <3>2, <3>3
    <3> QED BY <2>1, <2>2, <3>1, <3>4 DEF x
  <2>8. CASE t \in c.assets /\ ~(n > 0)
    <3>1. s = 0  BY <2>2, <2>8, HoldersWithinTotal
    <3>2. u.debt[t][a] = 0
      BY <1>1, <1>2, <2>8 DEF AfterUpdate, AfterHarvest
    <3>3. c.acc[t] * 0 = 0 /\ Precision * (0 + (upd[a] + 1)) = Precision * upd[a] + Precision
      BY <2>1, <2>5
    <3>4. Precision * x + c.acc[t] * s <= due[t][a] + Precision * (0 + (upd[a] + 1))
      BY <2>1, <2>3, <2>6, <2>8, <3>1, <3>3
    <3> QED BY <2>1, <2>2, <3>2, <3>4 DEF x
  <2>9. CASE t \notin c.assets
    <3>1. c.acc[t] = 0 /\ c.debt[t][a] = 0 /\ h.debt[t][a] = 0 /\ u.debt[t][a] = 0
      BY <1>1, <1>2, <2>9 DEF LedgerInv, Clean, AfterHarvest, AfterUpdate
    <3>2. c.shares[a] \in Nat  BY <1>1, LedgerFields
    <3>3. /\ 0 * c.shares[a] = 0 /\ 0 * s = 0 /\ Precision * (0 + upd[a]) = Precision * upd[a]
          /\ Precision * (0 + (upd[a] + 1)) = Precision * upd[a] + Precision
      BY <2>1, <2>5, <3>2
    <3>4. Precision * x <= due[t][a] + Precision * upd[a]
      BY <2>1, <2>3, <2>6, <3>1, <3>3
    <3>5. Precision * x + c.acc[t] * s <= due[t][a] + Precision * (0 + (upd[a] + 1))
      BY <2>1, <2>6, <3>1, <3>3, <3>4
    <3> QED BY <2>1, <2>2, <3>1, <3>5 DEF x
  <2> QED BY <2>7, <2>8, <2>9
<1>7. ASSUME NEW t \in Tokens, NEW b \in Accounts, b # a
      PROVE  Precision * now[t][b] + u.acc[t] * u.shares[b]
                <= due[t][b] + Precision * (u.debt[t][b] + more[b])
  <2>1. u.acc = c.acc /\ u.shares[b] = c.shares[b] /\ u.debt[t][b] = c.debt[t][b]
    BY <1>1, <1>2, <1>7, LedgerFields DEF AfterHarvest, AfterUpdate
  <2>2. more[b] = upd[b]  BY <1>7
  <2> HIDE DEF more
  <2> QED BY <1>1, <1>3, <1>4, <1>7, <2>1, <2>2, OthersUnmoved
<1> HIDE DEF now, more
<1>8. Fair(u, now, due, more)
  <2> SUFFICES ASSUME NEW t \in Tokens, NEW b \in Accounts
               PROVE  Precision * now[t][b] + u.acc[t] * u.shares[b]
                        <= due[t][b] + Precision * (u.debt[t][b] + more[b])
    BY DEF Fair
  <2>1. CASE b = a  BY <1>6, <2>1
  <2>2. CASE b # a  BY <1>7, <2>2
  <2> QED BY <2>1, <2>2
<1> QED BY <1>4, <1>8 DEF now, more

\* A distribution owes the shares what it adds to their entitlement.
LEMMA DistributeIsFair ==
  ASSUME NEW c, LedgerInv(c), NEW k \in Tokens, NEW n \in Nat,
         NEW paid \in Ledgers, NEW due \in Ledgers, NEW upd \in [Accounts -> Nat],
         Fair(c, paid, due, upd)
  PROVE  LET d == DistributeReward(c, k, n)
             more == [t \in Tokens |-> [a \in Accounts |->
                        due[t][a] + (d.acc[t] - c.acc[t]) * c.shares[a]]]
         IN  more \in Ledgers /\ Fair(d, paid, more, upd)
<1> DEFINE d == DistributeReward(c, k, n)
           more == [t \in Tokens |-> [a \in Accounts |->
                      due[t][a] + (d.acc[t] - c.acc[t]) * c.shares[a]]]
<1>1. c \in LedgerType /\ d \in LedgerType /\ AfterDistribute(c, d, k, n)
  BY DistributeFields DEF LedgerInv
<1> HIDE DEF d
<1>2. ASSUME NEW t \in Tokens, NEW a \in Accounts
      PROVE  /\ more[t][a] \in Nat
             /\ Precision * paid[t][a] + d.acc[t] * d.shares[a]
                  <= more[t][a] + Precision * (d.debt[t][a] + upd[a])
  <2> DEFINE g == d.acc[t] - c.acc[t]
             f == c.shares[a]
  <2>1. /\ c.acc[t] \in Nat /\ d.acc[t] \in Nat /\ f \in Nat /\ c.debt[t][a] \in Nat
        /\ paid[t][a] \in Nat /\ due[t][a] \in Nat /\ upd[a] \in Nat /\ Precision \in Nat
    BY <1>1, LedgerFields, MasterchefAssumption DEF Ledgers
  <2>2. c.acc[t] <= d.acc[t]
    <3>1. CASE t = k  BY <1>1, <2>1, <3>1 DEF AfterDistribute
    <3>2. CASE t # k  BY <1>1, <2>1, <3>2 DEF AfterDistribute
    <3> QED BY <3>1, <3>2
  <2>3. d.shares[a] = f /\ d.debt[t][a] = c.debt[t][a]  BY <1>1 DEF AfterDistribute
  <2>4. more[t][a] = due[t][a] + g * f  OBVIOUS
  <2>5. g \in Nat /\ d.acc[t] = c.acc[t] + g  BY <2>1, <2>2
  <2>6. Precision * paid[t][a] + c.acc[t] * f <= due[t][a] + Precision * (c.debt[t][a] + upd[a])
    BY DEF Fair
  <2> HIDE DEF g, f, more
  <2>7. (c.acc[t] + g) * f = c.acc[t] * f + g * f  BY <2>1, <2>5
  <2>8. /\ g * f \in Nat /\ c.acc[t] * f \in Nat /\ Precision * paid[t][a] \in Nat
        /\ c.debt[t][a] + upd[a] \in Nat
    BY <2>1, <2>5, TimesNat
  <2>9. Precision * (c.debt[t][a] + upd[a]) \in Nat  BY <2>1, <2>8, TimesNat
  <2>10. more[t][a] \in Nat  BY <2>1, <2>4, <2>8
  <2>11. Precision * paid[t][a] + (c.acc[t] * f + g * f)
           <= (due[t][a] + g * f) + Precision * (c.debt[t][a] + upd[a])
    BY <2>1, <2>6, <2>8, <2>9
  <2> QED BY <2>3, <2>4, <2>5, <2>7, <2>10, <2>11
<1>3. more \in Ledgers
  <2>1. \A t \in Tokens, a \in Accounts : more[t][a] \in Nat  BY <1>2
  <2> QED BY <2>1 DEF Ledgers
<1> HIDE DEF more
<1>4. Fair(d, paid, more, upd)  BY <1>2 DEF Fair
<1> QED BY <1>3, <1>4 DEF more, d

----------------------------------------------------------------------------
(* The books of all accounts together.                                     *)

Total(f) == SumFunctionOnSet(f, Accounts)

\* What is pending for an account before it is rounded, in 1/Precision.
Fine(c, t) == [a \in Accounts |-> c.acc[t] * c.shares[a] - Precision * c.debt[t][a]]

\* What is held covers what is pending for all, but for a unit for each update;
\* and what an account was paid and has pending covers what it earned, but for
\* a unit for each update and, as long as more is held than is pending for all,
\* for less than that.
Covered(c, t, due, paid, upd) ==
    LET allowed == Precision * Total(upd)
        held == Precision * c.funds[t]
        pending == Total(Fine(c, t))
    IN  /\ pending <= held + allowed
        /\ \A a \in Accounts :
              LET had == Precision * paid[t][a]
              IN  /\ due[t][a] + pending <= had + held + allowed + Fine(c, t)[a]
                  /\ due[t][a] <= had + allowed + Fine(c, t)[a]

Balanced(c, due, paid, upd) ==
    /\ Total(c.shares) = c.totalShares
    /\ \A t \in Tokens :
          /\ c.totalAssets[t] = c.funds[t] + Total(paid[t])
          /\ Covered(c, t, due, paid, upd)

\* Sums over the accounts.
LEMMA TotalType ==
  /\ \A f : (\A a \in Accounts : f[a] \in Nat) =>
              Total(f) \in Nat /\ \A a \in Accounts : f[a] <= Total(f)
  /\ \A f : (\A a \in Accounts : f[a] = 0) => Total(f) = 0
<1>0. IsFiniteSet(Accounts)  BY MasterchefAssumption
<1>1. ASSUME NEW f, \A a \in Accounts : f[a] \in Nat
      PROVE  Total(f) \in Nat /\ \A a \in Accounts : f[a] <= Total(f)
  BY <1>0, <1>1, SumType, SumCovers DEF Total
<1>2. ASSUME NEW f, \A a \in Accounts : f[a] = 0 PROVE Total(f) = 0
  BY <1>0, <1>2, SumOfZeros DEF Total
<1> QED BY <1>1, <1>2

\* The entitlement never falls behind the debt, rounded or not.
LEMMA FineType ==
  ASSUME NEW c, LedgerInv(c), NEW t \in Tokens
  PROVE  \A a \in Accounts :
            /\ Fine(c, t)[a] \in Nat
            /\ Precision * PendingReward(c, t, a) <= Fine(c, t)[a]
            /\ Fine(c, t)[a] < Precision * PendingReward(c, t, a) + Precision
            /\ PendingReward(c, t, a) = Entitlement(c, t, a) - c.debt[t][a]
<1> SUFFICES ASSUME NEW a \in Accounts
             PROVE  /\ Fine(c, t)[a] \in Nat
                    /\ Precision * PendingReward(c, t, a) <= Fine(c, t)[a]
                    /\ Fine(c, t)[a] < Precision * PendingReward(c, t, a) + Precision
                    /\ PendingReward(c, t, a) = Entitlement(c, t, a) - c.debt[t][a]
  OBVIOUS
<1> DEFINE E == Entitlement(c, t, a)
           x == c.acc[t] * c.shares[a]
           b == c.debt[t][a]
           p == PendingReward(c, t, a)
<1>1. c \in LedgerType /\ b <= E  BY DEF LedgerInv, DebtWithin
<1>2. c.acc[t] \in Nat /\ c.shares[a] \in Nat /\ b \in Nat /\ Precision \in Nat
  BY <1>1, LedgerFields, MasterchefAssumption
<1>3. E \in Nat /\ x \in Nat /\ Precision * E <= x /\ x < Precision * E + Precision
  BY <1>2, EntitlementBounds DEF Entitlement
<1>4. p = E - b
  <2>1. CASE HasShare(c, a)
    <3> USE <2>1 DEF PendingReward
    <3>1. CASE b < E  BY <3>1
    <3>2. CASE ~(b < E)
      <4>1. p = 0  BY <3>2
      <4> HIDE DEF p, E, b
      <4> QED BY <1>1, <1>2, <1>3, <3>2, <4>1
    <3> QED BY <3>1, <3>2
  <2>2. CASE ~HasShare(c, a)
    <3>1. E = 0 /\ b = 0  BY <2>2, NoShareNoDebt
    <3>2. p = 0  BY <2>2 DEF PendingReward
    <3> QED BY <3>1, <3>2
  <2> QED BY <2>1, <2>2
<1>5. Fine(c, t)[a] = x - Precision * b  BY DEF Fine
<1> HIDE DEF E, x, b, p
<1>6. p \in Nat /\ p + b = E  BY <1>1, <1>2, <1>3, <1>4
<1>7. Precision * E = Precision * p + Precision * b  BY <1>2, <1>6
<1>8. Precision * p \in Nat /\ Precision * b \in Nat  BY <1>2, <1>6, TimesNat
<1>9. /\ x - Precision * b \in Nat /\ Precision * p <= x - Precision * b
      /\ x - Precision * b < Precision * p + Precision
  BY <1>2, <1>3, <1>7, <1>8
<1> QED BY <1>4, <1>5, <1>9 DEF p, E, b

\* What a harvest moves: what is paid leaves the funds and what is pending, and
\* less than all that is pending is paid only when nothing is left.
HarvestMoves(c, h, t, a, paid, now, pend, pay) ==
    /\ pay <= pend /\ pay <= c.funds[t] /\ h.funds[t] = c.funds[t] - pay
    /\ pay = pend \/ h.funds[t] = 0
    /\ now[t][a] = paid[t][a] + pay
    /\ Fine(h, t)[a] = Fine(c, t)[a] - Precision * pend
    /\ \A b \in Accounts \ {a} : now[t][b] = paid[t][b] /\ Fine(h, t)[b] = Fine(c, t)[b]

LEMMA HarvestStep ==
  ASSUME NEW c, LedgerInv(c), NEW T \in SUBSET Tokens, NEW a \in Accounts,
         NEW paid \in Ledgers, NEW t \in Tokens
  PROVE  LET h == HarvestTokens(c, T, a)
         IN  \E pend, pay \in Nat :
                HarvestMoves(c, h, t, a, paid, PaidTo(paid, c, h, a), pend, pay)
<1> DEFINE h == HarvestTokens(c, T, a)
           now == PaidTo(paid, c, h, a)
           p == PendingReward(c, t, a)
           y == Payout(c, t, a)
<1>1. c \in LedgerType /\ h \in LedgerType /\ AfterHarvest(c, h, T, a)
  BY HarvestType, HarvestFields DEF LedgerInv
<1> HIDE DEF h
<1>2. /\ y \in Nat /\ p \in Nat /\ y <= p /\ y <= c.funds[t]
      /\ y = p \/ y = c.funds[t]
  BY <1>1, PayoutType, PendingType DEF Payout, Smaller
<1>3. /\ c.funds[t] \in Nat /\ c.acc[t] \in Nat /\ paid[t][a] \in Nat /\ Precision \in Nat
      /\ \A b \in Accounts : c.debt[t][b] \in Nat /\ c.shares[b] \in Nat
      /\ \A s \in Tokens : h.funds[s] <= c.funds[s]
  <2>1. \A s \in Tokens : h.funds[s] <= c.funds[s]
    BY <1>1, PayoutType, LedgerFields DEF AfterHarvest
  <2> QED BY <1>1, <2>1, LedgerFields, MasterchefAssumption DEF Ledgers
<1>4. \A b \in Accounts :
         now[t][b] = IF b = a THEN paid[t][b] + (c.funds[t] - h.funds[t]) ELSE paid[t][b]
  BY <1>1, <1>3, PaidToType
<1>5. \A b \in Accounts : Fine(c, t)[b] = c.acc[t] * c.shares[b] - Precision * c.debt[t][b]
                       /\ Fine(h, t)[b] = c.acc[t] * c.shares[b] - Precision * h.debt[t][b]
  BY <1>1 DEF Fine, AfterHarvest
<1>6. \A b \in Accounts \ {a} : now[t][b] = paid[t][b] /\ Fine(h, t)[b] = Fine(c, t)[b]
  <2>1. \A b \in Accounts \ {a} : h.debt[t][b] = c.debt[t][b]  BY <1>1 DEF AfterHarvest
  <2> QED BY <1>4, <1>5, <2>1
<1>7. CASE t \in T
  <2>1. h.funds[t] = c.funds[t] - y  BY <1>1, <1>7 DEF AfterHarvest
  <2>2. h.debt[t][a] = c.debt[t][a] + p
    <3>1. p = Entitlement(c, t, a) - c.debt[t][a]  BY FineType
    <3>2. Entitlement(c, t, a) \in Nat  BY <1>1, EntitlementType
    <3>3. CASE HasShare(c, a)
      <4>1. h.debt[t][a] = Entitlement(c, t, a)  BY <1>1, <1>7, <3>3 DEF AfterHarvest
      <4> HIDE DEF p
      <4> QED BY <1>3, <3>1, <3>2, <4>1
    <3>4. CASE ~HasShare(c, a)
      <4>1. h.debt[t][a] = c.debt[t][a] /\ p = 0
        BY <1>1, <3>4 DEF AfterHarvest, PendingReward
      <4> QED BY <1>3, <4>1
    <3> QED BY <3>3, <3>4
  <2> HIDE DEF p, y, now
  <2>3. Fine(h, t)[a] = Fine(c, t)[a] - Precision * p
    <3>1. Precision * (c.debt[t][a] + p) = Precision * c.debt[t][a] + Precision * p
      BY <1>2, <1>3
    <3>2. /\ c.acc[t] * c.shares[a] \in Nat /\ Precision * c.debt[t][a] \in Nat
          /\ Precision * p \in Nat
      BY <1>2, <1>3, TimesNat
    <3> QED BY <1>5, <2>2, <3>1, <3>2
  <2>4. y = p \/ h.funds[t] = 0  BY <1>2, <1>3, <2>1
  <2>5. now[t][a] = paid[t][a] + y  BY <1>2, <1>3, <1>4, <2>1
  <2>6. HarvestMoves(c, h, t, a, paid, now, p, y)
    BY <1>2, <1>6, <2>1, <2>3, <2>4, <2>5 DEF HarvestMoves
  <2> QED BY <1>2, <2>6 DEF h, now
<1>8. CASE t \notin T
  <2>1. h.funds[t] = c.funds[t] /\ h.debt[t][a] = c.debt[t][a]  BY <1>1, <1>8 DEF AfterHarvest
  <2>2. Fine(h, t)[a] = Fine(c, t)[a]  BY <1>5, <2>1
  <2>3. Fine(c, t)[a] \in Nat /\ Precision * 0 = 0  BY <1>3, FineType
  <2>4. now[t][a] = paid[t][a] + 0 /\ h.funds[t] = c.funds[t] - 0  BY <1>3, <1>4, <2>1
  <2>5. Fine(h, t)[a] = Fine(c, t)[a] - Precision * 0
    <3>1. Fine(c, t)[a] = Fine(c, t)[a] - Precision * 0  BY <2>3
    <3> QED BY <2>2, <3>1
  <2>6. 0 \in Nat /\ 0 <= 0 /\ 0 <= c.funds[t]  BY <1>3
  <2>7. HarvestMoves(c, h, t, a, paid, now, 0, 0)
    BY <1>6, <2>4, <2>5, <2>6 DEF HarvestMoves
  <2> QED BY <2>6, <2>7 DEF h, now
<1> QED BY <1>7, <1>8

\* A payment to one account leaves the records typed.
LEMMA HarvestPaysType ==
  ASSUME NEW c \in LedgerType, NEW T \in SUBSET Tokens, NEW a \in Accounts, NEW paid \in Ledgers
  PROVE  PaidTo(paid, c, HarvestTokens(c, T, a), a) \in Ledgers
<1> DEFINE h == HarvestTokens(c, T, a)
<1>1. h \in LedgerType /\ AfterHarvest(c, h, T, a)  BY HarvestType, HarvestFields
<1> HIDE DEF h
<1>2. \A t \in Tokens : h.funds[t] <= c.funds[t]
  BY <1>1, PayoutType, LedgerFields DEF AfterHarvest
<1>3. PaidTo(paid, c, h, a) \in Ledgers  BY <1>1, <1>2, PaidToType
<1> QED BY <1>3 DEF h

\* A payment keeps the books, as numbers: for all, for the account that is paid,
\* and for another.
LEMMA PaymentKeepsBooks ==
  ASSUME NEW S \in Nat, NEW f \in Nat, NEW u \in Nat, NEW due \in Nat, NEW paid \in Nat,
         NEW F \in Nat, NEW pend \in Nat, NEW pay \in Nat,
         pay <= pend, pay <= f, pay = pend \/ f - pay = 0, pend <= S
  PROVE  /\ S <= f + u => S - pend <= (f - pay) + u
         /\ due + S <= paid + f + u + F =>
              /\ due + (S - pend) <= (paid + pay) + (f - pay) + u + (F - pend)
              /\ due + (S - pend) <= paid + (f - pay) + u + F
         /\ due + S <= paid + f + u + F /\ due <= paid + u + F =>
              due <= (paid + pay) + u + (F - pend)
  OBVIOUS

\* A harvest keeps the books of all.
LEMMA HarvestIsBalanced ==
  ASSUME NEW c, LedgerInv(c), NEW T \in SUBSET Tokens, NEW a \in Accounts,
         NEW paid \in Ledgers, NEW due \in Ledgers, NEW upd \in [Accounts -> Nat],
         Balanced(c, due, paid, upd)
  PROVE  LET h == HarvestTokens(c, T, a)
         IN  Balanced(h, due, PaidTo(paid, c, h, a), upd)
<1> DEFINE h == HarvestTokens(c, T, a)
           now == PaidTo(paid, c, h, a)
<1>1. /\ c \in LedgerType /\ h \in LedgerType /\ AfterHarvest(c, h, T, a)
      /\ LedgerInv(h) /\ now \in Ledgers
  BY HarvestType, HarvestFields, HarvestKeepsInv, HarvestPaysType DEF LedgerInv
<1>2. IsFiniteSet(Accounts) /\ Precision \in Nat  BY MasterchefAssumption
<1>3. Total(h.shares) = h.totalShares  BY <1>1 DEF Balanced, AfterHarvest
<1>4. ASSUME NEW t \in Tokens
      PROVE  h.totalAssets[t] = h.funds[t] + Total(now[t]) /\ Covered(h, t, due, now, upd)
  <2>1. PICK pend \in Nat, pay \in Nat : HarvestMoves(c, h, t, a, paid, now, pend, pay)
    BY HarvestStep
  <2> HIDE DEF h, now
  <2> DEFINE S == Total(Fine(c, t))
             U == Total(upd)
             f == c.funds[t]
  <2>2. /\ \A b \in Accounts : /\ Fine(c, t)[b] \in Nat /\ Fine(h, t)[b] \in Nat
                               /\ paid[t][b] \in Nat /\ now[t][b] \in Nat
                               /\ due[t][b] \in Nat /\ upd[b] \in Nat
        /\ f \in Nat /\ h.funds[t] \in Nat
    BY <1>1, FineType, LedgerFields DEF Ledgers
  <2>3. /\ S \in Nat /\ U \in Nat /\ Total(paid[t]) \in Nat /\ Total(now[t]) \in Nat
        /\ Total(Fine(h, t)) \in Nat
    BY <2>2, TotalType
  <2>4. Total(now[t]) = Total(paid[t]) + pay
    <3>1. Total(now[t]) + paid[t][a] = Total(paid[t]) + now[t][a]
      <4>1. \A b \in Accounts : /\ paid[t][b] \in Int /\ now[t][b] \in Int
                                /\ b # a => now[t][b] = paid[t][b]
        BY <2>1, <2>2 DEF HarvestMoves
      <4> QED BY <1>2, <4>1, SumChange DEF Total
    <3>2. now[t][a] = paid[t][a] + pay  BY <2>1 DEF HarvestMoves
    <3> QED BY <2>2, <2>3, <3>1, <3>2
  <2>5. Total(Fine(h, t)) = S - Precision * pend
    <3>1. Total(Fine(h, t)) + Fine(c, t)[a] = S + Fine(h, t)[a]
      <4>1. \A b \in Accounts : /\ Fine(c, t)[b] \in Int /\ Fine(h, t)[b] \in Int
                                /\ b # a => Fine(h, t)[b] = Fine(c, t)[b]
        BY <2>1, <2>2 DEF HarvestMoves
      <4> QED BY <1>2, <4>1, SumChange DEF Total
    <3>2. Fine(h, t)[a] = Fine(c, t)[a] - Precision * pend  BY <2>1 DEF HarvestMoves
    <3>3. Precision * pend \in Nat  BY <1>2, TimesNat
    <3> QED BY <2>2, <2>3, <3>1, <3>2, <3>3
  <2>6. h.totalAssets[t] = h.funds[t] + Total(now[t])
    <3>1. c.totalAssets[t] = f + Total(paid[t]) /\ h.totalAssets = c.totalAssets
      BY <1>1 DEF Balanced, AfterHarvest
    <3>2. h.funds[t] = f - pay  BY <2>1 DEF HarvestMoves
    <3> QED BY <2>2, <2>3, <2>4, <3>1, <3>2
  <2> DEFINE pp == Precision * pend
             py == Precision * pay
             pf == Precision * f
             pu == Precision * U
  <2>7. /\ pp \in Nat /\ py \in Nat /\ pf \in Nat /\ pu \in Nat
        /\ py <= pp /\ py <= pf /\ (py = pp \/ pf - py = 0) /\ pp <= S
        /\ Precision * h.funds[t] = pf - py
    <3>1. /\ pay <= pend /\ pay <= f /\ h.funds[t] = f - pay /\ (pay = pend \/ f - pay = 0)
      BY <2>1 DEF HarvestMoves
    <3>2. pay * Precision <= pend * Precision /\ pay * Precision <= f * Precision
      BY <1>2, <2>2, <3>1, TimesMono
    <3>3. Precision * (f - pay) = Precision * f - Precision * pay  BY <1>2, <2>2
    <3>4. pay = f => py = pf  OBVIOUS
    <3>5. f - pay = 0 => pay = f  BY <2>2
    <3>6. pp \in Nat /\ py \in Nat /\ pf \in Nat /\ pu \in Nat  BY <1>2, <2>2, <2>3, TimesNat
    <3>7. pp <= S  BY <2>3, <2>5, <3>6
    <3>8. py <= pp /\ py <= pf  BY <1>2, <2>2, <3>2
    <3>9. py = pp \/ pf - py = 0
      <4>1. CASE pay = pend  BY <4>1
      <4>2. CASE f - pay = 0
        <5>1. py = pf  BY <3>4, <3>5, <4>2
        <5> QED BY <3>6, <5>1
      <4> QED BY <3>1, <4>1, <4>2
    <3> QED BY <3>1, <3>3, <3>6, <3>7, <3>8, <3>9
  <2>8. Covered(c, t, due, paid, upd)  BY DEF Balanced
  <2>9. S <= pf + pu  BY <2>8 DEF Covered
  <2> HIDE DEF S, U, pp, py, pf, pu
  <2>10. S - pp <= (pf - py) + pu  BY <2>3, <2>7, <2>9, PaymentKeepsBooks
  <2>11. ASSUME NEW b \in Accounts
         PROVE  /\ due[t][b] + (S - pp) <= Precision * now[t][b] + (pf - py) + pu + Fine(h, t)[b]
                /\ due[t][b] <= Precision * now[t][b] + pu + Fine(h, t)[b]
    <3> DEFINE w == due[t][b]
               F == Fine(c, t)[b]
               r == Precision * paid[t][b]
    <3>1. w + S <= r + pf + pu + F /\ w <= r + pu + F
      BY <2>8 DEF Covered, S, U, pf, pu
    <3>2. w \in Nat /\ F \in Nat /\ r \in Nat  BY <1>2, <2>2, TimesNat
    <3>3. CASE b = a
      <4>1. Fine(h, t)[b] = F - pp  BY <2>1, <3>3 DEF HarvestMoves, pp
      <4>2. Precision * now[t][b] = r + py
        <5>1. now[t][b] = paid[t][b] + pay  BY <2>1, <3>3 DEF HarvestMoves
        <5>2. Precision * (paid[t][b] + pay) = Precision * paid[t][b] + Precision * pay
          BY <1>2, <2>2
        <5> QED BY <5>1, <5>2 DEF py
      <4> HIDE DEF w, F, r
      <4>3. /\ w + (S - pp) <= (r + py) + (pf - py) + pu + (F - pp)
            /\ w <= (r + py) + pu + (F - pp)
        BY <2>3, <2>7, <3>1, <3>2, PaymentKeepsBooks
      <4> QED BY <4>1, <4>2, <4>3 DEF w
    <3>4. CASE b # a
      <4>1. Fine(h, t)[b] = F /\ now[t][b] = paid[t][b]  BY <2>1, <3>4 DEF HarvestMoves
      <4> HIDE DEF w, F
      <4>2. w + (S - pp) <= r + (pf - py) + pu + F
        <5> HIDE DEF r
        <5> QED BY <2>3, <2>7, <3>1, <3>2, PaymentKeepsBooks
      <4> QED BY <3>1, <4>1, <4>2 DEF w
    <3> QED BY <3>3, <3>4
  <2>12. Total(Fine(h, t)) = S - pp  BY <2>5 DEF pp
  <2>13. Precision * h.funds[t] = pf - py /\ Precision * Total(upd) = pu
    BY <2>7 DEF pu, U
  <2> QED BY <2>6, <2>10, <2>11, <2>12, <2>13 DEF Covered
<1> QED BY <1>3, <1>4 DEF Balanced

\* After a harvest of all tokens, and after the update it precedes, the account
\* has nothing pending.
LEMMA NothingPending ==
  ASSUME NEW c, LedgerInv(c), NEW a \in Accounts, NEW u, LedgerInv(u),
         NEW s \in Nat, NEW n \in Nat, AfterUpdate(HarvestAll(c, a), u, a, s, n)
  PROVE  \A t \in Tokens : /\ PendingReward(HarvestAll(c, a), t, a) = 0
                           /\ PendingReward(u, t, a) = 0
<1> DEFINE h == HarvestAll(c, a)
<1>1. /\ c \in LedgerType /\ c.assets \in SUBSET Tokens /\ h \in LedgerType
      /\ AfterHarvest(c, h, c.assets, a) /\ LedgerInv(h)
  BY HarvestType, HarvestFields, HarvestKeepsInv, LedgerFields DEF LedgerInv, HarvestAll
<1>2. AfterUpdate(h, u, a, s, n)  OBVIOUS
<1> HIDE DEF h
<1>3. ASSUME NEW t \in Tokens PROVE PendingReward(h, t, a) = 0 /\ PendingReward(u, t, a) = 0
  <2>1. CASE t \in c.assets
    <3>1. HasShare(h, a) => h.debt[t][a] = Entitlement(h, t, a)
      BY <1>1, <2>1 DEF AfterHarvest, HasShare
    <3>2. Entitlement(h, t, a) \in Nat /\ ~(Entitlement(h, t, a) < Entitlement(h, t, a))
      BY <1>1, EntitlementType
    <3>3. PendingReward(h, t, a) = 0  BY <3>1, <3>2 DEF PendingReward
    <3>4. u \in LedgerType  BY DEF LedgerInv
    <3>5. Entitlement(u, t, a) \in Nat /\ ~(Entitlement(u, t, a) < Entitlement(u, t, a))
      BY <3>4, EntitlementType
    <3>6. h.assets = c.assets  BY <1>1 DEF AfterHarvest
    <3>7. n > 0 => u.debt[t][a] = Entitlement(u, t, a)
      BY <1>2, <2>1, <3>6 DEF AfterUpdate
    <3>8. HasShare(u, a) => n > 0  BY <1>2 DEF AfterUpdate, HasShare
    <3> QED BY <3>3, <3>5, <3>7, <3>8 DEF PendingReward
  <2>2. CASE t \notin c.assets
    <3>1. h.assets = c.assets /\ u.assets = c.assets
      BY <1>1, <1>2 DEF AfterHarvest, AfterUpdate
    <3>2. \A d : LedgerInv(d) /\ t \notin d.assets => PendingReward(d, t, a) = 0
      <4> SUFFICES ASSUME NEW d, LedgerInv(d), t \notin d.assets PROVE PendingReward(d, t, a) = 0
        OBVIOUS
      <4>1. d.acc[t] = 0 /\ d.debt[t][a] = 0 /\ d.shares[a] \in Nat
        BY LedgerFields DEF LedgerInv, Clean
      <4>2. 0 * d.shares[a] = 0 /\ 0 \div Precision = 0  BY <4>1, MasterchefAssumption
      <4>3. Entitlement(d, t, a) = 0  BY <4>1, <4>2 DEF Entitlement
      <4> QED BY <4>1, <4>3 DEF PendingReward
    <3> QED BY <1>1, <2>2, <3>1, <3>2
  <2> QED BY <2>1, <2>2
<1> QED BY <1>3 DEF h

\* An update keeps the books, as numbers: what is pending, all together and for
\* the account, is rounded anew, and one unit more is allowed.
LEMMA RoundingKeepsBooks ==
  ASSUME NEW S \in Nat, NEW R \in Nat, NEW f \in Nat, NEW u \in Nat, NEW due \in Nat,
         NEW paid \in Nat, NEW F \in Nat, NEW G \in Nat, NEW p \in Nat,
         R + F = S + G, F < p, G < p
  PROVE  /\ S <= f + u => R <= f + (u + p)
         /\ due + S <= paid + f + u + F => due + R <= paid + f + (u + p) + G
         /\ due <= paid + u + F => due <= paid + (u + p) + G
         /\ \A H \in Nat : due + S <= paid + f + u + H => due + R <= paid + f + (u + p) + H
         /\ \A H \in Nat : due <= paid + u + H => due <= paid + (u + p) + H
  OBVIOUS

\* A share update keeps the books of all.
LEMMA UpdateIsBalanced ==
  ASSUME NEW c, LedgerInv(c), NEW a \in Accounts, NEW u, LedgerInv(u),
         NEW s \in Nat, NEW n \in Nat, AfterUpdate(HarvestAll(c, a), u, a, s, n),
         s + c.totalShares = n + c.shares[a],
         NEW paid \in Ledgers, NEW due \in Ledgers, NEW upd \in [Accounts -> Nat],
         Balanced(c, due, paid, upd)
  PROVE  Balanced(u, due, PaidTo(paid, c, u, a), [upd EXCEPT ![a] = @ + 1])
<1> DEFINE h == HarvestAll(c, a)
           more == [upd EXCEPT ![a] = @ + 1]
           now == PaidTo(paid, c, u, a)
<1>1. /\ c \in LedgerType /\ u \in LedgerType /\ c.assets \in SUBSET Tokens
      /\ h \in LedgerType /\ AfterHarvest(c, h, c.assets, a) /\ LedgerInv(h)
      /\ PaidTo(paid, c, h, a) \in Ledgers
      /\ Balanced(h, due, PaidTo(paid, c, h, a), upd)
  BY HarvestType, HarvestFields, HarvestKeepsInv, HarvestPaysType, HarvestIsBalanced, LedgerFields
  DEF LedgerInv, HarvestAll
<1>2. \A t \in Tokens : PendingReward(h, t, a) = 0 /\ PendingReward(u, t, a) = 0
  BY NothingPending
<1>3. AfterUpdate(h, u, a, s, n)  OBVIOUS
<1> HIDE DEF h
<1>4. now = PaidTo(paid, c, h, a)  BY <1>3 DEF PaidTo, AfterUpdate
<1>5. now \in Ledgers /\ Balanced(h, due, now, upd)  BY <1>1, <1>4
<1>6. IsFiniteSet(Accounts) /\ Precision \in Nat  BY MasterchefAssumption
<1> HIDE DEF now
<1>7. Total(u.shares) = u.totalShares
  <2>1. /\ h.shares = c.shares /\ h.totalShares = c.totalShares
        /\ u.shares = [h.shares EXCEPT ![a] = s] /\ u.totalShares = n
    BY <1>1, <1>3 DEF AfterHarvest, AfterUpdate
  <2>2. c.shares \in [Accounts -> Nat] /\ c.totalShares \in Nat  BY <1>1, LedgerFields
  <2>3. Total(c.shares) = c.totalShares  BY DEF Balanced
  <2>4. Total(u.shares) + c.shares[a] = Total(c.shares) + u.shares[a]
    <3>1. \A b \in Accounts : /\ c.shares[b] \in Int /\ u.shares[b] \in Int
                              /\ b # a => u.shares[b] = c.shares[b]
      BY <2>1, <2>2
    <3> QED BY <1>6, <3>1, SumChange DEF Total
  <2>5. u.shares[a] = s /\ \A b \in Accounts : u.shares[b] \in Nat  BY <2>1, <2>2
  <2>6. Total(u.shares) \in Nat  BY <2>5, TotalType
  <2>7. c.shares[a] \in Nat  BY <2>2
  <2> QED BY <2>1, <2>2, <2>3, <2>4, <2>5, <2>6, <2>7
<1>8. more \in [Accounts -> Nat] /\ Total(more) = Total(upd) + 1 /\ Total(upd) \in Nat
  <2>1. more \in [Accounts -> Nat] /\ more[a] = upd[a] + 1  OBVIOUS
  <2>2. \A b \in Accounts : upd[b] \in Int /\ more[b] \in Int /\ (b # a => more[b] = upd[b])
    OBVIOUS
  <2> HIDE DEF more
  <2>3. Total(more) + upd[a] = Total(upd) + more[a]  BY <1>6, <2>2, SumChange DEF Total
  <2>4. Total(more) \in Nat /\ Total(upd) \in Nat  BY <2>1, TotalType
  <2> QED BY <2>1, <2>3, <2>4
<1> HIDE DEF more
<1>9. ASSUME NEW t \in Tokens
      PROVE  u.totalAssets[t] = u.funds[t] + Total(now[t]) /\ Covered(u, t, due, now, more)
  <2>1. /\ u.funds = h.funds /\ u.totalAssets = h.totalAssets /\ u.acc = h.acc
        /\ \A b \in Accounts \ {a} : u.shares[b] = h.shares[b] /\ u.debt[t][b] = h.debt[t][b]
    BY <1>1, <1>3, LedgerFields DEF AfterUpdate
  <2>2. u.totalAssets[t] = u.funds[t] + Total(now[t])  BY <1>5, <2>1 DEF Balanced
  <2> DEFINE S == Total(Fine(h, t))
             R == Total(Fine(u, t))
             F == Fine(h, t)[a]
             G == Fine(u, t)[a]
             f == Precision * h.funds[t]
             v == Precision * Total(upd)
  <2>3. \A b \in Accounts : /\ Fine(h, t)[b] \in Nat /\ Fine(u, t)[b] \in Nat
                            /\ due[t][b] \in Nat /\ now[t][b] \in Nat
    BY <1>1, <1>5, FineType DEF Ledgers
  <2>4. F \in Nat /\ G \in Nat /\ F < Precision /\ G < Precision
    <3>1. /\ F < Precision * PendingReward(h, t, a) + Precision
          /\ G < Precision * PendingReward(u, t, a) + Precision
      BY <1>1, FineType
    <3>2. Precision * 0 + Precision = Precision  BY <1>6
    <3> QED BY <1>2, <2>3, <3>1, <3>2
  <2>5. \A b \in Accounts \ {a} : Fine(u, t)[b] = Fine(h, t)[b]  BY <2>1 DEF Fine
  <2>6. R + F = S + G
    <3>1. \A b \in Accounts : /\ Fine(h, t)[b] \in Int /\ Fine(u, t)[b] \in Int
                              /\ b # a => Fine(u, t)[b] = Fine(h, t)[b]
      BY <2>3, <2>5
    <3> QED BY <1>6, <3>1, SumChange DEF Total
  <2>7. S \in Nat /\ R \in Nat /\ f \in Nat /\ v \in Nat
    <3>1. S \in Nat /\ R \in Nat  BY <2>3, TotalType
    <3>2. h.funds[t] \in Nat  BY <1>1, LedgerFields
    <3> QED BY <1>6, <1>8, <3>1, <3>2, TimesNat
  <2>8. Precision * Total(more) = v + Precision /\ Precision * u.funds[t] = f
    <3>1. Precision * (Total(upd) + 1) = Precision * Total(upd) + Precision
      BY <1>6, <1>8
    <3> QED BY <1>8, <2>1, <3>1
  <2>9. Covered(h, t, due, now, upd)  BY <1>5 DEF Balanced
  <2>10. S <= f + v  BY <2>9 DEF Covered
  <2> HIDE DEF S, R, f, v
  <2>11. R <= f + (v + Precision)
    <3> HIDE DEF F, G
    <3> QED BY <1>6, <2>4, <2>6, <2>7, <2>10, RoundingKeepsBooks
  <2>12. ASSUME NEW b \in Accounts
         PROVE  /\ due[t][b] + R <= Precision * now[t][b] + f + (v + Precision) + Fine(u, t)[b]
                /\ due[t][b] <= Precision * now[t][b] + (v + Precision) + Fine(u, t)[b]
    <3> DEFINE w == due[t][b]
               r == Precision * now[t][b]
               H == Fine(h, t)[b]
    <3>1. w + S <= r + f + v + H /\ w <= r + v + H  BY <2>9 DEF Covered, S, f, v
    <3>2. w \in Nat /\ r \in Nat /\ H \in Nat  BY <1>6, <2>3, TimesNat
    <3>3. CASE b = a
      <4>1. H = F /\ Fine(u, t)[b] = G  BY <3>3
      <4> HIDE DEF w, r, F, G, H
      <4>2. w + R <= r + f + (v + Precision) + G /\ w <= r + (v + Precision) + G
        BY <1>6, <2>4, <2>6, <2>7, <3>1, <3>2, <4>1, RoundingKeepsBooks
      <4> QED BY <4>1, <4>2 DEF w, r
    <3>4. CASE b # a
      <4>1. Fine(u, t)[b] = H  BY <2>5, <3>4
      <4> HIDE DEF w, r, F, G, H
      <4>2. w + R <= r + f + (v + Precision) + H /\ w <= r + (v + Precision) + H
        BY <1>6, <2>4, <2>6, <2>7, <3>1, <3>2, RoundingKeepsBooks
      <4> QED BY <4>1, <4>2 DEF w, r
    <3> QED BY <3>3, <3>4
  <2>13. Total(Fine(u, t)) = R  BY DEF R
  <2> QED BY <2>2, <2>8, <2>11, <2>12, <2>13 DEF Covered
<1> QED BY <1>7, <1>9 DEF Balanced, now, more

\* A distribution keeps the books, as numbers: it takes n, and promises g to
\* every share and no more than it took to all.
LEMMA RewardKeepsBooks ==
  ASSUME NEW S \in Nat, NEW f \in Nat, NEW u \in Nat, NEW due \in Nat, NEW paid \in Nat,
         NEW F \in Nat, NEW n \in Nat, NEW g \in Nat, NEW x \in Nat, g <= n
  PROVE  /\ S <= f + u => S + g <= (f + n) + u
         /\ due + S <= paid + f + u + F =>
               (due + x) + (S + g) <= paid + (f + n) + u + (F + x)
         /\ due <= paid + u + F => due + x <= paid + u + (F + x)
  OBVIOUS

\* A distribution keeps the books of all.
LEMMA DistributeIsBalanced ==
  ASSUME NEW c, LedgerInv(c), NEW k \in Tokens, NEW n \in Nat,
         NEW paid \in Ledgers, NEW due \in Ledgers, NEW upd \in [Accounts -> Nat],
         Balanced(c, due, paid, upd)
  PROVE  LET d == DistributeReward(c, k, n)
             more == [t \in Tokens |-> [a \in Accounts |->
                        due[t][a] + (d.acc[t] - c.acc[t]) * c.shares[a]]]
         IN  Balanced(d, more, paid, upd)
<1> DEFINE d == DistributeReward(c, k, n)
           more == [t \in Tokens |-> [a \in Accounts |->
                      due[t][a] + (d.acc[t] - c.acc[t]) * c.shares[a]]]
<1>1. /\ c \in LedgerType /\ d \in LedgerType /\ AfterDistribute(c, d, k, n) /\ LedgerInv(d)
  BY DistributeFields, DistributeKeepsInv DEF LedgerInv
<1> HIDE DEF d
<1>2. IsFiniteSet(Accounts) /\ Precision \in Nat  BY MasterchefAssumption
<1>3. /\ Total(c.shares) = c.totalShares /\ c.totalShares \in Nat
      /\ c.shares \in [Accounts -> Nat]
  BY <1>1, LedgerFields DEF Balanced
<1>4. ASSUME NEW t \in Tokens
      PROVE  \E m \in Nat, g \in Nat :
                /\ d.funds[t] = c.funds[t] + m /\ d.totalAssets[t] = c.totalAssets[t] + m
                /\ d.acc[t] = c.acc[t] + g
                /\ g * c.totalShares <= Precision * m
  <2>1. /\ c.funds[t] \in Nat /\ c.totalAssets[t] \in Nat /\ c.acc[t] \in Nat
    BY <1>1, LedgerFields
  <2>2. CASE t # k
    <3>1. /\ d.acc[t] = c.acc[t] + 0 /\ d.funds[t] = c.funds[t] + 0
          /\ d.totalAssets[t] = c.totalAssets[t] + 0
      BY <1>1, <2>1, <2>2 DEF AfterDistribute
    <3>2. 0 * c.totalShares <= Precision * 0  BY <1>2, <1>3
    <3> QED BY <3>1, <3>2
  <2>3. CASE t = k
    <3>1. c.totalAssets[t] = IF t \in c.assets THEN c.totalAssets[t] ELSE 0
      BY DEF LedgerInv, Clean
    <3>2. CASE c.totalShares > 0
      <4> DEFINE g == (n * Precision) \div c.totalShares
      <4>1. /\ d.acc[t] = c.acc[t] + g /\ d.funds[t] = c.funds[t] + n
            /\ d.totalAssets[t] = c.totalAssets[t] + n
        BY <1>1, <2>3, <3>1, <3>2 DEF AfterDistribute
      <4>2. n * Precision \in Nat /\ c.totalShares \in Nat \ {0}
        BY <1>2, <1>3, <3>2, TimesNat
      <4>3. g \in Nat /\ c.totalShares * g <= n * Precision
        BY <4>2, DivType, DivBounds
      <4> HIDE DEF g
      <4>4. g * c.totalShares <= Precision * n  BY <1>2, <1>3, <4>3
      <4> QED BY <4>1, <4>3, <4>4
    <3>3. CASE c.totalShares = 0
      <4>1. /\ d.acc[t] = c.acc[t] + 0 /\ d.funds[t] = c.funds[t] + 0
            /\ d.totalAssets[t] = c.totalAssets[t] + 0
        BY <1>1, <2>1, <2>3, <3>1, <3>3 DEF AfterDistribute
      <4>2. 0 * c.totalShares <= Precision * 0  BY <1>2, <1>3
      <4> QED BY <4>1, <4>2
    <3> QED BY <1>3, <3>2, <3>3
  <2> QED BY <2>2, <2>3
<1>5. ASSUME NEW t \in Tokens
      PROVE  d.totalAssets[t] = d.funds[t] + Total(paid[t]) /\ Covered(d, t, more, paid, upd)
  <2>1. PICK m \in Nat, g \in Nat :
                /\ d.funds[t] = c.funds[t] + m /\ d.totalAssets[t] = c.totalAssets[t] + m
                /\ d.acc[t] = c.acc[t] + g
                /\ g * c.totalShares <= Precision * m
    BY <1>4
  <2>2. /\ d.shares = c.shares /\ d.debt = c.debt  BY <1>1 DEF AfterDistribute
  <2>3. /\ \A a \in Accounts : /\ Fine(c, t)[a] \in Nat /\ c.shares[a] \in Nat
                               /\ due[t][a] \in Nat /\ paid[t][a] \in Nat /\ upd[a] \in Nat
                               /\ c.debt[t][a] \in Nat
        /\ c.acc[t] \in Nat /\ c.funds[t] \in Nat /\ c.totalAssets[t] \in Nat
    BY <1>1, FineType, LedgerFields DEF Ledgers
  <2>4. \A a \in Accounts : /\ Fine(d, t)[a] = Fine(c, t)[a] + g * c.shares[a]
                            /\ more[t][a] = due[t][a] + g * c.shares[a]
    <3> SUFFICES ASSUME NEW a \in Accounts
                 PROVE  /\ Fine(d, t)[a] = Fine(c, t)[a] + g * c.shares[a]
                        /\ more[t][a] = due[t][a] + g * c.shares[a]
      OBVIOUS
    <3>1. d.acc[t] - c.acc[t] = g  BY <2>1, <2>3
    <3>2. (c.acc[t] + g) * c.shares[a] = c.acc[t] * c.shares[a] + g * c.shares[a]
      BY <2>1, <2>3
    <3>3. /\ Precision * c.debt[t][a] \in Nat /\ c.acc[t] * c.shares[a] \in Nat
          /\ g * c.shares[a] \in Nat
      BY <1>2, <2>1, <2>3, TimesNat
    <3>4. /\ Fine(d, t)[a] = (c.acc[t] + g) * c.shares[a] - Precision * c.debt[t][a]
          /\ Fine(c, t)[a] = c.acc[t] * c.shares[a] - Precision * c.debt[t][a]
      BY <2>1, <2>2 DEF Fine
    <3>5. more[t][a] = due[t][a] + (d.acc[t] - c.acc[t]) * c.shares[a]  OBVIOUS
    <3> HIDE DEF more
    <3>6. Fine(d, t)[a] = Fine(c, t)[a] + g * c.shares[a]  BY <3>2, <3>3, <3>4
    <3> QED BY <3>1, <3>5, <3>6
  <2> HIDE DEF more
  <2> DEFINE S == Total(Fine(c, t))
             f == Precision * c.funds[t]
             v == Precision * Total(upd)
             x == g * c.totalShares
             y == Precision * m
  <2>5. Total(Fine(d, t)) = S + x
    <3>1. \A a \in Accounts : /\ Fine(c, t)[a] \in Int /\ c.shares[a] \in Int
                              /\ Fine(d, t)[a] = Fine(c, t)[a] + g * c.shares[a]
      BY <2>3, <2>4
    <3>2. Total(Fine(d, t)) = S + g * Total(c.shares)
      BY <1>2, <2>1, <3>1, SumLinear DEF Total
    <3> QED BY <1>3, <3>2
  <2>6. /\ S \in Nat /\ f \in Nat /\ v \in Nat /\ x \in Nat /\ y \in Nat /\ x <= y
        /\ Total(paid[t]) \in Nat
    <3>1. S \in Nat /\ Total(upd) \in Nat /\ Total(paid[t]) \in Nat  BY <2>3, TotalType
    <3> QED BY <1>2, <1>3, <2>1, <2>3, <3>1, TimesNat
  <2>7. Precision * d.funds[t] = f + y
    <3>1. Precision * (c.funds[t] + m) = Precision * c.funds[t] + Precision * m
      BY <1>2, <2>1, <2>3
    <3> QED BY <2>1, <3>1
  <2>8. d.totalAssets[t] = d.funds[t] + Total(paid[t])
    <3>1. c.totalAssets[t] = c.funds[t] + Total(paid[t])  BY DEF Balanced
    <3>2. d.funds[t] = c.funds[t] + m /\ d.totalAssets[t] = c.totalAssets[t] + m  BY <2>1
    <3> QED BY <2>3, <2>6, <3>1, <3>2
  <2>9. Covered(c, t, due, paid, upd)  BY DEF Balanced
  <2>10. S <= f + v  BY <2>9 DEF Covered
  <2> HIDE DEF S, f, v, x, y
  <2>11. S + x <= (f + y) + v  BY <2>6, <2>10, RewardKeepsBooks
  <2>12. ASSUME NEW a \in Accounts
         PROVE  /\ more[t][a] + (S + x) <= Precision * paid[t][a] + (f + y) + v + Fine(d, t)[a]
                /\ more[t][a] <= Precision * paid[t][a] + v + Fine(d, t)[a]
    <3> DEFINE w == due[t][a]
               r == Precision * paid[t][a]
               F == Fine(c, t)[a]
               z == g * c.shares[a]
    <3>1. w + S <= r + f + v + F /\ w <= r + v + F  BY <2>9 DEF Covered, S, f, v
    <3>2. w \in Nat /\ r \in Nat /\ F \in Nat /\ z \in Nat  BY <1>2, <2>1, <2>3, TimesNat
    <3>3. Fine(d, t)[a] = F + z /\ more[t][a] = w + z  BY <2>4
    <3> HIDE DEF w, r, F, z
    <3>4. (w + z) + (S + x) <= r + (f + y) + v + (F + z) /\ w + z <= r + v + (F + z)
      BY <2>6, <3>1, <3>2, RewardKeepsBooks
    <3> QED BY <3>3, <3>4 DEF r
  <2>13. v = Precision * Total(upd)  BY DEF v
  <2> QED BY <2>5, <2>7, <2>8, <2>11, <2>12, <2>13 DEF Covered
<1>6. d.shares = c.shares /\ d.totalShares = c.totalShares  BY <1>1 DEF AfterDistribute
<1> HIDE DEF more
<1>7. Balanced(d, more, paid, upd)  BY <1>3, <1>5, <1>6 DEF Balanced
<1> QED BY <1>7 DEF d, more

----------------------------------------------------------------------------
\* The history only watches the ledger.
LEMMA HistoryWatches ==
  HNext => Next
BY DEF HNext, Next, HHarvest, HHarvestEverything, HDistribute, HIncrease, HDecrease, HMove

\* The inductive invariant: the books of the ledger and those of its holders.
HistoryInv ==
    /\ ChefInv /\ HistoryType
    /\ Fair(chef, received, earned, updates)
    /\ Balanced(chef, earned, received, updates)

\* All books start at zero.
LEMMA HistoryInit == HInit => HistoryInv
<1> SUFFICES ASSUME HInit PROVE HistoryInv  OBVIOUS
<1>1. ChefInv  BY InitInv DEF HInit, Init, ChefInv
<1>2. HistoryType  BY DEF HInit, HistoryType, Ledgers
<1>3. ASSUME NEW t \in Tokens, NEW a \in Accounts
      PROVE  Precision * received[t][a] + chef.acc[t] * chef.shares[a]
                <= earned[t][a] + Precision * (chef.debt[t][a] + updates[a])
  <2>1. /\ received[t][a] = 0 /\ earned[t][a] = 0 /\ updates[a] = 0
        /\ chef.acc[t] = 0 /\ chef.shares[a] = 0 /\ chef.debt[t][a] = 0
    BY DEF HInit, Init, InitLedger
  <2>2. Precision * 0 = 0 /\ 0 * 0 = 0  BY MasterchefAssumption
  <2> QED BY <2>1, <2>2
<1>4. Balanced(chef, earned, received, updates)
  <2>1. /\ \A a \in Accounts : chef.shares[a] = 0 /\ updates[a] = 0
        /\ chef.totalShares = 0
    BY DEF HInit, Init, InitLedger
  <2>2. Total(chef.shares) = 0 /\ Total(updates) = 0  BY <2>1, TotalType
  <2>3. ASSUME NEW t \in Tokens
        PROVE  /\ chef.totalAssets[t] = chef.funds[t] + Total(received[t])
               /\ Covered(chef, t, earned, received, updates)
    <3>1. /\ chef.totalAssets[t] = 0 /\ chef.funds[t] = 0 /\ chef.acc[t] = 0
          /\ \A a \in Accounts : /\ received[t][a] = 0 /\ earned[t][a] = 0
                                 /\ chef.debt[t][a] = 0
      BY DEF HInit, Init, InitLedger
    <3>2. Precision * 0 = 0 /\ 0 * 0 = 0  BY MasterchefAssumption
    <3>3. \A a \in Accounts : Fine(chef, t)[a] = 0  BY <2>1, <3>1, <3>2 DEF Fine
    <3>4. Total(received[t]) = 0 /\ Total(Fine(chef, t)) = 0  BY <3>1, <3>3, TotalType
    <3>5. chef.totalAssets[t] = chef.funds[t] + Total(received[t])  BY <3>1, <3>4
    <3>6. Covered(chef, t, earned, received, updates)
      BY <2>2, <3>1, <3>2, <3>3, <3>4 DEF Covered
    <3> QED BY <3>5, <3>6
  <2> QED BY <2>1, <2>2, <2>3 DEF Balanced
<1> QED BY <1>1, <1>2, <1>3, <1>4 DEF HistoryInv, Fair

\* Every action keeps the books in balance, one step per action.
LEMMA HistoryNext == HistoryInv /\ [HNext]_hvars => HistoryInv'
<1> SUFFICES ASSUME HistoryInv, [HNext]_hvars PROVE HistoryInv'  OBVIOUS
<1> DEFINE Kept == /\ earned' \in Ledgers /\ received' \in Ledgers
                   /\ updates' \in [Accounts -> Nat]
                   /\ Fair(chef', received', earned', updates')
                   /\ Balanced(chef', earned', received', updates')
<1>1. /\ LedgerInv(chef) /\ chef.assets \in SUBSET Tokens /\ Fair(chef, received, earned, updates)
      /\ earned \in Ledgers /\ received \in Ledgers /\ updates \in [Accounts -> Nat]
      /\ Balanced(chef, earned, received, updates)
  BY LedgerFields DEF HistoryInv, HistoryType, ChefInv, LedgerInv
<1>2. ASSUME NEW T \in SUBSET Tokens, NEW a \in Accounts,
             chef' = HarvestTokens(chef, T, a), Harvested(a)
      PROVE  Kept
  BY <1>1, <1>2, HarvestIsFair, HarvestIsBalanced DEF Harvested
<1>3. ASSUME NEW s, NEW t \in Tokens, NEW n \in 0..MaxRewards, HDistribute(s, t, n) PROVE Kept
  <2>1. /\ chef' = DistributeReward(chef, t, n) /\ earned' = Owed(chef, chef')
        /\ received' = received /\ updates' = updates /\ n \in Nat
    BY <1>3 DEF HDistribute, Distribute
  <2>2. /\ Owed(chef, chef') \in Ledgers /\ Fair(chef', received, Owed(chef, chef'), updates)
        /\ Balanced(chef', Owed(chef, chef'), received, updates)
    <3> DEFINE d == DistributeReward(chef, t, n)
    <3>1. /\ Owed(chef, d) \in Ledgers /\ Fair(d, received, Owed(chef, d), updates)
          /\ Balanced(d, Owed(chef, d), received, updates)
      <4>1. n \in Nat  BY <2>1
      <4>2. Owed(chef, d) \in Ledgers /\ Fair(d, received, Owed(chef, d), updates)
        BY <1>1, <4>1, DistributeIsFair DEF Owed
      <4>3. Balanced(d, Owed(chef, d), received, updates)
        BY <1>1, <4>1, DistributeIsBalanced DEF Owed
      <4> QED BY <4>2, <4>3
    <3> HIDE DEF d
    <3> QED BY <2>1, <3>1 DEF d
  <2> QED BY <1>1, <2>1, <2>2
<1>4. ASSUME NEW a \in Accounts, NEW n \in 0..MaxShares, HIncrease(a, n) PROVE Kept
  <2>1. n \in Nat /\ chef' = IncreaseShare(chef, a, n) /\ Updated(a)
    BY <1>4 DEF HIncrease, Increase
  <2>2. /\ LedgerInv(chef')
        /\ AfterUpdate(HarvestAll(chef, a), chef', a, chef.shares[a] + n, chef.totalShares + n)
    BY <1>1, <2>1, IncreaseFields
  <2>3. /\ chef.shares[a] + n \in Nat /\ chef.totalShares + n \in Nat
        /\ (chef.shares[a] + n) + chef.totalShares = (chef.totalShares + n) + chef.shares[a]
    BY <1>1, <2>1, HoldersWithinTotal
  <2>4. /\ PaidTo(received, chef, chef', a) \in Ledgers
        /\ Fair(chef', PaidTo(received, chef, chef', a), earned, [updates EXCEPT ![a] = @ + 1])
        /\ Balanced(chef', earned, PaidTo(received, chef, chef', a), [updates EXCEPT ![a] = @ + 1])
    BY <1>1, <2>2, <2>3, UpdateIsFair, UpdateIsBalanced
  <2>5. [updates EXCEPT ![a] = @ + 1] \in [Accounts -> Nat]  BY <1>1
  <2>6. /\ received' = PaidTo(received, chef, chef', a) /\ earned' = earned
        /\ updates' = [updates EXCEPT ![a] = @ + 1]
    BY <2>1 DEF Updated
  <2> QED BY <1>1, <2>4, <2>5, <2>6
<1>5. ASSUME NEW a \in Accounts, NEW n \in 0..MaxShares, HDecrease(a, n) PROVE Kept
  <2>1. /\ n \in Nat /\ chef' = DecreaseShare(chef, a, n) /\ Updated(a)
        /\ ~DecreaseShareReverts(chef, a, n)
    BY <1>5 DEF HDecrease, Decrease
  <2>2. /\ LedgerInv(chef')
        /\ AfterUpdate(HarvestAll(chef, a), chef', a, chef.shares[a] - n, chef.totalShares - n)
    BY <1>1, <2>1, DecreaseFields
  <2>3. /\ chef.shares[a] - n \in Nat /\ chef.totalShares - n \in Nat
        /\ (chef.shares[a] - n) + chef.totalShares = (chef.totalShares - n) + chef.shares[a]
    BY <1>1, <2>1, HoldersWithinTotal DEF DecreaseShareReverts
  <2>4. /\ PaidTo(received, chef, chef', a) \in Ledgers
        /\ Fair(chef', PaidTo(received, chef, chef', a), earned, [updates EXCEPT ![a] = @ + 1])
        /\ Balanced(chef', earned, PaidTo(received, chef, chef', a), [updates EXCEPT ![a] = @ + 1])
    BY <1>1, <2>2, <2>3, UpdateIsFair, UpdateIsBalanced
  <2>5. [updates EXCEPT ![a] = @ + 1] \in [Accounts -> Nat]  BY <1>1
  <2>6. /\ received' = PaidTo(received, chef, chef', a) /\ earned' = earned
        /\ updates' = [updates EXCEPT ![a] = @ + 1]
    BY <2>1 DEF Updated
  <2> QED BY <1>1, <2>4, <2>5, <2>6
<1>6. ASSUME NEW a \in Accounts, NEW b \in Accounts, NEW n \in 0..MaxShares, HMove(a, b, n)
      PROVE  Kept
  <2> DEFINE taken == DecreaseShare(chef, a, n)
             paid == PaidTo(received, chef, taken, a)
             once == [updates EXCEPT ![a] = @ + 1]
  <2>1. /\ n \in Nat /\ ~DecreaseShareReverts(chef, a, n) /\ chef' = IncreaseShare(taken, b, n)
        /\ received' = PaidTo(paid, taken, chef', b)
        /\ updates' = [once EXCEPT ![b] = @ + 1] /\ earned' = earned
    BY <1>6 DEF HMove, Move
  <2>2. /\ LedgerInv(taken)
        /\ AfterUpdate(HarvestAll(chef, a), taken, a, chef.shares[a] - n, chef.totalShares - n)
    BY <1>1, <2>1, DecreaseFields
  <2>3. /\ chef.shares[a] - n \in Nat /\ chef.totalShares - n \in Nat
        /\ (chef.shares[a] - n) + chef.totalShares = (chef.totalShares - n) + chef.shares[a]
    BY <1>1, <2>1, HoldersWithinTotal DEF DecreaseShareReverts
  <2>4. /\ paid \in Ledgers /\ Fair(taken, paid, earned, once)
        /\ Balanced(taken, earned, paid, once)
    BY <1>1, <2>2, <2>3, UpdateIsFair, UpdateIsBalanced
  <2>5. once \in [Accounts -> Nat]  BY <1>1
  <2> HIDE DEF taken, paid, once
  <2>6. /\ LedgerInv(chef')
        /\ AfterUpdate(HarvestAll(taken, b), chef', b, taken.shares[b] + n, taken.totalShares + n)
    BY <2>1, <2>2, IncreaseFields
  <2>7. /\ taken.shares[b] + n \in Nat /\ taken.totalShares + n \in Nat
        /\ (taken.shares[b] + n) + taken.totalShares = (taken.totalShares + n) + taken.shares[b]
    BY <2>1, <2>2, HoldersWithinTotal
  <2>8. /\ PaidTo(paid, taken, chef', b) \in Ledgers
        /\ Fair(chef', PaidTo(paid, taken, chef', b), earned, [once EXCEPT ![b] = @ + 1])
        /\ Balanced(chef', earned, PaidTo(paid, taken, chef', b), [once EXCEPT ![b] = @ + 1])
    BY <1>1, <2>2, <2>4, <2>5, <2>6, <2>7, UpdateIsFair, UpdateIsBalanced
  <2>9. [once EXCEPT ![b] = @ + 1] \in [Accounts -> Nat]  BY <2>5
  <2> QED BY <1>1, <2>1, <2>8, <2>9
<1>7. ASSUME UNCHANGED hvars PROVE Kept  BY <1>1, <1>7 DEF hvars
<1>8. ASSUME HNext PROVE Kept
  <2>1. ASSUME NEW t \in Tokens, NEW a \in Accounts, HHarvest(t, a) PROVE Kept
    BY <1>2, <2>1 DEF HHarvest, Harvest
  <2>2. ASSUME NEW a \in Accounts, HHarvestEverything(a) PROVE Kept
    BY <1>1, <1>2, <2>2 DEF HHarvestEverything, HarvestEverything, HarvestAll
  <2> HIDE DEF Kept
  <2> QED BY <1>3, <1>4, <1>5, <1>6, <1>8, <2>1, <2>2 DEF HNext
<1>9. Kept  BY <1>7, <1>8
<1>10. ChefInv'
  <2>1. [Next]_chef  BY HistoryWatches DEF hvars
  <2> QED BY <2>1, NextInv DEF HistoryInv
<1> QED BY <1>9, <1>10 DEF HistoryInv, HistoryType, Fair

\* What an account was paid and can still collect is covered by its books.
LEMMA FairIsEnough == HistoryInv => NoMoreThanEarned
<1> SUFFICES ASSUME HistoryInv, NEW t \in Tokens, NEW a \in Accounts
             PROVE  Precision * (received[t][a] + PendingReward(chef, t, a))
                      <= earned[t][a] + Precision * updates[a]
  BY DEF NoMoreThanEarned
<1> DEFINE p == PendingReward(chef, t, a)
           E == Entitlement(chef, t, a)
           r == received[t][a]
           w == chef.acc[t] * chef.shares[a]
           b == chef.debt[t][a]
           e == earned[t][a]
           v == updates[a]
<1>1. LedgerInv(chef) /\ chef \in LedgerType /\ b <= E
  BY DEF HistoryInv, ChefInv, LedgerInv, DebtWithin
<1>2. /\ r \in Nat /\ e \in Nat /\ v \in Nat /\ b \in Nat /\ Precision \in Nat
      /\ chef.acc[t] \in Nat /\ chef.shares[a] \in Nat
  BY <1>1, LedgerFields, MasterchefAssumption DEF HistoryInv, HistoryType, Ledgers
<1>3. Precision * r + w <= e + Precision * (b + v)  BY DEF HistoryInv, Fair
<1>4. E \in Nat /\ Precision * E <= w /\ w \in Nat
  BY <1>2, EntitlementBounds DEF Entitlement
<1>5. p + b <= E /\ p \in Nat
  <2>1. CASE HasShare(chef, a) /\ b < E
    <3>1. p = E - b  BY <2>1 DEF PendingReward
    <3> HIDE DEF p, E, b
    <3> QED BY <1>2, <1>4, <2>1, <3>1
  <2>2. CASE ~(HasShare(chef, a) /\ b < E)
    <3>1. p = 0  BY <2>2 DEF PendingReward
    <3> HIDE DEF p, E, b
    <3> QED BY <1>1, <1>2, <1>4, <3>1
  <2> QED BY <2>1, <2>2
<1> HIDE DEF p, E, r, w, b, e, v
<1>6. (p + b) * Precision <= E * Precision  BY <1>2, <1>4, <1>5, TimesMono
<1>7. /\ (p + b) * Precision = Precision * p + Precision * b
      /\ E * Precision = Precision * E
      /\ Precision * (b + v) = Precision * b + Precision * v
      /\ Precision * (r + p) = Precision * r + Precision * p
  BY <1>2, <1>4, <1>5
<1>8. /\ Precision * p \in Nat /\ Precision * b \in Nat /\ Precision * E \in Nat
      /\ Precision * v \in Nat /\ Precision * r \in Nat
  BY <1>2, <1>4, <1>5, TimesNat
<1>9. Precision * (r + p) <= e + Precision * v
  BY <1>2, <1>3, <1>4, <1>6, <1>7, <1>8
<1> QED BY <1>9 DEF p, r, e, v

\* Nobody is ever paid more than the distributions owed to the shares it held
\* when they were made, but for a unit for each update of its shares.
THEOREM PaidWithinEarned == HSpec => []NoMoreThanEarned
<1>1. HSpec => []HistoryInv  BY HistoryInit, HistoryNext, PTL DEF HSpec
<1> QED BY <1>1, FairIsEnough, PTL

LEMMA HistoryInvariant == HSpec => []HistoryInv
BY HistoryInit, HistoryNext, PTL DEF HSpec

\* The number of updates is the sum that the books are kept with.
LEMMA UpdatesCounted ==
  HistoryInv => UpdatesSoFar = Total(updates) /\ UpdatesSoFar \in Nat
<1> SUFFICES ASSUME HistoryInv PROVE UpdatesSoFar = Total(updates) /\ UpdatesSoFar \in Nat
  OBVIOUS
<1>1. updates \in [Accounts -> Nat]  BY DEF HistoryInv, HistoryType
<1>2. UpdatesSoFar = Total(updates)  BY <1>1 DEF UpdatesSoFar, SumFunction, Total
<1>3. \A a \in Accounts : updates[a] \in Nat  BY <1>1
<1>4. Total(updates) \in Nat  BY <1>3, TotalType
<1> QED BY <1>2, <1>4

\* The ledger owes at most one unit for each update more than it holds.
THEOREM LedgerOwesRoundings == HSpec => []BoundedDeficit
<1>1. HistoryInv => BoundedDeficit
  <2> SUFFICES ASSUME HistoryInv, NEW t \in Tokens
               PROVE  SumFunction(Pending(t)) <= chef.funds[t] + UpdatesSoFar
    BY DEF BoundedDeficit
  <2> DEFINE p == Pending(t)
             scaled == [a \in Accounts |-> Precision * p[a]]
             F == Fine(chef, t)
             none == [a \in Accounts |-> 0]
             u == UpdatesSoFar
             f == chef.funds[t]
  <2>1. LedgerInv(chef) /\ chef \in LedgerType /\ IsFiniteSet(Accounts) /\ Precision \in Nat \ {0}
    BY MasterchefAssumption DEF HistoryInv, ChefInv, LedgerInv
  <2>2. /\ \A a \in Accounts : p[a] = PendingReward(chef, t, a) /\ p[a] \in Nat
        /\ DOMAIN p = Accounts /\ f \in Nat
    BY <2>1, PendingType, LedgerFields DEF Pending
  <2>3. \A a \in Accounts : F[a] \in Nat /\ Precision * p[a] <= F[a]  BY <2>1, <2>2, FineType
  <2>4. SumFunction(p) = Total(p)  BY <2>2 DEF SumFunction, Total
  <2>5. Total(p) \in Nat /\ Total(F) \in Nat  BY <2>2, <2>3, TotalType
  <2> HIDE DEF p, F
  <2>6. Total(scaled) = Precision * Total(p)
    <3>1. Total(none) = 0  BY TotalType
    <3>2. \A a \in Accounts : /\ none[a] \in Int /\ p[a] \in Int
                              /\ scaled[a] = none[a] + Precision * p[a]
      BY <2>1, <2>2
    <3> HIDE DEF none, scaled
    <3>3. Precision \in Int  BY <2>1
    <3>4. Total(scaled) = Total(none) + Precision * Total(p)
      BY <2>1, <3>2, <3>3, SumLinear DEF Total
    <3> QED BY <2>1, <2>5, <3>1, <3>4
  <2>7. Total(scaled) <= Total(F)
    <3>1. \A a \in Accounts : scaled[a] \in Int /\ F[a] \in Int /\ scaled[a] <= F[a]
      BY <2>1, <2>2, <2>3
    <3> HIDE DEF scaled
    <3> QED BY <2>1, <3>1, SumOrder DEF Total
  <2>8. Total(F) <= Precision * f + Precision * u
    BY UpdatesCounted DEF HistoryInv, Balanced, Covered, F
  <2>9. u \in Nat  BY UpdatesCounted
  <2> HIDE DEF u, f, scaled
  <2>10. Precision * Total(p) <= Precision * (f + u)
    <3>1. Precision * (f + u) = Precision * f + Precision * u  BY <2>1, <2>2, <2>9
    <3>2. Precision * f \in Nat /\ Precision * u \in Nat /\ Precision * Total(p) \in Nat
      BY <2>1, <2>2, <2>5, <2>9, TimesNat
    <3> QED BY <2>5, <2>6, <2>7, <2>8, <3>1, <3>2
  <2>11. Total(p) <= f + u
    <3>1. \A P \in Nat \ {0}, x \in Nat, y \in Nat : P * x <= P * y => x <= y  OBVIOUS
    <3>2. f + u \in Nat  BY <2>2, <2>9
    <3> QED BY <2>1, <2>5, <2>10, <3>1, <3>2
  <2> QED BY <2>4, <2>11 DEF p, f, u
<1> QED BY <1>1, HistoryInvariant, PTL

\* Nobody is paid less than it earned, but for roundings.
THEOREM PaidWhatWasEarned == HSpec => []NoLessThanEarned
<1>1. HistoryInv => NoLessThanEarned
  <2> SUFFICES ASSUME HistoryInv, NEW t \in Tokens, NEW a \in Accounts
               PROVE  Precision * (received[t][a] + PendingReward(chef, t, a) + UpdatesSoFar + 1)
                        > earned[t][a]
    BY DEF NoLessThanEarned
  <2> DEFINE r == received[t][a]
             p == PendingReward(chef, t, a)
             u == UpdatesSoFar
             e == earned[t][a]
             F == Fine(chef, t)[a]
  <2>1. LedgerInv(chef) /\ chef \in LedgerType /\ Precision \in Nat
    BY MasterchefAssumption DEF HistoryInv, ChefInv, LedgerInv
  <2>2. r \in Nat /\ e \in Nat /\ u \in Nat /\ p \in Nat
    BY <2>1, PendingType, UpdatesCounted DEF HistoryInv, HistoryType, Ledgers
  <2>3. F \in Nat /\ F < Precision * p + Precision  BY <2>1, FineType
  <2>4. e <= Precision * r + Precision * u + F
    BY UpdatesCounted DEF HistoryInv, Balanced, Covered
  <2> HIDE DEF r, p, u, e, F
  <2>5. Precision * (r + p + u + 1)
          = Precision * r + Precision * p + Precision * u + Precision
    BY <2>1, <2>2
  <2>6. Precision * r \in Nat /\ Precision * p \in Nat /\ Precision * u \in Nat
    BY <2>1, <2>2, TimesNat
  <2>7. Precision * (r + p + u + 1) > e  BY <2>1, <2>2, <2>3, <2>4, <2>5, <2>6
  <2> QED BY <2>7 DEF r, p, u, e
<1> QED BY <1>1, HistoryInvariant, PTL

----------------------------------------------------------------------------
(* Nobody loses by a call.                                                 *)

\* From one ledger to the next no account has less, paid and pending, unless
\* nothing is left.
Settled(c, d, paid, now) ==
    \A t \in Tokens, a \in Accounts :
        \/ now[t][a] + PendingReward(d, t, a) >= paid[t][a] + PendingReward(c, t, a)
        \/ d.funds[t] = 0

\* What is pending follows what is pending before rounding.
LEMMA PendingFollowsFine ==
  ASSUME NEW c, LedgerInv(c), NEW d, LedgerInv(d), NEW t \in Tokens, NEW a \in Accounts,
         NEW k \in Nat, Fine(c, t)[a] <= Fine(d, t)[a] + Precision * k
  PROVE  PendingReward(c, t, a) <= PendingReward(d, t, a) + k
<1> DEFINE p == PendingReward(c, t, a)
           q == PendingReward(d, t, a)
           F == Fine(c, t)[a]
           G == Fine(d, t)[a]
<1>1. p \in Nat /\ q \in Nat  BY PendingType DEF LedgerInv
<1>2. F \in Nat /\ G \in Nat /\ Precision * p <= F /\ G < Precision * q + Precision
  BY FineType
<1>3. Precision \in Nat \ {0}  BY MasterchefAssumption
<1>4. F <= G + Precision * k  OBVIOUS
<1> HIDE DEF p, q, F, G
<1>5. Precision * (q + k + 1) = Precision * q + Precision * k + Precision  BY <1>1, <1>3
<1>6. /\ Precision * p \in Nat /\ Precision * q \in Nat /\ Precision * k \in Nat
      /\ q + k + 1 \in Nat
  BY <1>1, <1>3, TimesNat
<1>7. Precision * p < Precision * (q + k + 1)  BY <1>2, <1>3, <1>4, <1>5, <1>6
<1>8. \A P \in Nat \ {0}, x \in Nat, y \in Nat : P * x < P * y => x < y  OBVIOUS
<1>9. p < q + k + 1  BY <1>1, <1>3, <1>6, <1>7, <1>8
<1>10. p <= q + k  BY <1>1, <1>9
<1> QED BY <1>10 DEF p, q

\* A harvest pays what it takes from what is pending.
LEMMA HarvestIsSettled ==
  ASSUME NEW c, LedgerInv(c), NEW T \in SUBSET Tokens, NEW a \in Accounts, NEW paid \in Ledgers
  PROVE  LET h == HarvestTokens(c, T, a)
         IN  Settled(c, h, paid, PaidTo(paid, c, h, a)) /\ \A t \in Tokens : h.funds[t] <= c.funds[t]
<1> DEFINE h == HarvestTokens(c, T, a)
           now == PaidTo(paid, c, h, a)
<1>1. /\ c \in LedgerType /\ LedgerInv(h) /\ h \in LedgerType /\ now \in Ledgers
      /\ Precision \in Nat
  BY HarvestKeepsInv, HarvestPaysType, MasterchefAssumption DEF LedgerInv
<1>2. ASSUME NEW t \in Tokens, NEW b \in Accounts
      PROVE  /\ \/ now[t][b] + PendingReward(h, t, b) >= paid[t][b] + PendingReward(c, t, b)
                \/ h.funds[t] = 0
             /\ h.funds[t] <= c.funds[t]
  <2>1. PICK pend \in Nat, pay \in Nat : HarvestMoves(c, h, t, a, paid, now, pend, pay)
    BY HarvestStep
  <2> HIDE DEF h, now
  <2> DEFINE p == PendingReward(c, t, b)
             q == PendingReward(h, t, b)
             r == paid[t][b]
             n == now[t][b]
  <2>2. /\ p \in Nat /\ q \in Nat /\ r \in Nat /\ n \in Nat
        /\ Fine(c, t)[b] \in Nat /\ Fine(h, t)[b] \in Nat /\ c.funds[t] \in Nat
    BY <1>1, PendingType, FineType, LedgerFields DEF Ledgers
  <2>3. h.funds[t] <= c.funds[t]  BY <2>1, <2>2 DEF HarvestMoves
  <2>4. CASE b = a
    <3>1. /\ Fine(h, t)[b] = Fine(c, t)[b] - Precision * pend /\ n = r + pay
          /\ pay = pend \/ h.funds[t] = 0
      BY <2>1, <2>4 DEF HarvestMoves
    <3>2. Precision * pend \in Nat  BY <1>1, TimesNat
    <3>3. Fine(c, t)[b] <= Fine(h, t)[b] + Precision * pend  BY <2>2, <3>1, <3>2
    <3>4. p <= q + pend  BY <1>1, <3>3, PendingFollowsFine
    <3> HIDE DEF p, q, r, n
    <3>5. pay = pend => n + q >= r + p  BY <2>2, <3>1, <3>4
    <3> QED BY <2>3, <3>1, <3>5 DEF p, q, r, n
  <2>5. CASE b # a
    <3>1. Fine(h, t)[b] = Fine(c, t)[b] /\ n = r  BY <2>1, <2>5 DEF HarvestMoves
    <3>2. 0 \in Nat /\ Precision * 0 = 0  BY <1>1
    <3>3. Fine(c, t)[b] <= Fine(h, t)[b] + Precision * 0  BY <2>2, <3>1, <3>2
    <3>4. p <= q + 0  BY <1>1, <3>2, <3>3, PendingFollowsFine
    <3> HIDE DEF p, q, r, n
    <3>5. n + q >= r + p  BY <2>2, <3>1, <3>4
    <3> QED BY <2>3, <3>5 DEF p, q, r, n
  <2> QED BY <2>4, <2>5
<1> HIDE DEF h, now
<1>3. Settled(c, h, paid, now) /\ \A t \in Tokens : h.funds[t] <= c.funds[t]
  BY <1>2 DEF Settled
<1> QED BY <1>3 DEF h, now

\* So does a share update, which comes after a harvest.
LEMMA UpdateIsSettled ==
  ASSUME NEW c, LedgerInv(c), NEW a \in Accounts, NEW u, LedgerInv(u),
         NEW s \in Nat, NEW n \in Nat, AfterUpdate(HarvestAll(c, a), u, a, s, n),
         NEW paid \in Ledgers
  PROVE  /\ Settled(c, u, paid, PaidTo(paid, c, u, a))
         /\ \A t \in Tokens : u.funds[t] <= c.funds[t]
         /\ PaidTo(paid, c, u, a) \in Ledgers
<1> DEFINE h == HarvestAll(c, a)
           now == PaidTo(paid, c, u, a)
<1>1. /\ c \in LedgerType /\ c.assets \in SUBSET Tokens /\ u \in LedgerType
      /\ h \in LedgerType /\ LedgerInv(h)
      /\ AfterHarvest(c, h, c.assets, a) /\ PaidTo(paid, c, h, a) \in Ledgers
      /\ Settled(c, h, paid, PaidTo(paid, c, h, a)) /\ \A t \in Tokens : h.funds[t] <= c.funds[t]
  BY HarvestType, HarvestFields, HarvestKeepsInv, HarvestPaysType, HarvestIsSettled, LedgerFields
  DEF LedgerInv, HarvestAll
<1>2. \A t \in Tokens : PendingReward(h, t, a) = 0 /\ PendingReward(u, t, a) = 0
  BY NothingPending
<1>3. AfterUpdate(h, u, a, s, n)  OBVIOUS
<1> HIDE DEF h
<1>4. now = PaidTo(paid, c, h, a) /\ u.funds = h.funds  BY <1>3 DEF PaidTo, AfterUpdate
<1>5. Settled(c, h, paid, now) /\ now \in Ledgers  BY <1>1, <1>4
<1> HIDE DEF now
<1>6. ASSUME NEW t \in Tokens, NEW b \in Accounts
      PROVE  \/ now[t][b] + PendingReward(u, t, b) >= paid[t][b] + PendingReward(c, t, b)
             \/ u.funds[t] = 0
  <2> DEFINE p == PendingReward(c, t, b)
             q == PendingReward(h, t, b)
             v == PendingReward(u, t, b)
             r == paid[t][b]
             m == now[t][b]
  <2>1. p \in Nat /\ q \in Nat /\ v \in Nat /\ r \in Nat /\ m \in Nat
    BY <1>1, <1>5, PendingType DEF Ledgers
  <2>2. m + q >= r + p \/ u.funds[t] = 0  BY <1>4, <1>5 DEF Settled
  <2>3. q <= v
    <3>1. CASE b = a  BY <1>2, <2>1, <3>1
    <3>2. CASE b # a
      <4>1. u.acc = h.acc /\ u.shares[b] = h.shares[b] /\ u.debt[t][b] = h.debt[t][b]
        BY <1>1, <1>3, <3>2, LedgerFields DEF AfterUpdate
      <4>2. Fine(u, t)[b] = Fine(h, t)[b]  BY <4>1 DEF Fine
      <4>3. 0 \in Nat /\ Precision * 0 = 0  BY MasterchefAssumption
      <4>4. Fine(h, t)[b] \in Nat  BY <1>1, FineType
      <4>5. Fine(h, t)[b] <= Fine(u, t)[b] + Precision * 0  BY <4>2, <4>3, <4>4
      <4>6. q <= v + 0  BY <1>1, <4>3, <4>5, PendingFollowsFine
      <4> HIDE DEF q, v
      <4> QED BY <2>1, <4>6
    <3> QED BY <3>1, <3>2
  <2> HIDE DEF p, q, v, r, m
  <2>4. m + v >= r + p \/ u.funds[t] = 0  BY <2>1, <2>2, <2>3
  <2> QED BY <2>4 DEF p, v, r, m
<1> QED BY <1>1, <1>4, <1>5, <1>6 DEF Settled, now

\* A distribution takes nothing from what is pending.
LEMMA DistributeIsSettled ==
  ASSUME NEW c, LedgerInv(c), NEW k \in Tokens, NEW n \in Nat, NEW paid \in Ledgers
  PROVE  Settled(c, DistributeReward(c, k, n), paid, paid)
<1> DEFINE d == DistributeReward(c, k, n)
<1>1. /\ c \in LedgerType /\ d \in LedgerType /\ AfterDistribute(c, d, k, n) /\ LedgerInv(d)
  BY DistributeFields, DistributeKeepsInv DEF LedgerInv
<1> HIDE DEF d
<1>2. ASSUME NEW t \in Tokens, NEW a \in Accounts
      PROVE  paid[t][a] + PendingReward(d, t, a) >= paid[t][a] + PendingReward(c, t, a)
  <2>1. c.acc[t] \in Nat /\ d.acc[t] \in Nat /\ c.shares[a] \in Nat /\ c.debt[t][a] \in Nat
    BY <1>1, LedgerFields
  <2>2. c.acc[t] <= d.acc[t] /\ d.shares = c.shares /\ d.debt = c.debt
    BY <1>1, <2>1 DEF AfterDistribute
  <2>3. c.acc[t] * c.shares[a] <= d.acc[t] * c.shares[a]  BY <2>1, <2>2, TimesMono
  <2>4. Precision \in Nat /\ 0 \in Nat /\ Precision * 0 = 0  BY MasterchefAssumption
  <2>5. /\ c.acc[t] * c.shares[a] \in Nat /\ d.acc[t] * c.shares[a] \in Nat
        /\ Precision * c.debt[t][a] \in Nat
    BY <2>1, <2>4, TimesNat
  <2>6. Fine(c, t)[a] <= Fine(d, t)[a] + Precision * 0
    BY <2>2, <2>3, <2>4, <2>5 DEF Fine
  <2> DEFINE p == PendingReward(c, t, a)
             q == PendingReward(d, t, a)
             r == paid[t][a]
  <2>7. p <= q + 0  BY <1>1, <2>4, <2>6, PendingFollowsFine
  <2>8. p \in Nat /\ q \in Nat /\ r \in Nat  BY <1>1, PendingType DEF Ledgers
  <2> HIDE DEF p, q, r
  <2>9. r + q >= r + p  BY <2>7, <2>8
  <2> QED BY <2>9 DEF p, q, r
<1> QED BY <1>2 DEF Settled, d

\* Every action settles, one step per action.
LEMMA EveryCallSettles == HistoryInv /\ [HNext]_hvars => Settled(chef, chef', received, received')
<1> SUFFICES ASSUME HistoryInv, [HNext]_hvars PROVE Settled(chef, chef', received, received')
  OBVIOUS
<1> DEFINE Goal == Settled(chef, chef', received, received')
<1>1. /\ LedgerInv(chef) /\ chef \in LedgerType /\ chef.assets \in SUBSET Tokens
      /\ received \in Ledgers
  BY LedgerFields DEF HistoryInv, HistoryType, ChefInv, LedgerInv
<1>2. ASSUME NEW T \in SUBSET Tokens, NEW a \in Accounts,
             chef' = HarvestTokens(chef, T, a), Harvested(a)
      PROVE  Goal
  BY <1>1, <1>2, HarvestIsSettled DEF Harvested
<1>3. ASSUME NEW s, NEW t \in Tokens, NEW n \in 0..MaxRewards, HDistribute(s, t, n) PROVE Goal
  <2>1. chef' = DistributeReward(chef, t, n) /\ received' = received /\ n \in Nat
    BY <1>3 DEF HDistribute, Distribute
  <2>2. Settled(chef, DistributeReward(chef, t, n), received, received)
    BY <1>1, <2>1, DistributeIsSettled
  <2> QED BY <2>1, <2>2
<1>4. ASSUME NEW a \in Accounts, NEW n \in 0..MaxShares, HIncrease(a, n) PROVE Goal
  <2>1. /\ n \in Nat /\ chef' = IncreaseShare(chef, a, n)
        /\ received' = PaidTo(received, chef, chef', a)
    BY <1>4 DEF HIncrease, Increase, Updated
  <2>2. /\ LedgerInv(chef')
        /\ AfterUpdate(HarvestAll(chef, a), chef', a, chef.shares[a] + n, chef.totalShares + n)
    BY <1>1, <2>1, IncreaseFields
  <2>3. chef.shares[a] + n \in Nat /\ chef.totalShares + n \in Nat
    BY <1>1, <2>1, HoldersWithinTotal
  <2>4. Settled(chef, chef', received, PaidTo(received, chef, chef', a))
    BY <1>1, <2>2, <2>3, UpdateIsSettled
  <2> QED BY <2>1, <2>4
<1>5. ASSUME NEW a \in Accounts, NEW n \in 0..MaxShares, HDecrease(a, n) PROVE Goal
  <2>1. /\ n \in Nat /\ chef' = DecreaseShare(chef, a, n) /\ ~DecreaseShareReverts(chef, a, n)
        /\ received' = PaidTo(received, chef, chef', a)
    BY <1>5 DEF HDecrease, Decrease, Updated
  <2>2. /\ LedgerInv(chef')
        /\ AfterUpdate(HarvestAll(chef, a), chef', a, chef.shares[a] - n, chef.totalShares - n)
    BY <1>1, <2>1, DecreaseFields
  <2>3. chef.shares[a] - n \in Nat /\ chef.totalShares - n \in Nat
    BY <1>1, <2>1, HoldersWithinTotal DEF DecreaseShareReverts
  <2>4. Settled(chef, chef', received, PaidTo(received, chef, chef', a))
    BY <1>1, <2>2, <2>3, UpdateIsSettled
  <2> QED BY <2>1, <2>4
<1>6. ASSUME NEW a \in Accounts, NEW b \in Accounts, NEW n \in 0..MaxShares, HMove(a, b, n)
      PROVE  Goal
  <2> DEFINE taken == DecreaseShare(chef, a, n)
             paid == PaidTo(received, chef, taken, a)
  <2>1. /\ n \in Nat /\ ~DecreaseShareReverts(chef, a, n) /\ chef' = IncreaseShare(taken, b, n)
        /\ received' = PaidTo(paid, taken, chef', b)
    BY <1>6 DEF HMove, Move
  <2>2. /\ LedgerInv(taken)
        /\ AfterUpdate(HarvestAll(chef, a), taken, a, chef.shares[a] - n, chef.totalShares - n)
    BY <1>1, <2>1, DecreaseFields
  <2>3. chef.shares[a] - n \in Nat /\ chef.totalShares - n \in Nat
    BY <1>1, <2>1, HoldersWithinTotal DEF DecreaseShareReverts
  <2>4. paid \in Ledgers /\ Settled(chef, taken, received, paid)
    BY <1>1, <2>2, <2>3, UpdateIsSettled
  <2> HIDE DEF taken, paid
  <2>5. /\ LedgerInv(chef')
        /\ AfterUpdate(HarvestAll(taken, b), chef', b, taken.shares[b] + n, taken.totalShares + n)
    BY <2>1, <2>2, IncreaseFields
  <2>6. taken.shares[b] + n \in Nat /\ taken.totalShares + n \in Nat
    BY <2>1, <2>2, HoldersWithinTotal
  <2>7. /\ Settled(taken, chef', paid, received') /\ received' \in Ledgers
        /\ \A t \in Tokens : chef'.funds[t] <= taken.funds[t]
    BY <2>1, <2>2, <2>4, <2>5, <2>6, UpdateIsSettled
  <2>8. ASSUME NEW t \in Tokens, NEW x \in Accounts
        PROVE  \/ received'[t][x] + PendingReward(chef', t, x)
                    >= received[t][x] + PendingReward(chef, t, x)
               \/ chef'.funds[t] = 0
    <3> DEFINE p == PendingReward(chef, t, x)
               q == PendingReward(taken, t, x)
               v == PendingReward(chef', t, x)
               r == received[t][x]
               m == paid[t][x]
               k == received'[t][x]
               f == chef'.funds[t]
               g == taken.funds[t]
    <3>1. /\ p \in Nat /\ q \in Nat /\ v \in Nat /\ r \in Nat /\ m \in Nat /\ k \in Nat
          /\ f \in Nat /\ g \in Nat
      <4>1. taken \in LedgerType /\ chef' \in LedgerType  BY <2>2, <2>5 DEF LedgerInv
      <4> QED BY <1>1, <2>4, <2>7, <4>1, PendingType, LedgerFields DEF Ledgers
    <3>2. /\ m + q >= r + p \/ g = 0
          /\ k + v >= m + q \/ f = 0
          /\ f <= g
      BY <2>4, <2>7 DEF Settled
    <3> HIDE DEF p, q, v, r, m, k, f, g
    <3>3. k + v >= r + p \/ f = 0  BY <3>1, <3>2
    <3> QED BY <3>3 DEF p, v, r, k, f
  <2> QED BY <2>8 DEF Settled
<1>7. ASSUME UNCHANGED hvars PROVE Goal
  <2>1. chef' = chef /\ received' = received  BY <1>7 DEF hvars
  <2>2. \A t \in Tokens, a \in Accounts : received[t][a] \in Nat /\ PendingReward(chef, t, a) \in Nat
    BY <1>1, PendingType DEF Ledgers
  <2>3. \A t \in Tokens, a \in Accounts :
           received[t][a] + PendingReward(chef, t, a) >= received[t][a] + PendingReward(chef, t, a)
    BY <2>2
  <2> QED BY <2>1, <2>3 DEF Settled
<1>8. ASSUME NEW t \in Tokens, NEW a \in Accounts, HHarvest(t, a) PROVE Goal
  BY <1>2, <1>8 DEF HHarvest, Harvest
<1>9. ASSUME NEW a \in Accounts, HHarvestEverything(a) PROVE Goal
  BY <1>1, <1>2, <1>9 DEF HHarvestEverything, HarvestEverything, HarvestAll
<1> HIDE DEF Goal
<1> QED BY <1>3, <1>4, <1>5, <1>6, <1>7, <1>8, <1>9 DEF HNext, Goal

\* Whatever is called, nobody has less, paid and pending, than before, unless
\* the ledger has none of the token left.
THEOREM CallsSettle == HSpec => SettledInFull
<1>1. HistoryInv /\ [HNext]_hvars =>
        [ \A t \in Tokens, a \in Accounts :
            \/ received'[t][a] + Pending(t)'[a] >= received[t][a] + Pending(t)[a]
            \/ chef'.funds[t] = 0 ]_hvars
  <2> SUFFICES ASSUME HistoryInv, [HNext]_hvars, NEW t \in Tokens, NEW a \in Accounts
               PROVE  \/ received'[t][a] + Pending(t)'[a] >= received[t][a] + Pending(t)[a]
                      \/ chef'.funds[t] = 0
    OBVIOUS
  <2>1. Pending(t)'[a] = PendingReward(chef', t, a) /\ Pending(t)[a] = PendingReward(chef, t, a)
    BY DEF Pending
  <2> QED BY <2>1, EveryCallSettles DEF Settled
<1> QED BY <1>1, HistoryInvariant, PTL DEF HSpec, SettledInFull
=============================================================================
