-------------------- MODULE InsuranceOwnershipTokenProofs --------------------
(***************************************************************************)
(* What holds of the owner's token for every number of accounts and        *)
(* tokens, every supply and every precision.                               *)
(*                                                                         *)
(* As in InsuranceMasterchefProofs.tla each handler has a lemma on         *)
(* holdings.  The books are simpler than the ledger's: the supply is fixed *)
(* and spread over the accounts for good, so all that the shares can ever  *)
(* stand for is within what was distributed (Conserved), and as long as no *)
(* share moves an account's debt is exactly what it was paid (Booked).     *)
(***************************************************************************)
EXTENDS InsuranceOwnershipTokenHistory, Arithmetic

Ledgers == [Tokens -> [Accounts -> Nat]]

Total(f) == SumFunctionOnSet(f, Accounts)

\* The types of the fields of a holding.
LEMMA HoldingFields ==
  ASSUME NEW o \in HoldingType
  PROVE  /\ o.assets \subseteq Tokens
         /\ o.total \in [Tokens -> Nat]
         /\ o.acc \in [Tokens -> Nat]
         /\ o.balance \in [Accounts -> Nat]
         /\ o.debt \in [Tokens -> [Accounts -> Nat]]
         /\ o.funds \in [Tokens -> Nat]
  BY DEF HoldingType

\* The entitlement is a counter, within a unit of the product it is made of.
LEMMA EntitlementBounds ==
  ASSUME NEW o \in HoldingType, NEW t \in Tokens, NEW a \in Accounts
  PROVE  LET E == OwnerEntitlement(o, t, a)
             due == o.acc[t] * o.balance[a]
         IN  /\ E \in Nat /\ due \in Nat
             /\ Precision * E <= due /\ due < Precision * E + Precision
<1>1. o.acc[t] \in Nat /\ o.balance[a] \in Nat  BY HoldingFields
<1>2. o.acc[t] * o.balance[a] \in Nat  BY <1>1, TimesNat
<1> QED BY <1>2, DivType, DivBounds, OwnershipAssumption DEF OwnerEntitlement

\* A payment is covered by what is pending and by what is held, and takes the
\* whole of one of them.
LEMMA PayoutType ==
  ASSUME NEW o \in HoldingType, NEW t \in Tokens, NEW a \in Accounts
  PROVE  /\ PendingReward(o, t, a) \in Nat
         /\ Payout(o, t, a) \in Nat
         /\ Payout(o, t, a) <= o.funds[t]
         /\ Payout(o, t, a) = PendingReward(o, t, a) \/ Payout(o, t, a) = o.funds[t]
         /\ PendingReward(o, t, a) <= o.funds[t] => Payout(o, t, a) = PendingReward(o, t, a)
<1>1. o.debt[t][a] \in Nat /\ o.funds[t] \in Nat  BY HoldingFields
<1>2. OwnerEntitlement(o, t, a) \in Nat  BY EntitlementBounds
<1>3. PendingReward(o, t, a) \in Nat  BY <1>1, <1>2 DEF PendingReward
<1> QED BY <1>1, <1>3 DEF Payout

\* What harvesting the tokens T for a changes.
AfterHarvest(o, h, T, a) ==
    /\ h.assets = o.assets /\ h.total = o.total /\ h.acc = o.acc /\ h.balance = o.balance
    /\ \A t \in Tokens :
          h.funds[t] = IF t \in T THEN o.funds[t] - Payout(o, t, a) ELSE o.funds[t]
    /\ \A t \in Tokens, b \in Accounts :
          h.debt[t][b] = IF t \in T /\ b = a THEN OwnerEntitlement(o, t, a) ELSE o.debt[t][b]

LEMMA HarvestFields ==
  ASSUME NEW o \in HoldingType, NEW T \in SUBSET Tokens, NEW a \in Accounts
  PROVE  LET h == HarvestTokens(o, T, a) IN h \in HoldingType /\ AfterHarvest(o, h, T, a)
<1> DEFINE F == [t \in Tokens |-> IF t \in T THEN o.funds[t] - Payout(o, t, a) ELSE o.funds[t]]
           D == [t \in Tokens |-> IF t \in T
                    THEN [o.debt[t] EXCEPT ![a] = OwnerEntitlement(o, t, a)] ELSE o.debt[t]]
           h == HarvestTokens(o, T, a)
<1>1. F \in [Tokens -> Nat]  BY PayoutType, HoldingFields
<1>2. /\ D \in [Tokens -> [Accounts -> Nat]]
      /\ \A t \in Tokens, b \in Accounts :
           D[t][b] = IF t \in T /\ b = a THEN OwnerEntitlement(o, t, a) ELSE o.debt[t][b]
  BY EntitlementBounds, HoldingFields
<1>3. h = [o EXCEPT !.funds = F, !.debt = D]  BY DEF HarvestTokens
<1>4. \A t \in Tokens : F[t] = IF t \in T THEN o.funds[t] - Payout(o, t, a) ELSE o.funds[t]
  OBVIOUS
<1> HIDE DEF F, D, h
<1>5. /\ h \in HoldingType /\ h.funds = F /\ h.debt = D /\ h.assets = o.assets
      /\ h.total = o.total /\ h.acc = o.acc /\ h.balance = o.balance
  BY <1>1, <1>2, <1>3 DEF HoldingType
<1>6. AfterHarvest(o, h, T, a)  BY <1>2, <1>4, <1>5 DEF AfterHarvest
<1> QED BY <1>5, <1>6 DEF h

LEMMA HarvestAllFields ==
  ASSUME NEW o \in HoldingType, NEW a \in Accounts
  PROVE  HarvestAll(o, a) \in HoldingType /\ AfterHarvest(o, HarvestAll(o, a), o.assets, a)
<1>1. o.assets \in SUBSET Tokens  BY HoldingFields
<1> QED BY <1>1, HarvestFields DEF HarvestAll

\* What distributing n of token k changes.
AfterDistribute(o, d, k, n) ==
    /\ d.assets = o.assets \cup {k} /\ d.balance = o.balance /\ d.debt = o.debt
    /\ \A t \in Tokens :
          /\ d.funds[t] = IF t = k THEN o.funds[t] + n ELSE o.funds[t]
          /\ d.total[t] = IF t = k THEN o.total[t] + n ELSE o.total[t]
          /\ d.acc[t] = IF t = k THEN o.acc[t] + (n * Precision) \div Supply ELSE o.acc[t]

LEMMA DistributeFields ==
  ASSUME NEW o \in HoldingType, NEW k \in Tokens, NEW n \in Nat
  PROVE  LET d == DistributeToOwners(o, k, n) IN d \in HoldingType /\ AfterDistribute(o, d, k, n)
<1>1. n * Precision \in Nat  BY TimesNat, OwnershipAssumption
<1>2. (n * Precision) \div Supply \in Nat  BY <1>1, DivType, OwnershipAssumption
<1> DEFINE g == (n * Precision) \div Supply
<1>3. DistributeToOwners(o, k, n) =
        [o EXCEPT !.assets = @ \cup {k}, !.funds[k] = @ + n, !.total[k] = @ + n, !.acc[k] = @ + g]
  BY DEF DistributeToOwners
<1>4. g \in Nat  BY <1>2
<1> DEFINE d == DistributeToOwners(o, k, n)
           L == o.assets \cup {k}
           F == [o.funds EXCEPT ![k] = @ + n]
           T == [o.total EXCEPT ![k] = @ + n]
           A == [o.acc EXCEPT ![k] = @ + g]
<1> HIDE DEF g
<1>5. d = [o EXCEPT !.assets = L, !.funds = F, !.total = T, !.acc = A]  BY <1>3
<1>6. /\ L \in SUBSET Tokens /\ F \in [Tokens -> Nat] /\ T \in [Tokens -> Nat]
      /\ A \in [Tokens -> Nat]
  BY <1>4, HoldingFields
<1> HIDE DEF d, L, F, T, A
<1>7. /\ d \in HoldingType /\ d.assets = L /\ d.funds = F /\ d.total = T /\ d.acc = A
      /\ d.balance = o.balance /\ d.debt = o.debt
  BY <1>5, <1>6 DEF HoldingType
<1>8. AfterDistribute(o, d, k, n)  BY <1>7, HoldingFields DEF AfterDistribute, g, L, F, T, A
<1> QED BY <1>7, <1>8 DEF d

\* What sending n shares changes, once both parties were harvested for.
AfterTransfer(h, u, a, b, n) ==
    /\ u.assets = h.assets /\ u.total = h.total /\ u.acc = h.acc
    /\ u.debt = h.debt /\ u.funds = h.funds
    /\ u.balance = [[h.balance EXCEPT ![a] = @ - n] EXCEPT ![b] = @ + n]

LEMMA TransferFields ==
  ASSUME NEW o \in HoldingType, NEW a \in Accounts, NEW b \in Accounts, NEW n \in Nat,
         n <= o.balance[a]
  PROVE  LET h == HarvestAll(HarvestAll(o, a), b)
             u == Transfer(o, a, b, n)
         IN  u \in HoldingType /\ AfterTransfer(h, u, a, b, n)
<1> DEFINE h == HarvestAll(HarvestAll(o, a), b)
           u == Transfer(o, a, b, n)
<1>1. HarvestAll(o, a) \in HoldingType /\ HarvestAll(o, a).balance = o.balance
  BY HarvestAllFields DEF AfterHarvest
<1>2. h \in HoldingType /\ h.balance = o.balance
  BY <1>1, HarvestAllFields DEF AfterHarvest
<1>3. u = [[h EXCEPT !.balance[a] = @ - n] EXCEPT !.balance[b] = @ + n]  BY DEF Transfer
<1> HIDE DEF h, u
<1>4. h.balance[a] - n \in Nat  BY <1>2, HoldingFields
<1>5. [[h.balance EXCEPT ![a] = @ - n] EXCEPT ![b] = @ + n] \in [Accounts -> Nat]
  BY <1>2, <1>4, HoldingFields
<1>6. u \in HoldingType  BY <1>2, <1>3, <1>5 DEF HoldingType
<1>7. AfterTransfer(h, u, a, b, n)  BY <1>2, <1>3 DEF HoldingType, AfterTransfer
<1> QED BY <1>6, <1>7 DEF h, u

----------------------------------------------------------------------------
(* Type correctness.                                                       *)

LEMMA StepTyped == TypeOK /\ [Next]_own => TypeOK'
<1> SUFFICES ASSUME TypeOK, [Next]_own PROVE TypeOK'
  OBVIOUS
<1>1. own \in HoldingType /\ own.assets \in SUBSET Tokens  BY HoldingFields DEF TypeOK
<1>2. ASSUME NEW t \in Tokens, NEW a \in Accounts, Harvest(t, a) PROVE TypeOK'
  BY <1>1, <1>2, HarvestFields DEF Harvest, TypeOK
<1>3. ASSUME NEW a \in Accounts, HarvestEverything(a) PROVE TypeOK'
  BY <1>1, <1>3, HarvestFields DEF HarvestEverything, HarvestAll, TypeOK
<1>4. ASSUME NEW s, NEW t \in Tokens, NEW n \in Nat, Distribute(s, t, n) PROVE TypeOK'
  BY <1>1, <1>4, DistributeFields DEF Distribute, TypeOK
<1>5. ASSUME NEW a \in Accounts, NEW b \in Accounts, NEW n \in Nat, Send(a, b, n) PROVE TypeOK'
  <2>1. own' = Transfer(own, a, b, n) /\ n <= own.balance[a]
    BY <1>1, <1>5, HoldingFields DEF Send, TransferReverts
  <2> QED BY <1>1, <2>1, TransferFields DEF TypeOK
<1>6. CASE UNCHANGED own  BY <1>6 DEF TypeOK
<1> QED BY <1>2, <1>3, <1>4, <1>5, <1>6, OwnershipAssumption DEF Next

LEMMA InitTyped == Init => TypeOK
  BY OwnershipAssumption DEF Init, InitHolding, TypeOK, HoldingType

\* Every field has its type: neither the payments of harvest (lines 66-91) nor
\* the two updates of _update (lines 122-132) take a counter below zero.
THEOREM OwnershipTyped == Spec => []TypeOK
<1> QED BY InitTyped, StepTyped, PTL DEF Spec

----------------------------------------------------------------------------
(* The books: what was paid, what is held and what was distributed.        *)

\* Every whole reward that was distributed is held or paid, and the shares
\* together stand for no more than that.
Conserved(o, paid) ==
    \A t \in Tokens :
        /\ o.acc[t] * Supply <= Precision * o.total[t]
        /\ o.funds[t] + Total(paid[t]) = o.total[t]
        /\ t \notin o.assets => o.total[t] = 0

\* What an account is booked to have had is what it was paid.
Booked(o, paid) ==
    \A t \in Tokens, a \in Accounts :
        /\ o.debt[t][a] = paid[t][a]
        /\ o.debt[t][a] <= OwnerEntitlement(o, t, a)

Spread(o) == Total(o.balance) = Supply

\* The inductive invariant of the token with its history.
BooksInv ==
    /\ TypeOK /\ received \in Ledgers /\ moved \in BOOLEAN
    /\ Spread(own) /\ Conserved(own, received)
    /\ ~moved => Booked(own, received)

\* What is booked as paid is what left the funds, to one account.
LEMMA PaidToFields ==
  ASSUME NEW paid \in Ledgers, NEW o \in HoldingType, NEW p \in HoldingType, NEW a \in Accounts,
         \A t \in Tokens : p.funds[t] <= o.funds[t]
  PROVE  /\ PaidTo(paid, o, p, a) \in Ledgers
         /\ \A t \in Tokens, b \in Accounts :
               PaidTo(paid, o, p, a)[t][b] =
                  IF b = a THEN paid[t][b] + (o.funds[t] - p.funds[t]) ELSE paid[t][b]
<1>1. \A t \in Tokens : o.funds[t] \in Nat /\ p.funds[t] \in Nat /\ o.funds[t] - p.funds[t] \in Nat
  BY HoldingFields
<1> QED BY <1>1 DEF PaidTo, Ledgers

\* A payment moves a reward from the funds to what was paid.
LEMMA PaymentConserves ==
  ASSUME NEW o \in HoldingType, NEW p \in HoldingType, NEW a \in Accounts, NEW paid \in Ledgers,
         p.total = o.total, p.acc = o.acc, p.assets = o.assets,
         \A t \in Tokens : p.funds[t] <= o.funds[t],
         Conserved(o, paid)
  PROVE  Conserved(p, PaidTo(paid, o, p, a))
<1> DEFINE now == PaidTo(paid, o, p, a)
<1>1. /\ now \in Ledgers
      /\ \A t \in Tokens, b \in Accounts :
            now[t][b] = IF b = a THEN paid[t][b] + (o.funds[t] - p.funds[t]) ELSE paid[t][b]
  BY PaidToFields
<1> HIDE DEF now
<1>2. ASSUME NEW t \in Tokens PROVE p.funds[t] + Total(now[t]) = o.funds[t] + Total(paid[t])
  <2>1. /\ now[t] \in [Accounts -> Nat] /\ paid[t] \in [Accounts -> Nat]
        /\ o.funds[t] \in Nat /\ p.funds[t] \in Nat /\ IsFiniteSet(Accounts)
    BY <1>1, HoldingFields, OwnershipAssumption DEF Ledgers
  <2>2. \A b \in Accounts : /\ paid[t][b] \in Int /\ now[t][b] \in Int
                            /\ b # a => now[t][b] = paid[t][b]
    BY <1>1, <2>1
  <2>3. Total(now[t]) + paid[t][a] = Total(paid[t]) + now[t][a]
    BY <2>1, <2>2, SumChange DEF Total
  <2>4. Total(now[t]) \in Int /\ Total(paid[t]) \in Int  BY <2>1, <2>2, SumType DEF Total
  <2>5. now[t][a] = paid[t][a] + (o.funds[t] - p.funds[t])  BY <1>1
  <2> QED BY <2>1, <2>2, <2>3, <2>4, <2>5
<1> QED BY <1>2 DEF Conserved, now

\* Where nothing was distributed nothing is due.
LEMMA NothingDue ==
  ASSUME NEW o \in HoldingType, NEW paid, Conserved(o, paid),
         NEW t \in Tokens, o.total[t] = 0, NEW a \in Accounts
  PROVE  OwnerEntitlement(o, t, a) = 0 /\ PendingReward(o, t, a) = 0
<1>1. o.acc[t] \in Nat /\ o.debt[t][a] \in Nat /\ o.balance[a] \in Nat  BY HoldingFields
<1>2. o.acc[t] = 0
  <2>1. Supply * o.acc[t] <= Supply * 0
    <3>1. o.acc[t] * Supply <= Precision * 0  BY DEF Conserved
    <3>2. Precision * 0 = 0 /\ Supply * 0 = 0 /\ o.acc[t] * Supply = Supply * o.acc[t]
      BY <1>1, OwnershipAssumption
    <3> QED BY <3>1, <3>2
  <2> QED BY <1>1, <2>1, TimesCancel, OwnershipAssumption
<1>3. 0 * o.balance[a] = 0 /\ 0 \div Precision = 0  BY <1>1, OwnershipAssumption
<1>4. OwnerEntitlement(o, t, a) = 0  BY <1>2, <1>3 DEF OwnerEntitlement
<1> QED BY <1>1, <1>4 DEF PendingReward

\* As long as debts are payments, what is held covers what is pending for all.
LEMMA BookedIsCovered ==
  ASSUME NEW o \in HoldingType, NEW paid \in Ledgers, Spread(o), Conserved(o, paid),
         Booked(o, paid), NEW t \in Tokens
  PROVE  LET pending == [a \in Accounts |-> PendingReward(o, t, a)]
         IN  Total(pending) <= o.funds[t] /\ \A a \in Accounts : pending[a] <= o.funds[t]
<1> DEFINE pending == [a \in Accounts |-> PendingReward(o, t, a)]
           part == [a \in Accounts |-> OwnerEntitlement(o, t, a)]
           scaled == [a \in Accounts |-> Precision * part[a]]
           due == [a \in Accounts |-> o.acc[t] * o.balance[a]]
<1>1. /\ IsFiniteSet(Accounts) /\ Precision \in Nat \ {0} /\ Supply \in Nat
      /\ o.acc[t] \in Nat /\ o.total[t] \in Nat /\ o.funds[t] \in Nat
      /\ paid[t] \in [Accounts -> Nat] /\ o.balance \in [Accounts -> Nat]
  BY HoldingFields, OwnershipAssumption DEF Ledgers
<1>2. \A a \in Accounts : /\ part[a] \in Nat /\ due[a] \in Nat /\ scaled[a] \in Nat
                          /\ scaled[a] = Precision * part[a] /\ scaled[a] <= due[a]
                          /\ due[a] = o.acc[t] * o.balance[a]
  BY <1>1, EntitlementBounds, TimesNat
<1>3. \A a \in Accounts : /\ pending[a] \in Nat /\ paid[t][a] \in Nat
                          /\ pending[a] = part[a] + (-1) * paid[t][a]
  <2>1. \A a \in Accounts : /\ o.debt[t][a] = paid[t][a] /\ paid[t][a] \in Nat
                            /\ part[a] \in Nat /\ o.debt[t][a] <= part[a]
    BY <1>1, <1>2 DEF Booked
  <2>2. \A a \in Accounts : pending[a] = part[a] - paid[t][a]
    BY <2>1 DEF PendingReward
  <2> HIDE DEF pending, part
  <2> QED BY <2>1, <2>2
<1> HIDE DEF pending, part, scaled, due
<1>4. Total(pending) = Total(part) + (-1) * Total(paid[t])
  BY <1>1, <1>2, <1>3, SumLinear DEF Total
<1>5. Total(scaled) = Precision * Total(part)  BY <1>1, <1>2, SumScaled DEF Total
<1>6. Total(due) = o.acc[t] * Supply
  <2>1. \A a \in Accounts : o.balance[a] \in Int  BY <1>1
  <2>2. Total(due) = o.acc[t] * Total(o.balance)
    BY <1>1, <1>2, <2>1, SumScaled DEF Total
  <2> QED BY <2>2 DEF Spread
<1>7. Total(scaled) <= Total(due)
  <2>1. \A a \in Accounts : scaled[a] \in Int /\ due[a] \in Int /\ scaled[a] <= due[a]  BY <1>2
  <2> QED BY <1>1, <2>1, SumOrder DEF Total
<1>8. Total(part) \in Nat /\ Total(paid[t]) \in Nat /\ Total(pending) \in Nat
  BY <1>1, <1>2, <1>3, SumType DEF Total
<1>9. Total(part) <= o.total[t]
  <2>1. o.acc[t] * Supply <= Precision * o.total[t]  BY DEF Conserved
  <2>2. Precision * Total(part) <= Precision * o.total[t]
    <3>1. o.acc[t] * Supply \in Nat /\ Precision * o.total[t] \in Nat /\ Precision * Total(part) \in Nat
      BY <1>1, <1>8, TimesNat
    <3> QED BY <1>5, <1>6, <1>7, <2>1, <3>1
  <2> QED BY <1>1, <1>8, <2>2, TimesCancel
<1>10. Total(pending) <= o.funds[t]
  <2>1. o.funds[t] + Total(paid[t]) = o.total[t]  BY DEF Conserved
  <2> QED BY <1>1, <1>4, <1>8, <1>9, <2>1
<1>11. ASSUME NEW a \in Accounts PROVE pending[a] <= o.funds[t]
  <2>1. pending[a] <= Total(pending)  BY <1>1, <1>3, SumCovers DEF Total
  <2> QED BY <1>1, <1>3, <1>8, <1>10, <2>1
<1> QED BY <1>10, <1>11 DEF pending

----------------------------------------------------------------------------
(* The handlers keep the books.                                            *)

LEMMA HarvestKeepsBooks ==
  ASSUME NEW o \in HoldingType, NEW T \in SUBSET Tokens, NEW a \in Accounts,
         NEW paid \in Ledgers, Spread(o), Conserved(o, paid)
  PROVE  LET h == HarvestTokens(o, T, a)
             now == PaidTo(paid, o, h, a)
         IN  /\ h \in HoldingType /\ now \in Ledgers /\ Spread(h) /\ Conserved(h, now)
             /\ Booked(o, paid) => Booked(h, now)
<1> DEFINE h == HarvestTokens(o, T, a)
           now == PaidTo(paid, o, h, a)
<1>1. h \in HoldingType /\ AfterHarvest(o, h, T, a)  BY HarvestFields
<1> HIDE DEF h
<1>2. /\ h.total = o.total /\ h.acc = o.acc /\ h.assets = o.assets /\ h.balance = o.balance
      /\ \A t \in Tokens : h.funds[t] <= o.funds[t]
  BY <1>1, PayoutType, HoldingFields DEF AfterHarvest
<1>3. /\ now \in Ledgers
      /\ \A t \in Tokens, b \in Accounts :
            now[t][b] = IF b = a THEN paid[t][b] + (o.funds[t] - h.funds[t]) ELSE paid[t][b]
  BY <1>1, <1>2, PaidToFields
<1>4. Conserved(h, now)  BY <1>1, <1>2, PaymentConserves
<1> HIDE DEF now
<1>5. ASSUME Booked(o, paid), NEW t \in Tokens, NEW b \in Accounts
      PROVE  h.debt[t][b] = now[t][b] /\ h.debt[t][b] <= OwnerEntitlement(h, t, b)
  <2> DEFINE E == OwnerEntitlement(o, t, b)
  <2>1. OwnerEntitlement(h, t, b) = E  BY <1>2 DEF OwnerEntitlement
  <2>2. /\ o.debt[t][b] = paid[t][b] /\ paid[t][b] <= E /\ E \in Nat /\ paid[t][b] \in Nat
        /\ o.funds[t] \in Nat
    BY <1>5, EntitlementBounds, HoldingFields DEF Booked, Ledgers
  <2>3. CASE t \in T /\ b = a
    <3>1. Payout(o, t, b) = PendingReward(o, t, b) /\ PendingReward(o, t, b) \in Nat
      BY <1>5, BookedIsCovered, PayoutType
    <3>2. PendingReward(o, t, b) = E - paid[t][b]  BY <2>2 DEF PendingReward
    <3>3. h.funds[t] = o.funds[t] - PendingReward(o, t, b) /\ h.debt[t][b] = E
      BY <1>1, <2>3, <3>1 DEF AfterHarvest
    <3> HIDE DEF E
    <3>4. now[t][b] = E  BY <1>3, <2>2, <2>3, <3>1, <3>2, <3>3
    <3> QED BY <2>1, <2>2, <3>3, <3>4
  <2>4. CASE t \in T /\ b # a
    BY <1>1, <1>3, <2>1, <2>2, <2>4 DEF AfterHarvest
  <2>5. CASE t \notin T
    <3>1. h.funds[t] = o.funds[t] /\ h.debt[t][b] = o.debt[t][b]
      BY <1>1, <2>5 DEF AfterHarvest
    <3> HIDE DEF E
    <3> QED BY <1>3, <2>1, <2>2, <3>1
  <2> QED BY <2>3, <2>4, <2>5
<1>6. Spread(h)  BY <1>2 DEF Spread
<1>7. Booked(o, paid) => Booked(h, now)  BY <1>5 DEF Booked
<1> QED BY <1>1, <1>3, <1>4, <1>6, <1>7 DEF h, now

\* A harvest pays what is pending, or all there is.
LEMMA HarvestPays ==
  ASSUME NEW o \in HoldingType, NEW T \in SUBSET Tokens, NEW a \in Accounts,
         NEW paid \in Ledgers, NEW t \in T
  PROVE  LET h == HarvestTokens(o, T, a)
         IN  \/ PaidTo(paid, o, h, a)[t][a] = paid[t][a] + PendingReward(o, t, a)
             \/ h.funds[t] = 0
<1> DEFINE h == HarvestTokens(o, T, a)
           now == PaidTo(paid, o, h, a)
<1>1. h \in HoldingType /\ AfterHarvest(o, h, T, a)  BY HarvestFields
<1>2. h.funds[t] = o.funds[t] - Payout(o, t, a)  BY <1>1 DEF AfterHarvest
<1> HIDE DEF h
<1>3. \A s \in Tokens : h.funds[s] <= o.funds[s]
  BY <1>1, PayoutType, HoldingFields DEF AfterHarvest
<1>4. now[t][a] = paid[t][a] + (o.funds[t] - h.funds[t])  BY <1>1, <1>3, PaidToFields
<1>5. /\ paid[t][a] \in Nat /\ o.funds[t] \in Nat /\ Payout(o, t, a) \in Nat
      /\ Payout(o, t, a) = PendingReward(o, t, a) \/ Payout(o, t, a) = o.funds[t]
  BY HoldingFields, PayoutType DEF Ledgers
<1> HIDE DEF now
<1> QED BY <1>2, <1>4, <1>5 DEF now, h

\* A distribution adds to the shares no more than to the funds.
LEMMA DistributeKeepsBooks ==
  ASSUME NEW o \in HoldingType, NEW k \in Tokens, NEW n \in Nat,
         NEW paid \in Ledgers, Spread(o), Conserved(o, paid)
  PROVE  LET d == DistributeToOwners(o, k, n)
         IN  /\ d \in HoldingType /\ Spread(d) /\ Conserved(d, paid)
             /\ Booked(o, paid) => Booked(d, paid)
<1> DEFINE d == DistributeToOwners(o, k, n)
           g == (n * Precision) \div Supply
<1>1. d \in HoldingType /\ AfterDistribute(o, d, k, n)  BY DistributeFields
<1> HIDE DEF d
<1>2. /\ Supply \in Nat \ {0} /\ Precision \in Nat \ {0} /\ n * Precision \in Nat
      /\ IsFiniteSet(Accounts)
  BY TimesNat, OwnershipAssumption
<1>3. g \in Nat /\ Supply * g <= n * Precision  BY <1>2, DivType, DivBounds
<1>4. ASSUME NEW t \in Tokens
      PROVE  /\ d.acc[t] * Supply <= Precision * d.total[t]
             /\ d.funds[t] + Total(paid[t]) = d.total[t]
             /\ t \notin d.assets => d.total[t] = 0
             /\ o.acc[t] <= d.acc[t]
  <2>1. /\ o.acc[t] \in Nat /\ o.total[t] \in Nat /\ o.funds[t] \in Nat
        /\ paid[t] \in [Accounts -> Nat]
    BY HoldingFields DEF Ledgers
  <2>2. /\ o.acc[t] * Supply <= Precision * o.total[t]
        /\ o.funds[t] + Total(paid[t]) = o.total[t]
        /\ t \notin o.assets => o.total[t] = 0
    BY DEF Conserved
  <2>3. CASE t # k  BY <1>1, <2>1, <2>2, <2>3 DEF AfterDistribute
  <2>4. CASE t = k
    <3>1. /\ d.acc[t] = o.acc[t] + g /\ d.total[t] = o.total[t] + n
          /\ d.funds[t] = o.funds[t] + n /\ t \in d.assets
      BY <1>1, <2>4 DEF AfterDistribute
    <3> HIDE DEF g
    <3>2. (o.acc[t] + g) * Supply = o.acc[t] * Supply + Supply * g  BY <1>2, <1>3, <2>1
    <3>3. Precision * (o.total[t] + n) = Precision * o.total[t] + n * Precision  BY <1>2, <2>1
    <3>4. /\ o.acc[t] * Supply \in Nat /\ Supply * g \in Nat /\ Precision * o.total[t] \in Nat
      BY <1>2, <1>3, <2>1, TimesNat
    <3>5. (o.acc[t] + g) * Supply <= Precision * (o.total[t] + n)
      BY <1>2, <1>3, <2>2, <3>2, <3>3, <3>4
    <3>6. Total(paid[t]) \in Nat  BY <1>2, <2>1, SumType DEF Total
    <3>7. (o.funds[t] + n) + Total(paid[t]) = o.total[t] + n  BY <2>1, <2>2, <3>6
    <3> QED BY <1>3, <2>1, <3>1, <3>5, <3>7
  <2> QED BY <2>3, <2>4
<1>5. d.balance = o.balance /\ d.debt = o.debt  BY <1>1 DEF AfterDistribute
<1>6. ASSUME Booked(o, paid), NEW t \in Tokens, NEW a \in Accounts
      PROVE  d.debt[t][a] = paid[t][a] /\ d.debt[t][a] <= OwnerEntitlement(d, t, a)
  <2>1. /\ o.acc[t] \in Nat /\ d.acc[t] \in Nat /\ o.balance[a] \in Nat /\ o.debt[t][a] \in Nat
    BY <1>1, HoldingFields
  <2>2. o.acc[t] * o.balance[a] <= d.acc[t] * d.balance[a]
    BY <1>4, <1>5, <2>1, TimesMono
  <2>3. OwnerEntitlement(o, t, a) <= OwnerEntitlement(d, t, a)
    BY <1>2, <1>5, <2>1, <2>2, TimesNat, DivMono DEF OwnerEntitlement
  <2>4. OwnerEntitlement(o, t, a) \in Nat /\ OwnerEntitlement(d, t, a) \in Nat
    BY <1>1, EntitlementBounds
  <2>5. o.debt[t][a] = paid[t][a] /\ o.debt[t][a] <= OwnerEntitlement(o, t, a)
    BY <1>6 DEF Booked
  <2> QED BY <1>5, <2>1, <2>3, <2>4, <2>5
<1>7. Conserved(d, paid)  BY <1>4 DEF Conserved
<1>8. Spread(d)  BY <1>5 DEF Spread
<1>9. Booked(o, paid) => Booked(d, paid)  BY <1>6 DEF Booked
<1> QED BY <1>1, <1>7, <1>8, <1>9 DEF d

\* Shares sent are still shares of the supply.
LEMMA SendKeepsSpread ==
  ASSUME NEW f \in [Accounts -> Nat], NEW a \in Accounts, NEW b \in Accounts,
         NEW n \in Nat, n <= f[a]
  PROVE  Total([[f EXCEPT ![a] = @ - n] EXCEPT ![b] = @ + n]) = Total(f)
<1> DEFINE g == [f EXCEPT ![a] = @ - n]
           h == [g EXCEPT ![b] = @ + n]
<1>1. g \in [Accounts -> Nat] /\ g[a] = f[a] - n /\ \A x \in Accounts : x # a => g[x] = f[x]
  OBVIOUS
<1> HIDE DEF g
<1>2. h \in [Accounts -> Nat] /\ h[b] = g[b] + n /\ \A x \in Accounts : x # b => h[x] = g[x]
  BY <1>1
<1> HIDE DEF h
<1>3. \A x \in Accounts : f[x] \in Int /\ g[x] \in Int /\ h[x] \in Int  BY <1>1, <1>2
<1>4. Total(g) + f[a] = Total(f) + g[a]
  BY <1>1, <1>3, SumChange, OwnershipAssumption DEF Total
<1>5. Total(h) + g[b] = Total(g) + h[b]
  BY <1>2, <1>3, SumChange, OwnershipAssumption DEF Total
<1>6. Total(f) \in Int /\ Total(g) \in Int /\ Total(h) \in Int
  BY <1>3, SumType, OwnershipAssumption DEF Total
<1>7. g[a] = f[a] - n /\ h[b] = g[b] + n /\ f[a] \in Int /\ g[b] \in Int
  BY <1>1, <1>2, <1>3
<1>8. Total(g) = Total(f) - n  BY <1>4, <1>6, <1>7
<1>9. Total(h) = Total(g) + n  BY <1>5, <1>6, <1>7
<1>10. Total(h) = Total(f)  BY <1>6, <1>8, <1>9
<1> QED BY <1>10 DEF g, h

\* A transfer keeps the books, and pays both parties before their shares change.
LEMMA TransferKeepsBooks ==
  ASSUME NEW o \in HoldingType, NEW a \in Accounts, NEW b \in Accounts, NEW n \in Nat,
         n <= o.balance[a], NEW paid \in Ledgers, Spread(o), Conserved(o, paid)
  PROVE  LET first == HarvestAll(o, a)
             u == Transfer(o, a, b, n)
             now == PaidTo(PaidTo(paid, o, first, a), first, u, b)
         IN  /\ u \in HoldingType /\ now \in Ledgers /\ Spread(u) /\ Conserved(u, now)
             /\ Booked(o, paid) /\ (\A t \in Tokens : o.total[t] = 0) => Booked(u, now)
             /\ \A t \in Tokens, x \in Accounts : u.balance[x] # o.balance[x] =>
                   now[t][x] = paid[t][x] + PendingReward(o, t, x) \/ u.funds[t] = 0
<1> DEFINE first == HarvestAll(o, a)
           second == HarvestAll(first, b)
           u == Transfer(o, a, b, n)
           then == PaidTo(paid, o, first, a)
           now == PaidTo(then, first, u, b)
<1>1. o.assets \in SUBSET Tokens /\ first = HarvestTokens(o, o.assets, a)
  BY HoldingFields DEF HarvestAll
<1>2. /\ first \in HoldingType /\ AfterHarvest(o, first, o.assets, a)
      /\ then \in Ledgers /\ Spread(first) /\ Conserved(first, then)
      /\ Booked(o, paid) => Booked(first, then)
  BY <1>1, HarvestFields, HarvestKeepsBooks
<1>3. u \in HoldingType /\ AfterTransfer(second, u, a, b, n)  BY TransferFields
<1>4. now = PaidTo(then, first, second, b)
  BY <1>3 DEF PaidTo, AfterTransfer
<1>5. first.assets = o.assets /\ second = HarvestTokens(first, o.assets, b)
  BY <1>2 DEF AfterHarvest, HarvestAll
<1> HIDE DEF first, second, u, then
<1>6. /\ second \in HoldingType /\ AfterHarvest(first, second, o.assets, b)
      /\ now \in Ledgers /\ Spread(second) /\ Conserved(second, now)
      /\ Booked(first, then) => Booked(second, now)
  BY <1>1, <1>2, <1>4, <1>5, HarvestFields, HarvestKeepsBooks
<1>7. Spread(u)
  <2>1. second.balance = o.balance  BY <1>2, <1>6 DEF AfterHarvest
  <2>2. o.balance \in [Accounts -> Nat]  BY HoldingFields
  <2> QED BY <1>3, <2>1, <2>2, SendKeepsSpread DEF AfterTransfer, Spread
<1>8. Conserved(u, now)  BY <1>3, <1>6 DEF AfterTransfer, Conserved
<1> HIDE DEF now
<1>9. ASSUME Booked(o, paid), \A t \in Tokens : o.total[t] = 0, NEW t \in Tokens, NEW x \in Accounts
      PROVE  u.debt[t][x] = now[t][x] /\ u.debt[t][x] <= OwnerEntitlement(u, t, x)
  <2>1. second.total[t] = 0 /\ u.total[t] = 0 /\ u.debt = second.debt
    BY <1>2, <1>3, <1>6, <1>9 DEF AfterHarvest, AfterTransfer
  <2>2. OwnerEntitlement(second, t, x) = 0 /\ OwnerEntitlement(u, t, x) = 0
    BY <1>3, <1>6, <1>8, <2>1, NothingDue
  <2>3. second.debt[t][x] = now[t][x] /\ second.debt[t][x] <= OwnerEntitlement(second, t, x)
    BY <1>2, <1>6, <1>9 DEF Booked
  <2> QED BY <2>1, <2>2, <2>3
<1>10. ASSUME NEW t \in Tokens, NEW x \in Accounts, u.balance[x] # o.balance[x]
       PROVE  now[t][x] = paid[t][x] + PendingReward(o, t, x) \/ u.funds[t] = 0
  <2>1. /\ u.funds = second.funds /\ first.funds \in [Tokens -> Nat]
        /\ second.funds \in [Tokens -> Nat] /\ paid[t][x] \in Nat
    BY <1>2, <1>3, <1>6, HoldingFields DEF AfterTransfer, Ledgers
  <2>2. \A s \in Tokens : first.funds[s] <= o.funds[s] /\ second.funds[s] <= first.funds[s]
    BY <1>2, <1>6, PayoutType, HoldingFields DEF AfterHarvest
  <2>3. /\ \A y \in Accounts : then[t][y] =
              IF y = a THEN paid[t][y] + (o.funds[t] - first.funds[t]) ELSE paid[t][y]
        /\ \A y \in Accounts : now[t][y] =
              IF y = b THEN then[t][y] + (first.funds[t] - second.funds[t]) ELSE then[t][y]
    <3>1. \A y \in Accounts : then[t][y] =
             IF y = a THEN paid[t][y] + (o.funds[t] - first.funds[t]) ELSE paid[t][y]
      BY <1>2, <2>2, PaidToFields DEF then
    <3>2. \A y \in Accounts : now[t][y] =
             IF y = b THEN then[t][y] + (first.funds[t] - second.funds[t]) ELSE then[t][y]
      BY <1>2, <1>4, <1>6, <2>2, PaidToFields
    <3> QED BY <3>1, <3>2
  <2>4. a # b /\ (x = a \/ x = b)
    <3>1. u.balance = [[o.balance EXCEPT ![a] = @ - n] EXCEPT ![b] = @ + n]
      BY <1>2, <1>3, <1>6 DEF AfterHarvest, AfterTransfer
    <3> QED BY <1>10, <3>1, HoldingFields
  <2>5. CASE t \notin o.assets
    <3>1. o.total[t] = 0  BY <2>5 DEF Conserved
    <3>2. PendingReward(o, t, x) = 0  BY <3>1, NothingDue
    <3>3. first.funds[t] = o.funds[t] /\ second.funds[t] = o.funds[t]
      BY <1>2, <1>6, <2>5 DEF AfterHarvest
    <3>4. /\ then[t][a] = paid[t][a] + (o.funds[t] - first.funds[t])
          /\ now[t][b] = then[t][b] + (first.funds[t] - second.funds[t])
      BY <2>3
    <3>5. o.funds[t] \in Nat  BY HoldingFields
    <3> QED BY <2>1, <2>3, <2>4, <3>2, <3>3, <3>4, <3>5
  <2>6. CASE t \in o.assets /\ x = a
    <3>1. then[t][a] = paid[t][a] + PendingReward(o, t, a) \/ first.funds[t] = 0
      BY <1>1, <2>6, HarvestPays DEF then
    <3>2. first.funds[t] = 0 => u.funds[t] = 0  BY <2>1, <2>2
    <3> QED BY <2>3, <2>4, <2>6, <3>1, <3>2
  <2>7. CASE t \in o.assets /\ x = b
    <3>1. PendingReward(first, t, b) = PendingReward(o, t, b)
      BY <1>2, <2>4, <2>7 DEF PendingReward, OwnerEntitlement, AfterHarvest
    <3>2. now[t][b] = then[t][b] + PendingReward(first, t, b) \/ second.funds[t] = 0
      BY <1>1, <1>2, <1>4, <1>5, <2>7, HarvestPays
    <3> QED BY <2>1, <2>3, <2>4, <2>7, <3>1, <3>2
  <2> QED BY <2>4, <2>5, <2>6, <2>7
<1>11. Booked(o, paid) /\ (\A t \in Tokens : o.total[t] = 0) => Booked(u, now)
  BY <1>9 DEF Booked
<1> QED BY <1>3, <1>6, <1>7, <1>8, <1>10, <1>11 DEF first, u, now, then

----------------------------------------------------------------------------
(* The theorems about the token with its history.                          *)

LEMMA InitBooks == HInit => BooksInv
<1> SUFFICES ASSUME HInit PROVE BooksInv
  OBVIOUS
<1>1. own = InitHolding /\ own \in HoldingType /\ TypeOK
  BY InitTyped DEF HInit, Init, TypeOK
<1>2. received \in Ledgers /\ \A t \in Tokens, a \in Accounts : received[t][a] = 0
  BY DEF HInit, Ledgers
<1>3. Spread(own)
  <2> DEFINE f == own.balance
             zero == [a \in Accounts |-> 0]
  <2>1. /\ f[Creator] = Supply /\ \A a \in Accounts : a # Creator => f[a] = 0
        /\ \A a \in Accounts : f[a] \in Int
    BY <1>1, OwnershipAssumption DEF InitHolding
  <2>2. \A a \in Accounts : zero[a] \in Int /\ zero[a] = 0  OBVIOUS
  <2> HIDE DEF f, zero
  <2>3. Total(f) + zero[Creator] = Total(zero) + f[Creator]
    BY <2>1, <2>2, SumChange, OwnershipAssumption DEF Total
  <2>4. Total(zero) = 0  BY <2>2, SumOfZeros, OwnershipAssumption DEF Total
  <2>5. Total(f) \in Int  BY <2>1, SumType, OwnershipAssumption DEF Total
  <2>6. zero[Creator] = 0 /\ f[Creator] \in Int  BY <2>1, <2>2, OwnershipAssumption
  <2> QED BY <2>1, <2>3, <2>4, <2>5, <2>6 DEF Spread, f
<1>4. Conserved(own, received)
  <2> SUFFICES ASSUME NEW t \in Tokens
               PROVE  /\ own.acc[t] * Supply <= Precision * own.total[t]
                      /\ own.funds[t] + Total(received[t]) = own.total[t]
                      /\ t \notin own.assets => own.total[t] = 0
    BY DEF Conserved
  <2>1. own.acc[t] = 0 /\ own.total[t] = 0 /\ own.funds[t] = 0  BY <1>1 DEF InitHolding
  <2>2. Total(received[t]) = 0  BY <1>2, SumOfZeros, OwnershipAssumption DEF Total
  <2>3. 0 * Supply = 0 /\ Precision * 0 = 0  BY OwnershipAssumption
  <2> QED BY <2>1, <2>2, <2>3
<1>5. Booked(own, received)
  <2>1. \A t \in Tokens, a \in Accounts : own.debt[t][a] = 0  BY <1>1 DEF InitHolding
  <2>2. \A t \in Tokens, a \in Accounts : OwnerEntitlement(own, t, a) \in Nat
    BY <1>1, EntitlementBounds
  <2> QED BY <1>2, <2>1, <2>2 DEF Booked
<1> QED BY <1>1, <1>2, <1>3, <1>4, <1>5 DEF BooksInv, HInit

\* What sending shares does to the token and its history.
LEMMA SendFields ==
  ASSUME BooksInv, NEW a \in Accounts, NEW b \in Accounts, NEW n \in Nat, HSend(a, b, n)
  PROVE  /\ own' = Transfer(own, a, b, n) /\ n <= own.balance[a]
         /\ received' = PaidTo(PaidTo(received, own, HarvestAll(own, a), a), HarvestAll(own, a),
                              Transfer(own, a, b, n), b)
         /\ moved' = (moved \/ \E t \in Tokens : own.total[t] > 0)
<1>1. own.balance[a] \in Nat  BY HoldingFields DEF BooksInv, TypeOK
<1> QED BY <1>1 DEF HSend, Send, TransferReverts

LEMMA StepBooks == BooksInv /\ [HNext]_hvars => BooksInv'
<1> SUFFICES ASSUME BooksInv, [HNext]_hvars PROVE BooksInv'
  OBVIOUS
<1>1. /\ own \in HoldingType /\ own.assets \in SUBSET Tokens /\ received \in Ledgers
      /\ Spread(own) /\ Conserved(own, received) /\ moved \in BOOLEAN
      /\ ~moved => Booked(own, received)
  BY HoldingFields DEF BooksInv, TypeOK
<1>2. ASSUME NEW T \in SUBSET Tokens, NEW a \in Accounts, own' = HarvestTokens(own, T, a),
             received' = PaidTo(received, own, own', a), UNCHANGED moved
      PROVE  BooksInv'
  BY <1>1, <1>2, HarvestKeepsBooks DEF BooksInv, TypeOK
<1>3. ASSUME NEW t \in Tokens, NEW a \in Accounts, HHarvest(t, a) PROVE BooksInv'
  BY <1>2, <1>3 DEF HHarvest, Harvest
<1>4. ASSUME NEW a \in Accounts, HHarvestEverything(a) PROVE BooksInv'
  BY <1>1, <1>2, <1>4 DEF HHarvestEverything, HarvestEverything, HarvestAll
<1>5. ASSUME NEW s, NEW t \in Tokens, NEW n \in Nat, HDistribute(s, t, n) PROVE BooksInv'
  BY <1>1, <1>5, DistributeKeepsBooks DEF HDistribute, Distribute, BooksInv, TypeOK
<1>6. ASSUME NEW a \in Accounts, NEW b \in Accounts, NEW n \in Nat, HSend(a, b, n) PROVE BooksInv'
  <2>1. /\ own' = Transfer(own, a, b, n) /\ n <= own.balance[a]
        /\ received' = PaidTo(PaidTo(received, own, HarvestAll(own, a), a), HarvestAll(own, a), own', b)
        /\ moved' = (moved \/ \E t \in Tokens : own.total[t] > 0)
    BY <1>6, SendFields
  <2>2. /\ own' \in HoldingType /\ received' \in Ledgers /\ Spread(own')
        /\ Conserved(own', received')
        /\ Booked(own, received) /\ (\A t \in Tokens : own.total[t] = 0) => Booked(own', received')
    BY <1>1, <2>1, TransferKeepsBooks
  <2>3. ASSUME ~moved' PROVE Booked(own', received')
    <3>1. ~moved /\ \A t \in Tokens : ~(own.total[t] > 0)  BY <2>1, <2>3
    <3>2. \A t \in Tokens : own.total[t] = 0  BY <1>1, <3>1, HoldingFields
    <3> QED BY <1>1, <2>2, <3>1, <3>2
  <2>4. moved' \in BOOLEAN  BY <1>1, <2>1
  <2> QED BY <2>2, <2>3, <2>4 DEF BooksInv, TypeOK
<1>7. CASE UNCHANGED hvars
  BY <1>7 DEF hvars, BooksInv, TypeOK
<1> QED BY <1>3, <1>4, <1>5, <1>6, <1>7, OwnershipAssumption DEF HNext

LEMMA BooksKept == HSpec => []BooksInv
<1> QED BY InitBooks, StepBooks, PTL DEF HSpec

LEMMA FairWhileBooked == BooksInv => FairUntilSharesMove
<1> SUFFICES ASSUME BooksInv, ~moved, NEW t \in Tokens
             PROVE  /\ SumFunction(Pending(t)) <= own.funds[t]
                    /\ \A a \in Accounts :
                          LET due == own.acc[t] * own.balance[a]
                              got == received[t][a] + PendingReward(own, t, a)
                          IN  Precision * got <= due /\ due < Precision * (got + 1)
  BY DEF FairUntilSharesMove
<1>1. /\ own \in HoldingType /\ received \in Ledgers /\ Spread(own)
      /\ Conserved(own, received) /\ Booked(own, received)
  BY DEF BooksInv, TypeOK
<1>2. SumFunction(Pending(t)) <= own.funds[t]
  <2>1. SumFunction(Pending(t)) = Total(Pending(t))  BY DEF SumFunction, Total, Pending
  <2> QED BY <1>1, <2>1, BookedIsCovered DEF Pending
<1>3. ASSUME NEW a \in Accounts
      PROVE  LET due == own.acc[t] * own.balance[a]
                 got == received[t][a] + PendingReward(own, t, a)
             IN  Precision * got <= due /\ due < Precision * (got + 1)
  <2> DEFINE E == OwnerEntitlement(own, t, a)
             due == own.acc[t] * own.balance[a]
             got == received[t][a] + PendingReward(own, t, a)
  <2>1. E \in Nat /\ due \in Nat /\ Precision * E <= due /\ due < Precision * E + Precision
    BY <1>1, EntitlementBounds
  <2>2. own.debt[t][a] = received[t][a] /\ received[t][a] <= E /\ received[t][a] \in Nat
    BY <1>1 DEF Booked, Ledgers
  <2>3. got = E  BY <2>1, <2>2 DEF PendingReward
  <2> HIDE DEF E, due, got
  <2>4. Precision * (E + 1) = Precision * E + Precision  BY <2>1, OwnershipAssumption
  <2> QED BY <2>1, <2>3, <2>4 DEF due, got
<1> QED BY <1>2, <1>3

\* While no shares move after the first reward, harvest (lines 66-91) pays every
\* owner in full, whatever the others do and in whatever order they come:
\* _update's missing debts (lines 50-63 are called nowhere) hurt nobody before.
THEOREM OwnersFairUntilSharesMove == HSpec => []FairUntilSharesMove
<1> QED BY BooksKept, FairWhileBooked, PTL

LEMMA StepSettles ==
  BooksInv /\ [HNext]_hvars =>
    [ \A t \in Tokens, a \in Accounts :
        own'.balance[a] # own.balance[a] =>
            \/ received'[t][a] = received[t][a] + Pending(t)[a]
            \/ own'.funds[t] = 0 ]_hvars
<1> SUFFICES ASSUME BooksInv, HNext, NEW t \in Tokens, NEW a \in Accounts,
                    own'.balance[a] # own.balance[a]
             PROVE  \/ received'[t][a] = received[t][a] + PendingReward(own, t, a)
                    \/ own'.funds[t] = 0
  BY DEF Pending
<1>1. /\ own \in HoldingType /\ own.assets \in SUBSET Tokens /\ received \in Ledgers
      /\ Spread(own) /\ Conserved(own, received)
  BY HoldingFields DEF BooksInv, TypeOK
<1>2. ASSUME NEW k \in Tokens, NEW b \in Accounts, HHarvest(k, b) PROVE FALSE
  <2>1. own' = HarvestTokens(own, {k}, b) /\ {k} \in SUBSET Tokens  BY <1>2 DEF HHarvest, Harvest
  <2>2. AfterHarvest(own, own', {k}, b)  BY <1>1, <2>1, HarvestFields
  <2> QED BY <2>2 DEF AfterHarvest
<1>3. \A b \in Accounts : ~HHarvestEverything(b)
  BY <1>1, HarvestAllFields DEF HHarvestEverything, HarvestEverything, AfterHarvest
<1>4. \A k \in Tokens, n \in Nat : \A s : ~HDistribute(s, k, n)
  BY <1>1, DistributeFields DEF HDistribute, Distribute, AfterDistribute
<1>5. PICK x \in Accounts, y \in Accounts, n \in 0..Supply : HSend(x, y, n)
  BY <1>2, <1>3, <1>4, OwnershipAssumption DEF HNext
<1>6. n \in Nat  BY OwnershipAssumption
<1>7. /\ own' = Transfer(own, x, y, n) /\ n <= own.balance[x]
      /\ received' = PaidTo(PaidTo(received, own, HarvestAll(own, x), x), HarvestAll(own, x), own', y)
  BY <1>5, <1>6, SendFields
<1> QED BY <1>1, <1>6, <1>7, TransferKeepsBooks

\* A transfer pays both parties what was pending before the shares change hands
\* (lines 122-132), unless that takes the last of the funds; harvesting for the
\* sender first takes nothing from what is pending for the receiver.
THEOREM TransfersSettleFirst == HSpec => TransferSettlesFirst
<1> QED BY BooksKept, StepSettles, PTL DEF HSpec, TransferSettlesFirst
=============================================================================
