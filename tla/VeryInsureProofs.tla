--------------------------- MODULE VeryInsureProofs ---------------------------
(***************************************************************************)
(* What holds of the registrar, the claims and the disputes for every      *)
(* number of names, proxies, operators, prices and terms.                  *)
(*                                                                         *)
(* The system implements the vault, so what InsurancePoolProofs shows of   *)
(* the vault holds of the system.  The rest follows from one inductive     *)
(* invariant that says where each request and each claim stands with its   *)
(* dispute, marked or with a call under way that is to mark it.            *)
(*                                                                         *)
(* Two refinements close it: the contracts implement InsuranceLifecycle,   *)
(* and what they have in place of a proxy is Arbitration.                  *)
(***************************************************************************)
EXTENDS VeryInsure, InsurancePoolProofs, SequenceTheorems

(* The inductive invariant.                                                *)

Approvers == Proxies \cup Operators

Requests ==
    [pool : {"this", "other"}, price : Prices \cup {0}, expiration : Terms \cup {MaxTime + 1},
     approver : Approvers \cup {"elsewhere"}, dispute : Nat, approvedAt : {0}]

Filings == [amount : Amounts, approver : Approvers, dispute : Nat, approvedAt : {0}]

\* Every variable around the vault has its type.
RegistryType ==
    /\ trusted \subseteq Proxies
    /\ insurances \in [Nodes -> {NoInsurance} \cup Requests]
    /\ sold \subseteq Approvers \X Nat
    /\ income \in [owners : Nat, factory : Nat]
    /\ premiums \in [Nodes -> Seq(Nat)]
    /\ signed \subseteq PurchaseStatements \cup ClaimStatements

ClaimType ==
    /\ claims \in [Nodes -> Seq(Filings)]
    /\ \A n \in Nodes : Len(claims[n]) <= MaxClaims
    /\ settled \subseteq Approvers \X Nat
    /\ disputes \in [Proxies -> Seq(Rulings \cup {Unruled})]
    /\ payments \in [Nodes -> [ClaimIds -> Nat]]

\* The finalizations that have not returned.  With an asset that calls nobody
\* there is one at most.
CallsType ==
    /\ underway \in Seq(Calls)
    /\ ~Notifies => Len(underway) <= 1

OpenCalls == ToSet(underway)

\* The dispute has been created.
Numbered(x) == x[2] \in 1..Len(disputes[x[1]])

\* Each has a dispute of its own.
OwnDisputes ==
    /\ \A n \in Nodes : Asked(n) => Numbered(Asking(n))
    /\ \A n \in Nodes, id \in ClaimIds : Filed(n, id) => Numbered(Filing(n, id))
    /\ RequestsHaveTheirOwnDispute

\* What a contract has acted on, or is acting on, is a ruling for the request.
Acted == sold \cup settled \cup {call.dispute : call \in OpenCalls}

RuledFor ==
    \A p \in Proxies, d \in Nat :
        <<p, d>> \in Acted => d \in 1..Len(disputes[p]) /\ disputes[p][d] = 1

\* The dispute is marked in the table, or there is a call that is to mark it.
MarkedSold(x) == x \in sold \/ \E call \in OpenCalls : call.next = "sold" /\ call.dispute = x

MarkedSettled(x) ==
    x \in settled \/ \E call \in OpenCalls : call.next = "settled" /\ call.dispute = x

\* When a premium was collected, the dispute of its request is marked or about
\* to be; so is the dispute of a claim that was paid.
BoughtOnce ==
    \A n \in Nodes : premiums[n] # << >> =>
        /\ insurances[n].pool = "this"
        /\ ~Notifies => Len(premiums[n]) = 1
        /\ Asked(n) => MarkedSold(Asking(n))

PaidOnce ==
    \A n \in Nodes, id \in ClaimIds : payments[n][id] # 0 =>
        /\ id \in 1..Len(claims[n])
        /\ ~Notifies => payments[n][id] = 1
        /\ Filed(n, id) => MarkedSettled(Filing(n, id))

\* A call that is under way is that of a request or of a claim, and one that is
\* to mark has collected or paid.
CallsOpen ==
    \A call \in OpenCalls :
        /\ call.next \in {"collect", "sold"} =>
              /\ Asked(call.node) /\ insurances[call.node].pool = "this"
              /\ call.dispute = Asking(call.node)
        /\ call.next = "collect" /\ ~Notifies => premiums[call.node] = << >>
        /\ call.next = "sold" => premiums[call.node] # << >>
        /\ call.next = "settled" =>
              \E id \in ClaimIds : /\ Filed(call.node, id) /\ call.dispute = Filing(call.node, id)
                                   /\ payments[call.node][id] # 0

\* What is marked has been collected or paid.
MarkedWasDone ==
    /\ \A n \in Nodes : Asked(n) /\ Asking(n) \in sold => premiums[n] # << >>
    /\ \A n \in Nodes, id \in ClaimIds :
          Filed(n, id) /\ Filing(n, id) \in settled => payments[n][id] # 0

VaultBounded == VaultInv /\ held <= MaxHeld

RequestsInv ==
    /\ RegistryType /\ ClaimType
    /\ OwnDisputes /\ RuledFor /\ BoughtOnce /\ PaidOnce
    /\ CallsType /\ CallsOpen /\ MarkedWasDone

SystemInv == VaultBounded /\ RequestsInv

----------------------------------------------------------------------------
(* The system's steps are steps of the vault.                              *)

\* What the pool holds stays within the bound on it.
LEMMA HeldBounded == ASSUME VaultBounded, [Next]_vars PROVE VaultBounded'
<1>1. VaultInv' /\ Priced  BY VaultNext DEF VaultBounded
<1>2. held \in Nat /\ held <= MaxHeld /\ MaxHeld \in Nat  BY PoolAssumption DEF VaultBounded, VaultInv
<1>3. held' <= held => held' <= MaxHeld
  <2> DEFINE h == held'
  <2>1. h \in Nat  BY <1>1 DEF VaultInv
  <2> HIDE DEF h
  <2>2. h <= held => h <= MaxHeld  BY <1>2, <2>1
  <2> QED BY <2>2 DEF h
<1>4. ASSUME Investor PROVE held' <= MaxHeld
  <2>1. PICK a \in Accounts, b \in Accounts :
          \/ \E n \in 0..MaxShares : Deposit(a, n)
          \/ \E n \in 0..MaxHeld : Withdraw(a, b, n)
          \/ \E n \in 0..MaxShares : Redeem(a, b, n)
          \/ \E n \in 0..MaxAllowance : Approve(a, b, n)
          \/ \E c \in Accounts, n \in 0..MaxShares : Transfer(c, a, b, n)
    BY <1>4 DEF Investor
  <2>2. ASSUME NEW n \in 0..MaxShares, Deposit(a, n) PROVE held' <= MaxHeld
    BY <2>2 DEF Deposit
  <2>3. ASSUME NEW n \in 0..MaxHeld, Withdraw(a, b, n) PROVE held' <= held
    BY <1>2, <2>3 DEF Withdraw, PayOut
  <2>4. ASSUME NEW n \in 0..MaxShares, Redeem(a, b, n) PROVE held' <= held
    <3> DEFINE v == PreviewRedeem(n, totalSupply, held)
    <3>1. v \in Nat
      <4>1. n \in Nat /\ totalSupply \in Nat  BY DEF VaultBounded, VaultInv, SharesInv
      <4> QED BY <1>2, <4>1, RedeemIsFair
    <3>2. held' = held - v /\ v <= held  BY <2>4 DEF Redeem, PayOut
    <3> HIDE DEF v
    <3> QED BY <1>2, <3>1, <3>2
  <2>5. ASSUME NEW n \in 0..MaxAllowance, Approve(a, b, n) PROVE held' <= held
    BY <1>2, <2>5 DEF Approve
  <2>6. ASSUME NEW c \in Accounts, NEW n \in 0..MaxShares, Transfer(c, a, b, n)
        PROVE  held' <= held
    BY <1>2, <2>6 DEF Transfer
  <2> QED BY <1>3, <2>1, <2>2, <2>3, <2>4, <2>5, <2>6
<1>5. ASSUME Rewards PROVE held' <= held
  BY <1>2, <1>5 DEF Rewards, HarvestReward, Reward
<1>6. ASSUME NEW n \in 0..MaxHeld, Distribute(n) PROVE held' <= MaxHeld
  <2> DEFINE i == Instant(n)
             taken == IF chef.totalShares > 0 THEN i ELSE 0
  <2>1. n \in Nat /\ i \in Nat /\ i <= n  BY InstantPart
  <2>2. held' = held + n - taken /\ held + n <= MaxHeld  BY <1>6 DEF Distribute
  <2> HIDE DEF i
  <2>3. taken \in Nat /\ taken <= n  BY <2>1
  <2> HIDE DEF taken
  <2> QED BY <1>2, <2>1, <2>2, <2>3
<1>7. ASSUME NEW n \in 0..MaxHeld, PayClaim(n) PROVE held' <= held
  BY <1>2, <1>7 DEF PayClaim
<1>8. ASSUME NEW n \in 0..MaxHeld, Donate(n) PROVE held' <= MaxHeld
  BY <1>8 DEF Donate
<1>9. ASSUME Conclude \/ Tick \/ UNCHANGED vars PROVE held' <= held
  BY <1>2, <1>9 DEF Conclude, Tick, vars
<1>10. held' <= MaxHeld
  BY <1>3, <1>4, <1>5, <1>6, <1>7, <1>8, <1>9 DEF Next
<1> QED BY <1>1, <1>10 DEF VaultBounded

\* The shares of a premium are numbers.
LEMMA SharesOfPremium ==
  ASSUME NEW price \in Nat
  PROVE  /\ Share(price, OwnerShare) \in Nat /\ Share(price, FactoryFee) \in Nat
  BY PoolAssumption, VeryInsureAssumption, RoundsDown DEF Share, MulDivDown

\* A premium is distributed, and a claim is paid, in an amount the vault knows.
LEMMA PremiumIsDistributed ==
  ASSUME VaultBounded, NEW n, NEW i, i.price \in Nat, Buy(n, i)
  PROVE  \E k \in 0..MaxHeld : Distribute(k)
<1> DEFINE o == Share(i.price, OwnerShare)
           f == Share(i.price, FactoryFee)
           k == i.price - o - f
<1>1. o \in Nat /\ f \in Nat  BY SharesOfPremium
<1>2. o + f <= i.price /\ Distribute(k)  BY DEF Buy
<1>3. held + k <= MaxHeld  BY <1>2 DEF Distribute
<1>4. held \in Nat /\ MaxHeld \in Nat  BY PoolAssumption DEF VaultBounded, VaultInv
<1> HIDE DEF o, f
<1>5. k \in Nat  BY <1>1, <1>2
<1> HIDE DEF k
<1>6. k \in 0..MaxHeld  BY <1>3, <1>4, <1>5
<1> QED BY <1>2, <1>6

LEMMA ClaimIsPaid ==
  ASSUME VaultBounded, NEW k \in Amounts, PayClaim(k)
  PROVE  k \in 0..MaxHeld
<1>1. held \in Nat /\ MaxHeld \in Nat /\ held <= MaxHeld /\ k \in Nat
  BY PoolAssumption, VeryInsureAssumption DEF VaultBounded, VaultInv
<1>2. k <= held  BY DEF PayClaim
<1> QED BY <1>1, <1>2

\* An insurance that was asked for has the fields of one.
LEMMA Requested ==
  ASSUME RegistryType, NEW n \in Nodes, Insured(n)
  PROVE  insurances[n] \in Requests /\ insurances[n].price \in Nat
<1>1. insurances[n] \in {NoInsurance} \cup Requests  BY DEF RegistryType
<1>2. insurances[n] # NoInsurance  BY DEF Insured, NoInsurance
<1>3. insurances[n].price \in Prices \cup {0}  BY <1>1, <1>2 DEF Requests
<1>4. Prices \cup {0} \subseteq Nat  BY VeryInsureAssumption
<1>5. insurances[n].price \in Nat  BY <1>3, <1>4, Zenon
<1>6. insurances[n] \in Requests BY <1>1, <1>2
<1> QED BY <1>5, <1>6

\* The call that goes on is one of those under way.
LEMMA Popped ==
  ASSUME CallsType, underway # << >>
  PROVE  /\ Head(underway) \in Calls /\ Head(underway) \in OpenCalls
         /\ Tail(underway) \in Seq(Calls) /\ Len(Tail(underway)) = Len(underway) - 1
         /\ OpenCalls = ToSet(Tail(underway)) \cup {Head(underway)}
<1> DEFINE q == underway
           r == Tail(q)
<1>1. q \in Seq(Calls) /\ q # << >>  BY DEF CallsType
<1> HIDE DEF q
<1>2. /\ Head(q) \in Calls /\ r \in Seq(Calls) /\ Len(r) = Len(q) - 1
      /\ \A i \in 1..Len(r) : r[i] = q[i + 1]
  BY <1>1, HeadTailProperties
<1> HIDE DEF r
<1>3. /\ Len(q) \in Nat \ {0} /\ Head(q) = q[1]
      /\ DOMAIN q = 1..Len(q) /\ DOMAIN r = 1..Len(r)
  BY <1>1, <1>2, EmptySeq, LenProperties
<1>4. ToSet(q) = ToSet(r) \cup {Head(q)}
  <2>1. ASSUME NEW i \in 1..Len(q), i # 1 PROVE \E j \in 1..Len(r) : r[j] = q[i]
    <3>1. i - 1 \in 1..Len(r) /\ (i - 1) + 1 = i  BY <1>2, <1>3, <2>1
    <3> QED BY <1>2, <3>1
  <2>2. \A j \in 1..Len(r) : \E i \in 1..Len(q) : q[i] = r[j]
    <3> TAKE j \in 1..Len(r)
    <3>1. j + 1 \in 1..Len(q)  BY <1>2, <1>3
    <3> QED BY <1>2, <3>1
  <2>3. 1 \in 1..Len(q)  BY <1>3
  <2>4. /\ ToSet(q) = {q[i] : i \in 1..Len(q)} /\ ToSet(r) = {r[j] : j \in 1..Len(r)}
    BY <1>3 DEF ToSet
  <2>5. ASSUME NEW i \in 1..Len(q) PROVE q[i] \in ToSet(r) \cup {Head(q)}
    <3>1. CASE i = 1  BY <1>3, <3>1
    <3>2. CASE i # 1  BY <2>1, <2>4, <3>2
    <3> QED BY <3>1, <3>2
  <2>6. ToSet(r) \cup {Head(q)} \subseteq ToSet(q)  BY <1>3, <2>2, <2>3, <2>4, Zenon
  <2> QED BY <2>4, <2>5, <2>6
<1> QED BY <1>2, <1>4 DEF OpenCalls, q, r

\* One that begins is added to them.
LEMMA Pushed ==
  ASSUME NEW q \in Seq(Calls), NEW call \in Calls
  PROVE  /\ <<call>> \o q \in Seq(Calls) /\ Len(<<call>> \o q) = Len(q) + 1
         /\ ToSet(<<call>> \o q) = ToSet(q) \cup {call}
<1> DEFINE c == <<call>>
           r == c \o q
<1>1. c \in Seq(Calls) /\ Len(c) = 1 /\ c[1] = call  OBVIOUS
<1> HIDE DEF c
<1>2. /\ r \in Seq(Calls) /\ Len(r) = Len(c) + Len(q)
      /\ \A i \in 1..(Len(c) + Len(q)) : r[i] = IF i <= Len(c) THEN c[i] ELSE q[i - Len(c)]
  BY <1>1, ConcatProperties
<1> HIDE DEF r
<1>3. /\ Len(q) \in Nat /\ DOMAIN q = 1..Len(q) /\ DOMAIN r = 1..Len(r)
  BY <1>2, LenProperties
<1>4. ToSet(r) = ToSet(q) \cup {call}
  <2>1. 1 \in 1..Len(r) /\ r[1] = call  BY <1>1, <1>2, <1>3
  <2>2. \A i \in 1..Len(q) : i + 1 \in 1..Len(r) /\ r[i + 1] = q[i]
    BY <1>1, <1>2, <1>3
  <2>3. \A i \in 1..Len(r) : i # 1 => i - 1 \in 1..Len(q) /\ r[i] = q[i - 1]
    BY <1>1, <1>2, <1>3
  <2>4. /\ ToSet(q) = {q[i] : i \in 1..Len(q)} /\ ToSet(r) = {r[j] : j \in 1..Len(r)}
    BY <1>3 DEF ToSet
  <2>5. ASSUME NEW i \in 1..Len(r) PROVE r[i] \in ToSet(q) \cup {call}
    <3>1. CASE i = 1  BY <2>1, <3>1
    <3>2. CASE i # 1  BY <2>3, <2>4, <3>2
    <3> QED BY <3>1, <3>2
  <2>6. ToSet(q) \cup {call} \subseteq ToSet(r)  BY <2>1, <2>2, <2>4, Zenon
  <2> QED BY <2>4, <2>5, <2>6
<1> QED BY <1>1, <1>2, <1>4 DEF c, r

\* A premium is collected for a request.
LEMMA CollectsForRequest ==
  ASSUME RegistryType, CallsType, CallsOpen, CollectPremium
  PROVE  LET n == Head(underway).node
         IN  /\ n \in Nodes /\ Asked(n) /\ insurances[n].pool = "this"
             /\ insurances[n].price \in Nat /\ Head(underway).dispute = Asking(n)
             /\ ~Notifies => premiums[n] = << >>
<1> DEFINE call == Head(underway)
<1>1. call \in Calls /\ call \in OpenCalls  BY Popped DEF CollectPremium
<1>2. call.next = "collect"  BY DEF CollectPremium
<1>3. call.node \in Nodes  BY <1>1 DEF Calls
<1>4. /\ Asked(call.node) /\ insurances[call.node].pool = "this"
      /\ call.dispute = Asking(call.node)
      /\ ~Notifies => premiums[call.node] = << >>
  BY <1>1, <1>2 DEF CallsOpen
<1>5. insurances[call.node].price \in Nat  BY <1>3, <1>4, Requested DEF Insured
<1> QED BY <1>3, <1>4, <1>5

\* Each action of the system, as far as the vault is concerned.
LEMMA SystemStepsVault ==
  ASSUME VaultBounded, RegistryType, ClaimType, CallsType, CallsOpen, [SystemNext]_allVars
  PROVE  [Next]_vars
<1>1. ASSUME VaultStep PROVE Next
  BY <1>1 DEF VaultStep, Next
<1>2. ASSUME Purchase PROVE [Next]_vars
  <2>1. ASSUME NEW p \in Proxies, NEW trust \in BOOLEAN, SetTrustedArbitrableProxy(p, trust)
        PROVE  UNCHANGED vars
    BY <2>1 DEF SetTrustedArbitrableProxy, vault
  <2>2. ASSUME NEW n \in Nodes, NEW price \in Prices, NEW term \in Terms, NEW p \in Proxies,
               BuyInsuranceWithArbitration(n, price, term, p)
        PROVE  UNCHANGED vars
    BY <2>2 DEF BuyInsuranceWithArbitration, vault
  <2>3. ASSUME NEW n \in Nodes, BuyInsuranceFinalize(n) PROVE UNCHANGED vars
    BY <2>3 DEF BuyInsuranceFinalize, vault
  <2>4. ASSUME NEW s \in signed, s.kind = "purchase", BuyInsuranceWithSignature(s) PROVE Next
    <3>1. s \in PurchaseStatements
      BY <2>4 DEF RegistryType, ClaimStatements
    <3>2. Buy(s.node, Insurance(s.price, s.term, s.operator, s.nonce))
      BY <2>4 DEF BuyInsuranceWithSignature
    <3>3. Insurance(s.price, s.term, s.operator, s.nonce).price \in Nat
      BY <3>1, VeryInsureAssumption DEF Insurance, PurchaseStatements
    <3> QED BY <3>2, <3>3, PremiumIsDistributed DEF Next
  <2> QED BY <1>2, <2>1, <2>2, <2>3, <2>4 DEF Purchase
<1>3. ASSUME Claiming PROVE [Next]_vars
  <2>1. ASSUME NEW n \in Nodes, NEW amount \in Amounts, NEW p \in Proxies,
               ClaimWithArbitration(n, amount, p)
        PROVE  UNCHANGED vars
    BY <2>1 DEF ClaimWithArbitration, vault
  <2>2. ASSUME NEW n \in Nodes, NEW id \in ClaimIds, ClaimFinalize(n, id) PROVE Next
    <3>1. id \in DOMAIN claims[n] /\ PayClaim(claims[n][id].amount)
      BY <2>2 DEF ClaimFinalize, Pay
    <3>2. claims[n] \in Seq(Filings)  BY DEF ClaimType
    <3>3. claims[n][id] \in Filings  BY <3>1, <3>2
    <3>4. claims[n][id].amount \in Amounts  BY <3>3 DEF Filings
    <3> QED BY <3>1, <3>4, ClaimIsPaid DEF Next
  <2>3. ASSUME NEW s \in signed, s.kind = "claim", ClaimWithSignature(s) PROVE Next
    <3>1. s \in ClaimStatements  BY <2>3 DEF RegistryType, PurchaseStatements
    <3>2. PayClaim(s.amount)  BY <2>3 DEF ClaimWithSignature, Pay
    <3>3. s.amount \in Amounts  BY <3>1 DEF ClaimStatements
    <3> QED BY <3>2, <3>3, ClaimIsPaid DEF Next
  <2> QED BY <1>3, <2>1, <2>2, <2>3 DEF Claiming
<1>4. ASSUME Approval PROVE UNCHANGED vars
  BY <1>4 DEF Approval, Rule, Sign, vault
<1>5. ASSUME CollectPremium PROVE Next
  <2> DEFINE n == Head(underway).node
  <2>1. Buy(n, insurances[n])  BY <1>5 DEF CollectPremium
  <2>2. insurances[n].price \in Nat  BY <1>5, CollectsForRequest
  <2> QED BY <2>1, <2>2, PremiumIsDistributed DEF Next
<1>6. ASSUME UNCHANGED allVars \/ CollectionReverts \/ MarkDisputeExecuted PROVE UNCHANGED vars
  BY <1>6 DEF allVars, CollectionReverts, MarkDisputeExecuted, vault
<1> QED BY <1>1, <1>2, <1>3, <1>4, <1>5, <1>6 DEF SystemNext

----------------------------------------------------------------------------
(* Disputes and rulings.                                                   *)

\* Disputes are added, and those that are ruled keep their ruling.
Extended ==
    \A q \in Proxies : \A d \in 1..Len(disputes[q]) :
        /\ d \in 1..Len(disputes'[q])
        /\ disputes[q][d] # Unruled => disputes'[q][d] = disputes[q][d]

DisputesType == disputes \in [Proxies -> Seq(Rulings \cup {Unruled})]

\* A new dispute gets a number no dispute of its proxy has.
LEMMA CreatedIsNew ==
  ASSUME DisputesType, RegistryType, NEW p \in Proxies, DisputeCreated(p)
  PROVE  /\ DisputesType' /\ Extended
         /\ NextDispute(p) \in Nat
         /\ NextDispute(p) \notin 1..Len(disputes[p])
         /\ NextDispute(p) \in 1..Len(disputes'[p])
<1> DEFINE R == Rulings \cup {Unruled}
           more == Append(disputes[p], Unruled)
<1>1. disputes[p] \in Seq(R) /\ Unruled \in R  BY DEF DisputesType
<1> HIDE DEF R
<1>2. /\ more \in Seq(R) /\ Len(more) = Len(disputes[p]) + 1
      /\ \A i \in 1..Len(disputes[p]) : more[i] = disputes[p][i]
  BY <1>1, AppendProperties
<1>3. Len(disputes[p]) \in Nat  BY <1>1, LenProperties
<1>4. disputes \in [Proxies -> Seq(R)]  BY DEF DisputesType, R
<1>5. disputes' = [disputes EXCEPT ![p] = more]  BY DEF DisputeCreated
<1> HIDE DEF more
<1>6. disputes' \in [Proxies -> Seq(R)] /\ disputes'[p] = more  BY <1>2, <1>4, <1>5
<1>7. ASSUME NEW q \in Proxies, NEW d \in 1..Len(disputes[q])
      PROVE  d \in 1..Len(disputes'[q]) /\ disputes'[q][d] = disputes[q][d]
  <2>1. CASE q = p  BY <1>2, <1>3, <1>6, <1>7, <2>1
  <2>2. CASE q # p  BY <1>4, <1>5, <1>7, <2>2
  <2> QED BY <2>1, <2>2
<1>8. /\ NextDispute(p) \in Nat /\ NextDispute(p) \notin 1..Len(disputes[p])
      /\ NextDispute(p) \in 1..Len(disputes'[p])
  BY <1>2, <1>3, <1>6 DEF NextDispute
<1> QED BY <1>6, <1>7, <1>8 DEF DisputesType, Extended, R

\* A ruling is given once.
LEMMA RuledOnce ==
  ASSUME DisputesType, NEW p \in Proxies, NEW d \in DOMAIN disputes[p], NEW r \in Rulings,
         Rule(p, d, r)
  PROVE  DisputesType' /\ Extended
<1> DEFINE R == Rulings \cup {Unruled}
           ruled == [disputes[p] EXCEPT ![d] = r]
<1>1. disputes[p] \in Seq(R) /\ r \in R  BY DEF DisputesType
<1> HIDE DEF R
<1>2. d \in 1..Len(disputes[p])  BY <1>1, LenProperties
<1>3. /\ ruled \in Seq(R) /\ Len(ruled) = Len(disputes[p])
      /\ \A j \in 1..Len(disputes[p]) : ruled[j] = IF j = d THEN r ELSE disputes[p][j]
  BY <1>1, <1>2, ExceptSeq
<1>4. disputes \in [Proxies -> Seq(R)]  BY DEF DisputesType, R
<1>5. disputes' = [disputes EXCEPT ![p] = ruled] /\ disputes[p][d] = Unruled  BY DEF Rule
<1> HIDE DEF ruled
<1>6. disputes' \in [Proxies -> Seq(R)] /\ disputes'[p] = ruled  BY <1>3, <1>4, <1>5
<1>7. ASSUME NEW q \in Proxies, NEW e \in 1..Len(disputes[q])
      PROVE  /\ e \in 1..Len(disputes'[q])
             /\ disputes[q][e] # Unruled => disputes'[q][e] = disputes[q][e]
  <2>1. CASE q = p  BY <1>3, <1>5, <1>6, <1>7, <2>1
  <2>2. CASE q # p  BY <1>4, <1>5, <1>7, <2>2
  <2> QED BY <2>1, <2>2
<1> QED BY <1>6, <1>7 DEF DisputesType, Extended, R

\* What was acted on stays ruled for, and so does what is acted on now.
LEMMA RuledStays ==
  ASSUME RuledFor, Extended,
         \A p \in Proxies, d \in Nat :
            <<p, d>> \in Acted' =>
              \/ <<p, d>> \in Acted
              \/ d \in 1..Len(disputes'[p]) /\ disputes'[p][d] = 1
  PROVE  RuledFor'
<1> SUFFICES ASSUME NEW p \in Proxies, NEW d \in Nat, <<p, d>> \in Acted'
             PROVE  d \in 1..Len(disputes'[p]) /\ disputes'[p][d] = 1
  BY DEF RuledFor
<1>1. CASE <<p, d>> \in Acted
  <2>1. d \in 1..Len(disputes[p]) /\ disputes[p][d] = 1  BY <1>1 DEF RuledFor
  <2> QED BY <2>1 DEF Extended, Unruled
<1> QED BY <1>1

\* A dispute that has a number keeps it.
LEMMA NumberedStays ==
  ASSUME Extended, NEW p \in Proxies, NEW d, d \in 1..Len(disputes[p])
  PROVE  d \in 1..Len(disputes'[p])
  BY DEF Extended

\* A dispute that was created in this step.
Created(x) ==
    /\ x[1] \in Proxies
    /\ x[2] \notin 1..Len(disputes[x[1]]) /\ x[2] \in 1..Len(disputes'[x[1]])

\* One more request, with a dispute that is new or none at all, leaves each
\* request and each claim with a dispute of its own.
LEMMA OwnWithRequest ==
  ASSUME OwnDisputes, Extended, UNCHANGED claims, NEW a \in Nodes,
         \A n \in Nodes : Asked(n)' =>
            \/ Asked(n) /\ Asking(n)' = Asking(n)
            \/ n = a /\ Created(Asking(n)')
  PROVE  OwnDisputes'
<1>1. ASSUME NEW n \in Nodes, Asked(n) PROVE Numbered(Asking(n)) /\ Asking(n)[1] \in Proxies
  BY <1>1 DEF OwnDisputes, RequestsHaveTheirOwnDispute, Asked, Insured, Asking
<1>2. ASSUME NEW n \in Nodes, NEW i \in ClaimIds, Filed(n, i)
      PROVE  Numbered(Filing(n, i)) /\ Filing(n, i)[1] \in Proxies
  BY <1>2 DEF OwnDisputes, RequestsHaveTheirOwnDispute, Filed, Filing
<1>3. ASSUME NEW n \in Nodes, NEW i \in ClaimIds
      PROVE  (Filed(n, i)' <=> Filed(n, i)) /\ Filing(n, i)' = Filing(n, i)
  BY DEF Filed, Filing
<1>4. ASSUME NEW n \in Nodes, Asked(n)' PROVE Numbered(Asking(n))'
  <2>1. CASE Asked(n) /\ Asking(n)' = Asking(n)
    BY <1>1, <2>1, NumberedStays DEF Numbered
  <2>2. CASE Created(Asking(n)')  BY <2>2 DEF Created, Numbered
  <2> QED BY <1>4, <2>1, <2>2
<1>5. ASSUME NEW n \in Nodes, NEW i \in ClaimIds, Filed(n, i)' PROVE Numbered(Filing(n, i))'
  BY <1>2, <1>3, <1>5, NumberedStays DEF Numbered
<1>6. ASSUME NEW m \in Nodes, NEW n \in Nodes, Asked(m)', Asked(n)', Asking(m)' = Asking(n)'
      PROVE  m = n
  <2>1. CASE Asked(m) /\ Asking(m)' = Asking(m) /\ Asked(n) /\ Asking(n)' = Asking(n)
    BY <1>6, <2>1 DEF OwnDisputes, RequestsHaveTheirOwnDispute
  <2>2. CASE Created(Asking(m)') /\ Asked(n) /\ Asking(n)' = Asking(n)
    BY <1>1, <1>6, <2>2 DEF Created, Numbered
  <2>3. CASE Created(Asking(n)') /\ Asked(m) /\ Asking(m)' = Asking(m)
    BY <1>1, <1>6, <2>3 DEF Created, Numbered
  <2> QED BY <1>6, <2>1, <2>2, <2>3
<1>7. ASSUME NEW m \in Nodes, NEW n \in Nodes, NEW i \in ClaimIds, Asked(m)', Filed(n, i)'
      PROVE  Asking(m)' # Filing(n, i)'
  <2>1. CASE Asked(m) /\ Asking(m)' = Asking(m)
    BY <1>3, <1>7, <2>1 DEF OwnDisputes, RequestsHaveTheirOwnDispute
  <2>2. CASE Created(Asking(m)')
    BY <1>2, <1>3, <1>7, <2>2 DEF Created, Numbered
  <2> QED BY <1>7, <2>1, <2>2
<1>8. \A m, n \in Nodes, i, j \in ClaimIds :
        Filed(m, i)' /\ Filed(n, j)' /\ Filing(m, i)' = Filing(n, j)' => m = n /\ i = j
  BY <1>3 DEF OwnDisputes, RequestsHaveTheirOwnDispute
<1> QED BY <1>4, <1>5, <1>6, <1>7, <1>8 DEF OwnDisputes, RequestsHaveTheirOwnDispute

\* The same with one more claim.
LEMMA OwnWithClaim ==
  ASSUME OwnDisputes, Extended, UNCHANGED insurances, NEW a \in Nodes, NEW k,
         \A n \in Nodes, i \in ClaimIds : Filed(n, i)' =>
            \/ Filed(n, i) /\ Filing(n, i)' = Filing(n, i)
            \/ n = a /\ i = k /\ Created(Filing(n, i)')
  PROVE  OwnDisputes'
<1>1. ASSUME NEW n \in Nodes, Asked(n) PROVE Numbered(Asking(n)) /\ Asking(n)[1] \in Proxies
  BY <1>1 DEF OwnDisputes, RequestsHaveTheirOwnDispute, Asked, Insured, Asking
<1>2. ASSUME NEW n \in Nodes, NEW i \in ClaimIds, Filed(n, i)
      PROVE  Numbered(Filing(n, i)) /\ Filing(n, i)[1] \in Proxies
  BY <1>2 DEF OwnDisputes, RequestsHaveTheirOwnDispute, Filed, Filing
<1>3. ASSUME NEW n \in Nodes PROVE (Asked(n)' <=> Asked(n)) /\ Asking(n)' = Asking(n)
  BY DEF Asked, Insured, Asking
<1>4. ASSUME NEW n \in Nodes, Asked(n)' PROVE Numbered(Asking(n))'
  BY <1>1, <1>3, <1>4, NumberedStays DEF Numbered
<1>5. ASSUME NEW n \in Nodes, NEW i \in ClaimIds, Filed(n, i)' PROVE Numbered(Filing(n, i))'
  <2>1. CASE Filed(n, i) /\ Filing(n, i)' = Filing(n, i)
    BY <1>2, <2>1, NumberedStays DEF Numbered
  <2>2. CASE Created(Filing(n, i)')  BY <2>2 DEF Created, Numbered
  <2> QED BY <1>5, <2>1, <2>2
<1>6. \A m, n \in Nodes : Asked(m)' /\ Asked(n)' /\ Asking(m)' = Asking(n)' => m = n
  BY <1>3 DEF OwnDisputes, RequestsHaveTheirOwnDispute
<1>7. ASSUME NEW m \in Nodes, NEW n \in Nodes, NEW i \in ClaimIds, Asked(m)', Filed(n, i)'
      PROVE  Asking(m)' # Filing(n, i)'
  <2>1. CASE Filed(n, i) /\ Filing(n, i)' = Filing(n, i)
    BY <1>3, <1>7, <2>1 DEF OwnDisputes, RequestsHaveTheirOwnDispute
  <2>2. CASE Created(Filing(n, i)')
    BY <1>1, <1>3, <1>7, <2>2 DEF Created, Numbered
  <2> QED BY <1>7, <2>1, <2>2
<1>8. ASSUME NEW m \in Nodes, NEW n \in Nodes, NEW i \in ClaimIds, NEW j \in ClaimIds,
             Filed(m, i)', Filed(n, j)', Filing(m, i)' = Filing(n, j)'
      PROVE  m = n /\ i = j
  <2>1. CASE Filed(m, i) /\ Filing(m, i)' = Filing(m, i) /\ Filed(n, j) /\ Filing(n, j)' = Filing(n, j)
    BY <1>8, <2>1 DEF OwnDisputes, RequestsHaveTheirOwnDispute
  <2>2. CASE Created(Filing(m, i)') /\ Filed(n, j) /\ Filing(n, j)' = Filing(n, j)
    BY <1>2, <1>8, <2>2 DEF Created, Numbered
  <2>3. CASE Created(Filing(n, j)') /\ Filed(m, i) /\ Filing(m, i)' = Filing(m, i)
    BY <1>2, <1>8, <2>3 DEF Created, Numbered
  <2> QED BY <1>8, <2>1, <2>2, <2>3
<1> QED BY <1>4, <1>5, <1>6, <1>7, <1>8 DEF OwnDisputes, RequestsHaveTheirOwnDispute

----------------------------------------------------------------------------
(* The calls under way.                                                    *)

\* While they stay the same, what they found stays found: an insurance is not
\* replaced, nor a claim, nor is a payment undone.
LEMMA CallsStay ==
  ASSUME CallsType, CallsOpen, UNCHANGED underway,
         \A n \in Nodes : Insured(n) =>
            insurances'[n] = insurances[n] /\ premiums'[n] = premiums[n],
         \A n \in Nodes, i \in ClaimIds : Filed(n, i) =>
            /\ Filed(n, i)' /\ Filing(n, i)' = Filing(n, i)
            /\ payments[n][i] # 0 => payments'[n][i] # 0
  PROVE  CallsType' /\ CallsOpen'
<1>1. CallsType' /\ OpenCalls' = OpenCalls  BY DEF CallsType, OpenCalls
<1>2. ASSUME NEW call \in OpenCalls PROVE call.node \in Nodes
  <2>1. underway \in Seq(Calls)  BY DEF CallsType
  <2>2. call \in Calls
    <3> HIDE DEF Calls
    <3> QED BY <2>1, LenProperties DEF OpenCalls, ToSet
  <2> QED BY <2>2 DEF Calls
<1>3. ASSUME NEW n \in Nodes, Asked(n)
      PROVE  /\ Asked(n)' /\ Asking(n)' = Asking(n) /\ insurances'[n] = insurances[n]
             /\ premiums'[n] = premiums[n]
  BY <1>3 DEF Asked, Insured, Asking
<1>4. ASSUME NEW call \in OpenCalls
      PROVE  /\ call.next \in {"collect", "sold"} =>
                   /\ Asked(call.node)' /\ insurances'[call.node].pool = "this"
                   /\ call.dispute = Asking(call.node)'
             /\ call.next = "collect" /\ ~Notifies => premiums'[call.node] = << >>
             /\ call.next = "sold" => premiums'[call.node] # << >>
  BY <1>2, <1>3 DEF CallsOpen
<1>5. ASSUME NEW call \in OpenCalls, call.next = "settled"
      PROVE  \E i \in ClaimIds :
                /\ Filed(call.node, i)' /\ call.dispute = Filing(call.node, i)'
                /\ payments'[call.node][i] # 0
  <2>1. PICK i \in ClaimIds : /\ Filed(call.node, i) /\ call.dispute = Filing(call.node, i)
                              /\ payments[call.node][i] # 0
    BY <1>5 DEF CallsOpen
  <2>2. call.node \in Nodes  BY <1>2
  <2> QED BY <2>1, <2>2
<1> QED BY <1>1, <1>4, <1>5 DEF CallsOpen

\* No mark is taken back.
LEMMA MarksStay ==
  ASSUME UNCHANGED underway, sold \subseteq sold', settled \subseteq settled'
  PROVE  /\ OpenCalls' = OpenCalls
         /\ \A x : MarkedSold(x) => MarkedSold(x)'
         /\ \A x : MarkedSettled(x) => MarkedSettled(x)'
<1>1. OpenCalls' = OpenCalls  BY DEF OpenCalls
<1> QED BY <1>1 DEF MarkedSold, MarkedSettled

\* Where nothing happens but to the proxies' trust and the vault.
LEMMA RequestsStay ==
  ASSUME RequestsInv,
         UNCHANGED <<insurances, sold, premiums, claims, settled, payments, underway>>
  PROVE  BoughtOnce' /\ PaidOnce' /\ CallsType' /\ CallsOpen' /\ MarkedWasDone'
<1>1. OpenCalls' = OpenCalls  BY DEF OpenCalls
<1>2. ASSUME NEW n \in Nodes
      PROVE  /\ (Asked(n)' <=> Asked(n)) /\ Asking(n)' = Asking(n)
             /\ \A i \in ClaimIds : (Filed(n, i)' <=> Filed(n, i)) /\ Filing(n, i)' = Filing(n, i)
  BY DEF Asked, Insured, Asking, Filed, Filing
<1>3. CallsType' /\ CallsOpen'
  BY <1>2, CallsStay DEF RequestsInv
<1>4. MarkedWasDone'  BY <1>2 DEF RequestsInv, MarkedWasDone
<1>5. \A x : (MarkedSold(x)' <=> MarkedSold(x)) /\ (MarkedSettled(x)' <=> MarkedSettled(x))
  BY <1>1 DEF MarkedSold, MarkedSettled
<1>6. BoughtOnce'  BY <1>2, <1>5 DEF RequestsInv, BoughtOnce
<1>7. PaidOnce'  BY <1>2, <1>5 DEF RequestsInv, PaidOnce
<1> QED BY <1>3, <1>4, <1>6, <1>7

----------------------------------------------------------------------------
(* Buying insurance, step by step.                                         *)

LEMMA InsuranceFields ==
  ASSUME NEW price \in Prices, NEW term \in Terms, NEW approver \in Approvers, NEW dispute \in Nat
  PROVE  LET i == Insurance(price, term, approver, dispute)
         IN  /\ i \in Requests
             /\ i.pool = "this" /\ i.price = price /\ i.expiration = term
             /\ i.approver = approver /\ i.dispute = dispute
  BY DEF Insurance, Requests

\* Where nothing was asked for, nothing was bought.
LEMMA NothingBoughtUnasked ==
  ASSUME BoughtOnce, NEW n \in Nodes, ~Insured(n)
  PROVE  premiums[n] = << >>
  BY DEF BoughtOnce, Insured

\* A request for a ruling.
LEMMA RequestKeeps ==
  ASSUME RequestsInv, NEW n \in Nodes, NEW price \in Prices, NEW term \in Terms,
         NEW p \in Proxies, BuyInsuranceWithArbitration(n, price, term, p)
  PROVE  RequestsInv'
<1> DEFINE i == Insurance(price, term, p, NextDispute(p))
<1>1. /\ RegistryType /\ ClaimType /\ OwnDisputes /\ RuledFor /\ BoughtOnce /\ PaidOnce
      /\ CallsType /\ CallsOpen /\ MarkedWasDone
      /\ DisputesType /\ insurances \in [Nodes -> {NoInsurance} \cup Requests]
  BY DEF RequestsInv, ClaimType, DisputesType, RegistryType
<1>2. /\ ~Insured(n) /\ insurances' = [insurances EXCEPT ![n] = i] /\ DisputeCreated(p)
      /\ UNCHANGED <<trusted, sold, income, premiums, signed, claims, settled, payments,
                    underway>>
  BY DEF BuyInsuranceWithArbitration, claiming
<1>3. /\ DisputesType' /\ Extended /\ NextDispute(p) \in Nat
      /\ NextDispute(p) \notin 1..Len(disputes[p]) /\ NextDispute(p) \in 1..Len(disputes'[p])
  BY <1>1, <1>2, CreatedIsNew
<1>4. i \in Requests /\ i.pool = "this" /\ i.approver = p /\ i.dispute = NextDispute(p)
  BY <1>3, InsuranceFields DEF Approvers
<1> HIDE DEF i
<1>5. insurances' \in [Nodes -> {NoInsurance} \cup Requests] /\ insurances'[n] = i
      /\ \A m \in Nodes : m # n => insurances'[m] = insurances[m]
  BY <1>1, <1>2, <1>4
<1>6. RegistryType'  BY <1>1, <1>2, <1>5 DEF RegistryType
<1>7. ClaimType'  BY <1>1, <1>2, <1>3 DEF ClaimType, DisputesType
<1>8. OwnDisputes'
  <2>1. Created(Asking(n)')  BY <1>3, <1>4, <1>5 DEF Created, Asking
  <2>2. \A m \in Nodes : m # n /\ Asked(m)' => Asked(m) /\ Asking(m)' = Asking(m)
    BY <1>5 DEF Asked, Insured, Asking
  <2> QED BY <1>1, <1>2, <1>3, <2>1, <2>2, OwnWithRequest
<1>9. RuledFor'
  <2>1. Acted' = Acted  BY <1>2 DEF Acted, OpenCalls
  <2> QED BY <1>1, <1>3, <2>1, RuledStays
<1>10. ASSUME NEW m \in Nodes, m # n
       PROVE  (Asked(m)' <=> Asked(m)) /\ Asking(m)' = Asking(m)
  BY <1>5, <1>10 DEF Asked, Insured, Asking
<1>11. ASSUME NEW m \in Nodes, NEW k \in ClaimIds
       PROVE  (Filed(m, k)' <=> Filed(m, k)) /\ Filing(m, k)' = Filing(m, k)
  BY <1>2 DEF Filed, Filing
<1>12. /\ \A x : MarkedSold(x) => MarkedSold(x)'
       /\ \A x : MarkedSettled(x) => MarkedSettled(x)'
  BY <1>2, MarksStay
<1>13. BoughtOnce'
  <2>1. premiums[n] = << >>  BY <1>1, <1>2, NothingBoughtUnasked
  <2> QED BY <1>1, <1>2, <1>5, <1>10, <1>12, <2>1 DEF BoughtOnce
<1>14. PaidOnce'  BY <1>1, <1>2, <1>11, <1>12 DEF PaidOnce
<1>15. CallsType' /\ CallsOpen'
  <2>1. \A m \in Nodes : Insured(m) => m # n  BY <1>2
  <2> QED BY <1>1, <1>2, <1>5, <1>11, <2>1, CallsStay
<1>16. MarkedWasDone'
  <2>1. Asking(n)' \notin sold
    <3>1. Asking(n)' = <<p, NextDispute(p)>>  BY <1>4, <1>5 DEF Asking
    <3> QED BY <1>1, <1>3, <3>1 DEF RuledFor, Acted
  <2> QED BY <1>1, <1>2, <1>10, <1>11, <2>1 DEF MarkedWasDone
<1> QED BY <1>6, <1>7, <1>8, <1>9, <1>13, <1>14, <1>15, <1>16 DEF RequestsInv

\* The premium is collected, and divided into numbers.
LEMMA PremiumCollected ==
  ASSUME RegistryType, NEW n \in Nodes, NEW i, i.price \in Nat, Buy(n, i)
  PROVE  /\ income' \in [owners : Nat, factory : Nat]
         /\ premiums' \in [Nodes -> Seq(Nat)] /\ premiums'[n] # << >>
         /\ premiums[n] = << >> => Len(premiums'[n]) = 1
         /\ \A m \in Nodes : m # n => premiums'[m] = premiums[m]
<1>1. /\ income' = [owners |-> income.owners + Share(i.price, OwnerShare),
                    factory |-> income.factory + Share(i.price, FactoryFee)]
      /\ premiums' = [premiums EXCEPT ![n] = Append(@, i.price)]
  BY DEF Buy
<1>2. Share(i.price, OwnerShare) \in Nat /\ Share(i.price, FactoryFee) \in Nat
  BY SharesOfPremium
<1>3. income.owners \in Nat /\ income.factory \in Nat  BY DEF RegistryType
<1>4. income' \in [owners : Nat, factory : Nat]  BY <1>1, <1>2, <1>3
<1>5. premiums \in [Nodes -> Seq(Nat)]  BY DEF RegistryType
<1> DEFINE more == Append(premiums[n], i.price)
<1>6. more \in Seq(Nat) /\ Len(more) = Len(premiums[n]) + 1 /\ Len(premiums[n]) \in Nat
  BY <1>5, AppendProperties, LenProperties
<1>7. more # << >> /\ (premiums[n] = << >> => Len(more) = 1)
  <2> HIDE DEF more
  <2> QED BY <1>6, EmptySeq
<1> QED BY <1>1, <1>4, <1>5, <1>6, <1>7

\* The finalization of an approved request begins.
LEMMA FinalizeKeeps ==
  ASSUME RequestsInv, Callable, NEW n \in Nodes, BuyInsuranceFinalize(n)
  PROVE  RequestsInv'
<1> DEFINE i == insurances[n]
           call == [next |-> "collect", node |-> n, dispute |-> Asking(n)]
<1>1. /\ RegistryType /\ ClaimType /\ OwnDisputes /\ RuledFor /\ BoughtOnce /\ PaidOnce
      /\ CallsType /\ CallsOpen /\ MarkedWasDone
  BY DEF RequestsInv
<1>2. /\ i.pool = "this" /\ i.approver \in Proxies /\ Asking(n) \notin sold
      /\ disputes[i.approver][i.dispute] = 1
      /\ underway' = <<call>> \o underway
      /\ UNCHANGED <<trusted, insurances, sold, income, premiums, claims, settled, payments,
                     disputes, signed>>
  BY DEF BuyInsuranceFinalize, Executable, Begin, registry, claiming, Asking
<1>3. Asked(n) /\ Numbered(Asking(n))  BY <1>1, <1>2 DEF Asked, Insured, OwnDisputes
<1>4. i \in Requests  BY <1>1, <1>2, Requested DEF Insured
<1>5. call \in Calls  BY <1>2, <1>4 DEF Calls, Asking, Requests
<1>6. /\ underway' \in Seq(Calls) /\ Len(underway') = Len(underway) + 1
      /\ OpenCalls' = OpenCalls \cup {call}
  <2>1. underway \in Seq(Calls)  BY <1>1 DEF CallsType
  <2> HIDE DEF call
  <2> QED BY <1>2, <1>5, <2>1, Pushed DEF OpenCalls
<1>7. ~Notifies => underway = << >> /\ OpenCalls = {}
  BY EmptySeq DEF Callable, OpenCalls, ToSet
<1> HIDE DEF i, call
<1>8. RegistryType' /\ ClaimType'  BY <1>1, <1>2 DEF RegistryType, ClaimType
<1>9. ASSUME NEW m \in Nodes
      PROVE  /\ (Asked(m)' <=> Asked(m)) /\ Asking(m)' = Asking(m)
             /\ \A k \in ClaimIds : (Filed(m, k)' <=> Filed(m, k)) /\ Filing(m, k)' = Filing(m, k)
  BY <1>2 DEF Asked, Insured, Asking, Filed, Filing
<1>10. OwnDisputes'  BY <1>1, <1>2, <1>9 DEF OwnDisputes, RequestsHaveTheirOwnDispute, Numbered
<1>11. RuledFor'
  <2>1. Extended  BY <1>2 DEF Extended
  <2>2. ASSUME NEW p \in Proxies, NEW d \in Nat, <<p, d>> \in Acted'
        PROVE  \/ <<p, d>> \in Acted
               \/ d \in 1..Len(disputes'[p]) /\ disputes'[p][d] = 1
    <3>1. <<p, d>> \in Acted \/ <<p, d>> = Asking(n)
      BY <1>2, <1>6, <2>2 DEF Acted, call
    <3>2. CASE <<p, d>> = Asking(n)
      <4>1. p = i.approver /\ d = i.dispute  BY <3>2 DEF Asking, i
      <4>2. d \in 1..Len(disputes[p]) /\ disputes[p][d] = 1
        BY <1>2, <1>3, <4>1 DEF Numbered, Asking, i
      <4> QED BY <1>2, <4>2
    <3> QED BY <3>1, <3>2
  <2> QED BY <1>1, <2>1, <2>2, RuledStays
<1>12. \A x : (MarkedSold(x) => MarkedSold(x)') /\ (MarkedSettled(x) => MarkedSettled(x)')
  BY <1>2, <1>6 DEF MarkedSold, MarkedSettled
<1>13. BoughtOnce'  BY <1>1, <1>2, <1>9, <1>12 DEF BoughtOnce
<1>14. PaidOnce'  BY <1>1, <1>2, <1>9, <1>12 DEF PaidOnce
<1>15. CallsType'
  <2>1. ~Notifies => Len(underway) = 0  BY <1>7, EmptySeq
  <2> QED BY <1>6, <2>1 DEF CallsType
<1>16. CallsOpen'
  <2>1. ~Notifies => premiums[n] = << >>
    BY <1>1, <1>2, <1>3, <1>7 DEF BoughtOnce, MarkedSold
  <2>2. ASSUME NEW c \in OpenCalls
        PROVE  /\ c.next \in {"collect", "sold"} =>
                     /\ Asked(c.node)' /\ insurances'[c.node].pool = "this"
                     /\ c.dispute = Asking(c.node)'
               /\ c.next = "collect" /\ ~Notifies => premiums'[c.node] = << >>
               /\ c.next = "sold" => premiums'[c.node] # << >>
               /\ c.next = "settled" =>
                     \E k \in ClaimIds : /\ Filed(c.node, k)' /\ c.dispute = Filing(c.node, k)'
                                         /\ payments'[c.node][k] # 0
    BY <1>1, <1>2 DEF CallsOpen, Asked, Insured, Asking, Filed, Filing
  <2>3. /\ call.next = "collect" /\ call.node = n /\ call.dispute = Asking(n)
    BY DEF call
  <2> QED BY <1>2, <1>3, <1>6, <1>9, <2>1, <2>2, <2>3 DEF CallsOpen, i
<1>17. MarkedWasDone'  BY <1>1, <1>2, <1>9 DEF MarkedWasDone
<1> QED BY <1>8, <1>10, <1>11, <1>13, <1>14, <1>15, <1>16, <1>17 DEF RequestsInv

\* It goes on, and the premium is collected.
LEMMA CollectKeeps ==
  ASSUME RequestsInv, CollectPremium, NEW n \in Nodes, n = Head(underway).node
  PROVE  RequestsInv'
<1> DEFINE call == Head(underway)
           i == insurances[n]
           done == [call EXCEPT !.next = "sold"]
           rest == Tail(underway)
<1>1. /\ RegistryType /\ ClaimType /\ OwnDisputes /\ RuledFor /\ BoughtOnce /\ PaidOnce
      /\ CallsType /\ CallsOpen /\ MarkedWasDone
  BY DEF RequestsInv
<1>2. /\ underway # << >> /\ call.next = "collect" /\ Buy(n, i)
      /\ underway' = <<done>> \o rest
      /\ UNCHANGED <<trusted, insurances, sold, claims, settled, payments, disputes, signed>>
  BY DEF CollectPremium, claiming
<1>3. /\ Asked(n) /\ i.pool = "this" /\ i.price \in Nat
      /\ call.dispute = Asking(n) /\ (~Notifies => premiums[n] = << >>)
  BY <1>1, CollectsForRequest
<1>4. /\ call \in Calls /\ rest \in Seq(Calls) /\ Len(rest) = Len(underway) - 1
      /\ OpenCalls = ToSet(rest) \cup {call}
  BY <1>1, <1>2, Popped
<1>5. done \in Calls /\ done.next = "sold" /\ done.node = n /\ done.dispute = Asking(n)
  BY <1>3, <1>4 DEF Calls
<1>6. /\ income' \in [owners : Nat, factory : Nat]
      /\ premiums' \in [Nodes -> Seq(Nat)] /\ premiums'[n] # << >>
      /\ premiums[n] = << >> => Len(premiums'[n]) = 1
      /\ \A m \in Nodes : m # n => premiums'[m] = premiums[m]
  BY <1>1, <1>2, <1>3, PremiumCollected
<1> HIDE DEF call, i, done, rest
<1>7. /\ underway' \in Seq(Calls) /\ Len(underway') = Len(underway)
      /\ OpenCalls' = ToSet(rest) \cup {done}
  <2>1. /\ <<done>> \o rest \in Seq(Calls) /\ Len(<<done>> \o rest) = Len(rest) + 1
        /\ ToSet(<<done>> \o rest) = ToSet(rest) \cup {done}
    BY <1>4, <1>5, Pushed
  <2>2. underway \in Seq(Calls)  BY <1>1 DEF CallsType
  <2>3. Len(underway) \in Nat  BY <2>2, LenProperties
  <2> QED BY <1>2, <1>4, <2>1, <2>3 DEF OpenCalls
<1>8. ~Notifies => ToSet(rest) = {}
  <2> SUFFICES ASSUME ~Notifies PROVE ToSet(rest) = {}  OBVIOUS
  <2>1. underway \in Seq(Calls) /\ Len(underway) <= 1  BY <1>1 DEF CallsType
  <2>2. Len(underway) \in Nat \ {0} /\ Len(rest) \in Nat  BY <1>2, <1>4, <2>1, EmptySeq, LenProperties
  <2>3. Len(rest) = 0  BY <1>4, <2>1, <2>2
  <2>4. DOMAIN rest = 1..0  BY <1>4, <2>3, LenProperties
  <2> QED BY <2>4 DEF ToSet
<1>9. RegistryType' /\ ClaimType'  BY <1>1, <1>2, <1>6 DEF RegistryType, ClaimType
<1>10. ASSUME NEW m \in Nodes
       PROVE  /\ (Asked(m)' <=> Asked(m)) /\ Asking(m)' = Asking(m)
              /\ \A k \in ClaimIds : (Filed(m, k)' <=> Filed(m, k)) /\ Filing(m, k)' = Filing(m, k)
  BY <1>2 DEF Asked, Insured, Asking, Filed, Filing
<1>11. OwnDisputes'  BY <1>1, <1>2, <1>10 DEF OwnDisputes, RequestsHaveTheirOwnDispute, Numbered
<1>12. RuledFor'
  <2>1. Extended  BY <1>2 DEF Extended
  <2>2. Acted' = Acted
    <3>1. {c.dispute : c \in OpenCalls'} = {c.dispute : c \in OpenCalls}
      BY <1>3, <1>4, <1>5, <1>7
    <3> QED BY <1>2, <3>1 DEF Acted
  <2> QED BY <1>1, <2>1, <2>2, RuledStays
<1>13. \A x : (MarkedSold(x) => MarkedSold(x)') /\ (MarkedSettled(x) => MarkedSettled(x)')
  BY <1>2, <1>4, <1>7 DEF MarkedSold, MarkedSettled
<1>14. BoughtOnce'
  <2>1. MarkedSold(Asking(n))'  BY <1>2, <1>5, <1>7, <1>10 DEF MarkedSold, Asking
  <2>2. ASSUME NEW m \in Nodes, m # n, premiums'[m] # << >>
        PROVE  /\ insurances'[m].pool = "this" /\ (~Notifies => Len(premiums'[m]) = 1)
               /\ Asked(m)' => MarkedSold(Asking(m))'
    <3>1. /\ insurances[m].pool = "this" /\ (~Notifies => Len(premiums[m]) = 1)
          /\ Asked(m) => MarkedSold(Asking(m))
      BY <1>1, <1>6, <2>2 DEF BoughtOnce
    <3>2. Asking(m)' = Asking(m) /\ premiums'[m] = premiums[m]  BY <1>6, <1>10, <2>2
    <3>3. Asked(m)' => MarkedSold(Asking(m))'
      <4> DEFINE x == <<insurances[m].approver, insurances[m].dispute>>
      <4>1. Asked(m)' => \/ x \in sold
                         \/ \E c \in OpenCalls : c.next = "sold" /\ c.dispute = x
        BY <1>10, <3>1 DEF MarkedSold, Asking
      <4>2. Asking(m)' = x  BY <1>2 DEF Asking
      <4> QED BY <1>2, <1>4, <1>7, <4>1, <4>2 DEF MarkedSold, Asking
    <3> QED BY <1>2, <3>1, <3>2, <3>3
  <2>3. insurances'[n].pool = "this"  BY <1>2, <1>3 DEF i
  <2> QED BY <1>3, <1>6, <2>1, <2>2, <2>3 DEF BoughtOnce
<1>15. PaidOnce'  BY <1>1, <1>2, <1>10, <1>13 DEF PaidOnce
<1>16. CallsType'  BY <1>1, <1>7 DEF CallsType
<1>17. CallsOpen'
  <2>1. ASSUME NEW c \in ToSet(rest)
        PROVE  /\ c.next \in {"collect", "sold"} =>
                     /\ Asked(c.node)' /\ insurances'[c.node].pool = "this"
                     /\ c.dispute = Asking(c.node)'
               /\ c.next = "collect" /\ ~Notifies => premiums'[c.node] = << >>
               /\ c.next = "sold" => premiums'[c.node] # << >>
               /\ c.next = "settled" =>
                     \E k \in ClaimIds : /\ Filed(c.node, k)' /\ c.dispute = Filing(c.node, k)'
                                         /\ payments'[c.node][k] # 0
    <3>1. c \in OpenCalls  BY <1>4
    <3>2. c.node \in Nodes
      <4>1. c \in Calls
        <5> HIDE DEF Calls
        <5> QED BY <1>4, LenProperties DEF ToSet
      <4> QED BY <4>1 DEF Calls
    <3>3. c.next = "sold" => premiums'[c.node] # << >>  BY <1>1, <1>6, <3>1, <3>2 DEF CallsOpen
    <3>4. c.next = "settled" =>
            \E k \in ClaimIds : /\ Filed(c.node, k)' /\ c.dispute = Filing(c.node, k)'
                                /\ payments'[c.node][k] # 0
      BY <1>1, <1>2, <3>1 DEF CallsOpen, Filed, Filing
    <3>5. c.next \in {"collect", "sold"} =>
             /\ Asked(c.node)' /\ insurances'[c.node].pool = "this"
             /\ c.dispute = Asking(c.node)'
      BY <1>1, <1>2, <3>1 DEF CallsOpen, Asked, Insured, Asking
    <3>6. Notifies  BY <1>8
    <3> QED BY <3>3, <3>4, <3>5, <3>6
  <2>2. /\ Asked(n)' /\ insurances'[n].pool = "this"
        /\ done.dispute = Asking(n)' /\ premiums'[n] # << >>
    BY <1>2, <1>3, <1>5, <1>6, <1>10 DEF i
  <2> QED BY <1>5, <1>7, <2>1, <2>2 DEF CallsOpen
<1>18. MarkedWasDone'  BY <1>1, <1>2, <1>6, <1>10 DEF MarkedWasDone
<1> QED BY <1>9, <1>11, <1>12, <1>14, <1>15, <1>16, <1>17, <1>18 DEF RequestsInv

\* A call returns: its dispute is marked if it was to mark one.
LEMMA ReturnKeeps ==
  ASSUME RequestsInv, CollectionReverts \/ MarkDisputeExecuted
  PROVE  RequestsInv'
<1> DEFINE call == Head(underway)
           rest == Tail(underway)
<1>1. /\ RegistryType /\ ClaimType /\ OwnDisputes /\ RuledFor /\ BoughtOnce /\ PaidOnce
      /\ CallsType /\ CallsOpen /\ MarkedWasDone
  BY DEF RequestsInv
<1>2. /\ underway # << >> /\ underway' = rest
      /\ UNCHANGED <<trusted, insurances, income, premiums, claims, payments, disputes, signed>>
      /\ \/ call.next = "collect" /\ UNCHANGED <<sold, settled>>
         \/ call.next = "sold" /\ sold' = sold \cup {call.dispute} /\ UNCHANGED settled
         \/ call.next = "settled" /\ settled' = settled \cup {call.dispute} /\ UNCHANGED sold
  BY DEF CollectionReverts, MarkDisputeExecuted, registry, claiming
<1>3. /\ call \in Calls /\ call \in OpenCalls
      /\ rest \in Seq(Calls) /\ Len(rest) = Len(underway) - 1
      /\ OpenCalls = ToSet(rest) \cup {call}
  BY <1>1, <1>2, Popped
<1> HIDE DEF call, rest
<1>4. OpenCalls = OpenCalls' \cup {call} /\ OpenCalls' \subseteq OpenCalls
  BY <1>2, <1>3 DEF OpenCalls
<1>5. call.node \in Nodes /\ call.dispute \in Approvers \X Nat
  BY <1>3 DEF Calls, Approvers
<1>6. RegistryType' /\ ClaimType'
  <2>1. sold' \subseteq Approvers \X Nat /\ settled' \subseteq Approvers \X Nat
    BY <1>1, <1>2, <1>5 DEF RegistryType, ClaimType
  <2> QED BY <1>1, <1>2, <2>1 DEF RegistryType, ClaimType
<1>7. ASSUME NEW m \in Nodes
      PROVE  /\ (Asked(m)' <=> Asked(m)) /\ Asking(m)' = Asking(m)
             /\ \A k \in ClaimIds : (Filed(m, k)' <=> Filed(m, k)) /\ Filing(m, k)' = Filing(m, k)
  BY <1>2 DEF Asked, Insured, Asking, Filed, Filing
<1>8. OwnDisputes'  BY <1>1, <1>2, <1>7 DEF OwnDisputes, RequestsHaveTheirOwnDispute, Numbered
<1>9. RuledFor'
  <2>1. Extended  BY <1>2 DEF Extended
  <2>2. Acted' \subseteq Acted  BY <1>2, <1>3, <1>4 DEF Acted
  <2> QED BY <1>1, <2>1, <2>2, RuledStays
<1>10. \A x : (MarkedSold(x) => MarkedSold(x)') /\ (MarkedSettled(x) => MarkedSettled(x)')
  BY <1>2, <1>4 DEF MarkedSold, MarkedSettled
<1>11. BoughtOnce'  BY <1>1, <1>2, <1>7, <1>10 DEF BoughtOnce
<1>12. PaidOnce'  BY <1>1, <1>2, <1>7, <1>10 DEF PaidOnce
<1>13. CallsType'
  <2>1. underway \in Seq(Calls)  BY <1>1 DEF CallsType
  <2>2. Len(underway) \in Nat  BY <2>1, LenProperties
  <2> QED BY <1>1, <1>2, <1>3, <2>2 DEF CallsType
<1>14. CallsOpen'
  <2>1. ASSUME NEW c \in OpenCalls'
        PROVE  /\ c.next \in {"collect", "sold"} =>
                     /\ Asked(c.node)' /\ insurances'[c.node].pool = "this"
                     /\ c.dispute = Asking(c.node)'
               /\ c.next = "collect" /\ ~Notifies => premiums'[c.node] = << >>
               /\ c.next = "sold" => premiums'[c.node] # << >>
               /\ c.next = "settled" =>
                     \E k \in ClaimIds : /\ Filed(c.node, k)' /\ c.dispute = Filing(c.node, k)'
                                         /\ payments'[c.node][k] # 0
    BY <1>1, <1>2, <1>4 DEF CallsOpen, Asked, Insured, Asking, Filed, Filing
  <2> QED BY <2>1 DEF CallsOpen
<1>15. MarkedWasDone'
  <2>1. ASSUME NEW m \in Nodes, Asked(m), Asking(m) \in sold' PROVE premiums[m] # << >>
    <3>1. CASE Asking(m) \in sold  BY <1>1, <2>1, <3>1 DEF MarkedWasDone
    <3>2. CASE call.next = "sold" /\ Asking(m) = call.dispute
      <4>1. /\ Asked(call.node) /\ call.dispute = Asking(call.node)
            /\ premiums[call.node] # << >>
        BY <1>1, <1>3, <3>2 DEF CallsOpen
      <4> QED BY <1>1, <1>5, <2>1, <3>2, <4>1 DEF OwnDisputes, RequestsHaveTheirOwnDispute
    <3> QED BY <1>2, <2>1, <3>1, <3>2
  <2>2. ASSUME NEW m \in Nodes, NEW k \in ClaimIds, Filed(m, k), Filing(m, k) \in settled'
        PROVE  payments[m][k] # 0
    <3>1. CASE Filing(m, k) \in settled  BY <1>1, <2>2, <3>1 DEF MarkedWasDone
    <3>2. CASE call.next = "settled" /\ Filing(m, k) = call.dispute
      <4>1. PICK id \in ClaimIds : /\ Filed(call.node, id) /\ call.dispute = Filing(call.node, id)
                                   /\ payments[call.node][id] # 0
        BY <1>1, <1>3, <3>2 DEF CallsOpen
      <4> QED BY <1>1, <1>5, <2>2, <3>2, <4>1 DEF OwnDisputes, RequestsHaveTheirOwnDispute
    <3> QED BY <1>2, <2>2, <3>1, <3>2
  <2>3. ASSUME NEW m \in Nodes
        PROVE  /\ Asking(m)' \in sold' <=> Asking(m) \in sold'
               /\ \A k \in ClaimIds : Filing(m, k)' \in settled' <=> Filing(m, k) \in settled'
    BY <1>7
  <2> QED BY <1>2, <1>7, <2>1, <2>2, <2>3 DEF MarkedWasDone
<1> QED
  BY <1>6, <1>8, <1>9, <1>11, <1>12, <1>13, <1>14, <1>15 DEF RequestsInv

\* An insurance is bought with a signature, in one call.
LEMMA SignedPurchaseKeeps ==
  ASSUME RequestsInv, NEW s \in PurchaseStatements, BuyInsuranceWithSignature(s)
  PROVE  RequestsInv'
<1> DEFINE i == Insurance(s.price, s.term, s.operator, s.nonce)
           n == s.node
<1>1. /\ RegistryType /\ ClaimType /\ OwnDisputes /\ RuledFor /\ BoughtOnce /\ PaidOnce
      /\ CallsType /\ CallsOpen /\ MarkedWasDone
      /\ insurances \in [Nodes -> {NoInsurance} \cup Requests]
  BY DEF RequestsInv, RegistryType
<1>2. /\ n \in Nodes /\ s.price \in Prices /\ s.term \in Terms /\ s.price \in Nat
      /\ s.operator \in Operators /\ s.operator \notin Proxies /\ s.nonce \in Nat
  BY VeryInsureAssumption DEF PurchaseStatements
<1>3. /\ ~Insured(n) /\ insurances' = [insurances EXCEPT ![n] = i]
      /\ Buy(n, i) /\ sold' = sold \cup {<<s.operator, s.nonce>>}
      /\ UNCHANGED <<trusted, claims, settled, payments, disputes, signed, underway>>
  BY DEF BuyInsuranceWithSignature, claiming, arbitration
<1>4. i \in Requests /\ i.pool = "this" /\ i.approver = s.operator /\ i.price = s.price
  BY <1>2, InsuranceFields DEF Approvers
<1> HIDE DEF i, n
<1>5. premiums[n] = << >>  BY <1>1, <1>2, <1>3, NothingBoughtUnasked
<1>6. /\ income' \in [owners : Nat, factory : Nat]
      /\ premiums' \in [Nodes -> Seq(Nat)] /\ premiums'[n] # << >> /\ Len(premiums'[n]) = 1
      /\ \A m \in Nodes : m # n => premiums'[m] = premiums[m]
  BY <1>1, <1>2, <1>3, <1>4, <1>5, PremiumCollected
<1>7. /\ insurances' \in [Nodes -> {NoInsurance} \cup Requests] /\ insurances'[n] = i
      /\ \A m \in Nodes : m # n => insurances'[m] = insurances[m]
  BY <1>1, <1>2, <1>3, <1>4
<1>8. RegistryType'
  <2>1. sold' \subseteq Approvers \X Nat  BY <1>1, <1>2, <1>3 DEF RegistryType, Approvers
  <2> QED BY <1>1, <1>3, <1>6, <1>7, <2>1 DEF RegistryType
<1>9. ClaimType'  BY <1>1, <1>3 DEF ClaimType
<1>10. Extended  BY <1>3 DEF Extended
<1>11. ~Asked(n)'  BY <1>2, <1>4, <1>7 DEF Asked, Insured
<1>12. OwnDisputes'
  <2>1. \A m \in Nodes : m # n /\ Asked(m)' => Asked(m) /\ Asking(m)' = Asking(m)
    BY <1>7 DEF Asked, Insured, Asking
  <2> QED BY <1>1, <1>2, <1>3, <1>10, <1>11, <2>1, OwnWithRequest
<1>13. \A p \in Proxies, d \in Nat : <<p, d>> # <<s.operator, s.nonce>>  BY <1>2
<1>14. RuledFor'
  <2>1. ASSUME NEW p \in Proxies, NEW d \in Nat, <<p, d>> \in Acted' PROVE <<p, d>> \in Acted
    BY <1>3, <1>13, <2>1 DEF Acted, OpenCalls
  <2> QED BY <1>1, <1>10, <2>1, RuledStays
<1>15. /\ \A x : MarkedSold(x) => MarkedSold(x)'
       /\ \A x : MarkedSettled(x) => MarkedSettled(x)'
  BY <1>3, MarksStay
<1>16. ASSUME NEW m \in Nodes, m # n
       PROVE  (Asked(m)' <=> Asked(m)) /\ Asking(m)' = Asking(m)
  BY <1>7, <1>16 DEF Asked, Insured, Asking
<1>17. ASSUME NEW m \in Nodes, NEW k \in ClaimIds
       PROVE  (Filed(m, k)' <=> Filed(m, k)) /\ Filing(m, k)' = Filing(m, k)
  BY <1>3 DEF Filed, Filing
<1>18. n \in Nodes /\ insurances'[n].pool = "this"  BY <1>2, <1>4, <1>7
<1>19. BoughtOnce'
  <2>1. ASSUME NEW m \in Nodes, m # n, premiums'[m] # << >>
        PROVE  /\ insurances'[m].pool = "this" /\ (~Notifies => Len(premiums'[m]) = 1)
               /\ Asked(m)' => MarkedSold(Asking(m))'
    BY <1>1, <1>6, <1>7, <1>15, <1>16, <2>1 DEF BoughtOnce
  <2>2. ASSUME NEW m \in Nodes, m = n
        PROVE  /\ insurances'[m].pool = "this" /\ Len(premiums'[m]) = 1 /\ ~Asked(m)'
    BY <1>2, <1>4, <1>6, <1>7, <2>2 DEF Asked
  <2> QED BY <2>1, <2>2 DEF BoughtOnce
<1>20. PaidOnce'  BY <1>1, <1>3, <1>15, <1>17 DEF PaidOnce
<1>21. CallsType' /\ CallsOpen'
  <2>1. \A m \in Nodes : Insured(m) => m # n  BY <1>3
  <2> QED BY <1>1, <1>3, <1>6, <1>7, <1>17, <2>1, CallsStay
<1>22. MarkedWasDone'
  <2>1. ASSUME NEW m \in Nodes, Asked(m)', Asking(m)' \in sold' PROVE premiums'[m] # << >>
    <3>1. CASE m = n  BY <1>6, <3>1
    <3>2. CASE m # n
      <4>1. Asked(m) /\ Asking(m) \in sold'  BY <1>16, <2>1, <3>2
      <4>2. Asking(m) # <<s.operator, s.nonce>>  BY <1>2, <4>1 DEF Asked, Asking
      <4> QED BY <1>1, <1>3, <1>6, <3>2, <4>1, <4>2 DEF MarkedWasDone
    <3> QED BY <3>1, <3>2
  <2> QED BY <1>1, <1>3, <1>17, <2>1 DEF MarkedWasDone
<1> QED BY <1>8, <1>9, <1>12, <1>14, <1>19, <1>20, <1>21, <1>22 DEF RequestsInv

----------------------------------------------------------------------------
(* Claiming, step by step.                                                 *)

LEMMA ClaimFields ==
  ASSUME NEW amount \in Amounts, NEW approver \in Approvers, NEW dispute \in Nat
  PROVE  LET c == Claim(amount, approver, dispute)
         IN  c \in Filings /\ c.approver = approver /\ c.dispute = dispute
  BY DEF Claim, Filings

\* A claim goes after those of its name, which stay as they are.
LEMMA ClaimAdded ==
  ASSUME ClaimType, NEW n \in Nodes, NEW c \in Filings, Len(claims[n]) + 1 \in ClaimIds,
         claims' = [claims EXCEPT ![n] = Append(@, c)]
  PROVE  /\ claims' \in [Nodes -> Seq(Filings)]
         /\ \A m \in Nodes : Len(claims'[m]) <= MaxClaims
         /\ Len(claims[n]) \in Nat /\ Len(claims'[n]) = Len(claims[n]) + 1
         /\ claims'[n][Len(claims[n]) + 1] = c
         /\ \A m \in Nodes : m # n => claims'[m] = claims[m]
         /\ \A i \in 1..Len(claims[n]) : claims'[n][i] = claims[n][i]
<1> DEFINE more == Append(claims[n], c)
<1>1. claims \in [Nodes -> Seq(Filings)] /\ claims[n] \in Seq(Filings)  BY DEF ClaimType
<1>2. /\ more \in Seq(Filings) /\ Len(more) = Len(claims[n]) + 1
      /\ \A i \in 1..Len(claims[n]) : more[i] = claims[n][i]
      /\ more[Len(claims[n]) + 1] = c
  BY <1>1, AppendProperties
<1>3. Len(claims[n]) \in Nat  BY <1>1, LenProperties
<1>4. claims' = [claims EXCEPT ![n] = more]  OBVIOUS
<1> HIDE DEF more
<1>5. /\ claims' \in [Nodes -> Seq(Filings)] /\ claims'[n] = more
      /\ \A m \in Nodes : m # n => claims'[m] = claims[m]
  BY <1>1, <1>2, <1>4
<1>6. Len(more) <= MaxClaims  BY <1>2, <1>3 DEF ClaimIds
<1>7. \A m \in Nodes : Len(claims'[m]) <= MaxClaims  BY <1>5, <1>6 DEF ClaimType
<1> QED BY <1>2, <1>3, <1>5, <1>7

\* Nothing but the new claim is filed.
LEMMA FiledStays ==
  ASSUME NEW n \in Nodes, NEW k \in ClaimIds, k = Len(claims[n]) + 1, Len(claims[n]) \in Nat,
         Len(claims'[n]) = k,
         \A m \in Nodes : m # n => claims'[m] = claims[m],
         \A i \in 1..Len(claims[n]) : claims'[n][i] = claims[n][i]
  PROVE  \A m \in Nodes, i \in ClaimIds : m # n \/ i # k =>
           (Filed(m, i)' => Filed(m, i) /\ Filing(m, i)' = Filing(m, i))
<1> TAKE m \in Nodes, i \in ClaimIds
<1>1. CASE m # n  BY <1>1 DEF Filed, Filing
<1>2. CASE m = n /\ i # k
  <2> SUFFICES ASSUME Filed(n, i)' PROVE Filed(n, i) /\ Filing(n, i)' = Filing(n, i)
    BY <1>2
  <2>1. i \in 1..Len(claims[n])  BY <1>2 DEF Filed, ClaimIds
  <2> QED BY <2>1 DEF Filed, Filing
<1> QED BY <1>1, <1>2

\* What is filed stays filed.
LEMMA FiledKept ==
  ASSUME NEW n \in Nodes, NEW k \in ClaimIds, k = Len(claims[n]) + 1, Len(claims[n]) \in Nat,
         Len(claims'[n]) = k,
         \A m \in Nodes : m # n => claims'[m] = claims[m],
         \A i \in 1..Len(claims[n]) : claims'[n][i] = claims[n][i]
  PROVE  \A m \in Nodes, i \in ClaimIds : Filed(m, i) =>
           (m # n \/ i # k) /\ Filed(m, i)' /\ Filing(m, i)' = Filing(m, i)
<1> TAKE m \in Nodes, i \in ClaimIds
<1>1. CASE m # n  BY <1>1 DEF Filed, Filing
<1>2. CASE m = n
  <2> SUFFICES ASSUME Filed(n, i)
               PROVE  i # k /\ Filed(n, i)' /\ Filing(n, i)' = Filing(n, i)
    BY <1>2
  <2>1. i \in 1..Len(claims[n]) /\ i \in 1..Len(claims'[n]) /\ i # k  BY DEF Filed
  <2>2. claims'[n][i] = claims[n][i]  BY <2>1
  <2> QED BY <2>1, <2>2 DEF Filed, Filing
<1> QED BY <1>1, <1>2

\* A claim that waits for a ruling.
LEMMA ClaimRequestKeeps ==
  ASSUME RequestsInv, NEW n \in Nodes, NEW amount \in Amounts, NEW p \in Proxies,
         ClaimWithArbitration(n, amount, p)
  PROVE  RequestsInv'
<1> DEFINE c == Claim(amount, p, NextDispute(p))
<1>1. /\ RegistryType /\ ClaimType /\ OwnDisputes /\ RuledFor /\ BoughtOnce /\ PaidOnce
      /\ CallsType /\ CallsOpen /\ MarkedWasDone
      /\ DisputesType
  BY DEF RequestsInv, ClaimType, DisputesType
<1>2. /\ Len(claims[n]) < MaxClaims /\ claims' = [claims EXCEPT ![n] = Append(@, c)]
      /\ DisputeCreated(p)
      /\ UNCHANGED <<trusted, insurances, sold, income, premiums, settled, payments, signed,
                    underway>>
  BY DEF ClaimWithArbitration, registry
<1>3. /\ DisputesType' /\ Extended /\ NextDispute(p) \in Nat
      /\ NextDispute(p) \notin 1..Len(disputes[p]) /\ NextDispute(p) \in 1..Len(disputes'[p])
  BY <1>1, <1>2, CreatedIsNew
<1>4. c \in Filings /\ c.approver = p /\ c.dispute = NextDispute(p)
  BY <1>3, ClaimFields DEF Approvers
<1> HIDE DEF c
<1>5. PICK k \in ClaimIds : k = Len(claims[n]) + 1
  <2>1. claims[n] \in Seq(Filings)  BY <1>1 DEF ClaimType
  <2>2. Len(claims[n]) \in Nat /\ MaxClaims \in Nat
    BY <2>1, LenProperties, VeryInsureAssumption
  <2> QED BY <1>2, <2>2 DEF ClaimIds
<1>6. /\ claims' \in [Nodes -> Seq(Filings)]
      /\ \A m \in Nodes : Len(claims'[m]) <= MaxClaims
      /\ Len(claims[n]) \in Nat /\ Len(claims'[n]) = k
      /\ claims'[n][k] = c
      /\ \A m \in Nodes : m # n => claims'[m] = claims[m]
      /\ \A i \in 1..Len(claims[n]) : claims'[n][i] = claims[n][i]
  BY <1>1, <1>2, <1>4, <1>5, ClaimAdded
<1>7. RegistryType'  BY <1>1, <1>2 DEF RegistryType
<1>8. ClaimType'  BY <1>1, <1>2, <1>3, <1>6 DEF ClaimType, DisputesType
<1>9. \A m \in Nodes, i \in ClaimIds : m # n \/ i # k =>
        (Filed(m, i)' => Filed(m, i) /\ Filing(m, i)' = Filing(m, i))
  BY <1>5, <1>6, FiledStays
<1>10. OwnDisputes'
  <2>1. Created(Filing(n, k)')  BY <1>3, <1>4, <1>6 DEF Created, Filing
  <2> QED BY <1>1, <1>2, <1>3, <1>9, <2>1, OwnWithClaim
<1>11. RuledFor'
  <2>1. Acted' = Acted  BY <1>2 DEF Acted, OpenCalls
  <2> QED BY <1>1, <1>3, <2>1, RuledStays
<1>12. \A m \in Nodes, i \in ClaimIds : Filed(m, i) =>
         (m # n \/ i # k) /\ Filed(m, i)' /\ Filing(m, i)' = Filing(m, i)
  BY <1>5, <1>6, FiledKept
<1>13. /\ \A x : MarkedSold(x) => MarkedSold(x)'
       /\ \A x : MarkedSettled(x) => MarkedSettled(x)'
  BY <1>2, MarksStay
<1>14. ASSUME NEW m \in Nodes PROVE (Asked(m)' <=> Asked(m)) /\ Asking(m)' = Asking(m)
  BY <1>2 DEF Asked, Insured, Asking
<1>15. BoughtOnce'  BY <1>1, <1>2, <1>13, <1>14 DEF BoughtOnce
<1>16. PaidOnce'
  <2> SUFFICES ASSUME NEW m \in Nodes, NEW i \in ClaimIds, payments[m][i] # 0
               PROVE  /\ i \in 1..Len(claims'[m]) /\ (~Notifies => payments[m][i] = 1)
                      /\ Filed(m, i)' => MarkedSettled(Filing(m, i))'
    BY <1>2 DEF PaidOnce
  <2>1. /\ i \in 1..Len(claims[m]) /\ (~Notifies => payments[m][i] = 1)
        /\ Filed(m, i) => MarkedSettled(Filing(m, i))
    BY <1>1 DEF PaidOnce
  <2>2. m # n \/ i # k  BY <1>5, <1>6, <2>1
  <2>3. i \in 1..Len(claims'[m])
    <3>1. CASE m = n  BY <1>5, <1>6, <2>1, <3>1
    <3> QED BY <1>5, <1>6, <2>1, <3>1
  <2>4. Filed(m, i)' => Filed(m, i) /\ Filing(m, i)' = Filing(m, i)  BY <1>9, <2>2
  <2> QED BY <1>13, <2>1, <2>3, <2>4
<1>17. CallsType' /\ CallsOpen'  BY <1>1, <1>2, <1>12, CallsStay
<1>18. MarkedWasDone'
  <2>1. Filing(n, k)' \notin settled
    <3>1. Filing(n, k)' = <<p, NextDispute(p)>>  BY <1>4, <1>6 DEF Filing
    <3> QED BY <1>1, <1>3, <3>1 DEF RuledFor, Acted
  <2>2. ASSUME NEW m \in Nodes, NEW i \in ClaimIds, Filed(m, i)', Filing(m, i)' \in settled
        PROVE  payments[m][i] # 0
    <3>1. m # n \/ i # k  BY <2>1, <2>2
    <3>2. Filed(m, i) /\ Filing(m, i)' = Filing(m, i)  BY <1>9, <2>2, <3>1
    <3> QED BY <1>1, <2>2, <3>2 DEF MarkedWasDone
  <2> QED BY <1>1, <1>2, <1>14, <2>2 DEF MarkedWasDone
<1> QED BY <1>7, <1>8, <1>10, <1>11, <1>15, <1>16, <1>17, <1>18 DEF RequestsInv

\* A payment is counted.
LEMMA PaymentCounted ==
  ASSUME ClaimType, NEW n \in Nodes, NEW k \in ClaimIds, NEW amount, Pay(n, k, amount)
  PROVE  /\ payments' \in [Nodes -> [ClaimIds -> Nat]]
         /\ payments'[n][k] # 0 /\ (payments[n][k] = 0 => payments'[n][k] = 1)
         /\ \A m \in Nodes, i \in ClaimIds : m # n \/ i # k => payments'[m][i] = payments[m][i]
<1>1. payments \in [Nodes -> [ClaimIds -> Nat]] /\ payments[n][k] \in Nat  BY DEF ClaimType
<1>2. payments' = [payments EXCEPT ![n] = [payments[n] EXCEPT ![k] = payments[n][k] + 1]]
  BY <1>1 DEF Pay
<1>3. payments[n][k] + 1 # 0 /\ payments[n][k] + 1 \in Nat  BY <1>1
<1> QED BY <1>1, <1>2, <1>3

\* An approved claim is paid.
LEMMA ClaimFinalizeKeeps ==
  ASSUME RequestsInv, Callable, NEW n \in Nodes, NEW id \in ClaimIds, ClaimFinalize(n, id)
  PROVE  RequestsInv'
<1> DEFINE c == claims[n][id]
           call == [next |-> "settled", node |-> n, dispute |-> Filing(n, id)]
<1>1. /\ RegistryType /\ ClaimType /\ OwnDisputes /\ RuledFor /\ BoughtOnce /\ PaidOnce
      /\ CallsType /\ CallsOpen /\ MarkedWasDone
  BY DEF RequestsInv
<1>2. claims[n] \in Seq(Filings)  BY <1>1 DEF ClaimType
<1>3. /\ id \in 1..Len(claims[n]) /\ c.approver \in Proxies /\ Filing(n, id) \notin settled
      /\ disputes[c.approver][c.dispute] = 1
      /\ Pay(n, id, c.amount) /\ underway' = <<call>> \o underway
      /\ UNCHANGED <<trusted, insurances, sold, income, premiums, claims, settled, disputes, signed>>
  BY <1>2, LenProperties DEF ClaimFinalize, Executable, Begin, registry, Filing
<1>4. Filed(n, id) /\ Numbered(Filing(n, id))  BY <1>1, <1>3 DEF Filed, OwnDisputes
<1>5. c \in Filings  BY <1>2, <1>3, ElementOfSeq
<1>6. ~Notifies => underway = << >> /\ OpenCalls = {}
  BY EmptySeq DEF Callable, OpenCalls, ToSet
<1>7. ~Notifies => payments[n][id] = 0
  BY <1>1, <1>3, <1>4, <1>6 DEF PaidOnce, MarkedSettled
<1>8. /\ payments' \in [Nodes -> [ClaimIds -> Nat]] /\ payments'[n][id] # 0
      /\ payments[n][id] = 0 => payments'[n][id] = 1
      /\ \A m \in Nodes, i \in ClaimIds : m # n \/ i # id => payments'[m][i] = payments[m][i]
  BY <1>1, <1>3, PaymentCounted
<1>9. call \in Calls  BY <1>3, <1>5 DEF Calls, Filing, Filings
<1>10. /\ underway' \in Seq(Calls) /\ Len(underway') = Len(underway) + 1
       /\ OpenCalls' = OpenCalls \cup {call}
  <2>1. underway \in Seq(Calls)  BY <1>1 DEF CallsType
  <2> HIDE DEF call
  <2> QED BY <1>3, <1>9, <2>1, Pushed DEF OpenCalls
<1>11. call.next = "settled" /\ call.node = n /\ call.dispute = Filing(n, id)  OBVIOUS
<1> HIDE DEF c, call
<1>12. RegistryType'  BY <1>1, <1>3 DEF RegistryType
<1>13. ClaimType'  BY <1>1, <1>3, <1>8 DEF ClaimType
<1>14. ASSUME NEW m \in Nodes
       PROVE  /\ (Asked(m)' <=> Asked(m)) /\ Asking(m)' = Asking(m)
              /\ \A k \in ClaimIds : (Filed(m, k)' <=> Filed(m, k)) /\ Filing(m, k)' = Filing(m, k)
  BY <1>3 DEF Asked, Insured, Asking, Filed, Filing
<1>15. OwnDisputes'  BY <1>1, <1>3, <1>14 DEF OwnDisputes, RequestsHaveTheirOwnDispute, Numbered
<1>16. RuledFor'
  <2>1. Extended  BY <1>3 DEF Extended
  <2>2. ASSUME NEW p \in Proxies, NEW d \in Nat, <<p, d>> \in Acted'
        PROVE  \/ <<p, d>> \in Acted
               \/ d \in 1..Len(disputes'[p]) /\ disputes'[p][d] = 1
    <3>1. <<p, d>> \in Acted \/ <<p, d>> = Filing(n, id)
      BY <1>3, <1>10, <1>11, <2>2 DEF Acted
    <3>2. CASE <<p, d>> = Filing(n, id)
      <4>1. p = c.approver /\ d = c.dispute  BY <3>2 DEF Filing, c
      <4>2. d \in 1..Len(disputes[p]) /\ disputes[p][d] = 1
        BY <1>3, <1>4, <4>1 DEF Numbered, Filing, c
      <4> QED BY <1>3, <4>2
    <3> QED BY <3>1, <3>2
  <2> QED BY <1>1, <2>1, <2>2, RuledStays
<1>17. \A x : (MarkedSold(x) => MarkedSold(x)') /\ (MarkedSettled(x) => MarkedSettled(x)')
  BY <1>3, <1>10 DEF MarkedSold, MarkedSettled
<1>18. BoughtOnce'  BY <1>1, <1>3, <1>14, <1>17 DEF BoughtOnce
<1>19. PaidOnce'
  <2> SUFFICES ASSUME NEW m \in Nodes, NEW i \in ClaimIds, payments'[m][i] # 0
               PROVE  /\ i \in 1..Len(claims'[m]) /\ (~Notifies => payments'[m][i] = 1)
                      /\ Filed(m, i)' => MarkedSettled(Filing(m, i))'
    BY DEF PaidOnce
  <2>1. CASE m = n /\ i = id
    <3>1. MarkedSettled(Filing(n, id))'
      BY <1>3, <1>10, <1>11, <1>14 DEF MarkedSettled, Filing
    <3> QED BY <1>3, <1>7, <1>8, <2>1, <3>1
  <2>2. CASE m # n \/ i # id  BY <1>1, <1>3, <1>8, <1>14, <1>17, <2>2 DEF PaidOnce
  <2> QED BY <2>1, <2>2
<1>20. CallsType'
  <2>1. ~Notifies => Len(underway) = 0  BY <1>6, EmptySeq
  <2> QED BY <1>10, <2>1 DEF CallsType
<1>21. CallsOpen'
  <2>1. ASSUME NEW o \in OpenCalls
        PROVE  /\ o.next \in {"collect", "sold"} =>
                     /\ Asked(o.node)' /\ insurances'[o.node].pool = "this"
                     /\ o.dispute = Asking(o.node)'
               /\ o.next = "collect" /\ ~Notifies => premiums'[o.node] = << >>
               /\ o.next = "sold" => premiums'[o.node] # << >>
    BY <1>1, <1>3 DEF CallsOpen, Asked, Insured, Asking
  <2>2. ASSUME NEW o \in OpenCalls, o.next = "settled"
        PROVE  \E k \in ClaimIds : /\ Filed(o.node, k)' /\ o.dispute = Filing(o.node, k)'
                                   /\ payments'[o.node][k] # 0
    <3>1. PICK k \in ClaimIds : /\ Filed(o.node, k) /\ o.dispute = Filing(o.node, k)
                                /\ payments[o.node][k] # 0
      BY <1>1, <2>2 DEF CallsOpen
    <3>2. o.node \in Nodes
      <4>1. underway \in Seq(Calls)  BY <1>1 DEF CallsType
      <4>2. o \in Calls
        <5> HIDE DEF Calls
        <5> QED BY <4>1, LenProperties DEF OpenCalls, ToSet
      <4> QED BY <4>2 DEF Calls
    <3>3. payments'[o.node][k] # 0  BY <1>8, <3>1, <3>2
    <3> QED BY <1>14, <3>1, <3>2, <3>3
  <2>3. ASSUME NEW o, o = call
        PROVE  /\ o.next = "settled" /\ Filed(o.node, id)' /\ o.dispute = Filing(o.node, id)'
               /\ payments'[o.node][id] # 0
    <3>1. o.node = n /\ o.next = "settled" /\ o.dispute = Filing(n, id)  BY <1>11, <2>3
    <3> QED BY <1>4, <1>8, <1>14, <3>1
  <2>4. ASSUME NEW o \in OpenCalls'
        PROVE  /\ o.next \in {"collect", "sold"} =>
                     /\ Asked(o.node)' /\ insurances'[o.node].pool = "this"
                     /\ o.dispute = Asking(o.node)'
               /\ o.next = "collect" /\ ~Notifies => premiums'[o.node] = << >>
               /\ o.next = "sold" => premiums'[o.node] # << >>
               /\ o.next = "settled" =>
                     \E k \in ClaimIds : /\ Filed(o.node, k)' /\ o.dispute = Filing(o.node, k)'
                                         /\ payments'[o.node][k] # 0
    <3>1. CASE o = call
      <4>1. o.next # "collect" /\ o.next # "sold"  BY <2>3, <3>1
      <4> QED BY <2>3, <3>1, <4>1
    <3>2. CASE o \in OpenCalls  BY <2>1, <2>2, <3>2
    <3> QED BY <1>10, <2>4, <3>1, <3>2
  <2> QED BY <2>4 DEF CallsOpen
<1>22. MarkedWasDone'
  <2>1. ASSUME NEW m \in Nodes, NEW k \in ClaimIds, Filed(m, k), Filing(m, k) \in settled
        PROVE  payments'[m][k] # 0
    <3>1. payments[m][k] # 0  BY <1>1, <2>1 DEF MarkedWasDone
    <3> QED BY <1>8, <3>1
  <2> QED BY <1>1, <1>3, <1>14, <2>1 DEF MarkedWasDone
<1> QED
  BY <1>12, <1>13, <1>15, <1>16, <1>18, <1>19, <1>20, <1>21, <1>22 DEF RequestsInv

\* A claim is made and paid with a signature, in one call.
LEMMA SignedClaimKeeps ==
  ASSUME RequestsInv, NEW s \in ClaimStatements, ClaimWithSignature(s)
  PROVE  RequestsInv'
<1> DEFINE c == Claim(s.amount, s.operator, s.nonce)
           n == s.node
           k == s.id
<1>1. /\ RegistryType /\ ClaimType /\ OwnDisputes /\ RuledFor /\ BoughtOnce /\ PaidOnce
      /\ CallsType /\ CallsOpen /\ MarkedWasDone
  BY DEF RequestsInv
<1>2. /\ n \in Nodes /\ k \in ClaimIds /\ s.amount \in Amounts
      /\ s.operator \in Operators /\ s.operator \notin Proxies /\ s.nonce \in Nat
  BY VeryInsureAssumption DEF ClaimStatements
<1>3. /\ k = Len(claims[n]) + 1 /\ claims' = [claims EXCEPT ![n] = Append(@, c)]
      /\ Pay(n, k, s.amount) /\ settled' = settled \cup {<<s.operator, s.nonce>>}
      /\ UNCHANGED <<trusted, insurances, sold, income, premiums, disputes, signed, underway>>
  BY DEF ClaimWithSignature, registry, arbitration
<1>4. c \in Filings /\ c.approver = s.operator  BY <1>2, ClaimFields DEF Approvers
<1> HIDE DEF c, n, k
<1>5. /\ claims' \in [Nodes -> Seq(Filings)]
      /\ \A m \in Nodes : Len(claims'[m]) <= MaxClaims
      /\ Len(claims[n]) \in Nat /\ Len(claims'[n]) = k
      /\ claims'[n][k] = c
      /\ \A m \in Nodes : m # n => claims'[m] = claims[m]
      /\ \A i \in 1..Len(claims[n]) : claims'[n][i] = claims[n][i]
  BY <1>1, <1>2, <1>3, <1>4, ClaimAdded
<1>6. \A m \in Nodes, i \in ClaimIds : m # n \/ i # k =>
        (Filed(m, i)' => Filed(m, i) /\ Filing(m, i)' = Filing(m, i))
  BY <1>2, <1>3, <1>5, FiledStays
<1>7. ~Filed(n, k)'  BY <1>2, <1>4, <1>5 DEF Filed, n, k
<1>8. payments[n][k] = 0  BY <1>1, <1>2, <1>3, <1>5 DEF PaidOnce
<1>9. /\ payments' \in [Nodes -> [ClaimIds -> Nat]] /\ payments'[n][k] = 1
      /\ payments'[n][k] # 0
      /\ \A m \in Nodes, i \in ClaimIds : m # n \/ i # k => payments'[m][i] = payments[m][i]
  BY <1>1, <1>2, <1>3, <1>8, PaymentCounted
<1>10. RegistryType'  BY <1>1, <1>3 DEF RegistryType
<1>11. ClaimType'
  <2>1. settled' \subseteq Approvers \X Nat  BY <1>1, <1>2, <1>3 DEF ClaimType, Approvers
  <2> QED BY <1>1, <1>3, <1>5, <1>9, <2>1 DEF ClaimType
<1>12. Extended  BY <1>3 DEF Extended
<1>13. OwnDisputes'  BY <1>1, <1>2, <1>3, <1>6, <1>7, <1>12, OwnWithClaim
<1>14. \A p \in Proxies, d \in Nat : <<p, d>> # <<s.operator, s.nonce>>  BY <1>2
<1>15. RuledFor'
  <2>1. ASSUME NEW p \in Proxies, NEW d \in Nat, <<p, d>> \in Acted' PROVE <<p, d>> \in Acted
    BY <1>3, <1>14, <2>1 DEF Acted, OpenCalls
  <2> QED BY <1>1, <1>12, <2>1, RuledStays
<1>16. \A m \in Nodes, i \in ClaimIds : Filed(m, i) =>
         (m # n \/ i # k) /\ Filed(m, i)' /\ Filing(m, i)' = Filing(m, i)
  BY <1>2, <1>3, <1>5, FiledKept
<1>17. /\ \A x : MarkedSold(x) => MarkedSold(x)'
       /\ \A x : MarkedSettled(x) => MarkedSettled(x)'
  BY <1>3, MarksStay
<1>18. ASSUME NEW m \in Nodes PROVE (Asked(m)' <=> Asked(m)) /\ Asking(m)' = Asking(m)
  BY <1>3 DEF Asked, Insured, Asking
<1>19. BoughtOnce'  BY <1>1, <1>3, <1>17, <1>18 DEF BoughtOnce
<1>20. ASSUME NEW m \in Nodes, NEW i \in ClaimIds, m = n /\ i = k PROVE ~Filed(m, i)'
  BY <1>2, <1>4, <1>5, <1>20 DEF Filed
<1>21. PaidOnce'
  <2> SUFFICES ASSUME NEW m \in Nodes, NEW i \in ClaimIds, payments'[m][i] # 0
               PROVE  /\ i \in 1..Len(claims'[m]) /\ (~Notifies => payments'[m][i] = 1)
                      /\ Filed(m, i)' => MarkedSettled(Filing(m, i))'
    BY DEF PaidOnce
  <2>1. CASE m = n /\ i = k
    BY <1>2, <1>5, <1>9, <1>20, <2>1 DEF ClaimIds
  <2>2. CASE m # n \/ i # k
    <3>1. /\ payments[m][i] # 0 /\ (~Notifies => payments'[m][i] = 1) /\ i \in 1..Len(claims[m])
          /\ Filed(m, i) => MarkedSettled(Filing(m, i))
      BY <1>1, <1>9, <2>2 DEF PaidOnce
    <3>2. i \in 1..Len(claims'[m])
      <4>1. CASE m = n  BY <1>3, <1>5, <3>1, <4>1
      <4> QED BY <1>5, <3>1, <4>1
    <3>3. Filed(m, i)' => Filed(m, i) /\ Filing(m, i)' = Filing(m, i)  BY <1>6, <2>2
    <3> QED BY <1>17, <3>1, <3>2, <3>3
  <2> QED BY <2>1, <2>2
<1>22. CallsType' /\ CallsOpen'
  <2>1. \A m \in Nodes, i \in ClaimIds :
          Filed(m, i) /\ payments[m][i] # 0 => payments'[m][i] # 0
    BY <1>9, <1>16
  <2> QED BY <1>1, <1>3, <1>16, <2>1, CallsStay
<1>23. MarkedWasDone'
  <2>1. ASSUME NEW m \in Nodes, NEW i \in ClaimIds, Filed(m, i)', Filing(m, i)' \in settled'
        PROVE  payments'[m][i] # 0
    <3>1. m # n \/ i # k  BY <1>20, <2>1
    <3>2. Filed(m, i) /\ Filing(m, i)' = Filing(m, i)  BY <1>6, <2>1, <3>1
    <3>3. Filing(m, i) \in settled
      <4>1. Filing(m, i) # <<s.operator, s.nonce>>  BY <1>2, <3>2 DEF Filed, Filing
      <4> QED BY <1>3, <2>1, <3>2, <4>1
    <3>4. payments[m][i] # 0  BY <1>1, <3>2, <3>3 DEF MarkedWasDone
    <3> QED BY <1>9, <3>1, <3>4
  <2> QED BY <1>1, <1>3, <1>18, <2>1 DEF MarkedWasDone
<1> QED
  BY <1>10, <1>11, <1>13, <1>15, <1>19, <1>21, <1>22, <1>23 DEF RequestsInv

----------------------------------------------------------------------------
(* The inductive invariant holds.                                          *)

\* Nothing has been asked for and nothing filed.
LEMMA SystemStart == ASSUME SystemInit PROVE SystemInv
<1>1. Init /\ held = 0  BY DEF SystemInit, Init
<1>2. VaultBounded  BY <1>1, VaultStart, PoolAssumption DEF VaultBounded
<1>3. /\ trusted = {} /\ sold = {} /\ settled = {} /\ signed = {} /\ underway = << >>
      /\ income = [owners |-> 0, factory |-> 0]
      /\ claims = [n \in Nodes |-> << >>] /\ disputes = [p \in Proxies |-> << >>]
      /\ premiums = [n \in Nodes |-> << >>]
      /\ payments = [n \in Nodes |-> [id \in ClaimIds |-> 0]]
  BY DEF SystemInit
<1>4. ASSUME NEW n \in Nodes
      PROVE  insurances[n] \in {NoInsurance} \cup Requests /\ ~Asked(n)
  <2> DEFINE e == [Insurance(0, MaxTime + 1, "elsewhere", 0) EXCEPT !.pool = "other"]
  <2>1. insurances[n] = IF n \in ForeignNodes THEN e ELSE NoInsurance  BY DEF SystemInit
  <2>2. e \in Requests /\ e.pool = "other" /\ e.approver = "elsewhere"
    BY DEF Insurance, Requests
  <2>3. NoInsurance.pool = "none"  BY DEF NoInsurance
  <2> HIDE DEF e
  <2> QED BY <2>1, <2>2, <2>3, VeryInsureAssumption DEF Asked, Insured
<1>5. DOMAIN insurances = Nodes /\ insurances = [n \in Nodes |-> insurances[n]]
  BY DEF SystemInit
<1>6. \A S : << >> \in Seq(S) /\ Len(<< >>) = 0  BY EmptySeq
<1>7. RegistryType  BY <1>3, <1>4, <1>5, <1>6 DEF RegistryType
<1>8. ClaimType
  <2>1. \A n \in Nodes : Len(claims[n]) <= MaxClaims  BY <1>3, <1>6, VeryInsureAssumption
  <2> QED BY <1>3, <1>6, <2>1 DEF ClaimType
<1>9. OwnDisputes  BY <1>3, <1>4, <1>6 DEF OwnDisputes, RequestsHaveTheirOwnDispute, Filed
<1>10. OpenCalls = {}  BY <1>3 DEF OpenCalls, ToSet
<1>11. RuledFor /\ BoughtOnce /\ PaidOnce
  BY <1>3, <1>10 DEF RuledFor, Acted, BoughtOnce, PaidOnce
<1>12. CallsType /\ CallsOpen /\ MarkedWasDone
  BY <1>3, <1>6, <1>10 DEF CallsType, CallsOpen, MarkedWasDone
<1> QED BY <1>2, <1>7, <1>8, <1>9, <1>11, <1>12 DEF SystemInv, RequestsInv

\* What touches nothing but the vault leaves the requests alone.
LEMMA UntouchedKeeps ==
  ASSUME RequestsInv, UNCHANGED <<registry, claiming, arbitration>>
  PROVE  RequestsInv'
<1>1. UNCHANGED <<trusted, insurances, sold, income, premiums, claims, settled, payments,
                  disputes, signed, underway>>
  BY DEF registry, claiming, arbitration
<1>2. RegistryType' /\ ClaimType'  BY <1>1 DEF RequestsInv, RegistryType, ClaimType
<1>3. OwnDisputes'
  BY <1>1 DEF RequestsInv, OwnDisputes, RequestsHaveTheirOwnDispute,
              Asked, Insured, Filed, Asking, Filing, Numbered
<1>4. RuledFor'  BY <1>1 DEF RequestsInv, RuledFor, Acted, OpenCalls
<1>5. BoughtOnce' /\ PaidOnce' /\ CallsType' /\ CallsOpen' /\ MarkedWasDone'
  BY <1>1, RequestsStay
<1> QED BY <1>2, <1>3, <1>4, <1>5 DEF RequestsInv

\* A ruling, a signature and a change of trust keep the requests apart.
LEMMA ApprovalKeeps == ASSUME RequestsInv, Approval PROVE RequestsInv'
<1>1. /\ RegistryType /\ ClaimType /\ OwnDisputes /\ RuledFor /\ BoughtOnce /\ PaidOnce
      /\ DisputesType
  BY DEF RequestsInv, ClaimType, DisputesType
<1>2. ASSUME NEW p \in Proxies, NEW d \in DOMAIN disputes[p], NEW r \in Rulings, Rule(p, d, r)
      PROVE  RequestsInv'
  <2>1. UNCHANGED <<trusted, insurances, sold, income, premiums, claims, settled, payments, signed,
                   underway>>
    BY <1>2 DEF Rule, registry, claiming
  <2>2. DisputesType' /\ Extended  BY <1>1, <1>2, RuledOnce
  <2>3. RegistryType'  BY <1>1, <2>1 DEF RegistryType
  <2>4. ClaimType'  BY <1>1, <2>1, <2>2 DEF ClaimType, DisputesType
  <2>5. OwnDisputes'
    <3>1. \A n \in Nodes : Numbered(Asking(n)) /\ Asked(n) => Numbered(Asking(n))'
      BY <2>1, <2>2, NumberedStays DEF Numbered, Asking, Asked, Insured
    <3>2. \A n \in Nodes, i \in ClaimIds :
             Numbered(Filing(n, i)) /\ Filed(n, i) => Numbered(Filing(n, i))'
      BY <2>1, <2>2, NumberedStays DEF Numbered, Filing, Filed
    <3>3. /\ \A n \in Nodes : (Asked(n)' <=> Asked(n)) /\ Asking(n)' = Asking(n)
          /\ \A n \in Nodes, i \in ClaimIds :
                (Filed(n, i)' <=> Filed(n, i)) /\ Filing(n, i)' = Filing(n, i)
      BY <2>1 DEF Asked, Insured, Asking, Filed, Filing
    <3> QED BY <1>1, <3>1, <3>2, <3>3 DEF OwnDisputes, RequestsHaveTheirOwnDispute
  <2>6. RuledFor'
    <3>1. Acted' = Acted  BY <2>1 DEF Acted, OpenCalls
    <3> QED BY <1>1, <2>2, <3>1, RuledStays
  <2>7. BoughtOnce' /\ PaidOnce' /\ CallsType' /\ CallsOpen' /\ MarkedWasDone'
    BY <2>1, RequestsStay
  <2> QED BY <2>3, <2>4, <2>5, <2>6, <2>7 DEF RequestsInv
<1>3. ASSUME NEW s \in PurchaseStatements \cup ClaimStatements, Sign(s) PROVE RequestsInv'
  <2>1. /\ UNCHANGED <<trusted, insurances, sold, income, premiums, claims, settled, payments,
                       disputes, underway>>
        /\ signed' = signed \cup {s}
    BY <1>3 DEF Sign, registry, claiming
  <2>2. signed' \subseteq PurchaseStatements \cup ClaimStatements
    BY <1>1, <2>1 DEF RegistryType
  <2>3. RegistryType'  BY <1>1, <2>1, <2>2 DEF RegistryType
  <2>4. ClaimType'  BY <1>1, <2>1 DEF ClaimType
  <2>5. OwnDisputes'  BY <1>1, <2>1 DEF OwnDisputes, RequestsHaveTheirOwnDispute, Asked, Insured, Filed, Asking, Filing, Numbered
  <2>6. RuledFor'  BY <1>1, <2>1 DEF RuledFor, Acted, OpenCalls
  <2>7. BoughtOnce' /\ PaidOnce' /\ CallsType' /\ CallsOpen' /\ MarkedWasDone'
    BY <2>1, RequestsStay
  <2> QED BY <2>3, <2>4, <2>5, <2>6, <2>7 DEF RequestsInv
<1> QED BY <1>2, <1>3 DEF Approval

LEMMA TrustKeeps ==
  ASSUME RequestsInv, NEW p \in Proxies, NEW trust \in BOOLEAN, SetTrustedArbitrableProxy(p, trust)
  PROVE  RequestsInv'
<1>1. /\ RegistryType /\ ClaimType /\ OwnDisputes /\ RuledFor /\ BoughtOnce /\ PaidOnce
  BY DEF RequestsInv
<1>2. /\ UNCHANGED <<insurances, sold, income, premiums, claims, settled, payments, disputes, signed,
                     underway>>
      /\ trusted' = IF trust THEN trusted \cup {p} ELSE trusted \ {p}
  BY DEF SetTrustedArbitrableProxy, claiming, arbitration
<1>3. trusted' \subseteq Proxies  BY <1>1, <1>2 DEF RegistryType
<1>4. RegistryType'  BY <1>1, <1>2, <1>3 DEF RegistryType
<1>5. ClaimType'  BY <1>1, <1>2 DEF ClaimType
<1>6. OwnDisputes'  BY <1>1, <1>2 DEF OwnDisputes, RequestsHaveTheirOwnDispute, Asked, Insured, Filed, Asking, Filing, Numbered
<1>7. RuledFor'  BY <1>1, <1>2 DEF RuledFor, Acted, OpenCalls
<1>8. BoughtOnce' /\ PaidOnce' /\ CallsType' /\ CallsOpen' /\ MarkedWasDone'
  BY <1>2, RequestsStay
<1> QED BY <1>4, <1>5, <1>6, <1>7, <1>8 DEF RequestsInv

\* Every step of the system keeps the inductive invariant.
LEMMA SystemKeeps == ASSUME SystemInv, [SystemNext]_allVars PROVE SystemInv'
<1>1. VaultBounded /\ RequestsInv /\ RegistryType /\ ClaimType /\ CallsType /\ CallsOpen
  BY DEF SystemInv, RequestsInv
<1>2. VaultBounded'  BY <1>1, SystemStepsVault, HeldBounded
<1>3. ASSUME VaultStep PROVE RequestsInv'
  BY <1>1, <1>3, UntouchedKeeps DEF VaultStep
<1>4. ASSUME Callable, Purchase PROVE RequestsInv'
  <2>1. ASSUME NEW s \in signed, s.kind = "purchase", BuyInsuranceWithSignature(s)
        PROVE  RequestsInv'
    <3>1. s \in PurchaseStatements  BY <1>1, <2>1 DEF RegistryType, ClaimStatements
    <3> QED BY <1>1, <2>1, <3>1, SignedPurchaseKeeps
  <2> QED BY <1>1, <1>4, <2>1, TrustKeeps, RequestKeeps, FinalizeKeeps DEF Purchase
<1>5. ASSUME Callable, Claiming PROVE RequestsInv'
  <2>1. ASSUME NEW s \in signed, s.kind = "claim", ClaimWithSignature(s) PROVE RequestsInv'
    <3>1. s \in ClaimStatements  BY <1>1, <2>1 DEF RegistryType, PurchaseStatements
    <3> QED BY <1>1, <2>1, <3>1, SignedClaimKeeps
  <2> QED BY <1>1, <1>5, <2>1, ClaimRequestKeeps, ClaimFinalizeKeeps DEF Claiming
<1>6. ASSUME Approval PROVE RequestsInv'
  BY <1>1, <1>6, ApprovalKeeps
<1>7. ASSUME CollectPremium PROVE RequestsInv'
  <2>1. PICK n \in Nodes : n = Head(underway).node
    BY <1>1, <1>7, CollectsForRequest
  <2> QED BY <1>1, <1>7, <2>1, CollectKeeps
<1>8. ASSUME CollectionReverts \/ MarkDisputeExecuted PROVE RequestsInv'
  BY <1>1, <1>8, ReturnKeeps
<1>9. ASSUME UNCHANGED allVars PROVE RequestsInv'
  BY <1>1, <1>9, UntouchedKeeps DEF allVars
<1> QED BY <1>2, <1>3, <1>4, <1>5, <1>6, <1>7, <1>8, <1>9 DEF SystemNext, SystemInv

\* The inductive invariant holds in every reachable state.
LEMMA SystemInvariant == SystemSpec => []SystemInv
<1>1. SystemInit => SystemInv  BY SystemStart
<1>2. SystemInv /\ [SystemNext]_allVars => SystemInv'  BY SystemKeeps
<1> QED BY <1>1, <1>2, PTL DEF SystemSpec

----------------------------------------------------------------------------
(* What is promised.                                                       *)

\* Around the vault the registrar and the claims call it only as it expects:
\* every behaviour of the system is, for the vault, one of its own.
THEOREM SystemUsesVault == SystemSpec => Spec
<1>1. SystemInit => Init  BY DEF SystemInit
<1>2. SystemInv /\ [SystemNext]_allVars => [Next]_vars
  BY SystemStepsVault DEF SystemInv, RequestsInv
<1> QED BY <1>1, <1>2, SystemInvariant, PTL DEF SystemSpec, Spec

\* So what holds of the vault holds when its claims come through arbitration.
THEOREM SystemKeepsVault ==
  SystemSpec => /\ [](LedgerMirrorsShares /\ ReserveHolds /\ WaysOutAgree)
                /\ LeaversDiluteNobody /\ ExpiredForGood /\ LedgerSpec
<1> QED
  BY SystemUsesVault, PoolMirrored, PoolReserved, PoolWaysOut, PoolUndiluted, PoolExpired,
     PoolCallsLedger, PTL

\* Every variable of the registrar, the claims and the arbitration has its type.
THEOREM SystemTyped == SystemSpec => []SystemTypeOK
<1>1. ASSUME SystemInv PROVE SystemTypeOK
  <2>1. VaultInv /\ RegistryType /\ ClaimType /\ CallsType
    BY <1>1 DEF SystemInv, RequestsInv, VaultBounded
  <2>2. TypeOK
    BY <2>1, SameLedger DEF VaultInv, SharesInv, Mirrors, Ledger!LedgerInv, TypeOK
  <2>3. ASSUME NEW n \in Nodes, Insured(n)
        PROVE  /\ insurances[n].price \in Prices \cup {0}
               /\ insurances[n].expiration \in Terms \cup {MaxTime + 1}
    BY <2>1, <2>3, Requested DEF Requests
  <2> QED BY <2>1, <2>2, <2>3 DEF SystemTypeOK, RegistryType, ClaimType, CallsType, Approvers
<1> QED BY <1>1, SystemInvariant, PTL

\* A contract acts on a dispute only after a ruling for the request.
THEOREM SystemRuled == SystemSpec => []ActedOnlyOnRulingsFor
<1>1. ASSUME SystemInv PROVE ActedOnlyOnRulingsFor
  <2>1. RuledFor /\ DisputesType
    BY <1>1 DEF SystemInv, RequestsInv, ClaimType, DisputesType
  <2> SUFFICES ASSUME NEW p \in Proxies, NEW d \in 1..MaxDisputes, <<p, d>> \in sold \cup settled
               PROVE  d \in DOMAIN disputes[p] /\ disputes[p][d] = 1
    BY DEF ActedOnlyOnRulingsFor
  <2>2. d \in 1..Len(disputes[p]) /\ disputes[p][d] = 1  BY <2>1 DEF RuledFor, Acted
  <2>3. disputes[p] \in Seq(Rulings \cup {Unruled})  BY <2>1 DEF DisputesType
  <2> QED BY <2>2, <2>3, LenProperties
<1> QED BY <1>1, SystemInvariant, PTL

\* Each request and each claim stands or falls with a dispute of its own.
THEOREM SystemDisputes == SystemSpec => []RequestsHaveTheirOwnDispute
<1>1. SystemInv => RequestsHaveTheirOwnDispute  BY DEF SystemInv, RequestsInv, OwnDisputes
<1> QED BY <1>1, SystemInvariant, PTL

----------------------------------------------------------------------------
(* What a step may never do.                                               *)

\* Most calls insure nobody and collect nothing.
LEMMA NothingBought ==
  ASSUME \/ VaultStep \/ Claiming \/ Approval
         \/ \E p \in Proxies, trust \in BOOLEAN : SetTrustedArbitrableProxy(p, trust)
         \/ \E n \in Nodes : BuyInsuranceFinalize(n)
         \/ CollectionReverts \/ MarkDisputeExecuted \/ UNCHANGED allVars
  PROVE  UNCHANGED <<insurances, premiums>>
BY DEF VaultStep, Claiming, ClaimWithArbitration, ClaimFinalize, ClaimWithSignature,
       Approval, Rule, Sign, SetTrustedArbitrableProxy, BuyInsuranceFinalize,
       CollectionReverts, MarkDisputeExecuted, registry, allVars

\* A purchase adds the price of the insurance it pays for, and only that.
LEMMA TermsStep ==
  ASSUME SystemInv, [SystemNext]_allVars, NEW n \in Nodes
  PROVE  /\ Insured(n) => insurances'[n] = insurances[n]
         /\ premiums'[n] # premiums[n] =>
               premiums'[n] = Append(premiums[n], insurances'[n].price)
<1>1. /\ insurances \in [Nodes -> {NoInsurance} \cup Requests] /\ premiums \in [Nodes -> Seq(Nat)]
      /\ signed \subseteq PurchaseStatements \cup ClaimStatements
  BY DEF SystemInv, RequestsInv, RegistryType
<1>2. ASSUME NEW m \in Nodes, NEW price \in Prices, NEW term \in Terms, NEW p \in Proxies,
             BuyInsuranceWithArbitration(m, price, term, p)
      PROVE  (Insured(n) => insurances'[n] = insurances[n]) /\ premiums'[n] = premiums[n]
  BY <1>1, <1>2 DEF BuyInsuranceWithArbitration
<1>3. ASSUME CollectPremium
      PROVE  /\ insurances'[n] = insurances[n]
             /\ premiums'[n] # premiums[n] =>
                   premiums'[n] = Append(premiums[n], insurances'[n].price)
  <2> DEFINE m == Head(underway).node
             price == insurances[m].price
  <2>1. m \in Nodes  BY <1>3, CollectsForRequest DEF SystemInv, RequestsInv
  <2>2. premiums' = [premiums EXCEPT ![m] = Append(@, price)] /\ UNCHANGED insurances
    BY <1>3 DEF CollectPremium, Buy
  <2>3. CASE n = m
    <3>1. insurances'[n].price = price  BY <2>2, <2>3
    <3> QED BY <1>1, <2>1, <2>2, <2>3, <3>1
  <2>4. CASE n # m  BY <1>1, <2>1, <2>2, <2>4
  <2> QED BY <2>3, <2>4
<1>4. ASSUME NEW s \in signed, s.kind = "purchase", BuyInsuranceWithSignature(s)
      PROVE  /\ Insured(n) => insurances'[n] = insurances[n]
             /\ premiums'[n] # premiums[n] =>
                   premiums'[n] = Append(premiums[n], insurances'[n].price)
  <2> DEFINE i == Insurance(s.price, s.term, s.operator, s.nonce)
  <2>1. s.node \in Nodes  BY <1>1, <1>4 DEF PurchaseStatements, ClaimStatements
  <2>2. /\ ~Insured(s.node) /\ insurances' = [insurances EXCEPT ![s.node] = i]
        /\ premiums' = [premiums EXCEPT ![s.node] = Append(@, i.price)]
    BY <1>4 DEF BuyInsuranceWithSignature, Buy
  <2> HIDE DEF i
  <2> QED BY <1>1, <2>1, <2>2
<1> QED BY <1>2, <1>3, <1>4, NothingBought DEF SystemNext, Purchase

\* An approved request is bought on its terms, and no insurance is replaced.
THEOREM SystemTerms == SystemSpec => TermsAreKept
<1> DEFINE Kept ==
      \A n \in Nodes :
         /\ Insured(n) => insurances'[n] = insurances[n]
         /\ premiums'[n] # premiums[n] =>
               premiums'[n] = Append(premiums[n], insurances'[n].price)
<1>1. SystemInv /\ [SystemNext]_allVars => [Kept]_allVars  BY TermsStep
<1> QED BY <1>1, SystemInvariant, PTL DEF SystemSpec, TermsAreKept

\* Claims are paid only while the pool runs and the insurance lasts.
THEOREM SystemCovered == SystemSpec => PaidOnlyWhileCovered
<1> DEFINE Covered ==
      payments' # payments =>
         /\ now < expiration
         /\ \E n \in Nodes : /\ payments'[n] # payments[n]
                             /\ insurances'[n].pool = "this"
                             /\ now < insurances'[n].expiration
<1>1. ASSUME SystemInv, [SystemNext]_allVars PROVE Covered
  <2>1. payments \in [Nodes -> [ClaimIds -> Nat]]
    BY <1>1 DEF SystemInv, RequestsInv, ClaimType
  <2>2. ASSUME \/ VaultStep \/ Purchase \/ Approval \/ CollectPremium \/ CollectionReverts
               \/ MarkDisputeExecuted \/ UNCHANGED allVars
        PROVE  UNCHANGED payments
    BY <2>2 DEF VaultStep, Purchase, SetTrustedArbitrableProxy, BuyInsuranceWithArbitration,
                BuyInsuranceFinalize, BuyInsuranceWithSignature, Approval, Rule, Sign,
                CollectPremium, CollectionReverts, MarkDisputeExecuted, claiming, allVars
  <2>3. ASSUME NEW n \in Nodes, NEW id \in ClaimIds, NEW amount, Pay(n, id, amount),
               UNCHANGED insurances
        PROVE  Covered
    <3>1. Claimable(n) /\ payments' = [payments EXCEPT ![n][id] = @ + 1]  BY <2>3 DEF Pay
    <3>2. payments[n][id] \in Nat /\ payments'[n][id] = payments[n][id] + 1  BY <2>1, <3>1
    <3>3. payments'[n] # payments[n]  BY <3>2
    <3> QED BY <2>3, <3>1, <3>3 DEF Claimable
  <2>4. ASSUME Claiming PROVE Covered
    <3>1. ASSUME NEW n \in Nodes, NEW amount \in Amounts, NEW p \in Proxies,
                 ClaimWithArbitration(n, amount, p)
          PROVE  UNCHANGED payments
      BY <3>1 DEF ClaimWithArbitration
    <3>2. ASSUME NEW n \in Nodes, NEW id \in ClaimIds, ClaimFinalize(n, id) PROVE Covered
      <4>1. Pay(n, id, claims[n][id].amount) /\ UNCHANGED insurances
        BY <3>2 DEF ClaimFinalize, registry
      <4> QED BY <2>3, <4>1
    <3>3. ASSUME NEW s \in signed, s.kind = "claim", ClaimWithSignature(s) PROVE Covered
      <4>1. s \in ClaimStatements
        BY <1>1, <3>3 DEF SystemInv, RequestsInv, RegistryType, PurchaseStatements
      <4>2. s.node \in Nodes /\ s.id \in ClaimIds  BY <4>1 DEF ClaimStatements
      <4>3. Pay(s.node, s.id, s.amount) /\ UNCHANGED insurances
        BY <3>3 DEF ClaimWithSignature, registry
      <4> QED BY <2>3, <4>2, <4>3
    <3> QED BY <2>4, <3>1, <3>2, <3>3 DEF Claiming
  <2> QED BY <1>1, <2>2, <2>4 DEF SystemNext
<1>2. SystemInv /\ [SystemNext]_allVars => [Covered]_allVars  BY <1>1
<1> QED BY <1>2, SystemInvariant, PTL DEF SystemSpec, PaidOnlyWhileCovered

\* A call that would collect begins only for a request that is not marked.
LEMMA CollectsUnmarked ==
  ASSUME SystemInv, [SystemNext]_allVars
  PROVE  /\ sold \subseteq sold'
         /\ \A call \in OpenCalls' : call.next = "collect" =>
               call \in OpenCalls \/ Asking(call.node) \notin sold
<1>1. CallsType /\ underway \in Seq(Calls)  BY DEF SystemInv, RequestsInv, CallsType
<1>2. ASSUME UNCHANGED underway PROVE OpenCalls' = OpenCalls  BY <1>2 DEF OpenCalls
<1>3. ASSUME VaultStep \/ Approval \/ UNCHANGED allVars PROVE UNCHANGED <<sold, underway>>
  BY <1>3 DEF VaultStep, Approval, Rule, Sign, registry, arbitration, allVars
<1>4. ASSUME NEW n \in Nodes, BuyInsuranceFinalize(n)
      PROVE  /\ UNCHANGED sold
             /\ \A call \in OpenCalls' : call \in OpenCalls \/ Asking(call.node) \notin sold
  <2> DEFINE x == Asking(n)
             c == [next |-> "collect", node |-> n, dispute |-> x]
  <2>1. /\ insurances[n].pool = "this" /\ insurances[n].approver \in Proxies /\ x \notin sold
        /\ underway' = <<c>> \o underway /\ UNCHANGED sold
    BY <1>4 DEF BuyInsuranceFinalize, Executable, Begin, registry, Asking
  <2>2. insurances[n] \in Requests
    BY <2>1, Requested DEF SystemInv, RequestsInv, Insured
  <2>3. c \in Calls  BY <2>1, <2>2 DEF Calls, Asking, Requests
  <2>4. c.node = n  OBVIOUS
  <2> HIDE DEF c
  <2>5. OpenCalls' = OpenCalls \cup {c}  BY <1>1, <2>1, <2>3, Pushed DEF OpenCalls
  <2> QED BY <2>1, <2>4, <2>5
<1>5. ASSUME Purchase PROVE /\ sold \subseteq sold'
                            /\ \A call \in OpenCalls' :
                                  call \in OpenCalls \/ Asking(call.node) \notin sold
  <2>1. ASSUME \A n \in Nodes : ~BuyInsuranceFinalize(n)
        PROVE  sold \subseteq sold' /\ UNCHANGED underway
    BY <1>5, <2>1 DEF Purchase, SetTrustedArbitrableProxy, BuyInsuranceWithArbitration,
                      BuyInsuranceWithSignature, arbitration
  <2> QED BY <1>2, <1>4, <2>1
<1>6. ASSUME Claiming
      PROVE  /\ UNCHANGED sold
             /\ \A call \in OpenCalls' : call.next = "collect" => call \in OpenCalls
  <2>1. ASSUME NEW n \in Nodes, NEW id \in ClaimIds, ClaimFinalize(n, id)
        PROVE  /\ UNCHANGED sold
               /\ \A call \in OpenCalls' : call.next = "collect" => call \in OpenCalls
    <3> DEFINE k == claims[n][id]
               c == [next |-> "settled", node |-> n, dispute |-> <<k.approver, k.dispute>>]
    <3>1. /\ id \in DOMAIN claims[n] /\ k.approver \in Proxies
          /\ underway' = <<c>> \o underway /\ UNCHANGED sold
      BY <2>1 DEF ClaimFinalize, Executable, Begin, registry
    <3>2. k \in Filings
      <4>1. claims[n] \in Seq(Filings)  BY DEF SystemInv, RequestsInv, ClaimType
      <4> QED BY <3>1, <4>1
    <3>3. c \in Calls  BY <3>1, <3>2 DEF Calls, Filings
    <3>4. c.next # "collect"  OBVIOUS
    <3> HIDE DEF c
    <3>5. OpenCalls' = OpenCalls \cup {c}  BY <1>1, <3>1, <3>3, Pushed DEF OpenCalls
    <3> QED BY <3>1, <3>4, <3>5
  <2>2. ASSUME \A n \in Nodes, id \in ClaimIds : ~ClaimFinalize(n, id)
        PROVE  UNCHANGED <<sold, underway>>
    BY <1>6, <2>2 DEF Claiming, ClaimWithArbitration, ClaimWithSignature, registry, arbitration
  <2> QED BY <1>2, <2>1, <2>2
<1>7. ASSUME CollectPremium
      PROVE  /\ UNCHANGED sold
             /\ \A call \in OpenCalls' : call.next = "collect" => call \in OpenCalls
  <2> DEFINE done == [Head(underway) EXCEPT !.next = "sold"]
             rest == Tail(underway)
  <2>1. underway # << >> /\ underway' = <<done>> \o rest /\ UNCHANGED sold
    BY <1>7 DEF CollectPremium
  <2>2. Head(underway) \in Calls /\ rest \in Seq(Calls) /\ ToSet(rest) \subseteq OpenCalls
    BY <1>1, <2>1, Popped
  <2>3. done \in Calls /\ done.next # "collect"  BY <2>2 DEF Calls
  <2> HIDE DEF done, rest
  <2>4. OpenCalls' = ToSet(rest) \cup {done}  BY <2>1, <2>2, <2>3, Pushed DEF OpenCalls
  <2> QED BY <2>1, <2>2, <2>3, <2>4
<1>8. ASSUME CollectionReverts \/ MarkDisputeExecuted
      PROVE  sold \subseteq sold' /\ OpenCalls' \subseteq OpenCalls
  <2>1. underway # << >> /\ underway' = Tail(underway) /\ sold \subseteq sold'
    BY <1>8 DEF CollectionReverts, MarkDisputeExecuted, registry
  <2> QED BY <1>1, <2>1, Popped DEF OpenCalls
<1> QED BY <1>2, <1>3, <1>5, <1>6, <1>7, <1>8 DEF SystemNext

\* And a claim is paid on a ruling only while that is not marked.
LEMMA PaysUnmarked ==
  ASSUME SystemInv, [SystemNext]_allVars, NEW n \in Nodes, NEW id \in ClaimIds,
         Filed(n, id), Filing(n, id) \in settled
  PROVE  payments'[n][id] = payments[n][id]
<1>1. /\ payments \in [Nodes -> [ClaimIds -> Nat]] /\ claims[n] \in Seq(Filings)
      /\ signed \subseteq PurchaseStatements \cup ClaimStatements
  BY DEF SystemInv, RequestsInv, ClaimType, RegistryType
<1>2. ASSUME \/ VaultStep \/ Purchase \/ Approval \/ CollectPremium \/ CollectionReverts
             \/ MarkDisputeExecuted \/ UNCHANGED allVars
      PROVE  UNCHANGED payments
  BY <1>2 DEF VaultStep, Purchase, SetTrustedArbitrableProxy, BuyInsuranceWithArbitration,
              BuyInsuranceFinalize, BuyInsuranceWithSignature, Approval, Rule, Sign,
              CollectPremium, CollectionReverts, MarkDisputeExecuted, claiming, allVars
<1>3. ASSUME NEW m \in Nodes, NEW amount \in Amounts, NEW p \in Proxies,
             ClaimWithArbitration(m, amount, p)
      PROVE  UNCHANGED payments
  BY <1>3 DEF ClaimWithArbitration
<1>4. ASSUME NEW m \in Nodes, NEW k \in ClaimIds, ClaimFinalize(m, k)
      PROVE  payments'[n][id] = payments[n][id]
  <2>1. Filing(m, k) \notin settled /\ payments' = [payments EXCEPT ![m][k] = @ + 1]
    BY <1>4 DEF ClaimFinalize, Executable, Filing, Pay
  <2>2. m # n \/ k # id  BY <2>1
  <2> QED BY <1>1, <2>1, <2>2
<1>5. ASSUME NEW s \in signed, s.kind = "claim", ClaimWithSignature(s)
      PROVE  payments'[n][id] = payments[n][id]
  <2>1. s \in ClaimStatements  BY <1>1, <1>5 DEF PurchaseStatements
  <2>2. s.node \in Nodes /\ s.id \in ClaimIds  BY <2>1 DEF ClaimStatements
  <2>3. /\ s.id = Len(claims[s.node]) + 1
        /\ payments' = [payments EXCEPT ![s.node][s.id] = @ + 1]
    BY <1>5 DEF ClaimWithSignature, Pay
  <2>4. id \in 1..Len(claims[n]) /\ Len(claims[n]) \in Nat
    BY <1>1, LenProperties DEF Filed
  <2>5. s.node # n \/ s.id # id  BY <2>3, <2>4
  <2> QED BY <1>1, <2>2, <2>3, <2>5
<1> QED BY <1>2, <1>3, <1>4, <1>5 DEF SystemNext, Claiming

\* What is marked has been collected or paid, and is not again: with every
\* asset, and however the calls interleave.
THEOREM SystemMarks == SystemSpec => MarkedIsDone
<1> DEFINE Done ==
      \A n \in Nodes :
         /\ Bought(n) => premiums[n] # << >> /\ premiums'[n] = premiums[n] /\ Bought(n)'
         /\ \A id \in ClaimIds : Settled(n, id) =>
               payments[n][id] # 0 /\ payments'[n][id] = payments[n][id]
<1>1. ASSUME SystemInv, [SystemNext]_allVars PROVE Done
  <2>1. /\ MarkedWasDone /\ CallsOpen /\ RegistryType /\ CallsType
        /\ sold \subseteq sold'
        /\ \A call \in OpenCalls' : call.next = "collect" =>
              call \in OpenCalls \/ Asking(call.node) \notin sold
    BY <1>1, CollectsUnmarked DEF SystemInv, RequestsInv
  <2>2. ASSUME NEW n \in Nodes, Bought(n)
        PROVE  premiums[n] # << >> /\ premiums'[n] = premiums[n] /\ Bought(n)'
    <3>1. /\ Asked(n) /\ Insured(n) /\ Asking(n) \in sold
          /\ \A call \in OpenCalls : call.next = "collect" => call.node # n
      BY <2>2 DEF Bought, Asked, OpenCalls
    <3>2. premiums[n] # << >>  BY <2>1, <3>1 DEF MarkedWasDone
    <3>3. insurances'[n] = insurances[n]  BY <1>1, <3>1, TermsStep
    <3>4. Asked(n)' /\ Asking(n)' = Asking(n)  BY <3>1, <3>3 DEF Asked, Insured, Asking
    <3>5. \A call \in OpenCalls' : call.next = "collect" => call.node # n
      BY <2>1, <3>1
    <3>6. Bought(n)'  BY <2>1, <3>1, <3>4, <3>5 DEF Bought, OpenCalls
    <3>7. premiums'[n] = premiums[n]
      <4>1. ASSUME CollectPremium PROVE premiums'[n] = premiums[n]
        <5> DEFINE m == Head(underway).node
        <5>1. /\ premiums' = [premiums EXCEPT ![m] = Append(@, insurances[m].price)]
              /\ Head(underway).next = "collect" /\ underway # << >>
          BY <4>1 DEF CollectPremium, Buy
        <5>2. m # n  BY <2>1, <3>1, <5>1, Popped
        <5> QED BY <2>1, <5>1, <5>2 DEF RegistryType
      <4>2. ASSUME NEW m \in Nodes, NEW price \in Prices, NEW term \in Terms, NEW p \in Proxies,
                   BuyInsuranceWithArbitration(m, price, term, p)
            PROVE  UNCHANGED premiums
        BY <4>2 DEF BuyInsuranceWithArbitration
      <4>3. ASSUME NEW s \in signed, s.kind = "purchase", BuyInsuranceWithSignature(s)
            PROVE  premiums'[n] = premiums[n]
        <5>1. s.node # n /\ premiums' = [premiums EXCEPT ![s.node] = Append(@, s.price)]
          BY <3>1, <4>3 DEF BuyInsuranceWithSignature, Buy, Insurance
        <5> QED BY <2>1, <5>1 DEF RegistryType
      <4> QED BY <1>1, <4>1, <4>2, <4>3, NothingBought DEF SystemNext, Purchase
    <3> QED BY <3>2, <3>6, <3>7
  <2>3. ASSUME NEW n \in Nodes, NEW id \in ClaimIds, Settled(n, id)
        PROVE  payments[n][id] # 0 /\ payments'[n][id] = payments[n][id]
    BY <1>1, <2>1, <2>3, PaysUnmarked DEF Settled, MarkedWasDone
  <2> QED BY <2>2, <2>3
<1>2. SystemInv /\ [SystemNext]_allVars => [Done]_allVars  BY <1>1
<1> QED BY <1>2, SystemInvariant, PTL DEF SystemSpec, MarkedIsDone

\* What the ledger takes of a premium, the pool does not keep.
LEMMA NothingLostInDistribution ==
  ASSUME VaultInv, NEW k \in Nat, Distribute(k)
  PROVE  \E taken, funds \in Nat :
            /\ held' = held + k - taken /\ taken <= k
            /\ funds = chef.funds[Asset] /\ chef'.funds[Asset] = funds + taken
<1> DEFINE i == Instant(k)
           taken == IF chef.totalShares > 0 THEN i ELSE 0
<1>1. i \in Nat /\ i <= k  BY InstantPart
<1>2. Asset \in Tokens /\ chef \in Ledger!LedgerType
  BY PoolAssumption DEF VaultInv, SharesInv, Mirrors, Ledger!LedgerInv
<1>3. chef.funds \in [Tokens -> Nat] /\ chef.totalShares \in Nat
  BY <1>2, LedgerAssumption, Ledger!LedgerFields
<1>4. held' = held + k - taken /\ chef' = Ledger!DistributeReward(chef, Asset, i)
  BY SameLedger DEF Distribute
<1> HIDE DEF i
<1>5. Ledger!DistributeReward(chef, Asset, i).funds[Asset] = chef.funds[Asset] + taken
  <2> DEFINE l == [chef EXCEPT !.assets = @ \cup {Asset},
                               !.totalAssets[Asset] = IF Asset \in chef.assets THEN @ ELSE 0]
  <2>1. l.funds = chef.funds /\ DOMAIN l = DOMAIN chef /\ "funds" \in DOMAIN l
    BY <1>2 DEF Ledger!LedgerType
  <2>2. CASE chef.totalShares > 0
    <3>1. Ledger!DistributeReward(chef, Asset, i)
            = [l EXCEPT !.funds[Asset] = @ + i,
                        !.totalAssets[Asset] = @ + i,
                        !.acc[Asset] = @ + (i * Precision) \div chef.totalShares]
      BY <2>2 DEF Ledger!DistributeReward
    <3> HIDE DEF l
    <3> QED BY <1>1, <1>2, <1>3, <2>1, <2>2, <3>1
  <2>3. CASE ~(chef.totalShares > 0)
    <3>1. Ledger!DistributeReward(chef, Asset, i) = l
      BY <2>3 DEF Ledger!DistributeReward
    <3> HIDE DEF l
    <3> QED BY <1>2, <1>3, <2>1, <2>3, <3>1
  <2> QED BY <2>2, <2>3
<1>6. taken \in Nat /\ taken <= k  BY <1>1
<1> HIDE DEF taken
<1>7. chef.funds[Asset] \in Nat  BY <1>2, <1>3
<1> QED BY <1>4, <1>5, <1>6, <1>7

\* A premium goes, to the last unit, to the owners, the factory and the pool.
LEMMA PremiumSplit ==
  ASSUME SystemInv, NEW n \in Nodes, NEW i, i.price \in Nat, Buy(n, i)
  PROVE  /\ \A m \in Nodes : premiums'[m] # premiums[m] => Last(premiums'[m]) = i.price
         /\ income'.owners + income'.factory + held' + chef'.funds[Asset]
              = income.owners + income.factory + held + chef.funds[Asset] + i.price
<1> DEFINE o == Share(i.price, OwnerShare)
           f == Share(i.price, FactoryFee)
           k == i.price - o - f
<1>1. VaultInv /\ RegistryType  BY DEF SystemInv, RequestsInv, VaultBounded
<1>2. /\ income' = [owners |-> income.owners + o, factory |-> income.factory + f]
      /\ o + f <= i.price /\ Distribute(k)
      /\ premiums' = [premiums EXCEPT ![n] = Append(@, i.price)]
  BY DEF Buy
<1>3. o \in Nat /\ f \in Nat  BY SharesOfPremium
<1> HIDE DEF o, f
<1>4. k \in Nat /\ k + o + f = i.price  BY <1>2, <1>3
<1> HIDE DEF k
<1>5. PICK taken \in Nat, funds \in Nat :
        /\ held' = held + k - taken /\ taken <= k
        /\ funds = chef.funds[Asset] /\ chef'.funds[Asset] = funds + taken
  BY <1>1, <1>2, <1>4, NothingLostInDistribution
<1>6. income.owners \in Nat /\ income.factory \in Nat  BY <1>1 DEF RegistryType
<1>7. held \in Nat  BY <1>1 DEF VaultInv
<1>8. income'.owners = income.owners + o /\ income'.factory = income.factory + f  BY <1>2
<1>9. income'.owners + income'.factory + held' + chef'.funds[Asset]
        = income.owners + income.factory + held + chef.funds[Asset] + i.price
  <2> DEFINE O == income.owners
             F == income.factory
  <2>1. O \in Nat /\ F \in Nat  BY <1>6
  <2> HIDE DEF O, F
  <2>2. (O + o) + (F + f) + (held + k - taken) + (funds + taken)
          = O + F + held + funds + i.price
    BY <1>3, <1>4, <1>5, <1>7, <2>1
  <2> QED BY <1>5, <1>8, <2>2 DEF O, F
<1>10. ASSUME NEW m \in Nodes, premiums'[m] # premiums[m] PROVE Last(premiums'[m]) = i.price
  <2>1. premiums \in [Nodes -> Seq(Nat)]  BY <1>1 DEF RegistryType
  <2>2. m = n /\ premiums'[m] = Append(premiums[n], i.price)  BY <1>2, <1>10, <2>1
  <2>3. premiums[n] \in Seq(Nat)  BY <2>1
  <2> QED BY <2>2, <2>3, AppendProperties DEF Last
<1> QED BY <1>9, <1>10

\* A premium is divided without loss, rounding included.
THEOREM SystemPremiums == SystemSpec => PremiumsAreSplitExactly
<1> DEFINE Exact ==
      \A n \in Nodes : premiums'[n] # premiums[n] =>
         income'.owners + income'.factory + held' + chef'.funds[Asset]
           = income.owners + income.factory + held + chef.funds[Asset] + Last(premiums'[n])
<1>1. ASSUME SystemInv, [SystemNext]_allVars PROVE Exact
  <2>1. RegistryType  BY <1>1 DEF SystemInv, RequestsInv
  <2>2. ASSUME UNCHANGED premiums PROVE Exact  BY <2>2
  <2>3. ASSUME NEW m \in Nodes, NEW price \in Prices, NEW term \in Terms, NEW p \in Proxies,
               BuyInsuranceWithArbitration(m, price, term, p)
        PROVE  UNCHANGED premiums
    BY <2>3 DEF BuyInsuranceWithArbitration
  <2>4. ASSUME CollectPremium PROVE Exact
    <3> DEFINE n == Head(underway).node
    <3>1. n \in Nodes /\ insurances[n].price \in Nat
      BY <1>1, <2>4, CollectsForRequest DEF SystemInv, RequestsInv
    <3>2. Buy(n, insurances[n])  BY <2>4 DEF CollectPremium
    <3> HIDE DEF n
    <3> QED BY <1>1, <3>1, <3>2, PremiumSplit
  <2>5. ASSUME NEW s \in signed, s.kind = "purchase", BuyInsuranceWithSignature(s) PROVE Exact
    <3> DEFINE i == Insurance(s.price, s.term, s.operator, s.nonce)
    <3>1. s \in PurchaseStatements  BY <2>1, <2>5 DEF RegistryType, ClaimStatements
    <3>2. s.node \in Nodes /\ Buy(s.node, i)
      BY <2>5, <3>1 DEF BuyInsuranceWithSignature, PurchaseStatements
    <3>3. i.price \in Nat  BY <3>1, VeryInsureAssumption DEF Insurance, PurchaseStatements
    <3> HIDE DEF i
    <3> QED BY <1>1, <3>2, <3>3, PremiumSplit
  <2> QED BY <1>1, <2>2, <2>3, <2>4, <2>5, NothingBought DEF SystemNext, Purchase
<1>2. SystemInv /\ [SystemNext]_allVars => [Exact]_allVars  BY <1>1
<1> QED BY <1>2, SystemInvariant, PTL DEF SystemSpec, PremiumsAreSplitExactly

----------------------------------------------------------------------------
(* The life cycle of insurances and claims.                                *)

\* With an asset that calls nobody each finalization ends before another begins.
PlainInv == SystemInv /\ ~Notifies

\* Then nothing is bought twice or paid twice, and where things stand is one of
\* three.
CoverOf(n) ==
    IF premiums[n] # << >> THEN "bought" ELSE IF Insured(n) THEN "requested" ELSE "none"

ClaimOf(n, id) ==
    IF payments[n][id] # 0 THEN "paid" ELSE IF id \in 1..Len(claims[n]) THEN "filed" ELSE "none"

LEMMA CoverIs ==
  PlainInv => /\ Cover = [n \in Nodes |-> CoverOf(n)]
               /\ ClaimState = [n \in Nodes |-> [id \in ClaimIds |-> ClaimOf(n, id)]]
<1> SUFFICES ASSUME PlainInv
             PROVE  /\ Cover = [n \in Nodes |-> CoverOf(n)]
                    /\ ClaimState = [n \in Nodes |-> [id \in ClaimIds |-> ClaimOf(n, id)]]
  OBVIOUS
<1>1. /\ RegistryType /\ ClaimType /\ BoughtOnce /\ PaidOnce /\ ~Notifies
  BY DEF PlainInv, SystemInv, RequestsInv
<1>2. ASSUME NEW n \in Nodes PROVE Cover[n] = CoverOf(n)
  <2>1. CASE premiums[n] # << >>
    <3>1. Len(premiums[n]) = 1  BY <1>1, <2>1 DEF BoughtOnce
    <3>2. ~(Len(premiums[n]) > 1)  BY <3>1
    <3> QED BY <2>1, <3>1, <3>2 DEF Cover, CoverOf
  <2>2. CASE premiums[n] = << >>
    <3>1. Len(premiums[n]) = 0  BY <2>2, EmptySeq
    <3>2. ~(Len(premiums[n]) = 1) /\ ~(Len(premiums[n]) > 1)  BY <3>1
    <3> QED BY <2>2, <3>2 DEF Cover, CoverOf
  <2> QED BY <2>1, <2>2
<1>3. ASSUME NEW n \in Nodes, NEW id \in ClaimIds PROVE ClaimState[n][id] = ClaimOf(n, id)
  <2>1. claims[n] \in Seq(Filings)  BY <1>1 DEF ClaimType
  <2>2. Len(claims[n]) \in Nat  BY <2>1, LenProperties
  <2>3. id <= Len(claims[n]) <=> id \in 1..Len(claims[n])  BY <2>2 DEF ClaimIds
  <2>4. payments[n][id] # 0 => payments[n][id] = 1  BY <1>1 DEF PaidOnce
  <2> DEFINE k == payments[n][id]
  <2>5. k \in {0, 1}  BY <2>4
  <2> HIDE DEF k
  <2>6. (k = 1 <=> k # 0) /\ ~(k > 1)  BY <2>5
  <2> QED BY <2>3, <2>6 DEF ClaimState, ClaimOf, k
<1>4. DOMAIN Cover = Nodes /\ Cover = [n \in Nodes |-> Cover[n]]  BY DEF Cover
<1>5. ClaimState = [n \in Nodes |-> [id \in ClaimIds |-> ClaimState[n][id]]]  BY DEF ClaimState
<1>6. Cover = [n \in Nodes |-> CoverOf(n)]  BY <1>2, <1>4
<1> QED BY <1>3, <1>5, <1>6

\* What is true of where things stand now is true of it after the step.
LEMMA CoverWillBe ==
  PlainInv' => /\ Cover' = [n \in Nodes |-> CoverOf(n)']
                /\ ClaimState' = [n \in Nodes |-> [id \in ClaimIds |-> ClaimOf(n, id)']]
<1>1. (PlainInv => /\ Cover = [n \in Nodes |-> CoverOf(n)]
                    /\ ClaimState = [n \in Nodes |-> [id \in ClaimIds |-> ClaimOf(n, id)]])'
  BY CoverIs, PTL
<1> QED BY <1>1

\* One name changes, or one claim.
LEMMA CoverChanges ==
  ASSUME PlainInv, PlainInv', NEW n \in Nodes,
         \A m \in Nodes : m # n => CoverOf(m)' = CoverOf(m)
  PROVE  /\ Cover[n] = CoverOf(n)
         /\ Cover' = [Cover EXCEPT ![n] = CoverOf(n)']
<1>1. /\ Cover = [m \in Nodes |-> CoverOf(m)]
      /\ Cover' = [m \in Nodes |-> CoverOf(m)']
  BY CoverIs, CoverWillBe
<1> QED BY <1>1

LEMMA ClaimChanges ==
  ASSUME PlainInv, PlainInv', NEW n \in Nodes, NEW k \in ClaimIds,
         \A m \in Nodes, i \in ClaimIds : m # n \/ i # k => ClaimOf(m, i)' = ClaimOf(m, i)
  PROVE  /\ \A i \in ClaimIds : ClaimState[n][i] = ClaimOf(n, i)
         /\ ClaimState' = [ClaimState EXCEPT ![n][k] = ClaimOf(n, k)']
<1>1. /\ ClaimState = [m \in Nodes |-> [i \in ClaimIds |-> ClaimOf(m, i)]]
      /\ ClaimState' = [m \in Nodes |-> [i \in ClaimIds |-> ClaimOf(m, i)']]
  BY CoverIs, CoverWillBe
<1> QED BY <1>1

LEMMA NothingChanges ==
  /\ UNCHANGED <<insurances, premiums>> => UNCHANGED Cover
  /\ UNCHANGED <<claims, payments>> => UNCHANGED ClaimState
<1>1. UNCHANGED <<insurances, premiums>> => UNCHANGED Cover  BY DEF Cover, Insured
<1>2. UNCHANGED <<claims, payments>> => UNCHANGED ClaimState  BY DEF ClaimState
<1> QED BY <1>1, <1>2

\* The claim that comes next has the number the life cycle gives it.
LEMMA NumberIsNext ==
  ASSUME PlainInv, NEW n \in Nodes, NEW k \in ClaimIds, k = Len(claims[n]) + 1
  PROVE  /\ payments[n][k] = 0 /\ ClaimOf(n, k) = "none"
         /\ \A j \in ClaimIds : j < k => ClaimOf(n, j) # "none"
<1>1. ClaimType /\ PaidOnce  BY DEF PlainInv, SystemInv, RequestsInv
<1>2. claims[n] \in Seq(Filings)  BY <1>1 DEF ClaimType
<1>3. Len(claims[n]) \in Nat  BY <1>2, LenProperties
<1>4. k \notin 1..Len(claims[n])  BY <1>3
<1>5. payments[n][k] = 0  BY <1>1, <1>4 DEF PaidOnce
<1>6. ASSUME NEW j \in ClaimIds, j < k PROVE ClaimOf(n, j) # "none"
  <2>1. j \in 1..Len(claims[n])  BY <1>3, <1>6 DEF ClaimIds
  <2> QED BY <2>1 DEF ClaimOf
<1> QED BY <1>4, <1>5, <1>6 DEF ClaimOf

\* A claim is taken for insurance that was asked for.
LEMMA ClaimableIsCovered ==
  ASSUME NEW n \in Nodes, Claimable(n)
  PROVE  Insured(n) /\ CoverOf(n) # "none"
  BY DEF Claimable, Insured, CoverOf

\* A premium that is the first for its name is the purchase.
LEMMA BuyIsBuy ==
  ASSUME PlainInv, PlainInv', NEW n \in Nodes, NEW i, premiums[n] = << >>, Buy(n, i),
         i.price \in Nat, \A m \in Nodes : m # n => insurances'[m] = insurances[m],
         UNCHANGED <<claims, payments>>
  PROVE  Lifecycle!Buy(n)
<1>1. /\ premiums' = [premiums EXCEPT ![n] = Append(@, i.price)]
      /\ premiums \in [Nodes -> Seq(Nat)]
  BY DEF Buy, PlainInv, SystemInv, RequestsInv, RegistryType
<1>2. premiums'[n] # << >>
  <2>1. premiums[n] \in Seq(Nat) /\ premiums'[n] = Append(premiums[n], i.price)  BY <1>1
  <2> QED BY <2>1, AppendProperties
<1>3. CoverOf(n) # "bought" /\ CoverOf(n)' = "bought"  BY <1>2 DEF CoverOf
<1>4. \A m \in Nodes : m # n => CoverOf(m)' = CoverOf(m)
  BY <1>1 DEF CoverOf, Insured
<1>5. Cover[n] # "bought" /\ Cover' = [Cover EXCEPT ![n] = "bought"]
  BY <1>3, <1>4, CoverChanges
<1> QED BY <1>5, NothingChanges DEF Lifecycle!Buy

LEMMA CollectIsBuy ==
  ASSUME PlainInv, PlainInv', CollectPremium, NEW n \in Nodes, n = Head(underway).node
  PROVE  Lifecycle!Buy(n)
<1> DEFINE i == insurances[n]
<1>1. /\ Buy(n, i) /\ UNCHANGED <<insurances, claims, payments>>
  BY DEF CollectPremium, claiming
<1>2. premiums[n] = << >> /\ i.price \in Nat
  BY CollectsForRequest DEF PlainInv, SystemInv, RequestsInv
<1> HIDE DEF i
<1>3. \A m \in Nodes : m # n => insurances'[m] = insurances[m]  BY <1>1
<1> QED BY <1>1, <1>2, <1>3, BuyIsBuy

\* The calls of the registrar are steps of the life cycle.
LEMMA PurchaseInLifecycle ==
  ASSUME PlainInv, PlainInv', Purchase
  PROVE  [Lifecycle!Next]_<<Cover, ClaimState>>
<1>1. /\ insurances \in [Nodes -> {NoInsurance} \cup Requests] /\ premiums \in [Nodes -> Seq(Nat)]
      /\ signed \subseteq PurchaseStatements \cup ClaimStatements
      /\ OwnDisputes /\ BoughtOnce
  BY DEF PlainInv, SystemInv, RequestsInv, RegistryType
<1>2. ASSUME NEW p \in Proxies, NEW trust \in BOOLEAN, SetTrustedArbitrableProxy(p, trust)
      PROVE  UNCHANGED <<Cover, ClaimState>>
  <2>1. UNCHANGED <<insurances, premiums, claims, payments>>
    BY <1>2 DEF SetTrustedArbitrableProxy, claiming
  <2> QED BY <2>1, NothingChanges
<1>3. ASSUME NEW n \in Nodes, NEW price \in Prices, NEW term \in Terms, NEW p \in Proxies,
             BuyInsuranceWithArbitration(n, price, term, p)
      PROVE  Lifecycle!Request(n)
  <2> DEFINE i == Insurance(price, term, p, NextDispute(p))
  <2>1. /\ ~Insured(n) /\ insurances' = [insurances EXCEPT ![n] = i]
        /\ UNCHANGED <<premiums, claims, payments>>
    BY <1>3 DEF BuyInsuranceWithArbitration, claiming
  <2>2. i.pool = "this"  BY DEF Insurance
  <2> HIDE DEF i
  <2>3. premiums[n] = << >>  BY <1>1, <2>1, NothingBoughtUnasked
  <2>4. CoverOf(n) = "none" /\ CoverOf(n)' = "requested"
    BY <1>1, <2>1, <2>2, <2>3 DEF CoverOf, Insured
  <2>5. \A m \in Nodes : m # n => CoverOf(m)' = CoverOf(m)
    BY <1>1, <2>1 DEF CoverOf, Insured
  <2>6. Cover[n] = "none" /\ Cover' = [Cover EXCEPT ![n] = "requested"]
    BY <2>4, <2>5, CoverChanges
  <2> QED BY <2>1, <2>6, NothingChanges DEF Lifecycle!Request
<1>4. ASSUME NEW n \in Nodes, BuyInsuranceFinalize(n) PROVE UNCHANGED <<Cover, ClaimState>>
  <2>1. UNCHANGED <<insurances, premiums, claims, payments>>
    BY <1>4 DEF BuyInsuranceFinalize, registry, claiming
  <2> QED BY <2>1, NothingChanges
<1>5. ASSUME NEW s \in signed, s.kind = "purchase", BuyInsuranceWithSignature(s)
      PROVE  Lifecycle!Buy(s.node) /\ s.node \in Nodes
  <2> DEFINE i == Insurance(s.price, s.term, s.operator, s.nonce)
  <2>1. s \in PurchaseStatements  BY <1>1, <1>5 DEF ClaimStatements
  <2>2. s.node \in Nodes /\ i.price \in Nat
    BY <2>1, VeryInsureAssumption DEF PurchaseStatements, Insurance
  <2>3. /\ ~Insured(s.node) /\ insurances' = [insurances EXCEPT ![s.node] = i]
        /\ Buy(s.node, i) /\ UNCHANGED <<claims, payments>>
    BY <1>5 DEF BuyInsuranceWithSignature, claiming
  <2> HIDE DEF i
  <2>4. premiums[s.node] = << >>  BY <1>1, <2>2, <2>3, NothingBoughtUnasked
  <2>5. \A m \in Nodes : m # s.node => insurances'[m] = insurances[m]  BY <1>1, <2>3
  <2> QED BY <2>2, <2>3, <2>4, <2>5, BuyIsBuy
<1> QED BY <1>2, <1>3, <1>4, <1>5 DEF Purchase, Lifecycle!Next

\* So are the calls that make and pay claims.
LEMMA ClaimingInLifecycle ==
  ASSUME PlainInv, PlainInv', Callable, Claiming
  PROVE  [Lifecycle!Next]_<<Cover, ClaimState>>
<1>1. /\ RegistryType /\ ClaimType /\ OwnDisputes /\ PaidOnce
      /\ signed \subseteq PurchaseStatements \cup ClaimStatements
      /\ claims \in [Nodes -> Seq(Filings)]
  BY DEF PlainInv, SystemInv, RequestsInv, RegistryType, ClaimType
<1>2. ASSUME NEW n \in Nodes, NEW k \in ClaimIds, k = Len(claims[n]) + 1, Claimable(n),
             NEW c \in Filings, claims' = [claims EXCEPT ![n] = Append(@, c)]
      PROVE  /\ Cover[n] # "none" /\ Lifecycle!NextNumber(n, k)
             /\ Len(claims[n]) \in Nat /\ k \in 1..Len(claims'[n]) /\ payments[n][k] = 0
             /\ \A m \in Nodes, i \in ClaimIds : m # n \/ i # k =>
                   (i \in 1..Len(claims'[m]) <=> i \in 1..Len(claims[m]))
  <2>1. Cover[n] # "none"  BY <1>2, CoverIs, ClaimableIsCovered
  <2>2. /\ payments[n][k] = 0 /\ ClaimOf(n, k) = "none"
        /\ \A j \in ClaimIds : j < k => ClaimOf(n, j) # "none"
    BY <1>2, NumberIsNext
  <2>3. Lifecycle!NextNumber(n, k)
    <3>1. \A i \in ClaimIds : ClaimState[n][i] = ClaimOf(n, i)  BY CoverIs
    <3> QED BY <2>2, <3>1 DEF Lifecycle!NextNumber
  <2>4. /\ Len(claims[n]) \in Nat /\ Len(claims'[n]) = k
        /\ \A m \in Nodes : m # n => claims'[m] = claims[m]
    BY <1>1, <1>2, ClaimAdded
  <2>5. ASSUME NEW m \in Nodes, NEW i \in ClaimIds, m # n \/ i # k
        PROVE  i \in 1..Len(claims'[m]) <=> i \in 1..Len(claims[m])
    <3>1. CASE m = n  BY <1>2, <2>4, <2>5, <3>1 DEF ClaimIds
    <3> QED BY <2>4, <3>1
  <2>6. k \in 1..Len(claims'[n])  BY <1>2, <2>4
  <2> QED BY <2>1, <2>2, <2>3, <2>4, <2>5, <2>6
<1>3. ASSUME NEW n \in Nodes, NEW amount \in Amounts, NEW p \in Proxies,
             ClaimWithArbitration(n, amount, p)
      PROVE  \E k \in ClaimIds : Lifecycle!File(n, k)
  <2> DEFINE c == Claim(amount, p, NextDispute(p))
  <2>1. /\ Len(claims[n]) < MaxClaims /\ Claimable(n) /\ DisputeCreated(p)
        /\ claims' = [claims EXCEPT ![n] = Append(@, c)]
        /\ UNCHANGED <<insurances, premiums, payments>>
    BY <1>3 DEF ClaimWithArbitration, registry
  <2>2. c \in Filings
    <3>1. NextDispute(p) \in Nat
      BY <1>1, <2>1, CreatedIsNew DEF ClaimType, DisputesType
    <3> QED BY <3>1, ClaimFields DEF Approvers
  <2> HIDE DEF c
  <2>3. PICK k \in ClaimIds : k = Len(claims[n]) + 1
    <3>1. claims[n] \in Seq(Filings)  BY <1>1
    <3>2. Len(claims[n]) \in Nat /\ MaxClaims \in Nat
      BY <3>1, LenProperties, VeryInsureAssumption
    <3> QED BY <2>1, <3>2 DEF ClaimIds
  <2>4. /\ Cover[n] # "none" /\ Lifecycle!NextNumber(n, k) /\ payments[n][k] = 0
        /\ k \in 1..Len(claims'[n])
        /\ \A m \in Nodes, i \in ClaimIds : m # n \/ i # k =>
              (i \in 1..Len(claims'[m]) <=> i \in 1..Len(claims[m]))
    BY <1>2, <2>1, <2>2, <2>3
  <2>5. ClaimOf(n, k)' = "filed"  BY <2>1, <2>4 DEF ClaimOf
  <2>6. \A m \in Nodes, i \in ClaimIds : m # n \/ i # k => ClaimOf(m, i)' = ClaimOf(m, i)
    BY <2>1, <2>4 DEF ClaimOf
  <2>7. ClaimState' = [ClaimState EXCEPT ![n][k] = "filed"]  BY <2>5, <2>6, ClaimChanges
  <2>8. UNCHANGED Cover  BY <2>1, NothingChanges
  <2> QED BY <2>4, <2>7, <2>8 DEF Lifecycle!File
<1>4. ASSUME NEW n \in Nodes, NEW id \in ClaimIds, ClaimFinalize(n, id)
      PROVE  Lifecycle!PayFiled(n, id)
  <2> DEFINE c == claims[n][id]
  <2>1. /\ id \in DOMAIN claims[n] /\ c.approver \in Proxies /\ Filing(n, id) \notin settled
        /\ Pay(n, id, c.amount) /\ UNCHANGED <<insurances, premiums, claims>>
    BY <1>4 DEF ClaimFinalize, Executable, registry, Filing
  <2>2. id \in 1..Len(claims[n])
    <3>1. claims[n] \in Seq(Filings)  BY <1>1
    <3> QED BY <2>1, <3>1, LenProperties
  <2>3. payments[n][id] = 0
    <3>1. OpenCalls = {}  BY EmptySeq DEF Callable, PlainInv, OpenCalls, ToSet
    <3> QED BY <1>1, <2>1, <2>2, <3>1 DEF PaidOnce, MarkedSettled, Filed
  <2> HIDE DEF c
  <2>4. /\ payments'[n][id] = 1
        /\ \A m \in Nodes, i \in ClaimIds : m # n \/ i # id => payments'[m][i] = payments[m][i]
    BY <1>1, <2>1, <2>3, PaymentCounted
  <2>5. ClaimOf(n, id) = "filed" /\ ClaimOf(n, id)' = "paid"
    BY <2>2, <2>3, <2>4 DEF ClaimOf
  <2>6. \A m \in Nodes, i \in ClaimIds : m # n \/ i # id => ClaimOf(m, i)' = ClaimOf(m, i)
    BY <2>1, <2>4 DEF ClaimOf
  <2>7. ClaimState[n][id] = "filed" /\ ClaimState' = [ClaimState EXCEPT ![n][id] = "paid"]
    BY <2>5, <2>6, ClaimChanges
  <2>8. UNCHANGED Cover  BY <2>1, NothingChanges
  <2> QED BY <2>7, <2>8 DEF Lifecycle!PayFiled
<1>5. ASSUME NEW s \in signed, s.kind = "claim", ClaimWithSignature(s)
      PROVE  /\ s.node \in Nodes /\ s.id \in ClaimIds
             /\ Lifecycle!PayAtOnce(s.node, s.id)
  <2> DEFINE c == Claim(s.amount, s.operator, s.nonce)
             n == s.node
             k == s.id
  <2>1. s \in ClaimStatements  BY <1>1, <1>5 DEF PurchaseStatements
  <2>2. /\ n \in Nodes /\ k \in ClaimIds /\ s.amount \in Amounts
        /\ s.operator \in Operators /\ s.nonce \in Nat
    BY <2>1, VeryInsureAssumption DEF ClaimStatements
  <2>3. /\ k = Len(claims[n]) + 1 /\ claims' = [claims EXCEPT ![n] = Append(@, c)]
        /\ Pay(n, k, s.amount) /\ Claimable(n) /\ UNCHANGED <<insurances, premiums>>
    BY <1>5 DEF ClaimWithSignature, Pay, registry
  <2>4. c \in Filings  BY <2>2, ClaimFields DEF Approvers
  <2> HIDE DEF c, n, k
  <2>5. /\ Cover[n] # "none" /\ Lifecycle!NextNumber(n, k) /\ payments[n][k] = 0
        /\ \A m \in Nodes, i \in ClaimIds : m # n \/ i # k =>
              (i \in 1..Len(claims'[m]) <=> i \in 1..Len(claims[m]))
    BY <1>2, <2>2, <2>3, <2>4
  <2>6. /\ payments'[n][k] = 1
        /\ \A m \in Nodes, i \in ClaimIds : m # n \/ i # k => payments'[m][i] = payments[m][i]
    BY <1>1, <2>2, <2>3, <2>5, PaymentCounted
  <2>7. \A m \in Nodes, i \in ClaimIds : m # n \/ i # k => ClaimOf(m, i)' = ClaimOf(m, i)
    BY <2>5, <2>6 DEF ClaimOf
  <2>8. ClaimState' = [ClaimState EXCEPT ![n][k] = "paid"]
    <3>1. ClaimOf(n, k)' = "paid"  BY <2>6 DEF ClaimOf, n, k
    <3> QED BY <2>2, <2>7, <3>1, ClaimChanges
  <2>9. UNCHANGED Cover  BY <2>3, NothingChanges
  <2> QED BY <2>2, <2>5, <2>8, <2>9 DEF Lifecycle!PayAtOnce, n, k
<1> QED BY <1>3, <1>4, <1>5 DEF Claiming, Lifecycle!Next

\* With an asset that calls nobody (an ERC20), whatever the order of rulings,
\* signatures and calls, the contracts go through the life cycle: nothing is
\* bought twice, nothing is paid twice, and nothing is claimed where no insurance
\* was asked for.
THEOREM SystemLifecycle == ASSUME ~Notifies PROVE SystemSpec => LifecycleSpec
<1>1. ASSUME SystemInit PROVE Lifecycle!Init
  <2>1. PlainInv  BY <1>1, SystemStart DEF PlainInv
  <2>2. /\ premiums = [n \in Nodes |-> << >>] /\ claims = [n \in Nodes |-> << >>]
        /\ payments = [n \in Nodes |-> [id \in ClaimIds |-> 0]]
    BY <1>1 DEF SystemInit
  <2>3. \A n \in Nodes : CoverOf(n) \in {"none", "requested"}  BY <2>2 DEF CoverOf
  <2>4. \A n \in Nodes, id \in ClaimIds : ClaimOf(n, id) = "none"
    BY <2>2, EmptySeq DEF ClaimOf
  <2>5. /\ Cover = [n \in Nodes |-> CoverOf(n)]
        /\ ClaimState = [n \in Nodes |-> [id \in ClaimIds |-> ClaimOf(n, id)]]
    BY <2>1, CoverIs
  <2> QED BY <2>3, <2>4, <2>5 DEF Lifecycle!Init
<1>2. ASSUME PlainInv, PlainInv', [SystemNext]_allVars
      PROVE  [Lifecycle!Next]_<<Cover, ClaimState>>
  <2>1. ASSUME \/ VaultStep \/ Approval \/ CollectionReverts \/ MarkDisputeExecuted
               \/ UNCHANGED allVars
        PROVE  UNCHANGED <<Cover, ClaimState>>
    <3>1. UNCHANGED <<insurances, premiums, claims, payments>>
      BY <2>1 DEF VaultStep, Approval, Rule, Sign, CollectionReverts, MarkDisputeExecuted,
                  registry, claiming, allVars
    <3> QED BY <3>1, NothingChanges
  <2>2. ASSUME CollectPremium PROVE Lifecycle!Next
    <3>1. PICK n \in Nodes : n = Head(underway).node
      BY <1>2, <2>2, CollectsForRequest DEF PlainInv, SystemInv, RequestsInv
    <3> QED BY <1>2, <2>2, <3>1, CollectIsBuy DEF Lifecycle!Next
  <2> QED BY <1>2, <2>1, <2>2, PurchaseInLifecycle, ClaimingInLifecycle DEF SystemNext
<1>3. SystemInv /\ SystemInv' /\ [SystemNext]_allVars => [Lifecycle!Next]_<<Cover, ClaimState>>
  BY <1>2 DEF PlainInv
<1> QED BY <1>1, <1>3, SystemInvariant, PTL DEF SystemSpec, LifecycleSpec, Lifecycle!Spec

----------------------------------------------------------------------------
(* Arbitration, as the contracts rely on it.                               *)

InSystem(p) == INSTANCE Arbitration WITH rulings <- disputes[p]

\* The disputes of a proxy change when one is created there, or ruled.
LEMMA CreateIsCreate ==
  ASSUME DisputesType, NEW p \in Proxies, NEW q \in Proxies, DisputeCreated(q)
  PROVE  InSystem(p)!Create \/ disputes'[p] = disputes[p]
BY DEF DisputesType, DisputeCreated, InSystem!Create

LEMMA RuleIsRule ==
  ASSUME DisputesType, NEW p \in Proxies, NEW q \in Proxies,
         NEW d \in DOMAIN disputes[q], NEW r \in Rulings, Rule(q, d, r)
  PROVE  InSystem(p)!Next \/ disputes'[p] = disputes[p]
<1>1. CASE p = q
  <2>1. disputes'[p] = [disputes[p] EXCEPT ![d] = r] /\ disputes[p][d] = Unruled
    BY <1>1 DEF Rule, DisputesType
  <2>2. InSystem(p)!Rule(d, r)  BY <2>1 DEF InSystem!Rule
  <2> QED BY <1>1, <2>2 DEF InSystem!Next
<1>2. CASE p # q  BY <1>2 DEF Rule, DisputesType
<1> QED BY <1>1, <1>2

\* And the contracts wait for any ruling: whichever comes at a proxy, while
\* nothing else happens and no call excludes another, is a step of the system.
LEMMA AnyRulingMayCome ==
  ASSUME DisputesType, NEW p \in Proxies, NEW d \in DOMAIN disputes[p], NEW r \in Rulings,
         InSystem(p)!Rule(d, r), disputes' = [disputes EXCEPT ![p] = disputes'[p]],
         UNCHANGED <<vault, registry, claiming, signed, underway>>, Callable
  PROVE  SystemNext
<1>1. disputes' = [disputes EXCEPT ![p][d] = r] /\ disputes[p][d] = Unruled
  BY DEF InSystem!Rule, DisputesType
<1>2. Rule(p, d, r)  BY <1>1 DEF Rule
<1> QED BY <1>2 DEF SystemNext, Approval

\* Step by step.
LEMMA StepArbitrates ==
  ASSUME DisputesType, [SystemNext]_allVars, NEW p \in Proxies
  PROVE  [InSystem(p)!Next]_(disputes[p])
<1>1. ASSUME UNCHANGED disputes PROVE [InSystem(p)!Next]_(disputes[p])
  BY <1>1
<1>2. ASSUME NEW q \in Proxies, DisputeCreated(q) PROVE [InSystem(p)!Next]_(disputes[p])
  BY <1>2, CreateIsCreate DEF InSystem!Next
<1>3. CASE VaultStep  BY <1>1, <1>3 DEF VaultStep, arbitration
<1>4. CASE Purchase
  BY <1>1, <1>2, <1>4
  DEF Purchase, SetTrustedArbitrableProxy, BuyInsuranceWithArbitration,
      BuyInsuranceFinalize, BuyInsuranceWithSignature, arbitration
<1>5. CASE Claiming
  BY <1>1, <1>2, <1>5
  DEF Claiming, ClaimWithArbitration, ClaimFinalize, ClaimWithSignature, arbitration
<1>6. CASE Approval
  <2>1. ASSUME NEW s, Sign(s) PROVE UNCHANGED disputes  BY <2>1 DEF Sign
  <2> QED BY <1>1, <1>6, <2>1, RuleIsRule DEF Approval
<1>7. CASE CollectPremium \/ CollectionReverts \/ MarkDisputeExecuted \/ UNCHANGED allVars
  BY <1>1, <1>7
  DEF CollectPremium, CollectionReverts, MarkDisputeExecuted, allVars, arbitration
<1> QED BY <1>3, <1>4, <1>5, <1>6, <1>7 DEF SystemNext

\* Registrar and pool, which create disputes at the same proxies, see of each
\* of them what ArbitrableProxyProofs shows of the proxy in the repository.
THEOREM SystemArbitrates ==
  ASSUME NEW p \in Proxies PROVE SystemSpec => InSystem(p)!Spec
<1>1. ASSUME SystemInit PROVE InSystem(p)!Init
  BY <1>1 DEF SystemInit, InSystem!Init
<1>2. SystemInv => DisputesType  BY DEF SystemInv, RequestsInv, ClaimType, DisputesType
<1>3. SystemInv /\ [SystemNext]_allVars => [InSystem(p)!Next]_(disputes[p])
  BY <1>2, StepArbitrates
<1> QED BY <1>1, <1>3, SystemInvariant, PTL DEF SystemSpec, InSystem!Spec
=============================================================================
