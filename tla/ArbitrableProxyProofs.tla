------------------------ MODULE ArbitrableProxyProofs ------------------------
(***************************************************************************)
(* What holds of the proxy for every number of rulings and contributors,   *)
(* all prices, payments and multipliers, whatever the arbitrator does.     *)
(*                                                                         *)
(* A round is not paid for, paid for one ruling or for two (RoundInv), and *)
(* in each case what can be withdrawn of it is within its pot: the rewards *)
(* and what was paid for rulings that are not funded (OwedWithinPot).  The *)
(* claim of a dispute is the sum of its pots until it is ruled and what    *)
(* can be withdrawn of it afterwards.  The inductive invariant, ProxyInv,  *)
(* says that the proxy holds all claims (Books) and that every dispute has *)
(* its case, which is over when the dispute is ruled (Courts): otherwise a *)
(* payment could still come in for rounds whose winner is known.           *)
(*                                                                         *)
(* The last part shows that the proxy implements Arbitration, which is     *)
(* what the insurance contracts read of it.                                *)
(***************************************************************************)
EXTENDS ArbitrableProxy, SequenceTheorems, Arithmetic

\* All that the contributors of r have in a round.
Given(round, r) == SumFunction([c \in Contributors |-> round.contributions[c][r]])

\* The types of the fields of a round.
RoundType ==
    [paidFees : [Rulings -> Nat],
     contributions : [Contributors -> [Rulings -> Nat]],
     feeRewards : Nat,
     fundedRulings : Seq(Rulings)]

\* The two rulings an appeal is made with, and the one that waits for another.
First(round) == round.fundedRulings[1]
Second(round) == round.fundedRulings[2]

\* What the rewards are made of, by how many rulings are paid for: after an
\* appeal they are at least what the first was paid, since what the second was
\* paid covers the price.
NoneFunded(round) == round.fundedRulings = << >> /\ round.feeRewards = 0

OneFunded(round) ==
    /\ Len(round.fundedRulings) = 1
    /\ round.feeRewards = round.paidFees[First(round)]

TwoFunded(round) ==
    /\ Len(round.fundedRulings) = 2 /\ First(round) # Second(round)
    /\ round.paidFees[First(round)] <= round.feeRewards
    /\ round.feeRewards <= round.paidFees[First(round)] + round.paidFees[Second(round)]

\* What is kept for the contributors of a ruling is never more than was paid for
\* it, and the rewards are accounted for.
RoundInv(round) ==
    /\ round \in RoundType
    /\ \A r \in Rulings : Given(round, r) <= round.paidFees[r]
    /\ NoneFunded(round) \/ OneFunded(round) \/ TwoFunded(round)

\* What a round can come to owe: its rewards, and what comes back to those who
\* paid for rulings that are not funded.
Unfunded(round) == [r \in Rulings |-> IF HasPaid(round, r) THEN 0 ELSE round.paidFees[r]]
Pot(round) == round.feeRewards + SumFunction(Unfunded(round))

----------------------------------------------------------------------------
(* Sequences: the last element replaced by one or by two.                  *)

\* All but the last element.
LEMMA FrontFields ==
  ASSUME NEW R, NEW s \in Seq(R), s # << >>
  PROVE  /\ Front(s) \in Seq(R) /\ Len(s) \in Nat \ {0} /\ Len(Front(s)) = Len(s) - 1
         /\ \A i \in 1..Len(s) - 1 : Front(s)[i] = s[i]
         /\ Last(s) \in R
<1>1. Len(s) \in Nat \ {0} /\ \A i \in 1..Len(s) : s[i] \in R  OBVIOUS
<1>2. \A i \in 1..Len(s) - 1 : s[i] \in R  BY <1>1
<1>3. /\ SubSeq(s, 1, Len(s) - 1) \in Seq(R)
      /\ Len(SubSeq(s, 1, Len(s) - 1)) = IF 1 <= Len(s) - 1 THEN (Len(s) - 1) - 1 + 1 ELSE 0
      /\ \A i \in 1..(Len(s) - 1) - 1 + 1 : SubSeq(s, 1, Len(s) - 1)[i] = s[1 + i - 1]
  BY <1>1, <1>2, SubSeqProperties
<1> DEFINE f == Front(s)
<1>4. f = SubSeq(s, 1, Len(s) - 1)  BY DEF Front
<1> HIDE DEF f
<1>5. f \in Seq(R) /\ Len(f) = Len(s) - 1
  <2>1. \A n \in Nat \ {0} : (IF 1 <= n - 1 THEN (n - 1) - 1 + 1 ELSE 0) = n - 1  OBVIOUS
  <2>2. Len(f) = Len(s) - 1  BY <1>1, <1>3, <1>4, <2>1, Zenon
  <2> QED BY <1>3, <1>4, <2>2
<1>6. ASSUME NEW i \in 1..Len(s) - 1 PROVE f[i] = s[i]
  <2>1. i \in 1..(Len(s) - 1) - 1 + 1 /\ 1 + i - 1 = i  BY <1>1
  <2>2. SubSeq(s, 1, Len(s) - 1)[i] = s[1 + i - 1]  BY <1>3, <2>1
  <2> QED BY <1>4, <2>1, <2>2
<1>7. Last(s) \in R  BY <1>1 DEF Last
<1> QED BY <1>1, <1>5, <1>6, <1>7 DEF f

\* The last element replaced.
LEMMA ReplaceLast ==
  ASSUME NEW R, NEW s \in Seq(R), s # << >>, NEW x \in R
  PROVE  LET t == Append(Front(s), x)
         IN  /\ t \in Seq(R) /\ Len(t) = Len(s) /\ t[Len(s)] = x
             /\ \A i \in 1..Len(s) - 1 : t[i] = s[i]
<1> DEFINE f == Front(s)
<1>1. /\ f \in Seq(R) /\ Len(s) \in Nat \ {0} /\ Len(f) = Len(s) - 1
      /\ \A i \in 1..Len(s) - 1 : f[i] = s[i]
  BY FrontFields
<1> HIDE DEF f
<1>2. /\ Append(f, x) \in Seq(R) /\ Len(Append(f, x)) = Len(f) + 1
      /\ \A i \in 1..Len(f) : Append(f, x)[i] = f[i]
      /\ Append(f, x)[Len(f) + 1] = x
  BY <1>1, AppendProperties
<1> QED BY <1>1, <1>2 DEF f

\* The last element replaced by two.
LEMMA ReplaceLastByTwo ==
  ASSUME NEW R, NEW s \in Seq(R), s # << >>, NEW x \in R, NEW y \in R
  PROVE  LET t == Front(s) \o <<x, y>>
         IN  /\ t \in Seq(R) /\ Len(t) = Len(s) + 1 /\ t[Len(s)] = x /\ t[Len(s) + 1] = y
             /\ \A i \in 1..Len(s) - 1 : t[i] = s[i]
<1> DEFINE f == Front(s)
           z == <<x, y>>
<1>1. /\ f \in Seq(R) /\ Len(s) \in Nat \ {0} /\ Len(f) = Len(s) - 1
      /\ \A i \in 1..Len(s) - 1 : f[i] = s[i]
  BY FrontFields
<1>2. z \in Seq(R) /\ Len(z) = 2 /\ z[1] = x /\ z[2] = y  OBVIOUS
<1> HIDE DEF f, z
<1>3. /\ f \o z \in Seq(R) /\ Len(f \o z) = Len(f) + Len(z)
      /\ \A i \in 1..Len(f) + Len(z) : (f \o z)[i] = IF i <= Len(f) THEN f[i] ELSE z[i - Len(f)]
  BY <1>1, <1>2, ConcatProperties
<1>4. (f \o z)[Len(s)] = x
  <2>1. Len(s) \in 1..Len(f) + Len(z) /\ ~(Len(s) <= Len(f)) /\ Len(s) - Len(f) = 1  BY <1>1, <1>2
  <2> QED BY <1>2, <1>3, <2>1
<1>5. (f \o z)[Len(s) + 1] = y
  <2>1. /\ Len(s) + 1 \in 1..Len(f) + Len(z) /\ ~(Len(s) + 1 <= Len(f))
        /\ (Len(s) + 1) - Len(f) = 2
    BY <1>1, <1>2
  <2> QED BY <1>2, <1>3, <2>1
<1>6. \A i \in 1..Len(s) - 1 : (f \o z)[i] = s[i]
  <2>1. \A i \in 1..Len(s) - 1 : i \in 1..Len(f) + Len(z) /\ i <= Len(f)  BY <1>1, <1>2
  <2> QED BY <1>1, <1>3, <2>1
<1>7. Len(f \o z) = Len(s) + 1 /\ f \o z \in Seq(R)  BY <1>1, <1>2, <1>3
<1> QED BY <1>4, <1>5, <1>6, <1>7 DEF f, z

----------------------------------------------------------------------------
(* A round.                                                                *)

\* The sums over rulings and contributors are finite.
LEMMA RulingsFinite == IsFiniteSet(Rulings) /\ IsFiniteSet(Contributors)
  BY FS_Interval, ArbitratorAssumption, ProxyAssumption DEF Rulings

\* The fields of a round have their types.
LEMMA RoundFields ==
  ASSUME NEW round \in RoundType
  PROVE  /\ round.paidFees \in [Rulings -> Nat]
         /\ round.contributions \in [Contributors -> [Rulings -> Nat]]
         /\ round.feeRewards \in Nat
         /\ round.fundedRulings \in Seq(Rulings)
  BY DEF RoundType

\* Each contribution is within what was paid for its ruling.
LEMMA GivenCovers ==
  ASSUME NEW round \in RoundType, NEW r \in Rulings
  PROVE  /\ Given(round, r) \in Nat
         /\ \A c \in Contributors : round.contributions[c][r] \in Nat
                                    /\ round.contributions[c][r] <= Given(round, r)
<1> DEFINE f == [c \in Contributors |-> round.contributions[c][r]]
<1>1. \A c \in Contributors : f[c] \in Nat /\ f[c] = round.contributions[c][r]  BY RoundFields
<1>2. Given(round, r) = SumFunctionOnSet(f, Contributors)  BY DEF SumFunction, Given
<1> HIDE DEF f
<1>3. SumFunctionOnSet(f, Contributors) \in Nat  BY <1>1, RulingsFinite, SumType
<1>4. \A c \in Contributors : f[c] <= SumFunctionOnSet(f, Contributors)
  BY <1>1, RulingsFinite, SumCovers
<1> QED BY <1>1, <1>2, <1>3, <1>4

\* Which rulings are paid for, by how many are.
LEMMA FundedSet ==
  ASSUME NEW round, RoundInv(round)
  PROVE  /\ NoneFunded(round) => \A r : ~HasPaid(round, r)
         /\ OneFunded(round) => First(round) \in Rulings /\ \A r : HasPaid(round, r) <=> r = First(round)
         /\ TwoFunded(round) => /\ First(round) \in Rulings /\ Second(round) \in Rulings
                                /\ \A r : HasPaid(round, r) <=> r \in {First(round), Second(round)}
<1>1. round.fundedRulings \in Seq(Rulings)  BY RoundFields DEF RoundInv
<1>2. CASE NoneFunded(round)  BY <1>2 DEF NoneFunded, OneFunded, TwoFunded, HasPaid, ToSet
<1>3. CASE OneFunded(round)
  BY <1>1, <1>3 DEF NoneFunded, OneFunded, TwoFunded, HasPaid, ToSet, First
<1>4. CASE TwoFunded(round)
  BY <1>1, <1>4 DEF NoneFunded, OneFunded, TwoFunded, HasPaid, ToSet, First, Second
<1> QED BY <1>2, <1>3, <1>4 DEF RoundInv

----------------------------------------------------------------------------
(* What can be withdrawn of a round is within what the round holds.        *)

\* What was paid for the two rulings of an appeal.
Both(round) == round.paidFees[First(round)] + round.paidFees[Second(round)]

\* It is what getWithdrawableAmount divides by.
LEMMA FundedFeesOfTwo ==
  ASSUME NEW round, RoundInv(round), TwoFunded(round)
  PROVE  FundedFees(round) = Both(round) /\ Both(round) \in Nat
<1> DEFINE f == [i \in DOMAIN round.fundedRulings |-> round.paidFees[round.fundedRulings[i]]]
<1>1. /\ DOMAIN round.fundedRulings = {1, 2}
      /\ First(round) \in Rulings /\ Second(round) \in Rulings
  BY FundedSet, RoundFields DEF RoundInv, TwoFunded
<1>2. round.paidFees[First(round)] \in Nat /\ round.paidFees[Second(round)] \in Nat
  BY <1>1, RoundFields DEF RoundInv
<1>3. /\ DOMAIN f = {1, 2}
      /\ f[1] = round.paidFees[First(round)] /\ f[2] = round.paidFees[Second(round)]
  BY <1>1 DEF First, Second
<1>4. FundedFees(round) = SumFunctionOnSet(f, DOMAIN f)  BY DEF FundedFees, SumFunction
<1> HIDE DEF f
<1>5. f[1] \in Int /\ f[2] \in Int  BY <1>2, <1>3
<1>6. SumFunctionOnSet(f, {1, 2}) = f[1] + f[2]
  <2>1. 1 # 2  OBVIOUS
  <2> QED BY <1>5, <2>1, SumOfTwo
<1> QED BY <1>2, <1>3, <1>4, <1>6 DEF Both

\* What the contributors of one ruling can withdraw, case by case: what they
\* gave, nothing, the rewards, or a share of the rewards by what was paid.
LEMMA OwedForBound ==
  ASSUME NEW round, RoundInv(round), NEW r \in Rulings, NEW final \in Rulings
  PROVE  LET owed == OwedFor(round, r, final)
         IN  /\ owed \in Nat
             /\ ~HasPaid(round, r) => owed = Given(round, r)
             /\ HasPaid(round, r) /\ HasPaid(round, final) /\ r # final => owed = 0
             /\ HasPaid(round, r) /\ r = final => owed <= round.feeRewards
             /\ HasPaid(round, r) /\ ~HasPaid(round, final) =>
                   \/ owed = 0
                   \/ /\ TwoFunded(round) /\ Both(round) # 0
                      /\ Both(round) * owed <= round.feeRewards * round.paidFees[r]
<1> DEFINE owed == OwedFor(round, r, final)
           due == [c \in Contributors |-> Withdrawable(round, c, r, final)]
           x == [c \in Contributors |-> round.contributions[c][r]]
           paid == round.paidFees[r]
           fees == round.feeRewards
<1>1. /\ round \in RoundType /\ paid \in Nat /\ fees \in Nat /\ Given(round, r) \in Nat
      /\ Given(round, r) <= paid /\ IsFiniteSet(Contributors)
  BY RoundFields, GivenCovers, RulingsFinite DEF RoundInv
<1>2. /\ \A c \in Contributors : x[c] \in Nat /\ x[c] = round.contributions[c][r]
      /\ SumFunctionOnSet(x, Contributors) = Given(round, r)
  BY <1>1, GivenCovers DEF Given, SumFunction
<1>3. ~WithdrawReverts(round, r, final) => owed = SumFunctionOnSet(due, Contributors)
  BY DEF OwedFor, SumFunction
<1>4. WithdrawReverts(round, r, final) => owed = 0  BY DEF OwedFor
<1>5. \A c \in Contributors : due[c] = Withdrawable(round, c, r, final)  OBVIOUS
<1> HIDE DEF due, x, paid, fees, owed
<1>6. CASE ~HasPaid(round, r)
  <2>1. \A c \in Contributors : x[c] \in Int /\ due[c] = x[c]
    BY <1>2, <1>5, <1>6 DEF Withdrawable
  <2>2. ~WithdrawReverts(round, r, final)  BY <1>6 DEF WithdrawReverts
  <2>3. owed = Given(round, r)  BY <1>1, <1>2, <1>3, <2>1, <2>2, SumSame
  <2> QED BY <1>1, <1>6, <2>3 DEF owed
<1>7. CASE HasPaid(round, r) /\ r = final
  <2>1. ~WithdrawReverts(round, r, final)  BY <1>7 DEF WithdrawReverts
  <2>2. CASE paid = 0
    <3>1. \A c \in Contributors : due[c] = 0  BY <1>5, <1>7, <2>2 DEF Withdrawable, paid
    <3>2. owed = 0  BY <1>1, <1>3, <2>1, <3>1, SumOfZeros
    <3> QED BY <1>1, <1>7, <3>2 DEF owed, fees
  <2>3. CASE paid # 0
    <3>1. \A c \in Contributors : x[c] \in Nat /\ due[c] = (x[c] * fees) \div paid
      BY <1>1, <1>2, <1>5, <1>7, <2>3 DEF Withdrawable, paid, fees
    <3>2. owed \in Nat /\ paid * owed <= fees * Given(round, r)
      BY <1>1, <1>2, <1>3, <2>1, <2>3, <3>1, SumOfParts
    <3>3. fees * Given(round, r) <= paid * fees
      <4>1. Given(round, r) * fees <= paid * fees  BY <1>1, TimesMono
      <4>2. Given(round, r) * fees = fees * Given(round, r)  BY <1>1
      <4> QED BY <4>1, <4>2
    <3>4. paid * owed <= paid * fees
      <4>1. paid * owed \in Nat /\ fees * Given(round, r) \in Nat /\ paid * fees \in Nat
        BY <1>1, <3>2, TimesNat
      <4> QED BY <3>2, <3>3, <4>1
    <3>5. owed <= fees  BY <1>1, <2>3, <3>2, <3>4, TimesCancel
    <3> QED BY <1>7, <3>2, <3>5 DEF owed, fees
  <2> QED BY <2>2, <2>3
<1>8. CASE HasPaid(round, r) /\ r # final /\ HasPaid(round, final)
  <2>1. ~WithdrawReverts(round, r, final)  BY <1>8 DEF WithdrawReverts
  <2>2. \A c \in Contributors : due[c] = 0  BY <1>5, <1>8 DEF Withdrawable
  <2>3. owed = 0  BY <1>1, <1>3, <2>1, <2>2, SumOfZeros
  <2> QED BY <1>8, <2>3 DEF owed
<1>9. CASE HasPaid(round, r) /\ ~HasPaid(round, final)
  <2>1. CASE WithdrawReverts(round, r, final)  BY <1>4, <1>9, <2>1 DEF owed
  <2>2. CASE ~WithdrawReverts(round, r, final)
    <3>1. TwoFunded(round) /\ FundedFees(round) # 0
      <4>1. ~(Len(round.fundedRulings) < 2) /\ FundedFees(round) # 0
        BY <1>9, <2>2 DEF WithdrawReverts
      <4>2. ~NoneFunded(round)  BY <1>9, FundedSet
      <4>3. ~OneFunded(round)
        <5>1. 1 < 2  OBVIOUS
        <5> QED BY <4>1, <5>1, Zenon DEF OneFunded
      <4> QED BY <4>1, <4>2, <4>3 DEF RoundInv
    <3>2. Both(round) \in Nat \ {0} /\ FundedFees(round) = Both(round)
      BY <3>1, FundedFeesOfTwo
    <3>3. \A c \in Contributors : x[c] \in Nat /\ due[c] = (x[c] * fees) \div Both(round)
      BY <1>2, <1>5, <1>9, <3>2 DEF Withdrawable, fees
    <3>4. owed \in Nat /\ Both(round) * owed <= fees * Given(round, r)
      BY <1>1, <1>2, <1>3, <2>2, <3>2, <3>3, SumOfParts
    <3>5. Both(round) * owed <= fees * paid
      <4>1. Given(round, r) * fees <= paid * fees  BY <1>1, TimesMono
      <4>2. Given(round, r) * fees = fees * Given(round, r) /\ paid * fees = fees * paid  BY <1>1
      <4>3. Both(round) * owed \in Nat /\ fees * Given(round, r) \in Nat /\ fees * paid \in Nat
        BY <1>1, <3>2, <3>4, TimesNat
      <4> QED BY <3>4, <4>1, <4>2, <4>3
    <3> QED BY <1>9, <3>1, <3>2, <3>4, <3>5 DEF owed, fees, paid
  <2> QED BY <2>1, <2>2
<1> QED BY <1>6, <1>7, <1>8, <1>9

\* Two parts of a whole that is divided as it was put together.
LEMMA SharesOfWhole ==
  ASSUME NEW f \in Nat, NEW p \in Nat, NEW q \in Nat, NEW b, b = p + q,
         NEW x \in Nat, NEW y \in Nat,
         x = 0 \/ (b # 0 /\ b * x <= f * p),
         y = 0 \/ (b # 0 /\ b * y <= f * q)
  PROVE  x + y <= f
<1>1. CASE x = 0 /\ y = 0  BY <1>1
<1>2. CASE b # 0
  <2>1. b \in Nat \ {0}  BY <1>2
  <2>2. b * x <= f * p /\ b * y <= f * q
    <3>1. b * 0 = 0 /\ f * p \in Nat /\ f * q \in Nat  BY <2>1, TimesNat
    <3> QED BY <3>1
  <2>3. b * (x + y) = b * x + b * y /\ f * b = f * p + f * q /\ f * b = b * f  BY <2>1
  <2>4. b * x \in Nat /\ b * y \in Nat /\ f * p \in Nat /\ f * q \in Nat  BY <2>1, TimesNat
  <2>5. b * (x + y) <= b * f  BY <2>2, <2>3, <2>4
  <2> QED BY <2>1, <2>5, TimesCancel
<1> QED BY <1>1, <1>2

\* All that can be withdrawn of a round, whatever the ruling, is in its pot.
LEMMA OwedWithinPot ==
  ASSUME NEW round, RoundInv(round), NEW final \in Rulings
  PROVE  OwedIn(round, final) \in Nat /\ Pot(round) \in Nat /\ OwedIn(round, final) <= Pot(round)
<1> DEFINE owed == [r \in Rulings |-> OwedFor(round, r, final)]
           reward == [r \in Rulings |-> IF HasPaid(round, r) THEN OwedFor(round, r, final) ELSE 0]
           back == Unfunded(round)
           capped == [r \in Rulings |-> back[r] + reward[r]]
           Sum(f) == SumFunctionOnSet(f, Rulings)
<1>1. /\ round \in RoundType /\ round.feeRewards \in Nat /\ IsFiniteSet(Rulings)
      /\ round.paidFees \in [Rulings -> Nat]
  BY RoundFields, RulingsFinite DEF RoundInv
<1>2. /\ OwedIn(round, final) = Sum(owed)
      /\ Pot(round) = round.feeRewards + Sum(back)
  BY DEF OwedIn, Pot, SumFunction, Unfunded
<1>3. \A r \in Rulings : /\ owed[r] = OwedFor(round, r, final)
                         /\ reward[r] = IF HasPaid(round, r) THEN OwedFor(round, r, final) ELSE 0
                         /\ back[r] = IF HasPaid(round, r) THEN 0 ELSE round.paidFees[r]
                         /\ capped[r] = back[r] + reward[r]
  BY DEF Unfunded
<1> HIDE DEF owed, reward, back, capped
<1>4. \A r \in Rulings : /\ owed[r] \in Nat /\ reward[r] \in Nat /\ back[r] \in Nat
                         /\ capped[r] = back[r] + reward[r] /\ owed[r] <= capped[r]
  <2> SUFFICES ASSUME NEW r \in Rulings
               PROVE  /\ owed[r] \in Nat /\ reward[r] \in Nat /\ back[r] \in Nat
                      /\ capped[r] = back[r] + reward[r] /\ owed[r] <= capped[r]
    OBVIOUS
  <2>1. /\ OwedFor(round, r, final) \in Nat
        /\ ~HasPaid(round, r) => OwedFor(round, r, final) = Given(round, r)
    BY OwedForBound
  <2>2. round.paidFees[r] \in Nat /\ Given(round, r) <= round.paidFees[r]  BY <1>1 DEF RoundInv
  <2>3. /\ owed[r] = OwedFor(round, r, final)
        /\ reward[r] = IF HasPaid(round, r) THEN OwedFor(round, r, final) ELSE 0
        /\ back[r] = IF HasPaid(round, r) THEN 0 ELSE round.paidFees[r]
        /\ capped[r] = back[r] + reward[r]
    BY <1>3
  <2> QED BY <2>1, <2>2, <2>3
<1>5. Sum(owed) \in Nat /\ Sum(reward) \in Nat /\ Sum(back) \in Nat
  BY <1>1, <1>4, SumType
<1>6. Sum(owed) <= Sum(back) + Sum(reward)
  <2>1. \A r \in Rulings : back[r] \in Int /\ reward[r] \in Int /\ capped[r] = back[r] + 1 * reward[r]
    BY <1>4
  <2>2. Sum(capped) = Sum(back) + 1 * Sum(reward)  BY <1>1, <2>1, SumLinear
  <2>3. \A r \in Rulings : owed[r] \in Int /\ capped[r] \in Int /\ owed[r] <= capped[r]
    BY <1>4
  <2>4. Sum(owed) <= Sum(capped)  BY <1>1, <2>3, SumOrder
  <2> QED BY <1>5, <2>2, <2>4
<1>7. \A r \in Rulings : ~HasPaid(round, r) => reward[r] = 0  BY <1>3
<1>8. Sum(reward) <= round.feeRewards
  <2>1. CASE HasPaid(round, final)
    <3>1. \A r \in Rulings : reward[r] \in Int /\ (r \notin {final} => reward[r] = 0)
      BY <1>3, <1>4, <2>1, OwedForBound
    <3>2. {final} \in SUBSET Rulings  OBVIOUS
    <3>3. SumFunctionOnSet(reward, {final}) = Sum(reward)  BY <1>1, <3>1, <3>2, SumWithZeros
    <3>4. SumFunctionOnSet(reward, {final}) = reward[final]
      <4>1. IsFiniteSet({final}) /\ {final} \ {final} = {}  BY FS_Singleton
      <4>2. reward[final] \in Int /\ final \in {final} /\ \A r \in {final} : reward[r] \in Int
        BY <3>1
      <4>3. SumFunctionOnSet(reward, {final}) = reward[final] + SumFunctionOnSet(reward, {})
        BY <4>1, <4>2, SumWithout
      <4> QED BY <4>2, <4>3, SumOfNone
    <3>5. reward[final] <= round.feeRewards  BY <1>3, <2>1, OwedForBound
    <3> QED BY <3>3, <3>4, <3>5
  <2>2. CASE ~HasPaid(round, final) /\ ~TwoFunded(round)
    <3>1. \A r \in Rulings : reward[r] = 0  BY <1>3, <2>2, OwedForBound
    <3> QED BY <1>1, <3>1, SumOfZeros
  <2>3. CASE ~HasPaid(round, final) /\ TwoFunded(round)
    <3> DEFINE p == First(round)
               q == Second(round)
    <3>1. /\ p \in Rulings /\ q \in Rulings /\ p # q
          /\ \A r \in Rulings : HasPaid(round, r) <=> r \in {p, q}
      BY <2>3, FundedSet DEF TwoFunded
    <3>2. /\ round.paidFees[p] \in Nat /\ round.paidFees[q] \in Nat
          /\ Both(round) = round.paidFees[p] + round.paidFees[q]
      BY <1>1, <3>1 DEF Both
    <3> DEFINE Part(r) == \/ reward[r] = 0
                          \/ /\ Both(round) # 0
                             /\ Both(round) * reward[r] <= round.feeRewards * round.paidFees[r]
    <3>3. \A r \in {p, q} : Part(r)
      BY <1>3, <2>3, <3>1, OwedForBound
    <3> HIDE DEF p, q
    <3>4. Sum(reward) = reward[p] + reward[q]
      <4>1. \A r \in Rulings : reward[r] \in Int /\ (r \notin {p, q} => reward[r] = 0)
        BY <1>4, <1>7, <3>1
      <4>2. {p, q} \in SUBSET Rulings  BY <3>1
      <4>3. SumFunctionOnSet(reward, {p, q}) = Sum(reward)  BY <1>1, <4>1, <4>2, SumWithZeros
      <4>4. SumFunctionOnSet(reward, {p, q}) = reward[p] + reward[q]  BY <3>1, <4>1, SumOfTwo
      <4> QED BY <4>3, <4>4
    <3>5. reward[p] + reward[q] <= round.feeRewards
      <4>1. reward[p] \in Nat /\ reward[q] \in Nat  BY <1>4, <3>1
      <4>2. Part(p) /\ Part(q)
        <5> HIDE DEF Part
        <5> QED BY <3>3
      <4> QED BY <1>1, <3>2, <4>1, <4>2, SharesOfWhole
    <3> QED BY <3>4, <3>5
  <2> QED BY <2>1, <2>2, <2>3
<1> QED BY <1>1, <1>2, <1>5, <1>6, <1>8

----------------------------------------------------------------------------
(* What a contribution, an appeal and a withdrawal change.                 *)

\* One more contribution: which fields change, and how.
AfterContribution(round, after, s, r, amount, total) ==
    LET paid == round.paidFees[r] + amount
    IN  /\ after.paidFees = [round.paidFees EXCEPT ![r] = paid]
        /\ \A c \in Contributors, x \in Rulings : after.contributions[c][x] =
              IF c = s /\ x = r THEN round.contributions[c][x] + amount ELSE round.contributions[c][x]
        /\ paid >= total => /\ after.feeRewards = round.feeRewards + paid
                            /\ after.fundedRulings = Append(round.fundedRulings, r)
        /\ ~(paid >= total) => /\ after.feeRewards = round.feeRewards
                               /\ after.fundedRulings = round.fundedRulings

\* It changes them so.
LEMMA ContributedFields ==
  ASSUME NEW round \in RoundType, NEW s \in Contributors, NEW r \in Rulings,
         NEW amount \in Nat, NEW total \in Nat
  PROVE  LET after == Contributed(round, s, r, amount, total)
         IN  after \in RoundType /\ AfterContribution(round, after, s, r, amount, total)
<1> DEFINE after == Contributed(round, s, r, amount, total)
           paid == round.paidFees[r] + amount
           P == [round.paidFees EXCEPT ![r] = paid]
           C == [round.contributions EXCEPT ![s][r] = @ + amount]
           counted == [round EXCEPT !.paidFees = P, !.contributions = C]
<1>1. /\ round.paidFees \in [Rulings -> Nat] /\ round.feeRewards \in Nat
      /\ round.contributions \in [Contributors -> [Rulings -> Nat]]
      /\ round.fundedRulings \in Seq(Rulings)
  BY RoundFields
<1>2. paid \in Nat /\ P \in [Rulings -> Nat]  BY <1>1
<1>3. /\ C \in [Contributors -> [Rulings -> Nat]]
      /\ \A c \in Contributors, x \in Rulings : C[c][x] =
            IF c = s /\ x = r THEN round.contributions[c][x] + amount ELSE round.contributions[c][x]
  BY <1>1
<1>4. after = IF paid >= total
              THEN [counted EXCEPT !.feeRewards = @ + paid, !.fundedRulings = Append(@, r)]
              ELSE counted
  BY DEF Contributed
<1> HIDE DEF after, P, C, paid
<1>5. /\ counted \in RoundType /\ counted.paidFees = P /\ counted.contributions = C
      /\ counted.feeRewards = round.feeRewards /\ counted.fundedRulings = round.fundedRulings
  BY <1>2, <1>3 DEF RoundType
<1> HIDE DEF counted
<1>6. CASE paid >= total
  <2>1. after = [counted EXCEPT !.feeRewards = @ + paid, !.fundedRulings = Append(@, r)]
    BY <1>4, <1>6
  <2>2. counted.feeRewards + paid \in Nat /\ Append(counted.fundedRulings, r) \in Seq(Rulings)
    BY <1>1, <1>2, <1>5, AppendProperties
  <2>3. /\ after \in RoundType /\ after.paidFees = P /\ after.contributions = C
        /\ after.feeRewards = round.feeRewards + paid
        /\ after.fundedRulings = Append(round.fundedRulings, r)
    BY <1>5, <2>1, <2>2 DEF RoundType
  <2> QED BY <1>3, <1>6, <2>3 DEF AfterContribution, after, P, paid
<1>7. CASE ~(paid >= total)
  <2>1. after = counted  BY <1>4, <1>7
  <2> QED BY <1>3, <1>5, <1>7, <2>1 DEF AfterContribution, after, P, paid
<1> QED BY <1>6, <1>7

\* What is given for a ruling grows by a contribution to it.
LEMMA GivenGrows ==
  ASSUME NEW round \in RoundType, NEW after \in RoundType, NEW s \in Contributors,
         NEW r \in Rulings, NEW amount \in Nat, NEW total,
         AfterContribution(round, after, s, r, amount, total), NEW x \in Rulings
  PROVE  Given(after, x) = Given(round, x) + (IF x = r THEN amount ELSE 0)
<1> DEFINE f == [c \in Contributors |-> round.contributions[c][x]]
           g == [c \in Contributors |-> after.contributions[c][x]]
<1>1. \A c \in Contributors : f[c] \in Nat /\ g[c] \in Nat  BY RoundFields
<1>2. /\ \A c \in Contributors : c # s => g[c] = f[c]
      /\ g[s] = f[s] + (IF x = r THEN amount ELSE 0)
  BY <1>1 DEF AfterContribution
<1>3. /\ Given(round, x) = SumFunctionOnSet(f, Contributors)
      /\ Given(after, x) = SumFunctionOnSet(g, Contributors)
  BY DEF Given, SumFunction
<1> HIDE DEF f, g
<1>4. \A c \in Contributors : f[c] \in Int /\ g[c] \in Int /\ (c # s => g[c] = f[c])
  BY <1>1, <1>2
<1>5. SumFunctionOnSet(g, Contributors) + f[s] = SumFunctionOnSet(f, Contributors) + g[s]
  BY <1>4, RulingsFinite, SumChange
<1>6. SumFunctionOnSet(g, Contributors) \in Int /\ SumFunctionOnSet(f, Contributors) \in Int
  BY <1>4, RulingsFinite, SumType
<1>7. f[s] \in Int /\ (IF x = r THEN amount ELSE 0) \in Int  BY <1>1
<1> QED BY <1>2, <1>3, <1>5, <1>6, <1>7

\* The pot changes with the rewards and with what one ruling is paid.
LEMMA PotChanges ==
  ASSUME NEW round \in RoundType, NEW after \in RoundType, NEW r \in Rulings,
         \A x \in Rulings : x # r => Unfunded(after)[x] = Unfunded(round)[x]
  PROVE  /\ Pot(round) \in Nat /\ Pot(after) \in Nat
         /\ Pot(after) + (round.feeRewards + Unfunded(round)[r])
              = Pot(round) + (after.feeRewards + Unfunded(after)[r])
<1> DEFINE U == Unfunded(round)
           V == Unfunded(after)
<1>1. /\ \A x \in Rulings : U[x] \in Nat /\ V[x] \in Nat
      /\ round.feeRewards \in Nat /\ after.feeRewards \in Nat
  BY RoundFields DEF Unfunded
<1>2. /\ Pot(round) = round.feeRewards + SumFunctionOnSet(U, Rulings)
      /\ Pot(after) = after.feeRewards + SumFunctionOnSet(V, Rulings)
  BY DEF Pot, SumFunction, Unfunded
<1> HIDE DEF U, V
<1>3. \A x \in Rulings : U[x] \in Int /\ V[x] \in Int /\ (x # r => V[x] = U[x])  BY <1>1 DEF U, V
<1>4. SumFunctionOnSet(V, Rulings) + U[r] = SumFunctionOnSet(U, Rulings) + V[r]
  BY <1>3, RulingsFinite, SumChange
<1>5. SumFunctionOnSet(U, Rulings) \in Nat /\ SumFunctionOnSet(V, Rulings) \in Nat
  BY <1>1, RulingsFinite, SumType
<1>6. U[r] \in Nat /\ V[r] \in Nat  BY <1>1
<1>7. /\ Pot(round) \in Nat /\ Pot(after) \in Nat
      /\ Pot(after) + (round.feeRewards + U[r]) = Pot(round) + (after.feeRewards + V[r])
  BY <1>1, <1>2, <1>4, <1>5, <1>6
<1> QED BY <1>7 DEF U, V

\* A contribution keeps a round's books, and the pot grows by it, whether or not
\* it is the one that pays for the ruling.
LEMMA ContributedKeeps ==
  ASSUME NEW round, RoundInv(round), ~TwoFunded(round), NEW s \in Contributors, NEW r \in Rulings,
         ~HasPaid(round, r), NEW amount \in Nat, NEW total \in Nat
  PROVE  LET after == Contributed(round, s, r, amount, total)
         IN  /\ RoundInv(after) /\ Pot(after) = Pot(round) + amount
             /\ TwoFunded(after) => /\ Second(after) = r /\ after.paidFees[r] >= total
                                    /\ after.feeRewards = Both(after)
<1> DEFINE after == Contributed(round, s, r, amount, total)
           paid == round.paidFees[r] + amount
           U == Unfunded(round)
           V == Unfunded(after)
<1>1. /\ round \in RoundType /\ after \in RoundType
      /\ AfterContribution(round, after, s, r, amount, total)
  BY ContributedFields DEF RoundInv
<1> HIDE DEF after
<1>2. /\ round.paidFees \in [Rulings -> Nat] /\ round.feeRewards \in Nat
      /\ round.fundedRulings \in Seq(Rulings) /\ paid \in Nat
      /\ after.paidFees = [round.paidFees EXCEPT ![r] = paid]
  BY <1>1, RoundFields DEF AfterContribution
<1>3. \A x \in Rulings : Given(after, x) <= after.paidFees[x]
  <2> SUFFICES ASSUME NEW x \in Rulings PROVE Given(after, x) <= after.paidFees[x]
    OBVIOUS
  <2>1. Given(after, x) = Given(round, x) + (IF x = r THEN amount ELSE 0)  BY <1>1, GivenGrows
  <2>2. Given(round, x) \in Nat /\ Given(round, x) <= round.paidFees[x] /\ round.paidFees[x] \in Nat
    BY <1>1, <1>2, GivenCovers DEF RoundInv
  <2> QED BY <1>2, <2>1, <2>2
<1>4. CASE ~(paid >= total)
  <2>1. after.feeRewards = round.feeRewards /\ after.fundedRulings = round.fundedRulings
    BY <1>1, <1>4 DEF AfterContribution
  <2>2. \A x : HasPaid(after, x) <=> HasPaid(round, x)  BY <2>1 DEF HasPaid
  <2>3. NoneFunded(after) \/ OneFunded(after)
    <3>1. CASE NoneFunded(round)  BY <2>1, <3>1 DEF NoneFunded
    <3>2. CASE OneFunded(round)
      <4>1. First(round) \in Rulings /\ First(round) # r  BY <3>2, FundedSet
      <4>2. First(after) = First(round) /\ after.paidFees[First(round)] = round.paidFees[First(round)]
        BY <1>2, <2>1, <4>1 DEF First
      <4> QED BY <2>1, <3>2, <4>2 DEF OneFunded
    <3> QED BY <3>1, <3>2 DEF RoundInv
  <2>4. ~TwoFunded(after)
    <3>1. Len(<<>>) = 0 /\ 0 # 2 /\ 1 # 2  OBVIOUS
    <3> QED BY <2>3, <3>1, Zenon DEF TwoFunded, NoneFunded, OneFunded
  <2>5. V[r] = U[r] + amount /\ U[r] \in Nat /\ \A x \in Rulings : x # r => V[x] = U[x]
    BY <1>2, <2>2 DEF Unfunded
  <2> HIDE DEF U, V
  <2>6. /\ Pot(round) \in Nat /\ Pot(after) \in Nat
        /\ Pot(after) + (round.feeRewards + U[r]) = Pot(round) + (after.feeRewards + V[r])
    BY <1>1, <2>5, PotChanges DEF U, V
  <2>7. Pot(after) = Pot(round) + amount
    <3>1. Pot(after) + (round.feeRewards + U[r]) = Pot(round) + (round.feeRewards + (U[r] + amount))
      BY <2>1, <2>5, <2>6
    <3>2. round.feeRewards \in Nat /\ U[r] \in Nat  BY <1>2, <2>5
    <3> QED BY <2>6, <3>1, <3>2
  <2> QED BY <1>1, <1>3, <2>3, <2>4, <2>7 DEF RoundInv, after
<1>5. CASE paid >= total
  <2>1. /\ after.feeRewards = round.feeRewards + paid
        /\ after.fundedRulings = Append(round.fundedRulings, r)
    BY <1>1, <1>5 DEF AfterContribution
  <2>2. /\ Len(after.fundedRulings) = Len(round.fundedRulings) + 1
        /\ Len(round.fundedRulings) \in Nat
        /\ \A i \in 1..Len(round.fundedRulings) : after.fundedRulings[i] = round.fundedRulings[i]
        /\ after.fundedRulings[Len(round.fundedRulings) + 1] = r
    BY <1>2, <2>1, AppendProperties
  <2>3. \A x : HasPaid(after, x) <=> (HasPaid(round, x) \/ x = r)
    <3>1. DOMAIN after.fundedRulings = 1..Len(round.fundedRulings) + 1
      BY <1>1, <2>2, RoundFields
    <3>2. DOMAIN round.fundedRulings = 1..Len(round.fundedRulings)  BY <1>2
    <3>3. ASSUME NEW x, HasPaid(after, x) PROVE HasPaid(round, x) \/ x = r
      <4>1. PICK i \in 1..Len(round.fundedRulings) + 1 : after.fundedRulings[i] = x
        BY <3>1, <3>3 DEF HasPaid, ToSet
      <4>2. CASE i = Len(round.fundedRulings) + 1  BY <2>2, <4>1, <4>2
      <4>3. CASE i \in 1..Len(round.fundedRulings)
        BY <2>2, <3>2, <4>1, <4>3 DEF HasPaid, ToSet
      <4> QED BY <2>2, <4>2, <4>3
    <3>4. ASSUME NEW x, HasPaid(round, x) \/ x = r PROVE HasPaid(after, x)
      <4>1. CASE x = r
        <5>1. Len(round.fundedRulings) + 1 \in DOMAIN after.fundedRulings  BY <2>2, <3>1
        <5> QED BY <2>2, <4>1, <5>1 DEF HasPaid, ToSet
      <4>2. CASE HasPaid(round, x)
        <5>1. PICK i \in 1..Len(round.fundedRulings) : round.fundedRulings[i] = x
          BY <3>2, <4>2 DEF HasPaid, ToSet
        <5>2. i \in DOMAIN after.fundedRulings /\ after.fundedRulings[i] = x
          BY <2>2, <3>1, <5>1
        <5> QED BY <5>2 DEF HasPaid, ToSet
      <4> QED BY <3>4, <4>1, <4>2
    <3> QED BY <3>3, <3>4
  <2>4. /\ OneFunded(after) \/ TwoFunded(after)
        /\ TwoFunded(after) => /\ Second(after) = r /\ after.paidFees[r] >= total
                               /\ after.feeRewards = Both(after)
    <3>1. CASE NoneFunded(round)
      <4>1. Len(after.fundedRulings) = 1 /\ First(after) = r  BY <2>2, <3>1 DEF NoneFunded, First
      <4>2. after.feeRewards = paid /\ after.paidFees[r] = paid
        BY <1>2, <2>1, <3>1 DEF NoneFunded
      <4>3. OneFunded(after)  BY <4>1, <4>2 DEF OneFunded
      <4>4. ~TwoFunded(after)
        <5>1. 1 # 2  OBVIOUS
        <5> QED BY <4>1, <5>1, Zenon DEF TwoFunded
      <4> QED BY <4>3, <4>4
    <3>2. CASE OneFunded(round)
      <4> DEFINE f == First(round)
      <4>1. f \in Rulings /\ f # r  BY <3>2, FundedSet
      <4>2. Len(after.fundedRulings) = 2 /\ First(after) = f /\ Second(after) = r
        BY <2>2, <3>2 DEF OneFunded, First, Second
      <4>3. round.feeRewards = round.paidFees[f]  BY <3>2 DEF OneFunded
      <4> HIDE DEF f
      <4>4. /\ after.paidFees[f] = round.paidFees[f] /\ after.paidFees[r] = paid
            /\ round.paidFees[f] \in Nat
        BY <1>2, <4>1
      <4>5. after.feeRewards = Both(after)  BY <2>1, <4>2, <4>3, <4>4 DEF Both
      <4>6. TwoFunded(after)
        BY <1>2, <2>1, <4>1, <4>2, <4>3, <4>4 DEF TwoFunded
      <4> QED BY <1>5, <4>2, <4>4, <4>5, <4>6
    <3> QED BY <3>1, <3>2 DEF RoundInv
  <2>5. V[r] = 0 /\ U[r] = round.paidFees[r] /\ \A x \in Rulings : x # r => V[x] = U[x]
    BY <1>2, <2>3 DEF Unfunded
  <2> HIDE DEF U, V
  <2>6. /\ Pot(round) \in Nat /\ Pot(after) \in Nat
        /\ Pot(after) + (round.feeRewards + U[r]) = Pot(round) + (after.feeRewards + V[r])
    BY <1>1, <2>5, PotChanges DEF U, V
  <2>7. round.paidFees[r] \in Nat  BY <1>2
  <2>8. Pot(after) = Pot(round) + amount  BY <1>2, <2>1, <2>5, <2>6, <2>7
  <2> QED BY <1>1, <1>3, <2>4, <2>8 DEF RoundInv, after
<1> QED BY <1>4, <1>5

\* An appeal takes its price out of the rewards, and no more than is in them.
LEMMA AppealKeeps ==
  ASSUME NEW round, RoundInv(round), TwoFunded(round), round.feeRewards = Both(round),
         NEW cost \in Nat, cost <= round.paidFees[Second(round)]
  PROVE  LET after == AfterAppeal(round, cost)
         IN  RoundInv(after) /\ TwoFunded(after) /\ Pot(after) + cost = Pot(round)
                             /\ Pot(after) \in Nat
<1> DEFINE after == AfterAppeal(round, cost)
           p == round.paidFees[First(round)]
           q == round.paidFees[Second(round)]
<1>1. round \in RoundType /\ First(round) \in Rulings /\ Second(round) \in Rulings
  BY FundedSet DEF RoundInv
<1>2. p \in Nat /\ q \in Nat /\ round.feeRewards = p + q /\ cost <= q
  BY <1>1, RoundFields DEF Both
<1> HIDE DEF p, q
<1>3. SubCap(round.feeRewards, cost) = p + q - cost  BY <1>2 DEF SubCap
<1> DEFINE rest == p + q - cost
<1>4. after = [round EXCEPT !.feeRewards = rest] /\ rest \in Nat
  BY <1>2, <1>3 DEF AfterAppeal
<1> HIDE DEF after, rest
<1>5. /\ after \in RoundType /\ after.paidFees = round.paidFees
      /\ after.contributions = round.contributions /\ after.fundedRulings = round.fundedRulings
      /\ after.feeRewards = rest
  BY <1>1, <1>4 DEF RoundType
<1>6. First(after) = First(round) /\ Second(after) = Second(round)  BY <1>5 DEF First, Second
<1>7. TwoFunded(after)
  <2>1. p <= p + q - cost /\ p + q - cost <= p + q  BY <1>2
  <2> QED BY <1>5, <1>6, <2>1 DEF TwoFunded, p, q, rest
<1>8. \A r \in Rulings : Given(after, r) <= after.paidFees[r]  BY <1>5 DEF RoundInv, Given
<1>9. Unfunded(after) = Unfunded(round)  BY <1>5 DEF Unfunded, HasPaid
<1>10. Pot(after) + cost = Pot(round) /\ Pot(after) \in Nat
  <2>1. \A r \in Rulings : Unfunded(round)[r] \in Nat  BY <1>1, RoundFields DEF Unfunded
  <2>2. SumFunctionOnSet(Unfunded(round), Rulings) \in Nat  BY <2>1, RulingsFinite, SumType
  <2>3. DOMAIN Unfunded(round) = Rulings  BY DEF Unfunded
  <2> QED BY <1>2, <1>5, <1>9, <2>2, <2>3 DEF Pot, SumFunction, rest
<1> QED BY <1>5, <1>7, <1>8, <1>10 DEF RoundInv, after

\* What is owed to the contributors of a ruling depends on their contributions,
\* on what was paid for it and on what funded the rulings of the round.
LEMMA OwedForSame ==
  ASSUME NEW x, NEW y, NEW r, NEW final,
         y.fundedRulings = x.fundedRulings, y.feeRewards = x.feeRewards,
         FundedFees(y) = FundedFees(x), y.paidFees[r] = x.paidFees[r],
         \A c \in Contributors : y.contributions[c][r] = x.contributions[c][r]
  PROVE  OwedFor(y, r, final) = OwedFor(x, r, final)
<1>1. \A s : HasPaid(y, s) = HasPaid(x, s)  BY DEF HasPaid
<1>2. WithdrawReverts(y, r, final) = WithdrawReverts(x, r, final)  BY <1>1 DEF WithdrawReverts
<1>3. \A c \in Contributors : Withdrawable(y, c, r, final) = Withdrawable(x, c, r, final)
  BY <1>1 DEF Withdrawable
<1>4. [c \in Contributors |-> Withdrawable(y, c, r, final)]
        = [c \in Contributors |-> Withdrawable(x, c, r, final)]
  BY <1>3
<1> QED BY <1>2, <1>4 DEF OwedFor

\* A contribution that does not pay for its ruling is owed to its sender.
LEMMA OwedGrows ==
  ASSUME NEW round, RoundInv(round), ~TwoFunded(round), NEW s \in Contributors, NEW r \in Rulings,
         ~HasPaid(round, r), NEW amount \in Nat, NEW total \in Nat,
         round.paidFees[r] + amount < total, NEW final \in Rulings
  PROVE  LET after == Contributed(round, s, r, amount, total)
         IN  /\ after.fundedRulings = round.fundedRulings
             /\ OwedIn(after, final) = OwedIn(round, final) + amount
<1> DEFINE after == Contributed(round, s, r, amount, total)
           f == [x \in Rulings |-> OwedFor(round, x, final)]
           g == [x \in Rulings |-> OwedFor(after, x, final)]
<1>1. /\ round \in RoundType /\ after \in RoundType /\ RoundInv(after)
      /\ AfterContribution(round, after, s, r, amount, total)
  BY ContributedFields, ContributedKeeps DEF RoundInv
<1> HIDE DEF after
<1>2. /\ round.paidFees[r] \in Nat /\ round.fundedRulings \in Seq(Rulings)
      /\ round.paidFees \in [Rulings -> Nat]
  BY <1>1, RoundFields
<1>3. after.feeRewards = round.feeRewards /\ after.fundedRulings = round.fundedRulings
  BY <1>1, <1>2 DEF AfterContribution
<1>4. \A x \in Rulings : x # r => /\ after.paidFees[x] = round.paidFees[x]
                                  /\ \A c \in Contributors :
                                        after.contributions[c][x] = round.contributions[c][x]
  BY <1>1, <1>2 DEF AfterContribution
<1>5. FundedFees(after) = FundedFees(round)
  <2>1. \A i \in DOMAIN round.fundedRulings :
           /\ round.fundedRulings[i] \in Rulings /\ round.fundedRulings[i] # r
    BY <1>2 DEF HasPaid, ToSet
  <2>2. \A i \in DOMAIN round.fundedRulings :
           after.paidFees[round.fundedRulings[i]] = round.paidFees[round.fundedRulings[i]]
    BY <1>4, <2>1
  <2> QED BY <1>3, <2>2 DEF FundedFees
<1>6. \A x \in Rulings : x # r => g[x] = f[x]
  BY <1>3, <1>4, <1>5, OwedForSame
<1>7. f[r] = Given(round, r) /\ g[r] = Given(round, r) + amount
  <2>1. ~HasPaid(after, r)  BY <1>3 DEF HasPaid
  <2>2. f[r] = Given(round, r) /\ g[r] = Given(after, r)  BY <1>1, <2>1, OwedForBound
  <2>3. Given(after, r) = Given(round, r) + amount  BY <1>1, GivenGrows
  <2> QED BY <2>2, <2>3
<1>8. \A x \in Rulings : f[x] \in Nat /\ g[x] \in Nat  BY <1>1, OwedForBound
<1>9. /\ OwedIn(round, final) = SumFunctionOnSet(f, Rulings)
      /\ OwedIn(after, final) = SumFunctionOnSet(g, Rulings)
  BY DEF OwedIn, SumFunction
<1> HIDE DEF f, g
<1>10. \A x \in Rulings : f[x] \in Int /\ g[x] \in Int /\ (x # r => g[x] = f[x])  BY <1>6, <1>8
<1>11. SumFunctionOnSet(g, Rulings) + f[r] = SumFunctionOnSet(f, Rulings) + g[r]
  BY <1>10, RulingsFinite, SumChange
<1>12. SumFunctionOnSet(g, Rulings) \in Int /\ SumFunctionOnSet(f, Rulings) \in Int
  BY <1>10, RulingsFinite, SumType
<1>13. Given(round, r) \in Nat  BY <1>1, GivenCovers
<1>14. OwedIn(after, final) = OwedIn(round, final) + amount
  BY <1>7, <1>9, <1>11, <1>12, <1>13
<1> QED BY <1>3, <1>14 DEF after

\* A withdrawal takes out of a round what it pays, and no more.
LEMMA WithdrawnFromRound ==
  ASSUME NEW round, RoundInv(round), NEW c \in Contributors, NEW r \in Rulings, NEW final \in Rulings,
         ~WithdrawReverts(round, r, final)
  PROVE  LET after == [round EXCEPT !.contributions[c][r] = 0]
             due == Withdrawable(round, c, r, final)
         IN  /\ RoundInv(after) /\ after.fundedRulings = round.fundedRulings /\ due \in Nat
             /\ OwedIn(after, final) + due = OwedIn(round, final)
<1> DEFINE C == [round.contributions EXCEPT ![c][r] = 0]
           after == [round EXCEPT !.contributions[c][r] = 0]
           f == [x \in Rulings |-> OwedFor(round, x, final)]
           g == [x \in Rulings |-> OwedFor(after, x, final)]
           due == Withdrawable(round, c, r, final)
           p == [b \in Contributors |-> Withdrawable(round, b, r, final)]
           q == [b \in Contributors |-> Withdrawable(after, b, r, final)]
<1>1. round \in RoundType /\ C \in [Contributors -> [Rulings -> Nat]]
      /\ after = [round EXCEPT !.contributions = C]
  BY RoundFields DEF RoundInv
<1>2. \A b \in Contributors, x \in Rulings :
         C[b][x] = IF b = c /\ x = r THEN 0 ELSE round.contributions[b][x]
  BY <1>1, RoundFields
<1> HIDE DEF C, after
<1>3. /\ after \in RoundType /\ after.contributions = C /\ after.paidFees = round.paidFees
      /\ after.feeRewards = round.feeRewards /\ after.fundedRulings = round.fundedRulings
  BY <1>1 DEF RoundType
<1>4. \A x \in Rulings : Given(after, x) <= Given(round, x)
  <2> SUFFICES ASSUME NEW x \in Rulings PROVE Given(after, x) <= Given(round, x)
    OBVIOUS
  <2> DEFINE u == [b \in Contributors |-> after.contributions[b][x]]
             v == [b \in Contributors |-> round.contributions[b][x]]
  <2>1. \A b \in Contributors : u[b] \in Nat /\ v[b] \in Nat  BY <1>1, <1>3, RoundFields
  <2>2. \A b \in Contributors : u[b] = 0 \/ u[b] = v[b]  BY <1>2, <1>3
  <2>3. /\ Given(after, x) = SumFunctionOnSet(u, Contributors)
        /\ Given(round, x) = SumFunctionOnSet(v, Contributors)
    BY DEF Given, SumFunction
  <2> HIDE DEF u, v
  <2>4. \A b \in Contributors : u[b] \in Int /\ v[b] \in Int /\ u[b] <= v[b]  BY <2>1, <2>2
  <2> QED BY <2>3, <2>4, RulingsFinite, SumOrder
<1>5. RoundInv(after)
  <2>1. \A x \in Rulings : Given(after, x) <= after.paidFees[x]
    <3> SUFFICES ASSUME NEW x \in Rulings PROVE Given(after, x) <= after.paidFees[x]
      OBVIOUS
    <3>1. Given(after, x) <= Given(round, x) /\ Given(round, x) <= round.paidFees[x]
      BY <1>4 DEF RoundInv
    <3>2. Given(after, x) \in Nat /\ Given(round, x) \in Nat /\ round.paidFees[x] \in Nat
      BY <1>1, <1>3, GivenCovers, RoundFields
    <3> QED BY <1>3, <3>1, <3>2
  <2>2. First(after) = First(round) /\ Second(after) = Second(round)  BY <1>3 DEF First, Second
  <2>3. NoneFunded(after) \/ OneFunded(after) \/ TwoFunded(after)
    BY <1>3, <2>2 DEF RoundInv, NoneFunded, OneFunded, TwoFunded
  <2> QED BY <1>3, <2>1, <2>3 DEF RoundInv
<1>6. FundedFees(after) = FundedFees(round)  BY <1>3 DEF FundedFees
<1>7. \A x \in Rulings : x # r => g[x] = f[x]
  <2>1. \A x \in Rulings : x # r => \A b \in Contributors :
            after.contributions[b][x] = round.contributions[b][x]
    BY <1>2, <1>3
  <2> QED BY <1>3, <1>6, <2>1, OwedForSame
<1>8. \A s : HasPaid(after, s) <=> HasPaid(round, s)  BY <1>3 DEF HasPaid
<1>9. /\ ~WithdrawReverts(after, r, final)
      /\ f[r] = SumFunctionOnSet(p, Contributors) /\ g[r] = SumFunctionOnSet(q, Contributors)
  BY <1>3, <1>6, <1>8 DEF WithdrawReverts, OwedFor, SumFunction
<1>10. /\ \A b \in Contributors : p[b] \in Nat
       /\ \A b \in Contributors : b # c => q[b] = p[b]
       /\ q[c] = 0 /\ p[c] = due
  <2>1. \A b \in Contributors : round.contributions[b][r] \in Nat
    BY <1>1, RoundFields
  <2>2. \A b \in Contributors : b # c => after.contributions[b][r] = round.contributions[b][r]
    BY <1>2, <1>3
  <2>3. after.contributions[c][r] = 0  BY <1>2, <1>3
  <2>4. round.feeRewards \in Nat /\ round.paidFees[r] \in Nat  BY <1>1, RoundFields
  <2>5. HasPaid(round, r) /\ ~HasPaid(round, final) => FundedFees(round) \in Nat \ {0}
    <3> SUFFICES ASSUME HasPaid(round, r), ~HasPaid(round, final) PROVE FundedFees(round) \in Nat \ {0}
      OBVIOUS
    <3>1. ~(Len(round.fundedRulings) < 2) /\ FundedFees(round) # 0  BY DEF WithdrawReverts
    <3>2. 1 < 2  OBVIOUS
    <3>3. ~OneFunded(round)  BY <3>1, <3>2, Zenon DEF OneFunded
    <3>4. TwoFunded(round)  BY <3>3, FundedSet DEF RoundInv
    <3> QED BY <3>1, <3>4, FundedFeesOfTwo
  <2>6. \A n \in Nat, d \in Nat \ {0} : /\ (n * round.feeRewards) \div d \in Nat
                                        /\ (0 * round.feeRewards) \div d = 0
    <3> SUFFICES ASSUME NEW n \in Nat, NEW d \in Nat \ {0}
                 PROVE  (n * round.feeRewards) \div d \in Nat /\ (0 * round.feeRewards) \div d = 0
      OBVIOUS
    <3>1. n * round.feeRewards \in Nat /\ 0 * round.feeRewards = 0  BY <2>4, TimesNat
    <3>2. 0 \div d = 0  OBVIOUS
    <3> QED BY <3>1, <3>2, DivType
  <2>7. \A b \in Contributors : Withdrawable(round, b, r, final) \in Nat
    <3> SUFFICES ASSUME NEW b \in Contributors PROVE Withdrawable(round, b, r, final) \in Nat
      OBVIOUS
    <3>1. CASE ~HasPaid(round, r)  BY <2>1, <3>1 DEF Withdrawable
    <3>2. CASE HasPaid(round, r) /\ r = final
      <4>1. CASE round.paidFees[r] = 0  BY <3>2, <4>1 DEF Withdrawable
      <4>2. CASE round.paidFees[r] # 0
        <5>1. round.paidFees[r] \in Nat \ {0} /\ round.paidFees[r] > 0  BY <2>4, <4>2
        <5> QED BY <2>1, <2>6, <3>2, <5>1 DEF Withdrawable
      <4> QED BY <4>1, <4>2
    <3>3. CASE HasPaid(round, r) /\ r # final /\ HasPaid(round, final)
      BY <3>3 DEF Withdrawable
    <3>4. CASE HasPaid(round, r) /\ ~HasPaid(round, final)
      BY <2>1, <2>5, <2>6, <3>4 DEF Withdrawable
    <3> QED BY <3>1, <3>2, <3>3, <3>4
  <2>8. \A b \in Contributors : b # c => Withdrawable(after, b, r, final) = Withdrawable(round, b, r, final)
    BY <1>3, <1>6, <1>8, <2>2 DEF Withdrawable
  <2>9. Withdrawable(after, c, r, final) = 0
    <3>1. CASE ~HasPaid(round, r)  BY <1>8, <2>3, <3>1 DEF Withdrawable
    <3>2. CASE HasPaid(round, r) /\ r = final
      <4>1. CASE round.paidFees[r] = 0  BY <1>3, <1>8, <3>2, <4>1 DEF Withdrawable
      <4>2. CASE round.paidFees[r] # 0
        <5>1. round.paidFees[r] \in Nat \ {0} /\ round.paidFees[r] > 0  BY <2>4, <4>2
        <5> QED BY <1>3, <1>8, <2>3, <2>6, <3>2, <5>1 DEF Withdrawable
      <4> QED BY <4>1, <4>2
    <3>3. CASE HasPaid(round, r) /\ r # final /\ HasPaid(round, final)
      BY <1>8, <3>3 DEF Withdrawable
    <3>4. CASE HasPaid(round, r) /\ ~HasPaid(round, final)
      BY <1>3, <1>6, <1>8, <2>3, <2>5, <2>6, <3>4 DEF Withdrawable
    <3> QED BY <3>1, <3>2, <3>3, <3>4
  <2> QED BY <2>7, <2>8, <2>9
<1>11. \A x \in Rulings : f[x] \in Nat /\ g[x] \in Nat  BY <1>5, OwedForBound
<1>12. /\ OwedIn(round, final) = SumFunctionOnSet(f, Rulings)
       /\ OwedIn(after, final) = SumFunctionOnSet(g, Rulings)
  BY DEF OwedIn, SumFunction
<1> HIDE DEF f, g, p, q, due
<1>13. g[r] + due = f[r]
  <2>1. \A b \in Contributors : p[b] \in Int /\ q[b] \in Int /\ (b # c => q[b] = p[b])  BY <1>10
  <2>2. SumFunctionOnSet(q, Contributors) + p[c] = SumFunctionOnSet(p, Contributors) + q[c]
    BY <2>1, RulingsFinite, SumChange
  <2>3. SumFunctionOnSet(p, Contributors) \in Int /\ SumFunctionOnSet(q, Contributors) \in Int
    BY <2>1, RulingsFinite, SumType
  <2>4. p[c] \in Int  BY <2>1
  <2> QED BY <1>9, <1>10, <2>2, <2>3, <2>4
<1>14. SumFunctionOnSet(g, Rulings) + f[r] = SumFunctionOnSet(f, Rulings) + g[r]
  <2>1. \A x \in Rulings : f[x] \in Int /\ g[x] \in Int /\ (x # r => g[x] = f[x])  BY <1>7, <1>11
  <2> QED BY <2>1, RulingsFinite, SumChange
<1>15. SumFunctionOnSet(g, Rulings) \in Nat /\ SumFunctionOnSet(f, Rulings) \in Nat
  BY <1>11, RulingsFinite, SumType
<1>16. due \in Nat /\ f[r] \in Nat /\ g[r] \in Nat  BY <1>10, <1>11
<1>17. OwedIn(after, final) + due = OwedIn(round, final)
  BY <1>12, <1>13, <1>14, <1>15, <1>16
<1> QED BY <1>3, <1>5, <1>16, <1>17 DEF after, due

\* Whoever paid first for a ruling gets at least as much back if it wins: the
\* rewards are never less than what was paid for the first of the two.
LEMMA FirstFunders ==
  ASSUME NEW round, RoundInv(round), round.fundedRulings # << >>, NEW c \in Contributors
  PROVE  LET first == round.fundedRulings[1]
         IN  Withdrawable(round, c, first, first) >= round.contributions[c][first]
<1> DEFINE first == First(round)
           x == round.contributions[c][first]
           p == round.paidFees[first]
           fees == round.feeRewards
<1>1. ~NoneFunded(round)  BY DEF NoneFunded
<1>2. first \in Rulings /\ HasPaid(round, first)  BY <1>1, FundedSet DEF RoundInv
<1>3. round \in RoundType /\ p \in Nat /\ fees \in Nat /\ x \in Nat /\ x <= p
  <2>1. round \in RoundType /\ Given(round, first) <= p  BY <1>2 DEF RoundInv
  <2>2. p \in Nat /\ fees \in Nat  BY <1>2, <2>1, RoundFields
  <2>3. Given(round, first) \in Nat /\ x \in Nat /\ x <= Given(round, first)
    BY <1>2, <2>1, GivenCovers
  <2> QED BY <2>1, <2>2, <2>3
<1>4. p <= fees  BY <1>1, <1>3 DEF RoundInv, OneFunded, TwoFunded
<1>5. Withdrawable(round, c, first, first) = IF p > 0 THEN (x * fees) \div p ELSE 0
  BY <1>2 DEF Withdrawable
<1> HIDE DEF first, x, p, fees
<1>6. Withdrawable(round, c, first, first) >= x
  <2>1. CASE p = 0  BY <1>3, <1>5, <2>1
  <2>2. CASE p # 0
    <3>1. p \in Nat \ {0} /\ p > 0  BY <1>3, <2>2
    <3>2. x * p <= x * fees
      <4>1. p * x <= fees * x  BY <1>3, <1>4, TimesMono
      <4>2. p * x = x * p /\ fees * x = x * fees  BY <1>3
      <4> QED BY <4>1, <4>2
    <3>3. x * p \in Nat /\ x * fees \in Nat  BY <1>3, TimesNat
    <3>4. (x * p) \div p <= (x * fees) \div p  BY <3>1, <3>2, <3>3, DivMono
    <3>5. x <= (x * p) \div p
      <4> DEFINE q == (x * p) \div p
      <4>1. q \in Nat /\ x * p < p * q + p  BY <3>1, <3>3, DivType, DivBounds
      <4> HIDE DEF q
      <4>2. p * x < p * (q + 1)
        <5>1. p * (q + 1) = p * q + p /\ p * x = x * p  BY <1>3, <4>1
        <5> QED BY <4>1, <5>1
      <4>3. SUFFICES ASSUME ~(x <= q) PROVE FALSE
        BY DEF q
      <4>4. q + 1 <= x /\ q + 1 \in Nat  BY <1>3, <4>1, <4>3
      <4>5. (q + 1) * p <= x * p  BY <1>3, <4>4, TimesMono
      <4>6. (q + 1) * p = p * (q + 1) /\ p * x = x * p  BY <1>3, <4>1
      <4>7. p * (q + 1) \in Nat /\ p * x \in Nat  BY <1>3, <4>4, TimesNat
      <4> QED BY <4>2, <4>5, <4>6, <4>7
    <3>6. (x * p) \div p \in Nat /\ (x * fees) \div p \in Nat  BY <3>1, <3>3, DivType
    <3> QED BY <1>3, <1>5, <3>1, <3>4, <3>5, <3>6
  <2> QED BY <2>1, <2>2
<1> QED BY <1>6 DEF first, x, First

----------------------------------------------------------------------------
(* The rounds of a dispute.                                                *)

\* All rounds before the last were appealed; the last one was not yet.
RoundsInv(rs) ==
    /\ rs \in Seq(RoundType) /\ rs # << >>
    /\ \A i \in 1..Len(rs) : RoundInv(rs[i])
    /\ \A i \in 1..Len(rs) - 1 : TwoFunded(rs[i])
    /\ ~TwoFunded(rs[Len(rs)])

\* What is in the pots of all rounds, and what can be withdrawn of all of them.
Pots(rs) == [i \in 1..Len(rs) |-> Pot(rs[i])]
PotOf(rs) == SumFunctionOnSet(Pots(rs), 1..Len(rs))

Dues(rs, final) == [i \in 1..Len(rs) |-> OwedIn(rs[i], final)]
OwedOf(rs, final) == SumFunctionOnSet(Dues(rs, final), 1..Len(rs))

\* What can be withdrawn is within the pots.
LEMMA OwedWithinPots ==
  ASSUME NEW rs, RoundsInv(rs), NEW final \in Rulings
  PROVE  /\ OwedOf(rs, final) \in Nat /\ PotOf(rs) \in Nat
         /\ OwedOf(rs, final) <= PotOf(rs)
<1>1. Len(rs) \in Nat /\ IsFiniteSet(1..Len(rs))
  <2>1. Len(rs) \in Nat  BY DEF RoundsInv
  <2> QED BY <2>1, FS_Interval
<1>2. \A i \in 1..Len(rs) : /\ OwedIn(rs[i], final) \in Nat /\ Pot(rs[i]) \in Nat
                            /\ OwedIn(rs[i], final) <= Pot(rs[i])
  BY OwedWithinPot DEF RoundsInv
<1>3. \A i \in 1..Len(rs) : /\ Dues(rs, final)[i] \in Nat /\ Pots(rs)[i] \in Nat
                            /\ Dues(rs, final)[i] <= Pots(rs)[i]
  BY <1>2 DEF Dues, Pots
<1>4. OwedOf(rs, final) \in Nat /\ PotOf(rs) \in Nat
  BY <1>1, <1>3, SumType DEF OwedOf, PotOf
<1>5. \A i \in 1..Len(rs) : /\ Dues(rs, final)[i] \in Int /\ Pots(rs)[i] \in Int
                            /\ Dues(rs, final)[i] <= Pots(rs)[i]
  BY <1>3
<1>6. OwedOf(rs, final) <= PotOf(rs)  BY <1>1, <1>5, SumOrder DEF OwedOf, PotOf
<1> QED BY <1>4, <1>6

\* A new round is empty.
LEMMA NewRoundIsEmpty ==
  /\ RoundInv(NewRound) /\ NoneFunded(NewRound) /\ ~TwoFunded(NewRound)
  /\ Pot(NewRound) = 0
<1>1. NewRound \in RoundType  BY DEF NewRound, RoundType
<1>2. NoneFunded(NewRound)  BY DEF NewRound, NoneFunded
<1>3. \A r \in Rulings : Given(NewRound, r) = 0
  <2> SUFFICES ASSUME NEW r \in Rulings PROVE Given(NewRound, r) = 0
    OBVIOUS
  <2> DEFINE f == [c \in Contributors |-> NewRound.contributions[c][r]]
  <2>1. \A c \in Contributors : f[c] = 0  BY DEF NewRound
  <2>2. Given(NewRound, r) = SumFunctionOnSet(f, Contributors)  BY DEF Given, SumFunction
  <2> HIDE DEF f
  <2> QED BY <2>1, <2>2, RulingsFinite, SumOfZeros
<1>4. RoundInv(NewRound)
  <2>1. \A r \in Rulings : NewRound.paidFees[r] = 0  BY DEF NewRound
  <2> QED BY <1>1, <1>2, <1>3, <2>1 DEF RoundInv
<1>5. ~TwoFunded(NewRound)
  <2>1. Len(<< >>) = 0 /\ 0 # 2  OBVIOUS
  <2> QED BY <1>2, <2>1, Zenon DEF NoneFunded, TwoFunded
<1>6. Pot(NewRound) = 0
  <2>1. \A r \in Rulings : Unfunded(NewRound)[r] = 0  BY DEF NewRound, Unfunded
  <2>2. SumFunctionOnSet(Unfunded(NewRound), Rulings) = 0  BY <2>1, RulingsFinite, SumOfZeros
  <2>3. Pot(NewRound) = NewRound.feeRewards + SumFunctionOnSet(Unfunded(NewRound), Rulings)
    BY DEF Pot, SumFunction, Unfunded
  <2> QED BY <2>2, <2>3 DEF NewRound
<1> QED BY <1>2, <1>4, <1>5, <1>6

\* So is a new dispute.
LEMMA NewDisputeIsEmpty == RoundsInv(<<NewRound>>) /\ PotOf(<<NewRound>>) = 0
<1> DEFINE rs == <<NewRound>>
<1>1. Len(rs) = 1 /\ rs[1] = NewRound /\ rs # << >> /\ rs \in Seq(RoundType)
  BY NewRoundIsEmpty DEF RoundInv
<1> HIDE DEF rs
<1>2. RoundsInv(rs)  BY <1>1, NewRoundIsEmpty DEF RoundsInv
<1>3. \A i \in 1..Len(rs) : Pots(rs)[i] = 0  BY <1>1, NewRoundIsEmpty DEF Pots
<1>4. IsFiniteSet(1..Len(rs))  BY <1>1, FS_Interval
<1>5. PotOf(rs) = 0  BY <1>3, <1>4, SumOfZeros DEF PotOf
<1> QED BY <1>2, <1>5 DEF rs

\* A contribution changes the last round.
LEMMA FundingKeeps ==
  ASSUME NEW rs, RoundsInv(rs), NEW after, RoundInv(after), ~TwoFunded(after), NEW amount \in Nat
  PROVE  LET ss == Append(Front(rs), after)
         IN  /\ RoundsInv(ss) /\ Len(ss) = Len(rs) /\ ss[Len(ss)] = after
             /\ Pot(after) = Pot(Last(rs)) + amount => PotOf(ss) = PotOf(rs) + amount
             /\ \A final \in Rulings :
                    OwedIn(after, final) = OwedIn(Last(rs), final) + amount =>
                        OwedOf(ss, final) = OwedOf(rs, final) + amount
<1> DEFINE ss == Append(Front(rs), after)
           n == Len(rs)
<1>1. /\ rs \in Seq(RoundType) /\ n \in Nat \ {0} /\ Last(rs) = rs[n] /\ after \in RoundType
  BY DEF RoundsInv, RoundInv, Last
<1>2. /\ ss \in Seq(RoundType) /\ Len(ss) = n /\ ss[n] = after
      /\ \A i \in 1..n - 1 : ss[i] = rs[i]
  BY <1>1, ReplaceLast DEF RoundsInv
<1> HIDE DEF ss, n
<1>3. \A i \in 1..n : i = n \/ i \in 1..n - 1  BY <1>1
<1>4. RoundsInv(ss)
  <2>1. ss # << >>
    <3>1. Len(<< >>) = 0  OBVIOUS
    <3> QED BY <1>1, <1>2, <3>1
  <2>2. \A i \in 1..n : RoundInv(ss[i])  BY <1>1, <1>2, <1>3 DEF RoundsInv, n
  <2>3. \A i \in 1..n - 1 : TwoFunded(ss[i])  BY <1>1, <1>2 DEF RoundsInv, n
  <2> QED BY <1>1, <1>2, <2>1, <2>2, <2>3 DEF RoundsInv
<1>5. IsFiniteSet(1..n) /\ n \in 1..n  BY <1>1, FS_Interval
<1>6. ASSUME Pot(after) = Pot(Last(rs)) + amount PROVE PotOf(ss) = PotOf(rs) + amount
  <2> DEFINE f == Pots(rs)
             g == Pots(ss)
  <2>1. \A i \in 1..n : /\ f[i] = Pot(rs[i]) /\ g[i] = Pot(ss[i])
                        /\ Pot(rs[i]) \in Nat /\ Pot(ss[i]) \in Nat
    <3>1. 0 \in Rulings  BY ArbitratorAssumption DEF Rulings
    <3>2. \A i \in 1..n : RoundInv(rs[i]) /\ RoundInv(ss[i])  BY <1>2, <1>4 DEF RoundsInv, n
    <3> QED BY <1>2, <3>1, <3>2, OwedWithinPot DEF Pots, n
  <2>2. PotOf(rs) = SumFunctionOnSet(f, 1..n) /\ PotOf(ss) = SumFunctionOnSet(g, 1..n)
    BY <1>2 DEF PotOf, n
  <2> HIDE DEF f, g
  <2>3. \A i \in 1..n : f[i] \in Int /\ g[i] \in Int /\ (i # n => g[i] = f[i])
    BY <1>2, <1>3, <2>1
  <2>4. SumFunctionOnSet(g, 1..n) + f[n] = SumFunctionOnSet(f, 1..n) + g[n]
    BY <1>5, <2>3, SumChange
  <2>5. SumFunctionOnSet(g, 1..n) \in Int /\ SumFunctionOnSet(f, 1..n) \in Int
    BY <1>5, <2>3, SumType
  <2>6. g[n] = f[n] + amount /\ f[n] \in Int  BY <1>1, <1>2, <1>5, <1>6, <2>1, <2>3
  <2> QED BY <2>2, <2>4, <2>5, <2>6
<1>7. ASSUME NEW final \in Rulings, OwedIn(after, final) = OwedIn(Last(rs), final) + amount
      PROVE  OwedOf(ss, final) = OwedOf(rs, final) + amount
  <2> DEFINE f == Dues(rs, final)
             g == Dues(ss, final)
  <2>1. \A i \in 1..n : /\ f[i] = OwedIn(rs[i], final) /\ g[i] = OwedIn(ss[i], final)
                        /\ OwedIn(rs[i], final) \in Nat /\ OwedIn(ss[i], final) \in Nat
    <3>1. \A i \in 1..n : RoundInv(rs[i]) /\ RoundInv(ss[i])  BY <1>2, <1>4 DEF RoundsInv, n
    <3> QED BY <1>2, <3>1, OwedWithinPot DEF Dues, n
  <2>2. /\ OwedOf(rs, final) = SumFunctionOnSet(f, 1..n)
        /\ OwedOf(ss, final) = SumFunctionOnSet(g, 1..n)
    BY <1>2 DEF OwedOf, n
  <2> HIDE DEF f, g
  <2>3. \A i \in 1..n : f[i] \in Int /\ g[i] \in Int /\ (i # n => g[i] = f[i])
    BY <1>2, <1>3, <2>1
  <2>4. SumFunctionOnSet(g, 1..n) + f[n] = SumFunctionOnSet(f, 1..n) + g[n]
    BY <1>5, <2>3, SumChange
  <2>5. SumFunctionOnSet(g, 1..n) \in Int /\ SumFunctionOnSet(f, 1..n) \in Int
    BY <1>5, <2>3, SumType
  <2>6. g[n] = f[n] + amount /\ f[n] \in Int  BY <1>1, <1>2, <1>5, <1>7, <2>1, <2>3
  <2> QED BY <2>2, <2>4, <2>5, <2>6
<1> QED BY <1>1, <1>2, <1>4, <1>6, <1>7 DEF ss, n

\* An appeal takes its price out of the last round and opens another.
LEMMA AppealKeepsRounds ==
  ASSUME NEW rs, RoundsInv(rs), NEW last, RoundInv(last), TwoFunded(last), Pot(last) \in Int
  PROVE  LET ss == Front(rs) \o <<last, NewRound>>
         IN  /\ RoundsInv(ss) /\ NoneFunded(ss[Len(ss)])
             /\ PotOf(ss) + Pot(Last(rs)) = PotOf(rs) + Pot(last)
<1> DEFINE ss == Front(rs) \o <<last, NewRound>>
           n == Len(rs)
           f == Pots(rs)
           g == Pots(ss)
<1>1. /\ rs \in Seq(RoundType) /\ n \in Nat \ {0} /\ Last(rs) = rs[n] /\ last \in RoundType
      /\ NewRound \in RoundType
  BY NewRoundIsEmpty DEF RoundsInv, RoundInv, Last
<1>2. /\ ss \in Seq(RoundType) /\ Len(ss) = n + 1 /\ ss[n] = last /\ ss[n + 1] = NewRound
      /\ \A i \in 1..n - 1 : ss[i] = rs[i]
  BY <1>1, ReplaceLastByTwo DEF RoundsInv
<1> HIDE DEF ss, n, f, g
<1>3. \A i \in 1..n + 1 : i = n + 1 \/ i = n \/ i \in 1..n - 1  BY <1>1
<1>4. RoundsInv(ss)
  <2>1. ss # << >>
    <3>1. Len(<< >>) = 0  OBVIOUS
    <3> QED BY <1>1, <1>2, <3>1
  <2>2. \A i \in 1..n + 1 : RoundInv(ss[i])
    BY <1>1, <1>2, <1>3, NewRoundIsEmpty DEF RoundsInv, n
  <2>3. \A i \in 1..n : TwoFunded(ss[i])  BY <1>1, <1>2, <1>3 DEF RoundsInv, n
  <2>4. (n + 1) - 1 = n /\ Len(ss) = n + 1  BY <1>1, <1>2
  <2> QED BY <1>2, <2>1, <2>2, <2>3, <2>4, NewRoundIsEmpty DEF RoundsInv
<1>5. IsFiniteSet(1..n) /\ IsFiniteSet(1..n + 1) /\ n \in 1..n /\ n + 1 \in 1..n + 1
  BY <1>1, FS_Interval
<1>6. /\ \A i \in 1..n : f[i] = Pot(rs[i]) /\ f[i] \in Nat
      /\ \A i \in 1..n + 1 : g[i] = Pot(ss[i]) /\ g[i] \in Nat
  <2>1. 0 \in Rulings  BY ArbitratorAssumption DEF Rulings
  <2>2. /\ \A i \in 1..n : RoundInv(rs[i])
        /\ \A i \in 1..n + 1 : RoundInv(ss[i])
    BY <1>2, <1>4 DEF RoundsInv, n
  <2> QED BY <1>2, <2>1, <2>2, OwedWithinPot DEF Pots, n, f, g
<1>7. PotOf(rs) = SumFunctionOnSet(f, 1..n) /\ PotOf(ss) = SumFunctionOnSet(g, 1..n + 1)
  BY <1>2 DEF PotOf, n, f, g
<1>8. SumFunctionOnSet(g, 1..n + 1) = g[n + 1] + SumFunctionOnSet(g, 1..n)
  <2>1. (1..n + 1) \ {n + 1} = 1..n  BY <1>1
  <2>2. \A i \in 1..n + 1 : g[i] \in Int  BY <1>6
  <2> QED BY <1>5, <2>1, <2>2, SumWithout
<1>9. \A i \in 1..n : f[i] \in Int /\ g[i] \in Int /\ (i # n => g[i] = f[i])
  <2>1. \A i \in 1..n : i \in 1..n + 1 /\ (i # n => i \in 1..n - 1)  BY <1>1
  <2> QED BY <1>2, <1>6, <2>1
<1>10. SumFunctionOnSet(g, 1..n) + f[n] = SumFunctionOnSet(f, 1..n) + g[n]
  BY <1>5, <1>9, SumChange
<1>11. SumFunctionOnSet(g, 1..n) \in Int /\ SumFunctionOnSet(f, 1..n) \in Int
  BY <1>5, <1>9, SumType
<1>12. g[n + 1] = 0 /\ f[n] = Pot(Last(rs)) /\ g[n] = Pot(last) /\ f[n] \in Int
  <2>1. n \in 1..n + 1  BY <1>1
  <2> QED BY <1>1, <1>2, <1>5, <1>6, <1>9, <2>1, NewRoundIsEmpty
<1>13. PotOf(ss) + Pot(Last(rs)) = PotOf(rs) + Pot(last)
  BY <1>7, <1>8, <1>10, <1>11, <1>12
<1> QED BY <1>2, <1>4, <1>13, NewRoundIsEmpty DEF ss

\* What is taken out of the rounds is taken out of what is owed.
LEMMA DuesTaken ==
  ASSUME NEW rs, RoundsInv(rs), NEW ss, RoundsInv(ss), Len(ss) = Len(rs), NEW final \in Rulings,
         NEW chosen \in SUBSET (1..Len(rs)), NEW paid,
         \A i \in 1..Len(rs) : i \notin chosen => ss[i] = rs[i],
         \A i \in chosen :
            paid[i] \in Nat /\ OwedIn(ss[i], final) + paid[i] = OwedIn(rs[i], final)
  PROVE  /\ SumFunctionOnSet(paid, chosen) \in Nat
         /\ OwedOf(ss, final) + SumFunctionOnSet(paid, chosen) = OwedOf(rs, final)
<1> DEFINE f == Dues(rs, final)
           g == Dues(ss, final)
           S == 1..Len(rs)
<1>1. IsFiniteSet(S)
  <2>1. Len(rs) \in Nat  BY DEF RoundsInv
  <2> QED BY <2>1, FS_Interval
<1>2. \A i \in S : /\ f[i] = OwedIn(rs[i], final) /\ g[i] = OwedIn(ss[i], final)
                   /\ f[i] \in Nat /\ g[i] \in Nat
  BY OwedWithinPot DEF Dues, RoundsInv
<1>3. /\ OwedOf(rs, final) = SumFunctionOnSet(f, S)
      /\ OwedOf(ss, final) = SumFunctionOnSet(g, S)
  BY DEF OwedOf
<1> HIDE DEF f, g
<1>4. \A i \in S : f[i] \in Nat /\ g[i] \in Nat /\ (i \notin chosen => g[i] = f[i])
  BY <1>2
<1>5. chosen \subseteq S  OBVIOUS
<1>6. \A i \in chosen : paid[i] \in Nat /\ g[i] + paid[i] = f[i]  BY <1>2
<1> HIDE DEF S
<1> DEFINE due == [i \in S |-> IF i \in chosen THEN paid[i] ELSE 0]
<1>7. /\ \A i \in S : due[i] \in Nat /\ (i \notin chosen => due[i] = 0) /\ f[i] = g[i] + due[i]
      /\ \A i \in chosen : paid[i] = due[i]
  BY <1>4, <1>5, <1>6
<1> HIDE DEF due
<1>8. SumFunctionOnSet(f, S) = SumFunctionOnSet(g, S) + SumFunctionOnSet(due, S)
  <2>1. \A i \in S : g[i] \in Int /\ due[i] \in Int /\ f[i] = g[i] + due[i]  BY <1>4, <1>7
  <2> QED BY <1>1, <2>1, SumAdds
<1>9. SumFunctionOnSet(paid, chosen) = SumFunctionOnSet(due, S)
  <2>1. \A i \in S : due[i] \in Int /\ (i \notin chosen => due[i] = 0)  BY <1>7
  <2>2. chosen \in SUBSET S  BY <1>5
  <2> QED BY <1>1, <1>7, <2>1, <2>2, SumWithZeros
<1>10. SumFunctionOnSet(due, S) \in Nat /\ SumFunctionOnSet(g, S) \in Nat
  BY <1>1, <1>4, <1>7, SumType
<1> QED BY <1>3, <1>8, <1>9, <1>10

\* The rounds after a withdrawal from those in chosen, and what each of these pays.
Drawn(rs, c, r, final, chosen) ==
    [i \in 1..Len(rs) |-> IF i \in chosen THEN Withdrawable(rs[i], c, r, final) ELSE 0]

AfterDrawing(rs, c, r, final, chosen) ==
    [i \in 1..Len(rs) |-> IF Drawn(rs, c, r, final, chosen)[i] # 0
                          THEN [rs[i] EXCEPT !.contributions[c][r] = 0] ELSE rs[i]]

PaidOut(rs, c, r, final, chosen) ==
    SumFunctionOnSet([i \in chosen |-> Drawn(rs, c, r, final, chosen)[i]], chosen)

\* A withdrawal takes out of each round what that pays.
LEMMA WithdrawalKeeps ==
  ASSUME NEW rs, RoundsInv(rs), NEW c \in Contributors, NEW r \in Rulings, NEW final \in Rulings,
         NEW chosen \in SUBSET (1..Len(rs)),
         \A i \in chosen : ~WithdrawReverts(rs[i], r, final)
  PROVE  LET ss == AfterDrawing(rs, c, r, final, chosen)
             total == PaidOut(rs, c, r, final, chosen)
         IN  /\ RoundsInv(ss) /\ Len(ss) = Len(rs)
             /\ \A i \in 1..Len(rs) : ss[i].fundedRulings = rs[i].fundedRulings
             /\ total \in Nat /\ OwedOf(ss, final) + total = OwedOf(rs, final)
<1> DEFINE due == Drawn(rs, c, r, final, chosen)
           ss == AfterDrawing(rs, c, r, final, chosen)
           paid == [i \in chosen |-> due[i]]
           n == Len(rs)
           f == Dues(rs, final)
           g == Dues(ss, final)
<1>1. rs \in Seq(RoundType) /\ n \in Nat \ {0} /\ \A i \in 1..n : RoundInv(rs[i])
  BY DEF RoundsInv
<1>2. \A i \in 1..n : /\ due[i] = IF i \in chosen THEN Withdrawable(rs[i], c, r, final) ELSE 0
                      /\ ss[i] = IF due[i] # 0 THEN [rs[i] EXCEPT !.contributions[c][r] = 0]
                                               ELSE rs[i]
  BY DEF AfterDrawing, Drawn
<1>3. ss \in [1..n -> {ss[i] : i \in 1..n}]  BY DEF AfterDrawing
<1>4. /\ PaidOut(rs, c, r, final, chosen) = SumFunctionOnSet(paid, chosen)
      /\ \A i \in chosen : paid[i] = due[i]
  BY DEF PaidOut
<1> HIDE DEF n, f, g, ss, due, paid
<1>5. \A i \in 1..n : /\ RoundInv(ss[i]) /\ ss[i].fundedRulings = rs[i].fundedRulings
                      /\ due[i] \in Nat
                      /\ OwedIn(ss[i], final) + due[i] = OwedIn(rs[i], final)
  <2> SUFFICES ASSUME NEW i \in 1..n
               PROVE  /\ RoundInv(ss[i]) /\ ss[i].fundedRulings = rs[i].fundedRulings
                      /\ due[i] \in Nat
                      /\ OwedIn(ss[i], final) + due[i] = OwedIn(rs[i], final)
    OBVIOUS
  <2>1. CASE due[i] = 0
    <3>1. ss[i] = rs[i] /\ RoundInv(rs[i])  BY <1>1, <1>2, <2>1
    <3>2. OwedIn(rs[i], final) \in Nat  BY <3>1, OwedWithinPot
    <3> QED BY <2>1, <3>1, <3>2
  <2>2. CASE due[i] # 0
    <3>1. i \in chosen /\ due[i] = Withdrawable(rs[i], c, r, final)  BY <1>2, <2>2
    <3>2. ss[i] = [rs[i] EXCEPT !.contributions[c][r] = 0]  BY <1>2, <2>2
    <3>3. RoundInv(rs[i]) /\ ~WithdrawReverts(rs[i], r, final)  BY <1>1, <3>1
    <3>4. LET after == [rs[i] EXCEPT !.contributions[c][r] = 0]
          IN  /\ RoundInv(after) /\ after.fundedRulings = rs[i].fundedRulings
              /\ Withdrawable(rs[i], c, r, final) \in Nat
              /\ OwedIn(after, final) + Withdrawable(rs[i], c, r, final) = OwedIn(rs[i], final)
      BY <3>3, WithdrawnFromRound
    <3> QED BY <3>1, <3>2, <3>4
  <2> QED BY <2>1, <2>2
<1>6. ss \in Seq(RoundType) /\ Len(ss) = n /\ ss # << >>
  <2>1. \A i \in 1..n : ss[i] \in RoundType  BY <1>5 DEF RoundInv
  <2>2. ss \in [1..n -> RoundType]  BY <1>3, <2>1
  <2>3. ss \in Seq(RoundType) /\ DOMAIN ss = 1..n  BY <1>1, <2>2, SeqDef
  <2>4. Len(ss) = n  BY <1>1, <2>3
  <2>5. Len(<< >>) = 0  OBVIOUS
  <2> QED BY <1>1, <2>3, <2>4, <2>5
<1>7. RoundsInv(ss)
  <2>1. \A i \in 1..n : TwoFunded(rs[i]) => TwoFunded(ss[i])
    <3> SUFFICES ASSUME NEW i \in 1..n, TwoFunded(rs[i]) PROVE TwoFunded(ss[i])
      OBVIOUS
    <3>1. RoundInv(ss[i]) /\ Len(ss[i].fundedRulings) = 2  BY <1>5 DEF TwoFunded
    <3>2. Len(<< >>) = 0 /\ 0 # 2 /\ 1 # 2  OBVIOUS
    <3>3. ~NoneFunded(ss[i]) /\ ~OneFunded(ss[i])  BY <3>1, <3>2, Zenon DEF NoneFunded, OneFunded
    <3> QED BY <3>1, <3>3 DEF RoundInv
  <2>2. \A i \in 1..n : TwoFunded(ss[i]) => TwoFunded(rs[i])
    <3> SUFFICES ASSUME NEW i \in 1..n, TwoFunded(ss[i]) PROVE TwoFunded(rs[i])
      OBVIOUS
    <3>1. RoundInv(rs[i]) /\ Len(rs[i].fundedRulings) = 2  BY <1>1, <1>5 DEF TwoFunded
    <3>2. Len(<< >>) = 0 /\ 0 # 2 /\ 1 # 2  OBVIOUS
    <3>3. ~NoneFunded(rs[i]) /\ ~OneFunded(rs[i])  BY <3>1, <3>2, Zenon DEF NoneFunded, OneFunded
    <3> QED BY <3>1, <3>3 DEF RoundInv
  <2>3. \A i \in 1..n - 1 : TwoFunded(rs[i]) /\ i \in 1..n  BY <1>1 DEF RoundsInv, n
  <2>4. ~TwoFunded(rs[n]) /\ n \in 1..n  BY <1>1 DEF RoundsInv, n
  <2> QED BY <1>5, <1>6, <2>1, <2>2, <2>3, <2>4 DEF RoundsInv
<1>8. \A i \in chosen : paid[i] = due[i] /\ i \in 1..n  BY <1>4 DEF n
<1>9. \A i \in chosen :
         paid[i] \in Nat /\ OwedIn(ss[i], final) + paid[i] = OwedIn(rs[i], final)
  BY <1>5, <1>8
<1>10. /\ SumFunctionOnSet(paid, chosen) \in Nat
      /\ OwedOf(ss, final) + SumFunctionOnSet(paid, chosen) = OwedOf(rs, final)
  <2>1. Len(ss) = Len(rs) /\ \A i \in 1..Len(rs) : i \notin chosen => ss[i] = rs[i]
    BY <1>2, <1>6 DEF n
  <2> QED BY <1>7, <1>9, <2>1, DuesTaken
<1> QED BY <1>4, <1>5, <1>6, <1>7, <1>10 DEF n, ss

----------------------------------------------------------------------------
(* The books of the proxy and the cases of the arbitrator.                 *)

\* The types of the proxy's disputes and of the arbitrator's cases.
DisputeType == [isRuled : BOOLEAN, ruling : Rulings, external : Nat]

CaseType ==
    {case \in [arbitrated : {"proxy", "elsewhere"}, ruling : Rulings,
               status : {"Waiting", "Appealable", "Solved"}, appealCost : Nat,
               appealPeriodStart : Nat, appealPeriodEnd : Nat] :
        case.appealPeriodStart <= case.appealPeriodEnd}

\* What is set aside for a dispute: once it is ruled, what can be withdrawn, and
\* before that all that is in its rounds.
Claim(dispute, rs) == IF dispute.isRuled THEN OwedOf(rs, dispute.ruling) ELSE PotOf(rs)

\* The rounds of a dispute are in order, and a ruling that alone was paid for in
\* the last is the one it was ruled with.
Kept(dispute, rs) ==
    /\ dispute \in DisputeType /\ RoundsInv(rs)
    /\ dispute.isRuled /\ OneFunded(rs[Len(rs)]) => First(rs[Len(rs)]) = dispute.ruling

Claims(ds, rss) == [d \in 1..Len(ds) |-> Claim(ds[d], rss[d])]

\* Every dispute is kept, and what is held covers all claims.
Books(ds, rss, held) ==
    /\ ds \in Seq(DisputeType) /\ rss \in Seq(Seq(RoundType)) /\ Len(rss) = Len(ds)
    /\ held \in Int
    /\ \A d \in 1..Len(ds) : Kept(ds[d], rss[d])
    /\ SumFunctionOnSet(Claims(ds, rss), 1..Len(ds)) <= held

\* A dispute and its case find each other, and what is ruled is over.
Courts(cs, ds) ==
    /\ cs \in Seq(CaseType)
    /\ \A d \in 1..Len(ds) : /\ ds[d].external \in 1..Len(cs)
                             /\ cs[ds[d].external].arbitrated = "proxy"
                             /\ ds[d].isRuled => cs[ds[d].external].status = "Solved"
    /\ \A e \in 1..Len(cs) :
          cs[e].arbitrated = "proxy" => \E d \in 1..Len(ds) : ds[d].external = e

\* The inductive invariant.
ProxyInv ==
    /\ now \in Nat /\ multipliers \in Multipliers
    /\ Books(disputes, rounds, balance)
    /\ Courts(cases, disputes)

\* A claim covers what the dispute can come to owe.
LEMMA ClaimCovers ==
  ASSUME NEW dispute, NEW rs, Kept(dispute, rs), NEW final \in Rulings,
         dispute.isRuled => final = dispute.ruling
  PROVE  /\ Claim(dispute, rs) \in Nat /\ OwedOf(rs, final) \in Nat
         /\ OwedOf(rs, final) <= Claim(dispute, rs)
  BY OwedWithinPots DEF Kept, Claim

\* A claim is a counter.
LEMMA ClaimType ==
  ASSUME NEW dispute, NEW rs, Kept(dispute, rs) PROVE Claim(dispute, rs) \in Nat
<1>1. dispute.ruling \in Rulings  BY DEF Kept, DisputeType
<1> QED BY <1>1, ClaimCovers

\* One dispute changes, and the balance by at least as much as its claim.
LEMMA BooksChange ==
  ASSUME NEW ds, NEW rss, NEW held, Books(ds, rss, held), NEW d \in DOMAIN ds,
         NEW dispute, NEW rs, Kept(dispute, rs), NEW holds \in Int,
         Claim(dispute, rs) + held <= Claim(ds[d], rss[d]) + holds
  PROVE  Books([ds EXCEPT ![d] = dispute], [rss EXCEPT ![d] = rs], holds)
<1> DEFINE es == [ds EXCEPT ![d] = dispute]
           sss == [rss EXCEPT ![d] = rs]
           n == Len(ds)
           f == Claims(ds, rss)
           g == Claims(es, sss)
<1>1. /\ ds \in Seq(DisputeType) /\ rss \in Seq(Seq(RoundType)) /\ Len(rss) = n
      /\ n \in Nat /\ held \in Int /\ d \in 1..n
  BY DEF Books
<1>2. dispute \in DisputeType /\ rs \in Seq(RoundType)  BY DEF Kept, RoundsInv
<1> HIDE DEF es, sss, n, f, g
<1>3. /\ es \in Seq(DisputeType) /\ Len(es) = n
      /\ \A j \in 1..n : es[j] = IF j = d THEN dispute ELSE ds[j]
  BY <1>1, <1>2, ExceptSeq DEF es, n
<1>4. /\ sss \in Seq(Seq(RoundType)) /\ Len(sss) = n
      /\ \A j \in 1..n : sss[j] = IF j = d THEN rs ELSE rss[j]
  BY <1>1, <1>2, ExceptSeq DEF sss, n
<1>5. \A j \in 1..n : Kept(ds[j], rss[j]) /\ Kept(es[j], sss[j])
  BY <1>3, <1>4 DEF Books, n
<1>6. \A j \in 1..n : f[j] = Claim(ds[j], rss[j]) /\ g[j] = Claim(es[j], sss[j])
  BY <1>3 DEF Claims, f, g, n
<1>7. \A j \in 1..n : f[j] \in Int /\ g[j] \in Int /\ (j # d => g[j] = f[j])
  <2>1. \A j \in 1..n : f[j] \in Nat /\ g[j] \in Nat  BY <1>5, <1>6, ClaimType
  <2>2. \A j \in 1..n : j # d => g[j] = f[j]  BY <1>3, <1>4, <1>6
  <2> QED BY <2>1, <2>2
<1>8. IsFiniteSet(1..n) /\ d \in 1..n /\ n \in Nat  BY <1>1, FS_Interval
<1>9. SumFunctionOnSet(g, 1..n) + f[d] = SumFunctionOnSet(f, 1..n) + g[d]
  <2> DEFINE S == 1..n
  <2>1. IsFiniteSet(S) /\ d \in S  BY <1>8
  <2>2. \A j \in S : f[j] \in Int /\ g[j] \in Int /\ (j # d => g[j] = f[j])  BY <1>7
  <2> HIDE DEF S
  <2>3. SumFunctionOnSet(g, S) + f[d] = SumFunctionOnSet(f, S) + g[d]
    BY <2>1, <2>2, SumChange
  <2> QED BY <2>3 DEF S
<1>10. SumFunctionOnSet(g, 1..n) \in Int /\ SumFunctionOnSet(f, 1..n) \in Int
  BY <1>7, <1>8, SumType
<1>11. f[d] = Claim(ds[d], rss[d]) /\ g[d] = Claim(dispute, rs) /\ f[d] \in Int /\ g[d] \in Int
  BY <1>1, <1>3, <1>4, <1>6, <1>7
<1>12. SumFunctionOnSet(f, 1..n) <= held  BY DEF Books, f, n
<1>13. SumFunctionOnSet(g, 1..n) <= holds  BY <1>1, <1>9, <1>10, <1>11, <1>12
<1>14. SumFunctionOnSet(Claims(es, sss), 1..Len(es)) <= holds  BY <1>3, <1>13 DEF g
<1>15. Books(es, sss, holds)  BY <1>3, <1>4, <1>5, <1>14 DEF Books
<1> QED BY <1>15 DEF es, sss

\* A dispute is added, with nothing to claim.
LEMMA BooksGrow ==
  ASSUME NEW ds, NEW rss, NEW held, Books(ds, rss, held),
         NEW dispute \in DisputeType, ~dispute.isRuled
  PROVE  Books(Append(ds, dispute), Append(rss, <<NewRound>>), held)
<1> DEFINE es == Append(ds, dispute)
           sss == Append(rss, <<NewRound>>)
           n == Len(ds)
           f == Claims(ds, rss)
           g == Claims(es, sss)
<1>1. /\ ds \in Seq(DisputeType) /\ rss \in Seq(Seq(RoundType)) /\ Len(rss) = n
      /\ n \in Nat /\ held \in Int
  BY DEF Books
<1>2. <<NewRound>> \in Seq(RoundType)  BY NewDisputeIsEmpty DEF RoundsInv
<1> HIDE DEF es, sss, n, f, g
<1>3. /\ es \in Seq(DisputeType) /\ Len(es) = n + 1 /\ es[n + 1] = dispute
      /\ \A j \in 1..n : es[j] = ds[j]
  BY <1>1, AppendProperties DEF es, n
<1>4. /\ sss \in Seq(Seq(RoundType)) /\ Len(sss) = n + 1 /\ sss[n + 1] = <<NewRound>>
      /\ \A j \in 1..n : sss[j] = rss[j]
  BY <1>1, <1>2, AppendProperties DEF sss
<1>5. Kept(dispute, <<NewRound>>) /\ Claim(dispute, <<NewRound>>) = 0
  BY NewDisputeIsEmpty DEF Kept, Claim
<1>6. \A j \in 1..n + 1 : j = n + 1 \/ j \in 1..n  BY <1>1
<1>7. \A j \in 1..n + 1 : Kept(es[j], sss[j])
  <2>1. \A j \in 1..n : Kept(ds[j], rss[j])  BY DEF Books, n
  <2> QED BY <1>3, <1>4, <1>5, <1>6, <2>1
<1>8. /\ \A j \in 1..n : f[j] = Claim(ds[j], rss[j])
      /\ \A j \in 1..n + 1 : g[j] = Claim(es[j], sss[j])
  BY <1>3 DEF Claims, f, g, n
<1>9. \A j \in 1..n + 1 : g[j] \in Int
  BY <1>7, <1>8, ClaimType
<1>10. g[n + 1] = 0 /\ n + 1 \in 1..n + 1 /\ (1..n + 1) \ {n + 1} = 1..n
  <2>1. n + 1 \in 1..n + 1 /\ (1..n + 1) \ {n + 1} = 1..n  BY <1>1
  <2>2. g[n + 1] = Claim(es[n + 1], sss[n + 1])  BY <1>8, <2>1
  <2> QED BY <1>3, <1>4, <1>5, <2>1, <2>2
<1>11. IsFiniteSet(1..n) /\ IsFiniteSet(1..n + 1) /\ n \in Nat  BY <1>1, FS_Interval
<1>12. SumFunctionOnSet(g, 1..n + 1) = g[n + 1] + SumFunctionOnSet(g, 1..n)
  BY <1>9, <1>10, <1>11, SumWithout
<1>13. \A j \in 1..n : f[j] \in Int /\ g[j] = f[j]
  <2>1. \A j \in 1..n : j \in 1..n + 1  BY <1>1
  <2> QED BY <1>3, <1>4, <1>8, <1>9, <2>1
<1>14. SumFunctionOnSet(g, 1..n) = SumFunctionOnSet(f, 1..n) /\ SumFunctionOnSet(f, 1..n) \in Int
  BY <1>11, <1>13, SumSame, SumType
<1>15. SumFunctionOnSet(f, 1..n) <= held  BY DEF Books, f, n
<1>16. SumFunctionOnSet(Claims(es, sss), 1..Len(es)) <= held
  BY <1>3, <1>10, <1>12, <1>14, <1>15 DEF g
<1>17. Books(es, sss, held)  BY <1>1, <1>3, <1>4, <1>7, <1>16 DEF Books
<1> QED BY <1>17 DEF es, sss

\* The cases change as the arbitrator changes them: what is over stays over.
LEMMA CourtsKeep ==
  ASSUME NEW cs, NEW ds, Courts(cs, ds), NEW ccs \in Seq(CaseType), Len(ccs) = Len(cs),
         \A e \in 1..Len(cs) : /\ ccs[e].arbitrated = cs[e].arbitrated
                               /\ cs[e].status = "Solved" => ccs[e].status = "Solved"
  PROVE  Courts(ccs, ds)
<1>1. \A d \in 1..Len(ds) : /\ ds[d].external \in 1..Len(ccs)
                            /\ ccs[ds[d].external].arbitrated = "proxy"
                            /\ ds[d].isRuled => ccs[ds[d].external].status = "Solved"
  BY DEF Courts
<1>2. \A e \in 1..Len(ccs) : ccs[e].arbitrated = "proxy" => \E d \in 1..Len(ds) : ds[d].external = e
  BY DEF Courts
<1> QED BY <1>1, <1>2 DEF Courts

\* A dispute is ruled when its case is over.
LEMMA CourtsRule ==
  ASSUME NEW cs, NEW ds \in Seq(DisputeType), Courts(cs, ds), NEW d \in DOMAIN ds,
         cs[ds[d].external].status = "Solved",
         NEW dispute \in DisputeType, dispute.external = ds[d].external
  PROVE  Courts(cs, [ds EXCEPT ![d] = dispute])
<1> DEFINE es == [ds EXCEPT ![d] = dispute]
<1>1. d \in 1..Len(ds)  OBVIOUS
<1>2. /\ Len(es) = Len(ds)
      /\ \A x \in 1..Len(ds) : es[x] = IF x = d THEN dispute ELSE ds[x]
  BY <1>1, ExceptSeq
<1> HIDE DEF es
<1>3. \A x \in 1..Len(ds) : es[x].external = ds[x].external  BY <1>2
<1>4. \A x \in 1..Len(es) : /\ es[x].external \in 1..Len(cs)
                            /\ cs[es[x].external].arbitrated = "proxy"
                            /\ es[x].isRuled => cs[es[x].external].status = "Solved"
  <2> SUFFICES ASSUME NEW x \in 1..Len(ds)
               PROVE  /\ es[x].external \in 1..Len(cs)
                      /\ cs[es[x].external].arbitrated = "proxy"
                      /\ es[x].isRuled => cs[es[x].external].status = "Solved"
    BY <1>2
  <2>1. /\ ds[x].external \in 1..Len(cs) /\ cs[ds[x].external].arbitrated = "proxy"
        /\ ds[x].isRuled => cs[ds[x].external].status = "Solved"
    BY DEF Courts
  <2>2. x # d => es[x] = ds[x]  BY <1>2
  <2>3. es[x].external = ds[x].external  BY <1>3
  <2>4. CASE x = d  BY <2>1, <2>3, <2>4
  <2>5. CASE x # d  BY <2>1, <2>2, <2>5
  <2> QED BY <2>4, <2>5
<1>5. \A e \in 1..Len(cs) : cs[e].arbitrated = "proxy" => \E x \in 1..Len(es) : es[x].external = e
  <2> SUFFICES ASSUME NEW e \in 1..Len(cs), cs[e].arbitrated = "proxy"
               PROVE  \E x \in 1..Len(es) : es[x].external = e
    OBVIOUS
  <2>1. PICK x \in 1..Len(ds) : ds[x].external = e  BY DEF Courts
  <2>2. x \in 1..Len(es) /\ es[x].external = e  BY <1>2, <1>3, <2>1
  <2> QED BY <2>2
<1>6. cs \in Seq(CaseType)  BY DEF Courts
<1> QED BY <1>4, <1>5, <1>6 DEF Courts, es

\* What was paid for a ruling in the last round is within what was paid in all.
LEMMA PaidForCovers ==
  ASSUME ProxyInv, NEW d \in DOMAIN disputes, NEW r \in Rulings
  PROVE  /\ PaidFor(d) \in Nat /\ Last(rounds[d]).paidFees[r] \in Nat
         /\ Last(rounds[d]).paidFees[r] <= PaidFor(d)
<1> DEFINE rs == rounds[d]
           f == [i \in DOMAIN rs |-> SumFunction(rs[i].paidFees)]
<1>1. RoundsInv(rs)  BY DEF ProxyInv, Books, Kept
<1>2. rs \in Seq(RoundType) /\ Len(rs) \in Nat \ {0} /\ DOMAIN rs = 1..Len(rs) /\ Last(rs) = rs[Len(rs)]
  BY <1>1 DEF RoundsInv, Last
<1>3. \A i \in DOMAIN rs : rs[i].paidFees \in [Rulings -> Nat]
  <2>1. \A i \in DOMAIN rs : rs[i] \in RoundType  BY <1>2
  <2> QED BY <2>1, RoundFields
<1>4. \A i \in DOMAIN rs : f[i] = SumFunctionOnSet(rs[i].paidFees, Rulings)
  BY <1>3 DEF SumFunction
<1>5. PaidFor(d) = SumFunctionOnSet(f, DOMAIN rs)  BY DEF PaidFor, SumFunction
<1> HIDE DEF rs, f
<1>6. \A i \in DOMAIN rs : f[i] \in Nat /\ rs[i].paidFees[r] \in Nat /\ rs[i].paidFees[r] <= f[i]
  <2> SUFFICES ASSUME NEW i \in DOMAIN rs
               PROVE  f[i] \in Nat /\ rs[i].paidFees[r] \in Nat /\ rs[i].paidFees[r] <= f[i]
    OBVIOUS
  <2>1. \A x \in Rulings : rs[i].paidFees[x] \in Nat  BY <1>3
  <2> QED BY <1>4, <2>1, RulingsFinite, SumCovers
<1>7. IsFiniteSet(DOMAIN rs) /\ Len(rs) \in DOMAIN rs  BY <1>2, FS_Interval
<1>8. f[Len(rs)] <= PaidFor(d) /\ PaidFor(d) \in Nat  BY <1>5, <1>6, <1>7, SumCovers
<1> QED BY <1>2, <1>6, <1>7, <1>8 DEF rs

\* A ruling costs at least the price of the appeal, or more than is ever paid.
LEMMA TotalCostBounds ==
  ASSUME multipliers \in Multipliers, NEW case \in CaseType, NEW r \in Rulings
  PROVE  /\ TotalCost(case, r) \in Nat /\ case.appealCost \in Nat
         /\ case.status = "Appealable" => case.appealCost <= TotalCost(case, r)
         /\ case.status # "Appealable" => TotalCost(case, r) = MaxPaid + 1
<1> DEFINE stake == case.appealCost * StakeMultiplier(case, r)
<1>1. case.appealCost \in Nat /\ MaxPaid \in Nat /\ Denominator \in Nat \ {0}
  BY ProxyAssumption DEF CaseType
<1>2. StakeMultiplier(case, r) \in Nat  BY ProxyAssumption DEF StakeMultiplier
<1>3. stake \in Nat  BY <1>1, <1>2, TimesNat
<1> HIDE DEF stake
<1>4. stake \div Denominator \in Nat  BY <1>1, <1>3, DivType
<1>5. TotalCost(case, r) = IF case.status = "Appealable" THEN case.appealCost + stake \div Denominator
                                                         ELSE MaxPaid + 1
  BY DEF TotalCost, NotPayable, stake
<1> QED BY <1>1, <1>4, <1>5

\* The dispute d, its rounds and its case, as the invariant has them.
LEMMA DisputeFacts ==
  ASSUME ProxyInv, NEW d \in DOMAIN disputes
  PROVE  LET e == disputes[d].external
             rs == rounds[d]
         IN  /\ Kept(disputes[d], rs) /\ RoundsInv(rs) /\ Last(rs) = rs[Len(rs)]
             /\ RoundInv(Last(rs)) /\ ~TwoFunded(Last(rs))
             /\ e \in DOMAIN cases /\ cases[e] \in CaseType /\ cases[e].arbitrated = "proxy"
             /\ disputes[d].isRuled => cases[e].status = "Solved"
             /\ disputes[d].ruling \in Rulings /\ disputes[d].isRuled \in BOOLEAN
             /\ disputes = [disputes EXCEPT ![d] = disputes[d]]
<1>1. disputes \in Seq(DisputeType) /\ cases \in Seq(CaseType) /\ d \in 1..Len(disputes)
  BY DEF ProxyInv, Books, Courts
<1>2. Kept(disputes[d], rounds[d])  BY <1>1 DEF ProxyInv, Books
<1>3. RoundsInv(rounds[d]) /\ disputes[d] \in DisputeType  BY <1>2 DEF Kept
<1>4. Last(rounds[d]) = rounds[d][Len(rounds[d])]  BY DEF Last
<1>5. RoundInv(Last(rounds[d])) /\ ~TwoFunded(Last(rounds[d]))
  <2>1. Len(rounds[d]) \in 1..Len(rounds[d])  BY <1>3 DEF RoundsInv
  <2> QED BY <1>3, <1>4, <2>1 DEF RoundsInv
<1>6. /\ disputes[d].external \in 1..Len(cases)
      /\ cases[disputes[d].external].arbitrated = "proxy"
      /\ disputes[d].isRuled => cases[disputes[d].external].status = "Solved"
  BY <1>1 DEF ProxyInv, Courts
<1>7. cases[disputes[d].external] \in CaseType /\ disputes[d].external \in DOMAIN cases
  BY <1>1, <1>6
<1>8. disputes = [disputes EXCEPT ![d] = disputes[d]]  BY <1>1
<1> QED BY <1>2, <1>3, <1>4, <1>5, <1>6, <1>7, <1>8 DEF DisputeType

\* One case changes, and not who asked for it.
LEMMA CaseChange ==
  ASSUME cases \in Seq(CaseType), NEW e \in DOMAIN cases, NEW case \in CaseType,
         case.arbitrated = cases[e].arbitrated
  PROVE  LET cs == [cases EXCEPT ![e] = case]
         IN  /\ cs \in Seq(CaseType) /\ Len(cs) = Len(cases)
             /\ \A x \in 1..Len(cases) : /\ cs[x].arbitrated = cases[x].arbitrated
                                         /\ cs[x] = IF x = e THEN case ELSE cases[x]
<1>1. e \in 1..Len(cases)  OBVIOUS
<1> DEFINE cs == [cases EXCEPT ![e] = case]
<1>2. /\ cs \in Seq(CaseType) /\ Len(cs) = Len(cases)
      /\ \A x \in 1..Len(cases) : cs[x] = IF x = e THEN case ELSE cases[x]
  BY <1>1, ExceptSeq
<1> HIDE DEF cs
<1>3. \A x \in 1..Len(cases) : cs[x].arbitrated = cases[x].arbitrated  BY <1>2
<1> QED BY <1>2, <1>3 DEF cs

\* An appeal: the case waits again.
LEMMA AppealedCases ==
  ASSUME ProxyInv, NEW e \in DOMAIN cases, cases[e].status = "Appealable",
         NEW ds, Courts(cases, ds)
  PROVE  Courts(Appealed(e), ds)
<1> DEFINE case == [cases[e] EXCEPT !.status = "Waiting"]
           cs == [cases EXCEPT ![e] = case]
<1>1. cases \in Seq(CaseType) /\ cases[e] \in CaseType  BY DEF Courts
<1>2. case \in CaseType /\ case.arbitrated = cases[e].arbitrated  BY <1>1 DEF CaseType
<1>3. Appealed(e) = cs  BY <1>1 DEF Appealed
<1> HIDE DEF case, cs
<1>4. /\ cs \in Seq(CaseType) /\ Len(cs) = Len(cases)
      /\ \A x \in 1..Len(cases) : /\ cs[x].arbitrated = cases[x].arbitrated
                                  /\ cs[x] = IF x = e THEN case ELSE cases[x]
  BY <1>1, <1>2, CaseChange DEF cs
<1>5. \A x \in 1..Len(cases) : cases[x].status = "Solved" => cs[x].status = "Solved"
  <2>1. "Solved" # "Appealable"  OBVIOUS
  <2> QED BY <1>4, <2>1
<1> QED BY <1>3, <1>4, <1>5, CourtsKeep

\* fundAppeal: the contribution is added to what is set aside for the dispute,
\* and the price of an appeal that it makes is taken from there.
LEMMA FundAppealKeeps ==
  ASSUME ProxyInv, NEW c \in Contributors, NEW d \in DOMAIN disputes, NEW r \in Rulings,
         NEW sent \in Payments, FundAppeal(c, d, r, sent)
  PROVE  ProxyInv'
<1> DEFINE ds == disputes[d]
           rs == rounds[d]
           e == ds.external
           round == Last(rs)
           total == TotalCost(cases[e], r)
           amount == Smaller(sent, SubCap(total, round.paidFees[r]))
           kept == IF c \in Refusers THEN sent ELSE amount
           after == Contributed(round, c, r, amount, total)
           cost == cases[e].appealCost
           small == Append(Front(rs), after)
           charged == AfterAppeal(after, cost)
           large == Front(rs) \o <<charged, NewRound>>
<1>1. /\ Kept(ds, rs) /\ RoundsInv(rs) /\ RoundInv(round) /\ ~TwoFunded(round)
      /\ round = rs[Len(rs)]
      /\ e \in DOMAIN cases /\ cases[e] \in CaseType
      /\ ds.isRuled => cases[e].status = "Solved"
      /\ ds.ruling \in Rulings /\ disputes = [disputes EXCEPT ![d] = ds]
  BY DisputeFacts
<1>2. /\ ~HasPaid(round, r) /\ PaidFor(d) + amount <= MaxPaid
      /\ \/ /\ Len(after.fundedRulings) < 2
            /\ rounds' = [rounds EXCEPT ![d] = small]
            /\ balance' = balance + kept
            /\ UNCHANGED cases
         \/ /\ Len(after.fundedRulings) = 2
            /\ ~AppealReverts(e, cost)
            /\ rounds' = [rounds EXCEPT ![d] = large]
            /\ balance' = balance + kept - cost
            /\ cases' = Appealed(e)
      /\ UNCHANGED <<now, price, disputes, multipliers>>
  BY DEF FundAppeal
<1>3. /\ Books(disputes, rounds, balance) /\ Courts(cases, disputes)
      /\ now \in Nat /\ multipliers \in Multipliers /\ balance \in Int /\ cases \in Seq(CaseType)
  BY DEF ProxyInv, Books, Courts
<1>4. /\ total \in Nat /\ cost \in Nat
      /\ cases[e].status = "Appealable" => cost <= total
      /\ cases[e].status # "Appealable" => total = MaxPaid + 1
  <2> HIDE DEF e
  <2> QED BY <1>1, <1>3, TotalCostBounds
<1>5. /\ PaidFor(d) \in Nat /\ round.paidFees[r] \in Nat /\ round.paidFees[r] <= PaidFor(d)
  BY PaidForCovers
<1> HIDE DEF ds, rs, e, round, total, cost
<1>6. sent \in Nat /\ amount \in Nat /\ kept \in Nat /\ amount <= kept
  <2>1. sent \in Nat  BY ProxyAssumption
  <2>2. SubCap(total, round.paidFees[r]) \in Nat  BY <1>4, <1>5 DEF SubCap
  <2> QED BY <2>1, <2>2 DEF Smaller
<1>7. cases[e].status # "Appealable" => round.paidFees[r] + amount < total
  <2> HIDE DEF amount
  <2> QED BY <1>2, <1>4, <1>5, <1>6, ProxyAssumption
<1> HIDE DEF amount, kept
<1>8. /\ RoundInv(after) /\ Pot(after) = Pot(round) + amount
      /\ TwoFunded(after) => /\ Second(after) = r /\ after.paidFees[r] >= total
                             /\ after.feeRewards = Both(after)
  BY <1>1, <1>2, <1>4, <1>6, ContributedKeeps
<1>9. ds.isRuled => /\ after.fundedRulings = round.fundedRulings
                    /\ OwedIn(after, ds.ruling) = OwedIn(round, ds.ruling) + amount
  <2> SUFFICES ASSUME ds.isRuled
               PROVE  /\ after.fundedRulings = round.fundedRulings
                      /\ OwedIn(after, ds.ruling) = OwedIn(round, ds.ruling) + amount
    OBVIOUS
  <2>1. "Solved" # "Appealable"  OBVIOUS
  <2>2. round.paidFees[r] + amount < total  BY <1>1, <1>7, <2>1
  <2> QED BY <1>1, <1>2, <1>4, <1>6, <2>2, OwedGrows
<1>10. CASE Len(after.fundedRulings) < 2
  <2>1. /\ rounds' = [rounds EXCEPT ![d] = small] /\ balance' = balance + kept /\ cases' = cases
    <3>1. ~(Len(after.fundedRulings) = 2)
      <4>1. ~(2 < 2)  OBVIOUS
      <4> QED BY <1>10, <4>1, Zenon
    <3> HIDE DEF after, small, large
    <3> QED BY <1>2, <3>1
  <2>2. ~TwoFunded(after)
    <3>1. ~(2 < 2)  OBVIOUS
    <3> QED BY <1>10, <3>1, Zenon DEF TwoFunded
  <2> HIDE DEF after
  <2>3. /\ RoundsInv(small) /\ Len(small) = Len(rs) /\ small[Len(small)] = after
        /\ PotOf(small) = PotOf(rs) + amount
        /\ ds.isRuled => OwedOf(small, ds.ruling) = OwedOf(rs, ds.ruling) + amount
    BY <1>1, <1>6, <1>8, <1>9, <2>2, FundingKeeps DEF round
  <2> HIDE DEF small
  <2>4. Kept(ds, small)
    <3>1. ASSUME ds.isRuled, OneFunded(after) PROVE First(after) = ds.ruling
      <4>1. after.fundedRulings = round.fundedRulings  BY <1>9, <3>1
      <4>2. Len(round.fundedRulings) = 1  BY <3>1, <4>1 DEF OneFunded
      <4>3. OneFunded(round)
        <5>1. Len(<< >>) = 0 /\ 0 # 1  OBVIOUS
        <5> QED BY <1>1, <4>2, <5>1, Zenon DEF RoundInv, NoneFunded
      <4>4. First(round) = ds.ruling  BY <1>1, <3>1, <4>3 DEF Kept
      <4> QED BY <4>1, <4>4 DEF First
    <3> QED BY <1>1, <2>3, <3>1 DEF Kept
  <2>5. Claim(ds, small) = Claim(ds, rs) + amount  BY <2>3 DEF Claim
  <2>6. Claim(ds, rs) \in Nat  BY <1>1, ClaimType
  <2>7. Claim(ds, small) + balance <= Claim(ds, rs) + (balance + kept)
    BY <1>3, <1>6, <2>5, <2>6
  <2>8. Books([disputes EXCEPT ![d] = ds], [rounds EXCEPT ![d] = small], balance + kept)
    <3>1. balance + kept \in Int  BY <1>3, <1>6
    <3> QED BY <1>3, <2>4, <2>7, <3>1, BooksChange DEF ds, rs
  <2>9. Books(disputes', rounds', balance')  BY <1>1, <1>2, <2>1, <2>8
  <2> QED BY <1>2, <1>3, <2>1, <2>9 DEF ProxyInv
<1>11. CASE Len(after.fundedRulings) = 2
  <2>1. /\ rounds' = [rounds EXCEPT ![d] = large] /\ balance' = balance + kept - cost
        /\ cases' = Appealed(e) /\ ~AppealReverts(e, cost)
    <3>1. ~(Len(after.fundedRulings) < 2)
      <4>1. ~(2 < 2)  OBVIOUS
      <4> QED BY <1>11, <4>1, Zenon
    <3> HIDE DEF after, small, large
    <3> QED BY <1>2, <3>1
  <2>2. TwoFunded(after)
    <3>1. Len(<< >>) = 0 /\ 0 # 2 /\ 1 # 2  OBVIOUS
    <3> QED BY <1>8, <1>11, <3>1, Zenon DEF RoundInv, NoneFunded, OneFunded
  <2> HIDE DEF after
  <2>3. cases[e].status = "Appealable" /\ ~ds.isRuled
    <3>1. cases[e].status = "Appealable"  BY <2>1 DEF AppealReverts
    <3>2. "Solved" # "Appealable"  OBVIOUS
    <3> QED BY <1>1, <3>1, <3>2
  <2>4. /\ RoundInv(charged) /\ TwoFunded(charged) /\ Pot(charged) + cost = Pot(after)
        /\ Pot(charged) \in Nat
    <3>1. after.paidFees[r] \in Nat  BY <1>8, RoundFields DEF RoundInv
    <3>2. cost <= after.paidFees[Second(after)]  BY <1>4, <1>8, <2>2, <2>3, <3>1
    <3> QED BY <1>4, <1>8, <2>2, <3>2, AppealKeeps
  <2> HIDE DEF charged
  <2>5. /\ RoundsInv(large) /\ NoneFunded(large[Len(large)])
        /\ PotOf(large) + Pot(round) = PotOf(rs) + Pot(charged)
    <3>1. Pot(charged) \in Int  BY <2>4
    <3> QED BY <1>1, <2>4, <3>1, AppealKeepsRounds DEF round
  <2> HIDE DEF large
  <2>6. Kept(ds, large)  BY <1>1, <2>3, <2>5 DEF Kept
  <2>7. /\ PotOf(rs) \in Nat /\ PotOf(large) \in Nat /\ Pot(round) \in Nat
    BY <1>1, <2>5, OwedWithinPots, OwedWithinPot
  <2>8. PotOf(large) + cost = PotOf(rs) + amount
    <3>1. Pot(charged) + cost = Pot(round) + amount  BY <1>8, <2>4
    <3>2. PotOf(large) + Pot(round) = PotOf(rs) + Pot(charged)  BY <2>5
    <3>3. cost \in Nat /\ amount \in Nat /\ Pot(charged) \in Nat  BY <1>4, <1>6, <2>4
    <3> QED BY <2>7, <3>1, <3>2, <3>3
  <2>9. Claim(ds, large) = PotOf(large) /\ Claim(ds, rs) = PotOf(rs)  BY <2>3 DEF Claim
  <2>10. Claim(ds, large) + balance <= Claim(ds, rs) + (balance + kept - cost)
    BY <1>3, <1>4, <1>6, <2>7, <2>8, <2>9
  <2>11. Books([disputes EXCEPT ![d] = ds], [rounds EXCEPT ![d] = large], balance + kept - cost)
    <3>1. balance + kept - cost \in Int  BY <1>3, <1>4, <1>6
    <3> QED BY <1>3, <2>6, <2>10, <3>1, BooksChange DEF ds, rs
  <2>12. Books(disputes', rounds', balance')  BY <1>1, <1>2, <2>1, <2>11
  <2>13. Courts(cases', disputes')  BY <1>1, <1>2, <1>3, <2>1, <2>3, AppealedCases
  <2> QED BY <1>2, <1>3, <2>12, <2>13 DEF ProxyInv
<1> QED
  <2> HIDE DEF after, small, large
  <2> QED BY <1>2, <1>10, <1>11

\* withdrawFeesAndRewards: what is paid is no longer set aside.
LEMMA WithdrawKeeps ==
  ASSUME ProxyInv, NEW c \in Contributors, NEW d \in DOMAIN disputes, NEW r \in Rulings,
         NEW chosen \in SUBSET DOMAIN rounds[d], Withdraw(c, d, chosen, r)
  PROVE  ProxyInv'
<1> DEFINE ds == disputes[d]
           rs == rounds[d]
           final == ds.ruling
           total == PaidOut(rs, c, r, final, chosen)
           ss == AfterDrawing(rs, c, r, final, chosen)
           holds == IF c \in Refusers THEN balance ELSE balance - total
<1>1. /\ Kept(ds, rs) /\ RoundsInv(rs) /\ final \in Rulings
      /\ disputes = [disputes EXCEPT ![d] = ds]
  BY DisputeFacts
<1>2. DOMAIN rs = 1..Len(rs)  BY <1>1 DEF RoundsInv
<1>3. /\ ds.isRuled
      /\ \A i \in chosen : ~WithdrawReverts(rs[i], r, final)
      /\ UNCHANGED <<now, price, cases, disputes, multipliers>>
  BY DEF Withdraw
<1>4. rounds' = [rounds EXCEPT ![d] = ss]
  <2>1. rounds' = [rounds EXCEPT ![d] = [i \in DOMAIN rs |->
            IF (IF i \in chosen THEN Withdrawable(rs[i], c, r, final) ELSE 0) # 0
            THEN [rs[i] EXCEPT !.contributions[c][r] = 0] ELSE rs[i]]]
    BY DEF Withdraw
  <2>2. ss = [i \in DOMAIN rs |->
            IF (IF i \in chosen THEN Withdrawable(rs[i], c, r, final) ELSE 0) # 0
            THEN [rs[i] EXCEPT !.contributions[c][r] = 0] ELSE rs[i]]
    BY <1>2 DEF AfterDrawing, Drawn
  <2> QED BY <2>1, <2>2
<1>5. chosen \in SUBSET (1..Len(rs))  BY <1>2
<1>6. Books(disputes, rounds, balance) /\ balance \in Int  BY DEF ProxyInv, Books
<1>7. balance' = holds
  <2> DEFINE f == [i \in chosen |-> IF i \in chosen THEN Withdrawable(rs[i], c, r, final) ELSE 0]
  <2>1. balance' = IF c \in Refusers THEN balance ELSE balance - SumFunctionOnSet(f, chosen)
    BY DEF Withdraw, SumFunction
  <2>2. f = [i \in chosen |-> Drawn(rs, c, r, final, chosen)[i]]  BY <1>5 DEF Drawn
  <2> HIDE DEF f
  <2> QED BY <2>1, <2>2 DEF PaidOut
<1>8. /\ RoundsInv(ss) /\ Len(ss) = Len(rs)
      /\ \A i \in 1..Len(rs) : ss[i].fundedRulings = rs[i].fundedRulings
      /\ total \in Nat /\ OwedOf(ss, final) + total = OwedOf(rs, final)
  <2> HIDE DEF final, rs
  <2> QED BY <1>1, <1>3, <1>5, WithdrawalKeeps
<1> HIDE DEF ds, rs, final, ss, total, holds
<1>9. Kept(ds, ss)
  <2>1. ASSUME OneFunded(ss[Len(ss)]) PROVE First(ss[Len(ss)]) = ds.ruling
    <3>1. Len(rs) \in 1..Len(rs) /\ RoundInv(rs[Len(rs)])  BY <1>1 DEF RoundsInv
    <3>2. ss[Len(ss)].fundedRulings = rs[Len(rs)].fundedRulings  BY <1>8, <3>1
    <3>3. Len(rs[Len(rs)].fundedRulings) = 1  BY <2>1, <3>2 DEF OneFunded
    <3>4. OneFunded(rs[Len(rs)])
      <4>1. Len(<< >>) = 0 /\ 0 # 1 /\ 2 # 1  OBVIOUS
      <4> QED BY <3>1, <3>3, <4>1, Zenon DEF RoundInv, NoneFunded, TwoFunded
    <3>5. First(rs[Len(rs)]) = ds.ruling  BY <1>1, <1>3, <3>4 DEF Kept
    <3> QED BY <3>2, <3>5 DEF First
  <2> QED BY <1>1, <1>8, <2>1 DEF Kept
<1>10. Claim(ds, ss) + total = Claim(ds, rs) /\ Claim(ds, ss) \in Nat
  BY <1>3, <1>8, <1>9, ClaimType DEF Claim, final
<1>11. holds \in Int /\ Claim(ds, ss) + balance <= Claim(ds, rs) + holds
  BY <1>6, <1>8, <1>10 DEF holds
<1>12. Books([disputes EXCEPT ![d] = ds], [rounds EXCEPT ![d] = ss], holds)
  BY <1>6, <1>9, <1>11, BooksChange DEF ds, rs
<1>13. Books(disputes', rounds', balance')  BY <1>1, <1>3, <1>4, <1>7, <1>12
<1> QED BY <1>3, <1>13 DEF ProxyInv

\* createDispute, of the proxy and of others.
LEMMA CreateKeeps ==
  ASSUME ProxyInv, NEW fee, CreateDispute(fee) \/ CreateElsewhere(fee)
  PROVE  ProxyInv'
<1>1. /\ Books(disputes, rounds, balance) /\ Courts(cases, disputes)
      /\ now \in Nat /\ multipliers \in Multipliers
  BY DEF ProxyInv
<1>2. now' = now /\ multipliers' = multipliers /\ balance' = balance
  BY DEF CreateDispute, CreateElsewhere
<1>3. cases \in Seq(CaseType) /\ Len(cases) \in Nat  BY <1>1 DEF Courts
<1>4. \A by \in {"proxy", "elsewhere"} :
         NewCase(by) \in CaseType /\ NewCase(by).arbitrated = by
  <2>1. 0 \in Rulings  BY ArbitratorAssumption DEF Rulings
  <2> QED BY <2>1 DEF NewCase, CaseType
<1>5. ASSUME NEW by \in {"proxy", "elsewhere"}
      PROVE  LET cs == Append(cases, NewCase(by))
             IN  /\ cs \in Seq(CaseType) /\ Len(cs) = Len(cases) + 1 /\ cs[Len(cases) + 1].arbitrated = by
                 /\ \A e \in 1..Len(cases) : cs[e] = cases[e]
  <2> DEFINE case == NewCase(by)
  <2>1. case \in CaseType /\ case.arbitrated = by  BY <1>4
  <2> HIDE DEF case
  <2>2. /\ Append(cases, case) \in Seq(CaseType) /\ Len(Append(cases, case)) = Len(cases) + 1
        /\ Append(cases, case)[Len(cases) + 1] = case
        /\ \A e \in 1..Len(cases) : Append(cases, case)[e] = cases[e]
    BY <1>3, <2>1, AppendProperties
  <2> QED BY <2>1, <2>2 DEF case
<1>6. CASE CreateDispute(fee)
  <2> DEFINE dispute == [isRuled |-> FALSE, ruling |-> 0, external |-> Len(cases) + 1]
  <2>1. /\ cases' = Append(cases, NewCase("proxy"))
        /\ disputes' = Append(disputes, dispute) /\ rounds' = Append(rounds, <<NewRound>>)
    BY <1>6 DEF CreateDispute, CreateCase
  <2>2. dispute \in DisputeType /\ ~dispute.isRuled /\ dispute.external = Len(cases) + 1
    BY <1>3, ArbitratorAssumption DEF DisputeType, Rulings
  <2> HIDE DEF dispute
  <2>3. Books(disputes', rounds', balance')  BY <1>1, <1>2, <2>1, <2>2, BooksGrow
  <2>4. /\ cases' \in Seq(CaseType) /\ Len(cases') = Len(cases) + 1
        /\ cases'[Len(cases) + 1].arbitrated = "proxy"
        /\ \A e \in 1..Len(cases) : cases'[e] = cases[e]
    BY <1>5, <2>1
  <2>5. /\ disputes \in Seq(DisputeType) /\ Len(disputes) \in Nat
        /\ Len(disputes') = Len(disputes) + 1 /\ disputes'[Len(disputes) + 1] = dispute
        /\ \A d \in 1..Len(disputes) : disputes'[d] = disputes[d]
    BY <1>1, <2>1, <2>2, AppendProperties DEF Books
  <2>6. \A d \in 1..Len(disputes') : /\ disputes'[d].external \in 1..Len(cases')
                                     /\ cases'[disputes'[d].external].arbitrated = "proxy"
                                     /\ disputes'[d].isRuled =>
                                            cases'[disputes'[d].external].status = "Solved"
    <3> SUFFICES ASSUME NEW d \in 1..Len(disputes')
                 PROVE  /\ disputes'[d].external \in 1..Len(cases')
                        /\ cases'[disputes'[d].external].arbitrated = "proxy"
                        /\ disputes'[d].isRuled =>
                               cases'[disputes'[d].external].status = "Solved"
      OBVIOUS
    <3>1. CASE d = Len(disputes) + 1
      BY <1>3, <2>2, <2>4, <2>5, <3>1
    <3>2. CASE d \in 1..Len(disputes)
      <4>1. disputes'[d] = disputes[d]  BY <2>5, <3>2
      <4>2. /\ disputes[d].external \in 1..Len(cases)
            /\ cases[disputes[d].external].arbitrated = "proxy"
            /\ disputes[d].isRuled => cases[disputes[d].external].status = "Solved"
        BY <1>1, <3>2 DEF Courts
      <4>3. disputes[d].external \in 1..Len(cases')  BY <1>3, <2>4, <4>2
      <4> QED BY <2>4, <4>1, <4>2, <4>3
    <3> QED BY <2>5, <3>1, <3>2
  <2>7. \A e \in 1..Len(cases') : cases'[e].arbitrated = "proxy" =>
            \E d \in 1..Len(disputes') : disputes'[d].external = e
    <3> SUFFICES ASSUME NEW e \in 1..Len(cases'), cases'[e].arbitrated = "proxy"
                 PROVE  \E d \in 1..Len(disputes') : disputes'[d].external = e
      OBVIOUS
    <3>1. CASE e = Len(cases) + 1
      <4>1. Len(disputes) + 1 \in 1..Len(disputes')  BY <2>5
      <4> QED BY <2>2, <2>5, <3>1, <4>1
    <3>2. CASE e \in 1..Len(cases)
      <4>1. cases[e].arbitrated = "proxy"  BY <2>4, <3>2
      <4>2. PICK d \in 1..Len(disputes) : disputes[d].external = e
        BY <1>1, <3>2, <4>1 DEF Courts
      <4>3. d \in 1..Len(disputes') /\ disputes'[d].external = e  BY <2>5, <4>2
      <4> QED BY <4>3
    <3> QED BY <1>3, <2>4, <3>1, <3>2
  <2>8. Courts(cases', disputes')  BY <2>4, <2>6, <2>7 DEF Courts
  <2> QED BY <1>1, <1>2, <2>3, <2>8 DEF ProxyInv
<1>7. CASE CreateElsewhere(fee)
  <2>1. cases' = Append(cases, NewCase("elsewhere")) /\ disputes' = disputes /\ rounds' = rounds
    BY <1>7 DEF CreateElsewhere, CreateCase
  <2>2. /\ cases' \in Seq(CaseType) /\ Len(cases') = Len(cases) + 1
        /\ cases'[Len(cases) + 1].arbitrated = "elsewhere"
        /\ \A e \in 1..Len(cases) : cases'[e] = cases[e]
    BY <1>5, <2>1
  <2>3. \A e \in 1..Len(cases) : e \in 1..Len(cases')  BY <1>3, <2>2
  <2>4. \A e \in 1..Len(cases') : cases'[e].arbitrated = "proxy" => e \in 1..Len(cases)
    <3>1. "proxy" # "elsewhere"  OBVIOUS
    <3>2. \A e \in 1..Len(cases') : e \in 1..Len(cases) \/ e = Len(cases) + 1  BY <1>3, <2>2
    <3> QED BY <2>2, <3>1, <3>2
  <2>5. Courts(cases', disputes)
    <3>1. \A d \in 1..Len(disputes) : /\ disputes[d].external \in 1..Len(cases)
                                      /\ cases[disputes[d].external].arbitrated = "proxy"
                                      /\ disputes[d].isRuled =>
                                            cases[disputes[d].external].status = "Solved"
      BY <1>1 DEF Courts
    <3>2. \A e \in 1..Len(cases) : cases[e].arbitrated = "proxy" =>
              \E d \in 1..Len(disputes) : disputes[d].external = e
      BY <1>1 DEF Courts
    <3>3. \A e \in 1..Len(cases') : cases'[e].arbitrated = "proxy" =>
              \E d \in 1..Len(disputes) : disputes[d].external = e
      BY <2>2, <2>4, <3>2
    <3>4. \A d \in 1..Len(disputes) : /\ disputes[d].external \in 1..Len(cases')
                                      /\ cases'[disputes[d].external].arbitrated = "proxy"
                                      /\ disputes[d].isRuled =>
                                            cases'[disputes[d].external].status = "Solved"
      BY <2>2, <2>3, <3>1
    <3> QED BY <2>2, <3>3, <3>4 DEF Courts
  <2> QED BY <1>1, <1>2, <2>1, <2>5 DEF ProxyInv
<1> QED BY <1>6, <1>7

\* The contract that asked for arbitration finds its dispute by the case.
LEMMA LocalOfCase ==
  ASSUME ProxyInv, NEW e \in DOMAIN cases, cases[e].arbitrated = "proxy"
  PROVE  LocalOf(e) \in DOMAIN disputes /\ disputes[LocalOf(e)].external = e
<1>1. e \in 1..Len(cases) /\ DOMAIN disputes = 1..Len(disputes)
  BY DEF ProxyInv, Books, Courts
<1>2. \E d \in DOMAIN disputes : disputes[d].external = e  BY <1>1 DEF ProxyInv, Courts
<1> QED BY <1>2 DEF LocalOf

\* rule: what is set aside is no more than before, and a ruling that alone was
\* paid for is the one given.
LEMMA DecidedKeeps ==
  ASSUME ProxyInv, NEW e \in DOMAIN cases, Decided(e),
         NEW case \in CaseType, case.arbitrated = cases[e].arbitrated, case.status = "Solved",
         cases' = [cases EXCEPT ![e] = case], now' = now
  PROVE  ProxyInv'
<1>1. /\ Books(disputes, rounds, balance) /\ Courts(cases, disputes)
      /\ now \in Nat /\ multipliers \in Multipliers /\ balance \in Int /\ cases \in Seq(CaseType)
      /\ disputes \in Seq(DisputeType) /\ DOMAIN disputes = 1..Len(disputes)
  BY DEF ProxyInv, Books, Courts
<1>2. rounds' = rounds /\ multipliers' = multipliers /\ balance' = balance  BY DEF Decided
<1>3. /\ cases' \in Seq(CaseType) /\ Len(cases') = Len(cases)
      /\ \A x \in 1..Len(cases) : /\ cases'[x].arbitrated = cases[x].arbitrated
                                  /\ cases'[x] = IF x = e THEN case ELSE cases[x]
  BY <1>1, CaseChange
<1>4. \A x \in 1..Len(cases) : cases[x].status = "Solved" => cases'[x].status = "Solved"
  BY <1>3
<1>5. e \in 1..Len(cases) /\ cases'[e] = case  BY <1>1, <1>3
<1>6. CASE cases[e].arbitrated = "proxy"
  <2> DEFINE d == LocalOf(e)
             rs == rounds[d]
             funded == Last(rs).fundedRulings
             given == IF Len(funded) = 1 THEN funded[1] ELSE case.ruling
             ruled == [disputes[d] EXCEPT !.isRuled = TRUE, !.ruling = given]
  <2>1. d \in DOMAIN disputes /\ disputes[d].external = e  BY <1>6, LocalOfCase
  <2>2. /\ ~disputes[d].isRuled
        /\ disputes' = [disputes EXCEPT ![d].isRuled = TRUE, ![d].ruling = given]
    BY <1>5, <1>6 DEF Decided, Ruled
  <2> HIDE DEF d
  <2>3. /\ RoundsInv(rs) /\ RoundInv(Last(rs)) /\ Last(rs) = rs[Len(rs)]
        /\ Kept(disputes[d], rs)
    BY <2>1, DisputeFacts
  <2> HIDE DEF rs
  <2>4. given \in Rulings
    <3>1. case.ruling \in Rulings  BY DEF CaseType
    <3>2. funded \in Seq(Rulings)  BY <2>3, RoundFields DEF RoundInv
    <3>3. Len(funded) = 1 => funded[1] \in Rulings
      <4>1. \A s \in Seq(Rulings) : Len(s) = 1 => s[1] \in Rulings  OBVIOUS
      <4> QED BY <3>2, <4>1
    <3> QED BY <3>1, <3>3
  <2>5. disputes' = [disputes EXCEPT ![d] = ruled]
    <3> HIDE DEF given
    <3> QED BY <1>1, <2>1, <2>2
  <2>6. /\ ruled \in DisputeType /\ ruled.isRuled /\ ruled.ruling = given /\ ruled.external = e
        /\ disputes[d] \in DisputeType
    <3> HIDE DEF given
    <3>1. disputes[d] \in DisputeType  BY <1>1, <2>1
    <3> QED BY <2>1, <2>4, <3>1 DEF DisputeType
  <2>7. Kept(ruled, rs)
    <3>1. OneFunded(rs[Len(rs)]) => First(rs[Len(rs)]) = given
      BY <2>3 DEF OneFunded, First
    <3> HIDE DEF given, ruled
    <3> QED BY <2>3, <2>6, <3>1 DEF Kept
  <2> HIDE DEF ruled, given
  <2>8. Claim(ruled, rs) + balance <= Claim(disputes[d], rs) + balance
    <3>1. Claim(ruled, rs) = OwedOf(rs, given) /\ Claim(disputes[d], rs) = PotOf(rs)
      BY <2>2, <2>6 DEF Claim
    <3>2. /\ OwedOf(rs, given) \in Nat /\ PotOf(rs) \in Nat
          /\ OwedOf(rs, given) <= PotOf(rs)
      BY <2>3, <2>4, OwedWithinPots
    <3> QED BY <1>1, <3>1, <3>2
  <2>9. rounds = [rounds EXCEPT ![d] = rs]
    <3>1. rounds \in Seq(Seq(RoundType))  BY <1>1 DEF Books
    <3> QED BY <3>1 DEF rs
  <2>10. Books(disputes', rounds', balance')
    <3>1. Books([disputes EXCEPT ![d] = ruled], [rounds EXCEPT ![d] = rs], balance)
      BY <1>1, <2>1, <2>7, <2>8, BooksChange DEF rs
    <3> QED BY <1>2, <2>5, <2>9, <3>1
  <2>11. Courts(cases', disputes')
    <3>1. Courts(cases', disputes)  BY <1>1, <1>3, <1>4, CourtsKeep
    <3>2. cases'[disputes[d].external].status = "Solved"  BY <1>5, <2>1
    <3>3. Courts(cases', [disputes EXCEPT ![d] = ruled])
      BY <1>1, <2>1, <2>6, <3>1, <3>2, CourtsRule
    <3> QED BY <2>5, <3>3
  <2> QED BY <1>1, <1>2, <2>10, <2>11 DEF ProxyInv
<1>7. CASE cases[e].arbitrated # "proxy"
  <2>1. disputes' = disputes  BY <1>7 DEF Decided
  <2>2. Courts(cases', disputes')  BY <1>1, <1>3, <1>4, <2>1, CourtsKeep
  <2> QED BY <1>1, <1>2, <2>1, <2>2 DEF ProxyInv
<1> QED BY <1>6, <1>7

\* The arbitrator's other calls leave the proxy's disputes alone, and what is
\* over stays over.
LEMMA ArbitratorKeeps ==
  ASSUME ProxyInv, Arbitrator PROVE ProxyInv'
<1>1. /\ Books(disputes, rounds, balance) /\ Courts(cases, disputes)
      /\ now \in Nat /\ multipliers \in Multipliers /\ cases \in Seq(CaseType)
      /\ \A e \in DOMAIN cases : cases[e] \in CaseType
  BY DEF ProxyInv, Courts
<1>2. ASSUME NEW e \in DOMAIN cases, NEW r \in Rulings, Decide(e, r) PROVE ProxyInv'
  <2> DEFINE case == [cases[e] EXCEPT !.ruling = r, !.status = "Solved"]
  <2>1. case \in CaseType /\ case.arbitrated = cases[e].arbitrated /\ case.status = "Solved"
    BY <1>1 DEF CaseType
  <2>2. cases' = [cases EXCEPT ![e] = case] /\ now' = now /\ Decided(e)
    BY <1>2 DEF Decide, GiveRuling
  <2> HIDE DEF case
  <2> QED BY <2>1, <2>2, DecidedKeeps
<1>3. ASSUME NEW e \in DOMAIN cases, Execute(e) PROVE ProxyInv'
  <2> DEFINE case == [cases[e] EXCEPT !.status = "Solved"]
  <2>1. case \in CaseType /\ case.arbitrated = cases[e].arbitrated /\ case.status = "Solved"
    BY <1>1 DEF CaseType
  <2>2. cases' = [cases EXCEPT ![e] = case] /\ now' = now /\ Decided(e)
    BY <1>1, <1>3 DEF Execute, ExecuteRuling
  <2> HIDE DEF case
  <2> QED BY <2>1, <2>2, DecidedKeeps
<1>4. ASSUME NEW e \in DOMAIN cases, cases[e].status # "Solved",
             NEW case \in CaseType, case.arbitrated = cases[e].arbitrated,
             cases' = [cases EXCEPT ![e] = case], now' = now,
             UNCHANGED <<disputes, rounds, multipliers, balance>>
      PROVE  ProxyInv'
  <2>1. /\ cases' \in Seq(CaseType) /\ Len(cases') = Len(cases)
        /\ \A x \in 1..Len(cases) : /\ cases'[x].arbitrated = cases[x].arbitrated
                                    /\ cases'[x] = IF x = e THEN case ELSE cases[x]
    BY <1>1, <1>4, CaseChange
  <2>2. \A x \in 1..Len(cases) : cases[x].status = "Solved" => cases'[x].status = "Solved"
    BY <1>4, <2>1
  <2>3. Courts(cases', disputes)  BY <1>1, <2>1, <2>2, CourtsKeep
  <2> QED BY <1>1, <1>4, <2>3 DEF ProxyInv
<1>5. ASSUME NEW e \in DOMAIN cases, NEW r \in Rulings, NEW cost \in AppealCosts, NEW time \in AppealTimes,
             GiveAppealableRuling(e, r, cost, time),
             UNCHANGED <<disputes, rounds, multipliers, balance>>
      PROVE  ProxyInv'
  <2> DEFINE case == [cases[e] EXCEPT
                        !.ruling = r, !.status = "Appealable", !.appealCost = cost,
                        !.appealPeriodStart = now, !.appealPeriodEnd = now + time]
  <2>1. cost \in Nat /\ time \in Nat /\ now <= now + time /\ now + time \in Nat
    BY <1>1, ArbitratorAssumption
  <2>2. case \in CaseType /\ case.arbitrated = cases[e].arbitrated
    BY <1>1, <2>1 DEF CaseType
  <2>3. /\ cases' = [cases EXCEPT ![e] = case] /\ now' = now /\ cases[e].status # "Solved"
    BY <1>5 DEF GiveAppealableRuling
  <2> HIDE DEF case
  <2> QED BY <1>4, <1>5, <2>2, <2>3
<1>6. ASSUME NEW e \in DOMAIN cases, NEW cost \in AppealCosts, ChangeAppealFee(e, cost),
             UNCHANGED <<disputes, rounds, multipliers, balance>>
      PROVE  ProxyInv'
  <2> DEFINE case == [cases[e] EXCEPT !.appealCost = cost]
  <2>1. cost \in Nat  BY ArbitratorAssumption
  <2>2. case \in CaseType /\ case.arbitrated = cases[e].arbitrated
    BY <1>1, <2>1 DEF CaseType
  <2>3. /\ cases' = [cases EXCEPT ![e] = case] /\ now' = now /\ cases[e].status # "Solved"
    BY <1>1, <1>6 DEF ChangeAppealFee
  <2> HIDE DEF case
  <2> QED BY <1>4, <1>6, <2>2, <2>3
<1>7. ASSUME NEW e \in DOMAIN cases, NEW payment \in Payments, AppealDirectly(e, payment),
             UNCHANGED <<disputes, rounds, multipliers, balance>>
      PROVE  ProxyInv'
  <2>1. cases[e].status = "Appealable" /\ cases' = Appealed(e) /\ now' = now
    BY <1>7 DEF AppealDirectly, AppealReverts
  <2>2. Courts(cases', disputes)  BY <1>1, <2>1, AppealedCases
  <2> QED BY <1>1, <1>7, <2>1, <2>2 DEF ProxyInv
<1>8. ASSUME (\E p \in ArbitrationPrices : SetArbitrationPrice(p)) \/ Tick,
             UNCHANGED <<disputes, rounds, multipliers, balance>>
      PROVE  ProxyInv'
  <2>1. cases' = cases /\ now' \in Nat  BY <1>1, <1>8 DEF SetArbitrationPrice, Tick
  <2> QED BY <1>1, <1>8, <2>1 DEF ProxyInv
<1> QED BY <1>2, <1>3, <1>5, <1>6, <1>7, <1>8 DEF Arbitrator

----------------------------------------------------------------------------
(* Every step keeps the books and the cases.                               *)

\* At the beginning there is nothing to keep.
LEMMA InitKeeps == Init => ProxyInv
<1> SUFFICES ASSUME Init PROVE ProxyInv  OBVIOUS
<1>1. /\ now = 1 /\ multipliers \in Multipliers /\ balance = 0
      /\ cases = << >> /\ disputes = << >> /\ rounds = << >>
  BY DEF Init, ArbitratorInit
<1>2. Courts(<< >>, << >>)  BY DEF Courts
<1>3. SumFunctionOnSet(Claims(<< >>, << >>), 1..Len(<< >>)) = 0
  <2>1. 1..Len(<< >>) = {}  OBVIOUS
  <2> QED BY <2>1, SumOfNone
<1>4. Books(<< >>, << >>, 0)  BY <1>3 DEF Books
<1> QED BY <1>1, <1>2, <1>4 DEF ProxyInv

\* Action by action.
LEMMA NextKeeps == ProxyInv /\ [Next]_vars => ProxyInv'
<1> SUFFICES ASSUME ProxyInv, [Next]_vars PROVE ProxyInv'  OBVIOUS
<1>1. CASE Arbitrator  BY <1>1, ArbitratorKeeps
<1>2. ASSUME NEW fee \in ArbitrationPrices, CreateDispute(fee) \/ CreateElsewhere(fee) PROVE ProxyInv'
  BY <1>2, CreateKeeps
<1>3. ASSUME NEW m \in Multipliers, ChangeMultipliers(m) PROVE ProxyInv'
  BY <1>3 DEF ChangeMultipliers, ProxyInv
<1>4. ASSUME NEW d \in DOMAIN disputes, NEW c \in Contributors, NEW r \in Rulings,
             NEW sent \in Payments, FundAppeal(c, d, r, sent)
      PROVE  ProxyInv'
  BY <1>4, FundAppealKeeps
<1>5. ASSUME NEW d \in DOMAIN disputes, NEW c \in Contributors, NEW r \in Rulings,
             NEW i \in DOMAIN rounds[d], Withdraw(c, d, {i}, r)
      PROVE  ProxyInv'
  <2>1. {i} \in SUBSET DOMAIN rounds[d]  BY <1>5
  <2> QED BY <1>5, <2>1, WithdrawKeeps
<1>6. ASSUME NEW d \in DOMAIN disputes, NEW c \in Contributors, NEW r \in Rulings,
             Withdraw(c, d, DOMAIN rounds[d], r)
      PROVE  ProxyInv'
  <2>1. DOMAIN rounds[d] \in SUBSET DOMAIN rounds[d]  OBVIOUS
  <2> QED BY <1>6, <2>1, WithdrawKeeps
<1>7. CASE UNCHANGED vars  BY <1>7 DEF vars, ProxyInv
<1> QED BY <1>1, <1>2, <1>3, <1>4, <1>5, <1>6, <1>7 DEF Next

\* So they are always kept.
LEMMA BooksAndCourts == Spec => []ProxyInv
<1> QED BY InitKeeps, NextKeeps, PTL DEF Spec

----------------------------------------------------------------------------
(* What the books promise.                                                 *)

\* Whatever the outcomes, what they let the contributors withdraw is within
\* what is set aside, and that is within what the proxy holds.
LEMMA SolventWhileKept == ProxyInv => Solvent
<1> SUFFICES ASSUME ProxyInv,
                    NEW final \in [DOMAIN disputes -> Rulings],
                    \A d \in DOMAIN disputes : final[d] \in {Outcome(d, r) : r \in Rulings}
             PROVE  SumFunction([d \in DOMAIN disputes |-> Owed(d, final[d])]) <= balance
  BY DEF Solvent
<1> DEFINE n == Len(disputes)
           f == [d \in DOMAIN disputes |-> Owed(d, final[d])]
           g == Claims(disputes, rounds)
<1>1. /\ DOMAIN disputes = 1..n /\ n \in Nat /\ balance \in Int
      /\ SumFunctionOnSet(g, 1..n) <= balance
  BY DEF ProxyInv, Books
<1>2. ASSUME NEW d \in 1..n
      PROVE  f[d] \in Int /\ g[d] \in Int /\ f[d] <= g[d]
  <2>1. d \in DOMAIN disputes  BY <1>1, <1>2
  <2>2. Kept(disputes[d], rounds[d]) /\ disputes[d].ruling \in Rulings /\ RoundsInv(rounds[d])
    BY <2>1, DisputeFacts
  <2>3. final[d] \in Rulings /\ (disputes[d].isRuled => final[d] = disputes[d].ruling)
    BY <2>1 DEF Outcome
  <2>4. Owed(d, final[d]) = OwedOf(rounds[d], final[d])
    <3>1. DOMAIN rounds[d] = 1..Len(rounds[d])  BY <2>2 DEF RoundsInv
    <3> QED BY <3>1 DEF Owed, OwedOf, Dues, SumFunction
  <2>5. /\ Claim(disputes[d], rounds[d]) \in Nat /\ OwedOf(rounds[d], final[d]) \in Nat
        /\ OwedOf(rounds[d], final[d]) <= Claim(disputes[d], rounds[d])
    BY <2>2, <2>3, ClaimCovers
  <2>6. g[d] = Claim(disputes[d], rounds[d])  BY <1>2 DEF Claims
  <2>7. f[d] = OwedOf(rounds[d], final[d])  BY <2>1, <2>4
  <2> QED BY <2>5, <2>6, <2>7
<1>3. IsFiniteSet(1..n)  BY <1>1, FS_Interval
<1>4. SumFunction(f) = SumFunctionOnSet(f, 1..n)
  <2>1. DOMAIN f = 1..n  BY <1>1
  <2> QED BY <2>1 DEF SumFunction
<1> HIDE DEF f, g, n
<1>5. SumFunctionOnSet(f, 1..n) <= SumFunctionOnSet(g, 1..n)  BY <1>2, <1>3, SumOrder
<1>6. SumFunctionOnSet(f, 1..n) \in Int /\ SumFunctionOnSet(g, 1..n) \in Int
  BY <1>2, <1>3, SumType
<1>7. SumFunction(f) <= balance  BY <1>1, <1>4, <1>5, <1>6
<1> QED BY <1>7 DEF f

\* Whatever ruling comes out of each dispute, and whoever withdraws first, the
\* proxy can pay everyone: fundAppeal (lines 145-191) never leaves a round with
\* less than the rewards it can come to owe, and withdrawFeesAndRewards (lines
\* 219-237) takes no more than it clears.
THEOREM ProxySolvent == Spec => []Solvent
<1> QED BY BooksAndCourts, SolventWhileKept, PTL

\* The round's own invariant says it.
LEMMA FirstFundersSafe == ProxyInv => FirstFundersLoseNothing
<1> SUFFICES ASSUME ProxyInv, NEW d \in DOMAIN disputes, NEW i \in DOMAIN rounds[d],
                    rounds[d][i].fundedRulings # << >>, NEW c \in Contributors
             PROVE  LET round == rounds[d][i]
                        first == round.fundedRulings[1]
                    IN  Withdrawable(round, c, first, first) >= round.contributions[c][first]
  BY DEF FirstFundersLoseNothing
<1>1. RoundsInv(rounds[d])  BY DisputeFacts
<1>2. i \in 1..Len(rounds[d])  BY <1>1 DEF RoundsInv
<1>3. RoundInv(rounds[d][i])  BY <1>1, <1>2 DEF RoundsInv
<1> QED BY <1>3, FirstFunders

\* The contributors of the ruling that was paid for first lose nothing if it
\* wins: what the second ruling was paid at least covers the appeal that
\* fundAppeal (lines 145-191) makes with both, at the price of that moment.
THEOREM ProxyFirstFunders == Spec => []FirstFundersLoseNothing
<1> QED BY BooksAndCourts, FirstFundersSafe, PTL

\* A round with one ruling paid for is the last, and rule looked at it.
LEMMA OneSidedWon == ProxyInv => OneSidedRoundsAreWon
<1> SUFFICES ASSUME ProxyInv, NEW d \in DOMAIN disputes, disputes[d].isRuled,
                    NEW i \in DOMAIN rounds[d], Len(rounds[d][i].fundedRulings) = 1
             PROVE  HasPaid(rounds[d][i], disputes[d].ruling)
  BY DEF OneSidedRoundsAreWon
<1> DEFINE rs == rounds[d]
<1>1. RoundsInv(rs) /\ Kept(disputes[d], rs)  BY DisputeFacts
<1>2. i \in 1..Len(rs) /\ Len(rs) \in Nat  BY <1>1 DEF RoundsInv
<1>3. RoundInv(rs[i])  BY <1>1, <1>2 DEF RoundsInv
<1>4. OneFunded(rs[i]) /\ ~TwoFunded(rs[i])
  <2>1. ~NoneFunded(rs[i])
    <3>1. rs[i].fundedRulings # << >>
      <4>1. Len(<< >>) # 1  OBVIOUS
      <4> QED BY <4>1
    <3> QED BY <3>1 DEF NoneFunded
  <2>2. ~TwoFunded(rs[i])
    <3>1. 1 # 2  OBVIOUS
    <3> QED BY <3>1 DEF TwoFunded
  <2> QED BY <1>3, <2>1, <2>2 DEF RoundInv
<1>5. i = Len(rs)  BY <1>1, <1>2, <1>4 DEF RoundsInv
<1>6. First(rs[i]) = disputes[d].ruling  BY <1>1, <1>4, <1>5 DEF Kept
<1> QED BY <1>3, <1>4, <1>6, FundedSet

\* A round that ends with one ruling paid for is won by it, as rule (lines
\* 243-261) decides: withdrawals find no payment for which nobody won.
THEOREM ProxyOneSided == Spec => []OneSidedRoundsAreWon
<1> QED BY BooksAndCourts, OneSidedWon, PTL

----------------------------------------------------------------------------
(* Late payments.                                                          *)

\* What a case will end with depends on its ruling and on the last round.
LEMMA SameExpected ==
  ASSUME NEW d \in DOMAIN disputes,
         disputes'[d] = disputes[d], rounds'[d] = rounds[d],
         cases'[disputes[d].external].ruling = cases[disputes[d].external].ruling
  PROVE  Expected(d)' = Expected(d)
  BY DEF Expected, Outcome

\* No part of an appeal period is longer than the period.
LEMMA PeriodWithin ==
  ASSUME NEW begin \in Nat, NEW end \in Nat, begin <= end, NEW part \in Nat, part <= Denominator
  PROVE  begin + ((end - begin) * part) \div Denominator <= end
<1> DEFINE length == end - begin
           D == Denominator
<1>1. length \in Nat /\ D \in Nat \ {0}  BY ProxyAssumption
<1> HIDE DEF length, D
<1>2. length * part <= length * D
  <2>1. part * length <= D * length  BY <1>1, TimesMono DEF D
  <2>2. part * length = length * part /\ D * length = length * D  BY <1>1
  <2> QED BY <2>1, <2>2
<1>3. length * part \in Nat /\ length * D \in Nat  BY <1>1, TimesNat
<1>4. (length * part) \div D <= (length * D) \div D  BY <1>1, <1>2, <1>3, DivMono
<1>5. (length * D) \div D <= length
  <2> DEFINE q == (length * D) \div D
  <2>1. q \in Nat /\ D * q <= length * D  BY <1>1, <1>3, DivType, DivBounds
  <2> HIDE DEF q
  <2>2. SUFFICES ASSUME ~(q <= length) PROVE FALSE  BY DEF q
  <2>3. length + 1 <= q /\ length + 1 \in Nat  BY <1>1, <2>1, <2>2
  <2>4. (length + 1) * D <= q * D  BY <1>1, <2>1, <2>3, TimesMono
  <2>5. (length + 1) * D = length * D + D /\ q * D = D * q  BY <1>1, <2>1
  <2>6. D * q \in Nat  BY <1>1, <2>1, TimesNat
  <2> QED BY <1>1, <1>3, <2>1, <2>4, <2>5, <2>6
<1>6. (length * part) \div D \in Nat /\ (length * D) \div D \in Nat  BY <1>1, <1>3, DivType
<1>7. begin + (length * part) \div D <= end
  BY <1>1, <1>4, <1>5, <1>6 DEF length
<1> QED BY <1>7 DEF length, D

\* After the period the case can only be executed, and the proxy takes no
\* contribution: every other step leaves the case, the dispute and its rounds.
LEMMA StepStands ==
  ASSUME \A m \in Multipliers : m.period <= Denominator
  PROVE  ProxyInv /\ [Next]_vars => [ \A d \in DOMAIN disputes : Over(d) => Expected(d)' = Expected(d) ]_vars
<1> SUFFICES ASSUME ProxyInv, Next, NEW d \in DOMAIN disputes, Over(d)
             PROVE  Expected(d)' = Expected(d)
  OBVIOUS
<1> DEFINE e == disputes[d].external
<1>1. /\ e \in DOMAIN cases /\ cases[e] \in CaseType
      /\ cases[e].status = "Appealable" /\ now >= cases[e].appealPeriodEnd
      /\ disputes[d].isRuled \in BOOLEAN
      /\ disputes[d].isRuled => cases[e].status = "Solved"
  BY DisputeFacts DEF Over
<1>2. ~disputes[d].isRuled
  <2>1. "Solved" # "Appealable"  OBVIOUS
  <2> QED BY <1>1, <2>1
<1>3. now \in Nat /\ multipliers \in Multipliers /\ cases \in Seq(CaseType) /\ disputes \in Seq(DisputeType)
  BY DEF ProxyInv, Books, Courts
<1>4. ASSUME NEW x \in DOMAIN cases, x # e, Decided(x) PROVE disputes'[d] = disputes[d] /\ rounds' = rounds
  <2>1. rounds' = rounds  BY <1>4 DEF Decided
  <2>2. CASE cases[x].arbitrated = "proxy"
    <3>1. LocalOf(x) # d  BY <1>4, <2>2, LocalOfCase
    <3>2. Ruled(x)  BY <1>4, <2>2 DEF Decided
    <3> QED BY <2>1, <3>1, <3>2 DEF Ruled
  <2>3. CASE cases[x].arbitrated # "proxy"  BY <1>4, <2>3, <2>1 DEF Decided
  <2> QED BY <2>2, <2>3
<1>5. ASSUME NEW x \in DOMAIN cases, NEW r \in Rulings, Decide(x, r) PROVE Expected(d)' = Expected(d)
  <2>1. x # e
    <3>1. "Waiting" # "Appealable"  OBVIOUS
    <3> QED BY <1>1, <1>5, <3>1 DEF Decide, GiveRuling
  <2>2. cases'[e] = cases[e]  BY <1>1, <1>5, <2>1 DEF Decide, GiveRuling
  <2>3. disputes'[d] = disputes[d] /\ rounds' = rounds  BY <1>4, <1>5, <2>1 DEF Decide
  <2> QED BY <2>2, <2>3, SameExpected
<1>6. ASSUME NEW x \in DOMAIN cases, Execute(x) PROVE Expected(d)' = Expected(d)
  <2>1. cases'[e].ruling = cases[e].ruling  BY <1>1, <1>3, <1>6 DEF Execute, ExecuteRuling, CaseType
  <2>2. rounds' = rounds /\ Decided(x)  BY <1>6 DEF Execute, Decided
  <2>3. CASE disputes'[d] = disputes[d]  BY <2>1, <2>2, <2>3, SameExpected
  <2>4. CASE disputes'[d] # disputes[d]
    <3>1. x = e  BY <1>4, <1>6, <2>2, <2>4
    <3>2. cases[e].arbitrated = "proxy"  BY DisputeFacts
    <3>3. Ruled(e)  BY <2>2, <3>1, <3>2 DEF Decided
    <3>4. LocalOf(e) = d  BY <2>4, <3>3 DEF Ruled
    <3> DEFINE funded == Last(rounds[d]).fundedRulings
               outcome == IF Len(funded) = 1 THEN funded[1] ELSE cases'[e].ruling
    <3>5. disputes' = [disputes EXCEPT ![d].isRuled = TRUE, ![d].ruling = outcome]
      BY <3>3, <3>4 DEF Ruled
    <3> HIDE DEF outcome
    <3>6. disputes'[d] = [disputes[d] EXCEPT !.isRuled = TRUE, !.ruling = outcome]
      BY <3>5
    <3>7. disputes[d] \in DisputeType  BY <1>3
    <3>8. disputes'[d].isRuled = TRUE /\ disputes'[d].ruling = outcome
      BY <3>6, <3>7 DEF DisputeType
    <3>9. Expected(d)' = outcome  BY <3>8 DEF Expected, Outcome
    <3>10. Expected(d) = outcome  BY <1>2, <2>1 DEF Expected, Outcome, outcome
    <3> QED BY <3>9, <3>10
  <2> QED BY <2>3, <2>4
<1>7. ASSUME NEW x \in DOMAIN cases, NEW r \in Rulings, NEW cost \in AppealCosts, NEW time \in AppealTimes,
             GiveAppealableRuling(x, r, cost, time), UNCHANGED <<disputes, rounds, multipliers, balance>>
      PROVE  Expected(d)' = Expected(d)
  <2>1. x # e
    <3>1. "Waiting" # "Appealable"  OBVIOUS
    <3> QED BY <1>1, <1>7, <3>1 DEF GiveAppealableRuling
  <2>2. cases'[e] = cases[e]  BY <1>1, <1>7, <2>1 DEF GiveAppealableRuling
  <2> QED BY <1>7, <2>2, SameExpected
<1>8. ASSUME NEW x \in DOMAIN cases, NEW cost \in AppealCosts, ChangeAppealFee(x, cost),
             UNCHANGED <<disputes, rounds, multipliers, balance>>
      PROVE  Expected(d)' = Expected(d)
  <2>1. cases'[e].ruling = cases[e].ruling  BY <1>1, <1>3, <1>8 DEF ChangeAppealFee, CaseType
  <2> QED BY <1>8, <2>1, SameExpected
<1>9. ASSUME NEW x \in DOMAIN cases, NEW payment \in Payments, AppealDirectly(x, payment),
             UNCHANGED <<disputes, rounds, multipliers, balance>>
      PROVE  Expected(d)' = Expected(d)
  <2>1. cases'[e].ruling = cases[e].ruling  BY <1>1, <1>3, <1>9 DEF AppealDirectly, Appealed, CaseType
  <2> QED BY <1>9, <2>1, SameExpected
<1>10. ASSUME (\E p \in ArbitrationPrices : SetArbitrationPrice(p)) \/ Tick,
              UNCHANGED <<disputes, rounds, multipliers, balance>>
       PROVE  Expected(d)' = Expected(d)
  <2>1. cases' = cases  BY <1>10 DEF SetArbitrationPrice, Tick
  <2> QED BY <1>10, <2>1, SameExpected
<1>11. ASSUME NEW fee, CreateDispute(fee) \/ CreateElsewhere(fee) PROVE Expected(d)' = Expected(d)
  <2>1. PICK by : cases' = Append(cases, NewCase(by))
    BY <1>11 DEF CreateDispute, CreateElsewhere, CreateCase
  <2>2. cases'[e] = cases[e]  BY <1>1, <1>3, <2>1
  <2>3. rounds \in Seq(Seq(RoundType)) /\ Len(rounds) = Len(disputes) /\ d \in 1..Len(disputes)
    BY <1>3 DEF ProxyInv, Books
  <2>4. CASE CreateDispute(fee)
    <3>1. disputes'[d] = disputes[d]  BY <1>3, <2>3, <2>4 DEF CreateDispute
    <3>2. rounds'[d] = rounds[d]  BY <2>3, <2>4 DEF CreateDispute
    <3> QED BY <2>2, <3>1, <3>2, SameExpected
  <2>5. CASE CreateElsewhere(fee)  BY <2>2, <2>5, SameExpected DEF CreateElsewhere
  <2> QED BY <1>11, <2>4, <2>5
<1>12. ASSUME NEW m \in Multipliers, ChangeMultipliers(m) PROVE Expected(d)' = Expected(d)
  BY <1>12, SameExpected DEF ChangeMultipliers
<1>13. ASSUME NEW x \in DOMAIN disputes, NEW c \in Contributors, NEW r \in Rulings,
              NEW sent \in Payments, FundAppeal(c, x, r, sent)
       PROVE  Expected(d)' = Expected(d)
  <2>1. disputes' = disputes /\ InAppealPeriod(cases[disputes[x].external], r)
    BY <1>13 DEF FundAppeal
  <2>2. x # d
    <3> DEFINE begin == cases[e].appealPeriodStart
               end == cases[e].appealPeriodEnd
               part == multipliers.period
    <3>1. begin \in Nat /\ end \in Nat /\ begin <= end  BY <1>1 DEF CaseType
    <3>2. part \in Nat /\ part <= Denominator  BY <1>3, ProxyAssumption
    <3> HIDE DEF begin, end, part
    <3>3. begin + ((end - begin) * part) \div Denominator <= end  BY <3>1, <3>2, PeriodWithin
    <3>4. end - begin \in Nat  BY <3>1
    <3>5. (end - begin) * part \in Nat /\ Denominator \in Nat \ {0}
      BY <3>2, <3>4, TimesNat, ProxyAssumption
    <3>6. ((end - begin) * part) \div Denominator \in Nat  BY <3>5, DivType
    <3>7. now >= end  BY <1>1 DEF end
    <3>8. ~(now < end) /\ ~(now < begin + ((end - begin) * part) \div Denominator)
      BY <1>3, <3>1, <3>3, <3>6, <3>7
    <3> QED BY <2>1, <3>8 DEF InAppealPeriod, begin, end, part
  <2>3. rounds'[d] = rounds[d] /\ (cases' = cases \/ cases' = Appealed(disputes[x].external))
    <3> DEFINE round == Last(rounds[x])
               y == disputes[x].external
               total == TotalCost(cases[y], r)
               after == Contributed(round, c, r, Smaller(sent, SubCap(total, round.paidFees[r])), total)
               small == Append(Front(rounds[x]), after)
               large == Front(rounds[x]) \o <<AfterAppeal(after, cases[y].appealCost), NewRound>>
    <3>1. \/ rounds' = [rounds EXCEPT ![x] = small] /\ cases' = cases
          \/ rounds' = [rounds EXCEPT ![x] = large] /\ cases' = Appealed(y)
      BY <1>13 DEF FundAppeal
    <3>2. d \in DOMAIN rounds  BY DEF ProxyInv, Books
    <3> HIDE DEF small, large, y
    <3>3. \/ rounds'[d] = rounds[d] /\ cases' = cases
          \/ rounds'[d] = rounds[d] /\ cases' = Appealed(y)
      BY <2>2, <3>1, <3>2
    <3> QED BY <3>3 DEF y
  <2>4. cases'[e].ruling = cases[e].ruling
    <3> DEFINE y == disputes[x].external
    <3>1. cases' = cases \/ cases' = Appealed(y)  BY <2>3
    <3>2. cases \in Seq(CaseType) /\ cases[e] \in CaseType /\ e \in DOMAIN cases  BY <1>1, <1>3
    <3>3. Appealed(y)[e] = IF y = e THEN [cases[e] EXCEPT !.status = "Waiting"] ELSE cases[e]
      BY <3>2 DEF Appealed
    <3>4. [cases[e] EXCEPT !.status = "Waiting"].ruling = cases[e].ruling
      BY <3>2 DEF CaseType
    <3> HIDE DEF y
    <3> QED BY <3>1, <3>3, <3>4
  <2> QED BY <2>1, <2>3, <2>4, SameExpected
<1>14. ASSUME NEW x \in DOMAIN disputes, NEW c, NEW chosen, NEW r, Withdraw(c, x, chosen, r)
       PROVE  Expected(d)' = Expected(d)
  <2>1. x # d  BY <1>2, <1>14 DEF Withdraw
  <2>2. rounds'[d] = rounds[d] /\ disputes' = disputes /\ cases' = cases
    BY <1>14, <2>1 DEF Withdraw
  <2> QED BY <2>2, SameExpected
<1> QED
  BY <1>5, <1>6, <1>7, <1>8, <1>9, <1>10, <1>11, <1>12, <1>13, <1>14 DEF Next, Arbitrator

\* Where no part of an appeal period is longer than the period, a period that is
\* over is over for everyone (checkAppealPeriod, lines 365-377): no later call
\* changes what the case will end with.
THEOREM ProxyOutcomeStands ==
  ASSUME \A m \in Multipliers : m.period <= Denominator
  PROVE  Spec => OutcomeStands
<1> QED BY BooksAndCourts, StepStands, PTL DEF Spec, OutcomeStands

----------------------------------------------------------------------------
(* The proxy implements what the insurance contracts rely on.              *)

\* What isDisputeExecutable reads: isRuled and ruling.
Unruled == NumberOfRulings + 1
RulingIn(d) == IF disputes[d].isRuled THEN disputes[d].ruling ELSE Unruled
RulingsIn == [d \in DOMAIN disputes |-> RulingIn(d)]

InProxy == INSTANCE Arbitration WITH rulings <- RulingsIn

\* The rulings are a sequence, as long as that of the disputes.
LEMMA RulingsAreSeq ==
  ASSUME ProxyInv
  PROVE  /\ RulingsIn \in Seq(Rulings \cup {Unruled})
         /\ DOMAIN RulingsIn = DOMAIN disputes /\ Len(RulingsIn) = Len(disputes)
<1>1. /\ disputes \in Seq(DisputeType) /\ Len(disputes) \in Nat
      /\ DOMAIN disputes = 1..Len(disputes)
  BY DEF ProxyInv, Books
<1>2. ASSUME NEW d \in DOMAIN disputes PROVE RulingIn(d) \in Rulings \cup {Unruled}
  <2>1. disputes[d] \in DisputeType  BY <1>1
  <2>2. disputes[d].ruling \in Rulings  BY <2>1 DEF DisputeType
  <2> QED BY <2>2 DEF RulingIn
<1> QED BY <1>1, <1>2 DEF RulingsIn

\* A step that leaves the disputes alone leaves the rulings alone.
LEMMA SameRulings == UNCHANGED disputes => UNCHANGED RulingsIn
BY DEF RulingsIn, RulingIn

\* What appending means.
LEMMA AppendIs ==
  ASSUME NEW S, NEW s \in Seq(S), NEW x \in S, NEW t \in Seq(S), Len(t) = Len(s) + 1,
         t[Len(s) + 1] = x, \A i \in 1..Len(s) : t[i] = s[i]
  PROVE  t = Append(s, x)
<1> DEFINE longer == Append(s, x)
<1>1. /\ longer \in Seq(S) /\ Len(longer) = Len(s) + 1 /\ longer[Len(s) + 1] = x
      /\ \A i \in 1..Len(s) : longer[i] = s[i]
  BY AppendProperties
<1> HIDE DEF longer
<1>2. Len(s) \in Nat  BY LenProperties
<1>3. \A i \in 1..Len(t) : t[i] = longer[i]
  <2> SUFFICES ASSUME NEW i \in 1..Len(t) PROVE t[i] = longer[i]  OBVIOUS
  <2>1. i \in 1..Len(s) \/ i = Len(s) + 1  BY <1>2
  <2> QED BY <1>1, <2>1
<1>4. t = longer  BY <1>1, <1>3, SeqEqual
<1> QED BY <1>4 DEF longer

\* A new dispute is not ruled.
LEMMA CreateIsCreate ==
  ASSUME ProxyInv, ProxyInv', NEW n, n = Len(disputes), NEW fee, CreateDispute(fee)
  PROVE  InProxy!Create
<1> DEFINE new == [isRuled |-> FALSE, ruling |-> 0, external |-> Len(cases) + 1]
           R == Rulings \cup {Unruled}
<1>1. disputes \in Seq(DisputeType) /\ n \in Nat /\ DOMAIN disputes = 1..n
  BY DEF ProxyInv, Books
<1>2. disputes' = Append(disputes, new) /\ ~new.isRuled  BY DEF CreateDispute
<1> HIDE DEF new
<1>3. /\ disputes'[n + 1] = new /\ DOMAIN disputes' = 1..(n + 1) /\ Len(disputes') = n + 1
      /\ \A d \in 1..n : disputes'[d] = disputes[d]
  <2>1. disputes' \in Seq(DisputeType)  BY DEF ProxyInv, Books
  <2> QED BY <1>1, <1>2, <2>1
<1>4. RulingIn(n + 1)' = Unruled /\ \A d \in 1..n : RulingIn(d)' = RulingIn(d)
  BY <1>2, <1>3 DEF RulingIn, Unruled
<1>5. RulingsIn \in Seq(R) /\ Len(RulingsIn) = n /\ RulingsIn' \in Seq(R) /\ Len(RulingsIn') = n + 1
  <2>1. ProxyInv => RulingsIn \in Seq(Rulings \cup {Unruled}) /\ Len(RulingsIn) = Len(disputes)
    BY RulingsAreSeq
  <2>2. (ProxyInv => RulingsIn \in Seq(Rulings \cup {Unruled}) /\ Len(RulingsIn) = Len(disputes))'
    BY RulingsAreSeq, PTL
  <2>3. (Rulings \cup {Unruled})' = Rulings \cup {Unruled}  BY DEF Rulings, Unruled
  <2> QED BY <1>3, <2>1, <2>2, <2>3
<1>6. RulingsIn'[n + 1] = Unruled /\ \A d \in 1..n : RulingsIn'[d] = RulingsIn[d]
  <2>1. \A d \in 1..(n + 1) : RulingsIn'[d] = RulingIn(d)'  BY <1>3 DEF RulingsIn
  <2>2. \A d \in 1..n : RulingsIn[d] = RulingIn(d)  BY <1>1 DEF RulingsIn
  <2>3. n + 1 \in 1..(n + 1) /\ \A d \in 1..n : d \in 1..(n + 1)  BY <1>1
  <2> QED BY <1>4, <2>1, <2>2, <2>3
<1>7. Unruled \in R  OBVIOUS
<1> HIDE DEF R
<1>8. RulingsIn' = Append(RulingsIn, Unruled)
  BY <1>5, <1>6, <1>7, AppendIs
<1> QED BY <1>8 DEF InProxy!Create

\* rule: the dispute of the case gets its one ruling, whoever paid for appeals.
LEMMA DecidedIsRule ==
  ASSUME ProxyInv, ProxyInv', NEW e \in DOMAIN cases, Decided(e)
  PROVE  InProxy!Next \/ UNCHANGED RulingsIn
<1>1. CASE cases[e].arbitrated # "proxy"  BY <1>1, SameRulings DEF Decided
<1>2. CASE cases[e].arbitrated = "proxy"
  <2>1. PICK d \in DOMAIN disputes : d = LocalOf(e)  BY <1>2, LocalOfCase
  <2>2. PICK given : /\ ~disputes[d].isRuled
                     /\ disputes' = [disputes EXCEPT ![d].isRuled = TRUE, ![d].ruling = given]
    BY <1>2, <2>1, Zenon DEF Decided, Ruled
  <2>3. disputes \in Seq(DisputeType) /\ disputes' \in Seq(DisputeType)
    BY DEF ProxyInv, Books
  <2>4. /\ DOMAIN disputes' = DOMAIN disputes
        /\ \A x \in DOMAIN disputes : x # d => disputes'[x] = disputes[x]
    BY <2>2
  <2>5. disputes[d] \in DisputeType /\ disputes'[d] \in DisputeType
    <3>1. d \in DOMAIN disputes'  BY <2>1, <2>4
    <3> QED BY <2>1, <2>3, <3>1
  <2>6. disputes'[d].isRuled /\ disputes'[d].ruling = given
    BY <2>1, <2>2, <2>5 DEF DisputeType
  <2>7. given \in Rulings  BY <2>5, <2>6 DEF DisputeType
  <2>8. /\ RulingIn(d) = Unruled /\ RulingIn(d)' = given
        /\ \A x \in DOMAIN disputes : x # d => RulingIn(x)' = RulingIn(x)
    BY <2>2, <2>4, <2>6 DEF RulingIn, Unruled
  <2>9. RulingsIn' = [RulingsIn EXCEPT ![d] = given] /\ RulingsIn[d] = Unruled
    BY <2>1, <2>4, <2>8 DEF RulingsIn
  <2>10. InProxy!Rule(d, given) /\ d \in DOMAIN RulingsIn
    BY <2>1, <2>9 DEF InProxy!Rule, RulingsIn
  <2> QED BY <2>7, <2>10 DEF InProxy!Next
<1> QED BY <1>1, <1>2

\* Step by step.
LEMMA StepArbitrates ==
  ASSUME ProxyInv, ProxyInv', [Next]_vars PROVE [InProxy!Next]_RulingsIn
<1>1. ASSUME NEW fee, CreateDispute(fee) PROVE InProxy!Next
  <2>1. PICK n : n = Len(disputes)  OBVIOUS
  <2> QED BY <1>1, <2>1, CreateIsCreate DEF InProxy!Next
<1>2. ASSUME NEW e \in DOMAIN cases, Decided(e) PROVE [InProxy!Next]_RulingsIn
  BY <1>2, DecidedIsRule
<1>3. ASSUME UNCHANGED disputes PROVE [InProxy!Next]_RulingsIn
  BY <1>3, SameRulings
<1>4. CASE Arbitrator
  BY <1>2, <1>3, <1>4 DEF Arbitrator, Decide, Execute
<1>5. ASSUME NEW fee, CreateElsewhere(fee) PROVE UNCHANGED disputes
  BY <1>5 DEF CreateElsewhere
<1>6. ASSUME NEW m, ChangeMultipliers(m) PROVE UNCHANGED disputes
  BY <1>6 DEF ChangeMultipliers
<1>7. ASSUME NEW c, NEW d, NEW r, NEW sent, FundAppeal(c, d, r, sent) PROVE UNCHANGED disputes
  BY <1>7 DEF FundAppeal
<1>8. ASSUME NEW c, NEW d, NEW chosen, NEW r, Withdraw(c, d, chosen, r) PROVE UNCHANGED disputes
  BY <1>8 DEF Withdraw
<1>9. CASE UNCHANGED vars  BY <1>3, <1>9 DEF vars
<1> QED BY <1>1, <1>3, <1>4, <1>5, <1>6, <1>7, <1>8, <1>9 DEF Next

\* To those who read only isRuled and ruling, the proxy numbers its disputes in
\* order and rules each at most once, in whatever order cases, appeals and
\* payments come at an arbitrator that others use too.
THEOREM ProxyArbitrates == Spec => InProxy!Spec
<1>1. ASSUME Init PROVE InProxy!Init
  <2>1. disputes = << >>  BY <1>1 DEF Init
  <2>2. RulingsIn = << >>
    <3>1. RulingsIn \in Seq(Rulings \cup {Unruled}) /\ Len(RulingsIn) = Len(disputes)
      BY <1>1, InitKeeps, RulingsAreSeq
    <3> QED BY <2>1, <3>1
  <2> QED BY <2>2 DEF InProxy!Init
<1>2. ProxyInv /\ ProxyInv' /\ [Next]_vars => [InProxy!Next]_RulingsIn  BY StepArbitrates
<1> QED BY <1>1, <1>2, BooksAndCourts, PTL DEF Spec, InProxy!Spec

----------------------------------------------------------------------------
(* What the contracts keep of a dispute is the number of its case.         *)

OwnCases ==
    \A c, d \in DOMAIN disputes : disputes[c].external = disputes[d].external => c = d

\* A new dispute has a new case, a ruling changes none.
LEMMA StepKeepsOwnCases ==
  ASSUME ProxyInv, ProxyInv', OwnCases, [Next]_vars PROVE OwnCases'
<1>1. disputes \in Seq(DisputeType) /\ disputes' \in Seq(DisputeType)
      /\ Len(disputes) \in Nat /\ DOMAIN disputes = 1..Len(disputes)
  BY DEF ProxyInv, Books
<1>2. ASSUME UNCHANGED disputes PROVE OwnCases'
  BY <1>2 DEF OwnCases
<1>3. ASSUME NEW fee, CreateDispute(fee) PROVE OwnCases'
  <2> DEFINE new == [isRuled |-> FALSE, ruling |-> 0, external |-> Len(cases) + 1]
  <2>1. disputes' = Append(disputes, new) /\ new.external = Len(cases) + 1
    BY <1>3 DEF CreateDispute
  <2> HIDE DEF new
  <2>2. PICK n \in Nat : n = Len(disputes)  BY <1>1, Zenon
  <2>3. /\ disputes'[n + 1].external = Len(cases) + 1 /\ DOMAIN disputes' = 1..(n + 1)
        /\ \A d \in 1..n : disputes'[d] = disputes[d]
    <3>1. /\ disputes'[n + 1] = new /\ Len(disputes') = n + 1
          /\ \A d \in 1..n : disputes'[d] = disputes[d]
      BY <1>1, <2>1, <2>2
    <3>2. DOMAIN disputes' = 1..Len(disputes')  BY <1>1
    <3> QED BY <2>1, <3>1, <3>2
  <2>4. \A d \in 1..n : disputes[d].external # Len(cases) + 1
    <3>1. \A d \in 1..n : disputes[d].external \in 1..Len(cases)
      BY <2>2 DEF ProxyInv, Courts
    <3>2. Len(cases) \in Nat  BY DEF ProxyInv, Courts
    <3> QED BY <3>1, <3>2
  <2>5. \A c \in 1..(n + 1) : c \in 1..n \/ c = n + 1  BY <2>2
  <2>6. ASSUME NEW c \in 1..(n + 1), NEW d \in 1..(n + 1),
               disputes'[c].external = disputes'[d].external
        PROVE  c = d
    <3>1. CASE c \in 1..n /\ d \in 1..n
      <4>1. disputes[c].external = disputes[d].external  BY <2>3, <2>6, <3>1
      <4> QED BY <1>1, <2>2, <3>1, <4>1 DEF OwnCases
    <3>2. CASE c = n + 1 /\ d \in 1..n  BY <2>3, <2>4, <2>6, <3>2
    <3>3. CASE d = n + 1 /\ c \in 1..n  BY <2>3, <2>4, <2>6, <3>3
    <3> QED BY <2>5, <3>1, <3>2, <3>3
  <2> QED BY <2>3, <2>6 DEF OwnCases
<1>4. ASSUME NEW e \in DOMAIN cases, Decided(e) PROVE OwnCases'
  <2>1. CASE cases[e].arbitrated # "proxy"  BY <1>2, <1>4, <2>1 DEF Decided
  <2>2. CASE cases[e].arbitrated = "proxy"
    <3>1. PICK d \in DOMAIN disputes : d = LocalOf(e)  BY <2>2, LocalOfCase
    <3>2. PICK given : disputes' = [disputes EXCEPT ![d].isRuled = TRUE, ![d].ruling = given]
      BY <1>4, <2>2, <3>1, Zenon DEF Decided, Ruled
    <3>3. /\ DOMAIN disputes' = DOMAIN disputes
          /\ \A x \in DOMAIN disputes : x # d => disputes'[x] = disputes[x]
      BY <3>2
    <3>4. disputes[d] \in DisputeType  BY <1>1
    <3>5. disputes'[d].external = disputes[d].external  BY <3>2, <3>4 DEF DisputeType
    <3>6. \A x \in DOMAIN disputes : disputes'[x].external = disputes[x].external
      BY <3>3, <3>5
    <3> QED BY <3>3, <3>6 DEF OwnCases
  <2> QED BY <2>1, <2>2
<1>5. CASE Arbitrator  BY <1>2, <1>4, <1>5 DEF Arbitrator, Decide, Execute
<1>6. ASSUME NEW fee, CreateElsewhere(fee) PROVE UNCHANGED disputes
  BY <1>6 DEF CreateElsewhere
<1>7. ASSUME NEW m, ChangeMultipliers(m) PROVE UNCHANGED disputes
  BY <1>7 DEF ChangeMultipliers
<1>8. ASSUME NEW c, NEW d, NEW r, NEW sent, FundAppeal(c, d, r, sent) PROVE UNCHANGED disputes
  BY <1>8 DEF FundAppeal
<1>9. ASSUME NEW c, NEW d, NEW chosen, NEW r, Withdraw(c, d, chosen, r) PROVE UNCHANGED disputes
  BY <1>9 DEF Withdraw
<1>10. CASE UNCHANGED vars  BY <1>2, <1>10 DEF vars
<1> QED BY <1>2, <1>3, <1>5, <1>6, <1>7, <1>8, <1>9, <1>10 DEF Next

\* externalIDtoLocalID leads from the number a contract keeps of its dispute back
\* to that dispute, whatever cases others bring before the arbitrator: no ruling
\* of another dispute is read, or given, for it.
THEOREM ProxyFindsDisputes ==
  Spec => [](\A d \in DOMAIN disputes : LocalOf(disputes[d].external) = d)
<1>1. Init => OwnCases  BY DEF Init, OwnCases
<1>2. ProxyInv /\ ProxyInv' /\ OwnCases /\ [Next]_vars => OwnCases'  BY StepKeepsOwnCases
<1>3. OwnCases => \A d \in DOMAIN disputes : LocalOf(disputes[d].external) = d
  BY DEF OwnCases, LocalOf
<1> QED BY <1>1, <1>2, <1>3, BooksAndCourts, PTL DEF Spec
=============================================================================
