--------------------------- MODULE ArbitrableProxy ---------------------------
(***************************************************************************)
(* The arbitrable proxy whose rulings the insurance contracts act on       *)
(* (very-insure/contracts/test/ArbitrableProxy.sol), with its arbitrator.  *)
(* Anyone may pay towards an appeal for any ruling.  When two rulings are  *)
(* paid for the proxy appeals and a new round begins; a ruling that is the *)
(* only one paid for when the case ends wins by default.  Afterwards the   *)
(* contributors withdraw.                                                  *)
(***************************************************************************)
EXTENDS AutoAppealableArbitrator, SequencesExt

CONSTANTS
    Contributors,
    Refusers,       \* those that do not take payments: contracts without a receiver
    Payments,       \* amounts sent with a call
    Multipliers,    \* winner, loser and period multipliers the governor sets
    Denominator,    \* DENOMINATOR, 10000
    MaxRounds,      \* bound of the model: rounds of a dispute
    MaxPaid         \* bound of the model: what is paid towards appeals in a dispute

ASSUME ProxyAssumption ==
    /\ IsFiniteSet(Contributors)
    /\ Payments \subseteq Nat
    /\ Multipliers \subseteq [winner : Nat, loser : Nat, period : Nat]
    /\ Denominator \in Nat \ {0}
    /\ MaxRounds \in Nat /\ MaxPaid \in Nat

VARIABLES
    disputes,       \* the proxy's own disputes, numbered by itself
    rounds,         \* disputeIDtoRoundArray
    multipliers,
    balance         \* what the proxy holds of the chain's currency

vars == <<now, price, cases, disputes, rounds, multipliers, balance>>

NewRound ==
    [paidFees |-> [r \in Rulings |-> 0],
     contributions |-> [c \in Contributors |-> [r \in Rulings |-> 0]],
     feeRewards |-> 0,
     fundedRulings |-> << >>]       \* hasPaid, in the order of funding

HasPaid(round, ruling) == ruling \in ToSet(round.fundedRulings)

SubCap(m, n) == IF n > m THEN 0 ELSE m - n
Smaller(m, n) == IF m < n THEN m ELSE n

\* externalIDtoLocalID
LocalOf(e) == CHOOSE d \in DOMAIN disputes : disputes[d].external = e

----------------------------------------------------------------------------
CreateDispute(fee) ==
    /\ CreateCase("proxy", fee)
    /\ disputes' = Append(disputes, [isRuled |-> FALSE, ruling |-> 0, external |-> Len(cases) + 1])
    /\ rounds' = Append(rounds, <<NewRound>>)
    /\ UNCHANGED <<now, price, multipliers, balance>>

\* Other contracts use the arbitrator too, so its numbers are not the proxy's.
CreateElsewhere(fee) ==
    /\ CreateCase("elsewhere", fee)
    /\ UNCHANGED <<now, price, disputes, rounds, multipliers, balance>>

StakeMultiplier(case, ruling) ==
    IF ruling = case.ruling THEN multipliers.winner ELSE multipliers.loser

\* NOT_PAYABLE_VALUE, the price of an appeal when there is none to make: more
\* than anyone pays, and its product with a multiplier overflows and reverts.
NotPayable == MaxPaid + 1

TotalCostReverts(case, ruling) ==
    case.status # "Appealable" /\ StakeMultiplier(case, ruling) # 0

\* appealCost: the stake depends on whether the ruling is the one in force.
TotalCost(case, ruling) ==
    IF case.status = "Appealable"
    THEN case.appealCost
            + (case.appealCost * StakeMultiplier(case, ruling)) \div Denominator
    ELSE NotPayable

\* Mistaken form of InAppealPeriod: it is left to the arbitrator.
InAppealPeriodUnchecked(case, ruling) == case.status = "Appealable"

\* checkAppealPeriod: the others have a part of the time only.
InAppealPeriod(case, ruling) ==
    LET length == case.appealPeriodEnd - case.appealPeriodStart
    IN  IF ruling = case.ruling
        THEN now < case.appealPeriodEnd
        ELSE now < case.appealPeriodStart + (length * multipliers.period) \div Denominator

\* The round after a contribution, before an appeal it may make possible.
Contributed(round, sender, ruling, amount, total) ==
    LET paid == round.paidFees[ruling] + amount
        counted == [round EXCEPT !.paidFees[ruling] = paid,
                                 !.contributions[sender][ruling] = @ + amount]
    IN  IF paid >= total
        THEN [counted EXCEPT !.feeRewards = @ + paid,
                             !.fundedRulings = Append(@, ruling)]
        ELSE counted

\* Mistaken form of AfterAppeal: the price of the appeal stays in the rewards.
AfterAppealUncharged(round, cost) == round

AfterAppeal(round, cost) == [round EXCEPT !.feeRewards = SubCap(@, cost)]

\* All that was paid towards appeals of d, for the bound of the model.
PaidFor(d) ==
    SumFunction([i \in DOMAIN rounds[d] |-> SumFunction(rounds[d][i].paidFees)])

\* fundAppeal.  What was sent beyond the need goes back, unless the sender
\* does not take it.
FundAppeal(sender, d, ruling, sent) ==
    LET e == disputes[d].external
        round == Last(rounds[d])
        total == TotalCost(cases[e], ruling)
        amount == Smaller(sent, SubCap(total, round.paidFees[ruling]))
        kept == IF sender \in Refusers THEN sent ELSE amount
        after == Contributed(round, sender, ruling, amount, total)
        before == Front(rounds[d])
        cost == cases[e].appealCost
    IN  /\ ~TotalCostReverts(cases[e], ruling)
        /\ InAppealPeriod(cases[e], ruling)
        /\ ~HasPaid(round, ruling)
        /\ PaidFor(d) + amount <= MaxPaid
        /\ \/ /\ Len(after.fundedRulings) < 2
              /\ rounds' = [rounds EXCEPT ![d] = Append(before, after)]
              /\ balance' = balance + kept
              /\ UNCHANGED cases
           \/ /\ Len(after.fundedRulings) = 2
              /\ Len(rounds[d]) < MaxRounds
              /\ ~AppealReverts(e, cost)
              /\ rounds' = [rounds EXCEPT
                              ![d] = before \o <<AfterAppeal(after, cost), NewRound>>]
              /\ balance' = balance + kept - cost
              /\ cases' = Appealed(e)
    /\ UNCHANGED <<now, price, disputes, multipliers>>

\* Mistaken form of Ruled: the ruling given is final.
RuledAsGiven(e) ==
    LET d == LocalOf(e)
    IN  /\ ~disputes[d].isRuled
        /\ disputes' = [disputes EXCEPT ![d].isRuled = TRUE, ![d].ruling = cases'[e].ruling]

\* rule, called by the arbitrator: a ruling that alone is paid for wins.
Ruled(e) ==
    LET d == LocalOf(e)
        funded == Last(rounds[d]).fundedRulings
    IN  /\ ~disputes[d].isRuled
        /\ disputes' = [disputes EXCEPT
                ![d].isRuled = TRUE,
                ![d].ruling = IF Len(funded) = 1 THEN funded[1] ELSE cases'[e].ruling]

\* A call of the arbitrator that ends a case calls the contract it is about.
Decided(e) ==
    /\ IF cases[e].arbitrated = "proxy" THEN Ruled(e) ELSE UNCHANGED disputes
    /\ UNCHANGED <<rounds, multipliers, balance>>

Decide(e, ruling) == GiveRuling(e, ruling) /\ Decided(e)

Execute(e) == ExecuteRuling(e) /\ Decided(e)

----------------------------------------------------------------------------
(* Getting contributions and rewards back.                                 *)

FundedFees(round) ==
    SumFunction([i \in DOMAIN round.fundedRulings |-> round.paidFees[round.fundedRulings[i]]])

\* What the denominators of getWithdrawableAmount need: two funded rulings, or
\* the final one, and something paid.
WithdrawReverts(round, ruling, final) ==
    /\ HasPaid(round, ruling) /\ ~HasPaid(round, final)
    /\ Len(round.fundedRulings) < 2 \/ FundedFees(round) = 0

\* Mistaken form of Withdrawable: the rewards are divided among all who funded
\* a ruling, and not among the winner's contributors.
WithdrawableByAll(round, contributor, ruling, final) ==
    LET contribution == round.contributions[contributor][ruling]
    IN  CASE ~HasPaid(round, ruling) -> contribution
          [] HasPaid(round, ruling) /\ FundedFees(round) = 0 -> 0
          [] OTHER -> (contribution * round.feeRewards) \div FundedFees(round)

\* getWithdrawableAmount: what did not fund a ruling comes back; the winner's
\* contributors share the rewards of the round; when the winner was not funded
\* in it, those of both funded rulings do.
Withdrawable(round, contributor, ruling, final) ==
    LET contribution == round.contributions[contributor][ruling]
        paid == round.paidFees[ruling]
    IN  CASE ~HasPaid(round, ruling) -> contribution
          [] HasPaid(round, ruling) /\ ruling = final ->
                IF paid > 0 THEN (contribution * round.feeRewards) \div paid ELSE 0
          [] HasPaid(round, ruling) /\ ruling # final /\ HasPaid(round, final) -> 0
          [] OTHER -> (contribution * round.feeRewards) \div FundedFees(round)

\* withdrawFeesAndRewards for the rounds in chosen: one of them, or all.  The
\* contribution is gone whether or not the contributor takes the payment; that
\* the proxy holds the amount is what Solvent says.
Withdraw(contributor, d, chosen, ruling) ==
    LET final == disputes[d].ruling
        Due(i) == IF i \in chosen THEN Withdrawable(rounds[d][i], contributor, ruling, final) ELSE 0
        total == SumFunction([i \in chosen |-> Due(i)])
    IN  /\ disputes[d].isRuled
        /\ \A i \in chosen : ~WithdrawReverts(rounds[d][i], ruling, final)
        /\ rounds' = [rounds EXCEPT ![d] = [i \in DOMAIN @ |->
                IF Due(i) # 0 THEN [@[i] EXCEPT !.contributions[contributor][ruling] = 0]
                              ELSE @[i]]]
        /\ balance' = IF contributor \in Refusers THEN balance ELSE balance - total
        /\ UNCHANGED <<now, price, cases, disputes, multipliers>>

ChangeMultipliers(m) ==
    /\ multipliers' = m
    /\ UNCHANGED <<now, price, cases, disputes, rounds, balance>>

----------------------------------------------------------------------------
Init ==
    /\ ArbitratorInit
    /\ disputes = << >>
    /\ rounds = << >>
    /\ multipliers \in Multipliers
    /\ balance = 0

Arbitrator ==
    \/ \E e \in DOMAIN cases :
          \/ \E r \in Rulings : Decide(e, r)
          \/ Execute(e)
          \/ /\ \/ \E r \in Rulings, cost \in AppealCosts, time \in AppealTimes :
                      GiveAppealableRuling(e, r, cost, time)
                \/ \E cost \in AppealCosts : ChangeAppealFee(e, cost)
                \/ \E payment \in Payments : AppealDirectly(e, payment)
             /\ UNCHANGED <<disputes, rounds, multipliers, balance>>
    \/ /\ (\E p \in ArbitrationPrices : SetArbitrationPrice(p)) \/ Tick
       /\ UNCHANGED <<disputes, rounds, multipliers, balance>>

Next ==
    \/ Arbitrator
    \/ \E fee \in ArbitrationPrices : CreateDispute(fee) \/ CreateElsewhere(fee)
    \/ \E m \in Multipliers : ChangeMultipliers(m)
    \/ \E d \in DOMAIN disputes, c \in Contributors, r \in Rulings :
          \/ \E sent \in Payments : FundAppeal(c, d, r, sent)
          \/ \E i \in DOMAIN rounds[d] : Withdraw(c, d, {i}, r)
          \/ Withdraw(c, d, DOMAIN rounds[d], r)

Spec == Init /\ [][Next]_vars

----------------------------------------------------------------------------
(* What is promised.                                                       *)

\* What the contributors of a ruling could withdraw of a round if final were
\* the ruling of the dispute.
OwedFor(round, ruling, final) ==
    IF WithdrawReverts(round, ruling, final) THEN 0
    ELSE SumFunction([c \in Contributors |-> Withdrawable(round, c, ruling, final)])

OwedIn(round, final) == SumFunction([r \in Rulings |-> OwedFor(round, r, final)])

\* All that could be withdrawn from a dispute.
Owed(d, final) == SumFunction([i \in DOMAIN rounds[d] |-> OwedIn(rounds[d][i], final)])

\* The ruling that the proxy will have if the case of d ends with ruling r.
Outcome(d, r) ==
    LET funded == Last(rounds[d]).fundedRulings
    IN  IF disputes[d].isRuled THEN disputes[d].ruling
        ELSE IF Len(funded) = 1 THEN funded[1] ELSE r

\* Whatever ruling comes out of each dispute, and whoever withdraws first, the
\* proxy can pay everyone: the rewards of a round are what is left of its
\* contributions after the appeal (lines 170-182 and 338-359), and roundings
\* only leave something over.
Solvent ==
    \A final \in [DOMAIN disputes -> Rulings] :
        (\A d \in DOMAIN disputes : final[d] \in {Outcome(d, r) : r \in Rulings}) =>
            SumFunction([d \in DOMAIN disputes |-> Owed(d, final[d])]) <= balance

\* The contributors of the ruling that was paid for first in a round lose
\* nothing if it wins, whatever the owner does to the price of the appeal and
\* the governor to the multipliers before the other ruling is paid for: the
\* second payment covers the appeal that both make possible.
FirstFundersLoseNothing ==
    \A d \in DOMAIN disputes : \A i \in DOMAIN rounds[d] :
        LET round == rounds[d][i]
        IN  round.fundedRulings # << >> =>
                \A c \in Contributors :
                    LET first == round.fundedRulings[1]
                    IN  Withdrawable(round, c, first, first) >= round.contributions[c][first]

\* A round that ends with one ruling paid for is won by it (lines 254-258), so
\* withdrawals never look for a second one that is not there.
OneSidedRoundsAreWon ==
    \A d \in DOMAIN disputes : disputes[d].isRuled =>
        \A i \in DOMAIN rounds[d] :
            Len(rounds[d][i].fundedRulings) = 1 =>
                HasPaid(rounds[d][i], disputes[d].ruling)

\* Once an appeal period is over nothing changes what the case will end with:
\* no late payment gets a ruling past the one in force (checkAppealPeriod,
\* lines 365-377).  The comment at line 274 says that this holds for every
\* multiplier of the period, and it does for those up to the denominator.
Over(d) ==
    LET case == cases[disputes[d].external]
    IN  case.status = "Appealable" /\ now >= case.appealPeriodEnd

Expected(d) == Outcome(d, cases[disputes[d].external].ruling)

OutcomeStands ==
    [][ \A d \in DOMAIN disputes : Over(d) => Expected(d)' = Expected(d) ]_vars
=============================================================================
