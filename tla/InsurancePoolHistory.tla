------------------------ MODULE InsurancePoolHistory ------------------------
(***************************************************************************)
(* The vault with one history variable: what investors have paid in, less  *)
(* what they were paid out for their shares.                               *)
(***************************************************************************)
EXTENDS InsurancePool, Integers

CONSTANT MaxPrincipal   \* bound of the model: the principal ever left in the pool

VARIABLE principal

hvars == <<now, expiration, balanceOf, totalSupply, allowance, held, approved, chef, principal>>

HInit == Init /\ principal = 0

HInvestor ==
    /\ Investor
    /\ principal' = principal + held' - held
    /\ principal' <= MaxPrincipal

Others ==
    \/ Rewards
    \/ \E n \in 0..MaxHeld : Distribute(n) \/ PayClaim(n) \/ Donate(n)
    \/ Conclude
    \/ Tick

HNext == HInvestor \/ (Others /\ UNCHANGED principal)

HSpec == HInit /\ [][HNext]_hvars

----------------------------------------------------------------------------
\* While the pool runs, its investors as a group have taken no profit,
\* whatever they bought, sold and passed on to each other, and whatever came
\* in or went out in between: each share that is left is still paid for.  (A
\* statement about one redemption, line 236, and what it comes to.)
NoProfitInTotal == Running => principal >= totalSupply
=============================================================================
