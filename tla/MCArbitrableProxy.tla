------------------------- MODULE MCArbitrableProxy -------------------------
EXTENDS ArbitrableProxy

CONSTANTS alice, bob

\* In halves.  The ruling in force needs no stake, so that it can be paid for
\* before an appeal is possible, or a stake that rounds, as the others do.
MCMultipliers ==
    {[winner |-> w, loser |-> 1, period |-> 1] : w \in {0, 1}}

\* More than the whole period for the others.
MCLateMultipliers == {[winner |-> 1, loser |-> 1, period |-> 3]}
=============================================================================
