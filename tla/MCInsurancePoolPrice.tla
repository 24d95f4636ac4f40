------------------------ MODULE MCInsurancePoolPrice ------------------------
EXTENDS InsurancePoolHistory

CONSTANTS alice, usdc, pool
=============================================================================
