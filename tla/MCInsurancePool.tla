-------------------------- MODULE MCInsurancePool --------------------------
EXTENDS InsurancePool, TLC

CONSTANTS alice, bob, usdc, dai, pool, proxy

AccountSymmetry == Permutations({alice, bob})
=============================================================================
