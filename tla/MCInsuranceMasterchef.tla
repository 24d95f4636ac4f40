----------------------- MODULE MCInsuranceMasterchef -----------------------
EXTENDS InsuranceMasterchefHistory, TLC

CONSTANTS alice, bob, usdc, pool, proxy

AccountSymmetry == Permutations({alice, bob})
=============================================================================
