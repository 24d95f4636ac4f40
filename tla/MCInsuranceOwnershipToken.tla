--------------------- MODULE MCInsuranceOwnershipToken ---------------------
EXTENDS InsuranceOwnershipTokenHistory, TLC

CONSTANTS alice, bob, carol, usdc, dai, registrar, root

AccountSymmetry == Permutations({bob, carol})
=============================================================================
