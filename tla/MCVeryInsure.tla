---------------------------- MODULE MCVeryInsure ----------------------------
EXTENDS VeryInsure

CONSTANTS alice, usdc, pool, n1, n2, proxy, operator
=============================================================================
