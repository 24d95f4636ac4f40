SPECIFICATION HSpec
CONSTANTS
    alice = alice
    bob = bob
    usdc = usdc
    pool = pool
    proxy = proxy
    Accounts = {alice, bob}
    Tokens = {usdc}
    Pool = pool
    TrustedProxies = {proxy}
    Precision = 10
    MaxAssets = 1
    MaxShares = 4
    MaxRewards = 4
    MaxUpdates = 6
SYMMETRY AccountSymmetry
INVARIANTS
    TypeOK
    SharesAddUp
    DebtWithinEntitlement
    OnlyListedTokensCarryRewards
    BoundedDeficit
    NoMoreThanEarned
    NoLessThanEarned
PROPERTIES
    SettledInFull
