SPECIFICATION Spec
CONSTANTS
    alice = alice
    bob = bob
    usdc = usdc
    dai = dai
    pool = pool
    proxy = proxy
    Accounts = {alice, bob}
    Tokens = {usdc}
    Pool = pool
    TrustedProxies = {}
    Precision = 4
    MaxAssets = 1
    Asset = usdc
    BasisPoints = 4
    ReserveDivisor = 2
    WithdrawalFee = 1
    InstantReward = 1
    Expirations = {0}
    MaxShares = 4
    MaxRewards = 1
    MaxHeld = 6
    MaxAllowance = 0
    MaxTime = 2
INVARIANTS
    NoProfitWhileOpen
