SPECIFICATION Spec
CONSTANTS
    alice = alice
    bob = bob
    usdc = usdc
    dai = dai
    pool = pool
    proxy = proxy
    Accounts = {alice, bob}
    Tokens = {usdc, dai}
    Pool = pool
    TrustedProxies = {proxy}
    Precision = 4
    MaxAssets = 1
    Asset = usdc
    BasisPoints = 4
    ReserveDivisor = 2
    WithdrawalFee = 1
    InstantReward = 2
    Expirations = {2}
    MaxShares = 3
    MaxRewards = 1
    MaxHeld = 4
    MaxAllowance = 1
    MaxTime = 2
SYMMETRY AccountSymmetry
INVARIANTS
    TypeOK
    LedgerMirrorsShares
PROPERTIES
    ExpiredForGood
    LedgerSpec
