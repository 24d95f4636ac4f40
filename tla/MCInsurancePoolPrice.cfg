SPECIFICATION HSpec
CONSTANTS
    alice = alice
    usdc = usdc
    pool = pool
    Accounts = {alice}
    Tokens = {usdc}
    Pool = pool
    TrustedProxies = {}
    Precision = 1
    MaxAssets = 1
    Asset = usdc
    BasisPoints = 5
    ReserveDivisor = 5
    WithdrawalFee = 2
    InstantReward = 0
    Expirations = {2}
    MaxShares = 13
    MaxRewards = 0
    MaxHeld = 16
    MaxAllowance = 0
    MaxTime = 2
    MaxPrincipal = 20
INVARIANTS
    ReserveHolds
    WaysOutAgree
    NoProfitInTotal
PROPERTIES
    LeaversDiluteNobody
