SPECIFICATION SystemSpec
CONSTANTS
    alice = alice
    usdc = usdc
    pool = pool
    n1 = n1
    n2 = n2
    proxy = proxy
    operator = operator
    Accounts = {alice}
    Tokens = {usdc}
    Pool = pool
    TrustedProxies = {}
    Precision = 2
    MaxAssets = 1
    Asset = usdc
    BasisPoints = 4
    ReserveDivisor = 2
    WithdrawalFee = 0
    InstantReward = 2
    Expirations = {2}
    MaxShares = 1
    MaxRewards = 2
    MaxHeld = 4
    MaxAllowance = 0
    MaxTime = 2
    Nodes = {n1}
    ForeignNodes = {}
    Proxies = {proxy}
    Operators = {operator}
    Prices = {5}
    Terms = {2}
    Amounts = {1}
    Nonces = {1}
    Deadlines = {1}
    OwnerShare = 1
    FactoryFee = 1
    MaxClaims = 2
    MaxDisputes = 2
    Notifies = FALSE
    MaxNesting = 1
PROPERTIES
    LifecycleSpec
    PremiumsAreSplitExactly
