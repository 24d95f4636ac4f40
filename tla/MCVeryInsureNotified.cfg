SPECIFICATION SystemSpec
CONSTANTS
    alice = alice
    usdc = usdc
    pool = pool
    n1 = n1
    n2 = n2
    proxy = proxy
    operator = operator
    Accounts = {alice}
    Tokens = {usdc}
    Pool = pool
    TrustedProxies = {}
    Precision = 2
    MaxAssets = 1
    Asset = usdc
    BasisPoints = 4
    ReserveDivisor = 2
    WithdrawalFee = 0
    InstantReward = 0
    Expirations = {3}
    MaxShares = 2
    MaxRewards = 0
    MaxHeld = 4
    MaxAllowance = 0
    MaxTime = 3
    Nodes = {n1, n2}
    ForeignNodes = {n2}
    Proxies = {proxy}
    Operators = {}
    Prices = {3}
    Terms = {2, 3}
    Amounts = {1}
    Nonces = {1}
    Deadlines = {2}
    OwnerShare = 1
    FactoryFee = 1
    MaxClaims = 2
    MaxDisputes = 3
    Notifies = TRUE
    MaxNesting = 2
INVARIANTS
    SystemTypeOK
    ActedOnlyOnRulingsFor
    RequestsHaveTheirOwnDispute
PROPERTIES
    PaidOnlyWhileCovered
    TermsAreKept
    MarkedIsDone
