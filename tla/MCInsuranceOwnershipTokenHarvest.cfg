SPECIFICATION HSpec
CONSTANTS
    alice = alice
    bob = bob
    carol = carol
    usdc = usdc
    dai = dai
    registrar = registrar
    root = root
    Accounts = {alice, bob, carol}
    Tokens = {usdc}
    Creator = alice
    Registrar = registrar
    RewardAdders = {root}
    Precision = 10
    Supply = 3
    MaxAssets = 1
    MaxRewards = 4
INVARIANTS
    HarvestPaysPending
