SPECIFICATION Spec
CONSTANTS
    alice = alice
    bob = bob
    Contributors = {alice, bob}
    Refusers = {bob}
    NumberOfRulings = 2
    ArbitrationPrices = {1}
    AppealCosts = {1, 2}
    AppealTimes = {2}
    MaxCases = 1
    MaxTime = 3
    Payments = {1, 2}
    Multipliers <- MCMultipliers
    Denominator = 2
    MaxRounds = 2
    MaxPaid = 3
INVARIANTS
    Solvent
    FirstFundersLoseNothing
    OneSidedRoundsAreWon
PROPERTIES
    OutcomeStands
