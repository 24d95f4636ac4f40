SPECIFICATION Spec
CONSTANTS
    Deployments <- MCDeployments
    MaxContracts = 20
CHECK_DEADLOCK FALSE
INVARIANTS
    TypeOK
    NeverDeployedTwice
    WiringMatchesRecords
    GreenRunsHaveReverseNames
PROPERTIES
    DeploymentCompletes
    SettingsConverge
    ArchiveConverges
