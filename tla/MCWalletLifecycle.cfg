CONSTANTS
    s1 = s1
    s2 = s2
    None = None
    Seeds <- MCSeeds
    MaxId = 5
    Typed <- MCTyped
    MaxFaults = 2
SPECIFICATION WalletFairSpec
INVARIANTS
    WalletTypeOK
    SeedKept
PROPERTIES
    LoadFindsWallet
    LoadEnds
\* At the bounds on ids and restarts a wallet at rest has no step left.
CHECK_DEADLOCK FALSE
