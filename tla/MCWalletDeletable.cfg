\* One seed: the shortest way to an entry that doDelete cannot delete.
SPECIFICATION WalletSpec
CONSTANTS
    s1 = s1
    s2 = s2
    None = None
    Seeds <- MCSeeds
    MaxId = 5
    Typed <- MCTyped
    MaxFaults = 0
INVARIANT ShownIsDeletable
