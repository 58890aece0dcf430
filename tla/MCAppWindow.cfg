\* The process ends with its window.
CHECK_DEADLOCK FALSE
SPECIFICATION WindowFairSpec
CONSTANTS
    cold = cold
    second = second
    greedy = greedy
    Links <- MCLinks
    AmountOf <- MCAmountOf
    Typed <- MCTyped
    Balance = 1995
    Decimals = 2
    Supply = 2
    Plain = 100
    Refused = Refused
    CleanupTicks = 3
    FlushTicks = 4
    FailsafeTicks = 12
    None = None
INVARIANTS
    WindowTypeOK
    LinkActedOnce
    AmountIsExact
PROPERTIES
    KnownWalletActs
    OrderlyExit
    CloseExits
