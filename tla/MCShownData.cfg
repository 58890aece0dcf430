\* One fetch at a time, each with the events that can disturb it.
SPECIFICATION DataFairSpec
CONSTANTS
    t1 = t1
    k1 = k1
    c1 = c1
    Tasks <- MCTask
    Ticks <- MCTick
    Configures <- MCConfigures
    Fetches <- MCFetches
    Views <- MCViews
    None = None
    MaxWallets = 2
    MaxHeight = 2
    MaxFailures = 1
INVARIANTS
    DataTypeOK
    OpenHasDatabase
PROPERTY
    ShownCatchesUp
CHECK_DEADLOCK FALSE
