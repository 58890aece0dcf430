\* Violated: a rejected rescan leaves an opened wallet without its refresh.
SPECIFICATION LoopSpec
CONSTANTS
    t1 = t1
    t2 = t2
    k1 = k1
    k2 = k2
    Tasks <- MCTask
    Ticks <- MCTick
    None = None
    MaxConfigures = 1
INVARIANT
    RefreshRuns
