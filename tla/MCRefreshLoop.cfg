\* Two overlapping ticks, two outstanding synchronizations, one flow beside a deletion.
SPECIFICATION LoopFairSpec
CONSTANTS
    t1 = t1
    t2 = t2
    k1 = k1
    k2 = k2
    Tasks <- MCTasks
    Ticks <- MCTicks
    None = None
    MaxConfigures = 1
INVARIANTS
    LoopTypeOK
    StopReachesSync
    RunningWillComplete
    ClosedIsNotSynced
PROPERTIES
    SyncsGoOn
    SendResumes
