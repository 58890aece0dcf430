\* A restart of the process, liveness and refinement; one fee, one proposal per process.
SPECIFICATION AdapterFairSpec
CONSTANTS
    w1 = w1
    f1 = f1
    f2 = f2
    k1 = k1
    Queue = Queue
    Manager = Manager
    Callers <- MCCallers
    Clients <- MCClients
    Fees <- MCFee
    Keys <- MCKeys
    None = None
    MaxGeneration = 1
    MaxEpoch = 2
PROPERTIES
    EveryOperationAnswered
    ImplementsLifecycle
