\* Safety: one window and the wallet manager, two proposals.
SPECIFICATION AdapterSpec
CONSTANTS
    w1 = w1
    f1 = f1
    f2 = f2
    k1 = k1
    Queue = Queue
    Manager = Manager
    Callers <- MCCallers
    Clients <- MCClients
    Fees <- MCFees
    Keys <- MCKeys
    None = None
    MaxGeneration = 2
    MaxEpoch = 1
INVARIANTS
    IInv
    AdapterTypeOK
    NoForeignProposal
    CalculatedIsRetryable
    SignedIsNotSpendable
