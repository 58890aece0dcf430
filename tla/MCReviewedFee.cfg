\* The renderer with its fees over one process, one payment list.
SPECIFICATION FeeSpec
CONSTANTS
    Sender = Sender
    shielder = shielder
    effect = effect
    f1 = f1
    f2 = f2
    k1 = k1
    Queue = Queue
    Manager = Manager
    Callers <- MCCallers
    Clients <- MCClients
    Shielders <- MCShielders
    Effects <- MCEffects
    Fees <- MCFees
    Keys <- MCKeys
    None = None
    MaxGeneration = 2
    MaxEpoch = 1
INVARIANT
    ConfirmsReviewedFee
