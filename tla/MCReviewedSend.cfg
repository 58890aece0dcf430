\* The renderer over one process, two payment lists, two proposals.
SPECIFICATION SendSpec
CONSTANTS
    Sender = Sender
    shielder = shielder
    effect = effect
    f1 = f1
    k1 = k1
    k2 = k2
    Queue = Queue
    Manager = Manager
    Callers <- MCCallers
    Clients <- MCClients
    Shielders <- MCShielders
    Effects <- MCEffects
    Fees <- MCFees
    Keys <- MCKeys
    None = None
    MaxGeneration = 2
    MaxEpoch = 1
SYMMETRY Symmetry
INVARIANTS
    SendTypeOK
    
