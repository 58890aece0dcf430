\* One caller, two proposals in each of two processes. Two callers: MCProposalAdapter.
SPECIFICATION Spec
CONSTANTS
    c1 = c1
    f1 = f1
    f2 = f2
    Callers <- MCCallers
    Fees <- MCFees
    None = None
    MaxGeneration = 2
    MaxEpoch = 2
SYMMETRY Symmetry
INVARIANTS
    TypeOK
    LocksMatchProposal
    OnlyReviewedFeeSent
    AtMostOneVerdict
PROPERTY
    CalculatedAwaitsVerdict
