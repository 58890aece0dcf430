------------------------- MODULE MCProposalRegistry -------------------------
(* Constants for model-checking ProposalRegistry.                          *)
EXTENDS ProposalRegistry, TLC

CONSTANTS c1, f1, f2

MCCallers == {c1}
MCFees == {f1, f2}

(* Fees are only ever compared for equality.                               *)
Symmetry == Permutations(MCFees)
=============================================================================
