-------------------------- MODULE MCProposalAdapter --------------------------
(* Constants for model-checking ProposalAdapter.                           *)
EXTENDS ProposalAdapter, TLC

CONSTANTS w1, f1, f2, k1

MCCallers == {Queue, Manager}
MCClients == {w1, Manager}
MCKeys == {k1}

MCFees == {f1, f2}
MCFee == {f1}   \* for the liveness run
=============================================================================
