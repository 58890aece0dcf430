---------------------------- MODULE MCReviewedSend ----------------------------
(* Constants for model-checking ReviewedSend.                              *)
EXTENDS ReviewedSend, TLC

CONSTANTS shielder, effect, f1, k1, k2

MCCallers == {Queue, Manager}
MCClients == {Sender, Manager, shielder, effect}
MCShielders == {shielder}
MCEffects == {effect}
MCFees == {f1}
MCKeys == {k1, k2}

(* Payment lists are only ever compared for equality.                      *)
Symmetry == Permutations(MCKeys)
===============================================================================
