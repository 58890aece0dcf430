---------------------------- MODULE MCReviewedFee ----------------------------
(* Constants for model-checking ReviewedFee.                               *)
EXTENDS ReviewedFee, TLC

CONSTANTS shielder, effect, f1, f2, k1

MCCallers == {Queue, Manager}
MCClients == {Sender, Manager, shielder, effect}
MCShielders == {shielder}
MCEffects == {effect}
MCFees == {f1, f2}
MCKeys == {k1}
===============================================================================
