----------------------------- MODULE MCRefreshLoop -----------------------------
(* Constants for model-checking RefreshLoop.                               *)
EXTENDS RefreshLoop, TLC

CONSTANTS t1, t2, k1, k2

MCTasks == {t1, t2}
MCTicks == {k1, k2}

\* for the violation
MCTask == {t1}
MCTick == {k1}
=============================================================================
