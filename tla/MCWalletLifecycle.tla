--------------------------- MODULE MCWalletLifecycle ---------------------------
(* Two seeds, the ids 1, 4 and 5, two stops or failures. The name that is  *)
(* typed for a file is that of the first wallet: the other created one has *)
(* another name.                                                           *)
EXTENDS WalletLifecycle, TLC

CONSTANTS s1, s2

MCSeeds == {s1, s2}
MCTyped == {4}
================================================================================
