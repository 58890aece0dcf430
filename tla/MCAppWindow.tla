------------------------------ MODULE MCAppWindow ------------------------------
(***************************************************************************)
(* AppWindow for TLC: a WEC of 100 zatoshis, a supply of 2. One link asks  *)
(* for more than the supply; the typed amounts have trailing, leading and  *)
(* no zeros, are below a zatoshi, half of one, too fine, the whole balance *)
(* and more than it. A tick is 250 ms.                                     *)
(***************************************************************************)
EXTENDS AppWindow, TLC

CONSTANTS cold, second, greedy

MCLinks == {cold, second, greedy}
MCAmountOf == cold :> 1050 @@ second :> 15 @@ greedy :> 2001
MCTyped == {0, 4, 5, 10, 14, 100, 101, 990, 1000, 1990, 2000}
================================================================================
