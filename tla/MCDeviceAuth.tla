----------------------------- MODULE MCDeviceAuth -----------------------------
(***************************************************************************)
(* DeviceAuth for TLC. A grant of two ticks is fresh, or in its last tick, *)
(* or gone: each call finds it in each of the three.                       *)
(***************************************************************************)
EXTENDS DeviceAuth
================================================================================
