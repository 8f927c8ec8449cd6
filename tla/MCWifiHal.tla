----------------------------- MODULE MCWifiHal ------------------------------
(***************************************************************************)
(* WifiHal for TLC: command objects are interchangeable.                   *)
(***************************************************************************)
EXTENDS WifiHal, TLC

Symmetry == Permutations(Command)
=============================================================================
