------------------------------- MODULE MCJ1708 -------------------------------
(***************************************************************************)
(* The J1708 side for TLC: the bounds are in the configurations.           *)
(***************************************************************************)
EXTENDS J1708
==============================================================================
