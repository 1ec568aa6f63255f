----------------------------- MODULE MCHostLink -----------------------------
(***************************************************************************)
(* The host link for TLC: the bounds are in the configurations.            *)
(***************************************************************************)
EXTENDS HostLink
=============================================================================
