----------------------------- MODULE MCBusTimer -----------------------------
(* BusTimer's constants are numbers, which the configurations give: MCBusTimer   *)
(* keeps to the assumptions on how often the main loop looks at the bus; the     *)
(* other two give up one of them each.                                           *)
EXTENDS BusTimer
=============================================================================
