------------------------------- MODULE MCCANTx -------------------------------
(* The CAN transmit side on small instances; the constants are in the cfgs. *)
EXTENDS CANTx
===============================================================================
