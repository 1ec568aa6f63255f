------------------------------- MODULE MCCANRx -------------------------------
(* The CAN receive queue on a ring of three slots. *)
EXTENDS CANRx

===============================================================================
