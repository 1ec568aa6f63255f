--------------------------- MODULE CANFilterService ---------------------------
(***************************************************************************)
(* What the firmware promises of CAN filters (CAN Control, options 'f',    *)
(* 'e' and 'r'): there is a set of filters, of bounded size; a frame goes  *)
(* to the host if it passes one of them, or if filtering is off; and the   *)
(* set changes by commands alone.                                          *)
(*                                                                         *)
(* Words are sets of bits: 'received identifier & mask' is an intersection.*)
(***************************************************************************)
EXTENDS Integers, FiniteSets

CONSTANTS
  MaxFilters,  \* filters there can be (NUM_USER_CAN_FILTERS, 25)
  Filters,     \* the filters a host may ask for: [ext, id, mask]
  Frames,      \* the identifiers on the bus: [ext, id]
  NoFrame

VARIABLES
  filters,  \* the filters that are on
  all,      \* filtering is off: every frame passes
  heard     \* the frame the last step gave to the host, if any

vars == <<filters, all, heard>>

Init == filters = {} /\ all = FALSE /\ heard = NoFrame

Passes(frame) ==
  \/ all
  \/ \E f \in filters : f.ext = frame.ext /\ frame.id \cap f.mask = f.id

Enable(f) ==
  /\ Cardinality(filters) < MaxFilters
  /\ filters' = filters \cup {f}
  /\ heard' = NoFrame /\ UNCHANGED all

Disable(f) ==
  /\ filters' = filters \ {f}
  /\ heard' = NoFrame /\ UNCHANGED all

Switch ==
  /\ all' \in BOOLEAN
  /\ heard' = NoFrame /\ UNCHANGED filters

Reset ==
  /\ filters' = {} /\ all' = FALSE
  /\ heard' = NoFrame

Receive(frame) ==
  /\ heard' = IF Passes(frame) THEN frame ELSE NoFrame
  /\ UNCHANGED <<filters, all>>

Next ==
  \/ \E f \in Filters : Enable(f) \/ Disable(f)
  \/ \E frame \in Frames : Receive(frame)
  \/ Switch \/ Reset

Spec == Init /\ [][Next]_vars
===============================================================================
