--------------------------- MODULE MCJ1939Receiver ---------------------------
(* Three messages: a connection that needs three windows, a broadcast of the *)
(* same node, and a connection of another node to the same client.           *)
EXTENDS J1939Receiver

MCMessages == {"long", "wide", "cast"}
MCSA == [long |-> 1, cast |-> 1, wide |-> 2]
MCDA == [long |-> 9, wide |-> 9, cast |-> 255]
MCIsBAM == [long |-> FALSE, wide |-> FALSE, cast |-> TRUE]
MCPackets == [long |-> 3, wide |-> 2, cast |-> 2]
MCWindow == [long |-> 1, wide |-> 2, cast |-> 2]
==============================================================================
