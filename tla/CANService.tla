------------------------------ MODULE CANService ------------------------------
(***************************************************************************)
(* What the firmware promises of CAN messages to be transmitted (the Send  *)
(* CAN Packet, Transmit Confirm and CAN Control commands): accepted        *)
(* messages go on the bus in the order they were accepted, each at most    *)
(* once; only a message that is on the bus is confirmed, once; and only a  *)
(* recovery command gives up a message that was accepted.                  *)
(***************************************************************************)
EXTENDS Integers, Sequences

VARIABLES
  accepted,   \* number of messages accepted, which is the newest one's name
  waiting,    \* the messages accepted and neither on the bus nor given up
  bus,        \* the messages on the bus, in order
  confirmed,  \* those the host is told about, in order
  recovering  \* a recovery command is in progress

vars == <<accepted, waiting, bus, confirmed, recovering>>

Init ==
  /\ accepted = 0
  /\ waiting = <<>> /\ bus = <<>> /\ confirmed = <<>>
  /\ recovering = FALSE

Accept ==
  /\ ~recovering
  /\ accepted' = accepted + 1
  /\ waiting' = Append(waiting, accepted + 1)
  /\ UNCHANGED <<bus, confirmed, recovering>>

\* Whether the host wants to be told is its own business.
Transmit ==
  /\ waiting # <<>>
  /\ bus' = Append(bus, Head(waiting))
  /\ waiting' = Tail(waiting)
  /\ confirmed' \in {confirmed, Append(confirmed, Head(waiting))}
  /\ UNCHANGED <<accepted, recovering>>

\* The message being transmitted is given up, or those behind it, or all; the
\* command may be over with that.
GiveUp ==
  /\ recovering
  /\ waiting # <<>>
  /\ waiting' \in {<<>>, <<Head(waiting)>>, Tail(waiting)}
  /\ recovering' \in BOOLEAN
  /\ UNCHANGED <<accepted, bus, confirmed>>

Recover ==
  /\ recovering' = ~recovering
  /\ UNCHANGED <<accepted, waiting, bus, confirmed>>

Next == Accept \/ Transmit \/ GiveUp \/ Recover

Spec == Init /\ [][Next]_vars

-------------------------------------------------------------------------------
Increasing(s) == \A i, j \in DOMAIN s : i < j => s[i] < s[j]

TypeOK ==
  /\ accepted \in Nat
  /\ waiting \in Seq(Nat) /\ bus \in Seq(Nat) /\ confirmed \in Seq(Nat)
  /\ recovering \in BOOLEAN

\* What is on the bus is older than what waits, and what is confirmed is on it.
ServiceInv ==
  /\ Increasing(waiting) /\ Increasing(bus) /\ Increasing(confirmed)
  /\ \A i \in DOMAIN waiting : waiting[i] <= accepted
  /\ \A i \in DOMAIN bus : /\ bus[i] <= accepted
                           /\ \A j \in DOMAIN waiting : bus[i] < waiting[j]
  /\ \A i \in DOMAIN confirmed : \E j \in DOMAIN bus : confirmed[i] = bus[j]

(***************************************************************************)
(* The messages are on the bus in the order they were accepted, none of    *)
(* them twice, and none is confirmed twice or without being on the bus.    *)
(***************************************************************************)
OnBusInOrder ==
  /\ Increasing(bus)
  /\ Increasing(confirmed)
  /\ \A i \in DOMAIN confirmed : \E j \in DOMAIN bus : confirmed[i] = bus[j]
===============================================================================
