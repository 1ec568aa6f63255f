---------------------------- MODULE J1939Receiver ----------------------------
(***************************************************************************)
(* The receiving half of the host driver's J1939 transport protocol        *)
(* (J1939Transaction.cs: J1939BAMReceiver and J1939RTSCTSReceiver;         *)
(* QBSerial.cs: J1939PktRecv).  Nodes on the bus send messages too long    *)
(* for a frame: after a BAM they broadcast the packets one after another,  *)
(* after an RTS they send the packets the driver asks for in a CTS.  A     *)
(* receiver collects the packets of one message, asks again when a timer   *)
(* expires, and hands the complete message to the clients.  A client gets  *)
(* it if it receives and its filters let it through; its sender knows      *)
(* nothing of that.                                                        *)
(*                                                                         *)
(* The packets of a message m are m itself with a sequence number: what a  *)
(* receiver holds at a number says which message that packet came from.    *)
(* The receivers' timers do not take the lock the other handlers hold; a   *)
(* callback overtaken by the last packet only asks for no packets, so they *)
(* are steps of their own here as well.                                    *)
(***************************************************************************)
EXTENDS Integers, Sequences, FiniteSets, SequencesExt

CONSTANTS
  Messages,    \* the messages that nodes of the bus may send
  SA, DA,      \* [Messages -> addresses]: their source and destination
  IsBAM,       \* [Messages -> BOOLEAN]: broadcast, or by RTS and CTS
  Packets,     \* [Messages -> Nat \ {0}]: the packets they take
  Window,      \* [Messages -> Nat \ {0}]: packets one CTS may ask for (RTS)
  Addresses,   \* the addresses clients of this driver have claimed at first
  MaxFaults    \* bound: frames lost and answers later than a receiver's timer

None == "none"        \* no packet yet
NumRetries == 2       \* num_retries

ASSUME ReceiverAssumption ==
  /\ None \notin Messages
  /\ Packets \in [Messages -> Nat \ {0}]
  /\ Window \in [Messages -> Nat \ {0}]
  /\ IsBAM \in [Messages -> BOOLEAN]
  /\ MaxFaults \in Nat

VARIABLES
  bam, rts,   \* BAMRecvList and RTSCTSRecvList: what they hold, in any order
  detached,   \* receivers no longer in the list whose timers still run
  claimed,    \* the addresses clients hold (claimAddress)
  delivered,  \* the messages that reached a client, as they were put together
  dropped,    \* the messages complete that no client took
  peer,       \* [Messages -> the state of the sending node]
  inbox,      \* [Messages -> CTS and EndOfMsgAck on their way to the sender]
  faults,     \* faults so far that hit a message
  room,       \* faults there may still be
  mixed,      \* messages whose connection overlapped another one of their sender
  aborted     \* messages whose connections were aborted

lists == <<bam, rts, detached>>
clients == <<delivered, dropped>>
ghosts == <<faults, room, mixed, aborted>>
vars == <<lists, claimed, clients, peer, inbox, ghosts>>

(***************************************************************************)
(* Receivers.                                                              *)
(***************************************************************************)
NewReceiver(m) ==
  [msg |-> m, got |-> [k \in 1..Packets[m] |-> None], nextSeq |-> 1,
   nextCTS |-> 1 + Window[m], retries |-> NumRetries, valid |-> TRUE,
   timer |-> TRUE]

Complete(r) == \A k \in DOMAIN r.got : r.got[k] # None

Missing(r) == {k \in DOMAIN r.got : r.got[k] = None}

FirstMissing(r) == CHOOSE k \in Missing(r) : \A j \in Missing(r) : k <= j

\* How many packets a repeated CTS asks for: the run of missing packets from
\* the first, as far as the window reaches.
RunLength(r) ==
  LET first == FirstMissing(r)
  IN CHOOSE n \in 1..Window[r.msg] :
       /\ \A k \in first..(first + n - 1) : k \in Missing(r)
       /\ n = Window[r.msg] \/ first + n \notin Missing(r)

CTS(next, n) == [type |-> "CTS", next |-> next, n |-> n]
EndOfMsgAck == [type |-> "EOM"]

\* SendCTSPacket(true): what is asked for again, and the receiver afterwards.
Resend(r) == CTS(FirstMissing(r), RunLength(r))
AfterResend(r) == [r EXCEPT !.nextSeq = FirstMissing(r)]

\* The packet is put in its place and the timer starts again.
Stored(r, m, k) == [r EXCEPT !.got = [@ EXCEPT ![k] = m], !.timer = TRUE]

\* Mutant: the source of a packet is not looked at.
UpdateBAMAnySource(r, m, k) ==
  IF k # r.nextSeq THEN r ELSE [Stored(r, m, k) EXCEPT !.nextSeq = k + 1]

\* J1939BAMReceiver.UpdateData: only the packet that is due.
UpdateBAM(r, m, k) ==
  IF SA[m] # SA[r.msg] \/ k # r.nextSeq THEN r
  ELSE [Stored(r, m, k) EXCEPT !.nextSeq = k + 1]

\* J1939RTSCTSReceiver.UpdateData: any packet whose number is in range; the
\* packet before nextCTS has the missing ones asked for.
Accepts(r, m, k) == SA[m] = SA[r.msg] /\ k <= Packets[r.msg]
AsksMore(r, k) == ~Complete(r) /\ k + 1 = r.nextCTS

UpdateRTSCTS(r, m, k) ==
  LET s == Stored(r, m, k)
  IN IF ~Accepts(r, m, k) THEN r
     ELSE IF AsksMore(s, k) THEN AfterResend(s)
     ELSE [s EXCEPT !.nextSeq = k + 1]

\* Mutant: the last packet is taken for the end of the message.
AnswerToLast(r, m, k) ==
  IF ~Accepts(r, m, k) THEN <<>>
  ELSE IF k = Packets[r.msg] THEN <<EndOfMsgAck>>
  ELSE IF AsksMore(Stored(r, m, k), k) THEN <<Resend(Stored(r, m, k))>> ELSE <<>>

\* What that update writes to the bus, for the sender of the receiver's message.
AnswerTo(r, m, k) ==
  LET s == Stored(r, m, k)
  IN IF ~Accepts(r, m, k) THEN <<>>
     ELSE IF Complete(s) THEN <<EndOfMsgAck>>
     ELSE IF AsksMore(s, k) THEN <<Resend(s)>> ELSE <<>>

\* A message has one receiver at most: the driver sees one RTS for it.
ReceiverOf(n) == CHOOSE r \in rts : r.msg = n

Connections == {m \in Messages : ~IsBAM[m]}
Listed == bam \cup rts
Listens(m) == \E r \in Listed : r.msg = m

(***************************************************************************)
(* The handlers of J1939PktRecv.                                           *)
(***************************************************************************)
\* TP.CM_BAM
ReceiveBAM(m) ==
  /\ bam' = bam \cup {NewReceiver(m)}
  /\ UNCHANGED <<rts, detached, clients, inbox>>

\* TP.CM_RTS: only for an address a client has claimed; the first CTS asks for
\* a whole window.
ReceiveRTS(m) ==
  /\ UNCHANGED <<bam, detached, clients>>
  /\ IF DA[m] \in claimed
       THEN /\ rts' = rts \cup {NewReceiver(m)}
            /\ inbox' = [inbox EXCEPT ![m] = Append(@, CTS(1, Window[m]))]
       ELSE UNCHANGED <<rts, inbox>>

\* Complete messages are handed over.  The client, or whoever has its place now,
\* takes one only if it is there, receives, and has its filters off or one that lets
\* the message through: of all that may change between any two frames.
ClientJ1939ReadMsg(done) ==
  \E taken \in SUBSET done :
    /\ delivered' = delivered \cup {[msg |-> r.msg, got |-> r.got] : r \in taken}
    /\ dropped' = dropped \cup {r.msg : r \in done \ taken}

\* TP.DT, packet k of m: every receiver is told; the complete ones are handed
\* over, the invalid ones leave the list only now.
Stays(r) == ~Complete(r) /\ r.valid

ReceiveDT(m, k) ==
  LET newBam == {UpdateBAM(r, m, k) : r \in bam}
      newRts == {UpdateRTSCTS(r, m, k) : r \in rts}
      done   == {r \in newBam \cup newRts : Complete(r)}
  IN /\ bam' = {r \in newBam : Stays(r)}
     /\ rts' = {r \in newRts : Stays(r)}
     /\ detached' = detached \cup {r \in newRts : ~Complete(r) /\ ~r.valid /\ r.timer}
     /\ ClientJ1939ReadMsg(done)
     /\ inbox' = [n \in Messages |->
                   IF \E r \in rts : r.msg = n
                     THEN inbox[n] \o AnswerTo(ReceiverOf(n), m, k)
                     ELSE inbox[n]]

\* The receivers of connections to an address no longer count.
Invalidated(a) ==
  {IF DA[r.msg] = a THEN [r EXCEPT !.valid = FALSE] ELSE r : r \in rts}

\* TP.Conn_Abort from the sender of m: every connection of the client that is
\* addressed, whoever its sender is, and every broadcast of that sender.
ReceiveAbort(m) ==
  LET ofSender == {r \in bam : SA[r.msg] = SA[m]}
  IN /\ UNCHANGED <<detached, clients, inbox>>
     /\ IF DA[m] \in claimed
          THEN /\ rts' = Invalidated(DA[m])
               /\ bam' = bam \ ofSender
               /\ aborted' = aborted \cup {r.msg : r \in {x \in rts : DA[x.msg] = DA[m]}}
                               \cup {r.msg : r \in ofSender}
          ELSE /\ UNCHANGED <<rts, bam>>
               /\ aborted' = aborted \cup {m}

\* An Address Claimed message from a node with a better name: AbortClientRTSCTS.
LoseClaim(a) ==
  /\ a \in claimed
  /\ claimed' = claimed \ {a}
  /\ rts' = Invalidated(a)
  /\ aborted' = aborted \cup {m \in Messages : DA[m] = a}
  /\ UNCHANGED <<bam, detached, clients, peer, inbox, faults, room, mixed>>

\* A client goes and gives up its address (RemoveClientID): the receivers of its
\* connections stay and go on to the end.
Disconnect(a) ==
  /\ a \in claimed
  /\ claimed' = claimed \ {a}
  /\ UNCHANGED <<lists, clients, peer, inbox, ghosts>>

(***************************************************************************)
(* The timers: a second for RTS and CTS, eight for a broadcast, since the  *)
(* last packet.  Quiet(m): the sender is not about to send a packet.  A    *)
(* timer that expires although it is counts as a fault.                    *)
(***************************************************************************)
Quiet(m) == inbox[m] = <<>> /\ peer[m].phase # "sending"

Fault(m) ==
  /\ room > 0 /\ room' = room - 1
  /\ faults' = [faults EXCEPT ![m] = @ + 1]

LateUnlessQuiet(m) == IF Quiet(m) THEN UNCHANGED <<faults, room>> ELSE Fault(m)

\* J1939BAMReceiver.TimeOut
TimeOutBAM(r) ==
  /\ r.timer
  /\ LateUnlessQuiet(r.msg)
  /\ bam' = (bam \ {r}) \cup {[r EXCEPT !.valid = FALSE, !.timer = FALSE]}
  /\ UNCHANGED <<rts, detached, claimed, clients, peer, inbox, mixed, aborted>>

\* Mutant: one retry fewer.
AfterTimeOutEarly(r) ==
  IF r.retries > 1
    THEN [AfterResend(r) EXCEPT !.retries = @ - 1]
    ELSE [r EXCEPT !.valid = FALSE, !.timer = FALSE]

\* J1939RTSCTSReceiver.TimeOut
AfterTimeOut(r) ==
  IF r.retries > 0
    THEN [AfterResend(r) EXCEPT !.retries = @ - 1]
    ELSE [r EXCEPT !.valid = FALSE, !.timer = FALSE]

AskAgain(r) ==
  inbox' = IF r.retries > 0 THEN [inbox EXCEPT ![r.msg] = Append(@, Resend(r))]
                            ELSE inbox

TimeOutRTSCTS(r) ==
  /\ r.timer
  /\ LateUnlessQuiet(r.msg)
  /\ rts' = (rts \ {r}) \cup {AfterTimeOut(r)}
  /\ AskAgain(r)
  /\ UNCHANGED <<bam, detached, claimed, clients, peer, mixed, aborted>>

\* A receiver that left the list as invalid still has its timer.
TimeOutDetached(r) ==
  /\ LateUnlessQuiet(r.msg)
  /\ detached' = (detached \ {r}) \cup {x \in {AfterTimeOut(r)} : x.timer}
  /\ AskAgain(r)
  /\ UNCHANGED <<bam, rts, claimed, clients, peer, mixed, aborted>>

(***************************************************************************)
(* The nodes that send, which keep to the protocol, and the bus: a frame   *)
(* reaches the driver or is lost on the way (the receive queue is full).   *)
(***************************************************************************)
Open(m) == peer[m].phase \in {"waiting", "sending"}

SameSender(m) == {n \in Messages \ {m} : SA[n] = SA[m]}
Overlap(m) == {n \in SameSender(m) : Open(n) \/ Listens(n)}

\* A node has one broadcast and one connection to an address open at a time.
Announce(m) ==
  /\ peer[m].phase = "unsent"
  /\ \A n \in SameSender(m) : IsBAM[n] = IsBAM[m] => ~Open(n)
  /\ peer' = [peer EXCEPT ![m] = IF IsBAM[m]
                THEN [phase |-> "sending", next |-> 1, last |-> Packets[m]]
                ELSE [phase |-> "waiting", next |-> 1, last |-> 0]]
  /\ mixed' = mixed \cup Overlap(m) \cup {n \in {m} : Overlap(m) # {}}
  /\ \/ /\ IF IsBAM[m] THEN ReceiveBAM(m) ELSE ReceiveRTS(m)
        /\ UNCHANGED <<faults, room>>
     \/ /\ Fault(m)
        /\ UNCHANGED <<lists, clients, inbox>>
  /\ UNCHANGED <<claimed, aborted>>

Advance(m) ==
  LET p == peer[m]
  IN IF p.next < p.last THEN [p EXCEPT !.next = @ + 1]
     ELSE [p EXCEPT !.phase = IF IsBAM[m] THEN "closed" ELSE "waiting"]

SendPacket(m) ==
  /\ peer[m].phase = "sending"
  /\ ReceiveDT(m, peer[m].next)
  /\ peer' = [peer EXCEPT ![m] = Advance(m)]
  /\ UNCHANGED <<claimed, ghosts>>

LosePacket(m) ==
  /\ peer[m].phase = "sending"
  /\ Fault(m)
  /\ peer' = [peer EXCEPT ![m] = Advance(m)]
  /\ UNCHANGED <<lists, claimed, clients, inbox, mixed, aborted>>

\* The sender reads the driver's frames between its own packets.
Hear(m) ==
  /\ inbox[m] # <<>>
  /\ LET f == Head(inbox[m])
     IN peer' = IF peer[m].phase # "waiting" THEN peer
                ELSE IF f.type = "EOM" THEN [peer EXCEPT ![m].phase = "acked"]
                ELSE [peer EXCEPT ![m] = [phase |-> "sending", next |-> f.next,
                        last |-> IF f.next + f.n - 1 < Packets[m]
                                   THEN f.next + f.n - 1 ELSE Packets[m]]]
  /\ inbox' = [inbox EXCEPT ![m] = Tail(@)]
  /\ UNCHANGED <<lists, claimed, clients, ghosts>>

LoseAnswer(m) ==
  /\ inbox[m] # <<>>
  /\ Fault(m)
  /\ inbox' = [inbox EXCEPT ![m] = Tail(@)]
  /\ UNCHANGED <<lists, claimed, clients, peer, mixed, aborted>>

\* A sender that will hear no more gives up, with an abort or in silence (a lost
\* abort); one that aborts an open connection counts as a fault.
Hopeless(m) ==
  /\ peer[m].phase = "waiting" /\ inbox[m] = <<>>
  /\ \A r \in rts \cup detached : r.msg = m => ~r.timer

GiveUp(m) ==
  /\ Hopeless(m)
  /\ peer' = [peer EXCEPT ![m].phase = "closed"]
  /\ UNCHANGED <<lists, claimed, clients, inbox, ghosts>>

Abort(m) ==
  /\ ~IsBAM[m] /\ Open(m)
  /\ IF Hopeless(m) THEN UNCHANGED <<faults, room>> ELSE Fault(m)
  /\ peer' = [peer EXCEPT ![m].phase = "closed"]
  /\ ReceiveAbort(m)
  /\ UNCHANGED <<claimed, mixed>>

(***************************************************************************)
Init ==
  /\ bam = {} /\ rts = {} /\ detached = {}
  /\ claimed = Addresses
  /\ delivered = {} /\ dropped = {}
  /\ peer = [m \in Messages |-> [phase |-> "unsent", next |-> 1, last |-> 0]]
  /\ inbox = [m \in Messages |-> <<>>]
  /\ faults = [m \in Messages |-> 0] /\ room = MaxFaults
  /\ mixed = {} /\ aborted = {}

TimeOut ==
  \/ \E r \in bam : TimeOutBAM(r)
  \/ \E r \in rts : TimeOutRTSCTS(r)
  \/ \E r \in detached : TimeOutDetached(r)

Next ==
  \/ \E m \in Messages :
       \/ Announce(m) \/ SendPacket(m) \/ LosePacket(m)
       \/ Hear(m) \/ LoseAnswer(m)
       \/ GiveUp(m) \/ Abort(m)
  \/ \E a \in Addresses : LoseClaim(a) \/ Disconnect(a)
  \/ TimeOut

\* The nodes answer, and a timer that runs expires unless it is stopped or
\* started again first.
Fairness ==
  \A m \in Connections :
    /\ WF_vars(SendPacket(m)) /\ WF_vars(Hear(m))
    /\ WF_vars(\E r \in rts : r.msg = m /\ Quiet(m) /\ TimeOutRTSCTS(r))

Spec == Init /\ [][Next]_vars /\ Fairness

(***************************************************************************)
(* Properties.                                                             *)
(***************************************************************************)
Delivered(m) == \E d \in delivered : d.msg = m
HandedOver(m) == Delivered(m) \/ m \in dropped

\* A client gets each message as it was sent, whatever was lost, repeated or
\* late, unless its connection overlapped another one from the same address.
\* (A receiver tells packets apart by their source and number alone, so then it
\* may not: a broadcast that lost a packet takes it from the next broadcast.)
Intact ==
  \A d \in delivered :
    d.msg \notin mixed => \A k \in DOMAIN d.got : d.got[k] = d.msg

\* A sender is told that its message has arrived only once all of it has been put
\* together and handed over (UpdateData's EndOfMsgAck).  That is no promise that a
\* client has it: ClientJ1939ReadMsg may have dropped it, and nobody is told.
AcknowledgedIsHandedOver ==
  \A m \in Messages :
    peer[m].phase = "acked" \/ Contains(inbox[m], EndOfMsgAck) => HandedOver(m)

\* The windows after the second one are only asked for by a timer, of which
\* there are NumRetries in all.
Windows(m) == (Packets[m] + Window[m] - 1) \div Window[m]
Budget(m) ==
  NumRetries - faults[m] - IF Windows(m) > 2 THEN Windows(m) - 2 ELSE 0

Undisturbed(m) == Budget(m) >= 0 /\ m \notin mixed \cup aborted

\* Once the driver has accepted a connection its message is handed over, as long
\* as the timer's retries cover the losses and the windows nobody else asks for,
\* even if its client has gone in the meantime.
Recovered ==
  \A m \in Connections : Listens(m) ~> (HandedOver(m) \/ ~Undisturbed(m))
==============================================================================
