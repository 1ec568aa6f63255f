-------------------------------- MODULE CANTx --------------------------------
(***************************************************************************)
(* The transmit side of the CAN bus (src/src/CAN.c, and the commands of    *)
(* protocol232.c that act on it).  The host's messages wait in             *)
(* CAN_tosend_queue; the main loop puts one at a time in the controller's  *)
(* message object SNDMSG; the controller transmits it when the bus lets    *)
(* it, and interrupts if a confirmation was asked for.                     *)
(*                                                                         *)
(* The transmit interrupt is taken as soon as the controller raises it,    *)
(* before the main loop's next step, so the two are one action.            *)
(*                                                                         *)
(* Messages carry a stamp n, their place in the order of acceptance.       *)
(* Stamps, bus and confirmed are history: no guard reads them.             *)
(***************************************************************************)
EXTENDS Integers, Sequences

CONSTANTS
  CAN_QUEUE_SIZE,  \* slots of CAN_tosend_queue (300), one of them never used
  MaxPktID,        \* largest message id (0xffffffef)
  MaxAccepted,     \* bound: messages accepted from the host
  MaxOthers,       \* bound: ids taken from the same counter by J1708
  MaxSettings,     \* bound: changes of a setting by the host
  MaxRecoveries,   \* bound: recovery commands of the host
  MaxFaults        \* bound: times the controller goes bus-off

ASSUME SizeAssumption ==
  /\ CAN_QUEUE_SIZE \in Nat /\ CAN_QUEUE_SIZE >= 2
  /\ MaxPktID \in Nat \ {0}
ASSUME BoundAssumption ==
  /\ MaxAccepted \in Nat /\ MaxOthers \in Nat /\ MaxSettings \in Nat
  /\ MaxRecoveries \in Nat /\ MaxFaults \in Nat

\* Of the 2^32 ids none comes round again while an older message is waiting.
ASSUME IdAssumption == MaxAccepted + MaxOthers <= MaxPktID

VARIABLES
  CAN_tosend_queue,                   \* the messages in the ring
  SNDMSG,                             \* the message object
  CANtxc,                             \* CANtxc[SNDMSG], the id to confirm
  busOff,                             \* the Init bit of the control register
  silent,                             \* silent mode: the Test and Silent bits
  CANtransmitConfirm, CANAutoRestart, \* settings of the host
  pktIDcounter,                       \* the next message id
  command, todo,                      \* recovery command in progress, and what
                                      \* is left of it
  others, settings, recoveries, faults,  \* counters for the bounds
  accepted, bus, confirmed            \* history

controllerVars == <<SNDMSG, CANtxc, busOff, silent>>
settingVars    == <<CANtransmitConfirm, CANAutoRestart>>
commandVars    == <<command, todo>>
boundVars      == <<others, settings, recoveries, faults>>
historyVars    == <<accepted, bus, confirmed>>
vars == <<CAN_tosend_queue, controllerVars, settingVars, pktIDcounter,
          commandVars, boundVars, historyVars>>

Stamps   == 1 .. MaxAccepted
Ids      == 1 .. MaxPktID
Messages == [id : Ids, n : Stamps]

\* The message object as cleared: no request, and no message to speak of.
NoMessage == [id |-> 0, n |-> 0]
Cleared   == [TxRqst |-> FALSE, TxIE |-> FALSE, msg |-> NoMessage]

\* The bits of the recovery command 'r', and the calls each of them makes.
Bits  == {"restart", "reset", "init", "clear", "stop"}
Calls == {"CANRestart", "DefaultPrefs", "ClearCANTxQueue", "DisableCANTxIP",
          "InitializeCANBusController", "InitializeCANstructs"}

-------------------------------------------------------------------------------
\* After a reset: InitializeCAN, with the settings' initial values.  J1708 may
\* have taken any number of ids before the first CAN message.
Init ==
  /\ CAN_tosend_queue = <<>>
  /\ SNDMSG = Cleared /\ CANtxc = 0
  /\ busOff = FALSE /\ silent = FALSE
  /\ CANtransmitConfirm = FALSE /\ CANAutoRestart = TRUE
  /\ pktIDcounter \in Ids
  /\ command = {} /\ todo = <<>>
  /\ others = 0 /\ settings = 0 /\ recoveries = 0 /\ faults = 0
  /\ accepted = 0 /\ bus = <<>> /\ confirmed = <<>>

\* Mutants: 0 is not skipped; the counter wraps too early.
NextPktIDZero(id)  == IF id = MaxPktID THEN 0 ELSE id + 1
NextPktIDEarly(id) == IF id >= 2 THEN 1 ELSE id + 1

\* getPktIDcounter, shared with the J1708 side.
NextPktID(id) == IF id = MaxPktID THEN 1 ELSE id + 1

J1708TakesId ==
  /\ todo = <<>> /\ others < MaxOthers
  /\ others' = others + 1
  /\ pktIDcounter' = NextPktID(pktIDcounter)
  /\ UNCHANGED <<CAN_tosend_queue, controllerVars, settingVars, commandVars,
                 settings, recoveries, faults, historyVars>>

-------------------------------------------------------------------------------
(***************************************************************************)
(* CANaddTxPacket.  A full queue refuses the message before anything else  *)
(* is looked at, and nothing changes.  In a bus fault the message is       *)
(* refused as well, and the automatic restart clears the Init bit.         *)
(***************************************************************************)
GetFreeCANtxBuffers == (CAN_QUEUE_SIZE - 1) - Len(CAN_tosend_queue)
QueueFull == GetFreeCANtxBuffers = 0

\* Mutant: a bus fault never restarts the controller.
RefuseBusFaultOnly ==
  /\ todo = <<>> /\ ~QueueFull /\ busOff
  /\ UNCHANGED vars

RefuseBusFault ==
  /\ todo = <<>> /\ ~QueueFull /\ busOff
  /\ busOff' = ~CANAutoRestart
  /\ UNCHANGED <<CAN_tosend_queue, SNDMSG, CANtxc, silent, settingVars,
                 pktIDcounter, commandVars, boundVars, historyVars>>

AcceptMessage ==
  /\ todo = <<>> /\ ~QueueFull /\ ~busOff
  /\ accepted < MaxAccepted
  /\ accepted' = accepted + 1
  /\ CAN_tosend_queue' = Append(CAN_tosend_queue, [id |-> pktIDcounter, n |-> accepted + 1])
  /\ pktIDcounter' = NextPktID(pktIDcounter)
  /\ UNCHANGED <<controllerVars, settingVars, commandVars, boundVars, bus, confirmed>>

-------------------------------------------------------------------------------
(***************************************************************************)
(* Settings: transmit confirmation, automatic restart, silent or normal    *)
(* mode.                                                                   *)
(***************************************************************************)
SetTransmitConfirm ==
  /\ CANtransmitConfirm' = ~CANtransmitConfirm
  /\ UNCHANGED <<CANAutoRestart, silent>>

SetAutoRestart ==
  /\ CANAutoRestart' = ~CANAutoRestart
  /\ UNCHANGED <<CANtransmitConfirm, silent>>

SetTestMode ==
  /\ silent' = ~silent
  /\ UNCHANGED settingVars

Setting ==
  /\ todo = <<>> /\ settings < MaxSettings
  /\ settings' = settings + 1
  /\ SetTransmitConfirm \/ SetAutoRestart \/ SetTestMode
  /\ UNCHANGED <<CAN_tosend_queue, SNDMSG, CANtxc, busOff, pktIDcounter,
                 commandVars, others, recoveries, faults, historyVars>>

-------------------------------------------------------------------------------
(***************************************************************************)
(* CANcontrol 'r', and Init232 (bit "reset" alone): the calls its bits ask *)
(* for, in this order.  The controller works on while they are made.       *)
(***************************************************************************)
CallsOf(bit) ==
  CASE bit = "restart" -> <<"CANRestart">>
    [] bit = "reset"   -> <<"DefaultPrefs", "ClearCANTxQueue", "DisableCANTxIP">>
    [] bit = "init"    -> <<"InitializeCANBusController", "InitializeCANstructs">>
    [] bit = "clear"   -> <<"ClearCANTxQueue">>
    [] bit = "stop"    -> <<"DisableCANTxIP">>

CallsIf(bit, bits) == IF bit \in bits THEN CallsOf(bit) ELSE <<>>

Program(bits) ==
  CallsIf("restart", bits) \o CallsIf("reset", bits) \o CallsIf("init", bits)
    \o CallsIf("clear", bits) \o CallsIf("stop", bits)

RecoveryCommand(bits) ==
  /\ todo = <<>> /\ bits # {}
  /\ recoveries < MaxRecoveries
  /\ recoveries' = recoveries + 1
  /\ command' = bits /\ todo' = Program(bits)
  /\ UNCHANGED <<CAN_tosend_queue, controllerVars, settingVars, pktIDcounter,
                 others, settings, faults, historyVars>>

Call(f) ==
  /\ todo # <<>> /\ Head(todo) = f
  /\ todo' = Tail(todo)
  /\ command' = IF todo' = <<>> THEN {} ELSE command
  /\ UNCHANGED <<pktIDcounter, boundVars, historyVars>>

CANRestart ==
  /\ Call("CANRestart")
  /\ busOff' = FALSE
  /\ UNCHANGED <<CAN_tosend_queue, SNDMSG, CANtxc, silent, settingVars>>

DefaultPrefs ==
  /\ Call("DefaultPrefs")
  /\ CANtransmitConfirm' = FALSE /\ CANAutoRestart' = TRUE
  /\ UNCHANGED <<CAN_tosend_queue, controllerVars>>

EmptyQueue(f) ==
  /\ Call(f)
  /\ CAN_tosend_queue' = <<>>
  /\ UNCHANGED <<controllerVars, settingVars>>

ClearCANTxQueue      == EmptyQueue("ClearCANTxQueue")
InitializeCANstructs == EmptyQueue("InitializeCANstructs")

\* The message object is cleared and the controller restarted; CANtxc stays.
DisableCANTxIP ==
  /\ Call("DisableCANTxIP")
  /\ SNDMSG' = Cleared
  /\ busOff' = FALSE
  /\ UNCHANGED <<CAN_tosend_queue, CANtxc, silent, settingVars>>

\* The Silent bit is set first, but test mode, without which it does nothing,
\* goes with the Init bit at the end.
InitializeCANBusController ==
  /\ Call("InitializeCANBusController")
  /\ SNDMSG' = Cleared /\ CANtxc' = 0
  /\ busOff' = FALSE /\ silent' = FALSE
  /\ UNCHANGED <<CAN_tosend_queue, settingVars>>

-------------------------------------------------------------------------------
(***************************************************************************)
(* ProcessCANTransmitQueue and send_CAN_message: the next message goes to  *)
(* the message object once the one before it is done with.  Whether it is  *)
(* confirmed is decided here.                                              *)
(***************************************************************************)
Load(m) ==
  /\ CAN_tosend_queue' = Tail(CAN_tosend_queue)
  /\ SNDMSG' = [TxRqst |-> TRUE, TxIE |-> CANtransmitConfirm, msg |-> m]
  /\ CANtxc' = IF CANtransmitConfirm THEN m.id ELSE 0
  /\ UNCHANGED <<busOff, silent, settingVars, pktIDcounter, commandVars,
                 boundVars, historyVars>>

\* The oldest message of the queue.
GetNextCANmessage == Head(CAN_tosend_queue)

\* Mutant: the message object is not asked whether it is free.
ProcessCANTransmitQueueAtOnce ==
  /\ todo = <<>> /\ CAN_tosend_queue # <<>>
  /\ Load(GetNextCANmessage)

ProcessCANTransmitQueue ==
  /\ todo = <<>> /\ CAN_tosend_queue # <<>> /\ ~SNDMSG.TxRqst
  /\ Load(GetNextCANmessage)

(***************************************************************************)
(* The controller has transmitted the message and another device has       *)
(* acknowledged it.  The interrupt handler takes the id to confirm from    *)
(* CANtxc; an id of 0 would send it the way of the multi-frame transfer,   *)
(* which requests the object's transmission again.                         *)
(***************************************************************************)
Confirm ==
  /\ SNDMSG' = [SNDMSG EXCEPT !.TxRqst = FALSE]
  /\ CANtxc' = 0
  /\ confirmed' = Append(confirmed, SNDMSG.msg.n)

NextFrame ==
  /\ SNDMSG' = [SNDMSG EXCEPT !.TxIE = FALSE]
  /\ UNCHANGED <<CANtxc, confirmed>>

NoInterrupt ==
  /\ SNDMSG' = [SNDMSG EXCEPT !.TxRqst = FALSE]
  /\ UNCHANGED <<CANtxc, confirmed>>

Transmitted ==
  /\ SNDMSG.TxRqst /\ ~busOff /\ ~silent
  /\ bus' = Append(bus, SNDMSG.msg.n)
  /\ IF ~SNDMSG.TxIE THEN NoInterrupt
     ELSE IF CANtxc = 0 THEN NextFrame ELSE Confirm
  /\ UNCHANGED <<CAN_tosend_queue, busOff, silent, settingVars, pktIDcounter,
                 commandVars, boundVars, accepted>>

\* The controller gives up the bus and sets Init; the request stays.
BusOff ==
  /\ ~busOff /\ ~silent /\ faults < MaxFaults
  /\ faults' = faults + 1
  /\ busOff' = TRUE
  /\ UNCHANGED <<CAN_tosend_queue, SNDMSG, CANtxc, silent, settingVars,
                 pktIDcounter, commandVars, others, settings, recoveries,
                 historyVars>>

-------------------------------------------------------------------------------
Calling ==
  \/ CANRestart
  \/ DefaultPrefs
  \/ ClearCANTxQueue
  \/ InitializeCANstructs
  \/ DisableCANTxIP
  \/ InitializeCANBusController

Next ==
  \/ J1708TakesId
  \/ RefuseBusFault
  \/ AcceptMessage
  \/ Setting
  \/ \E bits \in SUBSET Bits : RecoveryCommand(bits)
  \/ Calling
  \/ ProcessCANTransmitQueue
  \/ Transmitted
  \/ BusOff

Spec == Init /\ [][Next]_vars

\* The main loop runs for ever, a bus that is not off lets every message
\* through in the end, and the host goes on sending messages.
FairSpec ==
  /\ Spec
  /\ WF_vars(Calling) /\ WF_vars(ProcessCANTransmitQueue)
  /\ SF_vars(Transmitted) /\ SF_vars(RefuseBusFault)

-------------------------------------------------------------------------------
TypeOK ==
  /\ CAN_tosend_queue \in Seq(Messages) /\ Len(CAN_tosend_queue) < CAN_QUEUE_SIZE
  /\ SNDMSG \in [TxRqst : BOOLEAN, TxIE : BOOLEAN, msg : Messages \union {NoMessage}]
  /\ CANtxc \in 0 .. MaxPktID
  /\ busOff \in BOOLEAN /\ silent \in BOOLEAN
  /\ CANtransmitConfirm \in BOOLEAN /\ CANAutoRestart \in BOOLEAN
  /\ pktIDcounter \in Ids
  /\ command \subseteq Bits /\ todo \in Seq(Calls)
  /\ others \in 0 .. MaxOthers /\ settings \in 0 .. MaxSettings
  /\ recoveries \in 0 .. MaxRecoveries /\ faults \in 0 .. MaxFaults
  /\ accepted \in 0 .. MaxAccepted
  /\ bus \in Seq(Nat) /\ confirmed \in Seq(Nat)

\* The messages accepted and neither transmitted nor given up, oldest first.
InObject == IF SNDMSG.TxRqst THEN <<SNDMSG.msg.n>> ELSE <<>>
StampsOf(q) == [i \in 1 .. Len(q) |-> q[i].n]
Waiting == InObject \o StampsOf(CAN_tosend_queue)

(***************************************************************************)
(* The transmit side implements CANService: queue, message object, CANtxc  *)
(* and interrupts together transmit in order and once, confirm only what   *)
(* is on the bus, and lose nothing but by a recovery command.              *)
(***************************************************************************)
Service == INSTANCE CANService WITH waiting <- Waiting, recovering <- todo # <<>>

ImplementsService == Service!Spec

(***************************************************************************)
(* The inductive strengthening.  CANtxc belongs to the message in the      *)
(* object; the ids of the messages waiting are 1 .. MaxPktID behind the    *)
(* counter, older ones further; and a clearing command in progress has the *)
(* calls still ahead that empty what is not yet empty.                     *)
(***************************************************************************)
ConfirmInv ==
  SNDMSG.TxRqst => /\ SNDMSG.msg \in Messages
                   /\ CANtxc = IF SNDMSG.TxIE THEN SNDMSG.msg.id ELSE 0

Behind(id, counter) ==
  IF id < counter THEN counter - id ELSE counter - id + MaxPktID

IdsInv ==
  LET q == CAN_tosend_queue
      B(m) == Behind(m.id, pktIDcounter)
  IN  /\ \A i \in DOMAIN q : B(q[i]) <= accepted + others
      /\ \A i, j \in DOMAIN q : i < j => B(q[j]) < B(q[i])
      /\ SNDMSG.TxRqst => /\ B(SNDMSG.msg) <= accepted + others
                          /\ \A i \in DOMAIN q : B(q[i]) < B(SNDMSG.msg)

Clearing(bits) == {"clear", "stop"} \subseteq bits \/ "reset" \in bits \/ "init" \in bits

Ahead(f) == \E i \in DOMAIN todo : todo[i] = f

ClearInv ==
  todo # <<>> /\ Clearing(command) =>
    /\ CAN_tosend_queue # <<>> => Ahead("ClearCANTxQueue") \/ Ahead("InitializeCANstructs")
    /\ SNDMSG.TxRqst => Ahead("DisableCANTxIP") \/ Ahead("InitializeCANBusController")

IInv == TypeOK /\ ConfirmInv /\ IdsInv /\ ClearInv

(***************************************************************************)
(* A confirmation names the message just transmitted, and no other message *)
(* the host still waits for has that id, though ids are used again.        *)
(***************************************************************************)
ConfirmUnambiguous ==
  [][confirmed' # confirmed =>
       /\ CANtxc = SNDMSG.msg.id
       /\ \A i \in DOMAIN CAN_tosend_queue : CAN_tosend_queue[i].id # CANtxc]_vars

(***************************************************************************)
(* After a recovery command that clears the queue and stops what is being  *)
(* transmitted, resets the defaults or initialises the controller, nothing *)
(* accepted before it waits to be transmitted.                             *)
(***************************************************************************)
RecoveryClears ==
  [][todo # <<>> /\ todo' = <<>> /\ Clearing(command) => Waiting' = <<>>]_vars

(***************************************************************************)
(* A message accepted is transmitted or given up, whatever bus faults come *)
(* in between, while the controller is in normal mode and restarts by      *)
(* itself; unless the queue is full in a bus fault.                        *)
(***************************************************************************)
IsWaiting(n) == \E i \in DOMAIN Waiting : Waiting[i] = n
NoRestart == silent \/ ~CANAutoRestart \/ (busOff /\ QueueFull)

EventuallyTransmitted == \A n \in Stamps : IsWaiting(n) ~> ~IsWaiting(n) \/ NoRestart

(***************************************************************************)
(* What the protocol document says of a bus fault with automatic recovery  *)
(* on: the device begins the recovery sequence after refusing a message    *)
(* because of it.  A full queue is refused first, without the recovery,    *)
(* and then AutoRecovers does not hold.                                    *)
(***************************************************************************)
AutoRecovers == busOff /\ CANAutoRestart ~> ~busOff \/ ~CANAutoRestart
===============================================================================
