-------------------------------- MODULE J1708 --------------------------------
(***************************************************************************)
(* The J1708 bus (src/src/J1708.c): the queues towards the bus and towards *)
(* the host, the main loop that starts transmissions and forwards what was *)
(* received, and the interrupt handler that hears every character on the   *)
(* bus, its own transmissions included, and finds out about collisions.    *)
(*                                                                         *)
(* Other devices follow the bus rules: they start on a bus that has been   *)
(* idle long enough, or at the same moment as the firmware, and of two     *)
(* that start together at least one gives way within two characters.  The  *)
(* handler runs as soon as its cause is there; the one exception is the    *)
(* end of a message, which the main loop may be quicker to see.            *)
(*                                                                         *)
(* Priorities and random back-off only choose how long the bus must have   *)
(* been idle; here that is any time.  Counters for statistics are left     *)
(* out.  wire, heardAlone and told are history: no guard reads them.       *)
(***************************************************************************)
EXTENDS Integers, Sequences

CONSTANTS
  J1708_TX_QUEUE_SIZE,  \* slots of j1708TxQueue (16), one of them never used
  J1708_RX_QUEUE_SIZE,  \* slots of j1708RxQueue (128), one of them never used
  Lengths,              \* lengths of the host's messages, in units
  MaxAccepted,          \* bound: messages accepted from the host
  MaxFrames,            \* bound: messages of other devices
  MaxFaults,            \* bound: characters disturbed on the bus
  MaxSettings,          \* bound: changes of j1708TransmitConfirm
  MaxResets             \* bound: calls of J1708ResetDefaultPrefs

\* A message is its first character, its second one, and if it is longer the
\* rest of it, as one unit.
FrameLength == 3

ASSUME SizeAssumption ==
  /\ J1708_TX_QUEUE_SIZE \in Nat /\ J1708_TX_QUEUE_SIZE >= 2
  /\ J1708_RX_QUEUE_SIZE \in Nat /\ J1708_RX_QUEUE_SIZE >= 2
  /\ Lengths \subseteq 2 .. FrameLength
ASSUME BoundAssumption ==
  /\ MaxAccepted \in Nat /\ MaxFrames \in Nat /\ MaxFaults \in Nat
  /\ MaxSettings \in Nat /\ MaxResets \in Nat

VARIABLES
  j1708TxQueue, j1708RxQueue,  \* the two rings
  j1708PacketReady,            \* there is something in j1708RxQueue
  j1708TransmitConfirm,        \* setting of the host
  j1708State,
  j1708CurTxMessage,           \* the message on its way
  j1708RetransmitNeeded,
  checking,                    \* j1708CheckingMIDCharForCollision
  rxQueue, rxBuffer,           \* the port: characters received, and those
                               \* the UART still holds
  txEmptyIE,                   \* TxEmpty interrupts
  sending, sent,               \* the UART is transmitting, and how far it is
  frame,                       \* the other device's message on the bus
  line,                        \* the bus: quiet, busy, or gap, the time from
                               \* a message's end to the handler hearing of it
  forwarded,                   \* ProcessJ1708RecvPacket is about to advance tail
  accepted, frames, faults, settings, resets,  \* counters for the bounds
  wire,                        \* history: what has been on the bus since it
                               \* was last quiet
  heardAlone,                  \* history: nothing of the firmware's was in the
                               \* way of the message on the bus
  told                         \* history: the newest message of each kind that
                               \* the host is told of

queueVars  == <<j1708TxQueue, j1708RxQueue, j1708PacketReady>>
stateVars  == <<j1708State, j1708CurTxMessage, j1708RetransmitNeeded, checking>>
portVars   == <<rxQueue, rxBuffer, txEmptyIE, sending>>
busVars    == <<sent, frame, line, wire, heardAlone>>
boundVars  == <<accepted, frames, faults, settings, resets>>
vars == <<queueVars, stateVars, portVars, busVars, boundVars,
          j1708TransmitConfirm, forwarded, told>>

States   == {"Passive", "Transmitting", "IgnoreRxData"}
Messages == [n : 1 .. MaxAccepted, len : Lengths, txcnfrm : BOOLEAN]
NoMessage == [n |-> 0, len |-> 2, txcnfrm |-> FALSE]
NoFrame   == [n |-> 0, at |-> 0]

\* What may be heard: unit i of a message of the firmware or of another
\* device, or something else.
Units == [of : {"own", "other", "junk"}, n : Nat, i : 0 .. FrameLength]
Own(m, i)   == [of |-> "own", n |-> m.n, i |-> i]
Other(n, i) == [of |-> "other", n |-> n, i |-> i]
Junk        == [of |-> "junk", n |-> 0, i |-> 0]

Echo(m)  == [i \in 1 .. m.len |-> Own(m, i)]
Whole(n) == [i \in 1 .. FrameLength |-> Other(n, i)]

\* What j1708RxQueue holds: messages of other devices, damaged ones (those
\* have a bad checksum), confirmations, and never the firmware's own messages.
Entries == [kind : {"frame", "echo", "damaged", "confirm"}, n : Nat]

Entry(units) ==
  LET n == Head(units).n
  IN  [kind |-> IF units = Whole(n) THEN "frame"
                ELSE IF units = Echo(j1708CurTxMessage) THEN "echo" ELSE "damaged",
       n |-> n]

-------------------------------------------------------------------------------
\* InitializeJ1708.
Init ==
  /\ j1708TxQueue = <<>> /\ j1708RxQueue = <<>> /\ j1708PacketReady = FALSE
  /\ j1708TransmitConfirm = FALSE
  /\ j1708State = "Passive" /\ j1708CurTxMessage = NoMessage
  /\ j1708RetransmitNeeded = FALSE /\ checking = -1
  /\ rxQueue = <<>> /\ rxBuffer = <<>> /\ txEmptyIE = FALSE
  /\ sending = FALSE /\ sent = 0
  /\ frame = NoFrame /\ line = "quiet"
  /\ forwarded = FALSE
  /\ accepted = 0 /\ frames = 0 /\ faults = 0 /\ settings = 0 /\ resets = 0
  /\ wire = <<>> /\ heardAlone = FALSE
  /\ told = [frame |-> 0, confirm |-> 0]

-------------------------------------------------------------------------------
\* The oldest messages of the queues, and the room left for more.
GetNextJ1708TxMessage == Head(j1708TxQueue)
GetNextJ1708RxMessage == Head(j1708RxQueue)
GetFreeJ1708TxBuffers == (J1708_TX_QUEUE_SIZE - 1) - Len(j1708TxQueue)
GetFreeJ1708RxBuffers == (J1708_RX_QUEUE_SIZE - 1) - Len(j1708RxQueue)

(***************************************************************************)
(* The host's commands: J1708AddFormattedTxPacket (which also serves       *)
(* J1708AddUnFormattedTxPacket) when there is room, EnableJ1708TxConfirm,  *)
(* and J1708ResetDefaultPrefs.  A message refused changes nothing.         *)
(***************************************************************************)
J1708AddFormattedTxPacket(len) ==
  /\ ~forwarded /\ accepted < MaxAccepted
  /\ GetFreeJ1708TxBuffers > 0
  /\ accepted' = accepted + 1
  /\ j1708TxQueue' = Append(j1708TxQueue, [n |-> accepted + 1, len |-> len,
                                           txcnfrm |-> j1708TransmitConfirm])
  /\ UNCHANGED <<j1708RxQueue, j1708PacketReady, j1708TransmitConfirm,
                 stateVars, portVars, busVars, frames, faults, settings,
                 resets, forwarded, told>>

EnableJ1708TxConfirm ==
  /\ ~forwarded /\ settings < MaxSettings
  /\ settings' = settings + 1
  /\ j1708TransmitConfirm' = ~j1708TransmitConfirm
  /\ UNCHANGED <<queueVars, stateVars, portVars, busVars, accepted, frames,
                 faults, resets, forwarded, told>>

\* A transmission is cut off.  The check of its first two characters and the
\* TxEmpty interrupt stay on.
J1708ResetDefaultPrefs ==
  /\ ~forwarded /\ resets < MaxResets
  /\ resets' = resets + 1
  /\ j1708TxQueue' = <<>> /\ j1708RxQueue' = <<>> /\ j1708PacketReady' = FALSE
  /\ j1708TransmitConfirm' = FALSE
  /\ j1708RetransmitNeeded' = FALSE
  /\ sending' = FALSE /\ sent' = 0
  /\ j1708State' = IF rxQueue # <<>> \/ rxBuffer # <<>> THEN "IgnoreRxData"
                   ELSE IF j1708State = "Transmitting" THEN "Passive" ELSE j1708State
  /\ heardAlone' = FALSE
  /\ UNCHANGED <<j1708CurTxMessage, checking, rxQueue, rxBuffer, txEmptyIE,
                 frame, line, wire, accepted, frames, faults, settings,
                 forwarded, told>>

-------------------------------------------------------------------------------
(***************************************************************************)
(* j1708RxQueue: what it has no room for is lost.                          *)
(***************************************************************************)
RxQueueFull == GetFreeJ1708RxBuffers = 0

\* Mutant: the flag is not raised.
QueueReceivedNoFlag(e) ==
  IF RxQueueFull THEN UNCHANGED <<j1708RxQueue, j1708PacketReady>>
  ELSE j1708RxQueue' = Append(j1708RxQueue, e) /\ UNCHANGED j1708PacketReady

QueueReceived(e) ==
  IF RxQueueFull THEN UNCHANGED <<j1708RxQueue, j1708PacketReady>>
  ELSE /\ j1708RxQueue' = Append(j1708RxQueue, e)
       /\ j1708PacketReady' = TRUE

Received == rxQueue \o rxBuffer
ClearReceived == rxQueue' = <<>> /\ rxBuffer' = <<>>

(***************************************************************************)
(* ProcessJ1708TransmitQueue, when StartJ1708Transmit finds the bus idle.  *)
(* Interrupts are off from there on, so a message whose end the handler    *)
(* has not taken yet is taken here (handle_delayed_j1708_com_irq).         *)
(***************************************************************************)
\* Mutant: the message that just ended is not taken.
HandleDelayedNothing == UNCHANGED <<rxQueue, rxBuffer, j1708RxQueue, j1708PacketReady>>

HandleDelayed ==
  /\ ClearReceived
  /\ IF j1708State = "IgnoreRxData" \/ Received = <<>>
       THEN UNCHANGED <<j1708RxQueue, j1708PacketReady>>
       ELSE QueueReceived(Entry(Received))

StartJ1708Transmit ==
  /\ ~forwarded
  /\ line \in {"quiet", "gap"} /\ ~txEmptyIE
  /\ HandleDelayed
  /\ j1708State' = "Transmitting" /\ checking' = 0
  /\ txEmptyIE' = TRUE /\ sending' = TRUE /\ sent' = 0
  /\ line' = "busy" /\ wire' = <<>> /\ heardAlone' = FALSE
  /\ UNCHANGED <<j1708TransmitConfirm, frame, boundVars, forwarded, told>>

\* Mutant: the message is retransmitted for ever.
RetransmitAgain ==
  /\ j1708RetransmitNeeded
  /\ StartJ1708Transmit
  /\ UNCHANGED <<j1708RetransmitNeeded, j1708CurTxMessage, j1708TxQueue>>

Retransmit ==
  /\ j1708RetransmitNeeded
  /\ StartJ1708Transmit
  /\ j1708RetransmitNeeded' = FALSE
  /\ UNCHANGED <<j1708CurTxMessage, j1708TxQueue>>

TransmitNext ==
  /\ ~j1708RetransmitNeeded /\ j1708TxQueue # <<>>
  /\ StartJ1708Transmit
  /\ j1708CurTxMessage' = GetNextJ1708TxMessage
  /\ j1708TxQueue' = Tail(j1708TxQueue)
  /\ UNCHANGED j1708RetransmitNeeded

-------------------------------------------------------------------------------
(***************************************************************************)
(* ProcessJ1708RecvPacket.  The handler may queue more between forwarding  *)
(* the message at tail and advancing tail.  A message that the host's      *)
(* queue has no room for stays, a confirmation is lost; a message that the *)
(* MID filter holds back is dropped.                                       *)
(***************************************************************************)
Tell(kind, n) == told' = [told EXCEPT ![kind] = n]

ForwardConfirm(e) ==
  /\ e.kind = "confirm"
  /\ UNCHANGED told \/ (j1708TransmitConfirm /\ Tell("confirm", e.n))

DropBadChecksum(e) ==
  /\ e.kind = "damaged"
  /\ UNCHANGED told

ForwardMessage(e) ==
  /\ e.kind \in {"frame", "echo"}
  /\ UNCHANGED told \/ Tell("frame", e.n)

ProcessJ1708RecvPacket ==
  /\ ~forwarded /\ j1708PacketReady /\ j1708RxQueue # <<>>
  /\ \/ ForwardConfirm(GetNextJ1708RxMessage)
     \/ DropBadChecksum(GetNextJ1708RxMessage)
     \/ ForwardMessage(GetNextJ1708RxMessage)
  /\ forwarded' = TRUE
  /\ UNCHANGED <<queueVars, stateVars, portVars, busVars, boundVars,
                 j1708TransmitConfirm>>

AdvanceTail ==
  /\ forwarded /\ forwarded' = FALSE
  /\ j1708RxQueue' = Tail(j1708RxQueue)
  /\ j1708PacketReady' = (j1708PacketReady /\ Tail(j1708RxQueue) # <<>>)
  /\ UNCHANGED <<j1708TxQueue, stateVars, portVars, busVars, boundVars,
                 j1708TransmitConfirm, told>>

-------------------------------------------------------------------------------
(***************************************************************************)
(* J1708ComIRQHandle, one operator per cause.  First a character u: while  *)
(* the first two characters of a transmission are checked it is compared,  *)
(* and in the right place it is the same character; a check that was left  *)
(* on may find any character to be the one it looks for.                   *)
(***************************************************************************)
\* Mutant: the transmission that collided is not repeated.
EnterCollisionStateForgets ==
  /\ j1708State' = "IgnoreRxData" /\ checking' = -1
  /\ sending' = FALSE
  /\ UNCHANGED j1708RetransmitNeeded

EnterCollisionState ==
  /\ j1708RetransmitNeeded' = (j1708RetransmitNeeded \/ j1708State = "Transmitting")
  /\ j1708State' = "IgnoreRxData" /\ checking' = -1
  /\ sending' = FALSE

MoreToSend == sending /\ sent + 1 < j1708CurTxMessage.len

CharacterMatches(u) ==
  /\ checking # -1
  /\ u = Own(j1708CurTxMessage, checking + 1) \/ ~sending
  /\ rxQueue' = Append(rxQueue, u)
  /\ checking' = IF checking = 1 THEN -1 ELSE checking + 1
  /\ sending' = MoreToSend
  /\ UNCHANGED <<rxBuffer, j1708State, j1708RetransmitNeeded>>

CharacterDiffers(u) ==
  /\ checking # -1
  /\ u # Own(j1708CurTxMessage, checking + 1)
  /\ EnterCollisionState
  /\ ClearReceived

\* Not checked: the UART keeps it, or interrupts in the rest of the message
\* because it is half full, and ProcessRxFifo takes what it holds.
CharacterKept(u) ==
  /\ checking = -1
  /\ \/ rxBuffer' = Append(rxBuffer, u) /\ UNCHANGED rxQueue
     \/ u.i = FrameLength /\ rxQueue' = Append(Received, u) /\ rxBuffer' = <<>>
  /\ sending' = MoreToSend
  /\ UNCHANGED <<checking, j1708State, j1708RetransmitNeeded>>

Character(u) == CharacterMatches(u) \/ CharacterDiffers(u) \/ CharacterKept(u)

FramingError ==
  /\ ClearReceived
  /\ IF j1708State = "Transmitting" THEN EnterCollisionState
     ELSE /\ sending' = FALSE
          /\ UNCHANGED <<j1708State, j1708RetransmitNeeded, checking>>

(***************************************************************************)
(* The end of a message (myj1708PacketReady).  Of a transmission all that  *)
(* was heard must be what was sent.                                        *)
(***************************************************************************)
\* Mutant: what was heard is not compared.
TransmissionEndsUnchecked(heard) ==
  /\ ClearReceived
  /\ j1708State' = "Passive"
  /\ UNCHANGED <<j1708RetransmitNeeded, checking>>
  /\ IF j1708CurTxMessage.txcnfrm
       THEN QueueReceived([kind |-> "confirm", n |-> j1708CurTxMessage.n])
       ELSE UNCHANGED <<j1708RxQueue, j1708PacketReady>>

TransmissionEnds(heard) ==
  /\ ClearReceived
  /\ IF heard = Echo(j1708CurTxMessage)
       THEN /\ j1708State' = "Passive"
            /\ UNCHANGED <<j1708RetransmitNeeded, checking>>
            /\ IF j1708CurTxMessage.txcnfrm
                 THEN QueueReceived([kind |-> "confirm", n |-> j1708CurTxMessage.n])
                 ELSE UNCHANGED <<j1708RxQueue, j1708PacketReady>>
       ELSE /\ j1708State' = "IgnoreRxData" /\ checking' = -1
            /\ j1708RetransmitNeeded' = TRUE
            /\ UNCHANGED <<j1708RxQueue, j1708PacketReady>>

\* Mutant: the state to ignore what is heard is not left.
NothingEndsStuck ==
  /\ ClearReceived
  /\ UNCHANGED <<j1708State, j1708RetransmitNeeded, checking, j1708RxQueue,
                 j1708PacketReady>>

NothingEnds ==
  /\ ClearReceived
  /\ j1708State' = "Passive"
  /\ UNCHANGED <<j1708RetransmitNeeded, checking, j1708RxQueue, j1708PacketReady>>

\* Mutant: the firmware's own message is taken for another device's.
MessageEndsAnyones(queued, rest) ==
  IF queued = <<>> \/ j1708State = "IgnoreRxData" THEN NothingEnds
  ELSE /\ rxQueue' = <<>> /\ rxBuffer' = rest
       /\ QueueReceived(Entry(queued))
       /\ j1708State' = "Passive"
       /\ UNCHANGED <<j1708RetransmitNeeded, checking>>

MessageEnds(queued, rest) ==
  IF queued = <<>> \/ j1708State = "IgnoreRxData" THEN NothingEnds
  ELSE IF j1708State = "Transmitting" THEN TransmissionEnds(queued \o rest)
  ELSE /\ rxQueue' = <<>> /\ rxBuffer' = rest
       /\ QueueReceived(Entry(queued))
       /\ UNCHANGED <<j1708State, j1708RetransmitNeeded, checking>>

-------------------------------------------------------------------------------
(***************************************************************************)
(* The bus, and the interrupts that follow from it.  After a character the *)
(* bus is busy if a device goes on, or if the firmware has cut its own     *)
(* transmission off, of which a fragment may still be heard.               *)
(***************************************************************************)
Continues == IF frame.at + 1 = FrameLength THEN NoFrame ELSE [frame EXCEPT !.at = @ + 1]

BusAfter ==
  line' = IF sending' \/ frame' # NoFrame \/ (sending /\ j1708State' = "IgnoreRxData")
            THEN "busy" ELSE "gap"

Heard(u, more) ==
  /\ frame' = more
  /\ wire' = Append(wire, u)
  /\ sent' = IF sending' THEN sent + 1 ELSE 0
  /\ BusAfter
  /\ UNCHANGED <<queueVars, j1708CurTxMessage, txEmptyIE, j1708TransmitConfirm,
                 accepted, frames, settings, resets, forwarded, told>>

\* Another device starts on the quiet bus, or just when the firmware does.
OtherStarts ==
  /\ frames < MaxFrames /\ frame = NoFrame
  /\ line = "quiet" \/ (sending /\ sent = 0)
  /\ frames' = frames + 1
  /\ frame' = [n |-> frames + 1, at |-> 0]
  /\ line' = "busy"
  /\ wire' = <<>>
  /\ heardAlone' = (line = "quiet" /\ checking = -1)
  /\ UNCHANGED <<queueVars, stateVars, portVars, sent, accepted, faults,
                 settings, resets, j1708TransmitConfirm, forwarded, told>>

\* The firmware's transmission goes on; another device that has started with
\* it gives way, or has sent the same first character.
OwnUnit ==
  /\ sending
  /\ LET u == Own(j1708CurTxMessage, sent + 1)
     IN  /\ Character(u)
         /\ Heard(u, NoFrame) \/ (frame # NoFrame /\ sent = 0 /\ Heard(u, Continues))
  /\ UNCHANGED <<heardAlone, faults>>

\* Another device's message goes on, whatever the firmware sends.
OtherUnit ==
  /\ frame # NoFrame
  /\ Character(Other(frame.n, frame.at + 1))
  /\ Heard(Other(frame.n, frame.at + 1), Continues)
  /\ UNCHANGED <<heardAlone, faults>>

\* A character is heard damaged, with a framing error or without.
DisturbedUnit ==
  /\ sending \/ frame # NoFrame
  /\ faults < MaxFaults /\ faults' = faults + 1
  /\ Character(Junk) \/ FramingError
  /\ Heard(Junk, IF frame = NoFrame THEN NoFrame ELSE Continues)
  /\ UNCHANGED heardAlone

\* What is left of a transmission that was cut off.
CutOff == line = "busy" /\ ~sending /\ frame = NoFrame

Fragment ==
  /\ CutOff
  /\ Character(Junk)
  /\ Heard(Junk, NoFrame)
  /\ UNCHANGED <<heardAlone, faults>>

Silence ==
  /\ CutOff
  /\ line' = "gap"
  /\ UNCHANGED <<queueVars, stateVars, portVars, sent, frame, wire, heardAlone,
                 boundVars, j1708TransmitConfirm, forwarded, told>>

(***************************************************************************)
(* TxEmpty comes one bit before the last character is over.  The handler   *)
(* waits for that one, or it has been received already, or the             *)
(* transmission was cut off.                                               *)
(***************************************************************************)
LastUnit(u) ==
  /\ txEmptyIE /\ sending /\ frame = NoFrame /\ sent = j1708CurTxMessage.len - 1
  /\ TransmissionEnds(Received \o <<u>>)
  /\ sending' = FALSE /\ txEmptyIE' = FALSE
  /\ sent' = 0 /\ wire' = Append(wire, u)
  /\ line' = "gap"
  /\ UNCHANGED <<j1708TxQueue, j1708CurTxMessage, frame, heardAlone, accepted,
                 frames, settings, resets, j1708TransmitConfirm, forwarded, told>>

TxEmptyEarly ==
  \/ LastUnit(Own(j1708CurTxMessage, j1708CurTxMessage.len)) /\ UNCHANGED faults
  \/ LastUnit(Junk) /\ faults < MaxFaults /\ faults' = faults + 1

TxEmpty ==
  /\ txEmptyIE /\ ~sending
  /\ txEmptyIE' = FALSE
  /\ MessageEnds(rxQueue, rxBuffer)
  /\ UNCHANGED <<j1708TxQueue, j1708CurTxMessage, sending, busVars, boundVars,
                 j1708TransmitConfirm, forwarded, told>>

\* Ten bits of idle bus; TxEmpty was long before.
TimeoutIdle ==
  /\ line = "gap" /\ ~txEmptyIE
  /\ line' = "quiet" /\ wire' = <<>> /\ heardAlone' = FALSE
  /\ MessageEnds(Received, <<>>)
  /\ UNCHANGED <<j1708TxQueue, j1708CurTxMessage, txEmptyIE, sending, sent, frame,
                 boundVars, j1708TransmitConfirm, forwarded, told>>

-------------------------------------------------------------------------------
MainLoop == Retransmit \/ TransmitNext \/ ProcessJ1708RecvPacket \/ AdvanceTail
Bus      == OwnUnit \/ OtherUnit \/ Fragment \/ Silence
Handler  == TxEmptyEarly \/ TxEmpty \/ TimeoutIdle

Next ==
  \/ \E len \in Lengths : J1708AddFormattedTxPacket(len)
  \/ EnableJ1708TxConfirm
  \/ J1708ResetDefaultPrefs
  \/ MainLoop
  \/ Bus \/ OtherStarts \/ DisturbedUnit
  \/ Handler

Spec == Init /\ [][Next]_vars

\* The main loop runs for ever, messages on the bus come to their end, and
\* interrupts are taken.
FairSpec ==
  /\ Spec
  /\ WF_vars(Retransmit \/ TransmitNext)
  /\ WF_vars(ProcessJ1708RecvPacket) /\ WF_vars(AdvanceTail)
  /\ WF_vars(Bus) /\ WF_vars(Handler)

-------------------------------------------------------------------------------
TypeOK ==
  /\ j1708TxQueue \in Seq(Messages) /\ Len(j1708TxQueue) < J1708_TX_QUEUE_SIZE
  /\ j1708RxQueue \in Seq(Entries) /\ Len(j1708RxQueue) < J1708_RX_QUEUE_SIZE
  /\ j1708PacketReady \in BOOLEAN /\ j1708TransmitConfirm \in BOOLEAN
  /\ j1708State \in States
  /\ j1708CurTxMessage \in Messages \union {NoMessage}
  /\ j1708RetransmitNeeded \in BOOLEAN /\ checking \in {-1, 0, 1}
  /\ rxQueue \in Seq(Units) /\ rxBuffer \in Seq(Units)
  /\ txEmptyIE \in BOOLEAN /\ sending \in BOOLEAN
  /\ sent \in 0 .. FrameLength
  /\ frame \in [n : 0 .. MaxFrames, at : 0 .. FrameLength - 1]
  /\ line \in {"quiet", "busy", "gap"}
  /\ forwarded \in BOOLEAN
  /\ accepted \in 0 .. MaxAccepted /\ frames \in 0 .. MaxFrames
  /\ faults \in 0 .. MaxFaults /\ settings \in 0 .. MaxSettings
  /\ resets \in 0 .. MaxResets
  /\ wire \in Seq(Units) /\ heardAlone \in BOOLEAN /\ told \in [frame : Nat, confirm : Nat]

\* The messages accepted and not yet transmitted, oldest first.
InProgress == IF j1708State = "Transmitting" \/ j1708RetransmitNeeded
                THEN <<j1708CurTxMessage.n>> ELSE <<>>
Numbers(queue) == [i \in DOMAIN queue |-> queue[i].n]
Waiting == InProgress \o Numbers(j1708TxQueue)

(***************************************************************************)
(* The inductive strengthening: while the firmware transmits, the TxEmpty  *)
(* interrupt is still to come and what was received is what was on the     *)
(* bus; the first character is received by the check, where the handler    *)
(* looks when it asks whether there is anything.                           *)
(***************************************************************************)
TransmissionInv ==
  /\ sending => /\ j1708State = "Transmitting" /\ line = "busy"
                /\ sent < j1708CurTxMessage.len
                /\ sent = 0 => wire = <<>>
  /\ j1708State = "Transmitting" =>
       /\ txEmptyIE /\ line # "quiet" /\ ~j1708RetransmitNeeded
       /\ Received = wire
       /\ checking # -1 => rxBuffer = <<>>
       /\ rxQueue = <<>> => sending /\ checking = 0

\* A message about to be removed from j1708RxQueue is there.
ForwardedInv == forwarded => j1708RxQueue # <<>>

IInv == TypeOK /\ TransmissionInv /\ ForwardedInv

(***************************************************************************)
(* Messages are transmitted in the order they were accepted, and one is    *)
(* done with only when it has just been on the bus as a whole: through     *)
(* every collision and retransmission none is lost, except all of them by  *)
(* a reset.                                                                *)
(***************************************************************************)
LosesNone ==
  \/ Waiting' = Waiting
  \/ Waiting' = Append(Waiting, accepted')
  \/ resets' # resets /\ Waiting' = <<>>
  \/ /\ Waiting # <<>> /\ Waiting' = Tail(Waiting)
     /\ wire' = Echo(j1708CurTxMessage)

NothingLost == [][LosesNone]_vars

(***************************************************************************)
(* What the main loop takes from the queue are messages of other devices,  *)
(* damaged ones that it drops, and confirmations, and of those it tells    *)
(* the host each at most once and in order: the firmware never forwards    *)
(* its own transmission as another device's.                               *)
(***************************************************************************)
TellsNext ==
  ~forwarded /\ forwarded' =>
    LET e == Head(j1708RxQueue)
    IN  e.kind = "damaged" \/ (e.kind \in DOMAIN told /\ told[e.kind] < e.n)

ToldOnceInOrder == [][TellsNext]_vars

(***************************************************************************)
(* A message of another device that was on the bus as a whole is queued    *)
(* for the host when it is over, unless the queue is full.  Left out are   *)
(* those that met a transmission of the firmware, a reset, or a check of   *)
(* the first characters that a short message or a reset left on.           *)
(***************************************************************************)
FrameOver(n) == line = "gap" /\ line' # "gap" /\ wire = Whole(n)

Queued(n) == \/ RxQueueFull
             \/ j1708RxQueue' = Append(j1708RxQueue, [kind |-> "frame", n |-> n])

KeepsFrames == \A n \in 1 .. frames : FrameOver(n) /\ heardAlone => Queued(n)

FrameKept == [][KeepsFrames]_vars

(***************************************************************************)
(* The same of every message, also of one that the firmware gives way to:  *)
(* "get off the bus at end of this char or sooner, then take this as the   *)
(* mid".                                                                   *)
(***************************************************************************)
WinnerKept == [][\A n \in 1 .. frames : FrameOver(n) => Queued(n)]_vars

\* Every message accepted is transmitted in the end, or reset.
EventuallyTransmitted ==
  \A n \in 1 .. MaxAccepted :
    (\E i \in DOMAIN Waiting : Waiting[i] = n) ~> ~(\E i \in DOMAIN Waiting : Waiting[i] = n)

\* All that was queued for the host is forwarded in the end: no wakeup is
\* lost between the handler, which queues, and the main loop.
EventuallyForwarded == j1708RxQueue # <<>> ~> j1708RxQueue = <<>>

\* Neither queue waits for ever: the two directions do not starve each other.
NothingWaitsForEver == EventuallyTransmitted /\ EventuallyForwarded
==============================================================================
