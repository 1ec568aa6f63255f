----------------------------- MODULE SerialPort -----------------------------
(***************************************************************************)
(* The driver of the host's serial port (src/src/serial.c) on its queues   *)
(* (src/src/queue.c): packets that the main loop transmits, bytes that it  *)
(* takes out of the receive queue one at a time, the interrupt handler     *)
(* between the queues and the UART, and the commands that wait for an      *)
(* answer to be out before they change the port's settings or reset the    *)
(* firmware.                                                               *)
(*                                                                         *)
(* The UART goes on by itself.  The handler looks at its status again and  *)
(* again, and bytes arrive in between; the main loop goes on only when no  *)
(* interrupt is pending.  Bytes are numbered.  wire, accepted, arrived,    *)
(* got and intact are history.                                             *)
(***************************************************************************)
EXTENDS Integers, Sequences, CircleQueue
LOCAL INSTANCE Functions

CONSTANTS
  FIFO,         \* bytes that the UART holds in each direction
  Lengths,      \* lengths of packets
  MaxTransmits, \* bound: packets
  MaxArrived,   \* bound: bytes that arrive
  MaxErrors,    \* bound: bytes that arrive with an error
  MaxChanges    \* bound: commands that wait for their answer to be out

ASSUME UARTAssumption ==
  /\ FIFO \in Nat /\ FIFO > 1
  /\ Lengths \subseteq Nat \ {0}

VARIABLES
  txQueue, txFifo,   \* what waits to be transmitted, in the queue and the UART
  TxHalfEmptyIE,
  rxQueue,           \* the ring: head, tail and data
  rxFifo,            \* what the UART has received
  TimeoutNotEmpty, OverrunError,  \* of the UART's status
  isr,               \* the next look of HandleComIRQ, or idle
  pc,                \* the main loop: loop, copy, advance, wait, stopped
  left,              \* bytes DequeueBuf has still to copy
  packets, errors, changes,       \* counters for the bounds
  wire, accepted,    \* bytes transmitted, and those of the packets accepted
  arrived, got,      \* number of bytes that arrived, and those taken out
  intact             \* nothing has gone wrong with a byte that arrived

txVars   == <<txQueue, txFifo, TxHalfEmptyIE, wire, accepted, packets>>
rxVars   == <<rxFifo, TimeoutNotEmpty, OverrunError>>
pastVars == <<arrived, got, intact, errors, changes>>
portVars == <<txVars, rxQueue, rxVars, isr, pc, left, pastVars>>

Half == FIFO \div 2

-------------------------------------------------------------------------------
\* The queue to transmit is handled with interrupts off and stands as the sequence
\* of its bytes.  The receive queue is shared, and stands as the ring that it is.
QueueSpaceAvailableCount == (QUEUE_SIZE - 1) - Len(txQueue)

-------------------------------------------------------------------------------
InitializePort ==
  /\ txQueue = <<>> /\ txFifo = <<>> /\ TxHalfEmptyIE = FALSE
  /\ rxQueue = InitializedQueue
  /\ rxFifo = <<>> /\ TimeoutNotEmpty = FALSE /\ OverrunError = FALSE
  /\ isr = "idle" /\ pc = "loop" /\ left = 0
  /\ packets = 0 /\ errors = 0 /\ changes = 0
  /\ wire = <<>> /\ accepted = <<>> /\ arrived = 0 /\ got = <<>> /\ intact = TRUE

-------------------------------------------------------------------------------
(***************************************************************************)
(* The UART.  A byte that arrives with an error is 0; one that arrives     *)
(* when there is no room is lost.                                          *)
(***************************************************************************)
TransmitsByte ==
  /\ pc # "stopped" /\ txFifo # <<>>
  /\ wire' = Append(wire, Head(txFifo))
  /\ txFifo' = Tail(txFifo)
  /\ UNCHANGED <<txQueue, TxHalfEmptyIE, accepted, packets, rxQueue, rxVars, isr,
                 pc, left, pastVars>>

ReceivesByte(bad) ==
  /\ pc # "stopped" /\ arrived < MaxArrived
  /\ bad => errors < MaxErrors
  /\ arrived' = arrived + 1
  /\ errors' = errors + (IF bad THEN 1 ELSE 0)
  /\ IF Len(rxFifo) < FIFO
       THEN /\ rxFifo' = Append(rxFifo, IF bad THEN 0 ELSE arrived')
            /\ UNCHANGED OverrunError
       ELSE OverrunError' = TRUE /\ UNCHANGED rxFifo
  /\ intact' = (intact /\ ~bad /\ Len(rxFifo) < FIFO)
  /\ TimeoutNotEmpty' = FALSE
  /\ UNCHANGED <<txVars, rxQueue, isr, pc, left, got, changes>>

NothingArrives ==
  /\ pc # "stopped" /\ rxFifo # <<>> /\ ~TimeoutNotEmpty
  /\ TimeoutNotEmpty' = TRUE
  /\ UNCHANGED <<txVars, rxQueue, rxFifo, OverrunError, isr, pc, left, pastVars>>

UART == TransmitsByte \/ (\E bad \in BOOLEAN : ReceivesByte(bad)) \/ NothingArrives

RxHalfFull  == Len(rxFifo) >= Half
TxHalfEmpty == Len(txFifo) <= Half
TxEmpty     == txFifo = <<>>
RxError     == OverrunError \/ 0 \in Range(rxFifo)

-------------------------------------------------------------------------------
(***************************************************************************)
(* StuffTxFifo: the UART gets what it has room for, and its interrupt is   *)
(* on as long as there is more.                                            *)
(***************************************************************************)
\* Mutant: the interrupt is not switched on.
StuffTxFifoQuiet(queue) ==
  LET room == FIFO - Len(txFifo)
  IN  /\ txFifo' = txFifo \o SubSeq(queue, 1, IF Len(queue) < room THEN Len(queue) ELSE room)
      /\ txQueue' = SubSeq(queue, room + 1, Len(queue))
      /\ TxHalfEmptyIE' = (TxHalfEmptyIE /\ txQueue' # <<>>)

StuffTxFifo(queue) ==
  LET room == FIFO - Len(txFifo)
  IN  /\ txFifo' = txFifo \o SubSeq(queue, 1, IF Len(queue) < room THEN Len(queue) ELSE room)
      /\ txQueue' = SubSeq(queue, room + 1, Len(queue))
      /\ TxHalfEmptyIE' = (txQueue' # <<>>)

(***************************************************************************)
(* HandleComIRQ: what was received, what is to be transmitted, errors.     *)
(***************************************************************************)
Pending ==
  \/ RxHalfFull \/ TimeoutNotEmpty \/ RxError
  \/ TxHalfEmptyIE /\ TxHalfEmpty

LookAtReceived ==
  /\ isr = "idle" /\ Pending /\ pc # "stopped"
  /\ isr' = IF RxHalfFull \/ TimeoutNotEmpty THEN "receive" ELSE "transmit"
  /\ UNCHANGED <<txVars, rxQueue, rxVars, pc, left, pastVars>>

\* A byte at a time, as long as there is one; more may come meanwhile.
ProcessRxFifo ==
  /\ isr = "receive" /\ rxFifo # <<>>
  /\ rxQueue' = Enqueue(rxQueue, Head(rxFifo))
  /\ intact' = (intact /\ Used(rxQueue) < QUEUE_SIZE - 1)
  /\ rxFifo' = Tail(rxFifo)
  /\ TimeoutNotEmpty' = (TimeoutNotEmpty /\ rxFifo' # <<>>)
  /\ UNCHANGED <<txVars, OverrunError, isr, pc, left, arrived, got, errors, changes>>

AllReceived ==
  /\ isr = "receive" /\ rxFifo = <<>>
  /\ isr' = "transmit"
  /\ UNCHANGED <<txVars, rxQueue, rxVars, pc, left, pastVars>>

TransmitMore ==
  /\ isr = "transmit" /\ isr' = "errors"
  /\ IF TxHalfEmpty THEN StuffTxFifo(txQueue)
     ELSE UNCHANGED <<txQueue, txFifo, TxHalfEmptyIE>>
  /\ UNCHANGED <<wire, accepted, packets, rxQueue, rxVars, pc, left, pastVars>>

\* Mutant: an overrun is not cleared.
ResetRxFifoOnly ==
  /\ rxFifo' = <<>> /\ TimeoutNotEmpty' = FALSE
  /\ UNCHANGED OverrunError

\* Reading a byte and rxReset: the UART forgets all it has received.
ResetRxFifo == rxFifo' = <<>> /\ TimeoutNotEmpty' = FALSE /\ OverrunError' = FALSE

ClearErrors ==
  /\ isr = "errors" /\ isr' = "idle"
  /\ IF RxError THEN ResetRxFifo /\ intact' = FALSE ELSE UNCHANGED <<rxVars, intact>>
  /\ UNCHANGED <<txVars, rxQueue, pc, left, arrived, got, errors, changes>>

HandleComIRQ ==
  LookAtReceived \/ ProcessRxFifo \/ AllReceived \/ TransmitMore \/ ClearErrors

-------------------------------------------------------------------------------
(***************************************************************************)
(* The main loop: Transmit takes a packet whole or not at all.             *)
(***************************************************************************)
MainRuns(at) == pc = at /\ isr = "idle" /\ ~Pending

Packet(len) == [i \in 1 .. len |-> <<packets + 1, i>>]

\* Mutant: as much of the packet as fits.
TransmitWhatFits(len) ==
  LET room == QueueSpaceAvailableCount
  IN  /\ packets' = packets + 1
      /\ accepted' = accepted \o Packet(len)
      /\ StuffTxFifo(txQueue \o SubSeq(Packet(len), 1, IF len < room THEN len ELSE room))

Transmit(len) ==
  /\ packets' = packets + 1
  /\ IF QueueSpaceAvailableCount >= len
       THEN accepted' = accepted \o Packet(len) /\ StuffTxFifo(txQueue \o Packet(len))
       ELSE UNCHANGED accepted /\ StuffTxFifo(txQueue)

TransmitPacket(len) ==
  /\ MainRuns("loop") /\ packets < MaxTransmits
  /\ Transmit(len)
  /\ UNCHANGED <<wire, rxQueue, rxVars, isr, pc, left, pastVars>>

(***************************************************************************)
(* ResetQBridge, UpgradeFirmware and Change232BaudRate: the answer, then   *)
(* wait until the UART is empty, then DisablePort or SetPortSettings,      *)
(* which empties the UART in both directions.                              *)
(***************************************************************************)
AnswerAndWait(len) ==
  /\ MainRuns("loop") /\ packets < MaxTransmits /\ changes < MaxChanges
  /\ Transmit(len)
  /\ pc' = "wait" /\ changes' = changes + 1
  /\ UNCHANGED <<wire, rxQueue, rxVars, isr, left, arrived, got, intact, errors>>

\* Mutant: do not wait.
IsTxFifoEmptyNot == TRUE

IsTxFifoEmpty == TxEmpty

SetPortSettings ==
  /\ MainRuns("wait") /\ IsTxFifoEmpty
  /\ pc' = "loop"
  /\ txFifo' = <<>>
  /\ ResetRxFifo
  /\ intact' = (intact /\ rxFifo = <<>>)
  /\ UNCHANGED <<txQueue, TxHalfEmptyIE, wire, accepted, packets, rxQueue, isr,
                 left, arrived, got, errors, changes>>

DisablePort ==
  /\ MainRuns("wait") /\ IsTxFifoEmpty
  /\ pc' = "stopped"
  /\ UNCHANGED <<txVars, rxQueue, rxVars, isr, left, pastVars>>

(***************************************************************************)
(* DequeueBuf: how many bytes there are is read once; then each is copied  *)
(* before its slot is given back.                                          *)
(***************************************************************************)
DequeueBuf(n) ==
  /\ MainRuns("loop") /\ Used(rxQueue) > 0
  /\ left' = IF Used(rxQueue) < n THEN Used(rxQueue) ELSE n
  /\ pc' = "copy"
  /\ UNCHANGED <<txVars, rxQueue, rxVars, isr, pastVars>>

CopyByte ==
  /\ MainRuns("copy")
  /\ got' = Append(got, rxQueue.data[rxQueue.tail])
  /\ pc' = "advance" /\ left' = left - 1
  /\ UNCHANGED <<txVars, rxQueue, rxVars, isr, arrived, intact, errors, changes>>

\* Mutant: the last byte copied empties the ring.
AdvanceTailToHead ==
  /\ MainRuns("advance")
  /\ rxQueue' = [rxQueue EXCEPT !.tail = IF left = 0 THEN rxQueue.head ELSE Following(@)]
  /\ pc' = IF left = 0 THEN "loop" ELSE "copy"
  /\ UNCHANGED <<txVars, rxVars, isr, left, pastVars>>

AdvanceTail ==
  /\ MainRuns("advance")
  /\ rxQueue' = [rxQueue EXCEPT !.tail = Following(@)]
  /\ pc' = IF left = 0 THEN "loop" ELSE "copy"
  /\ UNCHANGED <<txVars, rxVars, isr, left, pastVars>>

Take == (\E n \in 1 .. QUEUE_SIZE : DequeueBuf(n)) \/ CopyByte \/ AdvanceTail

Main ==
  \/ \E len \in Lengths : TransmitPacket(len) \/ AnswerAndWait(len)
  \/ SetPortSettings \/ DisablePort
  \/ Take

PortNext == UART \/ HandleComIRQ \/ Main

(***************************************************************************)
(* Fairness: the UART transmits and notices that nothing arrives, the      *)
(* handler is served, and the main loop takes what there is and goes on    *)
(* waiting.  Nobody has to transmit or to send anything.                   *)
(***************************************************************************)
Fairness ==
  /\ WF_portVars(TransmitsByte) /\ WF_portVars(NothingArrives)
  /\ WF_portVars(HandleComIRQ)
  /\ WF_portVars(Take) /\ WF_portVars(SetPortSettings \/ DisablePort)
PortSpec == InitializePort /\ [][PortNext]_portVars /\ Fairness

-------------------------------------------------------------------------------
(***************************************************************************)
(* What is on the wire, in the UART and in the queue is what Transmit has  *)
(* accepted, packet after packet: no packet is transmitted in part, in     *)
(* between another, or lost to a change of the settings.                   *)
(***************************************************************************)
TransmittedWhole == wire \o txFifo \o txQueue = accepted

(***************************************************************************)
(* The bytes that DequeueBuf has copied, that wait in the ring and that    *)
(* the UART holds are in the order of their arrival, none of them twice;   *)
(* and all that arrived, unless a byte came with an error or found no      *)
(* room, in the UART or in the ring, or the settings were changed.         *)
(***************************************************************************)
Waiting  == SubSeq(Content(rxQueue), IF pc = "advance" THEN 2 ELSE 1, Used(rxQueue))
Received == got \o Waiting \o rxFifo

ReceivedInOrder ==
  /\ \A i, j \in 1 .. Len(Received) :
        i < j /\ Received[i] # 0 /\ Received[j] # 0 => Received[i] < Received[j]
  /\ intact => Received = [i \in 1 .. arrived |-> i]

(***************************************************************************)
(* Both: in either direction no byte changes its place, whatever the       *)
(* handler does while the main loop uses the queues.                       *)
(***************************************************************************)
BytesInOrder == TransmittedWhole /\ ReceivedInOrder

(***************************************************************************)
(* The settings change, or the firmware resets, only when all that was     *)
(* accepted for transmission is out, the answer to the command included    *)
(* (protocol232.c:496, "transmit a reply, then wait for the serial port to *)
(* go idle"): the wait looks at the UART only, and what still is in the    *)
(* queue must have reached it.                                             *)
(***************************************************************************)
AnswerIsOut == [][pc = "wait" /\ pc' # "wait" => wire = accepted]_portVars

(***************************************************************************)
(* The port does not stall: what was accepted is out in the end, and what  *)
(* was received is taken out of the UART and the ring.                     *)
(***************************************************************************)
NeverStalls ==
  /\ (wire # accepted) ~> (wire = accepted)
  /\ (rxFifo # <<>> \/ Used(rxQueue) > 0)
       ~> ((rxFifo = <<>> /\ Used(rxQueue) = 0) \/ pc = "stopped")

(***************************************************************************)
(* The handler always comes to an end of the causes of its interrupt, and  *)
(* the main loop to its turn (serial.c:495, "must do something to clear    *)
(* the interrupt or we will hang the system").                             *)
(***************************************************************************)
HandlerEnds == []<>((isr = "idle" /\ ~Pending) \/ pc = "stopped")

(***************************************************************************)
(* Both: neither the queues nor the main loop are ever stuck.              *)
(***************************************************************************)
NeverHangs == NeverStalls /\ HandlerEnds
===============================================================================
