# QBridge: specifications, model checking and proofs

The QBridge is a gateway between two vehicle buses (J1708 and CAN) and a host
computer on an RS-232 line. The firmware (`src/src`) is a main loop and four
interrupt handlers on an ARM7; the host side is a driver in C#
(`qbrdge32dll_driver`), which client applications reach through an RP1210 library
(`qbrdge32dll_eVC`). A bootloader (`bootloader/src`) loads the firmware over the
same line. The serial protocol is described in
`EIA232 serial protocol to the Qbridge.docx`.

Paths below are relative to the root of the repository.

## 1. Inventory

| Component | State it keeps | Operations | What must hold |
|---|---|---|---|
| CAN receive queue (`src/CAN.c`) | `CAN_received_queue` (ring of 300), `CAN_received`, overflow flag | interrupt: queue a frame, a confirmation, a bus-off; main loop: `ProcessCANRecievePacket`; host: reset, init, clear, re-arm | every event queued reaches the host once, in order; no lost wakeup; no read of a slot being written; the loop ends |
| CAN transmit side (`src/CAN.c`, `src/protocol232.c`) | `CAN_tosend_queue`, message object 32, `CANtxc`, Init/Test bits, settings, `pktIDcounter` | `CANaddTxPacket`, `ProcessCANTransmitQueue`, transmit interrupt, recovery command `r`, settings `a`, `d`, confirm | messages go out once and in order; a confirmation is for a message on the bus and names it; recovery clears; a bus fault is recovered from |
| CAN acceptance filters (`src/CAN.c`, `src/protocol232.c`) | message objects 1..25, object 31 | set, clear, get, switch, reset | a set of filters that only commands change, although frames overwrite the objects; the first answer to a list is true |
| Host link, to the host (`src/protocol232.c`, `src/queue.c`, receiving side in `QBSerial.cs`) | `txPackets`, `packetID`, `awaiting232Ack`, fail count, last packet; host: `lastRecvPktId` | queue, transmit, time out, retransmit, give up; host: deliver, drop a duplicate, acknowledge | at most once and in order; bounded attempts; an acknowledgement means delivery; whatever is queued is sent |
| Host link, from the host (`src/protocol232.c`, `src/serial.c`) | receive buffer, `lastPacketID`, overflow reports, settings | parse, answer, dispatch | commands are carried out in order and once, answered promptly, and what was acknowledged is set |
| J1708 (`src/J1708.c`) | transmit queue (16), receive queue (128), bus state, retransmission | access by priority and idle time, echo comparison, collision, confirmation, MID filter, reset | a message is done with only if its echo was right, and repeated otherwise; messages heard are told once, in order, and never the firmware's own |
| Timers (`src/timers.c`, `src/init_arm.S`) | counter and captured edges of the hardware, `wrapCounter`, idle time of the J1708 bus | overflow interrupt, reading a time, looking for edges, the last looks before a transmission | times are true although they are read in pieces; a transmission starts on an idle bus, and an idle bus is used |
| Serial ports, byte queues (`src/serial.c`, `src/queue.c`) | FIFOs of the UART, rings of bytes | interrupt handler, `Transmit`, `DequeueBuf`, changes of the settings | packets go out whole and in order; no byte lost or swapped while there is room; an answer is out before the settings change; the handler ends |
| Main loop (`src/main.c`) | none of its own | calls the above in a fixed order for ever | never blocks |
| Bootloader (`bootloader/src`) and the tools that make and send its image (`tools`, `QBridgeFirmwareUpgradeCE`, the driver) | line buffer, flash, boot flag; the sender's place in the file | S-record line in, ACK or NAK out, erase, program, check and start the firmware | only whole firmware runs; a success that is reported is one |
| Host driver: serial protocol (`QBSerial.cs`) | transactions new, sent and pending, their timers, the initialisation | send, time out, retry, match answers and confirmations, remove | every message is answered to its client once, and truthfully |
| Host driver: J1939 transport (`J1939Transaction.cs`, `QBSerial.cs`) | receivers of broadcasts and connections, claimed addresses | announce, packet, timer, abort, lost address | what is delivered is what was sent; only that is acknowledged |
| Host driver: clients (`RP1210DllCom.cs`, `ClientIDManager.cs`, ids in `QBSerial.cs`) | table of clients, ids of notifications and of blocked sends | text commands over UDP | an id has one holder; none is lost |
| RP1210 library (`qbrdge32dll_eVC`) | connections with their transactions, received messages and events of readers; the port of the driver | API calls of several threads, a listening thread, queries to the driver | whoever waits is woken; a send is answered once, truly and in the end |
| Test programs | | | not modelled |

How they interact. The main loop (`main.c:174`) takes the host's bytes, executes
at most the packets they complete, transmits to the host, then serves J1708 and
CAN. Handlers share rings and flags with it: the CAN handler writes the receive
ring and reads `CANtxc`; the J1708 handler, at a higher priority, interrupts the
others. Both buses put packets in `txPackets`, from which one at a time goes to
the host. Messages of both buses take their ids from `pktIDcounter`.

On the host, one lock protects all of the driver's state: every handler (serial
data, client, timer) takes it and ends with `CheckSendMsgQ`, which sends the next
packet. The timers of the J1939 receivers alone do not take it. In each client
process one critical section guards the library: the threads of the application
and the thread that listens to the driver. It is kept while a query to the driver is
answered, and left while a thread waits for an event.

Hard behaviours. Interleavings of the CAN handler with the main loop, which
works on shared slots in place; commands that empty rings while handlers run;
frames damaged, delayed and repeated on the serial line, against a protocol
that does not check the id of an acknowledgement; ids that wrap at 8 and 32
bits; bus faults with a full queue; waits without a bound; message objects that
change under the commands that set them; flash that is erased before the new
firmware has arrived; in the driver, timers that run on after what they
timed has ended; and, in the library, threads that wait for events while
clients are disconnected and connected again, queries that are repeated, and a
driver that dies.

The hazards found are listed, each with its line and the properties that watch
it, in `PROJECT.json`.

## 2. Plan

The order is that of importance: what loses or forges data of a bus first, then
what carries it, then what configures it.

1. `CANRx`: the receive ring. The handler and the main loop at the grain of the
   shared accesses. **Done, proved.**
2. `HostLink`: the stop-and-wait link to the host. **Done, proved.**
3. `CANService` and `CANTx`: what the transmit side promises, and how it does it.
   **Done, proved.**
4. `J1708`: both queues, bus state, echo comparison, collisions, reset during a
   transmission. **Done, its safety proved.**
5. `Crc`, `SRecord` and `Upgrade`: the tools that make a firmware image, the programs
   that send it, the bootloader, and a power supply that fails. **Done, that only whole
   firmware runs is proved.**
6. `CANFilterService` and `CANFilters`: the set of filters that is promised, and
   the message objects it is kept in. **Done, proved.**
7. `HostCommands`: the line from the host, the parser, duplicates, answers, the
   settings. **Done, its invariants proved.**
8. `J1939Receiver`: what the driver receives by the J1939 transport. **Done, its
   safety proved.**
9. `QBSerial`: the driver's transactions, retries and initialisation, and what it
   sends by the J1939 transport. **Done, its safety proved.**
10. `RP1210Library`: the library in a client process, and the driver as it sees it.
   **Done, its safety proved.**
11. `SerialPort`: the host port at the grain of the interrupt handler's looks and the
   main loop's bytes. **Done, its safety proved.**
12. `BusTimer`: times read in pieces, and the idle J1708 bus. **Done, its safety
   proved.**

What is left: the claim of addresses in the
driver; the composition of `QBSerial` with `HostCommands` and `HostLink`, whose product is
too large for TLC at the bounds where each alone shows something.

Modules that are proved about have constants with named assumptions, one action
per operation, and no RECURSIVE operator.

## 3. Modules

### CANRx
`head`, `tail`, `CAN_messages`, `CAN_received`, `can_int_queue_overflow` are the
variables of `CAN.c`; a slot holds its source and a stamp. `QueueFromISR` is the
code the handler has three times (bus-off, frame, confirmation). The main loop
is split where the handler can get in between: `CheckReceived` reads the
flag and the source, `ForwardToHost`/`HostQueueFull`/`DropBadSource` read the
rest of the slot, `AdvanceTail` is the region with interrupts disabled.
`InitializeHead` and `InitializeTail` are the two stores of
`InitializeCANstructs`, which are not protected. `pc` is where the main loop is,
`todo` what is left of a host command. `fate`, `arrived`, `lastSent`, `dirty`
are history variables.

`dirty` marks that the ring was emptied with the flag raised. From then on the
code forwards slots it should not (`CAN.c:967` looks at the flag alone), which is
why `ClearedIgnored` in the module, the protocol document's words for the clearing
command, does not hold; the order properties are stated for executions in which
this has not happened. Progress (`EventuallyDrained`) and the wakeup
(`NoLostWakeup`) hold in all of them.

### HostLink
`txPackets` is a sequence of packets, with the byte ring's limits kept in
`Fits` and `ValidBytes`. `QueueTx232Packet` is the whole call, up to the
`Transmit232IfReady` it ends with; `Transmit232IfReady` is also called by the
main loop. The two lines `toHost` and `toQBridge` hold frames. The host is
modelled from `ProcessValidQBPacket`: `HostDelivers`, `HostDropsDuplicate`
(bus packets), `HostConfirms` (no duplicate check), `HostIgnores` (CAN bus error:
the driver does not answer it). The faults of the line are the actions of
`LineFails`; which of them may happen is the constant `Disturbances`, and a time
out is possible before the answer arrives if it has "late".

`prompt` is a history variable: it stays true as long as no time out has come with a packet
or its answer still on the way, and the host has sent nothing but one answer a packet.
Nothing reads it but properties.

Three things the model shows and no property repeats. An acknowledgement that comes
after the last time out ends the wait for the next packet, as its id is not
looked at: `AckedWasDelivered` is about histories in which the host was prompt. Packets
refused for want of room use up ids, so that after enough of them a new packet is
taken for a duplicate: `DuplicateWasSeen` is about histories in which no more packets were queued
than there are ids (`Prompt`). A bus-error notification that is alone in the queue is given up after three
attempts, because the driver does not answer it.

### CANService and CANTx
`CANService` is what is promised: a queue of accepted messages, the bus, the
confirmations. `CANTx` is the code: the ring as a sequence (its length kept
below `CAN_QUEUE_SIZE`), the message object `SNDMSG` with its request and
interrupt bits, `CANtxc`, and the control register's bits. Recovery commands are
a sequence of calls in the order of `parseCANcontrol`, one action each, between
which the controller transmits and interrupts. The refinement takes
`waiting` for the message in the object followed by those in the ring.

`InitializeCANBusController` sets the Silent bit and then writes the control
register without the Test bit (`CAN.c:98` and `CAN.c:125`); as test mode is
"enable when set" (`common/str712.h:325`) the controller is in normal mode
afterwards, although the comment says "Bootup in silent mode". The model has it
so. The automatic restart is tried when a message is queued, after the test for
room (`CAN.c:907`): with a full queue it is not reached, and the bus stays off
until a command. `AutoRecovers`, which says what the protocol document does (recovery
begins once the fault is reported), does not hold for that reason.

The transmit interrupt is taken with the completion of the transmission, in one
action: the main loop does nothing with the object or `CANtxc` in between, since
interrupts are not disabled there. What the handler queues for the host is the
business of `CANRx`.

### CANFilterService and CANFilters
`CANFilterService` is what is promised: a bounded set of filters, changed by
commands alone, and a frame is heard if it passes one. In `CANFilters` there are
only message objects, and a frame that passes an object overwrites the
object's identifier; under the mask it is still what was set, and everything
that looks at an object lays the mask over it. Words are sets of bits, so that
`&` is an intersection; widths are constants. A list of filters is worked
through one filter a step, so that frames come in between (`ReceiveFrame`). The
refinement takes for the set of filters what the objects hold under their masks.

A list may be answered more than once: each filter for which there is no object
is answered at once, and the list is acknowledged at its end. `FirstAnswerTells`
says that a host that goes by the first answer is not deceived.

### HostCommands
The line from the host, byte by byte: a byte is a number, a command's letter or a
checksum byte, which stands for what it was taken over. `ByteArrives` is the
interrupt, `TakeTwo` .. `Process232Packet` are the turns of `ProcessReceived232Data`,
`ReceiveTimeout` is `SERIAL_RECV_TIMEOUT`. `Process` is the table of commands
(`ProcessReceived232Packet` and what it calls) as a function from a command and the
settings to an answer and new settings. The baud rate is a setting as well: bytes
and answers at the wrong rate are lost. A CAN control command is told apart by its first
byte; those that concern filters, recovery, rate and test modes are answered here and
leave the settings alone, except `r` with bit 1, which sets them back. J1708's and
CAN's transmit confirmations are two settings: one command (`EnableJ1708TxConfirm`) gives both
their value, and `CANResetDefaultPrefs` ends CAN's alone (`CAN.c:781`), of which
`RP1210DllCom.cs:992` reminds the driver. A host that takes them for one is wrong after a reset
(`CANResetDefaultPrefsConfirms`, which `SettingsAgree` refutes). Requests for
information (`GetInfo` and the older `InfoReq`), `MdmReset` and the raw J1708 command are
answered, according to their lengths and values, and leave the settings alone. `UpgradeFirmware`
(see `Upgrade`) and `MiscControl`, which acts on pins, are not given
(`CommandsAssumption`). The rates there are
and those refused come from `BaudRateTable`. `host` is one that repeats commands under
the same id (the protocol document) or a new one (the driver); `mirror` is what
it knows of the settings from the answers.

Answers are subtler than the protocol document has it. ACK_OVERFLOW_OCCURRED is
sent besides the command's own acknowledgement, under the command's id, whereas
the document has it end the command. What is purged after a time out is not
answered. A command that was refused, whose refusal is lost, is answered as a
duplicate when it is repeated; so is the first command of a restarted host whose
id is the last one the firmware saw. A packet that waits in the buffer behind
another one is processed when a further byte comes in time. An
acknowledgement for which the transmit queue has no room is dropped.
`AnsweredInSilence` says when none of this is in the way.

### J1708
`j1708TxQueue`, `j1708RxQueue`, `j1708PacketReady`, `j1708TransmitConfirm`,
`j1708State`, `j1708CurTxMessage`, `j1708RetransmitNeeded` are the variables of
`J1708.c`, `checking` is `j1708CheckingMIDCharForCollision`; `rxQueue` is the
port's queue, `rxBuffer` what the UART still holds, `txEmptyIE` the interrupt
enable, `sending` and `sent` how far the UART is. A message is three units at
most: its first two characters, which the handler compares one by one, and the
rest. A unit says whose it is; two units are the same if the characters are, so
whether the checksum of what was queued is right is whether it is a message as
sent (`Entry`).

Actions of the main loop: `Retransmit` and `TransmitNext` (the two branches of
`ProcessJ1708TransmitQueue`, with the assembler routine that looks at the bus a
last time and `handle_delayed_j1708_com_irq`), `ProcessJ1708RecvPacket` and
`AdvanceTail` (the handler may come between them). Actions of the bus, each with
the run of the handler it causes: `OwnUnit`, `OtherUnit`, `DisturbedUnit`,
`Fragment`; `OtherStarts` and `Silence` cause none. Two causes have actions of
their own because the code distinguishes when they come: `TxEmpty` (and
`TxEmptyEarly`, in which the handler waits for the last character) and
`TimeoutIdle`, before which the main loop may already have started (`line` is
"gap").

What is taken for granted of the bus. Time is left out: the idle times by
priority and the random ones after a collision only say how long to wait, and
here that is any time. One other device is on the bus at a time; it starts on a
quiet bus or at the moment the firmware does, and of two that start together one
gives way within two characters. The firmware hears every character it sends.
The other device may go on when the firmware does, and the firmware's aborted
character may leave a fragment.

A message of two characters: `TxEmpty` is served before the second character was
compared, so the check and `RxBufNotEmptyIE` stay on, and the next message of
another device is compared with the one that was sent, differs and is ignored
(`J1708.c:409` is not reached, `J1708.c:388` is). No document speaks of this case;
`FrameKept` leaves it out through `heardAlone`, and so it does with what a reset
left on. The message of the winner of a collision is lost to the host when the
firmware's own message was the one to give way: `FrameKept` leaves that out too.
Lengths of one character, which only the raw command allows, are not modelled.

### SRecord and Upgrade
`SRecord` has the tools as functions from files to files: `SrecCrc` (what `sreccrc`
reads, fills in and writes) and the conversion to Intel hex. A line is a record
with the defect it may have; memory is a function from addresses to tagged
bytes; a checksum or CRC stands for the bytes it was taken over, so two of
different bytes differ. `Upgrade` has the flash (with pages that were erased or
not), the bootloader (`Boot`, `BootloaderLine`, `BootloaderSplits`: a line whose
beginning was lost), the firmware as far as it goes to the bootloader
(`FirmwareReads`), and two senders: the tool, which repeats a line that is not
acknowledged (`ToolProbes` .. `ToolReads`), and the driver, which takes any answer for
one (`DriverGreets`, `DriverParses`, `DriverTimesOut`) and so reports success
without it; `DoneMeansFlashed` is about the tool. Power fails between any two
steps (`PowerFails`); the flash's cells, which the repository does not have, are
external. The driver's upgrade is in the source with its caller commented out.

`crc` makes a binary file of the same image (`SRecord`'s `BinMagic` and what follows). It
writes the magic word `CrC!` (`crc.c:152`), as `common.h:83` has it, whereas what `bootKRNL`
looks for, `crcROMMagicL` (`common.h:74`), is `!CrC` in memory, which is what the firmware's
header has (`main.c:84`) and `sreccrc` keeps: a device with `crc`'s file in its flash would not
start it. The upgrade programs send the file of `sreccrc`. `BinarySame` therefore compares everything but the magic.
`UpgradeFiles` has what is true of the files: `FilesAgree` and its parts.

Where the other modules take a CRC for the bytes it was made of, `Crc` has the number: the
table `crc.h` makes itself, the 256 literals of `crc.c`, both loops over the data, and as a
reference the remainder of the polynomial division. `FilesAgree` includes `CrcsAgree` (all
of them give the same number) and `BurstsAreSeen` (damage of up to 16 bits in a row never
leaves it as it was), which do not depend on the state and are evaluated before a file is made.

### J1939Receiver
`bam` and `rts` are the lists of receivers, a receiver is its message's header,
the packets it has, its counters and whether its timer runs; `peer` is the
sending node, `inbox` what is on its way to it. `Announce`, `SendPacket`, `Abort` are
`J1939PktRecv` for the frame concerned; `TimeOutBAM`, `TimeOutRTSCTS` the callbacks;
`TimeOutDetached` those of receivers that were taken out of the list while their
timer ran. A packet is the message it comes from and its number, which is what
makes visible that the code matches packets by source and number alone:
`Intact` excepts messages that overlap another one of the same source (`mixed`).

What is complete goes to `ClientJ1939ReadMsg` and is then `delivered` or `dropped`: the
client may be gone, with another one in its slot, it may receive nothing, or none of its
filters lets the message through (`QBSerial.cs:1408`, `ClientIDManager.cs:157`). Which it
is may change between any two frames, and so is chosen. For a connection the EndOfMsgAck
is sent whatever comes of the message (`J1939Transaction.cs:580`): the sending node is told that
the message was put together and handed over (`AcknowledgedIsHandedOver`), and not that a
client has it, which is not true of the code. A client that disconnects (`Disconnect`) gives
up its address, and its receivers go on without it.

The code is more limited than a reader may expect. The next window is asked for by
the packet that ends one only the first time; each further window needs the timer,
which asks twice in all, so that more than four windows never arrive
(`Budget`). An abort ends all connections of the client it is addressed to, from
whatever node it comes. A receiver that has become invalid (its address was
lost) stays in the list until the next packet, and may still deliver, against the
comment at `J1939Transaction.cs:530`. The timer of a broadcast is 8000 ms where a
comment has 750. `SendConnectionAbort` has no caller.

### QBSerial
`port` has the three lists (`new`, `sent`, `pend`) and for each transaction its
frame, packet id, retries and timers; `line` is what the firmware has
answered and the driver not yet read; `firmware` is whether confirmations are on
and what was transmitted. Every handler holds the driver's lock and ends with
`CheckSendMsgQ`, so each is one action: `AddSendMsg`, `ThreadRead` (an answer, a
confirmation, a frame of the bus), `ComReplyTimeOut`, `BusTimeOut`, `Hello`. A send that
`AddSendJ1939Msg` refuses never becomes a transaction (`QBSerial.cs:1705`); all it does here is the call of
`CheckSendMsgQ`, which is `Hello`. Faults
are `LoseAnswer`, refusals, `RepeatConfirm`, `FirmwareRestarts` and timers that expire
although the answer is on its way, `room` in all; the more messages are given, the
fewer there may be (`Faults`). The firmware here is what
`HostCommands` and `HostLink` have in detail.

`spoilt` names three defects, each of which TLC shows when its exception is taken
out of the property: a transaction refused, ended by the receiver or by the
bus's timer leaves its reply timer running, which later sends it again or
answers a second time ("timer"); a confirmation that is repeated confirms the
next frame ("repeated"); and an end-of-message that arrives while its transaction
is in `sent` and another is in `new` makes the handler throw
(`QBSerial.cs:1321`) and leaves the port blocked ("thrown"). The removal of a
transaction by packet id 0 may remove another one (`Victims`), whose own timer
still answers it: `EventuallyAnswered` needs no exception for it. That takes three
faults with two messages, one more than `MCFaults` has; with `Faults` = <<4, 3, 1>> it
happens and the four properties hold as well (1.5 million states). A step of the
initialisation that times out is not removed from `sent` and blocks the port as
well (`Blocked`). The sender of a connection sends one packet more than it was asked
for.

`CheckJ1939Pending` goes through the pending list and lets each transaction go on for
which nothing is under way, those it has just let go on included. The model says
which ones these are (`Admitted`): those that wait for nothing under way, nor for one in
front of them in the list. The two are the same because to be of one route and
manner is an equivalence.

### RP1210Library
`connections` are the library's, with their list of transactions, the number of
messages received and the list of readers' handles; `th` says of each thread of the
application where it is in its call. "query": it has the critical section and waits
for the driver (`StartQuery`, `SendAgain`, `QueryFails`, and `TakesAnswer`, which goes
on to the end of the call or to its wait); "waiting": for its event; "woken": it
has to get the critical section again (`ReadReturns`, `SendReturns`); "window" and
"named": a blocking read between `cs.Pause()` and its wait (`rp1210a_impl.cpp:260`), where
nothing protects `readEventId` and the list. All other actions need the critical section
(`CsFree`): `Listener` is the listening thread, whose `HearOutcome` and `HearMessage`
are `ProcessDataPacket`. `SetEvent` wakes one of the threads that wait on an event;
readers' events are told apart by their names, so two of one name are one event. The
hardware status (`GetHardwareStatus`, `AddGetHWStatusNotify`) is asked of the driver at once,
or waited for with an event of which all waiting threads hear when a connection is
made or lost (`ConnectionStatusChanged`).

`driver` is as much of the driver as the library sees: which clients there are, the
ring of ids for notifications, the counter of ids for blocked sends, and the messages
accepted and not yet reported on (how that comes about is `QBSerial`). `toDriver` and
`toListener` are datagrams; the answer to a query goes to a socket that is open only
while somebody asks, so that it is taken at once or dropped, and whoever asks takes it
(`rp1210a_impl.cpp:662` does not look at what it is an answer to). `DriverServes` grants
what it is asked for, `DriverRefuses` does not: a connection (the port cannot be opened or does not
answer, in which case the slot stays taken; or raw mode is in the way), the claim of an address, or a
J1939 message whose PGN is invalid or whose address is not claimed or was lost. `AddSendJ1939Msg`
looks at the latter only when it has taken an id (`QBSerial.cs:1684`). A
connection may also be refused by the library (`ERR_CONNECT_NOT_ALLOWED`), where the slot the
driver gave it is one it still has in use: the loop over all connections looks at that one
only (`rp1210a_impl.cpp:72`).

`spoilt` and `missed` name the defects of the code that the properties except; each
exception is needed, TLC shows a counterexample without it. A reader misses a message
that comes before its event is listed, or whose wakeup goes to a handle that is closed
already or to another event of the same name (`missed`). A send whose wait times out
returns a code that was never set, unless it claims an address ("timeout"). A
thread that returns to a connection set up anew finds no transaction, which reads as
success ("reconnect"). An id that is given again while news of its last user is under
way, or, after the driver started again, while a sender of the same id still waits or
is returning, belongs to both ("reused"). An answer that comes after its query was
given up, or the second one of a query sent twice, is the next query's ("stale"); from
then on library and driver may disagree about anything (`Confused`). The digit
that tells notified from blocked sends is the last of its datagram and not terminated
where it is copied to (`rp1210a_impl.cpp:1101`), so that it may read as another number
("misread"). `lost` are the ids no one will give back: those in answers that nobody took, and those
taken for a message that was then refused (`QBSerial.cs:1705` to 1741). `GetMsgId` stops at the first one
it comes to, for ever. So `IdsAccounted` says where every id is, and that these two are the
only ways to lose one; that none is lost does not hold of the code.

What is taken for granted: datagrams on the loopback are neither lost nor
reordered; a closed handle is not given again at once, so that setting it does nothing;
the listening thread gives up only on a driver that died; only this library uses the
driver; a notification needs a window (`ERR_WINDOW_HANDLE_REQUIRED`). `Bounds` is a set of
allowances, of which the initial state chooses one: what may happen together.

Worth knowing besides. The listening thread waits while a query is being answered, up
to 60 s for a new client and 180 s for a command, and does not answer the driver's
hello in that time. `ERR_CLIENT_AREA_FULL` is never returned: `QueryDriverApp` takes the
-1 for a failure first (`rp1210a_impl.cpp:738`). A message for a client that was
disconnected may be delivered to the next one of its slot.

### SerialPort
The host port. `txQueue` is handled with interrupts off and is a sequence; `rxQueue` is the
ring itself (`CircleQueue`, which `HostLink` has its bytes' count from too), since the
handler puts bytes in while the main loop takes them out
(`DequeueBuf`, `CopyByte`, `AdvanceTail`). `HandleComIRQ` has three looks (`LookAtReceived`,
`TransmitMore`, `ClearErrors`); the first is followed by one `ProcessRxFifo` for each byte
until the UART has none (`AllReceived`). Between any two of these the UART goes on, and
what arrives while the handler empties it is taken too. It is a level interrupt,
and so the main loop runs only when nothing is pending (`MainRuns`). `AnswerAndWait` is
the answer to a command that changes the port or restarts the firmware, and the loop on
`IsTxFifoEmpty` after it; `SetPortSettings` and `DisablePort` are what follows. A byte with an
error is 0. What the UART does is taken from how the code uses it: its interrupts are
levels, a time out clears with the next byte or when its FIFO is emptied, and an error
stays until the byte that has it is out.

The wait before a change of the rate looks at the UART alone (`serial.c`'s
`IsTxFifoEmpty`), not at the queue; `AnswerIsOut` shows that this is enough, because the
interrupt refills the UART before the main loop gets to look. What is received
while the firmware waits, or in an interrupt with an error, may be thrown away; `intact`
notes it and `ReceivedInOrder` excepts loss, never a change of order.

### BusTimer
The only module with time. `time` is the true time, of which the code sees the
counter (`PERIOD` values) and the number of overflows it has counted
(`wrapCounter`); `InputCaptureA` and `InputCaptureFlagB` are what the hardware notes of the edges
of the J1708 bus. Every access of the main loop to one of these registers is an action,
`pc` is the next one, and between any two of them time passes, edges arrive and the
overflow interrupt is served. `Poll` is `ResetJ1708IdleTimerIfNeeded`, `ReadTime` is
`GetTime32`, `GetTimerTime` and `Get_uS_TimeStamp` (one text, three returns), and `Transmit`
is `ProcessJ1708TransmitQueue` with `StartJ1708Transmit`, up to its write of a character; what
follows is `J1708`, where idle times are any time. The specification is `TimerSpec`, that of
`SerialPort` `PortSpec`: their proofs stand beside those of `J1708` and `HostLink`, whose
names they must not take. (So it is with `FilterSpec` of `CANFilters`, beside `CANRx`.)

Three things it takes for granted, as the code does. An overflow that is pending is served before the
main loop's second access to a register (the handler is entered within a few
instructions). The main loop is back at its looks within `ROUND`, less than a wrap of the
counter (`timers.c:235`); and `ROUND` is less than two bits, or more edges than one of a
kind come between two looks. And the looks themselves take less than a bit (`LOOK`).
The second and the third do not hold for a main loop that is late; section 4 says
what happens then. How long the bus has to be idle is a count of bits that depends on the
message's priority, to which the bits are added that a last edge may leave of its
character (`ConvertJ1708IdleCountToTimerTicks`).

### Support
The `MC` modules give TLC the modules and the values that a configuration cannot
write. The `_proofs` modules take facts on sequences from the library's
`SequenceTheorems`.

## 4. Runs

| Run | Shows | Bounds and why they are enough |
|---|---|---|
| `MCCANRx` | wakeup and conservation (`RingSound`), order and no torn read (`ForwardsWhole`), drained in the end | ring of 3 (full with two events), 4 events (it wraps and overflows), 2 commands (any two, so one in the middle of another's effects) |
| `MCHostLink` | at most once, in order, three attempts, progress; with a prompt host an acknowledgement means delivery and a duplicate is one (`AnswersAreTrue`) | 2 ids (they wrap at once), 3 packets, 2 faults of every kind, 1 host command. Histories with a prompt host and with another one are both among its behaviours |
| `MCCANTx` | refinement of `CANService`, unambiguous confirmations, accepted messages do not wait for ever | queue of 3 (full with two), 4 ids taken from any start (they wrap), 3 messages, one of J1708's, 1 setting, any recovery command, 1 bus fault |
| `MCJ1708` | nothing lost, told once and in order, other devices' messages kept, neither queue waits for ever | queues of 3 (full with two), messages of 2 and 3 units, 2 messages each way (one behind the other, and a collision of each), 1 disturbed character, 1 change of setting, 1 reset |
| `MCUpgrade` | only whole firmware runs, success is true, the files of all tools are the linker's (`FilesAgree`), undisturbed upgrades succeed | 11 bytes of flash (a header, some code, more than one line), four files of a linker (in order; out of order with gaps and overlaps; one with a gap; one the tools refuse), 2 upgrades, 1 disturbance, 1 power failure; for the CRC, messages of up to 3 bytes of 3 values |
| `MCCANFilters` | refinement of `CANFilterService`, the first answer is true | 2 objects (a list of two filters fills them), identifiers of 2 bits under masks of none, some and all, lists of every pair of filters and every kind of wrong one |
| `MCHostCommands` | order, once, settings, one overflow report, prompt answers | one command for each kind of effect (a setting, a list, the baud rate, the two confirmations, a reset of CAN's settings, a restart), 2 commands sent twice at most, 1 fault, 2 events, 1 packet of a bus |
| `MCJ1939Receiver` | what is delivered was sent, what is acknowledged was complete and handed over, retries recover | a connection of three windows, a broadcast of the same node (they can mix), a connection of another node to the same client (an abort hits both), 1 fault |
| `MCQBSerial` | nothing waits without reason, no answer doubled or untrue (`AnsweredTruly`), none missing in the end | a broadcast, a connection and a message that must wait for the broadcast; 4 faults of any kind with one message (it is given up after all its retries), 2 with two, 1 with three; 2 initialisations |
| `MCRP1210Library` | readers and those who wait for the status are woken, sends are answered once, truly and in the end, ids are accounted for, those of refused sends too | 2 threads (one waits while the other acts), 2 clients (one slot can be given again while the other is used), 2 ids for notifications (the ring wraps at once), 2 attempts of a query; up to 2 connections, 2 sends, 3 reads, 2 requests for the status, 2 messages received, 2 faults, in the ten combinations of `MCBounds` |
| `MCSerialPort` | packets out whole and bytes in order (`BytesInOrder`), answers out before a change, neither queues nor handler hang (`NeverHangs`) | queues of 3 bytes (a packet fills one, two overflow it), a UART of 2 (half full with one), 2 packets, 4 bytes received (the ring wraps and overflows), 1 with an error, 1 change of settings |
| `MCBusTimer` | times and edges are true (`TimesAreTrue`), transmissions start on an idle bus, an idle bus is used | a counter of 5 values and 3 wraps of it (edges and readings fall before, on and after each wrap), bits of 2, looks of 1, a round of 3 (less than two bits), saturation after 2 overflows, an idle time of a bit, and one of data behind the last edge |

Deadlock is not checked where a system is at rest once the bounds on its input
and on its faults are reached: all but `CANRx`, `CANFilters` and `BusTimer`. The main loops of `CANRx`
and `BusTimer` never stop, and the bus of `CANFilters` always has another frame.

What is written about the code and does not hold of it, besides the exceptions that
properties name. Three configurations, which TLC stops with a counterexample, show the
first three; they are kept beside the others and are not runs of the list above.

* A standard filter is reported as an extended one, since `read_CAN_filter` lays the mask
  over the flag that tells them apart (`CAN.c:254`); the protocol document has it
  reported as it was set (`MCCANFiltersReport.cfg`, `ReportedAsSet`).
* `timers.c:234` has the edges timed accurately. Between the reading of the captured
  time and the clearing of its flag (`timers.c:298`) another rising edge may come: its flag
  is cleared with the first one's, and the time kept is the first one's. It takes a main
  loop that comes back after two bits or more (`MCBusTimerEdge.cfg`, `EdgeTimeIsTrue`).
* `timers.c:225` has the idle time known after any activity. A pulse whose edges come
  between the look for a falling edge and the one for a rising edge (`timers.c:286`) is
  noticed in the wrong order: the falling edge in the next turn, which marks the bus
  busy after its end. It stays so until the next edge, and with no other device on the
  bus the firmware never transmits again (`MCBusTimerStuck.cfg`, `IdleBusIsUsed`, with looks
  that take a bit).
* The magic word of `crc`'s binary file, see `Upgrade` above.

## 5. Fairness

* `CANRx`: weak fairness of the main loop (`while (1)`, no step blocks) and
  strong fairness of `ForwardToHost`: the host link frees room again and again
  (`EventuallySent` of `HostLink`), so a refused event is taken in the end.
* `HostLink`: weak fairness of `Transmit232IfReady` alone, called in every
  turn of the main loop. Nothing is assumed of the host: the timer ends every wait.
* `CANTx`: weak fairness of the calls of a command in progress and of
  `ProcessCANTransmitQueue` (main loop); strong fairness of `Transmitted` (a
  bus that is on lets every message through in the end) and of
  `RefuseBusFault` (the host goes on sending, which is what triggers the
  automatic restart).
* `J1708`: weak fairness of the main loop's starts, of its forwarding and of its
  advance of the tail (`while (1)`; forwarding succeeds in the end because the
  host link frees room), of the bus (a message on it comes to its end) and of
  the handler. That a transmission succeeds in the end rests on the bounds:
  other devices and disturbances do not stop it for ever.
* `Upgrade`: weak fairness of the device, of the tool and of the driver while it
  parses: loops that poll. None of power, of disturbances or of the user.
* `J1939Receiver`: weak fairness of a connection's sender (a node that follows
  the protocol sends what it was asked for and reads its answers) and of the
  receiver's timer, which the operating system runs.
* `QBSerial`: weak fairness of all that is neither a client's nor a fault: the
  serial thread reads what has come, the next hello sends what waits, and a timer
  that runs expires when nothing else is under way. It is written with
  `CanStep`, the states in which one of these steps is possible, which TLC finds
  out faster than `ENABLED`.
* `RP1210Library`: weak fairness of the listening thread, of the driver serving
  datagrams and of its reporting what became of a message (`EventuallyAnswered` of
  `QBSerial`), and of a query's repetition when there will be no answer. None of the time-outs of
  waits: `EventuallyTold` says that nobody needs them.

* `SerialPort`: weak fairness of the UART (it transmits what it has, and notices that
  nothing arrives), of the handler, and of the main loop taking what is there and waiting
  for the UART. Nobody has to send or transmit anything.
* `BusTimer`: weak fairness of time, of the overflow interrupt and of the main loop. None
  of the bus and of the wish to transmit.

`CANFilters` and `HostCommands` have no fairness: their properties are about what has
happened whenever they stop. (`AnsweredInSilence` is the safety form of a prompt
answer: the host does not come to repeat a command.)

## 6. Proofs

All theorems hold for every value of the constants that the named assumptions
allow: sizes at least 2 (1 for the filters), bounds any natural numbers.

* `CANReceive_proofs`, the part about `CANRx`. The invariant is `IInv`. `Conservation` alone is not
  inductive: which slots are pending depends on where the main loop is
  (`PendingTail`), whether `AdvanceTail` may lower the flag depends on the flag
  being exact (`FlagExact`), and order needs the slots' stamps to increase with
  their distance from the oldest (`PendingInOrder`). `MainLoopPlace` says what
  the main loop knows at each `pc`, between the two stores of the
  initialisation in particular. `RingIsSound` and `EventsForwardedWhole` put the four
  safety theorems together as the run states them.
* `HostLink_proofs`. `OrderInv` (frames in flight, the queue and what the host
  took last are in order of their stamps; copies of one packet are equal)
  gives `DeliveredOnceInOrder`. `TriesInv` ties the fail count to the number of
  transmissions. `PromptInv` says that as long as `Prompt` holds at most one frame is in
  flight and an answer in flight answers `last232`; it gives `PromptHostIsBelieved`.
  `Prompt` is a state predicate over history variables, so these are theorems of `Spec`
  with no assumption about the host.
* `HostLink_proofs`, the part about `SerialPort`. `PortInv` has two halves. `TransmitInv`
  adds to `TransmittedWhole` that the UART's interrupt is on exactly when the queue has
  something. That is what makes `AnswersGetOut` true: the wait runs only when no
  interrupt is pending, and with the UART empty one would be, were there more in the queue.
  `ReceivedInv` says of the bytes copied, in the ring and in the UART together
  (`Received`) that they are in the order of their arrival and that none is of the
  future. `BytesStayInOrder` follows, and the steps come to two facts on a ring
  that is written at one end and read at the other: what `Enqueue` and the tail's
  advance do to its `Content`, for any `QUEUE_SIZE`. Between the copy of a byte and the
  advance of the tail the byte is in both places, and counts once (`Waiting`).
* `CANTx_proofs`. `ConfirmInv` (`CANtxc` belongs to the message in the object)
  gives the refinement, action by action; `IdsInv` orders the ids by their
  distance behind the counter, which is what survives wrapping, and gives
  `ConfirmUnambiguous` under `IdAssumption`; `ClearInv` says which calls a
  clearing command still has ahead and gives `RecoveryClears`.
  `BusOrder` states a theorem of the abstract service for the code: `Service!ServiceInv`
  (what is on the bus, in the object and waiting is in the order of acceptance, what is
  confirmed was on the bus) is inductive for `CANService`, and by the refinement it holds
  of what the code maps to: messages are on the bus in the order of their acceptance
  and at most once, and only those are confirmed.
* `J1708_proofs`. `NothingLost` needs to know, when a transmission ends, that
  what the handler compares is what was on the bus. `TransmissionInv` says so:
  while `j1708State` is Transmitting the `TxEmpty` interrupt is still to come (so
  that neither the main loop starts another one nor the idle timer ends it), and
  what is in `rxQueue` and the UART is what was on the bus since the start. A
  collision asks for a retransmission (`CharacterResult`), and so the message
  stays the first of those waiting (`WaitingFacts`). `ForwardedInv` is what
  `AdvanceTail` needs.
  `ToldInOrder` and `FramesAreKept` rest on `HostInv`, which has four parts. `HeardInv`
  says what the port holds when the firmware is not in the way of another device: what is
  on the bus, unless a disturbance is among it. `UnitsInv` orders what the port holds as
  it was on the bus. `NumbersInv` orders the messages to be sent. `TellInv` says that
  whatever is queued for the host or was told is superseded, that is, older than anything
  that may still be queued: a confirmation's message is done with, and of a message of
  another device nothing is left in the port. `OverBy` and `Later` make this precise in
  each state of the handler.
* `J1708_proofs`, the part about `BusTimer`. A time is right or wrong modulo a product
  (`PERIOD` counts and `WRAPS` overflows), and so every invariant speaks of distances: how
  long ago a count or a time was (`Since`, `Age`), and that it was not before the reading
  began. What the provers need to know of remainders and of the product is proved once, on
  numbers. `TimeInv` is enough for the times `GetTime32` puts together
  (`TimesReadAreTrue`, with no assumption about the main loop): both counts
  read around the number of overflows are of times since the reading began, and if they
  are in order and no overflow is pending, either of them goes with that number; else the
  overflow is counted and the count read again (`ReadInv`). `CaptureInv` says how far the captured
  time is behind the counter, as long as its flag is up, and `WrapInv` what is known at
  each access of `ResetJ1708IdleTimerIfNeeded` of the overflows there had been
  when the edge came; with `EdgeInv` they give the times of edges (`TimesStayTrue`). For
  `TransmissionsWait`, `IdleInv` bounds the time that the overflows counted since the bus
  was last seen busy stand for, by the time since the last edge and one look
  (`SpanInv`); `AskInv` and `LookInv` carry what the main loop has seen
  from there to its write of the character. The two theorems about edges assume `InTime`,
  `ROUND < 2 * BIT`: the main loop is back within two bits. `MCBusTimerEdge.cfg` shows that
  the first does not hold without it.
* `CANReceive_proofs`, the part about `CANFilters`. `FilterInv` is `FilterTypeOK` and `NoTwice`, with the list in progress
  made of valid filters only (`ListOK`): a filter whose identifier is not under its
  mask would never be found again. The least element of a set, which
  `findCANfilter` and the search for a free object return, comes from the library's
  theorem on well-founded relations (`MinIsLeast`). Then the refinement is three
  facts: setting a filter adds it (`SetAdds`), with room for it because an object is
  free (`RoomForOne`, a count of objects and filters); clearing removes it, for
  which `NoTwice` is needed (`UnsetRemoves`); and a frame changes nothing under the
  masks (`OverwriteKeeps`). `AnswerInv` says how far a list is and what was
  answered; once there was no free object there is none until the list ends, so
  that the first answer remains true (`FirstAnswerIsTrue`).

* `HostCommands_proofs`. `ReportInv` says that an overflow that was told is remembered
  in the report's state, which only the host's re-arming clears; all other actions
  leave both alone.
  `CarriedOutInOrder` is about bytes. What the line does to them loses some and changes
  others, but never swaps two; and a checksum byte stands for what it was taken over, so
  that one that is right names its command. `OrderInv` has therefore an order on bytes
  (`Follows`: of a later command, or of the same one under the same id if the host
  keeps it), which buffer, queue and line are in, one behind the other, and every
  checksum byte on its way is of a command that follows what was carried out (`Genuine`).
  All the parser does is to take pieces from the front (`PieceFacts`). The exception in
  `ExecutedInOrder`, for commands that make the firmware forget the last id, is
  `Forgetful`.
  `HostKnowsSettings` adds what is true of answers (`AgreeInv`). The last byte of a
  command's checksum is at one place at most (`End`), and while it is on its way no
  answer to it is (`NotAnswered`): the first answer under the command's id is put into the
  queue by the step that carries it out. Answers to the command before it may still
  come, under another id (`AnswersInv`; with one id only they would be taken for the next
  command's, so `MaxID` is at least 2). An answer that accepts a command is true from the
  moment it is queued (`BeliefIsTrue`), as settings change only when a command is taken
  out. What the host knows is so, except for what the command it waits for touches
  (`KnownInv`). A list of MIDs is the hard case: what it leaves depends on what was there,
  it may have been carried out in part or twice, and to know the result the host has to
  know that once more is the same (`MidsTwice`). `ProcessFacts` says of every command
  that it leaves alone what it does not touch and that what it touches does not depend
  on the settings before.

* `J1939Receiver_proofs`. `Intact` is not inductive. A receiver holds packets of its own
  message only (`Own`) unless another message of its sender was active at the same
  time, which is then noted in `mixed` (`Separate`: two such messages the driver cannot
  tell apart). A receiver in the list is never complete (`TypeOK`), since the step that
  completes it hands it over. `ToldWhenHandedOver` follows from what an acknowledgement's
  arrival says of its receiver.

* `RP1210Library_proofs`. `IdsAccounted` counts the places
  an id is in; `Once` says the same as an order of places: in one transaction of one
  connection, or in one datagram on its way back, or free, or lost. It is inductive with
  two more facts. `OwnQueries`: one call at most waits for an answer, and a query of a call
  that is not over is that call's, of its kind; so the id in an answer to a notified send
  goes into a transaction for a notified send (`AcceptedSettles`), unless the answer is a
  "stale" one. `WithoutDriver`: while there is no driver nothing is on its way to it, and
  an application that is not linked holds no ids, so that a driver that starts with all ids
  free is right (`DriverEnds` loses the datagrams, and `ListenerGivesUp` must have cleared
  all connections before another driver is started). The other steps come to what one
  operation on a list does to the places of an id: taking one element out
  (`NotesRemoved`, `FreesOfTail`), appending one (`NotesAppended`, `FreesOfAppend`), and
  what `Clear` does, which empties the lists of some connections and puts one datagram for
  each transaction into the queue (`FreedFacts`, `ClearOnce`). A refusal moves the id
  it took from the free ones to the lost (`Refusal`, `DriverRefusesKeeps`). An id that is not
  given back because `RemoveTransaction` or `Clear` forgot it, or given back twice, fails there.
  `ReaderAwake` speaks of a reader that sleeps and of those that are awake; what it
  depends on is the list of handles, which is set from the front whoever they belong to.
  `AwakeInv` has, for every client on which somebody sleeps who missed nothing, a set of
  woken readers, one for each message in the queue (`Due`), such that on each event the
  others are at least as many as the handles in the list. So when a message comes and the
  first handle is set, one more of the readers on that event is on its way: it wakes, or
  none of them sleeps and one was awake and not needed (`HeardDue`, `CountLess`). A
  reader that takes a message leaves that set, or another one on its event, or any
  other, does in its place (`TakesDue`). The rest says why the handles are what they seem
  (`HandlesOK`: a handle is listed once, and a name is not given to a thread whose handle of that name is
  listed), that who has missed nothing has its handle in the list, and that a
  reader on its way to its wait that has missed nothing finds the queue empty (`ReaderOK`). `AwakeInv` was checked with TLC
  for four threads before it was proved; with two or three threads the set of `Due` shows less.
  `ToldOnceTruly` needs to know where a send is, and that it is found there. `WhereInv`: a
  send that is not answered for is with one thread or in one list of transactions, and
  nothing that was answered for is anywhere; this holds whatever goes wrong, so that nothing is told twice.
  Success is true because the driver speaks of ids and the ids lead to the right
  transaction. `Matching`: whatever the driver has promised or announced for an id is about
  the transaction that has the id, unless it is noted that the id was given too early
  (`reused`). `CleanOK`: a blocked thread that met no defect finds its own transaction when
  it returns, with a code if it was woken, and no other thread has its id. Either fails
  when the driver starts its ids anew while news or senders from before are still there;
  `AddTransaction` is where that is noted (`Accepted`). As each list is taken
  apart, filled in and cleared in many ways, what is proved of lists is proved
  for any list whose transactions are some of another's (`Within`).

* `QBSerial_proofs`. Each of the three properties depends on all lists of the port, so
  there is one invariant, `IInv`, and it says of each handler what it leaves for the
  others. `Lists`: a message is in one list at most; one that waits is as it was when
  given; no reply timer runs for one that is to be sent. `Reasons` is
  `PendingHasReason`, which holds because the handlers that take something out end with
  `CheckJ1939Pending`, and what that lets go on is itself a reason for the rest
  (`CheckFacts`, with `ConflictsChain`). `Answered` strengthens `AnsweredOnce`: a message
  that may still be answered, because it is in a list or because its timer runs (`Open`),
  has no answer yet. The timer that runs on after its message has ended is where this
  fails, and there alone the exception `spoilt` is needed.
  `SuccessIsTrue` is about frames. `Transmits` ties a transaction's place to what was on
  the bus, in two manners. A broadcast or a short message goes frame by frame (`Steady`):
  the frames before the one last loaded were transmitted, and that one was if a
  confirmation of it is on its way. This needs ids that are not used again
  and confirmations in the order of their packets, each once (`Incoming`, `OneConfirm`): a
  confirmation of an earlier packet must not pass for one of the packet sent since,
  and that it does is what "repeated" excepts. A connection is complete when its
  receiver says so, and a receiver that acknowledges has got all frames.
  `StepSound` is one statement for all actions: what a step does to the lists, the
  line, the bus and the answers, with the defects it notes. Each action is shown to be
  such a step, and a lemma says that such steps keep `IInv` (`StepKeeps`). What
  `Without` computes, a function defined by recursion over positions, is proved once
  (`WithoutFacts`, by the smallest position at which it would be wrong).

* `QBSerial_proofs`, the part about `Upgrade`. `bootKRNL` looks at three things in flash, so
  `BootsOnlyWhole` hangs on the header. `HeaderOk` says of its second double word,
  which has the CRC, its padding and the entry, that it is erased, is spoilt for good (a
  byte of the CRC is none), or is that of one image as a whole. It is inductive as long as
  the double word is never written in parts. Lines of an image are such that none ends
  within it (`PieceIsLine`, from the alignment of the header and of `sreccrc`'s lines),
  a write of `FlashWriteBuffer` begins or fails at its ends only (`StartsApart`,
  `StopApart`), and the region that S0 has erased holds all of it (`ErasedRegion`). Written
  over another image without an erasure, flash has no CRC any more, unless both CRCs are the
  same, and then so is the code and with it the padding and the entry
  (`HeaderAssumption`). What `bootKRNL` accepts has the CRC of one image and therefore its
  code, its length and the rest of its header (`WholeImage`, `BootsWhole`). That the bootloader writes nothing but lines
  of the image is `UpgradeInv`: a line that comes in complete and undamaged is one of them,
  whoever sent it and whatever happened to those before it. What `sreccrc` makes
  of a file is proved first, for any file that it can read: the lines it writes
  describe the memory that it read, with the header filled in (`WrittenLoads`, `ImageFacts`).

Attempts at proofs corrected the models. A reset that arrives a second time is
acknowledged and does not restart the firmware again (`protocol232.c:241`): the model
restarted, and `ExecutedInOrder` was not provable. `SettingsAgree` was not, because the
host took an acknowledged `i` (a question about CAN) for one that sets automatic
recovery, and because `r` with bit 1, which resets the settings of CAN
(`protocol232.c:855`), was refused as invalid. In `J1939Receiver`, `SRecord` and
`Upgrade`, alternatives of the code's `if` chains were CASEs whose conditions overlap; TLC
takes the first that is true, the definition says any of them. They are chains now.

`QBSerial` had two definitions that could not be reasoned about: lists were cleared
with `SelectSeq` and the pending list was gone through by a fold. They are a recursive
function and a set now, with the same states. The same was done in `RP1210Library`
(`Failed`, `Freed`, and `SetEvents` says whom it may wake instead of setting one event
after the other). The attempt at `ToldOnceTruly` showed that
`Accepted` noted a reused id too seldom: after the driver has started again, the id may be that
of a sender which still waits, and not only of one that is woken, and when that one's wait is over it
removes the newer transaction. It showed too that its first half, that nothing is told
twice, holds without the exception it had (`Confused`). A run with four threads corrected `missed` there: the cleaning of a
connection also passes by a reader that does not wait yet, and a wakeup goes astray too
when one handle's event is taken by another reader of that name. In `SRecord`, memory was read from the
selected data lines of a file; it is read from the file now, at the places of its data lines.

Assumptions worth knowing. `IdAssumption`: of the 2^32 ids no more are taken
than there are while the system runs, so that none comes back while an older
message waits (299 can wait). `InTime`, see above: a hypothesis of two theorems, and not
an assumption of the module, as the main loop need not keep to it. `LayoutAssumption`, `LinkerAssumption` and
`HeaderAssumption` of `Upgrade` are what the link script (`qbridge.x`) gives: where the firmware begins, on
a boundary of double words behind the bootloader's sector; that its header comes first; and
that two firmwares of the same code have the same entry, a symbol of that code
(`main.c:84`), and the same padding. TLC evaluates them for the files of `MCUpgrade`. `FiltersAssumption`: identifiers fit the fields they are sent in.

The types of `CANRx`, `CANTx`, `J1708`, `HostLink` and `CANFilters`, `NoTwice` and
`RecoveryClears` are proved and not run.

Only model-checked, and why:

* The liveness properties (`EventuallyDrained`, `EventuallySent`, `EventuallyTransmitted`,
  `NothingWaitsForEver`, `EventuallyUpgraded`, `Recovered`, `EventuallyAnswered`,
  `EventuallyTold`, `NeverHangs`, `IdleBusIsUsed`): liveness under fairness is out of the
  prover's reach.
* `AnsweredInSilence` of `HostCommands`: it needs the parser's position in an undamaged
  stream of packets.
* `DoneMeansFlashed` of `Upgrade`: it relates every answer on its way to the line it is for.
* `FilesAgree`: the Intel hex file and the CRCs of `Crc` are computed by folds; what a fold gives for every
  sequence is not to be had here: its definition is recursive through an operator that
  is a parameter.

Induction itself is available where it can be put as a statement about sets (the least
element of a set of numbers, `MinIsLeast` and `Smallest`), and so for recursive functions
that can be written out (`WithoutFacts`).

## 7. Not modelled, and why

* Contents of frames, lengths of CAN messages and checksums of the packets to the host:
  no property depends on them; damaged frames are a disturbance of `HostLink`.
* `send_big_can_message` and the loop-back modes: the first has no caller, the
  second are for tests. The interrupt handler's branch for the former is kept
  (`NextFrame`), as an id of 0 would lead to it.
* Register configuration, CAN bit timing, bus status reports, what `MdmReset` does to the
  pins of the modem, `MiscControl` and the contents of information answers: no state the properties
  relate. (`GPIO_IS_SET`, `main.c:330`, looks at every pin but the one it is asked for, so
  `GetIgnEmerg` tells the host something else; nothing in the models depends on it.)
* The timer in other units (`GetMainTimeInBaudTicks`) and what is measured in a debug
  build; the arithmetic of baud rates; the debug port.
* J1708's statistics, the set of enabled MIDs in `J1708` (any message may be filtered; the
  set itself is a setting of `HostCommands`), and the loss of an
  echoed character, for which the handler would wait for ever (`J1708.c:456`).
* Of the bootloader: registers of the port and the timer, and debugging output. Of
  the tools: `bin2srec`, and `qbdl`, a loader for another
  terminal that does not compile as it is.
* Of `QBSerial`: opening, resetting and closing ports, the periodic request for
  information, exceptions of a write, raw J1708, the claim of addresses, aborts of what is
  sent, the removal of clients (`ClientIDManager.cs:258` removes from `QBTransactionSent` what
  it found in `QBTransJ1939Pending`), the wrap of the 8-bit packet id, and the acknowledgements the driver
  has no case for.
* Of the driver's clients: the claim of addresses (a timer of 250 ms and a comparison
  of names; to the library it is a blocked send), filters and the other commands, the ports
  given to libraries (they are not freed and run out after 128), several libraries at once, and the
  driver's own hello and its time-outs.
* Of the library: sends that wait for nothing (they have no outcome), claims
  that are notified, commands but the claim, the sizes of messages, the end of the
  process, the search for a running driver. Three things the driver does to it: a client
  that goes while a J1939 message of it waits makes `RemoveClientID` throw
  (`ClientIDManager.cs:258`, see `QBSerial`), so that it is not answered and its slot is
  kept; ids of blocked sends from 32768 on become errors where they are cast to a short
  (`rp1210a_impl.cpp:301`), which takes as many sends of one run of the driver; and the time it
  takes to answer a connection.
* Details that change nothing a property says: the acknowledgements ACK_INVALID_DATA,
  ACK_INVALID_COMMAND and unknown ones in `HostLink` (`protocol232.c:284`), which end the wait as
  others do; the constant `t13uS` that `J1708.c:260` and 672 take off the idle time in `BusTimer`;
  the length check of `GetLine` in the bootloader (`main.c:258`), whose 8-bit counter never
  gets to 256; no line the programs send is that long.
* The test programs.
* Composition: each module takes of its neighbours what it needs (the room the
  host link frees, the acknowledgements of the firmware); a product of two of
  these models is beyond TLC at bounds that show anything new, except where one
  refines a service the other uses.
