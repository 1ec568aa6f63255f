----------------------------- MODULE HostCommands -----------------------------
(***************************************************************************)
(* The link from the host to the firmware: the serial port (serial.c), its *)
(* byte queue (queue.c), the parser and the dispatcher of protocol232.c,   *)
(* and the settings the commands change.  The other direction is HostLink. *)
(*                                                                         *)
(* The line loses bytes and changes them.  A byte is a number, the letter  *)
(* of a command, or a byte of a checksum; a checksum stands for the bytes  *)
(* it was taken over and the number of the command, which the firmware     *)
(* does not see.                                                           *)
(***************************************************************************)
EXTENDS Integers, Sequences, SequencesExt, FiniteSetsExt

CONSTANTS
  Commands,      \* the commands [cmd, data] the host gives the running program
  CoolRate,      \* the rate ports start with (115200)
  MaxID,         \* packet ids are 1 .. MaxID (255)
  NumMIDs,       \* MIDs are 0 .. NumMIDs - 1 (512)
  MaxTries,      \* times the host sends a command
  TxRoom,        \* bound: packets that fit in the port's transmit queue
  MaxCommands,   \* bound: commands given
  MaxFaults,     \* bound: bytes lost or changed, answers lost
  MaxTraffic,    \* bound: packets of the buses sent to the host
  MaxEvents      \* bound: all these and overflows of the receive queues

Octets == 0 .. 255   \* UINT8

BaudRateTable ==
  {1500000, 750000, 500000, 375000, 300000, 250000, 115200, 57600, 38400, 19200, 14400,
   9600, 4800, 2400, 1200, 600}

IsBaudSupported(baud) == baud \in BaudRateTable

ASSUME CommandsAssumption ==
  /\ \A c \in Commands : c.data \in Seq(Octets)
  /\ \A c \in Commands : c.cmd \notin {"UpgradeFirmware", "MiscControl"}
  /\ CoolRate \in BaudRateTable
  /\ MaxID \in Nat \ {0, 1} /\ NumMIDs \in Nat \ {0} /\ MaxTries \in Nat \ {0} /\ TxRoom \in Nat \ {0}
  /\ MaxCommands \in Nat /\ MaxFaults \in Nat
  /\ MaxTraffic \in Nat /\ MaxEvents \in Nat

VARIABLES
  line,                  \* bytes on their way to the firmware
  rxQueue,               \* hostPort->rxQueue
  pc, curPacketBuf,      \* the parser: in the main loop, or in its own loop
  lastPacketID,
  overflowed,            \* can_int_queue_overflow, j1708RxQueueOverflowed
  report,                \* can_overflow_report, j1708_overflow_report
  prefs,                 \* what commands set
  txQueue,               \* packets on their way to the host
  host,                  \* the host: its command and how far it is
  mirror,                \* what the host knows of prefs
  executed,              \* the commands carried out (history)
  told,                  \* overflow reports made since the last re-arming (history)
  fresh,                 \* the command was sent into silence, undisturbed (history)
  faults, overflows, traffic  \* counters for the bounds

parser   == <<rxQueue, pc, curPacketBuf>>
firmware == <<lastPacketID, overflowed, report, prefs, executed, told>>
bounds   == <<faults, overflows, traffic>>
vars     == <<line, parser, firmware, txQueue, host, mirror, fresh, bounds>>

Buses == {"can", "j1708"}
None  == [b \in Buses |-> FALSE]
Zeros == [b \in Buses |-> 0]

-------------------------------------------------------------------------------
(* Packets *)

B(n)    == <<"byte", n>>
Letter(cmd) == <<"letter", cmd>>
Stx     == B(2)
MinPacketSize == 6
CRCSize == 2

Crc(k, bytes, n) == <<"crc", k, bytes, n>>
PacketFront(cmd, id, data) ==
  <<Stx, B(Len(data) + MinPacketSize), Letter(cmd), B(id)>> \o [i \in DOMAIN data |-> B(data[i])]
Packet(cmd, id, data, n) ==
  LET front == PacketFront(cmd, id, data) IN front \o <<Crc(1, front, n), Crc(2, front, n)>>

\* A byte taken for a packet's length: letters and checksums are large.
CurPacketSize(buf) == IF buf[2][1] = "byte" THEN buf[2][2] ELSE 200

\* Mutant: the checksum is not looked at.
VerifyCITTCRCNot(packet) == packet[3][1] = "letter" /\ packet[Len(packet)][1] = "crc"
                            /\ packet[4][1] = "byte"

\* The checksum at the end of a packet is that of the bytes before it.
VerifyCITTCRC(packet) ==
  LET size == Len(packet)
      crc  == packet[size]
  IN  /\ crc[1] = "crc" /\ crc[2] = 2
      /\ packet[size - 1] = Crc(1, crc[3], crc[4])
      /\ crc[3] = SubSeq(packet, 1, size - CRCSize)

-------------------------------------------------------------------------------
(* What the commands do *)

LE16(data, i) == data[i] + 256 * data[i + 1]
LE32(data, i) == LE16(data, i) + 65536 * LE16(data, i + 2)

Defaults ==
  [midFilter |-> TRUE, mids |-> {}, j1708Confirm |-> FALSE, canConfirm |-> FALSE,
   notify |-> FALSE, auto |-> TRUE, adv |-> FALSE, baud |-> CoolRate]

\* J1708ResetDefaultPrefs and CANResetDefaultPrefs.
ResetDefaultPrefs(p) == [Defaults EXCEPT !.adv = p.adv, !.baud = p.baud]

\* Mutant: a reset of the CAN settings leaves the confirmations on.
CANResetDefaultPrefsConfirms(p) == [p EXCEPT !.notify = FALSE, !.auto = TRUE]

\* The latter alone: CAN's confirmations end, J1708's do not.
CANResetDefaultPrefs(p) == [p EXCEPT !.canConfirm = FALSE, !.notify = FALSE, !.auto = TRUE]

MIDs == 0 .. NumMIDs - 1
\* The MIDs of a list, up to the first that is none.
ListedMIDs(data) ==
  LET n      == (Len(data) - 1) \div 2
      mid(k) == LE16(data, 2 * k)
      wrong  == {k \in 1 .. n : mid(k) \notin MIDs \cup {65535}}
      last   == IF wrong = {} THEN n ELSE Min(wrong) - 1
  IN  [all   |-> \E k \in 1 .. last : mid(k) = 65535,
       mids  |-> {mid(k) : k \in 1 .. last} \cap MIDs,
       wrong |-> wrong # {}]

SetMIDs(p, on, list) ==
  LET those == IF list.all THEN MIDs ELSE list.mids
  IN  [p EXCEPT !.mids = IF on THEN p.mids \cup those ELSE p.mids \ those]

ValidStandard(data) ==
  Len(data) \in 3 .. 11 /\ LE16(data, 2) < 2040
ValidExtended(data) ==
  Len(data) \in 5 .. 13 /\ LE32(data, 2) < 534773760   \* 0x1fe00000
ValidCAN(data) ==
  \/ Len(data) >= 3 /\ data[1] = 0 /\ ValidStandard(data)
  \/ Len(data) >= 5 /\ data[1] = 1 /\ ValidExtended(data)
ValidJ1708(data) == Len(data) \in 2 .. 21 /\ data[1] \in 1 .. 8

\* Requests for information, in the form with an acknowledgement of its own and
\* in the older one.  Every number is answered, by an empty answer if need be.
Informs(data)    == Len(data) = 1
InformsOld(data) == Len(data) = 1
\* The modem's lines: reset, set some, clear some, read.
ValidModem(data) ==
  data # <<>> /\ data[1] \in 0 .. 3 /\ (data[1] \in {1, 2} => Len(data) >= 2)

Says(code, p) == [code |-> code, prefs |-> p]

\* The first byte of a CAN control command: 'n', 'a', 'r', those that concern no
\* setting, 'd', 'b', 'e', 'g' and 'i', and 'f'.
SetsNotify(data) == data # <<>> /\ data[1] = 110
SetsAuto(data)   == data # <<>> /\ data[1] = 97
Restores(data)   == Len(data) = 2 /\ data[1] = 114 /\ (data[2] \div 2) % 2 = 1
Recovers(data)   == Len(data) = 2 /\ data[1] = 114 /\ (data[2] \div 2) % 2 = 0
Unrelated(data) ==
  \/ data # <<>> /\ data[1] \in {103, 105}
  \/ Len(data) = 2 /\ \/ data[1] = 101
                      \/ data[1] = 100 /\ data[2] \in {72, 76, 78, 83}
                      \/ data[1] = 98 /\ data[2] \in 48 .. 52
SetsFilters(data) == data # <<>> /\ data[1] = 102

\* parseCANcontrol, as far as settings go; recovery is in CANTx, and CANFilters
\* says which filters are refused.
CANcontrol(data, p) ==
  IF SetsNotify(data) /\ Len(data) = 2 THEN Says("OK", [p EXCEPT !.notify = (data[2] # 0)])
  ELSE IF SetsAuto(data) /\ Len(data) = 2 THEN Says("OK", [p EXCEPT !.auto = (data[2] # 0)])
  ELSE IF Restores(data) THEN Says("OK", CANResetDefaultPrefs(p))
  ELSE Says(IF Recovers(data) \/ Unrelated(data) \/ SetsFilters(data) THEN "OK" ELSE "INVALID_DATA", p)

\* The answer to a command, and the settings after it.  A list of MIDs is set
\* up to the first wrong one.  UpgradeFirmware ends the program (Upgrade says
\* what follows) and MiscControl cuts its power: neither is given here.
Process(cmd, data, p) ==
  CASE cmd = "Init232" ->
         Says(IF data = <<>> THEN "OK" ELSE "INVALID_DATA", ResetDefaultPrefs(p))
    [] cmd = "MIDFilterEnable" ->
         IF Len(data) # 1 \/ data[1] > 1 THEN Says("INVALID_DATA", p)
         ELSE Says("OK", [p EXCEPT !.midFilter = (data[1] = 1)])
    [] cmd = "SetMIDState" ->
         IF Len(data) < 3 \/ data[1] > 1 THEN Says("INVALID_DATA", p)
         ELSE LET list == ListedMIDs(data)
              IN  Says(IF list.wrong THEN "INVALID_DATA" ELSE "OK", SetMIDs(p, data[1] = 1, list))
    [] cmd = "EnableJ1708TxConfirm" ->
         IF Len(data) # 1 THEN Says("INVALID_DATA", p)
         ELSE Says("OK", [p EXCEPT !.j1708Confirm = (data[1] # 0), !.canConfirm = (data[1] # 0)])
    [] cmd = "GetInfo"  -> Says(IF Informs(data) THEN "OK" ELSE "INVALID_DATA", p)
    [] cmd = "InfoReq"  -> Says(IF InformsOld(data) THEN "OK" ELSE "INVALID_DATA", p)
    [] cmd = "MdmReset" -> Says(IF ValidModem(data) THEN "OK" ELSE "INVALID_DATA", p)
    [] cmd = "RawJ1708" -> Says("OK", p)
    [] cmd = "SendJ1708Packet" -> Says(IF ValidJ1708(data) THEN "OK" ELSE "INVALID_DATA", p)
    [] cmd = "SendCANPacket"   -> Says(IF ValidCAN(data) THEN "OK" ELSE "INVALID_DATA", p)
    [] cmd = "CANcontrol" -> CANcontrol(data, p)
    [] cmd = "ResetQBridge" -> Says("OK", Defaults)
    [] cmd = "Change232BaudRate" ->
         IF Len(data) # 4 \/ ~IsBaudSupported(LE32(data, 1)) THEN Says("INVALID_DATA", p)
         ELSE Says("OK", [p EXCEPT !.baud = LE32(data, 1)])
    [] cmd = "AdvRecvMode" -> Says("OK", [p EXCEPT !.adv = (data[1] # 0)])
    [] OTHER -> Says("INVALID_COMMAND", p)

-------------------------------------------------------------------------------
(* The serial port and the parser *)

\* Transmit queues a packet as a whole or not at all, and nobody looks at which.
Transmitted(queue, packets) ==
  queue \o SubSeq(packets, 1, Min({Len(packets), TxRoom - Len(queue)}))
Ack(code, id) == [code |-> code, id |-> id, baud |-> prefs.baud]

\* HandleComIRQ: a byte sent at another rate is a framing error and is thrown away.
ByteArrives ==
  /\ line # <<>>
  /\ line' = Tail(line)
  /\ rxQueue' = IF host.baud = prefs.baud THEN Append(rxQueue, Head(line)) ELSE rxQueue
  /\ UNCHANGED <<pc, curPacketBuf, firmware, txQueue, host, mirror, fresh, bounds>>

\* Nothing has come in for SERIAL_RECV_TIMEOUT: all that is in the buffer goes,
\* packets included that came in behind a damaged one.
ReceiveTimeout ==
  /\ pc = "main" /\ line = <<>> /\ rxQueue = <<>>
  /\ curPacketBuf # <<>> /\ curPacketBuf' = <<>>
  /\ UNCHANGED <<line, rxQueue, pc, firmware, txQueue, host, mirror, fresh, bounds>>

\* ProcessReceived232Data begins with two bytes of the queue.
TakeTwo ==
  /\ pc = "main" /\ rxQueue # <<>>
  /\ LET n == Min({2, Len(rxQueue)})
     IN  /\ curPacketBuf' = curPacketBuf \o SubSeq(rxQueue, 1, n)
         /\ rxQueue' = SubSeq(rxQueue, n + 1, Len(rxQueue))
  /\ pc' = "parse"
  /\ UNCHANGED <<line, firmware, txQueue, host, mirror, fresh, bounds>>

\* The buffer from its first STX on.
FromStx(buf) ==
  LET at == {i \in DOMAIN buf : buf[i] = Stx}
  IN  IF at = {} THEN <<>> ELSE SubSeq(buf, Min(at), Len(buf))

\* With the rest of the packet that starts the buffer, as far as it has come in.
Missing(buf) == Min({Len(rxQueue), Max({0, CurPacketSize(buf) - Len(buf)})})
Filled(buf)  == buf \o SubSeq(rxQueue, 1, Missing(buf))

\* Mutant: a packet is processed with the first byte behind it.
CompleteBehind(buf) == Len(buf) >= 2 /\ CurPacketSize(buf) < Len(Filled(buf))

\* A packet, or what looks like one, is at the start of the buffer.
Complete(buf) == Len(buf) >= 2 /\ CurPacketSize(buf) <= Len(Filled(buf))
Valid(buf) ==
  /\ CurPacketSize(buf) >= MinPacketSize
  /\ VerifyCITTCRC(SubSeq(Filled(buf), 1, CurPacketSize(buf)))

\* Not yet a packet: no STX, one byte only, or shorter than it says.
Waits ==
  LET buf == FromStx(curPacketBuf)
  IN  /\ pc = "parse" /\ ~Complete(buf)
      /\ IF Len(buf) < 2 THEN curPacketBuf' = buf /\ UNCHANGED rxQueue
         ELSE /\ curPacketBuf' = Filled(buf)
              /\ rxQueue' = SubSeq(rxQueue, Missing(buf) + 1, Len(rxQueue))
      /\ pc' = "main"
      /\ UNCHANGED <<line, firmware, txQueue, host, mirror, fresh, bounds>>

\* It is none: the host is told, and the next STX is looked for.
Invalid ==
  LET buf == FromStx(curPacketBuf)
  IN  /\ pc = "parse" /\ Complete(buf) /\ ~Valid(buf)
      /\ curPacketBuf' = <<B(0)>> \o Tail(Filled(buf))
      /\ rxQueue' = SubSeq(rxQueue, Missing(buf) + 1, Len(rxQueue))
      /\ txQueue' = Transmitted(txQueue, <<Ack("INVALID_PACKET", 0)>>)
      /\ UNCHANGED <<line, pc, firmware, host, mirror, fresh, bounds>>

\* Mutant: a command that was a duplicate may be carried out again.
DuplicateNever(id) == FALSE

Duplicate(id) == id = lastPacketID

\* The overflow of a bus is reported when a report of it is due.
Due(b) == report[b] = 1 \/ (report[b] = 0 /\ overflowed[b])
Reports(id) == IF \E b \in Buses : Due(b) THEN <<Ack("OVERFLOW_OCCURRED", id)>> ELSE <<>>

\* Mutant: a report made is not remembered.
AfterReportDue == [b \in Buses |-> IF Due(b) THEN 1 ELSE report[b]]

AfterReport == [b \in Buses |-> IF Due(b) THEN 2 ELSE report[b]]

\* The overflow logic is armed again by GetInfo 3 and by a reset.
Rearms(cmd, data) == cmd = "ResetQBridge" \/ (cmd = "GetInfo" /\ data = <<3>>)

\* A command that is no duplicate: the overflow report, if one is due, then the
\* answer.  Both are lost when the transmit queue is full.
Dispatch(cmd, id, data, n, code, p) ==
  LET answers == Reports(id) \o <<Ack(code, id)>>
      room    == TxRoom - Len(txQueue)
  IN  /\ txQueue' = Transmitted(txQueue, answers)
      /\ fresh' = (fresh /\ (prefs.adv => Len(answers) <= room))
      /\ prefs' = p
      /\ executed' = IF code = "OK" THEN Append(executed, [n |-> n, cmd |-> cmd]) ELSE executed
      /\ told' = [b \in Buses |-> IF Rearms(cmd, data) THEN 0
                                  ELSE IF Due(b) /\ room > 0 THEN told[b] + 1 ELSE told[b]]
      /\ report' = IF Rearms(cmd, data) THEN Zeros ELSE AfterReport
      /\ overflowed' = IF Rearms(cmd, data) THEN None ELSE overflowed
      /\ lastPacketID' = IF cmd \in {"Init232", "ResetQBridge"} THEN -1 ELSE id

\* What is left in the parser behind a packet; a reset leaves nothing.
Behind(restarts, buf) ==
  IF restarts THEN curPacketBuf' = <<>> /\ rxQueue' = <<>> /\ line' = <<>>
  ELSE /\ curPacketBuf' = SubSeq(Filled(buf), CurPacketSize(buf) + 1, Len(Filled(buf)))
       /\ rxQueue' = SubSeq(rxQueue, Missing(buf) + 1, Len(rxQueue))
       /\ UNCHANGED line

\* Sends may be refused for want of room or of a bus, filters for what they are.
Refusals(cmd, data) ==
  IF cmd = "SendCANPacket" THEN {"UNABLE_TO_PROCESS", "BUS_FAULT"}
  ELSE IF cmd \in {"SendJ1708Packet", "RawJ1708"} THEN {"UNABLE_TO_PROCESS"}
  ELSE IF cmd = "CANcontrol" /\ SetsFilters(data) THEN {"INVALID_DATA", "UNABLE_TO_PROCESS"} ELSE {}

\* Process232Packet.
Process232Packet ==
  LET buf    == FromStx(curPacketBuf)
      packet == SubSeq(Filled(buf), 1, CurPacketSize(buf))
      cmd    == packet[3][2]
      id     == packet[4][2]
      data   == [i \in 1 .. Len(packet) - MinPacketSize |-> packet[i + 4][2]]
      said   == Process(cmd, data, prefs)
      refusals == IF said.code = "OK" THEN Refusals(cmd, data) ELSE {}
  IN  /\ pc = "parse" /\ Complete(buf) /\ Valid(buf)
      /\ pc' = "main"
      /\ Behind(cmd = "ResetQBridge" /\ ~Duplicate(id), buf)
      /\ IF cmd = "ACK" THEN UNCHANGED <<firmware, txQueue, fresh>>
         ELSE IF Duplicate(id)
         THEN /\ txQueue' = Transmitted(txQueue, <<Ack("DUPLICATE_PACKET", id)>>)
              /\ UNCHANGED <<firmware, fresh>>
         ELSE \E code \in {said.code} \cup refusals :
                Dispatch(cmd, id, data, packet[Len(packet)][4], code, said.prefs)
      /\ UNCHANGED <<host, mirror, bounds>>

-------------------------------------------------------------------------------
(* The rest of the firmware *)

\* What follows commutes with the parser's steps up to Process232Packet: it is
\* enough to let it happen when the parser has nothing.
Between == pc = "main" /\ rxQueue = <<>> /\ curPacketBuf = <<>>

MayHappen == faults + overflows + traffic < MaxEvents

\* A receive queue overflows (CAN_IRQ_Handler, J1708ComIRQHandle).  Only a
\* command looks at it: while one is on the line is soon enough.
Overflow(b) ==
  /\ Between /\ line # <<>>
  /\ MayHappen /\ overflows' = overflows + 1
  /\ overflowed' = [overflowed EXCEPT ![b] = TRUE]
  /\ UNCHANGED <<line, parser, lastPacketID, report, prefs, txQueue, host, mirror, executed,
                 told, fresh, faults, traffic>>

\* The link to the host sends a packet; with advRecvEnabled it does not wait for
\* the host and may fill the transmit queue.  While no command is under way it
\* concerns nobody here.
Traffic ==
  /\ Between /\ host.phase = "wait"
  /\ MayHappen /\ traffic < MaxTraffic /\ traffic' = traffic + 1
  /\ prefs.adv \/ \A i \in DOMAIN txQueue : txQueue[i].code # "packet"
  /\ txQueue' = Transmitted(txQueue, <<Ack("packet", 0)>>)
  /\ UNCHANGED <<line, parser, firmware, host, mirror, fresh, faults, overflows>>

-------------------------------------------------------------------------------
(* The line and the host *)

\* A byte is lost, or becomes an STX or something else; or an answer is
\* lost.  When a byte is next is soon enough.
LineFails ==
  /\ MayHappen /\ faults < MaxFaults /\ faults' = faults + 1
  /\ \/ /\ line # <<>>
        /\ line' \in {Tail(line)} \cup {<<x>> \o Tail(line) : x \in {Stx, B(100)}}
        /\ UNCHANGED txQueue
     \/ /\ txQueue # <<>> /\ txQueue' = Tail(txQueue)
        /\ UNCHANGED line
  /\ fresh' = FALSE
  /\ UNCHANGED <<parser, firmware, host, mirror, overflows, traffic>>

\* Nothing is under way.  The host waits for an answer longer (2 s and more) than
\* the firmware keeps a part of a packet (SERIAL_RECV_TIMEOUT, 0.75 s).
Silence == line = <<>> /\ rxQueue = <<>> /\ pc = "main" /\ curPacketBuf = <<>> /\ txQueue = <<>>

NextID(id) == IF id = MaxID THEN 1 ELSE id + 1

\* What a command leaves unknown until it is answered.
Unknown == [k |-> "unknown"]
Known(v) == [k |-> "known", v |-> v]
NothingKnown == [f \in DOMAIN Defaults |-> Unknown]
Touched(cmd, data) ==
  CASE cmd = "Init232" -> DOMAIN Defaults \ {"adv", "baud"}
    [] cmd = "MIDFilterEnable" -> {"midFilter"}
    [] cmd = "SetMIDState" -> {"mids"}
    [] cmd = "EnableJ1708TxConfirm" -> {"j1708Confirm", "canConfirm"}
    [] cmd = "CANcontrol" -> {f \in {"canConfirm", "notify", "auto"} :
                                 \/ f = "notify" /\ SetsNotify(data)
                                 \/ f = "auto" /\ SetsAuto(data)
                                 \/ Restores(data)}
    [] cmd = "Change232BaudRate" -> {"baud"}
    [] cmd = "AdvRecvMode" -> {"adv"}
    [] cmd = "ResetQBridge" -> DOMAIN Defaults
    [] OTHER -> {}
Forget(c) == [f \in DOMAIN mirror |-> IF f \in Touched(c.cmd, c.data) THEN Unknown ELSE mirror[f]]

\* The command is fresh if nothing stands in the way of an answer.
Sends(id, packet) ==
  /\ line' = line \o packet
  /\ fresh' = (Silence /\ host.baud = prefs.baud /\ id # lastPacketID)

\* The host gives a command.
HostCommand ==
  /\ host.phase = "idle" /\ host.n < MaxCommands
  /\ \E c \in Commands :
       /\ host' = [host EXCEPT !.phase = "wait", !.command = c, !.n = host.n + 1,
                               !.id = NextID(host.id), !.tries = 1]
       /\ Sends(NextID(host.id), Packet(c.cmd, NextID(host.id), c.data, host.n + 1))
  /\ UNCHANGED <<parser, firmware, txQueue, mirror, bounds>>

\* It repeats one that was not answered, under the same id (the protocol
\* document) or a new one (the driver), or gives it up.
HostTimeout ==
  /\ host.phase = "wait" /\ Silence
  /\ IF host.tries < MaxTries
     THEN LET id == IF host.newIds THEN NextID(host.id) ELSE host.id
          IN  /\ host' = [host EXCEPT !.tries = host.tries + 1, !.id = id]
              /\ Sends(id, Packet(host.command.cmd, id, host.command.data, host.n))
              /\ UNCHANGED mirror
     ELSE /\ host' = [host EXCEPT !.phase = "idle"]
          /\ mirror' = Forget(host.command)
          /\ UNCHANGED <<line, fresh>>
  /\ UNCHANGED <<parser, firmware, txQueue, bounds>>

\* What the host believes once a command is acknowledged.
Believed(c) ==
  [f \in DOMAIN mirror |->
     IF f \notin Touched(c.cmd, c.data) THEN mirror[f]
     ELSE IF c.cmd = "SetMIDState"
     THEN IF mirror.mids = Unknown THEN Unknown
          ELSE Known(Process(c.cmd, c.data, [Defaults EXCEPT !.mids = mirror.mids.v]).prefs.mids)
     ELSE Known(Process(c.cmd, c.data, Defaults).prefs[f])]

\* An answer.  One that accepts or refuses the command ends it.  A host of the
\* protocol document ends it at DUPLICATE_PACKET, OVERFLOW_OCCURRED and BUS_FAULT too, the
\* driver does not.  A command refused for its data may have been carried out in
\* part.  A packet of the buses is acknowledged, whatever else is under way.
HostReceives ==
  /\ txQueue # <<>>
  /\ txQueue' = Tail(txQueue)
  /\ LET a    == Head(txQueue)
         mine == host.phase = "wait" /\ a.id = host.id /\ a.baud = host.baud
         ends == mine /\ a.code \in {"OK", "INVALID_DATA", "UNABLE_TO_PROCESS"}
                   \cup IF host.newIds THEN {} ELSE {"DUPLICATE_PACKET", "OVERFLOW_OCCURRED", "BUS_FAULT"}
         c    == host.command
     IN  /\ IF ~ends THEN /\ fresh' = (fresh /\ ~(mine /\ a.code = "BUS_FAULT"))
                            /\ UNCHANGED <<host, mirror>>
            ELSE /\ host' = [host EXCEPT !.phase = "idle",
                            !.baud = IF c.cmd = "Change232BaudRate" /\ a.code = "OK"
                                     THEN LE32(c.data, 1)
                                     ELSE IF c.cmd = "ResetQBridge" THEN CoolRate ELSE @]
                 /\ mirror' = IF a.code = "OK" THEN Believed(c) ELSE Forget(c)
                 /\ fresh' = FALSE
         /\ line' = line \o IF a.code = "packet" THEN Packet("ACK", 1, <<48>>, 0) ELSE <<>>
  /\ UNCHANGED <<parser, firmware, bounds>>

-------------------------------------------------------------------------------
Init ==
  /\ line = <<>> /\ rxQueue = <<>> /\ pc = "main" /\ curPacketBuf = <<>>
  /\ lastPacketID = -1 /\ overflowed = None /\ report = Zeros /\ prefs = Defaults
  /\ txQueue = <<>>
  /\ \E new \in BOOLEAN :
       host = [phase |-> "idle", command |-> [cmd |-> "Init232", data |-> <<>>], n |-> 0,
               id |-> MaxID, tries |-> 0, newIds |-> new, baud |-> CoolRate]
  /\ mirror = NothingKnown /\ executed = <<>> /\ told = Zeros /\ fresh = FALSE
  /\ faults = 0 /\ overflows = 0 /\ traffic = 0

Parse == TakeTwo \/ Waits \/ Invalid \/ Process232Packet
Next ==
  \/ ByteArrives \/ ReceiveTimeout \/ Parse
  \/ \E b \in Buses : Overflow(b)
  \/ Traffic \/ LineFails
  \/ HostCommand \/ HostTimeout \/ HostReceives

Spec == Init /\ [][Next]_vars

-------------------------------------------------------------------------------
\* Whatever the line does to the bytes, commands are carried out in the order
\* the host gave them, and a host that repeats a command under its id has it
\* carried out once, except those that make the firmware forget the last id (the
\* checksum, the search for STX, lastPacketID).
ExecutedInOrder ==
  \A i, j \in DOMAIN executed : i < j =>
    /\ executed[i].n <= executed[j].n
    /\ ~host.newIds /\ executed[i].n = executed[j].n
         => executed[i].cmd \in {"Init232", "ResetQBridge"}

\* What the host was told is so: a setting whose last command was acknowledged
\* has the value the host gave it, whatever was damaged, repeated, cut short or
\* refused in between (filters and confirmations would be silently off).
SettingsAgree ==
  host.phase = "idle" =>
    \A f \in DOMAIN mirror : mirror[f].k = "known" => mirror[f].v = prefs[f]

\* An overflow of a bus is reported at most once until the host arms the report
\* again, however often queues overflow and commands come (can_overflow_report,
\* j1708_overflow_report).
OverflowToldOnce == \A b \in Buses : told[b] <= 1

\* A command that the host sends into silence, under an id the firmware has not
\* just seen, is answered before the host repeats it, whatever acknowledgements
\* and packets of the buses cross it: the parser keeps nothing back and, unless
\* advRecvEnabled is on, the transmit queue has room for the answer.
AnsweredInSilence == [][HostTimeout => ~fresh]_vars
===============================================================================
