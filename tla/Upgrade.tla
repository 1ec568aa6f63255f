------------------------------- MODULE Upgrade -------------------------------
(***************************************************************************)
(* A firmware upgrade: the bootloader (src/bootloader/src/), the image the *)
(* build tools make (SRecord), and the two programs that send it line by   *)
(* line, the upgrade tool (QBridgeFirmwareUpgradeCE) and the host driver.  *)
(*                                                                         *)
(* The line to the device loses or damages what is sent, answers are       *)
(* damaged too, the power fails at any moment, and flash can only be       *)
(* programmed after it was erased.  Only what the sender and the device    *)
(* can tell apart is kept of an answer: ACK, NAK, or some other text.      *)
(***************************************************************************)
EXTENDS SRecord

CONSTANTS
  FirmwareStartAddr,  \* _FirmwareStartAddr (0x40002000)
  FlashBase,          \* address of bank 0, where the bootloader is (0x40000000)
  RegionSize,         \* bytes S0 has erased (128 * 1024)
  MaxAttempts,        \* times the tool sends a line (3)
  MaxProbes,          \* times the tool looks for the bootloader (30)
  LinkerFiles,        \* what the linker may produce
  OldFile,            \* the S-record file of the firmware that is in flash
  FlashSize,          \* bound: bytes of flash kept, from FirmwareStartAddr
  MaxFaults,          \* bound: disturbances of the line
  MaxCuts,            \* bound: power failures
  MaxSessions         \* bound: upgrades attempted

ASSUME UpgradeAssumption ==
  /\ FirmwareStartAddr \in Nat /\ FlashBase \in Nat /\ RegionSize \in Nat
  /\ FlashBase < FirmwareStartAddr
  /\ MaxAttempts \in Nat \ {0} /\ MaxProbes \in Nat /\ MaxProbes >= 3
  /\ FlashSize \in Nat /\ FlashSize >= HdrSize
  /\ MaxFaults \in Nat /\ MaxCuts \in Nat /\ MaxSessions \in Nat

VARIABLES
  flash,                 \* what flash holds
  device,                \* "reset", "bootloader" or "firmware"
  bootFlag,              \* BootFlag = BOOTFLAG_ENTER_BL
  image, hex, bin,       \* the files the tools made
  sender, pc, nLines, retryCount, loopCount, result, \* the sender
  rx, tx,                \* the serial line, to and from the device
  faults, cuts, sessions \* counters for the bounds

deviceVars == <<flash, device, bootFlag>>
fileVars   == <<image, hex, bin>>
senderVars == <<sender, pc, nLines, retryCount, loopCount, result>>
boundVars  == <<faults, cuts, sessions>>
upgradeVars == <<deviceVars, fileVars, senderVars, rx, tx, boundVars>>

Answers == {"ACK", "NAK", "text"}
Name    == <<"qbridge.srec">>

\* What the link script (qbridge.x) and flash have in common: the bootloader has
\* the first sector to itself, the firmware begins with a double word of flash,
\* as do the lines of a written file, and its header is in the region erased.
KB == 1024
ASSUME LayoutAssumption ==
  /\ FlashBase + 8 * KB <= FirmwareStartAddr
  /\ FirmwareStartAddr % (2 * Word) = 0 /\ Chunk % (2 * Word) = 0
  /\ HdrSize <= RegionSize

\* Files sreccrc can read; the memory it reads from one, and the firmware's code.
Readable   == {file \in LinkerFiles \cup {OldFile} : ReadSRecFile(file) # <<>>}
Buffer(file) == ReadSRecFile(file)[1].buf
Length(file) == Cardinality(DOMAIN Buffer(file))
CodeOf(file) ==
  Segment(Buffer(file), FirmwareStartAddr + HdrSize, FirmwareStartAddr + Length(file))

\* The linker puts the header at the start of the firmware.
ASSUME LinkerAssumption ==
  \A file \in Readable :
     /\ ReadSRecFile(file)[1].minAddr = FirmwareStartAddr
     /\ Length(file) \in Nat /\ Length(file) >= HdrSize
     /\ DOMAIN Buffer(file) = FirmwareStartAddr .. FirmwareStartAddr + Length(file) - 1

\* In the header the linker leaves the padding behind the CRC zero, and the
\* entry is a symbol of the code (crcTbl, main.c:84): it goes with the code.
ASSUME HeaderAssumption ==
  \A one, other \in Readable : CodeOf(one) = CodeOf(other) =>
     \A a \in FirmwareStartAddr + 2 * Word + (Word \div 2) .. FirmwareStartAddr + HdrSize - 1 :
        Buffer(one)[a] = Buffer(other)[a]

\* What is sent to the device: a line of the image, "A\r\n", or the packet that
\* has the firmware reset into the bootloader.  'whole' lines end in LF.
Sent(kind, line) == [kind |-> kind, line |-> line, whole |-> kind # "command"]
Probe   == Sent("probe", Line(0, 0, <<>>))
Command == Sent("command", Line(0, 0, <<>>))
ARecord(line) == Sent("record", line)

-------------------------------------------------------------------------------
(* flash.c *)

Firmware  == FirmwareStartAddr .. FirmwareStartAddr + FlashSize - 1
Addresses == {FlashBase} \cup Firmware

\* Bank 0: four sectors of 8K, one of 32K, three of 64K.
FlashGetSectorNumber(addr) ==
  LET a == addr - FlashBase
  IN  IF a < 32 * KB THEN a \div (8 * KB) ELSE 4 + a \div (64 * KB)

\* Mutant: the first sector of the region is left out.
FlashEraseRegionLate(f, addr, len) ==
  LET sectors == FlashGetSectorNumber(addr) + 1 .. FlashGetSectorNumber(addr + len)
  IN  [a \in Addresses |-> IF FlashGetSectorNumber(a) \in sectors THEN Erased ELSE f[a]]

\* The sectors from the first to the last of the region, and all in between.
FlashEraseRegion(f, addr, len) ==
  LET sectors == FlashGetSectorNumber(addr) .. FlashGetSectorNumber(addr + len)
  IN  [a \in Addresses |-> IF FlashGetSectorNumber(a) \in sectors THEN Erased ELSE f[a]]

\* Flash cells only take a new value when erased; anything else is an error.
Takes(f, a, byte) == a \in Addresses /\ f[a] \in {Erased, byte}
Program(f, a, byte) == IF f[a] = Erased THEN byte ELSE IF f[a] = byte THEN byte ELSE Junk

\* Where the writes of a buffer start: at the beginning, at every word, but
\* not in the second half of a double word.
UnitStarts(addr, len) ==
  LET second(a) == /\ a % (2 * Word) = Word
                   /\ a - Word >= addr /\ addr + len - (a - Word) >= 2 * Word
  IN  {addr} \cup {a \in addr .. addr + len - 1 : a % Word = 0 /\ ~second(a)}

\* The writes before 'stop' are done.
WriteUpTo(f, data, addr, stop) ==
  [a \in Addresses |->
     IF a \in addr .. addr + Len(data) - 1 /\ a < stop
     THEN Program(f, a, data[a - addr + 1]) ELSE f[a]]

\* Where the writing of a buffer ends: behind the first write that fails.
WriteStop(f, data, addr) ==
  LET end     == addr + Len(data)
      starts  == UnitStarts(addr, Len(data))
      unit(s) == {a \in s .. end - 1 : \A t \in starts : t <= s \/ a < t}
      failed  == {s \in starts : \E a \in unit(s) : ~Takes(f, a, data[a - addr + 1])}
  IN  IF failed = {} THEN end + 1 ELSE Max(unit(Min(failed))) + 1

FlashWriteBuffer(f, data, addr) ==
  [flash |-> WriteUpTo(f, data, addr, WriteStop(f, data, addr)),
   error |-> WriteStop(f, data, addr) <= addr + Len(data)]

-------------------------------------------------------------------------------
(* misc.c and main.c of the bootloader *)

\* Mutant: the CRC is not looked at.
KrnlPresentUnchecked(f) ==
  /\ HasMagic(f, FirmwareStartAddr)
  /\ \E n \in HdrSize .. FlashSize : f[FirmwareStartAddr + Word] = LenByte(n)

\* bootKRNL's check: the magic, a length, and the CRC of all that follows the
\* header.  A length or CRC put together from different files matches nothing.
KrnlPresent(f) ==
  LET start == FirmwareStartAddr
  IN  /\ HasMagic(f, start)
      /\ \E n \in HdrSize .. FlashSize :
           /\ \A a \in CodeLenField(start) : f[a] = LenByte(n)
           /\ \A a \in CrcField(start) :
                f[a] = CrcByte(Segment(f, start + HdrSize, start + n))

\* main: a requested bootloader is entered once; otherwise the firmware runs if
\* there is one.  The serial port starts empty.
Boot ==
  /\ device = "reset"
  /\ LET enter == bootFlag \/ ~KrnlPresent(flash)
     IN  /\ device' = IF enter THEN "bootloader" ELSE "firmware"
         /\ tx' = IF enter THEN Append(tx, "text") ELSE tx
  /\ bootFlag' = FALSE
  /\ rx' = <<>>
  /\ UNCHANGED <<flash, fileVars, senderVars, boundVars>>

\* A line passes CheckSRecord when it is one line, complete and undamaged.
CheckSRecord(lines) ==
  Len(lines) = 1 /\ lines[1].kind = "record" /\ lines[1].line.defect = "none"

\* S0 erases if it names the firmware; S3 writes, and a failure is only printed;
\* S7 acknowledges and boots, and is acknowledged again if that fails.
ProcessSRecord(l) ==
  CASE l.t = 0 ->
         [flash |-> IF l.data = Name THEN FlashEraseRegion(flash, FirmwareStartAddr, RegionSize)
                    ELSE flash,
          answers |-> <<"ACK">>, boots |-> FALSE]
    [] l.t = 3 ->
         LET w == FlashWriteBuffer(flash, l.data, l.addr)
         IN  [flash |-> w.flash, answers |-> IF w.error THEN <<"text", "ACK">> ELSE <<"ACK">>,
              boots |-> FALSE]
    [] l.t = 7 ->
         [flash |-> flash, boots |-> KrnlPresent(flash),
          answers |-> IF KrnlPresent(flash) THEN <<"ACK">> ELSE <<"ACK", "text", "ACK">>]
    [] OTHER -> [flash |-> flash, answers |-> <<"NAK">>, boots |-> FALSE]

\* What GetLine may take: everything up to a line's end, and of what has come
\* in behind it any number of lines with their ends.
Lines(k) == SubSeq(rx, 1, k)
MayTake(k) == rx[k].whole

\* The loop of the bootloader: get a line, answer it, act on it.
BootloaderLine ==
  /\ device = "bootloader"
  /\ \E k \in DOMAIN rx :
       /\ MayTake(k)
       /\ rx' = SubSeq(rx, k + 1, Len(rx))
       /\ IF CheckSRecord(Lines(k))
          THEN LET p == ProcessSRecord(rx[1].line)
               IN  /\ flash' = p.flash
                   /\ tx' = tx \o p.answers
                   /\ device' = IF p.boots THEN "firmware" ELSE device
          ELSE tx' = Append(tx, "NAK") /\ UNCHANGED <<flash, device>>
  /\ UNCHANGED <<bootFlag, fileVars, senderVars, boundVars>>

\* A line came in together with the beginning of the next: nothing is answered,
\* and the rest of the next line is no record any more.
BootloaderSplits ==
  /\ device = "bootloader"
  /\ \E k \in 1 .. Len(rx) - 1 :
       /\ MayTake(k)
       /\ rx' = <<[rx[k + 1] EXCEPT !.line.defect = "char"]>> \o SubSeq(rx, k + 2, Len(rx))
  /\ UNCHANGED <<deviceVars, fileVars, senderVars, tx, boundVars>>

\* The running firmware resets into the bootloader when told to, and answers
\* anything else with a packet, or not at all (protocol232.c).
FirmwareReads ==
  /\ device = "firmware" /\ rx # <<>>
  /\ rx' = Tail(rx)
  /\ IF Head(rx).kind = "command"
     THEN device' = "reset" /\ bootFlag' = TRUE /\ tx' = Append(tx, "text")
     ELSE tx' \in {tx, Append(tx, "text")} /\ UNCHANGED <<device, bootFlag>>
  /\ UNCHANGED <<flash, fileVars, senderVars, boundVars>>

\* What flash may look like when the power fails: an erasure half done, or a
\* line half written.
HalfDone ==
  IF ~(device = "bootloader" /\ rx # <<>> /\ CheckSRecord(Lines(1)) /\ MayTake(1)) THEN {flash}
  ELSE LET l == rx[1].line
       IN  CASE l.t = 0 -> {flash, [a \in Addresses |->
                              IF ProcessSRecord(l).flash[a] # flash[a] THEN Junk ELSE flash[a]]}
             [] l.t = 3 -> {WriteUpTo(flash, l.data, l.addr, s) :
                              s \in {t \in UnitStarts(l.addr, Len(l.data)) :
                                       t < WriteStop(flash, l.data, l.addr)}}
             [] OTHER -> {flash}

PowerFails ==
  /\ cuts < MaxCuts /\ cuts' = cuts + 1
  /\ device' = "reset" /\ rx' = <<>>
  /\ bootFlag' \in {FALSE, bootFlag}
  /\ flash' \in HalfDone
  /\ UNCHANGED <<fileVars, senderVars, tx, faults, sessions>>

-------------------------------------------------------------------------------
(* The build, the line, and the start of an upgrade *)

\* The makefile: sreccrc on what the linker made, srec2hex and crc on the result.
\* When sreccrc gives up there is nothing to send.
Build ==
  /\ image = <<>>
  /\ \E file \in LinkerFiles :
       /\ image' = SrecCrc(file, Name) /\ image' # <<>>
       /\ hex' = Srec2Hex(image')
       /\ bin' = BinaryOf(image')
  /\ UNCHANGED <<deviceVars, senderVars, rx, tx, boundVars>>

\* The device is up and has answered all it is going to answer.
Settled ==
  \/ device = "firmware" /\ rx = <<>>
  \/ device = "bootloader" /\ \A k \in DOMAIN rx : ~rx[k].whole

\* What may arrive of something sent: all of it; with a fault a damaged line, a
\* line that lost its end, or nothing.  A line sent while the device is busy
\* with another overruns its receiver, which needs no fault.
Arrives(m) ==
  LET damaged == {[m EXCEPT !.line.defect = "checksum"], [m EXCEPT !.whole = FALSE]}
  IN  IF device = "bootloader" /\ ~Settled
      THEN /\ rx' \in {rx \o q : q \in {<<>>, <<m>>} \cup {<<d>> : d \in damaged}}
           /\ UNCHANGED faults
      ELSE \/ rx' = Append(rx, m) /\ UNCHANGED faults
           \/ /\ faults < MaxFaults /\ faults' = faults + 1
              /\ rx' \in {rx} \cup {Append(rx, d) : d \in damaged}

\* An answer is lost or damaged on its way.
AnswerFails ==
  /\ faults < MaxFaults /\ faults' = faults + 1
  /\ \E i \in DOMAIN tx :
       tx' \in {RemoveAt(tx, i), [tx EXCEPT ![i] = "text"]}
  /\ UNCHANGED <<deviceVars, fileVars, senderVars, rx, cuts, sessions>>

\* Someone starts an upgrade, with the tool or over the driver.  The driver
\* sends nothing before the firmware has acknowledged UPGRADE_FIRMWARE.
Start ==
  /\ image # <<>> /\ pc = "idle" /\ sessions < MaxSessions
  /\ sessions' = sessions + 1
  /\ sender' \in {"tool", "driver"}
  /\ sender' = "driver" => device = "firmware" /\ rx = <<>>
  /\ rx' = Append(rx, Command)
  /\ nLines' = 1 /\ retryCount' = 0 /\ loopCount' = 0 /\ result' = "none"
  /\ pc' = IF sender' = "tool" THEN "probe" ELSE "greet"
  /\ tx' = <<>>
  /\ UNCHANGED <<deviceVars, fileVars, faults, cuts>>

Ends(r) == result' = r /\ pc' = "idle"

\* The user closes the tool when it waits for an answer that will not come.
Killed ==
  /\ sender = "tool" /\ pc = "wait" /\ Settled /\ tx = <<>>
  /\ Ends("failed")
  /\ UNCHANGED <<deviceVars, fileVars, sender, nLines, retryCount, loopCount, rx, tx, boundVars>>

-------------------------------------------------------------------------------
(* The upgrade tool (Form1.cs) *)

\* "A\r\n", until the bootloader answers it.  Starting takes the device less
\* than the time of all the probes: it is up before the last two.
ToolProbes ==
  /\ sender = "tool" /\ pc = "probe"
  /\ device = "reset" => loopCount < MaxProbes - 2
  /\ IF loopCount < MaxProbes
     THEN /\ Arrives(Probe) /\ loopCount' = loopCount + 1
          /\ pc' = "listen" /\ UNCHANGED result
     ELSE Ends("failed") /\ UNCHANGED <<rx, faults, loopCount>>
  /\ UNCHANGED <<deviceVars, fileVars, sender, nLines, retryCount, tx, cuts, sessions>>

\* 100 ms later all answers are in, unless the device is still starting.  What
\* was received is flushed before the first line.
ToolListens ==
  /\ sender = "tool" /\ pc = "listen"
  /\ device = "reset" \/ Settled
  /\ pc' = IF tx # <<>> /\ Head(tx) = "NAK" THEN "send" ELSE "probe"
  /\ tx' = <<>>
  /\ UNCHANGED <<deviceVars, fileVars, sender, nLines, retryCount, loopCount, result, rx, boundVars>>

ToolSends ==
  /\ sender = "tool" /\ pc = "send"
  /\ Arrives(ARecord(image[nLines]))
  /\ retryCount' = retryCount + 1
  /\ pc' = "wait"
  /\ UNCHANGED <<deviceVars, fileVars, sender, nLines, loopCount, result, tx, cuts, sessions>>

\* A read takes some of what was answered.  Only the 'good' answers count;
\* anything else has the line sent again, 'attempts' times in all.  Without an
\* answer it waits for ever: the time limit compares a component of a time span
\* that is never above 999 with 10800.
ReadsAnswer(attempts, good) ==
  /\ sender = "tool" /\ pc = "wait"
  /\ \E n \in DOMAIN tx :
       /\ tx' = SubSeq(tx, n + 1, Len(tx))
       /\ IF \A i \in 1 .. n : tx[i] \in good
          THEN /\ retryCount' = 0 /\ nLines' = nLines + 1
               /\ IF nLines = Len(image) THEN Ends("complete")
                  ELSE pc' = "send" /\ UNCHANGED result
          ELSE /\ IF retryCount < attempts THEN pc' = "send" /\ UNCHANGED result
                  ELSE Ends("failed")
               /\ UNCHANGED <<retryCount, nLines>>
  /\ UNCHANGED <<deviceVars, fileVars, sender, loopCount, rx, boundVars>>

\* Mutant: a NAK is good enough.
ToolReadsAny == ReadsAnswer(MaxAttempts, {"ACK", "NAK"})
ToolReads    == ReadsAnswer(MaxAttempts, {"ACK"})

-------------------------------------------------------------------------------
(* The driver (QBSerial.cs) *)

\* Three seconds after the command was acknowledged.
DriverGreets ==
  /\ sender = "driver" /\ pc = "greet" /\ Settled
  /\ Arrives(Probe)
  /\ pc' = "parse"
  /\ UNCHANGED <<deviceVars, fileVars, sender, nLines, retryCount, loopCount, result, tx, cuts, sessions>>

\* ParseFWUpgrade: an ACK or a NAK at the end of what has come in brings the
\* next line, or the end.
DriverParses ==
  /\ sender = "driver" /\ pc = "parse"
  /\ \E n \in DOMAIN tx :
       /\ tx' = SubSeq(tx, n + 1, Len(tx))
       /\ IF tx[n] = "text" THEN UNCHANGED <<nLines, pc, result, rx, faults>>
          ELSE IF nLines > Len(image)
               THEN Ends("complete") /\ UNCHANGED <<nLines, rx, faults>>
               ELSE /\ Arrives(ARecord(image[nLines])) /\ nLines' = nLines + 1
                    /\ UNCHANGED <<pc, result>>
  /\ UNCHANGED <<deviceVars, fileVars, sender, retryCount, loopCount, cuts, sessions>>

\* ComReplyTimeOut: the device does not answer.
DriverTimesOut ==
  /\ sender = "driver" /\ pc = "parse" /\ Settled /\ tx = <<>>
  /\ Ends("failed")
  /\ UNCHANGED <<deviceVars, fileVars, sender, nLines, retryCount, loopCount, rx, tx, boundVars>>

-------------------------------------------------------------------------------
\* Flash holds the old firmware, whole, or nothing.
OldFlash ==
  LET mem == Loaded(SrecCrc(OldFile, Name))
  IN  [a \in Addresses |-> IF a = FlashBase THEN <<"bootloader">>
                           ELSE IF a \in DOMAIN mem THEN mem[a] ELSE Erased]
BlankFlash == [a \in Addresses |-> IF a = FlashBase THEN <<"bootloader">> ELSE Erased]

UpgradeInit ==
  /\ flash \in {OldFlash, BlankFlash}
  /\ device = "reset" /\ bootFlag = FALSE
  /\ image = <<>> /\ hex = <<>> /\ bin = <<>>
  /\ sender = "tool" /\ pc = "idle" /\ result = "none"
  /\ nLines = 1 /\ retryCount = 0 /\ loopCount = 0
  /\ rx = <<>> /\ tx = <<>>
  /\ faults = 0 /\ cuts = 0 /\ sessions = 0

DeviceStep == Boot \/ BootloaderLine \/ BootloaderSplits \/ FirmwareReads
ToolStep   == ToolProbes \/ ToolListens \/ ToolSends \/ ToolReads
DriverStep == DriverGreets \/ DriverParses
UpgradeNext ==
  \/ Build \/ Start \/ Killed
  \/ DeviceStep \/ ToolStep \/ DriverStep \/ DriverTimesOut
  \/ PowerFails \/ AnswerFails

UpgradeSpec ==
  /\ UpgradeInit /\ [][UpgradeNext]_upgradeVars
  /\ WF_upgradeVars(DeviceStep) /\ WF_upgradeVars(ToolStep) /\ WF_upgradeVars(DriverStep)

-------------------------------------------------------------------------------
\* Flash holds every byte of the S-record file 'file'.
Holds(f, file) ==
  /\ file # <<>>
  /\ \A a \in DOMAIN Loaded(file) : f[a] = Loaded(file)[a]

\* Whatever happens to the line, the power and the programs on either side of
\* it, the firmware that runs is the old or the new one from its first byte to
\* its last, and the bootloader, which is needed to try again, is untouched
\* (bootKRNL's checks, and what FlashEraseRegion leaves alone).
BootsOnlyWhole ==
  /\ device = "firmware" => Holds(flash, image) \/ Holds(flash, SrecCrc(OldFile, Name))
  /\ flash[FlashBase] = <<"bootloader">>

\* "Upgrade complete" of the tool is true: as long as the power does not fail,
\* every line of the file is in flash, although lines and answers are damaged
\* and lines are sent twice.
DoneMeansFlashed ==
  sender = "tool" /\ result = "complete" /\ cuts = 0 => Holds(flash, image)

\* Left alone by faults and power failures an upgrade, by the tool or over the
\* driver, of a device that was up when it started ends with the new firmware
\* running.
EventuallyUpgraded ==
  LET begun == rx # <<>> /\ rx[1].kind = "command" /\ device # "reset"
  IN  [](faults = 0 /\ cuts = 0) =>
        (begun ~> device = "firmware" /\ Holds(flash, image))
===============================================================================
