------------------------------- MODULE HostLink -------------------------------
(***************************************************************************)
(* The stop-and-wait link from the firmware to the host driver over the    *)
(* RS-232 line (src/src/protocol232.c, and the receiving side of           *)
(* QBSerial.cs in the host's driver).  Packets for the host wait in        *)
(* txPackets; one at a time is transmitted, and transmitted again until    *)
(* the host acknowledges it or three attempts have failed.                 *)
(*                                                                         *)
(* The firmware's answers to the host's own commands share the line to the *)
(* host but change no state of this direction; they are left out.          *)
(*                                                                         *)
(* Every packet carries a stamp n, its place in the sequence of attempts   *)
(* to queue one.  Stamps, hostStamp, lastDelivered, delivered, tries and   *)
(* prompt are history: no guard reads them.                                *)
(***************************************************************************)
EXTENDS Integers, Sequences, CircleQueue
LOCAL INSTANCE Functions

CONSTANTS
  MaxPacketID,       \* largest packet id (255)
  MAX_232_RETRIES,   \* retransmissions of one packet (2)
  Commands,          \* what the firmware sends, a subset of AllCommands
  Disturbances,      \* what may go wrong, a subset of AllDisturbances
  NaksPerFault,      \* bound: ACK_INVALID_PACKETs for one garbled frame
  MaxPackets,        \* bound: calls of QueueTx232Packet
  MaxFaults,         \* bound: disturbances of the line
  MaxRequests,       \* bound: Init232 and AdvRecvMode commands of the host
  LineSize           \* bound: frames in flight in one direction

AllCommands == {"ReceivePacket", "TransmitConfirm", "CANbusErr"}

\* garbled: a packet reaches the host damaged; noise: the host takes noise or
\* another damaged frame for a packet; ack: a frame to the firmware is damaged;
\* late: the host answers later than SERIAL_TX_TIMEOUT.
AllDisturbances == {"garbled", "noise", "ack", "late"}

ASSUME SizeAssumption ==
  /\ MaxPacketID \in Nat \ {0}
  /\ MAX_232_RETRIES \in Nat
  /\ Commands \subseteq AllCommands
  /\ Disturbances \subseteq AllDisturbances
ASSUME BoundAssumption ==
  /\ NaksPerFault \in Nat /\ MaxPackets \in Nat /\ MaxFaults \in Nat
  /\ MaxRequests \in Nat /\ LineSize \in Nat \ {0}

VARIABLES
  txPackets,                 \* the packets in the ring of bytes
  packetID,                  \* id of the last packet queued
  awaiting232Ack,            \* the last packet sent is not yet acknowledged
  failCount,                 \* awaiting232FailCount
  last232,                   \* last232Command, last232PacketID, last232Data
  advRecvEnabled,            \* received bus packets need no acknowledgement
  toHost, toQBridge,         \* frames in flight
  lastRecvPktId,             \* the host's: id of the last bus packet it took
  queued, faults, requests,  \* counters for the bounds
  tries,                     \* history: transmissions of last232
  hostStamp,                 \* history: stamp that set lastRecvPktId
  lastDelivered, delivered,  \* history: bus packets and confirms delivered
  prompt                     \* history: the host has been prompt so far

queueVars   == <<txPackets, packetID>>
sendVars    == <<awaiting232Ack, failCount, last232, tries>>
hostVars    == <<lastRecvPktId, hostStamp, lastDelivered, delivered>>
boundVars   == <<queued, faults, requests>>
vars        == <<queueVars, sendVars, advRecvEnabled, toHost, toQBridge,
                 hostVars, boundVars, prompt>>

Stamps  == 1 .. MaxPackets
Packets == [cmd : AllCommands, id : 1 .. MaxPacketID, n : Stamps]

\* What last232 holds before the first transmission.
NoPacket == [cmd |-> "none", id |-> 0, n |-> 0]

Answers  == {"ACK_OK", "ACK_DUPLICATE_PACKET", "ACK_INVALID_PACKET"}
Requests == {"Init232", "AdvRecvOn", "AdvRecvOff"}

\* One length stands for the 3..20 data bytes of a bus packet; a confirmation
\* has 5 and a bus error none.
DataLen(cmd) == IF cmd = "CANbusErr" THEN 0 ELSE 5

\* QueueValidBytesCount: length, command and id precede the data in the ring.
ValidBytes(q) == FoldFunction(LAMBDA p, bytes : bytes + DataLen(p.cmd) + 3, 0, q)

-------------------------------------------------------------------------------
Init ==
  /\ txPackets = <<>> /\ packetID = 0
  /\ awaiting232Ack = FALSE /\ failCount = 0 /\ last232 = NoPacket
  /\ advRecvEnabled = FALSE
  /\ toHost = <<>> /\ toQBridge = <<>>
  /\ lastRecvPktId = 0
  /\ queued = 0 /\ faults = 0 /\ requests = 0
  /\ tries = 0 /\ hostStamp = 0 /\ lastDelivered = 0 /\ delivered = {}
  /\ prompt = TRUE

\* Mutant: a retransmission takes a new id, as a new packet would.
RetryLast232NewId(p) ==
  /\ LET sent == IF awaiting232Ack THEN [p EXCEPT !.id = (p.id % MaxPacketID) + 1] ELSE p
     IN  toHost' = IF Len(toHost) < LineSize THEN Append(toHost, sent) ELSE toHost
  /\ awaiting232Ack' = ~(advRecvEnabled /\ p.cmd = "ReceivePacket")

(***************************************************************************)
(* RetryLast232: transmit p, the packet that last232 is or becomes.  What  *)
(* the serial port has no room for is lost.  In advanced receive mode a    *)
(* bus packet is not waited for.                                           *)
(***************************************************************************)
RetryLast232(p) ==
  /\ toHost' = IF Len(toHost) < LineSize THEN Append(toHost, p) ELSE toHost
  /\ awaiting232Ack' = ~(advRecvEnabled /\ p.cmd = "ReceivePacket")

\* Mutant: gives up one attempt too early.
AttemptFailedEarly ==
  /\ failCount' = failCount + 1
  /\ IF failCount + 1 >= MAX_232_RETRIES
       THEN awaiting232Ack' = FALSE /\ UNCHANGED <<toHost, tries>>
       ELSE RetryLast232(last232) /\ tries' = tries + 1
  /\ UNCHANGED last232

\* One more attempt has failed: retransmit, or give up.
AttemptFailed ==
  /\ failCount' = failCount + 1
  /\ IF failCount + 1 > MAX_232_RETRIES
       THEN awaiting232Ack' = FALSE /\ UNCHANGED <<toHost, tries>>
       ELSE RetryLast232(last232) /\ tries' = tries + 1
  /\ UNCHANGED last232

\* SERIAL_TX_TIMEOUT has passed since the last transmission.  A host that is
\* never late leaves nothing in flight by then.
TimerMayExpire ==
  awaiting232Ack /\ ("late" \in Disturbances \/ (toHost = <<>> /\ toQBridge = <<>>))

(***************************************************************************)
(* Transmit232IfReady, for the contents q of the queue.                    *)
(***************************************************************************)
TimedOut(q) ==
  /\ TimerMayExpire
  /\ AttemptFailed
  /\ txPackets' = q
  /\ prompt' = (prompt /\ toHost = <<>> /\ toQBridge = <<>>)

StillWaiting(q) ==
  /\ awaiting232Ack
  /\ txPackets' = q
  /\ UNCHANGED <<sendVars, toHost, prompt>>

NothingReady(q) ==
  /\ ~awaiting232Ack /\ ValidBytes(q) < 4
  /\ txPackets' = q
  /\ UNCHANGED <<sendVars, toHost, prompt>>

SendNext(q) ==
  /\ ~awaiting232Ack /\ q # <<>> /\ ValidBytes(q) >= 4
  /\ last232' = Head(q)
  /\ txPackets' = Tail(q)
  /\ RetryLast232(Head(q))
  /\ failCount' = 0
  /\ tries' = 1
  /\ UNCHANGED prompt

\* Mutant: the wait for an acknowledgement has no timeout.
Transmit232IfReadyNoTimeout ==
  /\ SendNext(txPackets)
  /\ UNCHANGED <<packetID, advRecvEnabled, toQBridge, hostVars, boundVars>>

\* As the main loop calls it; a call that changes nothing is a stutter.
Transmit232IfReady ==
  /\ TimedOut(txPackets) \/ SendNext(txPackets)
  /\ UNCHANGED <<packetID, advRecvEnabled, toQBridge, hostVars, boundVars>>

(***************************************************************************)
(* QueueTx232Packet: take the next id (0 is skipped), queue the packet if  *)
(* the whole of it fits, and transmit if ready.  The id of a packet that   *)
(* is refused is used up.                                                  *)
(***************************************************************************)
\* Mutant: the id is not advanced.
NextPacketIDSame == IF packetID = 0 THEN 1 ELSE packetID

NextPacketID == IF packetID = MaxPacketID THEN 1 ELSE packetID + 1

Fits(cmd) == DataLen(cmd) + 3 <= QUEUE_SIZE - 1 - ValidBytes(txPackets)

NewPacket(cmd) == [cmd |-> cmd, id |-> NextPacketID, n |-> queued + 1]

Accept(cmd) ==
  LET q == Append(txPackets, NewPacket(cmd))
  IN  TimedOut(q) \/ StillWaiting(q) \/ NothingReady(q) \/ SendNext(q)

Refuse == UNCHANGED <<txPackets, sendVars, toHost, prompt>>

QueueTx232Packet(cmd) ==
  /\ queued < MaxPackets
  /\ queued' = queued + 1
  /\ packetID' = NextPacketID
  /\ IF Fits(cmd) THEN Accept(cmd) ELSE Refuse
  /\ UNCHANGED <<advRecvEnabled, toQBridge, hostVars, faults, requests>>

-------------------------------------------------------------------------------
(***************************************************************************)
(* Process232Packet, for the frames that concern this direction.  The id   *)
(* of an acknowledgement is not looked at, and neither is awaiting232Ack.  *)
(***************************************************************************)
FromHost(frames) == toQBridge # <<>> /\ Head(toQBridge) \in frames
                    /\ toQBridge' = Tail(toQBridge) /\ UNCHANGED prompt

\* Mutant: any acknowledgement code ends the wait.
ReceiveAnyAck ==
  /\ FromHost(Answers)
  /\ awaiting232Ack' = FALSE
  /\ UNCHANGED <<queueVars, failCount, last232, tries, advRecvEnabled, toHost,
                 hostVars, boundVars>>

ReceiveAck ==
  /\ FromHost({"ACK_OK", "ACK_DUPLICATE_PACKET"})
  /\ awaiting232Ack' = FALSE
  /\ UNCHANGED <<queueVars, failCount, last232, tries, advRecvEnabled, toHost,
                 hostVars, boundVars>>

ReceiveNak ==
  /\ FromHost({"ACK_INVALID_PACKET"})
  /\ AttemptFailed
  /\ UNCHANGED <<queueVars, advRecvEnabled, hostVars, boundVars>>

\* The queue and the packet in flight keep their ids.
ReceiveInit232 ==
  /\ FromHost({"Init232"})
  /\ packetID' = 0
  /\ UNCHANGED <<txPackets, sendVars, advRecvEnabled, toHost,
                 hostVars, boundVars>>

ReceiveAdvRecvMode ==
  /\ FromHost({"AdvRecvOn", "AdvRecvOff"})
  /\ advRecvEnabled' = (Head(toQBridge) = "AdvRecvOn")
  /\ UNCHANGED <<queueVars, sendVars, toHost, hostVars, boundVars>>

-------------------------------------------------------------------------------
(***************************************************************************)
(* The host: ProcessValidQBPacket.  A bus packet is passed on unless it    *)
(* has the id of the one before; a confirmation is acted upon whatever its *)
(* id; nothing else is answered.                                           *)
(***************************************************************************)
HostAnswers(answer) ==
  /\ Len(toQBridge) < LineSize
  /\ toQBridge' = Append(toQBridge, answer)

HostTakes(p) ==
  /\ toHost # <<>> /\ p = Head(toHost)
  /\ toHost' = Tail(toHost)
  /\ UNCHANGED <<queueVars, sendVars, advRecvEnabled, boundVars, prompt>>

HostDelivers(p) ==
  /\ HostTakes(p)
  /\ p.cmd = "ReceivePacket" /\ p.id # lastRecvPktId
  /\ HostAnswers("ACK_OK")
  /\ lastRecvPktId' = p.id /\ hostStamp' = p.n
  /\ lastDelivered' = p.n /\ delivered' = delivered \union {p.n}

HostDropsDuplicate(p) ==
  /\ HostTakes(p)
  /\ p.cmd = "ReceivePacket" /\ p.id = lastRecvPktId
  /\ HostAnswers("ACK_DUPLICATE_PACKET")
  /\ UNCHANGED hostVars

HostConfirms(p) ==
  /\ HostTakes(p)
  /\ p.cmd = "TransmitConfirm"
  /\ HostAnswers("ACK_OK")
  /\ delivered' = delivered \union {p.n}
  /\ UNCHANGED <<lastRecvPktId, hostStamp, lastDelivered>>

HostIgnores(p) ==
  /\ HostTakes(p)
  /\ p.cmd \notin {"ReceivePacket", "TransmitConfirm"}
  /\ UNCHANGED <<toQBridge, hostVars>>

HostRequests(request) ==
  /\ requests < MaxRequests
  /\ requests' = requests + 1
  /\ HostAnswers(request)
  /\ prompt' = FALSE
  /\ UNCHANGED <<queueVars, sendVars, advRecvEnabled, toHost, hostVars,
                 queued, faults>>

-------------------------------------------------------------------------------
(***************************************************************************)
(* Disturbances.  What the host makes of damaged bytes: a bad checksum is  *)
(* passed over in silence, a bad length is answered, once or more often.   *)
(***************************************************************************)
Disturb(kind) ==
  /\ kind \in Disturbances
  /\ faults < MaxFaults
  /\ faults' = faults + 1
  /\ UNCHANGED <<queueVars, sendVars, advRecvEnabled, hostVars, queued, requests>>

\* Frames of the same kind in a row.
Naks(k) == [i \in 1 .. k |-> "ACK_INVALID_PACKET"]

GarbledToHost(k) ==
  /\ Disturb("garbled")
  /\ toHost # <<>> /\ toHost' = Tail(toHost)
  /\ Len(toQBridge) + k <= LineSize
  /\ toQBridge' = toQBridge \o Naks(k)
  /\ prompt' = (prompt /\ k <= 1)

NoiseToHost ==
  /\ Disturb("noise")
  /\ HostAnswers("ACK_INVALID_PACKET")
  /\ prompt' = FALSE
  /\ UNCHANGED toHost

GarbledToQBridge ==
  /\ Disturb("ack")
  /\ toQBridge # <<>> /\ toQBridge' = Tail(toQBridge)
  /\ UNCHANGED <<toHost, prompt>>

-------------------------------------------------------------------------------
HostReceives ==
  \E p \in Packets \union {NoPacket} :
    HostDelivers(p) \/ HostDropsDuplicate(p) \/ HostConfirms(p) \/ HostIgnores(p)

FirmwareReceives == ReceiveAck \/ ReceiveNak \/ ReceiveInit232 \/ ReceiveAdvRecvMode

LineFails == (\E k \in 0 .. NaksPerFault : GarbledToHost(k))
             \/ NoiseToHost \/ GarbledToQBridge

Next ==
  \/ \E cmd \in Commands : QueueTx232Packet(cmd)
  \/ Transmit232IfReady
  \/ FirmwareReceives
  \/ HostReceives
  \/ \E request \in Requests : HostRequests(request)
  \/ LineFails

Spec == Init /\ [][Next]_vars

\* The main loop calls Transmit232IfReady for ever and its clock runs: nothing
\* is assumed of the host, which may be switched off.
FairSpec == Spec /\ WF_vars(Transmit232IfReady)

-------------------------------------------------------------------------------
TypeOK ==
  /\ txPackets \in Seq(Packets)
  /\ packetID \in 0 .. MaxPacketID
  /\ awaiting232Ack \in BOOLEAN /\ failCount \in Nat
  /\ last232 \in Packets \union {NoPacket}
  /\ advRecvEnabled \in BOOLEAN
  /\ toHost \in Seq(Packets \union {NoPacket})
  /\ toQBridge \in Seq(Answers \union Requests)
  /\ lastRecvPktId \in 0 .. MaxPacketID
  /\ queued \in 0 .. MaxPackets /\ faults \in 0 .. MaxFaults
  /\ requests \in 0 .. MaxRequests
  /\ tries \in Nat
  /\ hostStamp \in 0 .. MaxPackets /\ lastDelivered \in 0 .. MaxPackets
  /\ delivered \subseteq Stamps
  /\ prompt \in BOOLEAN

(***************************************************************************)
(* The inductive strengthenings.  OrderInv: frames in flight come in the   *)
(* order of their stamps, frames of one stamp are copies of one packet,    *)
(* nothing in flight is older than what the host took last, and a copy of  *)
(* that has the id the host remembers.                                     *)
(***************************************************************************)
QueueInOrder(q, last, count) ==
  /\ last.n <= count
  /\ \A i \in 1 .. Len(q) : last.n < q[i].n /\ q[i].n <= count
  /\ \A i, j \in 1 .. Len(q) : i < j => q[i].n < q[j].n

FlightInOrder(line, last) ==
  /\ \A i \in 1 .. Len(line) :
       line[i].n <= last.n /\ (line[i].n = last.n => line[i] = last)
  /\ \A i, j \in 1 .. Len(line) :
       i < j => /\ line[i].n <= line[j].n
                /\ line[i].n = line[j].n => line[i] = line[j]

HostBehind(p) == hostStamp <= p.n /\ (hostStamp = p.n /\ p.n # 0 => p.id = lastRecvPktId)

OrderInv ==
  /\ QueueInOrder(txPackets, last232, queued)
  /\ FlightInOrder(toHost, last232)
  /\ HostBehind(last232)
  /\ \A i \in 1 .. Len(toHost) : HostBehind(toHost[i])
  /\ lastDelivered = hostStamp

\* The failures counted are the transmissions made, up to the last allowed.
TriesInv ==
  LET first == IF last232 = NoPacket THEN 0 ELSE 1
  IN  tries = first + (IF failCount > MAX_232_RETRIES THEN MAX_232_RETRIES ELSE failCount)

(***************************************************************************)
(* An acknowledgement can be trusted as long as the host has answered in   *)
(* time (no timeout with a frame in flight), noise was not taken for a     *)
(* packet, a damaged frame was answered at most once, the host has neither *)
(* initialised the link again nor asked for another receive mode (all this *)
(* is prompt), and no id has been used twice.                              *)
(***************************************************************************)
Prompt == prompt /\ queued <= MaxPacketID

\* Then one frame is in flight, a copy of last232 or the answer to one.
OneInFlight ==
  /\ ~awaiting232Ack => toHost = <<>> /\ toQBridge = <<>>
  /\ toHost # <<>> => Len(toHost) = 1 /\ toHost[1] = last232 /\ toQBridge = <<>>
  /\ toQBridge # <<>> =>
       /\ Len(toQBridge) = 1 /\ toQBridge[1] \in Answers
       /\ toQBridge[1] # "ACK_INVALID_PACKET" => last232.n \in delivered

IdsAreStamps ==
  /\ packetID = queued
  /\ last232.id = last232.n
  /\ \A i \in 1 .. Len(txPackets) : txPackets[i].id = txPackets[i].n
  /\ lastRecvPktId = hostStamp
  /\ hostStamp # 0 => hostStamp \in delivered

PromptInv == Prompt => OneInFlight /\ IdsAreStamps /\ ~advRecvEnabled

(***************************************************************************)
(* What the host passes on is newer than every bus packet it passed on     *)
(* before: retransmissions, stale acknowledgements and lost frames neither *)
(* duplicate nor reorder a received bus packet.                            *)
(***************************************************************************)
DeliveredOnceInOrder ==
  [][\A p \in Packets : HostDelivers(p) => p.n > lastDelivered]_vars

(***************************************************************************)
(* The firmware abandons a packet it still waits for only after it has     *)
(* been transmitted MAX_232_RETRIES + 1 times (three consecutive failures  *)
(* in the protocol document), and never transmits it more often.           *)
(***************************************************************************)
GivesUpAfterThree ==
  [][/\ awaiting232Ack /\ ~awaiting232Ack' /\ ~ReceiveAck /\ ~advRecvEnabled
        /\ last232 # NoPacket
          => tries = MAX_232_RETRIES + 1
     /\ tries' <= MAX_232_RETRIES + 1]_vars

(***************************************************************************)
(* While the host is prompt, an acknowledgement that ends the wait for a   *)
(* packet means that the host has that packet, whose id the firmware does  *)
(* not compare.                                                            *)
(***************************************************************************)
AckedWasDelivered ==
  [][Prompt /\ ReceiveAck /\ awaiting232Ack => last232.n \in delivered]_vars

(***************************************************************************)
(* While the host is prompt, what it rejects as a duplicate is the packet  *)
(* it took last, and no other that was given its id.                       *)
(***************************************************************************)
DuplicateWasSeen ==
  [][\A p \in Packets : Prompt /\ HostDropsDuplicate(p) => p.n = hostStamp]_vars

(***************************************************************************)
(* Both: while the host is prompt, what it answers to a packet is true of  *)
(* that packet, not of one before it.                                      *)
(***************************************************************************)
AnswersAreTrue == AckedWasDelivered /\ DuplicateWasSeen

(***************************************************************************)
(* Whatever the host does, a packet with data in the queue is eventually   *)
(* transmitted: the wait for the one before it always ends.  A bus error,  *)
(* three bytes in all, waits for the packet after it.                      *)
(***************************************************************************)
Queued(n) == \E i \in DOMAIN txPackets :
               txPackets[i].n = n /\ DataLen(txPackets[i].cmd) > 0

EventuallySent == \A n \in Stamps : Queued(n) ~> ~Queued(n)
===============================================================================
