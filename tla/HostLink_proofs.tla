---------------------------- MODULE HostLink_proofs ----------------------------
(***************************************************************************)
(* Theorems about the serial port, about the host link on it, and their    *)
(* proofs.  On the port no byte changes its place and answers are out      *)
(* before the settings change.  On the link types, delivery once and in    *)
(* order and the three attempts hold on any line with any host; that an    *)
(* acknowledgement proves delivery holds as long as the host is prompt.    *)
(***************************************************************************)
EXTENDS HostLink, SerialPort, SequenceTheorems, TLAPS

-------------------------------------------------------------------------------
(***************************************************************************)
(* The serial port.                                                        *)
(***************************************************************************)
\* Bytes to transmit, the slots of the ring, and the rings there may be.
Bytes == Nat \X Nat
Slots == 0 .. QUEUE_SIZE - 1
Rings == [head : Slots, tail : Slots, data : [Slots -> Nat]]

\* What is to be transmitted: there is an interrupt for what is in the queue.
TransmitInv ==
  /\ txQueue \in Seq(Bytes) /\ txFifo \in Seq(Bytes) /\ wire \in Seq(Bytes)
  /\ accepted \in Seq(Bytes) /\ packets \in Nat /\ Len(txFifo) <= FIFO
  /\ TxHalfEmptyIE \in BOOLEAN /\ (TxHalfEmptyIE <=> txQueue # <<>>)
  /\ TransmittedWhole

ReceiveTypeOK ==
  /\ rxQueue \in Rings /\ rxFifo \in Seq(Nat) /\ got \in Seq(Nat)
  /\ arrived \in Nat /\ intact \in BOOLEAN /\ left \in Nat
  /\ isr \in {"idle", "receive", "transmit", "errors"}
  /\ pc \in {"loop", "copy", "advance", "wait", "stopped"}
  /\ pc = "copy" => left > 0 /\ left <= Used(rxQueue)
  /\ pc = "advance" => left < Used(rxQueue)

\* Bytes are numbered as they arrive; 0 stands for one with an error.
InOrder(s) == \A i, j \in 1 .. Len(s) : i < j /\ s[i] # 0 /\ s[j] # 0 => s[i] < s[j]
UpTo(s, n) == \A i \in 1 .. Len(s) : s[i] <= n

ReceivedInv ==
  /\ InOrder(Received) /\ UpTo(Received, arrived)
  /\ intact => Received = [i \in 1 .. arrived |-> i]

PortInv == TransmitInv /\ ReceiveTypeOK /\ ReceivedInv

-------------------------------------------------------------------------------
(* What Transmit and the handler do to what is to be transmitted. *)

LEMMA BytesAssociate ==
  ASSUME NEW a \in Seq(Bytes), NEW b \in Seq(Bytes), NEW c \in Seq(Bytes)
  PROVE  (a \o b) \o c = a \o (b \o c)
BY ConcatAssociative

LEMMA HeadAndTail ==
  ASSUME NEW S, NEW s \in Seq(S), s # <<>>
  PROVE  s = <<Head(s)>> \o Tail(s)
<1>1. Len(s) \in Nat \ {0}
  BY EmptySeq, LenProperties
<1>2. SubSeq(s, 1, Len(s)) = <<s[1]>> \o SubSeq(s, 2, Len(s))
  <2>1. 1 \in 1 .. Len(s) /\ Len(s) \in 1 .. Len(s)
    BY <1>1
  <2>2. SubSeq(s, 1, Len(s)) = <<s[1]>> \o SubSeq(s, 1 + 1, Len(s))
    BY <2>1, SubSeqRecursiveFirst
  <2>3. QED
    BY <2>2
<1>3. s = SubSeq(s, 1, Len(s)) /\ Tail(s) = SubSeq(s, 2, Len(s)) /\ Head(s) = s[1]
  BY SubSeqFull, TailIsSubSeq
<1>4. QED
  BY <1>2, <1>3

\* What of a queue goes into the UART, and what stays in the queue.
Moved(f, q) == SubSeq(q, 1, IF Len(q) < FIFO - Len(f) THEN Len(q) ELSE FIFO - Len(f))
Kept(f, q)  == SubSeq(q, (FIFO - Len(f)) + 1, Len(q))

LEMMA Stuffed ==
  ASSUME NEW f \in Seq(Bytes), NEW q \in Seq(Bytes), Len(f) <= FIFO
  PROVE  /\ f \o Moved(f, q) \in Seq(Bytes) /\ Len(f \o Moved(f, q)) <= FIFO
         /\ Kept(f, q) \in Seq(Bytes)
         /\ (f \o Moved(f, q)) \o Kept(f, q) = f \o q
<1> DEFINE room == FIFO - Len(f)
           n == IF Len(q) < room THEN Len(q) ELSE room
<1>1. Len(f) \in Nat /\ Len(q) \in Nat /\ FIFO \in Nat /\ room \in Nat
  BY LenProperties, UARTAssumption
<1>2. /\ n \in Nat /\ n <= room /\ n <= Len(q)
      /\ (Len(q) <= room => n = Len(q)) /\ (Len(q) > room => n = room)
      /\ \A i \in 1 .. Len(q) : q[i] \in Bytes
  BY <1>1, ElementOfSeq
<1>8. Moved(f, q) = SubSeq(q, 1, n) /\ Kept(f, q) = SubSeq(q, room + 1, Len(q))
  BY DEF Moved, Kept
<1>9. Len(f) + room = FIFO
  BY <1>1
<1> HIDE DEF room, n
<1>3. SubSeq(q, 1, n) \in Seq(Bytes) /\ Len(SubSeq(q, 1, n)) = n
  <2>1. \A i \in 1 .. n : q[i] \in Bytes
    BY <1>1, <1>2
  <2>2. QED
    BY <1>2, <2>1, SubSeqProperties
<1>4. SubSeq(q, room + 1, Len(q)) \in Seq(Bytes)
  <2>1. \A i \in room + 1 .. Len(q) : q[i] \in Bytes
    BY <1>1, <1>2
  <2>2. QED
    BY <1>1, <2>1, SubSeqProperties
<1>5. SubSeq(q, 1, n) \o SubSeq(q, room + 1, Len(q)) = q
  <2>1. CASE Len(q) <= room
    <3>1. n = Len(q)
      BY <1>2, <2>1
    <3>2. SubSeq(q, 1, n) = q
      BY <3>1, SubSeqFull
    <3>3. SubSeq(q, room + 1, Len(q)) = <<>>
      BY <1>1, <2>1, SubSeqEmpty
    <3>4. QED
      BY <3>2, <3>3, ConcatEmptySeq
  <2>2. CASE Len(q) > room
    <3>1. n = room /\ room \in 0 .. Len(q)
      BY <1>1, <1>2, <2>2
    <3>2. /\ 1 \in 1 .. Len(q) + 1 /\ room \in 1 - 1 .. Len(q) /\ Len(q) \in room .. Len(q)
      BY <1>1, <2>2
    <3>3. SubSeq(q, 1, room) \o SubSeq(q, room + 1, Len(q)) = SubSeq(q, 1, Len(q))
      BY <3>2, ConcatAdjacentSubSeq
    <3>4. QED
      BY <3>1, <3>3, SubSeqFull
  <2>3. Len(q) <= room \/ Len(q) > room
    BY <1>1
  <2>4. QED
    BY <2>1, <2>2, <2>3
<1>6. f \o SubSeq(q, 1, n) \in Seq(Bytes) /\ Len(f \o SubSeq(q, 1, n)) <= FIFO
  BY <1>1, <1>2, <1>3, <1>9, ConcatProperties
<1>7. (f \o SubSeq(q, 1, n)) \o SubSeq(q, room + 1, Len(q)) = f \o q
  <2>1. ASSUME NEW h \in Seq(Bytes), NEW t \in Seq(Bytes), h \o t = q
        PROVE  (f \o h) \o t = f \o q
    <3>1. (f \o h) \o t = f \o (h \o t)
      BY BytesAssociate
    <3>2. QED
      BY <2>1, <3>1
  <2>2. QED
    BY <1>3, <1>4, <1>5, <2>1, Zenon
<1>10. QED
  BY <1>4, <1>6, <1>7, <1>8

LEMMA StuffTxFifoKeeps ==
  ASSUME TransmitInv, NEW queue \in Seq(Bytes), StuffTxFifo(queue)
  PROVE  /\ txFifo' \in Seq(Bytes) /\ Len(txFifo') <= FIFO /\ txQueue' \in Seq(Bytes)
         /\ TxHalfEmptyIE' \in BOOLEAN /\ (TxHalfEmptyIE' <=> txQueue' # <<>>)
         /\ (wire \o txFifo') \o txQueue' = (wire \o txFifo) \o queue
<1>1. /\ txFifo' = txFifo \o Moved(txFifo, queue)
      /\ txQueue' = Kept(txFifo, queue)
      /\ TxHalfEmptyIE' = (txQueue' # <<>>)
  BY DEF StuffTxFifo, Moved, Kept
<1>2. txFifo \in Seq(Bytes) /\ Len(txFifo) <= FIFO /\ wire \in Seq(Bytes)
  BY DEF TransmitInv
<1>3. /\ txFifo' \in Seq(Bytes) /\ Len(txFifo') <= FIFO /\ txQueue' \in Seq(Bytes)
      /\ txFifo' \o txQueue' = txFifo \o queue
  BY <1>1, <1>2, Stuffed
<1>4. (wire \o txFifo') \o txQueue' = (wire \o txFifo) \o queue
  <2>1. (wire \o txFifo') \o txQueue' = wire \o (txFifo' \o txQueue')
    BY <1>2, <1>3, BytesAssociate
  <2>2. (wire \o txFifo) \o queue = wire \o (txFifo \o queue)
    BY <1>2, BytesAssociate
  <2>3. QED
    BY <1>3, <2>1, <2>2
<1>5. QED
  BY <1>1, <1>3, <1>4

LEMMA PacketIsBytes ==
  ASSUME packets \in Nat, NEW len \in Nat
  PROVE  Packet(len) \in Seq(Bytes)
BY DEF Packet, Bytes

LEMMA TransmitKeeps ==
  ASSUME TransmitInv, NEW len \in Lengths, Transmit(len), wire' = wire
  PROVE  TransmitInv'
<1>1. /\ txQueue \in Seq(Bytes) /\ txFifo \in Seq(Bytes) /\ wire \in Seq(Bytes)
      /\ accepted \in Seq(Bytes) /\ packets \in Nat
      /\ (wire \o txFifo) \o txQueue = accepted
  BY DEF TransmitInv, TransmittedWhole
<1>2. packets' = packets + 1 /\ Packet(len) \in Seq(Bytes)
  BY <1>1, PacketIsBytes, UARTAssumption DEF Transmit
<1>3. CASE accepted' = accepted \o Packet(len) /\ StuffTxFifo(txQueue \o Packet(len))
  <2>1. txQueue \o Packet(len) \in Seq(Bytes) /\ accepted' \in Seq(Bytes)
    BY <1>1, <1>2, <1>3, ConcatProperties
  <2>2. (wire \o txFifo) \o (txQueue \o Packet(len)) = accepted'
    <3>1. wire \o txFifo \in Seq(Bytes)
      BY <1>1, ConcatProperties
    <3>2. ((wire \o txFifo) \o txQueue) \o Packet(len) = (wire \o txFifo) \o (txQueue \o Packet(len))
      BY <1>1, <1>2, <3>1, BytesAssociate
    <3>3. QED
      BY <1>1, <1>3, <3>2
  <2>3. /\ txFifo' \in Seq(Bytes) /\ Len(txFifo') <= FIFO /\ txQueue' \in Seq(Bytes)
        /\ TxHalfEmptyIE' \in BOOLEAN /\ (TxHalfEmptyIE' <=> txQueue' # <<>>)
        /\ (wire \o txFifo') \o txQueue' = (wire \o txFifo) \o (txQueue \o Packet(len))
    BY <1>3, <2>1, StuffTxFifoKeeps
  <2>4. QED
    BY <1>1, <1>2, <2>1, <2>2, <2>3 DEF TransmitInv, TransmittedWhole
<1>4. CASE accepted' = accepted /\ StuffTxFifo(txQueue)
  <2>1. /\ txFifo' \in Seq(Bytes) /\ Len(txFifo') <= FIFO /\ txQueue' \in Seq(Bytes)
        /\ TxHalfEmptyIE' \in BOOLEAN /\ (TxHalfEmptyIE' <=> txQueue' # <<>>)
        /\ (wire \o txFifo') \o txQueue' = (wire \o txFifo) \o txQueue
    BY <1>1, <1>4, StuffTxFifoKeeps
  <2>2. QED
    BY <1>1, <1>2, <1>4, <2>1 DEF TransmitInv, TransmittedWhole
<1>5. QED
  BY <1>3, <1>4 DEF Transmit

\* The main loop waits for the UART to be empty: then so is the queue.
LEMMA EmptyWhenIdle ==
  ASSUME TransmitInv, ~Pending, IsTxFifoEmpty
  PROVE  txFifo = <<>> /\ txQueue = <<>> /\ wire = accepted
<1>1. txFifo = <<>> /\ Len(txFifo) = 0
  BY DEF IsTxFifoEmpty, TxEmpty
<1>2. TxHalfEmpty
  BY <1>1, UARTAssumption DEF TxHalfEmpty, Half
<1>3. txQueue = <<>>
  BY <1>2 DEF Pending, TransmitInv
<1>4. QED
  BY <1>1, <1>3, ConcatEmptySeq DEF TransmitInv, TransmittedWhole

LEMMA TransmitInvNext ==
  ASSUME TransmitInv, [PortNext]_portVars PROVE TransmitInv'
<1>1. CASE TransmitsByte
  <2>1. /\ txFifo # <<>> /\ wire' = Append(wire, Head(txFifo)) /\ txFifo' = Tail(txFifo)
        /\ UNCHANGED <<txQueue, TxHalfEmptyIE, accepted, packets>>
    BY <1>1 DEF TransmitsByte
  <2>2. /\ txQueue \in Seq(Bytes) /\ txFifo \in Seq(Bytes) /\ wire \in Seq(Bytes)
        /\ Len(txFifo) \in Nat /\ Len(txFifo) <= FIFO
    BY LenProperties DEF TransmitInv
  <2>3. /\ Head(txFifo) \in Bytes /\ Tail(txFifo) \in Seq(Bytes)
        /\ Len(Tail(txFifo)) = Len(txFifo) - 1
    BY <2>1, <2>2, HeadTailProperties
  <2>4. wire' \in Seq(Bytes) /\ wire' = wire \o <<Head(txFifo)>> /\ <<Head(txFifo)>> \in Seq(Bytes)
    BY <2>1, <2>2, <2>3, AppendProperties, AppendIsConcat
  <2>5. txFifo = <<Head(txFifo)>> \o Tail(txFifo)
    BY <2>1, <2>2, HeadAndTail
  <2>6. wire' \o txFifo' = wire \o txFifo
    <3>1. (wire \o <<Head(txFifo)>>) \o Tail(txFifo) = wire \o (<<Head(txFifo)>> \o Tail(txFifo))
      BY <2>2, <2>3, <2>4, BytesAssociate
    <3>2. QED
      BY <2>1, <2>4, <2>5, <3>1
  <2>7. Len(txFifo') <= FIFO /\ txFifo' \in Seq(Bytes)
    BY <2>1, <2>2, <2>3, UARTAssumption
  <2>8. TransmittedWhole'
    BY <2>1, <2>6 DEF TransmitInv, TransmittedWhole
  <2>9. QED
    BY <2>1, <2>4, <2>7, <2>8 DEF TransmitInv
<1>2. ASSUME NEW len \in Lengths, TransmitPacket(len) \/ AnswerAndWait(len)
      PROVE  TransmitInv'
  BY <1>2, TransmitKeeps DEF TransmitPacket, AnswerAndWait
<1>3. CASE TransmitMore
  <2>1. CASE StuffTxFifo(txQueue) /\ UNCHANGED <<wire, accepted, packets>>
    <3>1. txQueue \in Seq(Bytes)
      BY DEF TransmitInv
    <3>2. QED
      BY <2>1, <3>1, StuffTxFifoKeeps DEF TransmitInv, TransmittedWhole
  <2>2. CASE UNCHANGED txVars
    BY <2>2 DEF txVars, TransmitInv, TransmittedWhole
  <2>3. QED
    BY <1>3, <2>1, <2>2 DEF TransmitMore, txVars
<1>4. CASE SetPortSettings
  <2>1. txFifo = <<>>
    BY <1>4 DEF SetPortSettings, IsTxFifoEmpty, TxEmpty
  <2>2. txFifo' = txFifo /\ UNCHANGED <<txQueue, TxHalfEmptyIE, wire, accepted, packets>>
    BY <1>4, <2>1 DEF SetPortSettings
  <2>3. QED
    BY <2>2 DEF TransmitInv, TransmittedWhole
<1>5. CASE \/ \E bad \in BOOLEAN : ReceivesByte(bad)
           \/ NothingArrives \/ LookAtReceived \/ ProcessRxFifo \/ AllReceived \/ ClearErrors
           \/ DisablePort \/ Take \/ UNCHANGED portVars
  <2>1. UNCHANGED txVars
    BY <1>5 DEF ReceivesByte, NothingArrives, LookAtReceived, ProcessRxFifo, AllReceived,
       ClearErrors, DisablePort, Take, DequeueBuf, CopyByte, AdvanceTail, portVars
  <2>2. QED
    BY <2>1 DEF txVars, TransmitInv, TransmittedWhole
<1>6. QED
  BY <1>1, <1>2, <1>3, <1>4, <1>5 DEF PortNext, UART, HandleComIRQ, Main

LEMMA TransmitInvStarts ==
  ASSUME InitializePort PROVE TransmitInv
<1>1. /\ txQueue = <<>> /\ txFifo = <<>> /\ wire = <<>> /\ accepted = <<>>
      /\ TxHalfEmptyIE = FALSE /\ packets = 0
  BY DEF InitializePort
<1>2. <<>> \in Seq(Bytes) /\ Len(<<>>) = 0 /\ (<<>> \o <<>>) \o <<>> = <<>>
  BY EmptySeq, ConcatEmptySeq
<1>3. TransmittedWhole
  BY <1>1, <1>2 DEF TransmittedWhole
<1>4. Len(txFifo) <= FIFO
  BY <1>1, <1>2, UARTAssumption
<1>5. QED
  BY <1>1, <1>2, <1>3, <1>4 DEF TransmitInv

-------------------------------------------------------------------------------
(* The ring: what it holds, what a byte added and a byte given back do to it. *)

Slot(t, i) == (t + i - 1) % QUEUE_SIZE

\* The distance of two slots, the slot after one, and the i-th from one.
Between(t, h) == IF t <= h THEN h - t ELSE (h - t) + QUEUE_SIZE
Wrapped(i)    == IF i + 1 = QUEUE_SIZE THEN 0 ELSE i + 1
Place(t, i)   == IF t + i <= QUEUE_SIZE THEN t + i - 1 ELSE (t + i - 1) - QUEUE_SIZE

LEMMA SlotIs ==
  ASSUME NEW t \in Slots, NEW i \in 1 .. QUEUE_SIZE
  PROVE  Slot(t, i) = Place(t, i) /\ Slot(t, i) \in Slots
BY QueueSizeAssumption DEF Slot, Place, Slots

LEMMA FollowingIs ==
  ASSUME NEW i \in Slots
  PROVE  Following(i) = Wrapped(i) /\ Following(i) \in Slots
BY QueueSizeAssumption DEF Following, Wrapped, Slots

LEMMA OneMore ==
  ASSUME NEW t \in Slots, NEW h \in Slots, Between(t, h) < QUEUE_SIZE - 1
  PROVE  Between(t, Wrapped(h)) = Between(t, h) + 1
BY QueueSizeAssumption DEF Between, Wrapped, Slots

LEMMA OneLess ==
  ASSUME NEW t \in Slots, NEW h \in Slots, Between(t, h) > 0
  PROVE  Between(Wrapped(t), h) = Between(t, h) - 1
BY QueueSizeAssumption DEF Between, Wrapped, Slots

LEMMA HeadIsNext ==
  ASSUME NEW t \in Slots, NEW h \in Slots
  PROVE  Place(t, Between(t, h) + 1) = h
BY QueueSizeAssumption DEF Place, Between, Slots

LEMMA NextPlace ==
  ASSUME NEW t \in Slots, NEW i \in 1 .. QUEUE_SIZE - 1
  PROVE  Place(Wrapped(t), i) = Place(t, i + 1)
BY QueueSizeAssumption DEF Place, Wrapped, Slots

LEMMA RingFields ==
  ASSUME NEW q \in Rings
  PROVE  /\ q.head \in Slots /\ q.tail \in Slots /\ q.data \in [Slots -> Nat]
         /\ q = [head |-> q.head, tail |-> q.tail, data |-> q.data]
BY DEF Rings

LEMMA UsedIs ==
  ASSUME NEW q \in Rings
  PROVE  Used(q) = Between(q.tail, q.head) /\ Used(q) \in Slots
<1>1. q.head \in Slots /\ q.tail \in Slots
  BY RingFields
<1>2. QED
  BY <1>1, QueueSizeAssumption DEF Used, Between, Slots

LEMMA ContentIs ==
  ASSUME NEW q \in Rings
  PROVE  /\ Content(q) \in Seq(Nat) /\ Len(Content(q)) = Used(q)
         /\ \A i \in 1 .. Used(q) : Content(q)[i] = q.data[Slot(q.tail, i)]
<1>1. Used(q) \in Nat /\ Used(q) < QUEUE_SIZE /\ QUEUE_SIZE \in Nat
  BY UsedIs, QueueSizeAssumption DEF Slots
<1>2. \A i \in 1 .. Used(q) : q.data[Slot(q.tail, i)] \in Nat
  <2>1. ASSUME NEW i \in 1 .. Used(q) PROVE q.data[Slot(q.tail, i)] \in Nat
    <3>1. i \in 1 .. QUEUE_SIZE
      BY <1>1
    <3>2. Slot(q.tail, i) \in Slots
      BY <3>1, RingFields, SlotIs
    <3>3. QED
      BY <3>2, RingFields
  <2>2. QED
    BY <2>1
<1>3. Content(q) = [i \in 1 .. Used(q) |-> q.data[Slot(q.tail, i)]]
  BY DEF Content, Slot
<1> HIDE DEF Content
<1>4. QED
  BY <1>1, <1>2, <1>3

LEMMA EnqueueAppends ==
  ASSUME NEW q \in Rings, NEW byte \in Nat, Used(q) < QUEUE_SIZE - 1
  PROVE  /\ Enqueue(q, byte) \in Rings
         /\ Used(Enqueue(q, byte)) = Used(q) + 1
         /\ Content(Enqueue(q, byte)) = Append(Content(q), byte)
<1> DEFINE r == Enqueue(q, byte)
<1>1. /\ q.head \in Slots /\ q.tail \in Slots /\ q.data \in [Slots -> Nat]
      /\ Used(q) \in Nat /\ Used(q) < QUEUE_SIZE - 1 /\ QUEUE_SIZE \in Nat
  BY RingFields, UsedIs, QueueSizeAssumption DEF Slots
<1>2. ~(Used(q) >= QUEUE_SIZE - 1)
  BY <1>1
<1>3. r = [head |-> Following(q.head), tail |-> q.tail, data |-> [q.data EXCEPT ![q.head] = byte]]
  BY <1>2 DEF Enqueue, Rings
<1> HIDE DEF r
<1>4. Following(q.head) \in Slots
  BY <1>1, FollowingIs
<1>5. r \in Rings /\ r.head = Following(q.head) /\ r.tail = q.tail
      /\ r.data = [q.data EXCEPT ![q.head] = byte]
  BY <1>1, <1>3, <1>4 DEF Rings
<1>11. Used(q) = Between(q.tail, q.head)
  BY UsedIs
<1>6. Used(r) = Used(q) + 1
  <2>1. Used(r) = Between(q.tail, Wrapped(q.head))
    BY <1>1, <1>5, UsedIs, FollowingIs
  <2>2. QED
    BY <1>1, <1>11, <2>1, OneMore
<1>7. Slot(q.tail, Used(q) + 1) = q.head
  <2>1. Used(q) + 1 \in 1 .. QUEUE_SIZE
    BY <1>1
  <2>2. Slot(q.tail, Used(q) + 1) = Place(q.tail, Used(q) + 1)
    BY <1>1, <2>1, SlotIs
  <2>3. QED
    BY <1>1, <1>11, <2>2, HeadIsNext
<1>8. ASSUME NEW i \in 1 .. Used(q) PROVE Slot(q.tail, i) # q.head /\ Slot(q.tail, i) \in Slots
  <2>1. i \in 1 .. QUEUE_SIZE
    BY <1>1
  <2>2. Slot(q.tail, i) = Place(q.tail, i) /\ Slot(q.tail, i) \in Slots
    BY <1>1, <2>1, SlotIs
  <2>3. QED
    BY <1>1, <1>11, <2>2 DEF Slots, Between, Place
<1>9. Content(r) = Append(Content(q), byte)
  <2> DEFINE c == Content(q)
             d == Content(r)
  <2>1. /\ c \in Seq(Nat) /\ Len(c) = Used(q) /\ d \in Seq(Nat) /\ Len(d) = Used(q) + 1
        /\ \A i \in 1 .. Used(q) : c[i] = q.data[Slot(q.tail, i)]
        /\ \A i \in 1 .. Used(q) + 1 : d[i] = r.data[Slot(q.tail, i)]
    BY <1>5, <1>6, ContentIs
  <2> HIDE DEF c, d
  <2>2. ASSUME NEW i \in 1 .. Used(q) PROVE d[i] = c[i]
    <3>1. i \in 1 .. Used(q) + 1
      BY <1>1
    <3>2. d[i] = r.data[Slot(q.tail, i)] /\ c[i] = q.data[Slot(q.tail, i)]
      BY <2>1, <3>1
    <3>3. QED
      BY <1>1, <1>5, <1>8, <3>2
  <2>3. d[Used(q) + 1] = byte
    <3>1. Used(q) + 1 \in 1 .. Used(q) + 1
      BY <1>1
    <3>2. d[Used(q) + 1] = r.data[q.head]
      BY <1>7, <2>1, <3>1
    <3>3. QED
      BY <1>1, <1>5, <3>2
  <2>4. /\ Append(c, byte) \in Seq(Nat) /\ Len(Append(c, byte)) = Used(q) + 1
        /\ \A i \in 1 .. Used(q) : Append(c, byte)[i] = c[i]
        /\ Append(c, byte)[Used(q) + 1] = byte
    BY <1>1, <2>1, AppendProperties
  <2>5. \A i \in 1 .. Len(d) : d[i] = Append(c, byte)[i]
    BY <1>1, <2>1, <2>2, <2>3, <2>4
  <2>6. d = Append(c, byte)
    BY <2>1, <2>4, <2>5, SeqEqual
  <2>7. QED
    BY <2>6 DEF c, d
<1>10. QED
  BY <1>5, <1>6, <1>9 DEF r

LEMMA HeadOfContent ==
  ASSUME NEW q \in Rings, Used(q) > 0
  PROVE  /\ Content(q) \in Seq(Nat) /\ Content(q) # <<>>
         /\ Head(Content(q)) = q.data[q.tail]
<1>1. Used(q) \in Nat /\ q.tail \in Slots /\ 1 \in 1 .. QUEUE_SIZE
  BY RingFields, UsedIs, QueueSizeAssumption DEF Slots
<1>2. Slot(q.tail, 1) = q.tail
  BY <1>1, QueueSizeAssumption DEF Slot, Slots
<1>3. /\ Content(q) \in Seq(Nat) /\ Len(Content(q)) = Used(q)
      /\ \A i \in 1 .. Used(q) : Content(q)[i] = q.data[Slot(q.tail, i)]
  BY ContentIs
<1>4. Content(q)[1] = q.data[q.tail]
  <2>1. 1 \in 1 .. Used(q)
    BY <1>1
  <2>2. QED
    BY <1>2, <1>3, <2>1
<1>5. Content(q) # <<>>
  BY <1>1, <1>3, EmptySeq
<1>6. QED
  BY <1>3, <1>4, <1>5

LEMMA TailAdvances ==
  ASSUME NEW q \in Rings, Used(q) > 0, NEW r, r = [q EXCEPT !.tail = Following(@)]
  PROVE  r \in Rings /\ Used(r) = Used(q) - 1 /\ Content(r) = Tail(Content(q))
<1>1. /\ q.head \in Slots /\ q.tail \in Slots /\ q.data \in [Slots -> Nat]
      /\ Used(q) \in Nat /\ Used(q) < QUEUE_SIZE /\ QUEUE_SIZE \in Nat
  BY RingFields, UsedIs, QueueSizeAssumption DEF Slots
<1>2. r = [head |-> q.head, tail |-> Following(q.tail), data |-> q.data]
  BY RingFields
<1>3. Following(q.tail) \in Slots
  BY <1>1, FollowingIs
<1>4. r \in Rings /\ r.head = q.head /\ r.tail = Following(q.tail) /\ r.data = q.data
  BY <1>1, <1>2, <1>3 DEF Rings
<1>5. Used(r) = Used(q) - 1
  <2>1. Used(q) = Between(q.tail, q.head)
    BY UsedIs
  <2>2. Used(r) = Between(Wrapped(q.tail), q.head)
    BY <1>1, <1>4, UsedIs, FollowingIs
  <2>3. QED
    BY <1>1, <2>1, <2>2, OneLess
<1>6. ASSUME NEW i \in 1 .. Used(q) - 1 PROVE Slot(r.tail, i) = Slot(q.tail, i + 1)
  <2>1. i \in 1 .. QUEUE_SIZE - 1 /\ i \in 1 .. QUEUE_SIZE /\ i + 1 \in 1 .. QUEUE_SIZE
    BY <1>1
  <2>2. Slot(q.tail, i + 1) = Place(q.tail, i + 1)
    BY <1>1, <2>1, SlotIs
  <2>3. Slot(r.tail, i) = Place(r.tail, i) /\ r.tail = Wrapped(q.tail)
    BY <1>1, <1>3, <1>4, <2>1, SlotIs, FollowingIs
  <2>4. QED
    BY <1>1, <2>1, <2>2, <2>3, NextPlace
<1>7. Content(r) = Tail(Content(q))
  <2> DEFINE c == Content(q)
             d == Content(r)
  <2>1. /\ c \in Seq(Nat) /\ Len(c) = Used(q) /\ d \in Seq(Nat) /\ Len(d) = Used(q) - 1
        /\ \A i \in 1 .. Used(q) : c[i] = q.data[Slot(q.tail, i)]
        /\ \A i \in 1 .. Used(q) - 1 : d[i] = q.data[Slot(r.tail, i)]
    BY <1>4, <1>5, ContentIs
  <2> HIDE DEF c, d
  <2>2. ASSUME NEW i \in 1 .. Used(q) - 1 PROVE d[i] = c[i + 1]
    <3>1. i + 1 \in 1 .. Used(q)
      BY <1>1
    <3>2. QED
      BY <1>6, <2>1, <3>1
  <2>3. c # <<>>
    BY <1>1, <2>1, EmptySeq
  <2>4. /\ Tail(c) \in Seq(Nat) /\ Len(Tail(c)) = Used(q) - 1
        /\ \A i \in 1 .. Used(q) - 1 : Tail(c)[i] = c[i + 1]
    BY <1>1, <2>1, <2>3, HeadTailProperties
  <2>5. \A i \in 1 .. Len(d) : d[i] = Tail(c)[i]
    BY <1>1, <2>1, <2>2, <2>4
  <2>6. d = Tail(c)
    BY <2>1, <2>4, <2>5, SeqEqual
  <2>7. QED
    BY <2>6 DEF c, d
<1>8. QED
  BY <1>4, <1>5, <1>7

-------------------------------------------------------------------------------
(* Sequences of numbers in order: one more at the end, one less anywhere.  *)

LEMMA NumbersAssociate ==
  ASSUME NEW a \in Seq(Nat), NEW b \in Seq(Nat), NEW c \in Seq(Nat)
  PROVE  (a \o b) \o c = a \o (b \o c)
BY ConcatAssociative

LEMMA NumbersJoin ==
  ASSUME NEW a \in Seq(Nat), NEW b \in Seq(Nat)
  PROVE  /\ a \o b \in Seq(Nat) /\ Len(a \o b) = Len(a) + Len(b)
         /\ Len(a) \in Nat /\ Len(b) \in Nat
         /\ \A i \in 1 .. Len(a) + Len(b) :
               (a \o b)[i] = IF i <= Len(a) THEN a[i] ELSE b[i - Len(a)]
BY ConcatProperties, LenProperties

\* The first byte of a sequence goes to the end of the one before it.
LEMMA FirstMoves ==
  ASSUME NEW a \in Seq(Nat), NEW b \in Seq(Nat), b # <<>>
  PROVE  Append(a, Head(b)) \o Tail(b) = a \o b
<1>1. Head(b) \in Nat /\ Tail(b) \in Seq(Nat)
  BY HeadTailProperties
<1>2. <<Head(b)>> \in Seq(Nat) /\ Append(a, Head(b)) = a \o <<Head(b)>>
  BY <1>1, AppendIsConcat
<1>3. b = <<Head(b)>> \o Tail(b)
  BY HeadAndTail
<1>4. (a \o <<Head(b)>>) \o Tail(b) = a \o (<<Head(b)>> \o Tail(b))
  BY <1>1, <1>2, NumbersAssociate
<1>5. QED
  BY <1>2, <1>3, <1>4

LEMMA AppendToLast ==
  ASSUME NEW a \in Seq(Nat), NEW b \in Seq(Nat), NEW x \in Nat
  PROVE  a \o Append(b, x) = Append(a \o b, x)
<1>1. <<x>> \in Seq(Nat) /\ a \o b \in Seq(Nat)
  BY NumbersJoin
<1>2. Append(b, x) = b \o <<x>> /\ Append(a \o b, x) = (a \o b) \o <<x>>
  BY <1>1, AppendIsConcat
<1>3. (a \o b) \o <<x>> = a \o (b \o <<x>>)
  BY <1>1, NumbersAssociate
<1>4. QED
  BY <1>2, <1>3

LEMMA TailOfAppend ==
  ASSUME NEW a \in Seq(Nat), a # <<>>, NEW x \in Nat
  PROVE  Tail(Append(a, x)) = Append(Tail(a), x)
<1> DEFINE s == Append(a, x)
           t == Tail(a)
<1>1. Len(a) \in Nat /\ Len(a) > 0
  BY EmptySeq, LenProperties
<1>2. /\ s \in Seq(Nat) /\ Len(s) = Len(a) + 1 /\ s # <<>> /\ s[Len(a) + 1] = x
      /\ \A i \in 1 .. Len(a) : s[i] = a[i]
  BY AppendProperties
<1>3. t \in Seq(Nat) /\ Len(t) = Len(a) - 1 /\ \A i \in 1 .. Len(a) - 1 : t[i] = a[i + 1]
  BY HeadTailProperties
<1> HIDE DEF s, t
<1>4. Tail(s) \in Seq(Nat) /\ Len(Tail(s)) = Len(a) /\ \A i \in 1 .. Len(a) : Tail(s)[i] = s[i + 1]
  BY <1>1, <1>2, HeadTailProperties
<1>5. /\ Append(t, x) \in Seq(Nat) /\ Len(Append(t, x)) = Len(a) /\ Append(t, x)[Len(a)] = x
      /\ \A i \in 1 .. Len(a) - 1 : Append(t, x)[i] = t[i]
  BY <1>1, <1>3, AppendProperties
<1>6. ASSUME NEW i \in 1 .. Len(a) PROVE Tail(s)[i] = Append(t, x)[i]
  <2>1. CASE i = Len(a)
    BY <1>2, <1>4, <1>5, <2>1
  <2>2. CASE i # Len(a)
    <3>1. i \in 1 .. Len(a) - 1 /\ i + 1 \in 1 .. Len(a)
      BY <1>1, <2>2
    <3>2. Append(t, x)[i] = a[i + 1]
      BY <1>3, <1>5, <3>1
    <3>3. QED
      BY <1>2, <1>4, <3>1, <3>2
  <2>3. QED
    BY <2>1, <2>2
<1>7. Tail(s) = Append(t, x)
  BY <1>4, <1>5, <1>6, SeqEqual
<1>8. QED
  BY <1>7 DEF s, t

LEMMA UpToMore ==
  ASSUME NEW s \in Seq(Nat), NEW n \in Nat, UpTo(s, n)
  PROVE  UpTo(s, n + 1)
<1>1. \A i \in 1 .. Len(s) : s[i] \in Nat /\ s[i] <= n
  BY ElementOfSeq DEF UpTo
<1>2. QED
  BY <1>1 DEF UpTo

LEMMA OneMoreInOrder ==
  ASSUME NEW s \in Seq(Nat), NEW n \in Nat, InOrder(s), UpTo(s, n),
         NEW x \in Nat, x = 0 \/ x = n + 1
  PROVE  InOrder(Append(s, x)) /\ UpTo(Append(s, x), n + 1)
<1>1. /\ Len(s) \in Nat /\ Len(Append(s, x)) = Len(s) + 1
      /\ \A i \in 1 .. Len(s) : Append(s, x)[i] = s[i] /\ s[i] \in Nat
      /\ Append(s, x)[Len(s) + 1] = x
  BY AppendProperties, LenProperties, ElementOfSeq
<1> DEFINE t == Append(s, x)
<1> HIDE DEF t
<1>2. /\ Len(t) = Len(s) + 1 /\ t[Len(s) + 1] = x
      /\ \A i \in 1 .. Len(s) : t[i] = s[i] /\ s[i] \in Nat
  BY <1>1 DEF t
<1>3. UpTo(t, n + 1)
  <2>1. ASSUME NEW i \in 1 .. Len(t) PROVE t[i] <= n + 1
    <3>1. CASE i \in 1 .. Len(s)
      <4>1. t[i] = s[i] /\ s[i] \in Nat /\ s[i] <= n
        BY <1>2, <3>1 DEF UpTo
      <4>2. QED
        BY <4>1
    <3>2. CASE i = Len(s) + 1
      BY <1>2, <3>2
    <3>3. QED
      BY <1>1, <1>2, <3>1, <3>2
  <2>2. QED
    BY <2>1 DEF UpTo
<1>4. InOrder(t)
  <2>1. ASSUME NEW i \in 1 .. Len(t), NEW j \in 1 .. Len(t), i < j, t[i] # 0, t[j] # 0
        PROVE  t[i] < t[j]
    <3>1. i \in 1 .. Len(s)
      BY <1>1, <1>2, <2>1
    <3>2. t[i] = s[i] /\ s[i] \in Nat /\ s[i] <= n
      BY <1>2, <3>1 DEF UpTo
    <3>3. CASE j \in 1 .. Len(s)
      <4>1. t[j] = s[j]
        BY <1>2, <3>3
      <4>2. QED
        BY <2>1, <3>1, <3>2, <3>3, <4>1 DEF InOrder
    <3>4. CASE j = Len(s) + 1
      BY <1>2, <2>1, <3>2, <3>4
    <3>5. QED
      BY <1>1, <1>2, <3>3, <3>4
  <2>2. QED
    BY <2>1 DEF InOrder
<1>5. QED
  BY <1>3, <1>4 DEF t

LEMMA PrefixInOrder ==
  ASSUME NEW a \in Seq(Nat), NEW b \in Seq(Nat), NEW n, InOrder(a \o b), UpTo(a \o b, n)
  PROVE  InOrder(a) /\ UpTo(a, n)
<1> DEFINE s == a \o b
<1>1. /\ Len(a) \in Nat /\ Len(b) \in Nat /\ Len(s) = Len(a) + Len(b)
      /\ \A i \in 1 .. Len(a) : i \in 1 .. Len(s) /\ s[i] = a[i]
  BY NumbersJoin
<1>2. InOrder(s) /\ UpTo(s, n)
  OBVIOUS
<1> HIDE DEF s
<1>3. QED
  BY <1>1, <1>2 DEF InOrder, UpTo

LEMMA OneLessInOrder ==
  ASSUME NEW a \in Seq(Nat), NEW b \in Seq(Nat), b # <<>>, NEW n,
         InOrder(a \o b), UpTo(a \o b, n)
  PROVE  InOrder(a \o Tail(b)) /\ UpTo(a \o Tail(b), n)
<1> DEFINE s == a \o b
           t == a \o Tail(b)
           From(i) == IF i <= Len(a) THEN i ELSE i + 1
<1>1. /\ Tail(b) \in Seq(Nat) /\ Len(Tail(b)) = Len(b) - 1
      /\ \A i \in 1 .. Len(b) - 1 : Tail(b)[i] = b[i + 1]
  BY HeadTailProperties
<1>2. /\ Len(a) \in Nat /\ Len(b) \in Nat /\ Len(s) = Len(a) + Len(b)
      /\ \A i \in 1 .. Len(a) + Len(b) : s[i] = IF i <= Len(a) THEN a[i] ELSE b[i - Len(a)]
  BY NumbersJoin
<1>3. /\ Len(t) = Len(a) + Len(Tail(b))
      /\ \A i \in 1 .. Len(a) + Len(Tail(b)) :
            t[i] = IF i <= Len(a) THEN a[i] ELSE Tail(b)[i - Len(a)]
  BY <1>1, NumbersJoin
<1>4. InOrder(s) /\ UpTo(s, n)
  OBVIOUS
<1> HIDE DEF s, t
<1>5. ASSUME NEW i \in 1 .. Len(t) PROVE From(i) \in 1 .. Len(s) /\ t[i] = s[From(i)]
  <2>1. i \in 1 .. Len(a) + Len(Tail(b))
    BY <1>3
  <2>2. CASE i <= Len(a)
    <3>1. i \in 1 .. Len(a) + Len(b)
      BY <1>1, <1>2, <2>1
    <3>2. t[i] = a[i] /\ s[i] = a[i]
      BY <1>2, <1>3, <2>1, <2>2, <3>1
    <3>3. QED
      BY <1>2, <2>2, <3>1, <3>2
  <2>3. CASE i > Len(a)
    <3>1. i - Len(a) \in 1 .. Len(b) - 1 /\ i + 1 \in 1 .. Len(a) + Len(b) /\ ~(i + 1 <= Len(a))
      BY <1>1, <1>2, <2>1, <2>3
    <3>2. t[i] = Tail(b)[i - Len(a)]
      <4>1. ~(i <= Len(a))
        BY <1>2, <2>3
      <4>2. QED
        BY <1>3, <2>1, <4>1
    <3>3. Tail(b)[i - Len(a)] = b[(i - Len(a)) + 1]
      BY <1>1, <3>1
    <3>4. s[i + 1] = b[(i + 1) - Len(a)]
      BY <1>2, <3>1
    <3>5. (i + 1) - Len(a) = (i - Len(a)) + 1
      BY <1>2
    <3>6. QED
      BY <1>2, <2>3, <3>1, <3>2, <3>3, <3>4, <3>5
  <2>4. QED
    BY <1>2, <2>2, <2>3
<1>6. ASSUME NEW i \in 1 .. Len(t), NEW j \in 1 .. Len(t), i < j PROVE From(i) < From(j)
  BY <1>2, <1>6
<1> HIDE DEF From
<1>7. InOrder(t)
  <2>1. ASSUME NEW i \in 1 .. Len(t), NEW j \in 1 .. Len(t), i < j, t[i] # 0, t[j] # 0
        PROVE  t[i] < t[j]
    <3>1. From(i) < From(j) /\ From(i) \in 1 .. Len(s) /\ From(j) \in 1 .. Len(s)
      BY <1>5, <1>6, <2>1
    <3>2. t[i] = s[From(i)] /\ t[j] = s[From(j)]
      BY <1>5
    <3>3. QED
      BY <1>4, <2>1, <3>1, <3>2 DEF InOrder
  <2>2. QED
    BY <2>1 DEF InOrder
<1>8. UpTo(t, n)
  BY <1>4, <1>5 DEF UpTo
<1>9. QED
  BY <1>7, <1>8 DEF t

\* The numbers up to n, and one more.
LEMMA NumbersGrow ==
  ASSUME NEW n \in Nat
  PROVE  Append([i \in 1 .. n |-> i], n + 1) = [i \in 1 .. n + 1 |-> i]
<1> DEFINE s == [i \in 1 .. n |-> i]
           t == [i \in 1 .. n + 1 |-> i]
<1>1. s \in Seq(Nat) /\ Len(s) = n /\ t \in Seq(Nat) /\ Len(t) = n + 1
  OBVIOUS
<1>2. (\A i \in 1 .. n : s[i] = i) /\ (\A i \in 1 .. n + 1 : t[i] = i)
  OBVIOUS
<1> HIDE DEF s, t
<1>3. /\ Append(s, n + 1) \in Seq(Nat) /\ Len(Append(s, n + 1)) = n + 1
      /\ \A i \in 1 .. n : Append(s, n + 1)[i] = s[i]
      /\ Append(s, n + 1)[n + 1] = n + 1
  BY <1>1, AppendProperties
<1>4. \A i \in 1 .. Len(t) : t[i] = Append(s, n + 1)[i]
  BY <1>1, <1>2, <1>3
<1>5. t = Append(s, n + 1)
  BY <1>1, <1>3, <1>4, SeqEqual
<1>6. QED
  BY <1>5 DEF s, t

-------------------------------------------------------------------------------
(* What was received, as the handler and DequeueBuf move it along.         *)

WaitingIn(q, at) == IF at = "advance" THEN Tail(Content(q)) ELSE Content(q)

LEMMA WaitingIs ==
  ASSUME NEW q \in Rings, NEW at, at = "advance" => Used(q) > 0
  PROVE  /\ WaitingIn(q, at) \in Seq(Nat)
         /\ SubSeq(Content(q), IF at = "advance" THEN 2 ELSE 1, Used(q)) = WaitingIn(q, at)
<1>1. Content(q) \in Seq(Nat) /\ Len(Content(q)) = Used(q)
  BY ContentIs
<1>2. CASE at = "advance"
  <2>1. Content(q) # <<>>
    BY <1>1, <1>2, EmptySeq
  <2>2. Tail(Content(q)) \in Seq(Nat) /\ Tail(Content(q)) = SubSeq(Content(q), 2, Used(q))
    BY <1>1, <2>1, HeadTailProperties, TailIsSubSeq
  <2>3. QED
    BY <1>2, <2>2 DEF WaitingIn
<1>3. CASE at # "advance"
  <2>1. SubSeq(Content(q), 1, Used(q)) = Content(q)
    BY <1>1, SubSeqFull
  <2>2. QED
    BY <1>1, <1>3, <2>1 DEF WaitingIn
<1>4. QED
  BY <1>2, <1>3

LEMMA ReceivedIs ==
  ASSUME ReceiveTypeOK
  PROVE  /\ WaitingIn(rxQueue, pc) \in Seq(Nat)
         /\ Received = (got \o WaitingIn(rxQueue, pc)) \o rxFifo
<1>1. rxQueue \in Rings /\ (pc = "advance" => Used(rxQueue) > 0)
  BY UsedIs DEF ReceiveTypeOK, Slots
<1>2. QED
  BY <1>1, WaitingIs DEF Received, Waiting

LEMMA ReceivedIsNext ==
  ASSUME ReceiveTypeOK'
  PROVE  /\ WaitingIn(rxQueue', pc') \in Seq(Nat)
         /\ Received' = (got' \o WaitingIn(rxQueue', pc')) \o rxFifo'
<1>1. rxQueue' \in Rings /\ (pc' = "advance" => Used(rxQueue') > 0)
  BY UsedIs DEF ReceiveTypeOK, Slots
<1>2. QED
  BY <1>1, WaitingIs DEF Received, Waiting

LEMMA ReceiveTypeNext ==
  ASSUME ReceiveTypeOK, [PortNext]_portVars PROVE ReceiveTypeOK'
<1>1. /\ rxQueue \in Rings /\ rxFifo \in Seq(Nat) /\ got \in Seq(Nat)
      /\ arrived \in Nat /\ intact \in BOOLEAN /\ left \in Nat
      /\ isr \in {"idle", "receive", "transmit", "errors"}
      /\ pc \in {"loop", "copy", "advance", "wait", "stopped"}
      /\ pc = "copy" => left > 0 /\ left <= Used(rxQueue)
      /\ pc = "advance" => left < Used(rxQueue)
      /\ Used(rxQueue) \in Nat
  BY UsedIs DEF ReceiveTypeOK, Slots
<1>2. CASE UNCHANGED <<rxQueue, rxFifo, got, arrived, intact, left, isr, pc>>
  BY <1>1, <1>2 DEF ReceiveTypeOK
<1>3. ASSUME NEW bad \in BOOLEAN, ReceivesByte(bad) PROVE ReceiveTypeOK'
  <2>1. /\ UNCHANGED <<rxQueue, got, left, isr, pc>> /\ arrived' = arrived + 1
        /\ intact' = (intact /\ ~bad /\ Len(rxFifo) < FIFO)
        /\ rxFifo' = rxFifo \/ rxFifo' = Append(rxFifo, IF bad THEN 0 ELSE arrived')
    BY <1>3 DEF ReceivesByte, txVars
  <2>2. arrived' \in Nat
    BY <1>1, <2>1
  <2>3. rxFifo' \in Seq(Nat)
    <3> DEFINE x == IF bad THEN 0 ELSE arrived'
    <3>1. x \in Nat
      BY <2>2
    <3>2. rxFifo' = rxFifo \/ rxFifo' = Append(rxFifo, x)
      BY <2>1
    <3> HIDE DEF x
    <3>3. Append(rxFifo, x) \in Seq(Nat)
      BY <1>1, <3>1, AppendProperties
    <3>4. QED
      BY <1>1, <3>2, <3>3
  <2>4. intact' \in BOOLEAN
    BY <2>1
  <2>5. QED
    BY <1>1, <2>1, <2>2, <2>3, <2>4 DEF ReceiveTypeOK
<1>4. CASE LookAtReceived \/ AllReceived \/ TransmitMore
  <2>1. /\ isr' \in {"idle", "receive", "transmit", "errors"}
        /\ UNCHANGED <<rxQueue, rxFifo, got, arrived, intact, left, pc>>
    BY <1>4 DEF LookAtReceived, AllReceived, TransmitMore, rxVars, pastVars
  <2>2. QED
    BY <1>1, <2>1 DEF ReceiveTypeOK
<1>5. CASE ProcessRxFifo
  <2>1. /\ rxFifo # <<>> /\ rxQueue' = Enqueue(rxQueue, Head(rxFifo)) /\ rxFifo' = Tail(rxFifo)
        /\ intact' = (intact /\ Used(rxQueue) < QUEUE_SIZE - 1)
        /\ UNCHANGED <<got, arrived, left, isr, pc>>
    BY <1>5 DEF ProcessRxFifo
  <2>2. Head(rxFifo) \in Nat /\ rxFifo' \in Seq(Nat)
    BY <1>1, <2>1, HeadTailProperties
  <2>3. rxQueue' \in Rings /\ Used(rxQueue') \in Nat /\ Used(rxQueue') >= Used(rxQueue)
    <3>1. CASE Used(rxQueue) < QUEUE_SIZE - 1
      BY <1>1, <2>1, <2>2, <3>1, EnqueueAppends
    <3>2. CASE ~(Used(rxQueue) < QUEUE_SIZE - 1)
      <4>1. rxQueue' = rxQueue
        BY <1>1, <2>1, <3>2, QueueSizeAssumption DEF Enqueue
      <4>2. QED
        BY <1>1, <4>1
    <3>3. QED
      BY <3>1, <3>2
  <2>4. intact' \in BOOLEAN
    BY <2>1
  <2>5. /\ pc = "copy" => left <= Used(rxQueue')
        /\ pc = "advance" => left < Used(rxQueue')
    BY <1>1, <2>3
  <2>6. QED
    BY <1>1, <2>1, <2>2, <2>3, <2>4, <2>5 DEF ReceiveTypeOK
<1>6. CASE ClearErrors \/ SetPortSettings
  <2>1. /\ rxFifo' = <<>> \/ rxFifo' = rxFifo
        /\ intact' \in BOOLEAN /\ isr' \in {"idle", "receive", "transmit", "errors"}
        /\ pc' = pc \/ pc' = "loop"
        /\ UNCHANGED <<rxQueue, got, arrived, left>>
    BY <1>1, <1>6 DEF ClearErrors, SetPortSettings, ResetRxFifo, rxVars
  <2>2. rxFifo' \in Seq(Nat)
    BY <1>1, <2>1, EmptySeq
  <2>3. QED
    BY <1>1, <2>1, <2>2 DEF ReceiveTypeOK
<1>7. ASSUME NEW len \in Lengths, AnswerAndWait(len) PROVE ReceiveTypeOK'
  <2>1. pc' = "wait" /\ UNCHANGED <<rxQueue, rxFifo, got, arrived, intact, left, isr>>
    BY <1>7 DEF AnswerAndWait, rxVars
  <2>2. QED
    BY <1>1, <2>1 DEF ReceiveTypeOK
<1>8. CASE DisablePort
  <2>1. pc' = "stopped" /\ UNCHANGED <<rxQueue, rxFifo, got, arrived, intact, left, isr>>
    BY <1>8 DEF DisablePort, rxVars, pastVars
  <2>2. QED
    BY <1>1, <2>1 DEF ReceiveTypeOK
<1>9. ASSUME NEW n \in 1 .. QUEUE_SIZE, DequeueBuf(n) PROVE ReceiveTypeOK'
  <2>1. /\ Used(rxQueue) > 0 /\ left' = IF Used(rxQueue) < n THEN Used(rxQueue) ELSE n
        /\ pc' = "copy" /\ UNCHANGED <<rxQueue, rxFifo, got, arrived, intact, isr>>
    BY <1>9 DEF DequeueBuf, rxVars, pastVars
  <2>2. left' \in Nat /\ left' > 0 /\ left' <= Used(rxQueue)
    BY <1>1, <2>1, QueueSizeAssumption
  <2>3. QED
    BY <1>1, <2>1, <2>2 DEF ReceiveTypeOK
<1>10. CASE CopyByte
  <2>1. /\ pc = "copy" /\ pc' = "advance" /\ left' = left - 1
        /\ got' = Append(got, rxQueue.data[rxQueue.tail])
        /\ UNCHANGED <<rxQueue, rxFifo, arrived, intact, isr>>
    BY <1>10 DEF CopyByte, MainRuns, rxVars
  <2>2. rxQueue.data[rxQueue.tail] \in Nat
    BY <1>1, RingFields
  <2>3. got' \in Seq(Nat)
    BY <1>1, <2>1, <2>2, AppendProperties
  <2>4. left' \in Nat /\ left' < Used(rxQueue)
    BY <1>1, <2>1
  <2>5. QED
    BY <1>1, <2>1, <2>3, <2>4 DEF ReceiveTypeOK
<1>11. CASE AdvanceTail
  <2>1. /\ pc = "advance" /\ rxQueue' = [rxQueue EXCEPT !.tail = Following(@)]
        /\ pc' = (IF left = 0 THEN "loop" ELSE "copy")
        /\ UNCHANGED <<rxFifo, got, arrived, intact, left, isr>>
    BY <1>11 DEF AdvanceTail, MainRuns, rxVars, pastVars
  <2>2. rxQueue' \in Rings /\ Used(rxQueue') = Used(rxQueue) - 1
    BY <1>1, <2>1, TailAdvances
  <2>3. pc' = "copy" => left' > 0 /\ left' <= Used(rxQueue')
    BY <1>1, <2>1, <2>2
  <2>4. QED
    BY <1>1, <2>1, <2>2, <2>3 DEF ReceiveTypeOK
<1>12. CASE TransmitsByte \/ NothingArrives \/ (\E len \in Lengths : TransmitPacket(len))
            \/ UNCHANGED portVars
  BY <1>2, <1>12 DEF TransmitsByte, NothingArrives, TransmitPacket, txVars, rxVars, pastVars, portVars
<1>13. QED
  BY <1>3, <1>4, <1>5, <1>6, <1>7, <1>8, <1>9, <1>10, <1>11, <1>12
  DEF PortNext, UART, HandleComIRQ, Main, Take

LEMMA OrderKeeps ==
  ASSUME ReceivedInv, Received' = Received, arrived' = arrived, intact' => intact
  PROVE  ReceivedInv'
BY DEF ReceivedInv

LEMMA OrderNext ==
  ASSUME ReceiveTypeOK, ReceivedInv, [PortNext]_portVars PROVE ReceivedInv'
<1>1. ReceiveTypeOK'
  BY ReceiveTypeNext
<1> DEFINE W == WaitingIn(rxQueue, pc)
           N == WaitingIn(rxQueue', pc')
<1>2. /\ W \in Seq(Nat) /\ Received = (got \o W) \o rxFifo
      /\ got \in Seq(Nat) /\ rxFifo \in Seq(Nat) /\ arrived \in Nat /\ intact \in BOOLEAN
  BY ReceivedIs DEF ReceiveTypeOK
<1>3. N \in Seq(Nat) /\ Received' = (got' \o N) \o rxFifo'
  BY <1>1, ReceivedIsNext
<1>4. got \o W \in Seq(Nat)
  BY <1>2, NumbersJoin
<1>5. InOrder(Received) /\ UpTo(Received, arrived)
      /\ (intact => Received = [i \in 1 .. arrived |-> i])
  BY DEF ReceivedInv
<1>6. CASE UNCHANGED <<rxQueue, rxFifo, got, arrived, intact>> /\ (pc = "advance" <=> pc' = "advance")
  <2>1. Received' = Received
    <3>1. N = W
      BY <1>6 DEF WaitingIn
    <3>2. QED
      BY <1>2, <1>3, <1>6, <3>1
  <2>2. QED
    BY <1>6, <2>1, OrderKeeps
<1>7. ASSUME NEW bad \in BOOLEAN, ReceivesByte(bad) PROVE ReceivedInv'
  <2>1. /\ UNCHANGED <<rxQueue, got, pc>> /\ arrived' = arrived + 1
        /\ intact' = (intact /\ ~bad /\ Len(rxFifo) < FIFO)
        /\ Len(rxFifo) < FIFO => rxFifo' = Append(rxFifo, IF bad THEN 0 ELSE arrived + 1)
        /\ ~(Len(rxFifo) < FIFO) => rxFifo' = rxFifo
    BY <1>7 DEF ReceivesByte, txVars
  <2>2. N = W
    BY <2>1
  <2>3. CASE Len(rxFifo) < FIFO
    <3> DEFINE x == IF bad THEN 0 ELSE arrived + 1
    <3>1. x \in Nat /\ (x = 0 \/ x = arrived + 1)
      BY <1>2
    <3>2. rxFifo' = Append(rxFifo, x)
      BY <2>1, <2>3
    <3>3. intact' => intact /\ x = arrived + 1
      BY <2>1
    <3> HIDE DEF x
    <3>4. (got \o W) \o Append(rxFifo, x) = Append((got \o W) \o rxFifo, x)
      BY <1>2, <1>4, <3>1, AppendToLast
    <3>5. Received' = Append(Received, x)
      BY <1>2, <1>3, <2>1, <2>2, <3>2, <3>4
    <3>6. Received \in Seq(Nat)
      BY <1>2, <1>4, NumbersJoin
    <3>7. InOrder(Received') /\ UpTo(Received', arrived')
      BY <1>2, <1>5, <2>1, <3>1, <3>5, <3>6, OneMoreInOrder
    <3>8. intact' => Received' = [i \in 1 .. arrived' |-> i]
      BY <1>2, <1>5, <2>1, <3>3, <3>5, NumbersGrow
    <3>9. QED
      BY <3>7, <3>8 DEF ReceivedInv
  <2>4. CASE ~(Len(rxFifo) < FIFO)
    <3>1. Received' = Received /\ ~intact' /\ arrived' = arrived + 1
      BY <1>2, <1>3, <2>1, <2>2, <2>4
    <3>2. Received \in Seq(Nat)
      BY <1>2, <1>4, NumbersJoin
    <3>3. UpTo(Received, arrived + 1)
      BY <1>2, <1>5, <3>2, UpToMore
    <3>4. QED
      BY <1>5, <3>1, <3>3 DEF ReceivedInv
  <2>5. QED
    BY <2>3, <2>4
<1>8. CASE ProcessRxFifo
  <2>1. /\ rxFifo # <<>> /\ rxQueue' = Enqueue(rxQueue, Head(rxFifo)) /\ rxFifo' = Tail(rxFifo)
        /\ intact' = (intact /\ Used(rxQueue) < QUEUE_SIZE - 1)
        /\ UNCHANGED <<got, arrived, pc>>
    BY <1>8 DEF ProcessRxFifo
  <2>2. rxQueue \in Rings /\ Used(rxQueue) \in Nat /\ QUEUE_SIZE \in Nat
        /\ (pc = "advance" => Used(rxQueue) > 0)
    BY UsedIs, QueueSizeAssumption DEF ReceiveTypeOK, Slots
  <2>3. Head(rxFifo) \in Nat /\ Tail(rxFifo) \in Seq(Nat)
    BY <1>2, <2>1, HeadTailProperties
  <2>4. CASE Used(rxQueue) < QUEUE_SIZE - 1
    <3>1. Content(rxQueue') = Append(Content(rxQueue), Head(rxFifo))
      BY <2>1, <2>2, <2>3, <2>4, EnqueueAppends
    <3>2. N = Append(W, Head(rxFifo))
      <4>1. Content(rxQueue) \in Seq(Nat) /\ Len(Content(rxQueue)) = Used(rxQueue)
        BY <2>2, ContentIs
      <4>2. CASE pc = "advance"
        <5>1. Content(rxQueue) # <<>>
          BY <2>2, <4>1, <4>2, EmptySeq
        <5>2. Tail(Append(Content(rxQueue), Head(rxFifo)))
                = Append(Tail(Content(rxQueue)), Head(rxFifo))
          BY <2>3, <4>1, <5>1, TailOfAppend
        <5>3. QED
          BY <2>1, <3>1, <4>2, <5>2 DEF WaitingIn
      <4>3. CASE pc # "advance"
        BY <2>1, <3>1, <4>3 DEF WaitingIn
      <4>4. QED
        BY <4>2, <4>3
    <3>3. Received' = Received
      <4>1. got \o Append(W, Head(rxFifo)) = Append(got \o W, Head(rxFifo))
        BY <1>2, <2>3, AppendToLast
      <4>2. Append(got \o W, Head(rxFifo)) \o Tail(rxFifo) = (got \o W) \o rxFifo
        BY <1>2, <1>4, <2>1, FirstMoves
      <4>3. QED
        BY <1>2, <1>3, <2>1, <3>2, <4>1, <4>2
    <3>4. QED
      BY <2>1, <3>3, OrderKeeps
  <2>5. CASE ~(Used(rxQueue) < QUEUE_SIZE - 1)
    <3>1. rxQueue' = rxQueue
      BY <2>1, <2>2, <2>5 DEF Enqueue
    <3>2. Received' = (got \o W) \o Tail(rxFifo)
      BY <1>3, <2>1, <3>1
    <3>3. InOrder(Received') /\ UpTo(Received', arrived')
      BY <1>2, <1>4, <1>5, <2>1, <3>2, OneLessInOrder
    <3>4. ~intact'
      BY <2>1, <2>5
    <3>5. QED
      BY <3>3, <3>4 DEF ReceivedInv
  <2>6. QED
    BY <2>4, <2>5
<1>9. CASE ClearErrors \/ SetPortSettings
  <2>1. UNCHANGED <<rxQueue, got, arrived>> /\ (pc = "advance" <=> pc' = "advance")
    BY <1>9 DEF ClearErrors, SetPortSettings, MainRuns
  <2>2. \/ rxFifo' = rxFifo /\ intact' = intact
        \/ rxFifo' = <<>> /\ intact' = FALSE
        \/ rxFifo' = <<>> /\ rxFifo = <<>> /\ intact' = intact
    <3>1. CASE ClearErrors
      BY <3>1 DEF ClearErrors, ResetRxFifo, rxVars
    <3>2. CASE SetPortSettings
      <4>1. rxFifo' = <<>> /\ intact' = (intact /\ rxFifo = <<>>)
        BY <3>2 DEF SetPortSettings, ResetRxFifo
      <4>2. QED
        BY <1>2, <4>1
    <3>3. QED
      BY <1>9, <3>1, <3>2
  <2>3. N = W
    BY <2>1 DEF WaitingIn
  <2>4. CASE rxFifo' = rxFifo /\ intact' = intact
    BY <1>2, <1>3, <2>1, <2>3, <2>4, OrderKeeps
  <2>5. CASE rxFifo' = <<>> /\ intact' = FALSE
    <3>1. Received' = got \o W
      BY <1>3, <1>4, <2>1, <2>3, <2>5, ConcatEmptySeq
    <3>2. InOrder(Received') /\ UpTo(Received', arrived')
      BY <1>2, <1>4, <1>5, <2>1, <3>1, PrefixInOrder
    <3>3. QED
      BY <2>5, <3>2 DEF ReceivedInv
  <2>6. QED
    BY <2>2, <2>4, <2>5
<1>10. CASE CopyByte
  <2>1. /\ pc = "copy" /\ pc' = "advance"
        /\ got' = Append(got, rxQueue.data[rxQueue.tail])
        /\ UNCHANGED <<rxQueue, rxFifo, arrived, intact>>
    BY <1>10 DEF CopyByte, MainRuns, rxVars
  <2>2. rxQueue \in Rings /\ Used(rxQueue) \in Nat /\ Used(rxQueue) > 0
    BY <2>1, UsedIs DEF ReceiveTypeOK, Slots
  <2>3. /\ Content(rxQueue) \in Seq(Nat) /\ Content(rxQueue) # <<>>
        /\ Head(Content(rxQueue)) = rxQueue.data[rxQueue.tail]
    BY <2>2, HeadOfContent
  <2>4. W = Content(rxQueue) /\ N = Tail(Content(rxQueue))
    BY <2>1 DEF WaitingIn
  <2>5. Append(got, Head(Content(rxQueue))) \o Tail(Content(rxQueue)) = got \o Content(rxQueue)
    BY <1>2, <2>3, FirstMoves
  <2>6. Received' = Received
    BY <1>2, <1>3, <2>1, <2>3, <2>4, <2>5
  <2>7. QED
    BY <2>1, <2>6, OrderKeeps
<1>11. CASE AdvanceTail
  <2>1. /\ pc = "advance" /\ pc' # "advance" /\ rxQueue' = [rxQueue EXCEPT !.tail = Following(@)]
        /\ UNCHANGED <<rxFifo, got, arrived, intact>>
    BY <1>11 DEF AdvanceTail, MainRuns, rxVars, pastVars
  <2>2. rxQueue \in Rings /\ Used(rxQueue) > 0
    BY <2>1, UsedIs DEF ReceiveTypeOK, Slots
  <2>3. Content(rxQueue') = Tail(Content(rxQueue))
    BY <2>1, <2>2, TailAdvances
  <2>4. N = W
    BY <2>1, <2>3 DEF WaitingIn
  <2>5. Received' = Received
    BY <1>2, <1>3, <2>1, <2>4
  <2>6. QED
    BY <2>1, <2>5, OrderKeeps
<1>12. ASSUME NEW n \in 1 .. QUEUE_SIZE, DequeueBuf(n) PROVE ReceivedInv'
  BY <1>6, <1>12 DEF DequeueBuf, MainRuns, rxVars, pastVars
<1>13. ASSUME NEW len \in Lengths, TransmitPacket(len) \/ AnswerAndWait(len) PROVE ReceivedInv'
  BY <1>6, <1>13 DEF TransmitPacket, AnswerAndWait, MainRuns, rxVars, pastVars
<1>14. CASE DisablePort
  BY <1>6, <1>14 DEF DisablePort, MainRuns, rxVars, pastVars
<1>15. CASE TransmitsByte \/ NothingArrives \/ LookAtReceived \/ AllReceived \/ TransmitMore
            \/ UNCHANGED portVars
  BY <1>6, <1>15 DEF TransmitsByte, NothingArrives, LookAtReceived, AllReceived, TransmitMore,
     txVars, rxVars, pastVars, portVars
<1>16. QED
  BY <1>7, <1>8, <1>9, <1>10, <1>11, <1>12, <1>13, <1>14, <1>15
  DEF PortNext, UART, HandleComIRQ, Main, Take

LEMMA ReceiveStarts ==
  ASSUME InitializePort PROVE ReceiveTypeOK /\ ReceivedInv
<1>1. /\ rxQueue = InitializedQueue /\ rxFifo = <<>> /\ got = <<>> /\ arrived = 0
      /\ intact = TRUE /\ left = 0 /\ isr = "idle" /\ pc = "loop"
  BY DEF InitializePort
<1>2. rxQueue \in Rings /\ Used(rxQueue) = 0
  BY <1>1, QueueSizeAssumption DEF InitializedQueue, Rings, Slots, Used
<1>3. ReceiveTypeOK
  BY <1>1, <1>2, EmptySeq DEF ReceiveTypeOK
<1>4. Content(rxQueue) = <<>>
  BY <1>2, ContentIs, EmptySeq
<1>5. Received = <<>>
  <2>1. Received = (<<>> \o <<>>) \o <<>>
    BY <1>1, <1>3, <1>4, ReceivedIs DEF WaitingIn
  <2>2. <<>> \in Seq(Nat)
    BY EmptySeq
  <2>3. QED
    BY <2>1, <2>2, ConcatEmptySeq
<1>6. <<>> = [i \in 1 .. 0 |-> i] /\ Len(<<>>) = 0
  OBVIOUS
<1>7. QED
  BY <1>1, <1>3, <1>5, <1>6 DEF ReceivedInv, InOrder, UpTo

LEMMA PortInvariant == PortSpec => []PortInv
<1>1. InitializePort => PortInv
  BY TransmitInvStarts, ReceiveStarts DEF PortInv
<1>2. PortInv /\ [PortNext]_portVars => PortInv'
  BY TransmitInvNext, ReceiveTypeNext, OrderNext DEF PortInv
<1>3. QED
  BY <1>1, <1>2, PTL DEF PortSpec

(***************************************************************************)
(* In either direction no byte changes its place, whatever the handler     *)
(* does while the main loop uses the queues (serial.c, queue.c).           *)
(***************************************************************************)
THEOREM BytesStayInOrder == PortSpec => []BytesInOrder
<1>1. PortInv => BytesInOrder
  BY DEF PortInv, TransmitInv, ReceivedInv, InOrder, BytesInOrder, ReceivedInOrder
<1>2. QED
  BY <1>1, PortInvariant, PTL

(***************************************************************************)
(* The settings change, or the firmware resets, only when all that was     *)
(* accepted is out: the wait for the UART is enough, as an interrupt is    *)
(* pending, and keeps the main loop from going on, as long as the queue is *)
(* not empty and the UART is.                                              *)
(***************************************************************************)
THEOREM AnswersGetOut == PortSpec => AnswerIsOut
<1>1. ASSUME TransmitInv, [PortNext]_portVars, pc = "wait", pc' # "wait"
      PROVE  wire = accepted
  <2>1. SetPortSettings \/ DisablePort
    BY <1>1 DEF PortNext, UART, HandleComIRQ, Main, Take, TransmitsByte, ReceivesByte,
       NothingArrives, LookAtReceived, ProcessRxFifo, AllReceived, TransmitMore, ClearErrors,
       TransmitPacket, AnswerAndWait, DequeueBuf, CopyByte, AdvanceTail, MainRuns, portVars
  <2>2. ~Pending /\ IsTxFifoEmpty
    BY <2>1 DEF SetPortSettings, DisablePort, MainRuns
  <2>3. QED
    BY <1>1, <2>2, EmptyWhenIdle
<1>2. PortInv /\ [PortNext]_portVars => [pc = "wait" /\ pc' # "wait" => wire = accepted]_portVars
  BY <1>1 DEF PortInv
<1>3. QED
  BY <1>2, PortInvariant, PTL DEF PortSpec, AnswerIsOut

-------------------------------------------------------------------------------
(***************************************************************************)
(* The host link.                                                          *)
(***************************************************************************)
USE SizeAssumption, QueueSizeAssumption, BoundAssumption

AnyPacket == Packets \union {NoPacket}

-------------------------------------------------------------------------------
\* The members of AnyPacket are records with a stamp and an id.
LEMMA PacketFields ==
  ASSUME NEW p \in AnyPacket
  PROVE  /\ p.n \in 0 .. MaxPackets /\ p.id \in 0 .. MaxPacketID
         /\ p \in Packets => p.n \in Stamps /\ p.id \in 1 .. MaxPacketID
         /\ p \notin Packets => p = NoPacket
         /\ p.cmd \in {"ReceivePacket", "TransmitConfirm"} => p \in Packets
  BY DEF AnyPacket, Packets, NoPacket, Stamps, AllCommands

\* A new packet is a packet, with the next id and the next stamp.
LEMMA NewPacketType ==
  ASSUME TypeOK, NEW cmd \in Commands, queued < MaxPackets
  PROVE  /\ NewPacket(cmd) \in Packets
         /\ NewPacket(cmd).n = queued + 1 /\ NewPacket(cmd).id = NextPacketID
         /\ NextPacketID \in 1 .. MaxPacketID
  BY DEF TypeOK, NewPacket, NextPacketID, Packets, Stamps

\* A row of answers is a sequence of answers.
LEMMA NaksType ==
  ASSUME NEW k \in Nat
  PROVE  Naks(k) \in Seq(Answers) /\ Len(Naks(k)) = k
         /\ \A i \in 1 .. k : Naks(k)[i] = "ACK_INVALID_PACKET"
  BY DEF Naks, Answers

-------------------------------------------------------------------------------
(***************************************************************************)
(* The pieces that the transmitting actions share.                         *)
(***************************************************************************)
SendPieces ==
  /\ awaiting232Ack' \in BOOLEAN /\ failCount' \in Nat /\ tries' \in Nat
  /\ last232' \in AnyPacket /\ toHost' \in Seq(AnyPacket)

\* RetryLast232 puts p on the line or loses it.
LEMMA RetryPieces ==
  ASSUME TypeOK, NEW p \in AnyPacket, RetryLast232(p)
  PROVE  /\ awaiting232Ack' \in BOOLEAN
         /\ toHost' = toHost \/ toHost' = Append(toHost, p)
         /\ toHost' \in Seq(AnyPacket)
  BY DEF TypeOK, RetryLast232, AnyPacket

\* A failed attempt retransmits last232, or nothing.
LEMMA FailedPieces ==
  ASSUME TypeOK, AttemptFailed
  PROVE  /\ SendPieces /\ last232' = last232
         /\ toHost' = toHost \/ toHost' = Append(toHost, last232)
  <1>1. last232 \in AnyPacket /\ toHost \in Seq(AnyPacket)
    BY DEF TypeOK, AnyPacket
  <1>2. last232' = last232 /\ failCount' \in Nat
    BY DEF AttemptFailed, TypeOK
  <1>3. CASE failCount + 1 > MAX_232_RETRIES
    BY <1>1, <1>2, <1>3 DEF AttemptFailed, SendPieces, TypeOK
  <1>4. CASE ~(failCount + 1 > MAX_232_RETRIES)
    <2>1. RetryLast232(last232) /\ tries' \in Nat
      BY <1>4 DEF AttemptFailed, TypeOK
    <2> QED
      BY <1>1, <1>2, <2>1, RetryPieces DEF SendPieces
  <1> QED
    BY <1>3, <1>4

\* Sending the next packet takes it off the queue.
LEMMA NextPieces ==
  ASSUME TypeOK, NEW q \in Seq(Packets), SendNext(q)
  PROVE  /\ SendPieces /\ q # <<>> /\ last232' = Head(q) /\ txPackets' = Tail(q)
         /\ toHost' = toHost \/ toHost' = Append(toHost, Head(q))
         /\ Head(q) \in Packets /\ txPackets' \in Seq(Packets)
  <1>1. q # <<>> /\ last232' = Head(q) /\ txPackets' = Tail(q) /\ RetryLast232(Head(q))
        /\ failCount' = 0 /\ tries' = 1
    BY DEF SendNext
  <1>2. Head(q) \in Packets /\ Tail(q) \in Seq(Packets)
    BY <1>1, HeadTailProperties, LenProperties
  <1> QED
    BY <1>1, <1>2, RetryPieces DEF SendPieces, AnyPacket

\* The rest of TypeOK, for a step of the firmware's transmitter.
LEMMA SendType ==
  ASSUME TypeOK, SendPieces, txPackets' \in Seq(Packets), packetID' \in 0 .. MaxPacketID,
         queued' \in 0 .. MaxPackets, UNCHANGED <<advRecvEnabled, hostVars, faults, requests>>,
         toQBridge' \in Seq(Answers \union Requests), prompt' \in BOOLEAN
  PROVE  TypeOK'
  BY DEF TypeOK, SendPieces, AnyPacket, hostVars

\* Transmit232IfReady keeps the types, whatever the queue.
LEMMA TransmitPieces ==
  ASSUME TypeOK, NEW q \in Seq(Packets),
         TimedOut(q) \/ StillWaiting(q) \/ NothingReady(q) \/ SendNext(q)
  PROVE  SendPieces /\ txPackets' \in Seq(Packets) /\ prompt' \in BOOLEAN
  <1>1. CASE TimedOut(q)
    BY <1>1, FailedPieces DEF TimedOut, TypeOK
  <1>2. CASE StillWaiting(q) \/ NothingReady(q)
    BY <1>2 DEF StillWaiting, NothingReady, SendPieces, TypeOK, sendVars, AnyPacket
  <1>3. CASE SendNext(q)
    BY <1>3, NextPieces DEF SendNext, TypeOK
  <1> QED
    BY <1>1, <1>2, <1>3

\* Queueing and transmitting keep the types.
LEMMA QueueType ==
  ASSUME TypeOK, NEW cmd \in Commands, QueueTx232Packet(cmd)
  PROVE  TypeOK'
  <1>1. /\ queued < MaxPackets /\ queued' = queued + 1 /\ packetID' = NextPacketID
        /\ UNCHANGED <<advRecvEnabled, toQBridge, hostVars, faults, requests>>
    BY DEF QueueTx232Packet
  <1>2. NewPacket(cmd) \in Packets /\ NextPacketID \in 1 .. MaxPacketID
    BY <1>1, NewPacketType
  <1>3. queued' \in 0 .. MaxPackets /\ packetID' \in 0 .. MaxPacketID
        /\ toQBridge' \in Seq(Answers \union Requests)
    BY <1>1, <1>2 DEF TypeOK
  <1>4. CASE Fits(cmd)
    <2> DEFINE q == Append(txPackets, NewPacket(cmd))
    <2>1. q \in Seq(Packets)
      BY <1>2 DEF TypeOK
    <2>2. TimedOut(q) \/ StillWaiting(q) \/ NothingReady(q) \/ SendNext(q)
      BY <1>4 DEF QueueTx232Packet, Accept
    <2> HIDE DEF q
    <2>3. SendPieces /\ txPackets' \in Seq(Packets) /\ prompt' \in BOOLEAN
      BY <2>1, <2>2, TransmitPieces
    <2> QED
      BY <1>1, <1>3, <2>3, SendType
  <1>5. CASE ~Fits(cmd)
    <2>1. SendPieces /\ txPackets' \in Seq(Packets) /\ prompt' \in BOOLEAN
      BY <1>5 DEF QueueTx232Packet, Refuse, TypeOK, SendPieces, sendVars, AnyPacket
    <2> QED
      BY <1>1, <1>3, <2>1, SendType
  <1> QED
    BY <1>4, <1>5

\* A frame for the firmware is taken off the line.
LEMMA FromHostPieces ==
  ASSUME TypeOK, NEW frames, FromHost(frames)
  PROVE  /\ toQBridge # <<>> /\ Head(toQBridge) \in frames /\ toQBridge' = Tail(toQBridge)
         /\ toQBridge' \in Seq(Answers \union Requests) /\ prompt' = prompt
  BY HeadTailProperties, LenProperties DEF FromHost, TypeOK

\* Receiving keeps the types on the firmware's side.
LEMMA FirmwareType ==
  ASSUME TypeOK, FirmwareReceives
  PROVE  TypeOK'
  <1>1. CASE ReceiveAck
    BY <1>1, FromHostPieces DEF ReceiveAck, TypeOK, queueVars, hostVars, boundVars
  <1>2. CASE ReceiveNak
    <2>1. SendPieces
      BY <1>2, FailedPieces DEF ReceiveNak
    <2>2. toQBridge' \in Seq(Answers \union Requests) /\ prompt' \in BOOLEAN
      BY <1>2, FromHostPieces DEF ReceiveNak, TypeOK
    <2> QED
      BY <1>2, <2>1, <2>2, SendType DEF ReceiveNak, TypeOK, queueVars, boundVars, hostVars
  <1>3. CASE ReceiveInit232
    BY <1>3, FromHostPieces DEF ReceiveInit232, TypeOK, sendVars, hostVars, boundVars
  <1>4. CASE ReceiveAdvRecvMode
    BY <1>4, FromHostPieces DEF ReceiveAdvRecvMode, TypeOK, queueVars, sendVars, hostVars, boundVars
  <1> QED
    BY <1>1, <1>2, <1>3, <1>4 DEF FirmwareReceives

\* What the host takes off the line is a packet.
LEMMA HostTakesPieces ==
  ASSUME TypeOK, NEW p, HostTakes(p)
  PROVE  /\ toHost # <<>> /\ p = toHost[1] /\ p \in AnyPacket /\ toHost' = Tail(toHost)
         /\ Len(toHost) \in Nat \ {0}
         /\ toHost' \in Seq(AnyPacket) /\ Len(toHost') = Len(toHost) - 1
         /\ \A i \in 1 .. Len(toHost') : toHost'[i] = toHost[i + 1]
         /\ UNCHANGED <<queueVars, sendVars, advRecvEnabled, boundVars, prompt>>
  <1>1. toHost \in Seq(AnyPacket)
    BY DEF TypeOK, AnyPacket
  <1> QED
    BY <1>1, HeadTailProperties, LenProperties DEF HostTakes

\* What the host answers is an answer or a request.
LEMMA HostAnswersPieces ==
  ASSUME TypeOK, NEW a \in Answers \union Requests, HostAnswers(a)
  PROVE  /\ toQBridge' = Append(toQBridge, a)
         /\ toQBridge' \in Seq(Answers \union Requests)
  BY DEF HostAnswers, TypeOK

\* Receiving keeps the types on the host's side.
LEMMA HostType ==
  ASSUME TypeOK, NEW p \in AnyPacket,
         HostDelivers(p) \/ HostDropsDuplicate(p) \/ HostConfirms(p) \/ HostIgnores(p)
  PROVE  TypeOK'
  <1>1. HostTakes(p)
    BY DEF HostDelivers, HostDropsDuplicate, HostConfirms, HostIgnores
  <1>2. /\ toHost' \in Seq(Packets \union {NoPacket})
        /\ UNCHANGED <<queueVars, sendVars, advRecvEnabled, boundVars, prompt>>
    BY <1>1, HostTakesPieces DEF AnyPacket
  <1>3. toQBridge' \in Seq(Answers \union Requests)
    <2>1. CASE HostDelivers(p) \/ HostConfirms(p)
      BY <2>1, HostAnswersPieces DEF HostDelivers, HostConfirms, Answers
    <2>2. CASE HostDropsDuplicate(p)
      BY <2>2, HostAnswersPieces DEF HostDropsDuplicate, Answers
    <2>3. CASE HostIgnores(p)
      BY <2>3 DEF HostIgnores, TypeOK
    <2> QED
      BY <2>1, <2>2, <2>3
  <1>4. /\ lastRecvPktId' \in 0 .. MaxPacketID /\ hostStamp' \in 0 .. MaxPackets
        /\ lastDelivered' \in 0 .. MaxPackets /\ delivered' \subseteq Stamps
    <2>1. CASE HostDelivers(p) \/ HostConfirms(p)
      <3>1. p.id \in 1 .. MaxPacketID /\ p.n \in Stamps
        BY <2>1, PacketFields DEF HostDelivers, HostConfirms
      <3>2. delivered' = delivered \union {p.n} /\ delivered \subseteq Stamps
        BY <2>1 DEF HostDelivers, HostConfirms, TypeOK
      <3>3. CASE HostDelivers(p)
        <4>1. lastRecvPktId' = p.id /\ hostStamp' = p.n /\ lastDelivered' = p.n
          BY <3>3 DEF HostDelivers
        <4>2. p.n \in 0 .. MaxPackets /\ {p.n} \subseteq Stamps
          BY <3>1 DEF Stamps
        <4> QED
          BY <3>1, <3>2, <4>1, <4>2
      <3>4. CASE HostConfirms(p)
        BY <3>1, <3>2, <3>4 DEF HostConfirms, TypeOK
      <3> QED
        BY <2>1, <3>3, <3>4
    <2>2. CASE HostDropsDuplicate(p) \/ HostIgnores(p)
      BY <2>2 DEF HostDropsDuplicate, HostIgnores, hostVars, TypeOK
    <2> QED
      BY <2>1, <2>2
  <1> QED
    BY <1>2, <1>3, <1>4 DEF TypeOK, queueVars, sendVars, boundVars

\* Disturbances keep the types.
LEMMA LineType ==
  ASSUME TypeOK, LineFails
  PROVE  TypeOK'
  <1>1. ASSUME NEW kind, Disturb(kind), toHost' \in Seq(Packets \union {NoPacket}),
               toQBridge' \in Seq(Answers \union Requests), prompt' \in BOOLEAN
        PROVE  TypeOK'
    BY <1>1 DEF Disturb, TypeOK, queueVars, sendVars, hostVars
  <1>2. ASSUME NEW k \in 0 .. NaksPerFault, GarbledToHost(k)
        PROVE  TypeOK'
    <2>1. Naks(k) \in Seq(Answers \union Requests)
      BY NaksType DEF Naks, Answers
    <2>2. toHost' \in Seq(Packets \union {NoPacket})
      BY <1>2, HeadTailProperties, LenProperties DEF GarbledToHost, TypeOK
    <2>3. toQBridge' \in Seq(Answers \union Requests)
      BY <1>2, <2>1 DEF GarbledToHost, TypeOK
    <2> QED
      BY <1>1, <1>2, <2>2, <2>3 DEF GarbledToHost, TypeOK
  <1>3. CASE NoiseToHost
    <2>1. toQBridge' \in Seq(Answers \union Requests)
      BY <1>3, HostAnswersPieces DEF NoiseToHost, Answers
    <2> QED
      BY <1>1, <1>3, <2>1 DEF NoiseToHost, TypeOK
  <1>4. CASE GarbledToQBridge
    <2>1. toQBridge' \in Seq(Answers \union Requests)
      BY <1>4, HeadTailProperties, LenProperties DEF GarbledToQBridge, TypeOK
    <2> QED
      BY <1>1, <1>4, <2>1 DEF GarbledToQBridge, TypeOK
  <1> QED
    BY <1>2, <1>3, <1>4 DEF LineFails

\* Every step keeps the types.
LEMMA TypeStep ==
  ASSUME TypeOK, [Next]_vars
  PROVE  TypeOK'
  <1>1. ASSUME NEW cmd \in Commands, QueueTx232Packet(cmd) PROVE TypeOK'
    BY <1>1, QueueType
  <1>2. CASE Transmit232IfReady
    <2>1. txPackets \in Seq(Packets)
      BY DEF TypeOK
    <2>2. SendPieces /\ txPackets' \in Seq(Packets) /\ prompt' \in BOOLEAN
      BY <1>2, <2>1, TransmitPieces DEF Transmit232IfReady
    <2> QED
      BY <1>2, <2>2, SendType DEF Transmit232IfReady, TypeOK, boundVars, hostVars
  <1>3. CASE FirmwareReceives
    BY <1>3, FirmwareType
  <1>4. CASE HostReceives
    BY <1>4, HostType DEF HostReceives, AnyPacket
  <1>5. ASSUME NEW request \in Requests, HostRequests(request) PROVE TypeOK'
    <2>1. toQBridge' \in Seq(Answers \union Requests)
      BY <1>5, HostAnswersPieces DEF HostRequests
    <2> QED
      <3>1. /\ UNCHANGED <<queueVars, sendVars, advRecvEnabled, toHost, hostVars, queued, faults>>
        BY <1>5 DEF HostRequests
      <3>2. requests' \in 0 .. MaxRequests
        BY <1>5 DEF HostRequests, TypeOK
      <3>3. prompt' \in BOOLEAN
        BY <1>5 DEF HostRequests
      <3> QED
        BY <2>1, <3>1, <3>2, <3>3 DEF TypeOK, queueVars, sendVars, hostVars
  <1>6. CASE LineFails
    BY <1>6, LineType
  <1>7. CASE UNCHANGED vars
    BY <1>7 DEF vars, queueVars, sendVars, hostVars, boundVars, TypeOK
  <1> QED
    BY <1>1, <1>2, <1>3, <1>4, <1>5, <1>6, <1>7 DEF Next

\* The initial state has the types.
LEMMA TypeInit == Init => TypeOK
  <1> SUFFICES ASSUME Init PROVE TypeOK
    OBVIOUS
  <1>1. /\ txPackets \in Seq(Packets) /\ toHost \in Seq(Packets \union {NoPacket})
        /\ toQBridge \in Seq(Answers \union Requests)
    BY DEF Init
  <1>2. packetID \in 0 .. MaxPacketID /\ failCount \in Nat
    BY DEF Init
  <1>6. awaiting232Ack \in BOOLEAN /\ advRecvEnabled \in BOOLEAN /\ prompt \in BOOLEAN
    BY DEF Init
  <1>7. last232 \in Packets \union {NoPacket}
    BY DEF Init
  <1>3. /\ lastRecvPktId \in 0 .. MaxPacketID /\ tries \in Nat
        /\ queued \in 0 .. MaxPackets /\ faults \in 0 .. MaxFaults /\ requests \in 0 .. MaxRequests
    BY DEF Init
  <1>4. hostStamp \in 0 .. MaxPackets /\ lastDelivered \in 0 .. MaxPackets
    BY DEF Init
  <1>5. delivered \subseteq Stamps
    BY DEF Init
  <1> QED
    BY <1>1, <1>2, <1>3, <1>4, <1>5, <1>6, <1>7 DEF TypeOK

(***************************************************************************)
(* Type correctness, on any line and with any host.                        *)
(***************************************************************************)
THEOREM TypeCorrect == Spec => []TypeOK
  <1>1. TypeOK /\ [Next]_vars => TypeOK'
    BY TypeStep
  <1> QED
    BY <1>1, TypeInit, PTL DEF Spec

-------------------------------------------------------------------------------
(***************************************************************************)
(* The order of stamps in the queue and on the line.                       *)
(***************************************************************************)
\* Stamps of packets are naturals.
LEMMA StampsAreNat ==
  ASSUME NEW p \in AnyPacket
  PROVE  p.n \in Nat
  BY PacketFields

\* A packet newer than the whole queue goes to its end.
LEMMA QueueAppend ==
  ASSUME NEW q \in Seq(Packets), NEW last \in AnyPacket, NEW c \in Nat,
         QueueInOrder(q, last, c), NEW p \in Packets, p.n = c + 1
  PROVE  QueueInOrder(Append(q, p), last, c + 1)
  <1> DEFINE r == Append(q, p)
  <1>1. /\ Len(r) = Len(q) + 1 /\ Len(q) \in Nat /\ r[Len(q) + 1] = p
        /\ \A i \in 1 .. Len(q) : r[i] = q[i]
    OBVIOUS
  <1>2. last.n \in Nat /\ \A i \in 1 .. Len(q) : q[i].n \in Nat
    <2>1. \A i \in 1 .. Len(q) : q[i] \in AnyPacket
      BY DEF AnyPacket
    <2> QED
      BY <2>1, StampsAreNat
  <1> HIDE DEF r
  <1>3. last.n <= c + 1
    BY <1>2 DEF QueueInOrder
  <1>4. ASSUME NEW i \in 1 .. Len(r) PROVE last.n < r[i].n /\ r[i].n <= c + 1
    BY <1>1, <1>2 DEF QueueInOrder
  <1>5. ASSUME NEW i \in 1 .. Len(r), NEW j \in 1 .. Len(r), i < j PROVE r[i].n < r[j].n
    <2>1. CASE j \in 1 .. Len(q)
      BY <1>1, <1>5, <2>1 DEF QueueInOrder
    <2>2. CASE j = Len(q) + 1
      <3>1. i \in 1 .. Len(q) /\ r[i].n = q[i].n /\ r[j].n = c + 1
        BY <1>1, <1>5, <2>2
      <3>2. q[i].n <= c
        BY <3>1 DEF QueueInOrder
      <3> QED
        BY <1>2, <3>1, <3>2
    <2> QED
      BY <1>1, <2>1, <2>2
  <1>6. QueueInOrder(r, last, c + 1)
    BY <1>3, <1>4, <1>5 DEF QueueInOrder
  <1> QED
    BY <1>6 DEF r

\* The head of the queue is newer than last232 and older than the rest.
LEMMA QueueHead ==
  ASSUME NEW q \in Seq(Packets), q # <<>>, NEW last, NEW c, QueueInOrder(q, last, c)
  PROVE  QueueInOrder(Tail(q), Head(q), c) /\ last.n < Head(q).n /\ Head(q).n <= c
  <1>1. /\ Len(q) \in Nat \ {0} /\ Head(q) = q[1] /\ Len(Tail(q)) = Len(q) - 1
        /\ \A i \in 1 .. Len(Tail(q)) : Tail(q)[i] = q[i + 1]
    BY HeadTailProperties, LenProperties
  <1>2. last.n < Head(q).n /\ Head(q).n <= c
    BY <1>1 DEF QueueInOrder
  <1>3. \A i \in 1 .. Len(Tail(q)) : Head(q).n < Tail(q)[i].n /\ Tail(q)[i].n <= c
    BY <1>1 DEF QueueInOrder
  <1>4. \A i, j \in 1 .. Len(Tail(q)) : i < j => Tail(q)[i].n < Tail(q)[j].n
    BY <1>1 DEF QueueInOrder
  <1> QED
    BY <1>2, <1>3, <1>4 DEF QueueInOrder

\* A packet as new as the last sent, and equal to it if not newer, may follow.
LEMMA FlightAppend ==
  ASSUME NEW line \in Seq(AnyPacket), NEW last \in AnyPacket, NEW p \in AnyPacket,
         FlightInOrder(line, last), last.n < p.n \/ p = last
  PROVE  FlightInOrder(line, p) /\ FlightInOrder(Append(line, p), p)
  <1> DEFINE r == Append(line, p)
  <1>1. /\ Len(r) = Len(line) + 1 /\ Len(line) \in Nat /\ r[Len(line) + 1] = p
        /\ \A i \in 1 .. Len(line) : r[i] = line[i]
    OBVIOUS
  <1>2. last.n \in Nat /\ p.n \in Nat /\ \A i \in 1 .. Len(line) : line[i].n \in Nat
    BY StampsAreNat
  <1> HIDE DEF r
  <1>3. \A i \in 1 .. Len(line) : line[i].n <= p.n /\ (line[i].n = p.n => line[i] = p)
    BY <1>2 DEF FlightInOrder
  <1>4. FlightInOrder(line, p)
    BY <1>3 DEF FlightInOrder
  <1>5. \A i \in 1 .. Len(r) : r[i].n <= p.n /\ (r[i].n = p.n => r[i] = p)
    BY <1>1, <1>2, <1>3
  <1>6. ASSUME NEW i \in 1 .. Len(r), NEW j \in 1 .. Len(r), i < j
        PROVE  r[i].n <= r[j].n /\ (r[i].n = r[j].n => r[i] = r[j])
    <2>1. CASE j \in 1 .. Len(line)
      BY <1>1, <1>6, <2>1 DEF FlightInOrder
    <2>2. CASE j = Len(line) + 1
      BY <1>1, <1>5, <2>2
    <2> QED
      BY <1>1, <2>1, <2>2
  <1>7. FlightInOrder(r, p)
    BY <1>5, <1>6 DEF FlightInOrder
  <1> QED
    BY <1>4, <1>7 DEF r

\* What is left when the first frame is taken is still in order.
LEMMA FlightTail ==
  ASSUME NEW line \in Seq(AnyPacket), line # <<>>, NEW last, FlightInOrder(line, last)
  PROVE  FlightInOrder(Tail(line), last)
  <1>1. /\ Len(line) \in Nat \ {0} /\ Len(Tail(line)) = Len(line) - 1
        /\ \A i \in 1 .. Len(Tail(line)) : Tail(line)[i] = line[i + 1]
    BY HeadTailProperties, LenProperties
  <1> QED
    BY <1>1 DEF FlightInOrder

\* Sending p, new or again, keeps the line in order and the host behind.
LEMMA SendOrder ==
  ASSUME TypeOK, OrderInv, NEW p \in AnyPacket, last232.n < p.n \/ p = last232,
         toHost' = toHost \/ toHost' = Append(toHost, p)
  PROVE  /\ FlightInOrder(toHost', p) /\ HostBehind(p)
         /\ \A i \in 1 .. Len(toHost') : HostBehind(toHost'[i])
  <1>1. toHost \in Seq(AnyPacket) /\ last232 \in AnyPacket /\ hostStamp \in Nat
    BY DEF TypeOK, AnyPacket
  <1>2. FlightInOrder(toHost, p) /\ FlightInOrder(Append(toHost, p), p)
    BY <1>1, FlightAppend DEF OrderInv
  <1>4. HostBehind(p)
    BY <1>1, StampsAreNat DEF OrderInv, HostBehind
  <1>5. \A i \in 1 .. Len(toHost) : HostBehind(toHost[i])
    BY DEF OrderInv
  <1>6. \A i \in 1 .. Len(Append(toHost, p)) : HostBehind(Append(toHost, p)[i])
    <2>1. /\ Len(Append(toHost, p)) = Len(toHost) + 1 /\ Len(toHost) \in Nat
          /\ Append(toHost, p)[Len(toHost) + 1] = p
          /\ \A i \in 1 .. Len(toHost) : Append(toHost, p)[i] = toHost[i]
      BY <1>1
    <2> QED
      BY <1>4, <1>5, <2>1
  <1>7. \A i \in 1 .. Len(toHost') : HostBehind(toHost'[i])
    BY <1>5, <1>6
  <1> QED
    BY <1>2, <1>4, <1>7

\* OrderInv after a step that leaves the host alone.
LEMMA OrderFromPieces ==
  ASSUME OrderInv, UNCHANGED hostVars, QueueInOrder(txPackets', last232', queued'),
         FlightInOrder(toHost', last232'), HostBehind(last232'),
         \A i \in 1 .. Len(toHost') : HostBehind(toHost'[i])
  PROVE  OrderInv'
  <1>1. hostStamp' = hostStamp /\ lastRecvPktId' = lastRecvPktId /\ lastDelivered' = lastDelivered
    BY DEF hostVars
  <1>2. HostBehind(last232)' /\ (\A i \in 1 .. Len(toHost) : HostBehind(toHost[i]))'
    BY <1>1 DEF HostBehind
  <1> QED
    BY <1>1, <1>2 DEF OrderInv, QueueInOrder, FlightInOrder

\* Transmit232IfReady, for a queue in order.
LEMMA TransmitOrder ==
  ASSUME TypeOK, OrderInv, UNCHANGED hostVars, NEW q \in Seq(Packets),
         QueueInOrder(q, last232, queued'),
         TimedOut(q) \/ StillWaiting(q) \/ NothingReady(q) \/ SendNext(q)
  PROVE  OrderInv'
  <1>1. CASE TimedOut(q)
    <2>1. /\ last232' = last232 /\ txPackets' = q
          /\ toHost' = toHost \/ toHost' = Append(toHost, last232)
      BY <1>1, FailedPieces DEF TimedOut
    <2>2. last232 \in AnyPacket
      BY DEF TypeOK, AnyPacket
    <2> QED
      BY <2>1, <2>2, SendOrder, OrderFromPieces
  <1>2. CASE StillWaiting(q) \/ NothingReady(q)
    <2>1. last232' = last232 /\ txPackets' = q /\ toHost' = toHost
      BY <1>2 DEF StillWaiting, NothingReady, sendVars
    <2> QED
      BY <2>1, OrderFromPieces DEF OrderInv
  <1>3. CASE SendNext(q)
    <2>1. /\ q # <<>> /\ last232' = Head(q) /\ txPackets' = Tail(q) /\ Head(q) \in AnyPacket
          /\ toHost' = toHost \/ toHost' = Append(toHost, Head(q))
      BY <1>3, NextPieces DEF AnyPacket
    <2>2. QueueInOrder(Tail(q), Head(q), queued') /\ last232.n < Head(q).n
      BY <2>1, QueueHead
    <2>3. /\ FlightInOrder(toHost', Head(q)) /\ HostBehind(Head(q))
          /\ \A i \in 1 .. Len(toHost') : HostBehind(toHost'[i])
      BY <2>1, <2>2, SendOrder
    <2> QED
      BY <2>1, <2>2, <2>3, OrderFromPieces
  <1> QED
    BY <1>1, <1>2, <1>3

\* Queueing, with or without room, keeps the order.
LEMMA QueueOrder ==
  ASSUME TypeOK, OrderInv, NEW cmd \in Commands, QueueTx232Packet(cmd)
  PROVE  OrderInv'
  <1>1. queued < MaxPackets /\ queued' = queued + 1 /\ UNCHANGED hostVars
    BY DEF QueueTx232Packet
  <1>2. NewPacket(cmd) \in Packets /\ NewPacket(cmd).n = queued + 1
    BY <1>1, NewPacketType
  <1>3. txPackets \in Seq(Packets) /\ last232 \in AnyPacket /\ queued \in Nat
    BY DEF TypeOK, AnyPacket
  <1>4. CASE Fits(cmd)
    <2> DEFINE q == Append(txPackets, NewPacket(cmd))
    <2>1. q \in Seq(Packets)
      BY <1>2, <1>3
    <2>2. QueueInOrder(q, last232, queued')
      BY <1>1, <1>2, <1>3, QueueAppend DEF OrderInv
    <2>3. TimedOut(q) \/ StillWaiting(q) \/ NothingReady(q) \/ SendNext(q)
      BY <1>4 DEF QueueTx232Packet, Accept
    <2> HIDE DEF q
    <2> QED
      BY <1>1, <2>1, <2>2, <2>3, TransmitOrder
  <1>5. CASE ~Fits(cmd)
    <2>1. UNCHANGED <<txPackets, last232, toHost>>
      BY <1>5 DEF QueueTx232Packet, Refuse, sendVars
    <2>2. last232.n \in Nat /\ \A i \in 1 .. Len(txPackets) : txPackets[i].n \in Nat
      <3>1. \A i \in 1 .. Len(txPackets) : txPackets[i] \in AnyPacket
        BY <1>3 DEF AnyPacket
      <3> QED
        BY <1>3, <3>1, StampsAreNat
    <2>3. QueueInOrder(txPackets, last232, queued + 1)
      BY <1>3, <2>2 DEF OrderInv, QueueInOrder
    <2> QED
      BY <1>1, <2>1, <2>3, OrderFromPieces DEF OrderInv
  <1> QED
    BY <1>4, <1>5

\* The host takes frames from the front; only a delivery moves what it knows.
LEMMA HostOrder ==
  ASSUME TypeOK, OrderInv, NEW p \in AnyPacket,
         HostDelivers(p) \/ HostDropsDuplicate(p) \/ HostConfirms(p) \/ HostIgnores(p)
  PROVE  OrderInv'
  <1>1. HostTakes(p)
    BY DEF HostDelivers, HostDropsDuplicate, HostConfirms, HostIgnores
  <1>2. /\ toHost # <<>> /\ p = toHost[1] /\ toHost' = Tail(toHost)
        /\ Len(toHost) \in Nat \ {0} /\ Len(toHost') = Len(toHost) - 1
        /\ \A i \in 1 .. Len(toHost') : toHost'[i] = toHost[i + 1]
        /\ UNCHANGED <<txPackets, last232, queued>>
    BY <1>1, HostTakesPieces DEF queueVars, sendVars, boundVars
  <1>3. toHost \in Seq(AnyPacket) /\ last232 \in AnyPacket
    BY DEF TypeOK, AnyPacket
  <1>4. FlightInOrder(toHost', last232)
    BY <1>2, <1>3, FlightTail DEF OrderInv
  <1>5. \A i \in 1 .. Len(toHost') : HostBehind(toHost'[i])
    BY <1>2 DEF OrderInv
  <1>6. CASE HostDelivers(p)
    <2>1. lastRecvPktId' = p.id /\ hostStamp' = p.n /\ lastDelivered' = p.n
      BY <1>6 DEF HostDelivers
    <2>2. p.n <= last232.n /\ (p.n = last232.n => p.id = last232.id)
      BY <1>2 DEF OrderInv, FlightInOrder
    <2>3. \A i \in 1 .. Len(toHost') :
            p.n <= toHost'[i].n /\ (p.n = toHost'[i].n => p.id = toHost'[i].id)
      BY <1>2 DEF OrderInv, FlightInOrder
    <2>4. HostBehind(last232)'
      BY <1>2, <2>1, <2>2 DEF HostBehind
    <2>5. (\A i \in 1 .. Len(toHost) : HostBehind(toHost[i]))'
      BY <2>1, <2>3 DEF HostBehind
    <2>6. QueueInOrder(txPackets, last232, queued)' /\ FlightInOrder(toHost, last232)'
      BY <1>2, <1>4 DEF OrderInv, QueueInOrder, FlightInOrder
    <2> QED
      BY <2>1, <2>4, <2>5, <2>6 DEF OrderInv
  <1>7. CASE HostDropsDuplicate(p) \/ HostIgnores(p)
    BY <1>2, <1>4, <1>5, <1>7, OrderFromPieces DEF HostDropsDuplicate, HostIgnores, OrderInv
  <1>8. CASE HostConfirms(p)
    <2>1. UNCHANGED <<lastRecvPktId, hostStamp, lastDelivered>>
      BY <1>8 DEF HostConfirms
    <2>2. HostBehind(last232)' /\ (\A i \in 1 .. Len(toHost) : HostBehind(toHost[i]))'
      BY <1>2, <1>5, <2>1 DEF OrderInv, HostBehind
    <2>3. QueueInOrder(txPackets, last232, queued)' /\ FlightInOrder(toHost, last232)'
      BY <1>2, <1>4 DEF OrderInv, QueueInOrder, FlightInOrder
    <2> QED
      BY <2>1, <2>2, <2>3 DEF OrderInv
  <1> QED
    BY <1>6, <1>7, <1>8

\* Steps that touch neither packets nor what the host knows.
LEMMA OrderFrame ==
  ASSUME OrderInv, UNCHANGED <<txPackets, last232, queued, toHost, hostVars>>
  PROVE  OrderInv'
  BY OrderFromPieces DEF OrderInv

\* Losing the frame at the front keeps the order.
LEMMA LineOrder ==
  ASSUME TypeOK, OrderInv, LineFails
  PROVE  OrderInv'
  <1>1. UNCHANGED <<txPackets, last232, queued, hostVars>>
    BY DEF LineFails, GarbledToHost, NoiseToHost, GarbledToQBridge, Disturb, queueVars, sendVars
  <1>2. CASE toHost' = toHost
    BY <1>1, <1>2, OrderFrame
  <1>3. CASE toHost # <<>> /\ toHost' = Tail(toHost)
    <2>1. toHost \in Seq(AnyPacket)
      BY DEF TypeOK, AnyPacket
    <2>2. /\ Len(toHost) \in Nat \ {0} /\ Len(toHost') = Len(toHost) - 1
          /\ \A i \in 1 .. Len(toHost') : toHost'[i] = toHost[i + 1]
      BY <1>3, <2>1, HeadTailProperties, LenProperties
    <2>3. FlightInOrder(toHost', last232)
      BY <1>3, <2>1, FlightTail DEF OrderInv
    <2>4. \A i \in 1 .. Len(toHost') : HostBehind(toHost'[i])
      BY <2>2 DEF OrderInv
    <2> QED
      BY <1>1, <2>3, <2>4, OrderFromPieces DEF OrderInv
  <1> QED
    BY <1>2, <1>3 DEF LineFails, GarbledToHost, NoiseToHost, GarbledToQBridge

\* Every step keeps the order.
LEMMA OrderStep ==
  ASSUME TypeOK, OrderInv, [Next]_vars
  PROVE  OrderInv'
  <1>1. ASSUME NEW cmd \in Commands, QueueTx232Packet(cmd) PROVE OrderInv'
    BY <1>1, QueueOrder
  <1>2. CASE Transmit232IfReady
    <2>1. /\ txPackets \in Seq(Packets) /\ UNCHANGED hostVars
          /\ QueueInOrder(txPackets, last232, queued')
      BY <1>2 DEF Transmit232IfReady, boundVars, TypeOK, OrderInv
    <2> QED
      BY <1>2, <2>1, TransmitOrder DEF Transmit232IfReady
  <1>3. CASE ReceiveNak
    <2>1. /\ last232' = last232 /\ UNCHANGED <<txPackets, queued, hostVars>>
          /\ toHost' = toHost \/ toHost' = Append(toHost, last232)
      BY <1>3, FailedPieces DEF ReceiveNak, queueVars, boundVars
    <2>2. last232 \in AnyPacket
      BY DEF TypeOK, AnyPacket
    <2>3. /\ FlightInOrder(toHost', last232) /\ HostBehind(last232)
          /\ \A i \in 1 .. Len(toHost') : HostBehind(toHost'[i])
      BY <2>1, <2>2, SendOrder
    <2> QED
      BY <2>1, <2>3, OrderFromPieces DEF OrderInv
  <1>4. CASE ReceiveAck \/ ReceiveInit232 \/ ReceiveAdvRecvMode
    BY <1>4, OrderFrame DEF ReceiveAck, ReceiveInit232, ReceiveAdvRecvMode, queueVars, sendVars, boundVars
  <1>5. CASE HostReceives
    BY <1>5, HostOrder DEF HostReceives, AnyPacket
  <1>6. ASSUME NEW request \in Requests, HostRequests(request) PROVE OrderInv'
    BY <1>6, OrderFrame DEF HostRequests, queueVars, sendVars
  <1>7. CASE LineFails
    BY <1>7, LineOrder
  <1>8. CASE UNCHANGED vars
    BY <1>8, OrderFrame DEF vars, queueVars, sendVars, boundVars
  <1> QED
    BY <1>1, <1>2, <1>3, <1>4, <1>5, <1>6, <1>7, <1>8 DEF Next, FirmwareReceives

\* Nothing is queued or in flight at first.
LEMMA OrderInit == Init => OrderInv
  BY DEF Init, OrderInv, QueueInOrder, FlightInOrder, HostBehind, NoPacket

\* The order of stamps is invariant.
LEMMA OrderInvariant == Spec => []OrderInv
  <1>1. TypeOK /\ OrderInv /\ [Next]_vars => OrderInv'
    BY OrderStep
  <1> QED
    BY <1>1, OrderInit, TypeCorrect, PTL DEF Spec

(***************************************************************************)
(* The host passes every received bus packet on once and in order, with    *)
(* any ids, stale acknowledgements, losses and any behaviour of timers.    *)
(***************************************************************************)
THEOREM OnceAndInOrder == Spec => DeliveredOnceInOrder
  <1>1. ASSUME TypeOK, OrderInv, NEW p \in Packets, HostDelivers(p)
        PROVE  p.n > lastDelivered
    <2>1. p = toHost[1] /\ Len(toHost) \in Nat \ {0}
      BY <1>1, HostTakesPieces DEF HostDelivers
    <2>2. HostBehind(p) /\ p.id # lastRecvPktId
      BY <1>1, <2>1 DEF OrderInv, HostDelivers
    <2>3. p.n \in Stamps /\ hostStamp \in Nat /\ lastDelivered = hostStamp
      BY <1>1 DEF Packets, TypeOK, OrderInv
    <2> QED
      BY <2>2, <2>3 DEF HostBehind, Stamps
  <1>2. TypeOK /\ OrderInv /\ [Next]_vars
          => [\A p \in Packets : HostDelivers(p) => p.n > lastDelivered]_vars
    BY <1>1
  <1> QED
    BY <1>2, TypeCorrect, OrderInvariant, PTL DEF Spec, DeliveredOnceInOrder

-------------------------------------------------------------------------------
\* A failed attempt is counted, and what it retransmits is counted.
LEMMA FailedTries ==
  ASSUME TypeOK, TriesInv, AttemptFailed
  PROVE  TriesInv' /\ last232' = last232
         /\ (failCount + 1 > MAX_232_RETRIES \/ RetryLast232(last232))
  <1>1. failCount \in Nat /\ tries \in Nat /\ failCount' = failCount + 1 /\ last232' = last232
    BY DEF TypeOK, AttemptFailed
  <1>2. CASE failCount + 1 > MAX_232_RETRIES
    BY <1>1, <1>2 DEF AttemptFailed, TriesInv
  <1>3. CASE ~(failCount + 1 > MAX_232_RETRIES)
    BY <1>1, <1>3 DEF AttemptFailed, TriesInv
  <1> QED
    BY <1>1, <1>2, <1>3

\* Transmit232IfReady keeps the count.
LEMMA TransmitTries ==
  ASSUME TypeOK, TriesInv, NEW q \in Seq(Packets),
         TimedOut(q) \/ StillWaiting(q) \/ NothingReady(q) \/ SendNext(q)
  PROVE  TriesInv'
  <1>1. CASE TimedOut(q)
    BY <1>1, FailedTries DEF TimedOut
  <1>2. CASE StillWaiting(q) \/ NothingReady(q)
    BY <1>2 DEF StillWaiting, NothingReady, sendVars, TriesInv
  <1>3. CASE SendNext(q)
    <2>1. last232' \in Packets /\ failCount' = 0 /\ tries' = 1
      BY <1>3, NextPieces DEF SendNext
    <2>2. last232' # NoPacket
      BY <2>1 DEF Packets, NoPacket, AllCommands
    <2> QED
      BY <2>1, <2>2 DEF TriesInv
  <1> QED
    BY <1>1, <1>2, <1>3

\* Every step keeps the count.
LEMMA TriesStep ==
  ASSUME TypeOK, TriesInv, [Next]_vars
  PROVE  TriesInv'
  <1>1. ASSUME NEW cmd \in Commands, QueueTx232Packet(cmd) PROVE TriesInv'
    <2>1. NewPacket(cmd) \in Packets /\ Append(txPackets, NewPacket(cmd)) \in Seq(Packets)
      BY <1>1, NewPacketType DEF QueueTx232Packet, TypeOK
    <2>2. CASE Fits(cmd)
      BY <1>1, <2>1, <2>2, TransmitTries DEF QueueTx232Packet, Accept
    <2>3. CASE ~Fits(cmd)
      BY <1>1, <2>3 DEF QueueTx232Packet, Refuse, sendVars, TriesInv
    <2> QED
      BY <2>2, <2>3
  <1>2. CASE Transmit232IfReady
    BY <1>2, TransmitTries DEF Transmit232IfReady, TypeOK
  <1>3. CASE ReceiveNak
    BY <1>3, FailedTries DEF ReceiveNak
  <1>4. CASE ReceiveAck \/ ReceiveInit232 \/ ReceiveAdvRecvMode
    BY <1>4 DEF ReceiveAck, ReceiveInit232, ReceiveAdvRecvMode, sendVars, TriesInv
  <1>5. CASE HostReceives
    BY <1>5 DEF HostReceives, HostDelivers, HostDropsDuplicate, HostConfirms, HostIgnores,
                HostTakes, sendVars, TriesInv
  <1>6. ASSUME NEW request \in Requests, HostRequests(request) PROVE TriesInv'
    BY <1>6 DEF HostRequests, sendVars, TriesInv
  <1>7. CASE LineFails
    BY <1>7 DEF LineFails, GarbledToHost, NoiseToHost, GarbledToQBridge, Disturb, sendVars, TriesInv
  <1>8. CASE UNCHANGED vars
    BY <1>8 DEF vars, sendVars, TriesInv
  <1> QED
    BY <1>1, <1>2, <1>3, <1>4, <1>5, <1>6, <1>7, <1>8 DEF Next, FirmwareReceives

\* The count of attempts is invariant.
LEMMA TriesInvariant == Spec => []TriesInv
  <1>1. Init => TriesInv
    BY DEF Init, TriesInv, NoPacket
  <1>2. TypeOK /\ TriesInv /\ [Next]_vars => TriesInv'
    BY TriesStep
  <1> QED
    BY <1>1, <1>2, TypeCorrect, PTL DEF Spec

\* Giving up without advanced receive mode means that the attempts are used up.
LEMMA FailedGivesUp ==
  ASSUME TypeOK, TriesInv, AttemptFailed, awaiting232Ack' = FALSE, ~advRecvEnabled,
         last232 # NoPacket
  PROVE  tries = MAX_232_RETRIES + 1
  <1>1. failCount + 1 > MAX_232_RETRIES
    BY FailedTries DEF RetryLast232
  <1>2. failCount \in Nat
    BY DEF TypeOK
  <1> QED
    BY <1>1, <1>2 DEF TriesInv

\* Transmit232IfReady stops waiting only by giving up.
LEMMA TransmitGivesUp ==
  ASSUME TypeOK, TriesInv, NEW q,
         TimedOut(q) \/ StillWaiting(q) \/ NothingReady(q) \/ SendNext(q),
         awaiting232Ack, ~awaiting232Ack', ~advRecvEnabled, last232 # NoPacket
  PROVE  tries = MAX_232_RETRIES + 1
  <1>1. TimedOut(q)
    BY DEF StillWaiting, NothingReady, SendNext, sendVars
  <1>2. AttemptFailed
    BY <1>1 DEF TimedOut
  <1>3. awaiting232Ack' = FALSE
    <2>1. awaiting232Ack' \in BOOLEAN
      BY <1>2, FailedPieces DEF SendPieces
    <2> QED
      BY <2>1
  <1> QED
    BY <1>2, <1>3, FailedGivesUp

(***************************************************************************)
(* A packet is transmitted at most MAX_232_RETRIES + 1 times, and is not   *)
(* abandoned earlier.                                                      *)
(***************************************************************************)
THEOREM ThreeAttempts == Spec => GivesUpAfterThree
  <1>1. ASSUME TypeOK, TriesInv, [Next]_vars, ~ReceiveAck,
               awaiting232Ack, ~awaiting232Ack', ~advRecvEnabled, last232 # NoPacket
        PROVE  tries = MAX_232_RETRIES + 1
    <2>1. ASSUME NEW cmd \in Commands, QueueTx232Packet(cmd)
          PROVE  tries = MAX_232_RETRIES + 1
      <3>1. CASE Fits(cmd)
        BY <1>1, <2>1, <3>1, TransmitGivesUp DEF QueueTx232Packet, Accept
      <3>2. CASE ~Fits(cmd)
        BY <1>1, <2>1, <3>2 DEF QueueTx232Packet, Refuse, sendVars
      <3> QED
        BY <3>1, <3>2
    <2>2. CASE Transmit232IfReady
      BY <1>1, <2>2, TransmitGivesUp DEF Transmit232IfReady
    <2>3. CASE ReceiveNak
      <3>1. AttemptFailed
        BY <2>3 DEF ReceiveNak
      <3>2. awaiting232Ack' = FALSE
        BY <1>1, <3>1, FailedPieces DEF SendPieces
      <3> QED
        BY <1>1, <3>1, <3>2, FailedGivesUp
    <2>4. awaiting232Ack' # awaiting232Ack
      BY <1>1
    <2>5. CASE ReceiveInit232 \/ ReceiveAdvRecvMode
      BY <2>4, <2>5 DEF ReceiveInit232, ReceiveAdvRecvMode, sendVars
    <2>6. CASE HostReceives
      BY <2>4, <2>6 DEF HostReceives, HostDelivers, HostDropsDuplicate, HostConfirms, HostIgnores,
                        HostTakes, sendVars
    <2>7. ASSUME NEW request \in Requests, HostRequests(request) PROVE FALSE
      BY <2>4, <2>7 DEF HostRequests, sendVars
    <2>8. CASE LineFails
      BY <2>4, <2>8 DEF LineFails, GarbledToHost, NoiseToHost, GarbledToQBridge, Disturb, sendVars
    <2>9. CASE UNCHANGED vars
      BY <2>4, <2>9 DEF vars, sendVars
    <2> QED
      BY <1>1, <2>1, <2>2, <2>3, <2>5, <2>6, <2>7, <2>8, <2>9 DEF Next, FirmwareReceives
  <1>2. TypeOK /\ TriesInv => tries <= MAX_232_RETRIES + 1
    BY DEF TypeOK, TriesInv
  <1>3. TypeOK /\ TriesInv /\ (tries <= MAX_232_RETRIES + 1)' /\ [Next]_vars
          => [/\ awaiting232Ack /\ ~awaiting232Ack' /\ ~ReceiveAck /\ ~advRecvEnabled
                 /\ last232 # NoPacket
                   => tries = MAX_232_RETRIES + 1
              /\ tries' <= MAX_232_RETRIES + 1]_vars
    BY <1>1
  <1> QED
    BY <1>2, <1>3, TypeCorrect, TriesInvariant, PTL DEF Spec, GivesUpAfterThree

-------------------------------------------------------------------------------
(***************************************************************************)
(* The prompt host.  Stamps are ids while nothing wraps.                   *)
(***************************************************************************)
\* Queueing and sending keep ids equal to stamps.
LEMMA TransmitIds ==
  ASSUME TypeOK, NEW q \in Seq(Packets), last232.id = last232.n,
         \A i \in 1 .. Len(q) : q[i].id = q[i].n,
         TimedOut(q) \/ StillWaiting(q) \/ NothingReady(q) \/ SendNext(q)
  PROVE  /\ last232'.id = last232'.n
         /\ \A i \in 1 .. Len(txPackets') : txPackets'[i].id = txPackets'[i].n
  <1>1. CASE TimedOut(q)
    BY <1>1 DEF TimedOut, AttemptFailed
  <1>2. CASE StillWaiting(q) \/ NothingReady(q)
    BY <1>2 DEF StillWaiting, NothingReady, sendVars
  <1>3. CASE SendNext(q)
    <2>1. q # <<>> /\ last232' = Head(q) /\ txPackets' = Tail(q)
      BY <1>3 DEF SendNext
    <2> QED
      BY <2>1, HeadTailProperties, LenProperties
  <1> QED
    BY <1>1, <1>2, <1>3

\* A host that is prompt was prompt before, and PromptInv said something.
LEMMA PromptBefore ==
  ASSUME TypeOK, PromptInv, prompt' => prompt, queued' \in {queued, queued + 1}, Prompt'
  PROVE  Prompt /\ OneInFlight /\ IdsAreStamps /\ ~advRecvEnabled
  BY DEF Prompt, PromptInv, TypeOK

\* A prompt host leaves nothing in flight when the transmitter acts.
LEMMA TransmitOne ==
  ASSUME prompt', TypeOK, OneInFlight, ~advRecvEnabled, NEW q,
         TimedOut(q) \/ StillWaiting(q) \/ NothingReady(q) \/ SendNext(q),
         UNCHANGED <<toQBridge, delivered>>
  PROVE  OneInFlight'
  <1>1. CASE StillWaiting(q) \/ NothingReady(q)
    BY <1>1 DEF StillWaiting, NothingReady, OneInFlight, sendVars
  <1>2. CASE TimedOut(q) \/ SendNext(q)
    <2>1. toHost = <<>> /\ toQBridge = <<>>
      BY <1>2 DEF TimedOut, TimerMayExpire, SendNext, OneInFlight
    <2>2. CASE toHost' = toHost
      BY <2>1, <2>2 DEF OneInFlight
    <2>3. CASE /\ toHost' = Append(toHost, last232') /\ awaiting232Ack'
      <3>1. toHost' # <<>> /\ Len(toHost') = 1 /\ toHost'[1] = last232'
        BY <2>1, <2>3
      <3> QED
        BY <2>1, <2>3, <3>1 DEF OneInFlight
    <2>4. toHost' = toHost \/ (toHost' = Append(toHost, last232') /\ awaiting232Ack')
      <3>1. CASE TimedOut(q)
        BY <3>1 DEF TimedOut, AttemptFailed, RetryLast232
      <3>2. CASE SendNext(q)
        BY <3>2 DEF SendNext, RetryLast232
      <3> QED
        BY <1>2, <3>1, <3>2
    <2> QED
      BY <2>2, <2>3, <2>4
  <1> QED
    BY <1>1, <1>2

\* What the prompt host answers to the one packet in flight.
LEMMA HostPrompt ==
  ASSUME TypeOK, PromptInv, Prompt', NEW p \in AnyPacket,
         HostDelivers(p) \/ HostDropsDuplicate(p) \/ HostConfirms(p) \/ HostIgnores(p)
  PROVE  PromptInv'
  <1>0. HostTakes(p) /\ UNCHANGED <<prompt, queued>>
    BY HostTakesPieces DEF HostDelivers, HostDropsDuplicate, HostConfirms, HostIgnores, boundVars
  <1>1. OneInFlight /\ IdsAreStamps /\ ~advRecvEnabled
    BY <1>0, PromptBefore
  <1>3. /\ toHost # <<>> /\ p = toHost[1] /\ toHost' = Tail(toHost) /\ Len(toHost') = Len(toHost) - 1
        /\ toHost' \in Seq(AnyPacket)
        /\ UNCHANGED <<txPackets, packetID, awaiting232Ack, last232, advRecvEnabled, queued>>
    BY <1>0, HostTakesPieces DEF queueVars, sendVars, boundVars
  <1>4. p = last232 /\ toHost' = <<>> /\ toQBridge = <<>> /\ awaiting232Ack
    BY <1>1, <1>3 DEF OneInFlight
  <1>5. p.id = p.n
    BY <1>1, <1>4 DEF IdsAreStamps
  <1>6. ASSUME NEW a \in {"ACK_OK", "ACK_DUPLICATE_PACKET"}, HostAnswers(a), p.n \in delivered'
        PROVE  OneInFlight'
    <2>1. toQBridge' = <<a>> /\ a \in Answers
      BY <1>4, <1>6 DEF HostAnswers, Answers
    <2>2. Len(toQBridge') = 1 /\ toQBridge'[1] = a
      BY <2>1
    <2> QED
      BY <1>3, <1>4, <1>6, <2>1, <2>2 DEF OneInFlight
  <1>7. CASE HostDelivers(p)
    <2>1. /\ lastRecvPktId' = p.id /\ hostStamp' = p.n /\ p.n \in delivered'
          /\ HostAnswers("ACK_OK")
      BY <1>7 DEF HostDelivers
    <2>2. IdsAreStamps'
      BY <1>1, <1>3, <1>5, <2>1 DEF IdsAreStamps
    <2> QED
      BY <1>1, <1>3, <1>6, <2>1, <2>2 DEF PromptInv
  <1>8. CASE HostDropsDuplicate(p)
    <2>1. p.id = lastRecvPktId /\ UNCHANGED hostVars /\ HostAnswers("ACK_DUPLICATE_PACKET")
          /\ p.cmd = "ReceivePacket"
      BY <1>8 DEF HostDropsDuplicate
    <2>2. p.n \in Stamps
      BY <2>1, PacketFields
    <2>3. p.n \in delivered /\ UNCHANGED <<lastRecvPktId, hostStamp, delivered>>
      BY <1>1, <1>5, <2>1, <2>2 DEF IdsAreStamps, Stamps, hostVars
    <2>4. IdsAreStamps'
      BY <1>1, <1>3, <2>3 DEF IdsAreStamps
    <2> QED
      BY <1>1, <1>3, <1>6, <2>1, <2>3, <2>4 DEF PromptInv
  <1>9. CASE HostConfirms(p)
    <2>1. /\ HostAnswers("ACK_OK") /\ delivered' = delivered \union {p.n}
          /\ UNCHANGED <<lastRecvPktId, hostStamp>>
      BY <1>9 DEF HostConfirms
    <2>2. IdsAreStamps'
      BY <1>1, <1>3, <2>1 DEF IdsAreStamps
    <2> QED
      BY <1>1, <1>3, <1>6, <2>1, <2>2 DEF PromptInv
  <1>10. CASE HostIgnores(p)
    <2>1. UNCHANGED <<toQBridge, lastRecvPktId, hostStamp, delivered>>
      BY <1>10 DEF HostIgnores, hostVars
    <2>2. IdsAreStamps' /\ OneInFlight'
      BY <1>1, <1>3, <1>4, <2>1 DEF IdsAreStamps, OneInFlight
    <2> QED
      BY <1>1, <1>3, <2>2 DEF PromptInv
  <1> QED
    BY <1>7, <1>8, <1>9, <1>10

\* What the firmware makes of the one frame in flight.
LEMMA FirmwarePrompt ==
  ASSUME TypeOK, PromptInv, Prompt', FirmwareReceives
  PROVE  PromptInv'
  <1>0. UNCHANGED <<prompt, queued>>
    BY DEF FirmwareReceives, ReceiveAck, ReceiveNak, ReceiveInit232, ReceiveAdvRecvMode,
           FromHost, boundVars
  <1>1. OneInFlight /\ IdsAreStamps /\ ~advRecvEnabled
    BY <1>0, PromptBefore
  <1>2. toQBridge # <<>> /\ toQBridge' = Tail(toQBridge) /\ toQBridge \in Seq(Answers \union Requests)
    BY DEF FirmwareReceives, ReceiveAck, ReceiveNak, ReceiveInit232, ReceiveAdvRecvMode, FromHost, TypeOK
  <1>3. /\ Len(toQBridge') = Len(toQBridge) - 1 /\ Head(toQBridge) = toQBridge[1]
        /\ toQBridge' \in Seq(Answers \union Requests)
    BY <1>2, HeadTailProperties, LenProperties
  <1>4. toHost = <<>> /\ toQBridge' = <<>> /\ Head(toQBridge) \in Answers
    BY <1>1, <1>2, <1>3 DEF OneInFlight
  <1>5. CASE ReceiveAck
    <2>1. UNCHANGED <<toHost, txPackets, packetID, last232, advRecvEnabled, queued, hostVars>>
          /\ awaiting232Ack' = FALSE
      BY <1>5 DEF ReceiveAck, queueVars, boundVars
    <2>2. OneInFlight' /\ IdsAreStamps'
      BY <1>1, <1>4, <2>1 DEF OneInFlight, IdsAreStamps, hostVars
    <2> QED
      BY <1>1, <2>1, <2>2 DEF PromptInv
  <1>6. CASE ReceiveNak
    <2>1. UNCHANGED <<txPackets, packetID, last232, advRecvEnabled, queued, hostVars>> /\ AttemptFailed
      BY <1>6 DEF ReceiveNak, AttemptFailed, queueVars, boundVars
    <2>2. toHost' = toHost \/ (toHost' = Append(toHost, last232) /\ awaiting232Ack')
      BY <1>1, <2>1 DEF AttemptFailed, RetryLast232
    <2>3. CASE toHost' = toHost
      <3>1. OneInFlight' /\ IdsAreStamps'
        BY <1>1, <1>4, <2>1, <2>3 DEF OneInFlight, IdsAreStamps, hostVars
      <3> QED
        BY <1>1, <2>1, <3>1 DEF PromptInv
    <2>4. CASE toHost' = Append(toHost, last232) /\ awaiting232Ack'
      <3>1. toHost' # <<>> /\ Len(toHost') = 1 /\ toHost'[1] = last232
        BY <1>4, <2>4
      <3>2. OneInFlight' /\ IdsAreStamps'
        BY <1>1, <1>4, <2>1, <2>4, <3>1 DEF OneInFlight, IdsAreStamps, hostVars
      <3> QED
        BY <1>1, <2>1, <3>2 DEF PromptInv
    <2> QED
      BY <2>2, <2>3, <2>4
  <1>7. ~ReceiveInit232 /\ ~ReceiveAdvRecvMode
    BY <1>4 DEF ReceiveInit232, ReceiveAdvRecvMode, FromHost, Answers
  <1> QED
    BY <1>5, <1>6, <1>7 DEF FirmwareReceives

\* A damaged frame leaves nothing in flight, or one answer.
LEMMA LinePrompt ==
  ASSUME TypeOK, PromptInv, Prompt', LineFails
  PROVE  PromptInv'
  <1>0. queued' = queued /\ (prompt' => prompt) /\ prompt' /\ ~NoiseToHost
    BY DEF LineFails, GarbledToHost, NoiseToHost, GarbledToQBridge, Disturb, Prompt, TypeOK
  <1>1. OneInFlight /\ IdsAreStamps /\ ~advRecvEnabled
    BY <1>0, PromptBefore
  <1>2. UNCHANGED <<txPackets, packetID, awaiting232Ack, last232, advRecvEnabled, queued, hostVars>>
    BY DEF LineFails, GarbledToHost, NoiseToHost, GarbledToQBridge, Disturb, queueVars, sendVars
  <1>3. IdsAreStamps'
    BY <1>1, <1>2 DEF IdsAreStamps, hostVars
  <1>4. delivered' = delivered
    BY <1>2 DEF hostVars
  <1>5. ASSUME NEW k \in 0 .. NaksPerFault, GarbledToHost(k)
        PROVE  OneInFlight'
    <2>1. toHost \in Seq(AnyPacket) /\ toHost # <<>> /\ toHost' = Tail(toHost)
          /\ toQBridge' = toQBridge \o Naks(k)
      BY <1>5 DEF GarbledToHost, TypeOK, AnyPacket
    <2>2. toQBridge = <<>> /\ awaiting232Ack /\ Len(toHost) = 1
      BY <1>1, <2>1 DEF OneInFlight
    <2>3. toHost' = <<>>
      BY <2>1, <2>2, HeadTailProperties, LenProperties
    <2>4. k <= 1
      <3>1. prompt' = (prompt /\ k <= 1)
        BY <1>5 DEF GarbledToHost
      <3> QED
        BY <1>0, <3>1, Zenon
    <2>5. k \in Nat
      OBVIOUS
    <2>6. Naks(k) \in Seq(Answers) /\ Len(Naks(k)) = k /\ k \in {0, 1}
          /\ \A i \in 1 .. k : Naks(k)[i] = "ACK_INVALID_PACKET"
      BY <2>4, <2>5, NaksType
    <2>7. toQBridge' = Naks(k)
      BY <2>1, <2>2, <2>6
    <2>8. toQBridge' # <<>> => Len(toQBridge') = 1 /\ toQBridge'[1] = "ACK_INVALID_PACKET"
      BY <2>6, <2>7
    <2> QED
      BY <1>2, <2>2, <2>3, <2>8 DEF OneInFlight, Answers
  <1>6. ASSUME GarbledToQBridge PROVE OneInFlight'
    <2>1. toQBridge # <<>> /\ toQBridge' = Tail(toQBridge) /\ toHost' = toHost
          /\ toQBridge \in Seq(Answers \union Requests)
      BY <1>6 DEF GarbledToQBridge, TypeOK
    <2>2. toQBridge' = <<>> /\ toHost = <<>>
      BY <1>1, <2>1, HeadTailProperties, LenProperties DEF OneInFlight
    <2>3. toHost' = <<>> /\ toQBridge' = <<>>
      BY <2>1, <2>2
    <2> QED
      BY <2>3 DEF OneInFlight
  <1>8. OneInFlight'
    BY <1>0, <1>5, <1>6 DEF LineFails
  <1> QED
    BY <1>1, <1>2, <1>3, <1>8 DEF PromptInv

\* Queueing, for the prompt host.
LEMMA QueuePrompt ==
  ASSUME TypeOK, PromptInv, Prompt', NEW cmd \in Commands, QueueTx232Packet(cmd)
  PROVE  PromptInv'
  <1>0. queued' = queued + 1 /\ (prompt' => prompt) /\ prompt'
    BY DEF QueueTx232Packet, Accept, Refuse, TimedOut, StillWaiting, NothingReady, SendNext,
           Prompt, TypeOK
  <1>1. OneInFlight /\ IdsAreStamps /\ ~advRecvEnabled
    BY <1>0, PromptBefore
  <1>2. /\ queued < MaxPackets /\ queued' = queued + 1 /\ packetID' = NextPacketID
        /\ UNCHANGED <<advRecvEnabled, toQBridge, hostVars>>
    BY DEF QueueTx232Packet
  <1>3. packetID = queued /\ queued \in Nat /\ queued + 1 <= MaxPacketID
    BY <1>0, <1>1 DEF IdsAreStamps, TypeOK, Prompt
  <1>4. NextPacketID = queued + 1
    BY <1>2, <1>3 DEF NextPacketID
  <1>5. /\ NewPacket(cmd) \in Packets
        /\ NewPacket(cmd).id = queued + 1 /\ NewPacket(cmd).n = queued + 1
    BY <1>2, <1>4, NewPacketType
  <1>6. CASE Fits(cmd)
    <2> DEFINE q == Append(txPackets, NewPacket(cmd))
    <2>1. q \in Seq(Packets)
      BY <1>5 DEF TypeOK
    <2>2. \A i \in 1 .. Len(q) : q[i].id = q[i].n
      <3>1. /\ Len(q) = Len(txPackets) + 1 /\ Len(txPackets) \in Nat
            /\ q[Len(txPackets) + 1] = NewPacket(cmd)
            /\ \A i \in 1 .. Len(txPackets) : q[i] = txPackets[i]
        BY <1>5 DEF TypeOK
      <3>2. \A i \in 1 .. Len(txPackets) : txPackets[i].id = txPackets[i].n
        BY <1>1 DEF IdsAreStamps
      <3> QED
        BY <1>5, <3>1, <3>2
    <2>3. TimedOut(q) \/ StillWaiting(q) \/ NothingReady(q) \/ SendNext(q)
      BY <1>6 DEF QueueTx232Packet, Accept
    <2> HIDE DEF q
    <2>4. /\ last232'.id = last232'.n
          /\ \A i \in 1 .. Len(txPackets') : txPackets'[i].id = txPackets'[i].n
      BY <1>1, <2>1, <2>2, <2>3, TransmitIds DEF IdsAreStamps
    <2>5. OneInFlight'
      BY <1>0, <1>1, <1>2, <2>3, TransmitOne DEF hostVars
    <2>6. IdsAreStamps'
      BY <1>1, <1>2, <1>4, <2>4 DEF IdsAreStamps, hostVars
    <2> QED
      BY <1>1, <1>2, <2>5, <2>6 DEF PromptInv
  <1>7. CASE ~Fits(cmd)
    <2>1. UNCHANGED <<txPackets, awaiting232Ack, last232, toHost>>
      BY <1>7 DEF QueueTx232Packet, Refuse, sendVars
    <2>2. OneInFlight' /\ IdsAreStamps'
      BY <1>1, <1>2, <1>4, <2>1 DEF OneInFlight, IdsAreStamps, hostVars
    <2> QED
      BY <1>1, <1>2, <2>2 DEF PromptInv
  <1> QED
    BY <1>6, <1>7

\* Every step, for the prompt host.
LEMMA PromptStep ==
  ASSUME TypeOK, PromptInv, Prompt', [Next]_vars
  PROVE  PromptInv'
  <1>1. ASSUME NEW cmd \in Commands, QueueTx232Packet(cmd) PROVE PromptInv'
    BY <1>1, QueuePrompt
  <1>2. CASE Transmit232IfReady
    <2>0. queued' = queued /\ (prompt' => prompt) /\ prompt'
      BY <1>2 DEF Transmit232IfReady, TimedOut, SendNext, boundVars, Prompt, TypeOK
    <2>1. OneInFlight /\ IdsAreStamps /\ ~advRecvEnabled /\ txPackets \in Seq(Packets)
      BY <2>0, PromptBefore DEF TypeOK
    <2>2. UNCHANGED <<packetID, advRecvEnabled, toQBridge, hostVars, queued>>
      BY <1>2 DEF Transmit232IfReady, boundVars
    <2>3. OneInFlight'
      BY <1>2, <2>0, <2>1, <2>2, TransmitOne DEF Transmit232IfReady, hostVars
    <2>4. /\ last232'.id = last232'.n
          /\ \A i \in 1 .. Len(txPackets') : txPackets'[i].id = txPackets'[i].n
      BY <1>2, <2>1, TransmitIds DEF Transmit232IfReady, IdsAreStamps
    <2>5. IdsAreStamps'
      BY <2>1, <2>2, <2>4 DEF IdsAreStamps, hostVars
    <2> QED
      BY <2>1, <2>2, <2>3, <2>5 DEF PromptInv
  <1>3. CASE FirmwareReceives
    BY <1>3, FirmwarePrompt
  <1>4. CASE HostReceives
    BY <1>4, HostPrompt DEF HostReceives, AnyPacket
  <1>5. ASSUME NEW request \in Requests, HostRequests(request) PROVE FALSE
    BY <1>5 DEF HostRequests, Prompt
  <1>6. CASE LineFails
    BY <1>6, LinePrompt
  <1>7. CASE UNCHANGED vars
    BY <1>7 DEF vars, queueVars, sendVars, hostVars, boundVars, PromptInv, Prompt, OneInFlight, IdsAreStamps
  <1> QED
    BY <1>1, <1>2, <1>3, <1>4, <1>5, <1>6, <1>7 DEF Next

\* PromptInv is invariant.
LEMMA PromptInvariant == Spec => []PromptInv
  <1>1. Init => PromptInv
    BY DEF Init, PromptInv, OneInFlight, IdsAreStamps, NoPacket
  <1>2. TypeOK /\ PromptInv /\ [Next]_vars => PromptInv'
    <2> SUFFICES ASSUME TypeOK, PromptInv, [Next]_vars PROVE PromptInv'
      OBVIOUS
    <2>1. CASE Prompt'
      BY <2>1, PromptStep
    <2>2. CASE ~Prompt'
      BY <2>2 DEF PromptInv
    <2> QED
      BY <2>1, <2>2
  <1> QED
    BY <1>1, <1>2, TypeCorrect, PTL DEF Spec

(***************************************************************************)
(* While the host is prompt an acknowledgement means delivery, although    *)
(* the firmware does not look at its id.                                   *)
(***************************************************************************)
THEOREM AckMeansDelivered == Spec => AckedWasDelivered
  <1>1. ASSUME TypeOK, PromptInv, Prompt, ReceiveAck PROVE last232.n \in delivered
    <2>1. /\ toQBridge # <<>> /\ Head(toQBridge) \in {"ACK_OK", "ACK_DUPLICATE_PACKET"}
      BY <1>1 DEF ReceiveAck, FromHost
    <2>2. OneInFlight
      BY <1>1 DEF PromptInv
    <2>3. Head(toQBridge) = toQBridge[1]
      BY <1>1, <2>1, HeadTailProperties, LenProperties DEF TypeOK
    <2> QED
      BY <2>1, <2>2, <2>3 DEF OneInFlight
  <1>2. TypeOK /\ PromptInv /\ [Next]_vars
          => [Prompt /\ ReceiveAck /\ awaiting232Ack => last232.n \in delivered]_vars
    BY <1>1
  <1> QED
    BY <1>2, TypeCorrect, PromptInvariant, PTL DEF Spec, AckedWasDelivered

(***************************************************************************)
(* While the host is prompt, what it rejects as a duplicate is the packet  *)
(* it took last.                                                           *)
(***************************************************************************)
THEOREM DuplicatesAreSeen == Spec => DuplicateWasSeen
  <1>1. ASSUME TypeOK, PromptInv, Prompt, NEW p \in Packets, HostDropsDuplicate(p)
        PROVE  p.n = hostStamp
    <2>1. p = toHost[1] /\ toHost # <<>> /\ p.id = lastRecvPktId
      BY <1>1, HostTakesPieces DEF HostDropsDuplicate
    <2>2. OneInFlight /\ IdsAreStamps
      BY <1>1 DEF PromptInv
    <2> QED
      BY <2>1, <2>2 DEF OneInFlight, IdsAreStamps
  <1>2. TypeOK /\ PromptInv /\ [Next]_vars
          => [\A p \in Packets : Prompt /\ HostDropsDuplicate(p) => p.n = hostStamp]_vars
    BY <1>1
  <1> QED
    BY <1>2, TypeCorrect, PromptInvariant, PTL DEF Spec, DuplicateWasSeen

(***************************************************************************)
(* While the host is prompt its answers are about the packet in flight,    *)
(* for every number of retransmissions, packets and disturbances.          *)
(***************************************************************************)
THEOREM PromptHostIsBelieved == Spec => AnswersAreTrue
  BY AckMeansDelivered, DuplicatesAreSeen DEF AnswersAreTrue
===============================================================================
