----------------------------- MODULE J1708_proofs -----------------------------
(***************************************************************************)
(* Proofs about the J1708 bus, for every size of the queues, every choice  *)
(* of lengths and every bound; and about the timer that times its edges    *)
(* and its idle time, for every width of the counter.                      *)
(***************************************************************************)
EXTENDS J1708, BusTimer, SequenceTheorems, TLAPS

USE SizeAssumption, BoundAssumption

Frames == [n : 0 .. MaxFrames, at : 0 .. FrameLength - 1]

-------------------------------------------------------------------------------
(* What is heard is a unit. *)
LEMMA UnitTypes ==
  /\ Junk \in Units
  /\ \A m \in Messages \union {NoMessage} : \A i \in 0 .. FrameLength : Own(m, i) \in Units
  /\ \A n \in Nat : \A i \in 0 .. FrameLength : Other(n, i) \in Units
  BY DEF Units, Junk, Own, Other, Messages, NoMessage, FrameLength

(* A message has two or three units. *)
LEMMA MessageLength ==
  \A m \in Messages \union {NoMessage} : m.len \in 2 .. FrameLength /\ m.n \in Nat
<1>1. Lengths \subseteq 2 .. FrameLength /\ MaxAccepted \in Nat
  BY SizeAssumption, BoundAssumption
<1>2. ASSUME NEW m \in Messages PROVE m.len \in 2 .. FrameLength /\ m.n \in Nat
  <2>1. m.len \in Lengths /\ m.n \in 1 .. MaxAccepted
    BY DEF Messages
  <2>2. m.len \in 2 .. FrameLength
    BY <1>1, <2>1, Zenon
  <2>3. m.n \in Nat
    BY <1>1, <2>1
  <2> QED BY <2>2, <2>3
<1>3. NoMessage.len \in 2 .. FrameLength /\ NoMessage.n \in Nat
  BY DEF NoMessage, FrameLength
<1> QED BY <1>2, <1>3

(* What was received is queued as an entry. *)
LEMMA EntryType ==
  ASSUME NEW units \in Seq(Units), units # <<>>
  PROVE  Entry(units) \in Entries
<1>1. Head(units) \in Units
  BY HeadTailProperties, LenProperties
<1>2. Head(units).n \in Nat
  BY <1>1 DEF Units
<1> QED BY <1>2 DEF Entry, Entries

(* Queueing for the host stays within the ring and never empties it. *)
LEMMA QueueReceivedFacts ==
  ASSUME TypeOK, NEW e \in Entries, QueueReceived(e)
  PROVE  /\ j1708RxQueue' \in Seq(Entries) /\ Len(j1708RxQueue') < J1708_RX_QUEUE_SIZE
         /\ j1708PacketReady' \in BOOLEAN
         /\ j1708RxQueue # <<>> => j1708RxQueue' # <<>>
<1>1. CASE RxQueueFull
  BY <1>1 DEF TypeOK, QueueReceived
<1>2. CASE ~RxQueueFull
  <2>1. j1708RxQueue' = Append(j1708RxQueue, e) /\ j1708PacketReady' = TRUE
    BY <1>2 DEF QueueReceived
  <2>2. j1708RxQueue \in Seq(Entries) /\ Len(j1708RxQueue) < J1708_RX_QUEUE_SIZE
    BY DEF TypeOK
  <2>3. j1708RxQueue' \in Seq(Entries) /\ Len(j1708RxQueue') = Len(j1708RxQueue) + 1
        /\ Len(j1708RxQueue) \in Nat
    BY <2>1, <2>2, AppendProperties, LenProperties
  <2>4. j1708RxQueue' # <<>>
    BY <2>3
  <2> QED BY <1>2, <2>1, <2>2, <2>3, <2>4 DEF RxQueueFull, GetFreeJ1708RxBuffers
<1> QED BY <1>1, <1>2

(* Appending a received unit to the buffer appends it to what was received. *)
LEMMA ReceivedTypes ==
  ASSUME TypeOK
  PROVE  /\ Received \in Seq(Units)
         /\ \A u \in Units : rxQueue \o Append(rxBuffer, u) = Append(Received, u)
         /\ rxBuffer = <<>> => Received = rxQueue
<1>1. rxQueue \in Seq(Units) /\ rxBuffer \in Seq(Units)
  BY DEF TypeOK
<1>2. Received \in Seq(Units)
  BY <1>1, ConcatProperties, LenProperties DEF Received
<1>3. ASSUME NEW u \in Units PROVE rxQueue \o Append(rxBuffer, u) = Append(Received, u)
  BY <1>1, AppendIsConcat, ConcatAssociative, ConcatProperties DEF Received
<1>4. rxBuffer = <<>> => Received = rxQueue
  BY <1>1 DEF Received
<1> QED BY <1>2, <1>3, <1>4

-------------------------------------------------------------------------------
(***************************************************************************)
(* A character, in any state of the handler: the message in progress stays *)
(* in progress, and while the transmission goes on what was received grows *)
(* by the character.                                                       *)
(***************************************************************************)
CharacterResult(u) ==
  /\ rxQueue' \in Seq(Units) /\ rxBuffer' \in Seq(Units)
  /\ checking' \in {-1, 0, 1} /\ sending' \in BOOLEAN
  /\ j1708RetransmitNeeded' \in BOOLEAN /\ j1708State' \in States
  /\ sending' => sending /\ sent + 1 < j1708CurTxMessage.len /\ j1708State' = "Transmitting"
  /\ (j1708State' = "Transmitting" \/ j1708RetransmitNeeded')
       <=> (j1708State = "Transmitting" \/ j1708RetransmitNeeded)
  /\ j1708State' = "Transmitting" =>
       /\ j1708State = "Transmitting" /\ j1708RetransmitNeeded' = j1708RetransmitNeeded
       /\ rxQueue' \o rxBuffer' = Append(Received, u)
       /\ checking' # -1 => rxBuffer' = <<>>
       /\ rxQueue' # <<>>

(* A collision ends the transmission and asks for another. *)
LEMMA CollisionFacts ==
  ASSUME IInv, EnterCollisionState, ClearReceived, NEW u
  PROVE  CharacterResult(u)
<1>1. rxQueue' \in Seq(Units) /\ rxBuffer' \in Seq(Units)
  BY DEF ClearReceived
<1>2. j1708State' = "IgnoreRxData" /\ sending' = FALSE /\ checking' = -1
      /\ j1708RetransmitNeeded' = (j1708RetransmitNeeded \/ j1708State = "Transmitting")
  BY DEF EnterCollisionState
<1>3. j1708RetransmitNeeded \in BOOLEAN
  BY DEF IInv, TypeOK
<1> QED BY <1>1, <1>2, <1>3 DEF CharacterResult, States

(* A character that the check found right. *)
LEMMA MatchFacts ==
  ASSUME IInv, NEW u \in Units, CharacterMatches(u)
  PROVE  CharacterResult(u)
<1> USE DEF IInv
<1>1. /\ rxQueue' = Append(rxQueue, u) /\ rxBuffer' = rxBuffer
      /\ checking' = IF checking = 1 THEN -1 ELSE checking + 1
      /\ checking # -1
      /\ sending' = MoreToSend
      /\ j1708State' = j1708State /\ j1708RetransmitNeeded' = j1708RetransmitNeeded
  BY DEF CharacterMatches
<1>2. rxQueue \in Seq(Units) /\ rxBuffer \in Seq(Units)
  BY DEF TypeOK
<1>3. rxQueue' \in Seq(Units) /\ rxQueue' # <<>>
  BY <1>1, <1>2, AppendProperties, LenProperties
<1>4. checking' \in {-1, 0, 1} /\ sending' \in BOOLEAN
  BY <1>1 DEF TypeOK, MoreToSend
<1>5. sending' => sending /\ sent + 1 < j1708CurTxMessage.len /\ j1708State' = "Transmitting"
  BY <1>1 DEF MoreToSend, TransmissionInv
<1>6. ASSUME j1708State = "Transmitting"
      PROVE  rxQueue' \o rxBuffer' = Append(Received, u) /\ rxBuffer' = <<>>
  <2>1. rxBuffer = <<>> /\ Received = rxQueue
    BY <1>1, <1>6, ReceivedTypes DEF TransmissionInv
  <2>2. rxQueue' \o <<>> = rxQueue'
    BY <1>3
  <2> QED BY <1>1, <2>1, <2>2
<1> QED BY <1>1, <1>2, <1>3, <1>4, <1>5, <1>6 DEF CharacterResult, TypeOK

(* A character that is not checked. *)
LEMMA KeptFacts ==
  ASSUME IInv, NEW u \in Units, CharacterKept(u)
  PROVE  CharacterResult(u)
<1> USE DEF IInv
<1>1. /\ checking = -1 /\ checking' = checking
      /\ sending' = MoreToSend
      /\ j1708State' = j1708State /\ j1708RetransmitNeeded' = j1708RetransmitNeeded
  BY DEF CharacterKept
<1>2. rxQueue \in Seq(Units) /\ rxBuffer \in Seq(Units)
  BY DEF TypeOK
<1>3. sending' => sending /\ sent + 1 < j1708CurTxMessage.len /\ j1708State' = "Transmitting"
  BY <1>1 DEF MoreToSend, TransmissionInv
<1>4. /\ rxQueue' \in Seq(Units) /\ rxBuffer' \in Seq(Units)
      /\ rxQueue' \o rxBuffer' = Append(Received, u)
      /\ rxQueue # <<>> => rxQueue' # <<>>
  <2>1. CASE rxBuffer' = Append(rxBuffer, u) /\ UNCHANGED rxQueue
    BY <1>2, <2>1, AppendProperties, LenProperties, ReceivedTypes
  <2>2. CASE rxQueue' = Append(Received, u) /\ rxBuffer' = <<>>
    <3>1. rxQueue' \in Seq(Units) /\ rxQueue' # <<>>
      BY <2>2, ReceivedTypes, AppendProperties, LenProperties
    <3>2. rxQueue' \o <<>> = rxQueue'
      BY <3>1
    <3> QED BY <2>2, <3>1, <3>2
  <2> QED BY <2>1, <2>2 DEF CharacterKept
<1>5. j1708State = "Transmitting" => rxQueue' # <<>>
  BY <1>1, <1>4 DEF TransmissionInv
<1>6. sending' \in BOOLEAN
  BY <1>1 DEF MoreToSend, TypeOK
<1> QED BY <1>1, <1>3, <1>4, <1>5, <1>6 DEF CharacterResult, TypeOK

(* A framing error. *)
LEMMA FramingFacts ==
  ASSUME IInv, FramingError, NEW u
  PROVE  CharacterResult(u)
<1>1. CASE j1708State = "Transmitting"
  BY <1>1, CollisionFacts DEF FramingError
<1>2. CASE j1708State # "Transmitting"
  <2>1. rxQueue' \in Seq(Units) /\ rxBuffer' \in Seq(Units) /\ sending' = FALSE
        /\ UNCHANGED <<j1708State, j1708RetransmitNeeded, checking>>
    BY <1>2 DEF FramingError, ClearReceived
  <2> QED BY <1>2, <2>1 DEF CharacterResult, IInv, TypeOK
<1> QED BY <1>1, <1>2

(* Whatever the check makes of it. *)
LEMMA CharacterFacts ==
  ASSUME IInv, NEW u \in Units, Character(u)
  PROVE  CharacterResult(u)
  BY MatchFacts, KeptFacts, CollisionFacts DEF Character, CharacterDiffers

-------------------------------------------------------------------------------
(* The messages waiting depend on the queue and on whether one is in        *)
(* progress.                                                                *)
LEMMA WaitingSame ==
  ASSUME UNCHANGED <<j1708TxQueue, j1708CurTxMessage>>,
         (j1708State' = "Transmitting" \/ j1708RetransmitNeeded')
           <=> (j1708State = "Transmitting" \/ j1708RetransmitNeeded)
  PROVE  Waiting' = Waiting
  BY DEF Waiting, InProgress

(* The next message of a device that has or has not a unit to go. *)
LEMMA FrameFacts ==
  ASSUME TypeOK
  PROVE  /\ frame.n \in 0 .. MaxFrames /\ frame.at \in 0 .. FrameLength - 1
         /\ frame.n \in Nat /\ frame.at + 1 \in 0 .. FrameLength
         /\ NoFrame \in Frames /\ Continues \in Frames
<1>1. frame \in Frames
  BY DEF TypeOK, Frames
<1>2. frame.n \in 0 .. MaxFrames /\ frame.at \in 0 .. FrameLength - 1
  BY <1>1 DEF Frames
<1>3. frame.n \in Nat /\ frame.at + 1 \in 0 .. FrameLength
  BY <1>2 DEF FrameLength
<1>4. NoFrame \in Frames
  BY DEF NoFrame, Frames, FrameLength
<1>5. ASSUME frame.at + 1 # FrameLength PROVE [frame EXCEPT !.at = @ + 1] \in Frames
  <2>1. frame.at + 1 \in 0 .. FrameLength - 1
    BY <1>2, <1>5 DEF FrameLength
  <2> QED BY <1>1, <2>1 DEF Frames
<1> QED BY <1>2, <1>3, <1>4, <1>5 DEF Continues

(* The bus after a character keeps the invariant, whoever sent it. *)
LEMMA HeardFacts ==
  ASSUME IInv, NEW u \in Units, NEW more \in Frames,
         CharacterResult(u), Heard(u, more), UNCHANGED heardAlone,
         faults' \in 0 .. MaxFaults
  PROVE  IInv' /\ Waiting' = Waiting
<1> USE DEF IInv
<1>1. /\ frame' = more /\ wire' = Append(wire, u)
      /\ sent' = IF sending' THEN sent + 1 ELSE 0
      /\ UNCHANGED <<j1708TxQueue, j1708RxQueue, j1708PacketReady, j1708CurTxMessage,
                     txEmptyIE, j1708TransmitConfirm, accepted, frames, settings,
                     resets, forwarded, told>>
  BY DEF Heard, queueVars
<1>2. line' \in {"busy", "gap"} /\ (sending' => line' = "busy")
  BY DEF Heard, BusAfter
<1>3. j1708CurTxMessage.len \in 2 .. FrameLength
  BY MessageLength DEF TypeOK
<1>4. sent \in 0 .. FrameLength
  BY DEF TypeOK
<1>5. /\ sending' \in BOOLEAN
      /\ sending' => sending /\ sent + 1 < j1708CurTxMessage.len /\ j1708State' = "Transmitting"
  BY DEF CharacterResult
<1>6. sent' \in 0 .. FrameLength
  BY <1>1, <1>3, <1>4, <1>5 DEF FrameLength
<1>7. wire' \in Seq(Units)
  BY <1>1, AppendProperties, LenProperties DEF TypeOK
<1>8. TypeOK'
  <2>1. /\ rxQueue' \in Seq(Units) /\ rxBuffer' \in Seq(Units)
        /\ checking' \in {-1, 0, 1}
        /\ j1708RetransmitNeeded' \in BOOLEAN /\ j1708State' \in States
    BY DEF CharacterResult
  <2> QED BY <1>1, <1>2, <1>5, <1>6, <1>7, <2>1 DEF TypeOK, Frames
<1>9. TransmissionInv'
  <2>1. ASSUME sending' PROVE line' = "busy" /\ sent' < j1708CurTxMessage'.len /\ sent' # 0
    BY <1>1, <1>2, <1>3, <1>4, <1>5, <2>1 DEF FrameLength
  <2>2. ASSUME j1708State' = "Transmitting"
        PROVE  /\ txEmptyIE' /\ line' # "quiet" /\ ~j1708RetransmitNeeded'
               /\ Received' = wire'
               /\ checking' # -1 => rxBuffer' = <<>>
               /\ rxQueue' # <<>>
    <3>1. /\ j1708State = "Transmitting" /\ j1708RetransmitNeeded' = j1708RetransmitNeeded
          /\ rxQueue' \o rxBuffer' = Append(Received, u)
          /\ checking' # -1 => rxBuffer' = <<>>
          /\ rxQueue' # <<>>
      BY <2>2 DEF CharacterResult
    <3>2. Received = wire /\ txEmptyIE /\ ~j1708RetransmitNeeded
      BY <3>1 DEF TransmissionInv
    <3> QED BY <1>1, <1>2, <3>1, <3>2 DEF Received
  <2> QED BY <1>5, <2>1, <2>2 DEF TransmissionInv
<1>10. ForwardedInv'
  BY <1>1 DEF ForwardedInv
<1>11. Waiting' = Waiting
  BY <1>1, WaitingSame DEF CharacterResult
<1> QED BY <1>8, <1>9, <1>10, <1>11

(* Every action of the bus on which a character is heard. *)
LEMMA UnitStep ==
  ASSUME IInv, OwnUnit \/ OtherUnit \/ DisturbedUnit \/ Fragment
  PROVE  IInv' /\ Waiting' = Waiting
<1> USE DEF IInv
<1>0. NoFrame \in Frames /\ Continues \in Frames /\ faults \in 0 .. MaxFaults
  BY FrameFacts DEF TypeOK
<1>1. CASE OwnUnit
  <2> DEFINE u == Own(j1708CurTxMessage, sent + 1)
  <2>1. j1708CurTxMessage \in Messages \union {NoMessage} /\ sent + 1 \in 0 .. FrameLength
    <3>1. sending /\ sent < j1708CurTxMessage.len
      BY <1>1 DEF OwnUnit, TransmissionInv
    <3>2. j1708CurTxMessage \in Messages \union {NoMessage} /\ sent \in 0 .. FrameLength
      BY DEF TypeOK
    <3>3. j1708CurTxMessage.len \in 2 .. FrameLength
      BY <3>2, MessageLength
    <3> QED BY <3>1, <3>2, <3>3 DEF FrameLength
  <2>2. u \in Units
    BY <2>1, UnitTypes
  <2>3. Character(u) /\ (Heard(u, NoFrame) \/ Heard(u, Continues)) /\ UNCHANGED <<heardAlone, faults>>
    BY <1>1 DEF OwnUnit
  <2>4. CharacterResult(u)
    BY <2>2, <2>3, CharacterFacts
  <2> HIDE DEF u
  <2> QED BY <1>0, <2>2, <2>3, <2>4, HeardFacts
<1>2. CASE OtherUnit
  <2> DEFINE u == Other(frame.n, frame.at + 1)
  <2>1. u \in Units
    BY FrameFacts, UnitTypes
  <2>2. Character(u) /\ Heard(u, Continues) /\ UNCHANGED <<heardAlone, faults>>
    BY <1>2 DEF OtherUnit
  <2>3. CharacterResult(u)
    BY <2>1, <2>2, CharacterFacts
  <2> HIDE DEF u
  <2> QED BY <1>0, <2>1, <2>2, <2>3, HeardFacts
<1>3. CASE DisturbedUnit
  <2>1. faults' \in 0 .. MaxFaults /\ UNCHANGED heardAlone
    BY <1>0, <1>3 DEF DisturbedUnit
  <2>2. CharacterResult(Junk)
    BY <1>3, UnitTypes, CharacterFacts, FramingFacts DEF DisturbedUnit
  <2>3. \E more \in Frames : Heard(Junk, more)
    BY <1>0, <1>3 DEF DisturbedUnit
  <2> QED BY <2>1, <2>2, <2>3, UnitTypes, HeardFacts
<1>4. CASE Fragment
  <2>1. Character(Junk) /\ Heard(Junk, NoFrame) /\ UNCHANGED <<heardAlone, faults>>
    BY <1>4 DEF Fragment
  <2>2. CharacterResult(Junk)
    BY <2>1, UnitTypes, CharacterFacts
  <2> QED BY <1>0, <2>1, <2>2, UnitTypes, HeardFacts
<1> QED BY <1>1, <1>2, <1>3, <1>4

-------------------------------------------------------------------------------
(* The numbers of the messages in a queue. *)
LEMMA NumbersFacts ==
  ASSUME NEW q \in Seq(Messages)
  PROVE  /\ Numbers(q) \in Seq(Nat) /\ Len(Numbers(q)) = Len(q)
         /\ \A i \in 1 .. Len(q) : Numbers(q)[i] = q[i].n
<1>1. \A i \in 1 .. Len(q) : q[i].n \in Nat
  <2>1. \A i \in 1 .. Len(q) : q[i] \in Messages
    OBVIOUS
  <2> QED BY <2>1, MessageLength
<1>2. Numbers(q) = [i \in 1 .. Len(q) |-> q[i].n]
  BY DEF Numbers
<1> QED BY <1>1, <1>2

(* Numbers of a queue that grows, and of one that shrinks. *)
LEMMA NumbersGrow ==
  ASSUME NEW q \in Seq(Messages), NEW m \in Messages
  PROVE  Numbers(Append(q, m)) = Append(Numbers(q), m.n)
<1>1. /\ Append(q, m) \in Seq(Messages) /\ Len(Append(q, m)) = Len(q) + 1
      /\ \A i \in 1 .. Len(q) : Append(q, m)[i] = q[i]
      /\ Append(q, m)[Len(q) + 1] = m
      /\ Len(q) \in Nat /\ m.n \in Nat
  BY AppendProperties, LenProperties, MessageLength
<1>2. /\ Numbers(Append(q, m)) \in Seq(Nat) /\ Len(Numbers(Append(q, m))) = Len(q) + 1
      /\ \A i \in 1 .. Len(q) + 1 : Numbers(Append(q, m))[i] = Append(q, m)[i].n
  BY <1>1, NumbersFacts
<1>3. /\ Append(Numbers(q), m.n) \in Seq(Nat) /\ Len(Append(Numbers(q), m.n)) = Len(q) + 1
      /\ \A i \in 1 .. Len(q) : Append(Numbers(q), m.n)[i] = Numbers(q)[i]
      /\ Append(Numbers(q), m.n)[Len(q) + 1] = m.n
  BY <1>1, NumbersFacts, AppendProperties, LenProperties
<1>4. \A i \in 1 .. Len(q) + 1 : Numbers(Append(q, m))[i] = Append(Numbers(q), m.n)[i]
  <2> SUFFICES ASSUME NEW i \in 1 .. Len(q) + 1
               PROVE  Numbers(Append(q, m))[i] = Append(Numbers(q), m.n)[i]
    OBVIOUS
  <2>1. CASE i = Len(q) + 1
    BY <1>1, <1>2, <1>3, <2>1
  <2>2. CASE i # Len(q) + 1
    <3>1. i \in 1 .. Len(q)
      BY <1>1, <2>2
    <3> QED BY <1>1, <1>2, <1>3, <3>1, NumbersFacts
  <2> QED BY <2>1, <2>2
<1> QED BY <1>2, <1>3, <1>4, SeqEqual

LEMMA NumbersShrink ==
  ASSUME NEW q \in Seq(Messages), q # <<>>
  PROVE  Numbers(q) = <<Head(q).n>> \o Numbers(Tail(q))
<1>1. /\ Len(q) \in Nat \ {0} /\ Head(q) = q[1] /\ Head(q) \in Messages
      /\ Tail(q) \in Seq(Messages) /\ Len(Tail(q)) = Len(q) - 1
      /\ \A i \in 1 .. Len(q) - 1 : Tail(q)[i] = q[i + 1]
  BY HeadTailProperties, LenProperties
<1> DEFINE h == <<Head(q).n>>
           r == Numbers(Tail(q))
           t == h \o r
<1>2. /\ r \in Seq(Nat) /\ Len(r) = Len(q) - 1
      /\ \A i \in 1 .. Len(q) - 1 : r[i] = q[i + 1].n
  <2>1. /\ Numbers(Tail(q)) \in Seq(Nat) /\ Len(Numbers(Tail(q))) = Len(Tail(q))
        /\ \A i \in 1 .. Len(Tail(q)) : Numbers(Tail(q))[i] = Tail(q)[i].n
    BY <1>1, NumbersFacts
  <2> QED BY <2>1, <1>1
<1>3. h \in Seq(Nat) /\ Len(h) = 1 /\ h[1] = q[1].n
  BY <1>1, MessageLength
<1> HIDE DEF h, r
<1>4. h \in Seq(Nat) /\ r \in Seq(Nat)
  BY <1>2, <1>3
<1>5. /\ t \in Seq(Nat) /\ Len(t) = Len(h) + Len(r)
       /\ \A i \in 1 .. Len(h) : t[i] = h[i]
       /\ \A j \in 1 .. Len(r) : t[Len(h) + j] = r[j]
  BY <1>4, ConcatProperties, LenProperties
<1> HIDE DEF t
<1>6. t[1] = q[1].n
  BY <1>3, <1>5
<1>7. \A i \in 1 .. Len(q) - 1 : t[1 + i] = q[i + 1].n
  <2> SUFFICES ASSUME NEW i \in 1 .. Len(q) - 1 PROVE t[1 + i] = q[i + 1].n
    OBVIOUS
  <2>1. i \in 1 .. Len(r) /\ r[i] = q[i + 1].n
    BY <1>2
  <2> QED BY <1>3, <1>5, <2>1
<1>8. Len(t) = Len(q)
  BY <1>1, <1>2, <1>3, <1>5
<1>9. Numbers(q) \in Seq(Nat) /\ Len(Numbers(q)) = Len(q)
      /\ \A i \in 1 .. Len(q) : Numbers(q)[i] = q[i].n
  BY NumbersFacts
<1>10. \A i \in 1 .. Len(q) : Numbers(q)[i] = t[i]
  <2> SUFFICES ASSUME NEW i \in 1 .. Len(q) PROVE q[i].n = t[i]
    BY <1>9
  <2>1. CASE i = 1
    BY <1>6, <2>1
  <2>2. CASE i # 1
    <3>1. i - 1 \in 1 .. Len(q) - 1 /\ (i - 1) + 1 = i /\ 1 + (i - 1) = i
      BY <1>1, <2>2
    <3> QED BY <1>7, <3>1
  <2> QED BY <2>1, <2>2
<1> QED BY <1>5, <1>8, <1>9, <1>10, SeqEqual DEF t, h, r

(* What is put in front of a sequence is its head, and the sequence its tail. *)
LEMMA PutInFront ==
  ASSUME NEW S, NEW s \in Seq(S), NEW e \in S
  PROVE  /\ <<e>> \o s \in Seq(S) /\ <<e>> \o s # <<>>
         /\ Head(<<e>> \o s) = e /\ Tail(<<e>> \o s) = s
<1>1. <<e>> \in Seq(S) /\ Len(<<e>>) = 1 /\ <<e>>[1] = e
  OBVIOUS
<1> DEFINE t == <<e>> \o s
<1>2. /\ t \in Seq(S) /\ Len(t) = 1 + Len(s) /\ Len(s) \in Nat
      /\ \A i \in 1 .. 1 + Len(s) : t[i] = IF i <= 1 THEN e ELSE s[i - 1]
  BY <1>1, ConcatProperties, LenProperties
<1> HIDE DEF t
<1>3. t # <<>> /\ Head(t) = t[1] /\ t[1] = e
  BY <1>2
<1>4. Tail(t) \in Seq(S) /\ Len(Tail(t)) = Len(s) /\ \A i \in 1 .. Len(s) : Tail(t)[i] = s[i]
  BY <1>2, <1>3, HeadTailProperties
<1>5. Tail(t) = s
  BY <1>4, SeqEqual
<1> QED
  BY <1>2, <1>3, <1>5 DEF t

(* The message in progress is the first of those waiting. *)
LEMMA WaitingFacts ==
  ASSUME TypeOK
  PROVE  /\ Numbers(j1708TxQueue) \in Seq(Nat)
         /\ (j1708State = "Transmitting" \/ j1708RetransmitNeeded) =>
              /\ Waiting = <<j1708CurTxMessage.n>> \o Numbers(j1708TxQueue)
              /\ Waiting # <<>> /\ Tail(Waiting) = Numbers(j1708TxQueue)
         /\ ~(j1708State = "Transmitting" \/ j1708RetransmitNeeded) =>
              Waiting = Numbers(j1708TxQueue)
<1>1. Numbers(j1708TxQueue) \in Seq(Nat) /\ j1708CurTxMessage.n \in Nat
  BY NumbersFacts, MessageLength DEF TypeOK
<1> QED BY <1>1, PutInFront, ConcatEmptySeq DEF Waiting, InProgress

(* A message that is done with is the first of those waiting, and the       *)
(* others stay.                                                             *)
LEMMA WaitingDone ==
  ASSUME TypeOK, UNCHANGED <<j1708TxQueue, j1708CurTxMessage>>,
         j1708State = "Transmitting" \/ j1708RetransmitNeeded,
         ~(j1708State' = "Transmitting" \/ j1708RetransmitNeeded')
  PROVE  Waiting # <<>> /\ Waiting' = Tail(Waiting)
<1>1. Waiting' = <<>> \o Numbers(j1708TxQueue)
  BY DEF Waiting, InProgress
<1>2. <<>> \o Numbers(j1708TxQueue) = Numbers(j1708TxQueue)
  BY WaitingFacts, ConcatEmptySeq
<1> QED BY <1>1, <1>2, WaitingFacts

-------------------------------------------------------------------------------
(***************************************************************************)
(* The end of a message: the transmission is over, and either it was heard *)
(* as it was sent or it will be repeated.                                  *)
(***************************************************************************)
EndResult(heard) ==
  /\ rxQueue' \in Seq(Units) /\ rxBuffer' \in Seq(Units)
  /\ checking' \in {-1, 0, 1} /\ j1708RetransmitNeeded' \in BOOLEAN
  /\ j1708State' \in States /\ j1708State' # "Transmitting"
  /\ j1708RxQueue' \in Seq(Entries) /\ Len(j1708RxQueue') < J1708_RX_QUEUE_SIZE
  /\ j1708PacketReady' \in BOOLEAN
  /\ j1708RxQueue # <<>> => j1708RxQueue' # <<>>
  /\ \/ j1708RetransmitNeeded' <=> (j1708State = "Transmitting" \/ j1708RetransmitNeeded)
     \/ /\ j1708State = "Transmitting" /\ ~j1708RetransmitNeeded'
        /\ heard = Echo(j1708CurTxMessage)

LEMMA TransmissionEndsFacts ==
  ASSUME IInv, j1708State = "Transmitting", NEW heard, TransmissionEnds(heard)
  PROVE  EndResult(heard)
<1> USE DEF IInv
<1>1. rxQueue' = <<>> /\ rxBuffer' = <<>>
  BY DEF TransmissionEnds, ClearReceived
<1>2. /\ j1708RetransmitNeeded = FALSE /\ checking \in {-1, 0, 1}
      /\ j1708RxQueue \in Seq(Entries) /\ Len(j1708RxQueue) < J1708_RX_QUEUE_SIZE
      /\ j1708PacketReady \in BOOLEAN
  BY DEF TypeOK, TransmissionInv
<1>3. [kind |-> "confirm", n |-> j1708CurTxMessage.n] \in Entries
  BY MessageLength DEF TypeOK, Entries
<1>4. CASE heard = Echo(j1708CurTxMessage)
  <2>1. /\ j1708State' = "Passive" /\ UNCHANGED <<j1708RetransmitNeeded, checking>>
        /\ \/ QueueReceived([kind |-> "confirm", n |-> j1708CurTxMessage.n])
           \/ UNCHANGED <<j1708RxQueue, j1708PacketReady>>
    BY <1>4 DEF TransmissionEnds
  <2>2. /\ j1708RxQueue' \in Seq(Entries) /\ Len(j1708RxQueue') < J1708_RX_QUEUE_SIZE
        /\ j1708PacketReady' \in BOOLEAN
        /\ j1708RxQueue # <<>> => j1708RxQueue' # <<>>
    BY <1>2, <1>3, <2>1, QueueReceivedFacts
  <2>3. /\ j1708State = "Transmitting" /\ ~j1708RetransmitNeeded'
        /\ heard = Echo(j1708CurTxMessage)
    BY <1>2, <1>4, <2>1
  <2>4. checking' \in {-1, 0, 1} /\ j1708RetransmitNeeded' \in BOOLEAN
        /\ j1708State' \in States /\ j1708State' # "Transmitting"
    BY <1>2, <2>1 DEF States
  <2> QED BY <1>1, <2>2, <2>3, <2>4 DEF EndResult
<1>5. CASE heard # Echo(j1708CurTxMessage)
  <2>1. /\ j1708State' = "IgnoreRxData" /\ checking' = -1
        /\ j1708RetransmitNeeded' = TRUE
        /\ UNCHANGED <<j1708RxQueue, j1708PacketReady>>
    BY <1>5 DEF TransmissionEnds
  <2> QED BY <1>1, <1>2, <2>1 DEF EndResult, States
<1> QED BY <1>4, <1>5

(* The end of a message in any state of the handler.  Of a transmission     *)
(* something has been received.                                             *)
LEMMA MessageEndsFacts ==
  ASSUME IInv, NEW queued \in Seq(Units), NEW rest \in Seq(Units),
         j1708State = "Transmitting" => queued # <<>>,
         MessageEnds(queued, rest)
  PROVE  EndResult(queued \o rest)
<1> USE DEF IInv
<1>1. /\ j1708RetransmitNeeded \in BOOLEAN /\ checking \in {-1, 0, 1}
      /\ j1708State \in States
      /\ j1708RxQueue \in Seq(Entries) /\ Len(j1708RxQueue) < J1708_RX_QUEUE_SIZE
      /\ j1708PacketReady \in BOOLEAN
  BY DEF TypeOK
<1>2. CASE queued = <<>> \/ j1708State = "IgnoreRxData"
  <2>1. j1708State # "Transmitting"
    BY <1>2
  <2>2. /\ rxQueue' = <<>> /\ rxBuffer' = <<>> /\ j1708State' = "Passive"
        /\ UNCHANGED <<j1708RetransmitNeeded, checking, j1708RxQueue, j1708PacketReady>>
    BY <1>2 DEF MessageEnds, NothingEnds, ClearReceived
  <2> QED BY <1>1, <2>1, <2>2 DEF EndResult, States
<1>3. CASE ~(queued = <<>> \/ j1708State = "IgnoreRxData") /\ j1708State = "Transmitting"
  BY <1>3, TransmissionEndsFacts DEF MessageEnds
<1>4. CASE ~(queued = <<>> \/ j1708State = "IgnoreRxData") /\ j1708State # "Transmitting"
  <2>1. /\ rxQueue' = <<>> /\ rxBuffer' = rest
        /\ QueueReceived(Entry(queued))
        /\ UNCHANGED <<j1708State, j1708RetransmitNeeded, checking>>
    BY <1>4 DEF MessageEnds
  <2>2. Entry(queued) \in Entries
    BY <1>4, EntryType
  <2>3. /\ j1708RxQueue' \in Seq(Entries) /\ Len(j1708RxQueue') < J1708_RX_QUEUE_SIZE
        /\ j1708PacketReady' \in BOOLEAN
        /\ j1708RxQueue # <<>> => j1708RxQueue' # <<>>
    BY <2>1, <2>2, QueueReceivedFacts
  <2> QED BY <1>1, <1>4, <2>1, <2>3 DEF EndResult
<1> QED BY <1>2, <1>3, <1>4

(* What follows for the messages waiting: all stay, or the first of them    *)
(* was on the bus.                                                          *)
LEMMA EndWaiting ==
  ASSUME IInv, NEW heard, EndResult(heard), wire' = heard \/ j1708State # "Transmitting",
         UNCHANGED <<j1708TxQueue, j1708CurTxMessage>>
  PROVE  LosesNone
<1> USE DEF IInv
<1>1. CASE j1708RetransmitNeeded' <=> (j1708State = "Transmitting" \/ j1708RetransmitNeeded)
  BY <1>1, WaitingSame DEF EndResult, LosesNone
<1>2. CASE /\ j1708State = "Transmitting" /\ ~j1708RetransmitNeeded'
           /\ heard = Echo(j1708CurTxMessage)
  BY <1>2, WaitingDone DEF EndResult, LosesNone
<1> QED BY <1>1, <1>2 DEF EndResult

(* The types after the end of a message. *)
LEMMA EndTypes ==
  ASSUME IInv, NEW heard, EndResult(heard),
         UNCHANGED <<j1708TxQueue, j1708CurTxMessage, frame, accepted, frames, settings,
                     resets, j1708TransmitConfirm, forwarded, told>>,
         faults' \in 0 .. MaxFaults, sending' \in BOOLEAN, txEmptyIE' \in BOOLEAN,
         sent' \in 0 .. FrameLength, wire' \in Seq(Units), heardAlone' \in BOOLEAN,
         line' \in {"quiet", "busy", "gap"}
  PROVE  TypeOK'
<1>1. /\ rxQueue' \in Seq(Units) /\ rxBuffer' \in Seq(Units)
      /\ checking' \in {-1, 0, 1} /\ j1708RetransmitNeeded' \in BOOLEAN
      /\ j1708State' \in States
      /\ j1708RxQueue' \in Seq(Entries) /\ Len(j1708RxQueue') < J1708_RX_QUEUE_SIZE
      /\ j1708PacketReady' \in BOOLEAN
  BY DEF EndResult
<1> QED BY <1>1 DEF IInv, TypeOK

(* TxEmpty before the last character is over. *)
LEMMA TxEmptyEarlyStep ==
  ASSUME IInv, TxEmptyEarly
  PROVE  IInv' /\ LosesNone
<1> USE DEF IInv
<1>1. PICK u \in Units : LastUnit(u) /\ faults' \in 0 .. MaxFaults
  <2>1. CASE LastUnit(Own(j1708CurTxMessage, j1708CurTxMessage.len)) /\ UNCHANGED faults
    <3>1. j1708CurTxMessage.len \in 0 .. FrameLength
      BY MessageLength DEF TypeOK, FrameLength
    <3>2. Own(j1708CurTxMessage, j1708CurTxMessage.len) \in Units
      BY <3>1, UnitTypes DEF TypeOK
    <3> QED BY <2>1, <3>2 DEF TypeOK
  <2>2. CASE LastUnit(Junk) /\ faults < MaxFaults /\ faults' = faults + 1
    BY <2>2, UnitTypes DEF TypeOK
  <2> QED BY <2>1, <2>2 DEF TxEmptyEarly
<1> DEFINE heard == Received \o <<u>>
<1>2. /\ sending /\ TransmissionEnds(heard)
      /\ sending' = FALSE /\ txEmptyIE' = FALSE
      /\ sent' = 0 /\ wire' = Append(wire, u)
      /\ line' = "gap"
      /\ UNCHANGED <<j1708TxQueue, j1708CurTxMessage, frame, heardAlone, accepted,
                     frames, settings, resets, j1708TransmitConfirm, forwarded, told>>
  BY <1>1 DEF LastUnit
<1>3. j1708State = "Transmitting" /\ Received = wire
  BY <1>2 DEF TransmissionInv
<1>4. heard = wire'
  BY <1>2, <1>3, ReceivedTypes
<1>5. EndResult(heard)
  BY <1>2, <1>3, TransmissionEndsFacts
<1>6. wire' \in Seq(Units)
  BY <1>2, AppendProperties, LenProperties DEF TypeOK
<1> HIDE DEF heard
<1>7. TypeOK'
  <2>1. sent' \in 0 .. FrameLength /\ heardAlone' \in BOOLEAN
    BY <1>2 DEF TypeOK, FrameLength
  <2> QED BY <1>1, <1>2, <1>5, <1>6, <2>1, EndTypes
<1>8. TransmissionInv'
  BY <1>2, <1>5 DEF TransmissionInv, EndResult
<1>9. ForwardedInv'
  BY <1>2, <1>5 DEF ForwardedInv, EndResult
<1>10. LosesNone
  BY <1>2, <1>4, <1>5, EndWaiting
<1> QED BY <1>7, <1>8, <1>9, <1>10

(* TxEmpty after the last character, or after a transmission that was cut   *)
(* off.                                                                     *)
LEMMA TxEmptyStep ==
  ASSUME IInv, TxEmpty
  PROVE  IInv' /\ LosesNone
<1> USE DEF IInv
<1>1. /\ txEmptyIE /\ ~sending /\ txEmptyIE' = FALSE
      /\ MessageEnds(rxQueue, rxBuffer)
      /\ UNCHANGED <<j1708TxQueue, j1708CurTxMessage, sending, sent, frame, line, wire,
                     heardAlone, accepted, frames, faults, settings, resets,
                     j1708TransmitConfirm, forwarded, told>>
  BY DEF TxEmpty, busVars, boundVars
<1>2. j1708State = "Transmitting" => rxQueue # <<>> /\ wire = Received
  BY <1>1 DEF TransmissionInv
<1>3. EndResult(Received)
  BY <1>1, <1>2, MessageEndsFacts DEF TypeOK, Received
<1>4. TypeOK'
  BY <1>1, <1>3, EndTypes DEF TypeOK
<1>5. TransmissionInv'
  BY <1>1, <1>3 DEF TransmissionInv, EndResult
<1>6. ForwardedInv'
  BY <1>1, <1>3 DEF ForwardedInv, EndResult
<1>7. LosesNone
  BY <1>1, <1>2, <1>3, EndWaiting
<1> QED BY <1>4, <1>5, <1>6, <1>7

(* Ten bits of idle bus: no transmission is under way. *)
LEMMA TimeoutIdleStep ==
  ASSUME IInv, TimeoutIdle
  PROVE  IInv' /\ LosesNone
<1> USE DEF IInv
<1>1. /\ ~txEmptyIE
      /\ line' = "quiet" /\ wire' = <<>> /\ heardAlone' = FALSE
      /\ MessageEnds(Received, <<>>)
      /\ UNCHANGED <<j1708TxQueue, j1708CurTxMessage, txEmptyIE, sending, sent, frame,
                     accepted, frames, faults, settings, resets,
                     j1708TransmitConfirm, forwarded, told>>
  BY DEF TimeoutIdle, boundVars
<1>2. j1708State # "Transmitting" /\ sending = FALSE
  BY <1>1 DEF TransmissionInv, TypeOK
<1>3. EndResult(Received \o <<>>)
  <2>1. Received \in Seq(Units) /\ <<>> \in Seq(Units)
    BY ReceivedTypes
  <2> QED BY <1>1, <1>2, <2>1, MessageEndsFacts
<1>4. TypeOK'
  <2>1. /\ faults' \in 0 .. MaxFaults /\ sending' \in BOOLEAN /\ txEmptyIE' \in BOOLEAN
        /\ sent' \in 0 .. FrameLength /\ heardAlone' \in BOOLEAN
    BY <1>1 DEF TypeOK
  <2>2. wire' \in Seq(Units) /\ line' \in {"quiet", "busy", "gap"}
    BY <1>1
  <2> QED BY <1>1, <1>3, <2>1, <2>2, EndTypes
<1>5. TransmissionInv'
  BY <1>1, <1>2, <1>3 DEF TransmissionInv, EndResult
<1>6. ForwardedInv'
  BY <1>1, <1>3 DEF ForwardedInv, EndResult
<1>7. LosesNone
  BY <1>1, <1>2, <1>3, EndWaiting
<1> QED BY <1>4, <1>5, <1>6, <1>7

-------------------------------------------------------------------------------
(* The host's commands. *)
LEMMA CommandStep ==
  ASSUME IInv,
         \/ \E len \in Lengths : J1708AddFormattedTxPacket(len)
         \/ EnableJ1708TxConfirm \/ J1708ResetDefaultPrefs
  PROVE  IInv' /\ LosesNone
<1> USE DEF IInv
<1>1. ASSUME NEW len \in Lengths, J1708AddFormattedTxPacket(len) PROVE IInv' /\ LosesNone
  <2> DEFINE m == [n |-> accepted + 1, len |-> len, txcnfrm |-> j1708TransmitConfirm]
  <2>1. /\ accepted < MaxAccepted /\ accepted' = accepted + 1
        /\ Len(j1708TxQueue) < J1708_TX_QUEUE_SIZE - 1
        /\ j1708TxQueue' = Append(j1708TxQueue, m)
        /\ UNCHANGED <<j1708RxQueue, j1708PacketReady, j1708TransmitConfirm, stateVars,
                       portVars, busVars, frames, faults, settings, resets, forwarded, told>>
    BY <1>1 DEF J1708AddFormattedTxPacket, GetFreeJ1708TxBuffers
  <2>2. accepted \in 0 .. MaxAccepted /\ j1708TransmitConfirm \in BOOLEAN
        /\ j1708TxQueue \in Seq(Messages)
    BY DEF TypeOK
  <2>3. accepted + 1 \in 1 .. MaxAccepted /\ accepted' \in 0 .. MaxAccepted
    BY <2>1, <2>2
  <2>4. m \in Messages /\ m.n = accepted'
    BY <2>1, <2>2, <2>3 DEF Messages
  <2> HIDE DEF m
  <2>5. /\ j1708TxQueue' \in Seq(Messages) /\ Len(j1708TxQueue') < J1708_TX_QUEUE_SIZE
        /\ Numbers(j1708TxQueue') = Append(Numbers(j1708TxQueue), accepted')
    BY <2>1, <2>2, <2>4, AppendProperties, LenProperties, NumbersGrow
  <2>6. TypeOK'
    BY <2>1, <2>3, <2>5 DEF TypeOK, stateVars, portVars, busVars
  <2>7. TransmissionInv' /\ ForwardedInv'
    BY <2>1 DEF TransmissionInv, ForwardedInv, Received, stateVars, portVars, busVars
  <2>8. Waiting' = Append(Waiting, accepted')
    <3>1. InProgress' = InProgress /\ InProgress \in Seq(Nat)
      BY <2>1, MessageLength DEF InProgress, stateVars, TypeOK
    <3>2. accepted' \in Nat /\ Numbers(j1708TxQueue) \in Seq(Nat)
      BY <2>3, WaitingFacts
    <3>3. InProgress \o Append(Numbers(j1708TxQueue), accepted')
            = Append(InProgress \o Numbers(j1708TxQueue), accepted')
      <4>1. ASSUME NEW u \in Seq(Nat), NEW v \in Seq(Nat), NEW x \in Nat
            PROVE  u \o Append(v, x) = Append(u \o v, x)
        BY <4>1, AppendIsConcat, ConcatAssociative, ConcatProperties
      <4> QED BY <3>1, <3>2, <4>1
    <3> QED BY <2>5, <3>1, <3>3 DEF Waiting
  <2> QED BY <2>6, <2>7, <2>8 DEF LosesNone
<1>2. CASE EnableJ1708TxConfirm
  <2>1. /\ settings' = settings + 1 /\ settings < MaxSettings
        /\ j1708TransmitConfirm' = ~j1708TransmitConfirm
        /\ UNCHANGED <<queueVars, stateVars, portVars, busVars, accepted, frames, faults,
                       resets, forwarded, told>>
    BY <1>2 DEF EnableJ1708TxConfirm
  <2>2. TypeOK'
    BY <2>1 DEF TypeOK, queueVars, stateVars, portVars, busVars
  <2>3. TransmissionInv' /\ ForwardedInv'
    BY <2>1 DEF TransmissionInv, ForwardedInv, Received, queueVars, stateVars, portVars, busVars
  <2>4. Waiting' = Waiting
    BY <2>1, WaitingSame DEF queueVars, stateVars
  <2> QED BY <2>2, <2>3, <2>4 DEF LosesNone
<1>3. CASE J1708ResetDefaultPrefs
  <2>1. /\ resets' = resets + 1 /\ resets < MaxResets /\ ~forwarded
        /\ j1708TxQueue' = <<>> /\ j1708RxQueue' = <<>> /\ j1708PacketReady' = FALSE
        /\ j1708TransmitConfirm' = FALSE /\ j1708RetransmitNeeded' = FALSE
        /\ sending' = FALSE /\ sent' = 0 /\ heardAlone' = FALSE
        /\ UNCHANGED <<j1708CurTxMessage, checking, rxQueue, rxBuffer, txEmptyIE, frame, line,
                       wire, accepted, frames, faults, settings, forwarded, told>>
    BY <1>3 DEF J1708ResetDefaultPrefs
  <2>2. j1708State' \in States /\ j1708State' # "Transmitting"
    BY <1>3 DEF J1708ResetDefaultPrefs, TypeOK, States
  <2>3. TypeOK'
    <3>1. /\ resets' \in 0 .. MaxResets /\ 0 \in 0 .. FrameLength
          /\ 0 < J1708_TX_QUEUE_SIZE /\ 0 < J1708_RX_QUEUE_SIZE
      BY <2>1, SizeAssumption, BoundAssumption DEF TypeOK, FrameLength
    <3>2. /\ j1708TxQueue' \in Seq(Messages) /\ Len(j1708TxQueue') = 0
          /\ j1708RxQueue' \in Seq(Entries) /\ Len(j1708RxQueue') = 0
      BY <2>1
    <3>3. sent' \in 0 .. FrameLength /\ j1708PacketReady' \in BOOLEAN
          /\ j1708TransmitConfirm' \in BOOLEAN /\ j1708RetransmitNeeded' \in BOOLEAN
          /\ sending' \in BOOLEAN /\ heardAlone' \in BOOLEAN
      BY <2>1, <3>1
    <3> QED BY <2>1, <2>2, <3>1, <3>2, <3>3 DEF TypeOK
  <2>4. TransmissionInv' /\ ForwardedInv'
    BY <2>1, <2>2 DEF TransmissionInv, ForwardedInv
  <2>5. Waiting' = <<>>
    <3>1. Numbers(<<>>) \in Seq(Nat) /\ Len(Numbers(<<>>)) = 0
      <4>1. <<>> \in Seq(Messages) /\ Len(<<>>) = 0
        OBVIOUS
      <4> QED BY <4>1, NumbersFacts
    <3>2. Numbers(<<>>) = <<>>
      BY <3>1
    <3>3. InProgress' = <<>> /\ Waiting' = <<>> \o Numbers(<<>>)
      BY <2>1, <2>2 DEF Waiting, InProgress
    <3> QED BY <3>2, <3>3
  <2>6. resets' # resets
    BY <2>1 DEF TypeOK
  <2> QED BY <2>3, <2>4, <2>5, <2>6 DEF LosesNone
<1> QED BY <1>1, <1>2, <1>3

(* What is left for the host when a transmission starts. *)
LEMMA StartFacts ==
  ASSUME IInv, StartJ1708Transmit
  PROVE  /\ j1708State # "Transmitting"
         /\ j1708RxQueue' \in Seq(Entries) /\ Len(j1708RxQueue') < J1708_RX_QUEUE_SIZE
         /\ j1708PacketReady' \in BOOLEAN
         /\ rxQueue' = <<>> /\ rxBuffer' = <<>>
<1> USE DEF IInv
<1>1. /\ ~forwarded /\ ~txEmptyIE /\ HandleDelayed
  BY DEF StartJ1708Transmit
<1>2. j1708State # "Transmitting"
  BY <1>1 DEF TransmissionInv
<1>3. rxQueue' = <<>> /\ rxBuffer' = <<>>
  BY <1>1 DEF HandleDelayed, ClearReceived
<1>4. CASE UNCHANGED <<j1708RxQueue, j1708PacketReady>>
  BY <1>2, <1>3, <1>4 DEF TypeOK
<1>5. CASE Received # <<>> /\ QueueReceived(Entry(Received))
  <2>1. Entry(Received) \in Entries
    BY <1>5, ReceivedTypes, EntryType
  <2> QED BY <1>2, <1>3, <1>5, <2>1, QueueReceivedFacts
<1> QED BY <1>1, <1>4, <1>5 DEF HandleDelayed

(* The main loop starts a transmission. *)
LEMMA TransmitStep ==
  ASSUME IInv, Retransmit \/ TransmitNext
  PROVE  IInv' /\ LosesNone
<1> USE DEF IInv
<1>1. StartJ1708Transmit
  BY DEF Retransmit, TransmitNext, GetNextJ1708TxMessage
<1>2. /\ ~forwarded
      /\ j1708State' = "Transmitting" /\ checking' = 0
      /\ txEmptyIE' = TRUE /\ sending' = TRUE /\ sent' = 0
      /\ line' = "busy" /\ wire' = <<>> /\ heardAlone' = FALSE
      /\ UNCHANGED <<j1708TransmitConfirm, frame, boundVars, forwarded, told>>
  BY <1>1 DEF StartJ1708Transmit
<1>3. /\ j1708State # "Transmitting"
      /\ j1708RxQueue' \in Seq(Entries) /\ Len(j1708RxQueue') < J1708_RX_QUEUE_SIZE
      /\ j1708PacketReady' \in BOOLEAN
      /\ rxQueue' = <<>> /\ rxBuffer' = <<>>
  BY <1>1, StartFacts
<1>4. /\ j1708RetransmitNeeded' = FALSE
      /\ j1708CurTxMessage' \in Messages \union {NoMessage}
      /\ j1708TxQueue' \in Seq(Messages) /\ Len(j1708TxQueue') < J1708_TX_QUEUE_SIZE
      /\ Waiting' = Waiting
  <2>1. CASE Retransmit
    <3>1. /\ j1708RetransmitNeeded /\ j1708RetransmitNeeded' = FALSE
          /\ UNCHANGED <<j1708CurTxMessage, j1708TxQueue>>
      BY <2>1 DEF Retransmit
    <3>2. Waiting' = Waiting
      BY <1>2, <3>1, WaitingSame
    <3> QED BY <3>1, <3>2 DEF TypeOK
  <2>2. CASE TransmitNext
    <3>1. /\ ~j1708RetransmitNeeded /\ j1708RetransmitNeeded' = j1708RetransmitNeeded
          /\ j1708TxQueue # <<>>
          /\ j1708CurTxMessage' = Head(j1708TxQueue)
          /\ j1708TxQueue' = Tail(j1708TxQueue)
      BY <2>2 DEF TransmitNext, GetNextJ1708TxMessage
    <3>2. j1708TxQueue \in Seq(Messages) /\ Len(j1708TxQueue) < J1708_TX_QUEUE_SIZE
          /\ j1708RetransmitNeeded \in BOOLEAN
      BY DEF TypeOK
    <3>3. /\ Head(j1708TxQueue) \in Messages
          /\ Tail(j1708TxQueue) \in Seq(Messages)
          /\ Len(Tail(j1708TxQueue)) = Len(j1708TxQueue) - 1
          /\ Len(j1708TxQueue) \in Nat
      BY <3>1, <3>2, HeadTailProperties, LenProperties
    <3>4. Waiting' = <<Head(j1708TxQueue).n>> \o Numbers(Tail(j1708TxQueue))
      BY <1>2, <3>1 DEF Waiting, InProgress
    <3>5. Waiting = Numbers(j1708TxQueue)
      BY <1>3, <3>1, WaitingFacts
    <3>6. Waiting' = Waiting
      BY <3>1, <3>2, <3>4, <3>5, NumbersShrink
    <3> QED BY <3>1, <3>2, <3>3, <3>6
  <2> QED BY <2>1, <2>2
<1>5. TypeOK'
  <2>1. /\ rxQueue' \in Seq(Units) /\ rxBuffer' \in Seq(Units) /\ wire' \in Seq(Units)
        /\ sent' \in 0 .. FrameLength /\ j1708State' \in States
    BY <1>2, <1>3 DEF FrameLength, States
  <2> QED BY <1>2, <1>3, <1>4, <2>1 DEF TypeOK, boundVars
<1>6. TransmissionInv'
  <2>1. j1708CurTxMessage'.len \in 2 .. FrameLength
    BY <1>4, MessageLength
  <2>2. sent' < j1708CurTxMessage'.len
    BY <1>2, <2>1 DEF FrameLength
  <2>3. Received' = wire'
    BY <1>2, <1>3 DEF Received
  <2> QED BY <1>2, <1>3, <1>4, <2>2, <2>3 DEF TransmissionInv
<1>7. ForwardedInv'
  BY <1>2 DEF ForwardedInv
<1> QED BY <1>4, <1>5, <1>6, <1>7 DEF LosesNone

(* The main loop forwards what was received. *)
LEMMA ForwardStep ==
  ASSUME IInv, ProcessJ1708RecvPacket \/ AdvanceTail
  PROVE  IInv' /\ LosesNone
<1> USE DEF IInv
<1>1. UNCHANGED <<j1708TxQueue, stateVars, portVars, busVars, boundVars, j1708TransmitConfirm>>
  BY DEF ProcessJ1708RecvPacket, GetNextJ1708RxMessage, AdvanceTail, queueVars
<1>2. /\ j1708RxQueue' \in Seq(Entries) /\ Len(j1708RxQueue') < J1708_RX_QUEUE_SIZE
      /\ j1708PacketReady' \in BOOLEAN /\ forwarded' \in BOOLEAN
      /\ told' \in [frame : Nat, confirm : Nat]
      /\ ForwardedInv'
  <2>1. CASE ProcessJ1708RecvPacket
    <3>1. /\ j1708RxQueue # <<>> /\ forwarded' = TRUE
          /\ UNCHANGED <<j1708RxQueue, j1708PacketReady>>
          /\ \/ UNCHANGED told
             \/ \E kind \in {"frame", "confirm"} : Tell(kind, Head(j1708RxQueue).n)
      BY <2>1 DEF ProcessJ1708RecvPacket, GetNextJ1708RxMessage, queueVars, ForwardConfirm, DropBadChecksum, ForwardMessage
    <3>2. Head(j1708RxQueue).n \in Nat
      <4>1. Head(j1708RxQueue) \in Entries
        BY <3>1, HeadTailProperties, LenProperties DEF TypeOK
      <4> QED BY <4>1 DEF Entries
    <3>3. told' \in [frame : Nat, confirm : Nat]
      BY <3>1, <3>2 DEF Tell, TypeOK
    <3> QED BY <3>1, <3>3 DEF TypeOK, ForwardedInv
  <2>2. CASE AdvanceTail
    <3>1. /\ forwarded /\ forwarded' = FALSE /\ told' = told
          /\ j1708RxQueue' = Tail(j1708RxQueue)
          /\ j1708PacketReady' = (j1708PacketReady /\ Tail(j1708RxQueue) # <<>>)
      BY <2>2 DEF AdvanceTail
    <3>2. j1708RxQueue # <<>> /\ j1708RxQueue \in Seq(Entries)
          /\ Len(j1708RxQueue) < J1708_RX_QUEUE_SIZE
      BY <3>1 DEF ForwardedInv, TypeOK
    <3>3. /\ Tail(j1708RxQueue) \in Seq(Entries)
          /\ Len(Tail(j1708RxQueue)) = Len(j1708RxQueue) - 1
          /\ Len(j1708RxQueue) \in Nat
      BY <3>2, HeadTailProperties, LenProperties
    <3>4. Len(Tail(j1708RxQueue)) < J1708_RX_QUEUE_SIZE
      BY <3>2, <3>3, SizeAssumption
    <3>5. j1708PacketReady' \in BOOLEAN /\ told' \in [frame : Nat, confirm : Nat]
      BY <3>1 DEF TypeOK
    <3> QED BY <3>1, <3>3, <3>4, <3>5 DEF ForwardedInv
  <2> QED BY <2>1, <2>2
<1>3. TypeOK'
  BY <1>1, <1>2 DEF TypeOK, stateVars, portVars, busVars, boundVars
<1>4. TransmissionInv'
  BY <1>1 DEF TransmissionInv, Received, stateVars, portVars, busVars
<1>5. Waiting' = Waiting
  BY <1>1, WaitingSame DEF stateVars
<1> QED BY <1>2, <1>3, <1>4, <1>5 DEF LosesNone

(* Another device starts, or a transmission that was cut off leaves the bus *)
(* silent.                                                                  *)
LEMMA LineStep ==
  ASSUME IInv, OtherStarts \/ Silence
  PROVE  IInv' /\ LosesNone
<1> USE DEF IInv
<1>1. UNCHANGED <<queueVars, stateVars, portVars, sent, accepted, faults, settings, resets,
                  j1708TransmitConfirm, forwarded, told>>
  BY DEF OtherStarts, Silence, boundVars
<1>2. ForwardedInv' /\ LosesNone
  BY <1>1, WaitingSame DEF ForwardedInv, LosesNone, queueVars, stateVars
<1>3. TypeOK' /\ TransmissionInv'
  <2>1. CASE OtherStarts
    <3>1. /\ frames < MaxFrames /\ frames' = frames + 1
          /\ line = "quiet" \/ (sending /\ sent = 0)
          /\ frame' = [n |-> frames + 1, at |-> 0]
          /\ line' = "busy" /\ wire' = <<>>
          /\ heardAlone' = (line = "quiet" /\ checking = -1)
      BY <2>1 DEF OtherStarts
    <3>2. frames' \in 0 .. MaxFrames /\ frame' \in Frames
      BY <3>1 DEF TypeOK, Frames, FrameLength
    <3>3. wire' \in Seq(Units) /\ heardAlone' \in BOOLEAN
      BY <3>1
    <3>4. TypeOK'
      BY <1>1, <3>1, <3>2, <3>3 DEF TypeOK, Frames, queueVars, stateVars, portVars
    <3>5. j1708State = "Transmitting" => wire = <<>>
      BY <3>1 DEF TransmissionInv
    <3>6. TransmissionInv'
      BY <1>1, <3>1, <3>5 DEF TransmissionInv, Received, stateVars, portVars
    <3> QED BY <3>4, <3>6
  <2>2. CASE Silence
    <3>1. /\ ~sending /\ line' = "gap"
          /\ UNCHANGED <<frame, wire, heardAlone, frames>>
      BY <2>2 DEF Silence, CutOff, boundVars
    <3>2. TypeOK'
      BY <1>1, <3>1 DEF TypeOK, queueVars, stateVars, portVars
    <3>3. TransmissionInv'
      BY <1>1, <3>1 DEF TransmissionInv, Received, stateVars, portVars
    <3> QED BY <3>2, <3>3
  <2> QED BY <2>1, <2>2
<1> QED BY <1>2, <1>3

-------------------------------------------------------------------------------
(* The initial state. *)
LEMMA InitFacts == Init => IInv
<1> SUFFICES ASSUME Init PROVE IInv
  OBVIOUS
<1>1. TypeOK
  <2>1. /\ 0 < J1708_TX_QUEUE_SIZE /\ 0 < J1708_RX_QUEUE_SIZE
        /\ \A n \in {MaxAccepted, MaxFrames, MaxFaults, MaxSettings, MaxResets} : 0 \in 0 .. n
    BY SizeAssumption, BoundAssumption
  <2>2. /\ j1708TxQueue \in Seq(Messages) /\ Len(j1708TxQueue) = 0
        /\ j1708RxQueue \in Seq(Entries) /\ Len(j1708RxQueue) = 0
        /\ rxQueue \in Seq(Units) /\ rxBuffer \in Seq(Units) /\ wire \in Seq(Units)
    BY DEF Init
  <2>3. frame \in Frames /\ sent \in 0 .. FrameLength /\ j1708State \in States
    BY <2>1 DEF Init, NoFrame, Frames, FrameLength, States
  <2>4. told \in [frame : Nat, confirm : Nat]
    BY DEF Init
  <2> QED BY <2>1, <2>2, <2>3, <2>4 DEF Init, TypeOK, Frames
<1>2. TransmissionInv /\ ForwardedInv
  BY DEF Init, TransmissionInv, ForwardedInv
<1> QED BY <1>1, <1>2 DEF IInv

(* Every step keeps the invariant and loses no message. *)
LEMMA StepFacts == IInv /\ [Next]_vars => IInv' /\ [LosesNone]_vars
<1> SUFFICES ASSUME IInv, [Next]_vars PROVE IInv' /\ [LosesNone]_vars
  OBVIOUS
<1>1. CASE UNCHANGED vars
  BY <1>1 DEF vars, queueVars, stateVars, portVars, busVars, boundVars, IInv, TypeOK,
              TransmissionInv, ForwardedInv, Received
<1>2. ASSUME OwnUnit \/ OtherUnit \/ DisturbedUnit \/ Fragment
      PROVE  IInv' /\ LosesNone
  BY <1>2, UnitStep DEF LosesNone
<1> QED
  BY <1>1, <1>2, CommandStep, TransmitStep, ForwardStep, LineStep, TxEmptyEarlyStep, TxEmptyStep,
     TimeoutIdleStep
  DEF Next, MainLoop, Bus, Handler

-------------------------------------------------------------------------------
(***************************************************************************)
(* What the port holds, when nobody transmits and when the firmware is not *)
(* in the way of another device.                                           *)
(***************************************************************************)
Disturbed == \E i \in 1 .. Len(wire) : wire[i] = Junk

HeardInv ==
  /\ checking # -1 => rxBuffer = <<>>
  /\ frame # NoFrame => line = "busy"
  /\ line = "quiet" =>
       Received = <<>> /\ j1708State = "Passive" /\ ~txEmptyIE /\ ~sending
  /\ heardAlone =>
       /\ line # "quiet" /\ j1708State = "Passive" /\ checking = -1 /\ ~txEmptyIE /\ ~sending
       /\ Received = wire \/ Disturbed

(***************************************************************************)
(* The order of the units of other devices, and the units and messages of  *)
(* other devices that come before the next one on the bus.                 *)
(***************************************************************************)
Before(u, v) == u.n < v.n \/ (u.n = v.n /\ u.i < v.i)

Past(u) == /\ u.n <= frames
           /\ frame # NoFrame => u.n < frame.n \/ (u.n = frame.n /\ u.i <= frame.at)

OverBy(n) == n <= frames /\ (frame # NoFrame => n < frame.n)

\* A sequence of units as the bus may have had them.
InBusOrder(s) ==
  /\ \A i \in 1 .. Len(s) : s[i].of = "other" => Past(s[i])
  /\ \A i, j \in 1 .. Len(s) :
       i < j /\ s[i].of = "other" /\ s[j].of = "other" => Before(s[i], s[j])

\* Nothing of s is of the message n of another device or an older one.
Later(s, n) == \A i \in 1 .. Len(s) : s[i].of = "other" => n < s[i].n

UnitsInv ==
  /\ frame # NoFrame => frame.n = frames
  /\ InBusOrder(Received)
  /\ j1708State = "Passive" => \A i \in 1 .. Len(Received) : Received[i].of # "own"

(***************************************************************************)
(* What is queued for the host: none of the firmware's own transmissions;  *)
(* messages and confirmations that the host has not been told of, in order *)
(* and older than whatever is still to be queued.                          *)
(***************************************************************************)
\* The kind and number of what was queued last may still follow.
Superseded(kind, n) ==
  /\ kind = "frame" => OverBy(n) /\ Later(Received, n)
  /\ kind = "confirm" =>
       /\ n <= j1708CurTxMessage.n
       /\ j1708State = "Transmitting" \/ j1708RetransmitNeeded => n < j1708CurTxMessage.n

AllSuperseded(queue, newest) ==
  /\ \A kind \in {"frame", "confirm"} : Superseded(kind, newest[kind])
  /\ \A i \in 1 .. Len(queue) : Superseded(queue[i].kind, queue[i].n)

InTurn(queue, first, newest) ==
  /\ \A i \in 1 .. Len(queue) :
       /\ queue[i].kind # "echo"
       /\ queue[i].kind # "damaged" =>
            \/ newest[queue[i].kind] < queue[i].n
            \/ first /\ i = 1 /\ newest[queue[i].kind] = queue[i].n
  /\ \A i, j \in 1 .. Len(queue) :
       i < j /\ queue[i].kind = queue[j].kind /\ queue[i].kind # "damaged"
         => queue[i].n < queue[j].n

TellInv == AllSuperseded(j1708RxQueue, told) /\ InTurn(j1708RxQueue, forwarded, told)

NumbersInv ==
  /\ j1708CurTxMessage.n <= accepted
  /\ \A i \in 1 .. Len(j1708TxQueue) :
       j1708CurTxMessage.n < j1708TxQueue[i].n /\ j1708TxQueue[i].n <= accepted
  /\ \A i, j \in 1 .. Len(j1708TxQueue) : i < j => j1708TxQueue[i].n < j1708TxQueue[j].n

HostInv == HeardInv /\ UnitsInv /\ TellInv /\ NumbersInv

-------------------------------------------------------------------------------
(* What the handler does with a character that is heard, and with one that  *)
(* is not because of a framing error.                                       *)
HearsUnit(u) ==
  /\ Received' = <<>> \/ Received' = Append(Received, u)
  /\ checking' # -1 => rxBuffer' = <<>>
  /\ j1708State' = "Passive" => j1708State = "Passive"
  /\ checking = -1 /\ j1708State = "Passive" =>
       /\ checking' = -1 /\ j1708State' = "Passive"
       /\ Received' = Append(Received, u) \/ u = Junk
  /\ sending' => sending
  /\ (j1708State' = "Transmitting" \/ j1708RetransmitNeeded')
       => (j1708State = "Transmitting" \/ j1708RetransmitNeeded)

LEMMA ClearedEmpty ==
  ASSUME ClearReceived
  PROVE  Received' = <<>> /\ rxBuffer' = <<>> /\ rxQueue' = <<>>
<1>1. rxQueue' = <<>> /\ rxBuffer' = <<>>
  BY DEF ClearReceived
<1>2. <<>> \o <<>> = <<>>
  OBVIOUS
<1> QED BY <1>1, <1>2 DEF Received

LEMMA HearsCharacter ==
  ASSUME IInv, HeardInv, NEW u \in Units, Character(u)
  PROVE  HearsUnit(u)
<1> USE DEF IInv
<1>1. /\ sending' => sending
      /\ (j1708State' = "Transmitting" \/ j1708RetransmitNeeded')
           => (j1708State = "Transmitting" \/ j1708RetransmitNeeded)
  BY CharacterFacts DEF CharacterResult
<1>2. rxQueue \in Seq(Units) /\ rxBuffer \in Seq(Units) /\ Received \in Seq(Units)
  BY ReceivedTypes DEF TypeOK
<1>3. CASE CharacterMatches(u)
  <2>1. /\ checking # -1 /\ rxQueue' = Append(rxQueue, u) /\ rxBuffer' = rxBuffer
        /\ j1708State' = j1708State
    BY <1>3 DEF CharacterMatches
  <2>2. rxBuffer = <<>> /\ Received = rxQueue
    BY <2>1, ReceivedTypes DEF HeardInv
  <2>3. Append(rxQueue, u) \in Seq(Units)
    BY <1>2, AppendProperties, LenProperties
  <2>4. Append(rxQueue, u) \o <<>> = Append(rxQueue, u)
    BY <2>3
  <2>5. Received' = Append(Received, u)
    BY <2>1, <2>2, <2>4 DEF Received
  <2> QED BY <1>1, <2>1, <2>2, <2>5 DEF HearsUnit
<1>4. CASE CharacterDiffers(u)
  <2>1. checking # -1 /\ checking' = -1 /\ j1708State' = "IgnoreRxData" /\ ClearReceived
    BY <1>4 DEF CharacterDiffers, EnterCollisionState
  <2> QED BY <1>1, <2>1, ClearedEmpty DEF HearsUnit
<1>5. CASE CharacterKept(u)
  <2>1. checking = -1 /\ checking' = -1 /\ j1708State' = j1708State
    BY <1>5 DEF CharacterKept
  <2>2. Received' = Append(Received, u)
    <3>1. CASE rxBuffer' = Append(rxBuffer, u) /\ UNCHANGED rxQueue
      BY <3>1, ReceivedTypes DEF Received
    <3>2. CASE rxQueue' = Append(Received, u) /\ rxBuffer' = <<>>
      <4>1. Append(Received, u) \in Seq(Units)
        BY <1>2, AppendProperties, LenProperties
      <4>2. Append(Received, u) \o <<>> = Append(Received, u)
        BY <4>1
      <4>3. Received' = Append(Received, u) \o <<>>
        BY <3>2 DEF Received
      <4> QED BY <4>2, <4>3
    <3> QED BY <1>5, <3>1, <3>2 DEF CharacterKept
  <2> QED BY <1>1, <2>1, <2>2 DEF HearsUnit
<1> QED BY <1>3, <1>4, <1>5 DEF Character

LEMMA HearsError ==
  ASSUME IInv, HeardInv, FramingError
  PROVE  HearsUnit(Junk)
<1> USE DEF IInv
<1>1. /\ sending' => sending
      /\ (j1708State' = "Transmitting" \/ j1708RetransmitNeeded')
           => (j1708State = "Transmitting" \/ j1708RetransmitNeeded)
  BY FramingFacts DEF CharacterResult
<1>2. Received' = <<>> /\ rxBuffer' = <<>>
  BY ClearedEmpty DEF FramingError
<1>3. CASE j1708State = "Transmitting"
  BY <1>1, <1>2, <1>3 DEF FramingError, EnterCollisionState, HearsUnit
<1>4. CASE j1708State # "Transmitting"
  <2>1. UNCHANGED <<j1708State, checking>>
    BY <1>4 DEF FramingError
  <2> QED BY <1>1, <1>2, <2>1 DEF HearsUnit
<1> QED BY <1>3, <1>4

(* Every action on which a character is heard, of whoever sent it.          *)
UnitHeard(u) ==
  /\ HearsUnit(u)
  /\ u.of = "own" => sending
  /\ u.of = "other" =>
       frame # NoFrame /\ u = Other(frame.n, frame.at + 1) /\ frame' = Continues
  /\ frame' = NoFrame \/ (frame # NoFrame /\ frame' = Continues)
  /\ wire' = Append(wire, u)
  /\ line = "busy" /\ line' \in {"busy", "gap"} /\ (frame' # NoFrame => line' = "busy")
  /\ UNCHANGED <<queueVars, j1708CurTxMessage, txEmptyIE, j1708TransmitConfirm, accepted,
                 frames, settings, resets, forwarded, told, heardAlone>>

LEMMA UnitsHeard ==
  ASSUME IInv, HeardInv, OwnUnit \/ OtherUnit \/ DisturbedUnit \/ Fragment
  PROVE  \E u \in Units : UnitHeard(u)
<1> USE DEF IInv
<1>1. ASSUME NEW u, NEW more, Heard(u, more)
      PROVE  /\ frame' = more /\ wire' = Append(wire, u) /\ line' \in {"busy", "gap"}
             /\ frame' # NoFrame => line' = "busy"
             /\ UNCHANGED <<queueVars, j1708CurTxMessage, txEmptyIE, j1708TransmitConfirm,
                            accepted, frames, settings, resets, forwarded, told>>
  BY <1>1 DEF Heard, BusAfter
<1>0. sending \/ frame # NoFrame => line = "busy"
  BY DEF TransmissionInv, HeardInv
<1>2. CASE OwnUnit
  <2> DEFINE u == Own(j1708CurTxMessage, sent + 1)
  <2>1. u \in Units /\ u.of = "own"
    <3>1. sending /\ sent < j1708CurTxMessage.len
      BY <1>2 DEF OwnUnit, TransmissionInv
    <3>2. j1708CurTxMessage \in Messages \union {NoMessage} /\ sent \in 0 .. FrameLength
      BY DEF TypeOK
    <3>3. sent + 1 \in 0 .. FrameLength
      BY <3>1, <3>2, MessageLength DEF FrameLength
    <3> QED BY <3>2, <3>3, UnitTypes DEF Own
  <2>2. /\ sending /\ Character(u) /\ UNCHANGED heardAlone
        /\ Heard(u, NoFrame) \/ (frame # NoFrame /\ Heard(u, Continues))
    BY <1>2 DEF OwnUnit
  <2> HIDE DEF u
  <2>3. HearsUnit(u)
    BY <2>1, <2>2, HearsCharacter
  <2>4. UnitHeard(u)
    <3>1. CASE Heard(u, NoFrame)
      BY <1>0, <1>1, <2>1, <2>2, <2>3, <3>1 DEF UnitHeard
    <3>2. CASE frame # NoFrame /\ Heard(u, Continues)
      BY <1>0, <1>1, <2>1, <2>2, <2>3, <3>2 DEF UnitHeard
    <3> QED BY <2>2, <3>1, <3>2
  <2> QED BY <2>1, <2>4
<1>3. CASE OtherUnit
  <2> DEFINE u == Other(frame.n, frame.at + 1)
  <2>1. u \in Units /\ u.of = "other"
    BY FrameFacts, UnitTypes DEF Other
  <2>2. frame # NoFrame /\ Character(u) /\ Heard(u, Continues) /\ UNCHANGED heardAlone
    BY <1>3 DEF OtherUnit
  <2>3. u = Other(frame.n, frame.at + 1)
    OBVIOUS
  <2> HIDE DEF u
  <2>4. HearsUnit(u)
    BY <2>1, <2>2, HearsCharacter
  <2>5. UnitHeard(u)
    BY <1>0, <1>1, <2>1, <2>2, <2>3, <2>4 DEF UnitHeard
  <2> QED BY <2>1, <2>5
<1>4. Junk \in Units /\ Junk.of = "junk"
  BY UnitTypes DEF Junk
<1>5. CASE DisturbedUnit
  <2>1. /\ Character(Junk) \/ FramingError
        /\ sending \/ frame # NoFrame
        /\ Heard(Junk, IF frame = NoFrame THEN NoFrame ELSE Continues)
        /\ UNCHANGED heardAlone
    BY <1>5 DEF DisturbedUnit
  <2>2. HearsUnit(Junk)
    BY <1>4, <2>1, HearsCharacter, HearsError
  <2>3. UnitHeard(Junk)
    BY <1>0, <1>1, <1>4, <2>1, <2>2 DEF UnitHeard
  <2> QED BY <1>4, <2>3
<1>6. CASE Fragment
  <2>1. CutOff /\ Character(Junk) /\ Heard(Junk, NoFrame) /\ UNCHANGED heardAlone
    BY <1>6 DEF Fragment
  <2>2. HearsUnit(Junk)
    BY <1>4, <2>1, HearsCharacter
  <2>3. UnitHeard(Junk)
    BY <1>0, <1>1, <1>4, <2>1, <2>2 DEF UnitHeard, CutOff
  <2> QED BY <1>4, <2>3
<1> QED BY <1>2, <1>3, <1>5, <1>6

-------------------------------------------------------------------------------
(* The end of a message: what was received is dropped, or was the           *)
(* firmware's own and is confirmed, or is queued for the host.              *)
Dropped ==
  /\ Received' = <<>> /\ rxBuffer' = <<>>
  /\ j1708State' = "Passive" \/ j1708State = "Transmitting"
  /\ j1708State' # "Transmitting"
  /\ j1708RetransmitNeeded' => (j1708State = "Transmitting" \/ j1708RetransmitNeeded)
  /\ UNCHANGED j1708RxQueue

Confirmed ==
  /\ Received' = <<>> /\ rxBuffer' = <<>>
  /\ j1708State = "Transmitting" /\ j1708State' = "Passive" /\ ~j1708RetransmitNeeded'
  /\ QueueReceived([kind |-> "confirm", n |-> j1708CurTxMessage.n])

Taken(queued, rest) ==
  /\ rxBuffer' = rest /\ Received' = rest
  /\ j1708State = "Passive" /\ queued # <<>>
  /\ UNCHANGED <<j1708State, j1708RetransmitNeeded, checking>>
  /\ QueueReceived(Entry(queued))

LEMMA TransmissionCases ==
  ASSUME IInv, j1708State = "Transmitting", NEW heard, TransmissionEnds(heard)
  PROVE  Dropped \/ Confirmed
<1> USE DEF IInv
<1>1. Received' = <<>> /\ rxBuffer' = <<>>
  BY ClearedEmpty DEF TransmissionEnds
<1>2. ~j1708RetransmitNeeded
  BY DEF TransmissionInv
<1>3. CASE heard = Echo(j1708CurTxMessage)
  <2>1. /\ j1708State' = "Passive" /\ UNCHANGED j1708RetransmitNeeded
        /\ \/ QueueReceived([kind |-> "confirm", n |-> j1708CurTxMessage.n])
           \/ UNCHANGED j1708RxQueue
    BY <1>3 DEF TransmissionEnds
  <2> QED BY <1>1, <1>2, <2>1 DEF Dropped, Confirmed
<1>4. CASE heard # Echo(j1708CurTxMessage)
  BY <1>1, <1>4 DEF TransmissionEnds, Dropped
<1> QED BY <1>3, <1>4

LEMMA EndCases ==
  ASSUME IInv, NEW queued \in Seq(Units), NEW rest \in Seq(Units), MessageEnds(queued, rest)
  PROVE  Dropped \/ Confirmed \/ Taken(queued, rest)
<1> USE DEF IInv
<1>1. j1708State \in States
  BY DEF TypeOK
<1>2. CASE queued = <<>> \/ j1708State = "IgnoreRxData"
  <2>1. NothingEnds
    BY <1>2 DEF MessageEnds
  <2> QED BY <2>1, ClearedEmpty DEF NothingEnds, Dropped
<1>3. CASE queued # <<>> /\ j1708State = "Transmitting"
  <2>1. TransmissionEnds(queued \o rest)
    BY <1>3 DEF MessageEnds
  <2> QED BY <1>3, <2>1, TransmissionCases
<1>4. CASE queued # <<>> /\ j1708State = "Passive"
  <2>1. /\ rxQueue' = <<>> /\ rxBuffer' = rest
        /\ QueueReceived(Entry(queued))
        /\ UNCHANGED <<j1708State, j1708RetransmitNeeded, checking>>
    BY <1>4 DEF MessageEnds
  <2>2. <<>> \o rest = rest
    OBVIOUS
  <2> QED BY <1>4, <2>1, <2>2 DEF Taken, Received
<1> QED BY <1>1, <1>2, <1>3, <1>4 DEF States

(***************************************************************************)
(* What the port holds.                                                    *)
(***************************************************************************)
LEMMA HeardSame ==
  ASSUME HeardInv, UNCHANGED <<stateVars, portVars, line, frame, wire, heardAlone>>
  PROVE  HeardInv'
  BY DEF HeardInv, Disturbed, Received, stateVars, portVars

LEMMA HeardUnit ==
  ASSUME IInv, HeardInv, NEW u \in Units, UnitHeard(u)
  PROVE  HeardInv'
<1>1. /\ HearsUnit(u) /\ line' # "quiet" /\ wire' = Append(wire, u)
      /\ frame' # NoFrame => line' = "busy"
      /\ heardAlone' = heardAlone /\ txEmptyIE' = txEmptyIE
  BY DEF UnitHeard
<1>2. checking' # -1 => rxBuffer' = <<>>
  BY <1>1 DEF HearsUnit
<1>3. ASSUME heardAlone
      PROVE  /\ j1708State' = "Passive" /\ checking' = -1 /\ ~txEmptyIE' /\ ~sending'
             /\ Received' = wire' \/ Disturbed'
  <2>1. /\ j1708State = "Passive" /\ checking = -1 /\ ~txEmptyIE /\ ~sending
        /\ Received = wire \/ Disturbed
    BY <1>3 DEF HeardInv
  <2>2. /\ j1708State' = "Passive" /\ checking' = -1 /\ ~sending'
        /\ Received' = Append(Received, u) \/ u = Junk
    BY <1>1, <2>1 DEF HearsUnit
  <2>3. /\ Len(wire) \in Nat /\ Len(wire') = Len(wire) + 1
        /\ \A i \in 1 .. Len(wire) : wire'[i] = wire[i]
        /\ wire'[Len(wire) + 1] = u
    BY <1>1, AppendProperties, LenProperties DEF IInv, TypeOK
  <2>4. u = Junk => Disturbed'
    BY <2>3 DEF Disturbed
  <2>5. Disturbed => Disturbed'
    BY <2>3 DEF Disturbed
  <2>6. Received = wire /\ Received' = Append(Received, u) => Received' = wire'
    BY <1>1
  <2> QED BY <1>1, <2>1, <2>2, <2>4, <2>5, <2>6
<1> QED BY <1>1, <1>2, <1>3 DEF HeardInv

LEMMA HeardStep ==
  ASSUME IInv, HeardInv, [Next]_vars
  PROVE  HeardInv'
<1> USE DEF IInv
<1>1. CASE \/ UNCHANGED vars
           \/ \E len \in Lengths : J1708AddFormattedTxPacket(len)
           \/ EnableJ1708TxConfirm \/ ProcessJ1708RecvPacket \/ AdvanceTail
  <2>1. UNCHANGED <<stateVars, portVars, line, frame, wire, heardAlone>>
    BY <1>1 DEF vars, busVars, J1708AddFormattedTxPacket, GetFreeJ1708TxBuffers, EnableJ1708TxConfirm,
                ProcessJ1708RecvPacket, GetNextJ1708RxMessage, AdvanceTail
  <2> QED BY <2>1, HeardSame
<1>2. CASE J1708ResetDefaultPrefs
  <2>1. /\ sending' = FALSE /\ heardAlone' = FALSE
        /\ j1708State' = IF rxQueue # <<>> \/ rxBuffer # <<>> THEN "IgnoreRxData"
                         ELSE IF j1708State = "Transmitting" THEN "Passive" ELSE j1708State
        /\ UNCHANGED <<checking, rxQueue, rxBuffer, txEmptyIE, frame, line>>
    BY <1>2 DEF J1708ResetDefaultPrefs
  <2>2. Received = <<>> => rxQueue = <<>> /\ rxBuffer = <<>>
    <3>1. rxQueue \in Seq(Units) /\ rxBuffer \in Seq(Units)
      BY DEF TypeOK
    <3>2. Len(Received) = Len(rxQueue) + Len(rxBuffer)
      BY <3>1, ConcatProperties, LenProperties DEF Received
    <3> QED BY <3>1, <3>2
  <2> QED BY <2>1, <2>2 DEF HeardInv, Received
<1>3. CASE Retransmit \/ TransmitNext
  <2>1. /\ line \in {"quiet", "gap"} /\ line' = "busy" /\ heardAlone' = FALSE /\ HandleDelayed
        /\ frame' = frame
    BY <1>3 DEF Retransmit, TransmitNext, GetNextJ1708TxMessage, StartJ1708Transmit
  <2>2. rxBuffer' = <<>>
    BY <2>1 DEF HandleDelayed, ClearReceived
  <2> QED BY <2>1, <2>2 DEF HeardInv
<1>4. CASE OtherStarts
  <2>1. /\ line' = "busy" /\ wire' = <<>>
        /\ heardAlone' = (line = "quiet" /\ checking = -1)
        /\ UNCHANGED <<stateVars, portVars>>
    BY <1>4 DEF OtherStarts
  <2> QED BY <2>1 DEF HeardInv, Received, stateVars, portVars
<1>5. CASE Silence
  <2>1. /\ line' = "gap" /\ line = "busy" /\ frame = NoFrame
        /\ UNCHANGED <<stateVars, portVars, frame, wire, heardAlone>>
    BY <1>5 DEF Silence, CutOff
  <2> QED BY <2>1 DEF HeardInv, Disturbed, Received, stateVars, portVars
<1>6. CASE OwnUnit \/ OtherUnit \/ DisturbedUnit \/ Fragment
  BY <1>6, UnitsHeard, HeardUnit
<1>7. CASE TxEmptyEarly
  <2>1. /\ sending /\ line' = "gap" /\ frame = NoFrame /\ UNCHANGED <<heardAlone, frame>>
        /\ \E heard : TransmissionEnds(heard)
    BY <1>7 DEF TxEmptyEarly, LastUnit
  <2>2. rxBuffer' = <<>>
    BY <2>1 DEF TransmissionEnds, ClearReceived
  <2> QED BY <2>1, <2>2 DEF HeardInv
<1>8. CASE TxEmpty
  <2>1. /\ txEmptyIE /\ UNCHANGED <<heardAlone, frame, line>>
        /\ MessageEnds(rxQueue, rxBuffer)
    BY <1>8 DEF TxEmpty, busVars
  <2>2. Dropped \/ Confirmed \/ Taken(rxQueue, rxBuffer)
    BY <2>1, EndCases DEF TypeOK
  <2>3. checking' # -1 => rxBuffer' = <<>>
    BY <2>2 DEF Dropped, Confirmed, Taken, HeardInv
  <2> QED BY <2>1, <2>3 DEF HeardInv
<1>9. CASE TimeoutIdle
  <2>1. /\ ~txEmptyIE /\ line = "gap" /\ line' = "quiet" /\ heardAlone' = FALSE
        /\ UNCHANGED <<txEmptyIE, sending, frame>>
        /\ MessageEnds(Received, <<>>)
    BY <1>9 DEF TimeoutIdle
  <2>2. j1708State # "Transmitting" /\ ~sending
    BY <2>1 DEF TransmissionInv
  <2>3. Received \in Seq(Units) /\ <<>> \in Seq(Units)
    BY ReceivedTypes
  <2>4. Dropped \/ Taken(Received, <<>>)
    BY <2>1, <2>2, <2>3, EndCases DEF Confirmed
  <2>5. Received' = <<>> /\ rxBuffer' = <<>> /\ j1708State' = "Passive"
    BY <2>2, <2>4 DEF Dropped, Taken
  <2> QED BY <2>1, <2>2, <2>5 DEF HeardInv
<1> QED
  BY <1>1, <1>2, <1>3, <1>4, <1>5, <1>6, <1>7, <1>8, <1>9 DEF Next, MainLoop, Bus, Handler

-------------------------------------------------------------------------------
(* A message of another device that was received as a whole is queued as    *)
(* that message.                                                            *)
LEMMA WholeFacts ==
  ASSUME NEW n \in Nat
  PROVE  /\ Whole(n) \in Seq(Units) /\ Len(Whole(n)) = FrameLength /\ Whole(n) # <<>>
         /\ \A i \in 1 .. FrameLength : Whole(n)[i] = Other(n, i)
         /\ Head(Whole(n)).n = n
<1>1. /\ FrameLength = 3
      /\ Whole(n) = [i \in 1 .. 3 |-> Other(n, i)]
      /\ \A i \in 1 .. 3 : Other(n, i) \in Units
  BY UnitTypes DEF Whole, FrameLength
<1>2. Whole(n) \in Seq(Units) /\ Len(Whole(n)) = 3
  BY <1>1
<1>3. Whole(n) # <<>>
  BY <1>2
<1>4. Head(Whole(n)) = Other(n, 1)
  BY <1>1, <1>2, <1>3, HeadTailProperties, LenProperties
<1> QED BY <1>1, <1>2, <1>3, <1>4 DEF Other

LEMMA WholeEntry ==
  ASSUME NEW n \in Nat
  PROVE  Entry(Whole(n)) = [kind |-> "frame", n |-> n]
  BY WholeFacts DEF Entry

(* The message that was heard alone is what the port holds. *)
LEMMA AloneReceived ==
  ASSUME IInv, HeardInv, heardAlone, NEW n \in Nat, wire = Whole(n)
  PROVE  j1708State = "Passive" /\ ~txEmptyIE /\ Received = Whole(n) /\ Received # <<>>
<1>1. /\ j1708State = "Passive" /\ ~txEmptyIE
      /\ Received = wire \/ Disturbed
  BY DEF HeardInv
<1>2. ~Disturbed
  <2>1. \A i \in 1 .. Len(wire) : wire[i] = Other(n, i)
    BY WholeFacts
  <2>2. \A i \in Nat : Other(n, i) # Junk
    <3>1. Junk.of = "junk" /\ \A i \in Nat : Other(n, i).of = "other"
      BY DEF Other, Junk
    <3> QED BY <3>1
  <2>3. Len(wire) \in Nat
    BY WholeFacts DEF FrameLength
  <2> QED BY <2>1, <2>2, <2>3 DEF Disturbed
<1> QED BY <1>1, <1>2, WholeFacts

(* The end of the message, whoever of the main loop and the handler notices *)
(* it, is when it is queued.                                                *)
LEMMA KeepsStep ==
  ASSUME IInv, HeardInv, [Next]_vars
  PROVE  KeepsFrames
<1> SUFFICES ASSUME NEW n \in 1 .. frames, FrameOver(n), heardAlone
             PROVE  Queued(n)
  BY DEF KeepsFrames
<1>1. line = "gap" /\ line' # "gap" /\ wire = Whole(n) /\ n \in Nat
  BY DEF FrameOver, IInv, TypeOK
<1>2. j1708State = "Passive" /\ ~txEmptyIE /\ Received = Whole(n) /\ Received # <<>>
  BY <1>1, AloneReceived
<1>3. QueueReceived(Entry(Received)) => Queued(n)
  BY <1>1, <1>2, WholeEntry DEF QueueReceived, Queued
<1>4. CASE Retransmit \/ TransmitNext
  <2>1. HandleDelayed
    BY <1>4 DEF Retransmit, TransmitNext, GetNextJ1708TxMessage, StartJ1708Transmit
  <2> QED BY <1>2, <1>3, <2>1 DEF HandleDelayed
<1>5. CASE TimeoutIdle
  <2>1. MessageEnds(Received, <<>>)
    BY <1>5 DEF TimeoutIdle
  <2> QED BY <1>2, <1>3, <2>1 DEF MessageEnds
<1>6. CASE OwnUnit \/ OtherUnit \/ DisturbedUnit \/ Fragment
  BY <1>1, <1>6, UnitsHeard DEF UnitHeard
<1>7. CASE OtherStarts
  BY <1>1, <1>7 DEF OtherStarts, IInv, TransmissionInv
<1>8. CASE Silence \/ TxEmptyEarly \/ TxEmpty
  BY <1>1, <1>2, <1>8 DEF Silence, CutOff, TxEmptyEarly, LastUnit, TxEmpty
<1>9. CASE \/ UNCHANGED vars
           \/ \E len \in Lengths : J1708AddFormattedTxPacket(len)
           \/ EnableJ1708TxConfirm \/ ProcessJ1708RecvPacket \/ AdvanceTail
           \/ J1708ResetDefaultPrefs
  BY <1>1, <1>9 DEF vars, busVars, J1708AddFormattedTxPacket, GetFreeJ1708TxBuffers, EnableJ1708TxConfirm,
                    ProcessJ1708RecvPacket, GetNextJ1708RxMessage, AdvanceTail, J1708ResetDefaultPrefs
<1> QED BY <1>4, <1>5, <1>6, <1>7, <1>8, <1>9 DEF Next, MainLoop, Bus, Handler

-------------------------------------------------------------------------------
(* How the messages of other devices follow one another: the one on the bus *)
(* goes on, is over, or a new one starts.                                   *)
FrameMove ==
  /\ frames <= frames'
  /\ frame' # NoFrame =>
       \/ frame # NoFrame /\ frame'.n = frame.n /\ frame.at <= frame'.at /\ frames' = frames
       \/ frame'.n = frames' /\ frames < frames'

LEMMA FrameSteps ==
  ASSUME IInv, HeardInv, [Next]_vars
  PROVE  FrameMove
<1> USE DEF IInv
<1>0. frames \in Nat /\ frame.at \in Nat
  BY FrameFacts, BoundAssumption DEF TypeOK, FrameLength
<1>1. CASE OtherStarts
  <2>1. frames' = frames + 1 /\ frame' = [n |-> frames + 1, at |-> 0]
    BY <1>1 DEF OtherStarts
  <2> QED BY <1>0, <2>1 DEF FrameMove
<1>2. CASE OwnUnit \/ OtherUnit \/ DisturbedUnit \/ Fragment
  <2>1. /\ frame' = NoFrame \/ (frame # NoFrame /\ frame' = Continues)
        /\ frames' = frames
    BY <1>2, UnitsHeard DEF UnitHeard
  <2>2. frame \in Frames
    BY DEF TypeOK, Frames
  <2>3. ASSUME frame.at + 1 # FrameLength, frame' = Continues
        PROVE  frame'.n = frame.n /\ frame'.at = frame.at + 1
    BY <2>2, <2>3 DEF Continues, Frames
  <2>4. frame.at + 1 = FrameLength /\ frame' = Continues => frame' = NoFrame
    BY DEF Continues
  <2> QED BY <1>0, <2>1, <2>3, <2>4 DEF FrameMove
<1>3. CASE UNCHANGED <<frame, frames>>
  BY <1>0, <1>3 DEF FrameMove
<1>4. CASE \/ \E len \in Lengths : J1708AddFormattedTxPacket(len)
           \/ EnableJ1708TxConfirm \/ J1708ResetDefaultPrefs
           \/ ProcessJ1708RecvPacket \/ AdvanceTail \/ UNCHANGED vars
  BY <1>3, <1>4 DEF vars, busVars, boundVars, J1708AddFormattedTxPacket, GetFreeJ1708TxBuffers, EnableJ1708TxConfirm,
                    J1708ResetDefaultPrefs, ProcessJ1708RecvPacket, GetNextJ1708RxMessage, AdvanceTail
<1>5. CASE Retransmit \/ TransmitNext \/ Silence \/ TxEmptyEarly \/ TxEmpty \/ TimeoutIdle
  BY <1>3, <1>5 DEF busVars, boundVars, Retransmit, TransmitNext, GetNextJ1708TxMessage, StartJ1708Transmit, Silence,
                    TxEmptyEarly, LastUnit, TxEmpty, TimeoutIdle
<1> QED BY <1>1, <1>2, <1>4, <1>5 DEF Next, MainLoop, Bus, Handler

LEMMA FrameNumbers ==
  ASSUME TypeOK
  PROVE  frames \in Nat /\ frame \in Frames /\ frame.n \in Nat /\ frame.at \in Nat
<1>1. frames \in 0 .. MaxFrames /\ frame \in Frames
  BY DEF TypeOK, Frames
<1> QED BY <1>1, BoundAssumption DEF Frames, FrameLength

(* What is past stays past. *)
LEMMA PastStays ==
  ASSUME TypeOK, TypeOK', FrameMove
  PROVE  /\ \A u \in Units : Past(u) => Past(u)'
         /\ \A n \in Nat : OverBy(n) => OverBy(n)'
<1>1. frames \in Nat /\ frame.at \in Nat /\ frame.n \in Nat
  BY FrameNumbers
<1>2. frames' \in Nat /\ frame'.at \in Nat /\ frame'.n \in Nat
  <2>1. frames' \in 0 .. MaxFrames /\ frame' \in Frames
    BY DEF TypeOK, Frames
  <2> QED BY <2>1, BoundAssumption DEF Frames, FrameLength
<1>3. ASSUME NEW u \in Units, Past(u) PROVE Past(u)'
  <2>1. u.n \in Nat /\ u.i \in Nat
    BY DEF Units, FrameLength
  <2> QED BY <1>1, <1>2, <1>3, <2>1 DEF Past, FrameMove
<1>4. ASSUME NEW n \in Nat, OverBy(n) PROVE OverBy(n)'
  BY <1>1, <1>2, <1>4 DEF OverBy, FrameMove
<1> QED BY <1>3, <1>4

(* What the port holds after a step: the same, nothing, what came after the *)
(* message that was taken, or one unit more.                                *)
PortMove ==
  \/ Received' = Received /\ (j1708State' = "Passive" => j1708State = "Passive")
  \/ Received' = <<>>
  \/ Received' = rxBuffer /\ j1708State = "Passive"
  \/ \E u \in Units : UnitHeard(u)

LEMMA PortSteps ==
  ASSUME IInv, HeardInv, [Next]_vars
  PROVE  PortMove
<1> USE DEF IInv
<1>1. CASE UNCHANGED <<stateVars, portVars>>
  BY <1>1 DEF PortMove, Received, stateVars, portVars
<1>2. CASE \/ \E len \in Lengths : J1708AddFormattedTxPacket(len)
           \/ EnableJ1708TxConfirm \/ ProcessJ1708RecvPacket \/ AdvanceTail \/ UNCHANGED vars
           \/ Silence \/ OtherStarts
  BY <1>1, <1>2 DEF vars, J1708AddFormattedTxPacket, GetFreeJ1708TxBuffers, EnableJ1708TxConfirm,
                    ProcessJ1708RecvPacket, GetNextJ1708RxMessage, AdvanceTail, Silence, OtherStarts
<1>3. CASE J1708ResetDefaultPrefs
  <2>1. /\ j1708State' = IF rxQueue # <<>> \/ rxBuffer # <<>> THEN "IgnoreRxData"
                         ELSE IF j1708State = "Transmitting" THEN "Passive" ELSE j1708State
        /\ UNCHANGED <<rxQueue, rxBuffer>>
    BY <1>3 DEF J1708ResetDefaultPrefs
  <2>2. CASE rxQueue # <<>> \/ rxBuffer # <<>>
    BY <2>1, <2>2 DEF PortMove, Received
  <2>3. CASE rxQueue = <<>> /\ rxBuffer = <<>>
    <3>1. <<>> \o <<>> = <<>>
      OBVIOUS
    <3> QED BY <2>1, <2>3, <3>1 DEF PortMove, Received
  <2> QED BY <2>2, <2>3
<1>4. CASE Retransmit \/ TransmitNext
  <2>1. ClearReceived
    BY <1>4 DEF Retransmit, TransmitNext, GetNextJ1708TxMessage, StartJ1708Transmit, HandleDelayed
  <2> QED BY <2>1, ClearedEmpty DEF PortMove
<1>5. CASE OwnUnit \/ OtherUnit \/ DisturbedUnit \/ Fragment
  BY <1>5, UnitsHeard DEF PortMove
<1>6. CASE TxEmptyEarly
  <2>1. ClearReceived
    BY <1>6 DEF TxEmptyEarly, LastUnit, TransmissionEnds
  <2> QED BY <2>1, ClearedEmpty DEF PortMove
<1>7. CASE TxEmpty
  <2>1. MessageEnds(rxQueue, rxBuffer)
    BY <1>7 DEF TxEmpty
  <2>2. Dropped \/ Confirmed \/ Taken(rxQueue, rxBuffer)
    BY <2>1, EndCases DEF TypeOK
  <2> QED BY <2>2 DEF Dropped, Confirmed, Taken, PortMove
<1>8. CASE TimeoutIdle
  <2>1. MessageEnds(Received, <<>>)
    BY <1>8 DEF TimeoutIdle
  <2>2. Received \in Seq(Units) /\ <<>> \in Seq(Units)
    BY ReceivedTypes
  <2>3. Dropped \/ Confirmed \/ Taken(Received, <<>>)
    BY <2>1, <2>2, EndCases
  <2> QED BY <2>3 DEF Dropped, Confirmed, Taken, PortMove
<1> QED
  BY <1>2, <1>3, <1>4, <1>5, <1>6, <1>7, <1>8 DEF Next, MainLoop, Bus, Handler

(* A sequence in the order of the bus stays in that order, also without its *)
(* beginning, and with the unit that is heard.                              *)
LEMMA OrderStays ==
  ASSUME TypeOK, TypeOK', FrameMove, NEW s \in Seq(Units), InBusOrder(s)
  PROVE  InBusOrder(s)'
<1>1. \A i \in 1 .. Len(s) : s[i] \in Units
  OBVIOUS
<1>2. \A i \in 1 .. Len(s) : Past(s[i]) => Past(s[i])'
  BY <1>1, PastStays
<1> QED BY <1>2 DEF InBusOrder, Before

LEMMA OrderOfRest ==
  ASSUME NEW s \in Seq(Units), NEW t \in Seq(Units), InBusOrder(s \o t)
  PROVE  InBusOrder(t)
<1>1. /\ Len(s) \in Nat /\ Len(t) \in Nat /\ Len(s \o t) = Len(s) + Len(t)
      /\ \A i \in 1 .. Len(t) : (s \o t)[Len(s) + i] = t[i]
  BY ConcatProperties, LenProperties
<1> DEFINE w == s \o t
<1> HIDE DEF w
<1>2. /\ InBusOrder(w) /\ Len(w) = Len(s) + Len(t)
      /\ \A i \in 1 .. Len(t) : w[Len(s) + i] = t[i]
  BY <1>1 DEF w
<1>3. \A i \in 1 .. Len(t) : Len(s) + i \in 1 .. Len(w)
  BY <1>1, <1>2
<1>4. \A i \in 1 .. Len(t) : t[i].of = "other" => Past(t[i])
  BY <1>2, <1>3 DEF InBusOrder
<1>5. ASSUME NEW i \in 1 .. Len(t), NEW j \in 1 .. Len(t), i < j,
             t[i].of = "other", t[j].of = "other"
      PROVE  Before(t[i], t[j])
  <2>1. Len(s) + i < Len(s) + j
    BY <1>1, <1>5
  <2> QED BY <1>2, <1>3, <1>5, <2>1 DEF InBusOrder
<1> QED BY <1>4, <1>5 DEF InBusOrder

LEMMA OrderWithNext ==
  ASSUME TypeOK, TypeOK', FrameMove, UnitsInv, NEW s \in Seq(Units), InBusOrder(s),
         NEW u \in Units, UnitHeard(u)
  PROVE  InBusOrder(Append(s, u))'
<1>1. InBusOrder(s)'
  BY OrderStays
<1>2. /\ Len(s) \in Nat /\ Append(s, u) \in Seq(Units) /\ Len(Append(s, u)) = Len(s) + 1
      /\ \A i \in 1 .. Len(s) : Append(s, u)[i] = s[i] /\ s[i] \in Units
      /\ Append(s, u)[Len(s) + 1] = u
  BY AppendProperties, LenProperties
<1> DEFINE w == Append(s, u)
<1> HIDE DEF w
<1>3. ASSUME u.of = "other"
      PROVE  /\ Past(u)'
             /\ \A i \in 1 .. Len(s) : s[i].of = "other" => Before(s[i], u)
  <2>1. /\ frame # NoFrame /\ u = Other(frame.n, frame.at + 1) /\ frame' = Continues
        /\ frames' = frames /\ frame.n = frames
    BY <1>3 DEF UnitHeard, UnitsInv
  <2>2. u.n = frame.n /\ u.i = frame.at + 1
    BY <2>1 DEF Other
  <2>3. frame \in Frames /\ frame.n \in Nat /\ frame.at \in Nat
    BY FrameNumbers
  <2>4. frame' # NoFrame => frame'.n = frame.n /\ frame'.at = frame.at + 1
    BY <2>1, <2>3 DEF Continues, Frames
  <2>5. Past(u)'
    BY <2>1, <2>2, <2>3, <2>4 DEF Past
  <2>6. \A i \in 1 .. Len(s) : s[i].of = "other" => Before(s[i], u)
    <3> SUFFICES ASSUME NEW i \in 1 .. Len(s), s[i].of = "other"
                 PROVE  Before(s[i], u)
      OBVIOUS
    <3>1. s[i].n \in Nat /\ s[i].i \in Nat
      BY <1>2 DEF Units, FrameLength
    <3>2. Past(s[i])
      BY DEF InBusOrder
    <3> QED BY <2>1, <2>2, <2>3, <3>1, <3>2 DEF Past, Before
  <2> QED BY <2>5, <2>6
<1>4. InBusOrder(w)'
  <2>1. \A i \in 1 .. Len(w) : w[i].of = "other" => Past(w[i])'
    <3> SUFFICES ASSUME NEW i \in 1 .. Len(w), w[i].of = "other"
                 PROVE  Past(w[i])'
      OBVIOUS
    <3>1. CASE i = Len(s) + 1
      BY <1>2, <1>3, <3>1 DEF w
    <3>2. CASE i # Len(s) + 1
      <4>1. i \in 1 .. Len(s) /\ w[i] = s[i]
        BY <1>2, <3>2 DEF w
      <4> QED BY <1>1, <4>1 DEF InBusOrder
    <3> QED BY <3>1, <3>2
  <2>2. \A i, j \in 1 .. Len(w) :
          i < j /\ w[i].of = "other" /\ w[j].of = "other" => Before(w[i], w[j])
    <3> SUFFICES ASSUME NEW i \in 1 .. Len(w), NEW j \in 1 .. Len(w), i < j,
                        w[i].of = "other", w[j].of = "other"
                 PROVE  Before(w[i], w[j])
      OBVIOUS
    <3>1. i \in 1 .. Len(s) /\ w[i] = s[i]
      BY <1>2 DEF w
    <3>2. CASE j = Len(s) + 1
      <4>1. w[j] = u
        BY <1>2, <3>2 DEF w
      <4> QED BY <1>3, <3>1, <4>1
    <3>3. CASE j # Len(s) + 1
      <4>1. j \in 1 .. Len(s) /\ w[j] = s[j]
        BY <1>2, <3>3 DEF w
      <4> QED BY <3>1, <4>1 DEF InBusOrder
    <3> QED BY <3>2, <3>3
  <2> QED BY <2>1, <2>2 DEF InBusOrder, Before
<1> QED BY <1>4 DEF w

(***************************************************************************)
(* What the port holds is in the order of the bus, and while nobody        *)
(* transmits nothing of it is the firmware's own.                          *)
(***************************************************************************)
LEMMA UnitsStep ==
  ASSUME IInv, TypeOK', FrameMove, PortMove, UnitsInv
  PROVE  UnitsInv'
<1> USE DEF IInv
<1>1. frame' # NoFrame => frame'.n = frames'
  BY DEF UnitsInv, FrameMove
<1>2. /\ Received \in Seq(Units) /\ rxQueue \in Seq(Units) /\ rxBuffer \in Seq(Units)
      /\ InBusOrder(Received)
  BY ReceivedTypes DEF TypeOK, UnitsInv
<1> PICK s \in Seq(Units) : s = Received
  BY <1>2
<1>3. /\ InBusOrder(s)
      /\ j1708State = "Passive" => \A i \in 1 .. Len(s) : s[i].of # "own"
  BY DEF UnitsInv
<1>4. ASSUME NEW t \in Seq(Units), Received' = t, InBusOrder(t)',
             j1708State' = "Passive" => \A i \in 1 .. Len(t) : t[i].of # "own"
      PROVE  UnitsInv'
  <2>1. InBusOrder(Received)'
    BY <1>4 DEF InBusOrder, Before
  <2> QED BY <1>1, <1>4, <2>1 DEF UnitsInv
<1>5. CASE Received' = Received /\ (j1708State' = "Passive" => j1708State = "Passive")
  BY <1>3, <1>4, <1>5, OrderStays
<1>6. CASE Received' = <<>>
  <2>1. <<>> \in Seq(Units) /\ Len(<<>>) = 0
    OBVIOUS
  <2>2. InBusOrder(<<>>)'
    BY <2>1 DEF InBusOrder
  <2>3. \A i \in 1 .. Len(<<>>) : <<>>[i].of # "own"
    BY <2>1
  <2> QED BY <1>4, <1>6, <2>1, <2>2, <2>3
<1>7. CASE Received' = rxBuffer /\ j1708State = "Passive"
  <2> PICK q \in Seq(Units), t \in Seq(Units) : q = rxQueue /\ t = rxBuffer
    BY <1>2
  <2>1. q \o t = s
    BY DEF Received
  <2>2. InBusOrder(t)
    BY <1>3, <2>1, OrderOfRest
  <2>3. InBusOrder(t)'
    BY <2>2, OrderStays
  <2>4. \A i \in 1 .. Len(t) : t[i].of # "own"
    <3>0. /\ Len(q) \in Nat /\ Len(t) \in Nat /\ Len(q \o t) = Len(q) + Len(t)
          /\ \A i \in 1 .. Len(t) : (q \o t)[Len(q) + i] = t[i]
      BY ConcatProperties, LenProperties
    <3>1. /\ Len(q) \in Nat /\ Len(t) \in Nat /\ Len(s) = Len(q) + Len(t)
          /\ \A i \in 1 .. Len(t) : s[Len(q) + i] = t[i]
      BY <2>1, <3>0
    <3>2. \A i \in 1 .. Len(t) : Len(q) + i \in 1 .. Len(s)
      BY <3>1
    <3> QED BY <1>3, <1>7, <3>1, <3>2
  <2> QED BY <1>4, <1>7, <2>3, <2>4
<1>8. ASSUME NEW u \in Units, UnitHeard(u), Received' = Append(Received, u)
      PROVE  UnitsInv'
  <2> DEFINE t == Append(s, u)
  <2>1. t \in Seq(Units) /\ Received' = t
    BY <1>8, AppendProperties, LenProperties
  <2>2. InBusOrder(t)'
    BY <1>3, <1>8, OrderWithNext
  <2>3. ASSUME j1708State' = "Passive" PROVE \A i \in 1 .. Len(t) : t[i].of # "own"
    <3>1. j1708State = "Passive" /\ ~sending
      BY <1>8, <2>3 DEF UnitHeard, HearsUnit, TransmissionInv
    <3>2. u.of # "own"
      BY <1>8, <3>1 DEF UnitHeard
    <3>3. \A i \in 1 .. Len(s) : s[i].of # "own"
      BY <1>3, <3>1
    <3>4. /\ Len(t) = Len(s) + 1 /\ Len(s) \in Nat /\ t[Len(s) + 1] = u
          /\ \A i \in 1 .. Len(s) : t[i] = s[i]
      BY AppendProperties, LenProperties
    <3> QED BY <3>2, <3>3, <3>4
  <2> HIDE DEF t
  <2> QED BY <1>4, <2>1, <2>2, <2>3
<1>9. ASSUME NEW u \in Units, UnitHeard(u)
      PROVE  UnitsInv'
  BY <1>6, <1>8, <1>9 DEF UnitHeard, HearsUnit
<1> QED BY <1>5, <1>6, <1>7, <1>9 DEF PortMove

-------------------------------------------------------------------------------
(***************************************************************************)
(* The firmware's messages are numbered in the order they are accepted,    *)
(* and the one in hand is older than those that wait.                      *)
(***************************************************************************)
InHand == j1708State = "Transmitting" \/ j1708RetransmitNeeded

MessageMove ==
  \/ UNCHANGED <<j1708TxQueue, j1708CurTxMessage, accepted>> /\ (InHand' => InHand)
  \/ j1708TxQueue' = <<>> /\ UNCHANGED <<j1708CurTxMessage, accepted>> /\ ~InHand'
  \/ /\ accepted' = accepted + 1 /\ UNCHANGED j1708CurTxMessage /\ (InHand' => InHand)
     /\ \E m \in Messages : m.n = accepted + 1 /\ j1708TxQueue' = Append(j1708TxQueue, m)
  \/ /\ j1708TxQueue # <<>> /\ UNCHANGED accepted
     /\ j1708CurTxMessage' = Head(j1708TxQueue) /\ j1708TxQueue' = Tail(j1708TxQueue)

LEMMA MessageSteps ==
  ASSUME IInv, HeardInv, [Next]_vars
  PROVE  MessageMove
<1> USE DEF IInv
<1>1. ASSUME NEW len \in Lengths, J1708AddFormattedTxPacket(len) PROVE MessageMove
  <2> DEFINE m == [n |-> accepted + 1, len |-> len, txcnfrm |-> j1708TransmitConfirm]
  <2>1. /\ accepted < MaxAccepted /\ accepted' = accepted + 1
        /\ j1708TxQueue' = Append(j1708TxQueue, m)
        /\ UNCHANGED <<j1708CurTxMessage, j1708State, j1708RetransmitNeeded>>
    BY <1>1 DEF J1708AddFormattedTxPacket, GetFreeJ1708TxBuffers, stateVars
  <2>2. m.n = accepted + 1 /\ m \in Messages
    BY <2>1 DEF Messages, TypeOK
  <2> HIDE DEF m
  <2> QED BY <2>1, <2>2 DEF MessageMove, InHand
<1>2. CASE J1708ResetDefaultPrefs
  <2>1. /\ j1708TxQueue' = <<>> /\ UNCHANGED <<j1708CurTxMessage, accepted>>
        /\ j1708RetransmitNeeded' = FALSE
        /\ j1708State' = IF rxQueue # <<>> \/ rxBuffer # <<>> THEN "IgnoreRxData"
                         ELSE IF j1708State = "Transmitting" THEN "Passive" ELSE j1708State
    BY <1>2 DEF J1708ResetDefaultPrefs
  <2> QED BY <2>1 DEF MessageMove, InHand
<1>3. CASE UNCHANGED <<j1708TxQueue, stateVars, accepted>>
  BY <1>3 DEF MessageMove, InHand, stateVars
<1>4. CASE \/ EnableJ1708TxConfirm \/ ProcessJ1708RecvPacket \/ AdvanceTail \/ UNCHANGED vars
           \/ Silence \/ OtherStarts
  BY <1>3, <1>4 DEF vars, queueVars, boundVars, EnableJ1708TxConfirm,
                    ProcessJ1708RecvPacket, GetNextJ1708RxMessage, AdvanceTail, Silence, OtherStarts
<1>5. CASE Retransmit
  BY <1>5 DEF Retransmit, StartJ1708Transmit, boundVars, MessageMove, InHand
<1>6. CASE TransmitNext
  BY <1>6 DEF TransmitNext, GetNextJ1708TxMessage, StartJ1708Transmit, boundVars, MessageMove
<1>7. CASE OwnUnit \/ OtherUnit \/ DisturbedUnit \/ Fragment
  BY <1>7, UnitsHeard DEF UnitHeard, HearsUnit, queueVars, MessageMove, InHand
<1>8. ASSUME NEW queued, NEW rest, Dropped \/ Confirmed \/ Taken(queued, rest)
      PROVE  InHand' => InHand
  BY <1>8 DEF Dropped, Confirmed, Taken, InHand
<1>9. CASE TxEmptyEarly
  <2>1. /\ sending /\ \E heard : TransmissionEnds(heard)
        /\ UNCHANGED <<j1708TxQueue, j1708CurTxMessage, accepted>>
    BY <1>9 DEF TxEmptyEarly, LastUnit
  <2>2. j1708State = "Transmitting"
    BY <2>1 DEF TransmissionInv
  <2> QED BY <2>1, <2>2 DEF MessageMove, InHand
<1>10. CASE TxEmpty
  <2>1. MessageEnds(rxQueue, rxBuffer) /\ UNCHANGED <<j1708TxQueue, j1708CurTxMessage, accepted>>
    BY <1>10 DEF TxEmpty, boundVars
  <2>2. Dropped \/ Confirmed \/ Taken(rxQueue, rxBuffer)
    BY <2>1, EndCases DEF TypeOK
  <2> QED BY <1>8, <2>1, <2>2 DEF MessageMove
<1>11. CASE TimeoutIdle
  <2>1. MessageEnds(Received, <<>>) /\ UNCHANGED <<j1708TxQueue, j1708CurTxMessage, accepted>>
    BY <1>11 DEF TimeoutIdle, boundVars
  <2>2. Received \in Seq(Units) /\ <<>> \in Seq(Units)
    BY ReceivedTypes
  <2>3. Dropped \/ Confirmed \/ Taken(Received, <<>>)
    BY <2>1, <2>2, EndCases
  <2> QED BY <1>8, <2>1, <2>3 DEF MessageMove
<1> QED
  BY <1>1, <1>2, <1>4, <1>5, <1>6, <1>7, <1>9, <1>10, <1>11 DEF Next, MainLoop, Bus, Handler

LEMMA NumbersStep ==
  ASSUME TypeOK, NumbersInv, MessageMove
  PROVE  NumbersInv'
<1>1. /\ j1708TxQueue \in Seq(Messages) /\ Len(j1708TxQueue) \in Nat
      /\ accepted \in Nat /\ j1708CurTxMessage.n \in Nat
      /\ \A i \in 1 .. Len(j1708TxQueue) : j1708TxQueue[i].n \in Nat
  <2>1. accepted \in 0 .. MaxAccepted /\ j1708TxQueue \in Seq(Messages)
        /\ j1708CurTxMessage \in Messages \union {NoMessage}
    BY DEF TypeOK
  <2>2. \A i \in 1 .. Len(j1708TxQueue) : j1708TxQueue[i] \in Messages
    BY <2>1
  <2> QED BY <2>1, <2>2, MessageLength, BoundAssumption
<1>2. /\ j1708CurTxMessage.n <= accepted
      /\ \A i \in 1 .. Len(j1708TxQueue) :
           j1708CurTxMessage.n < j1708TxQueue[i].n /\ j1708TxQueue[i].n <= accepted
      /\ \A i, j \in 1 .. Len(j1708TxQueue) : i < j => j1708TxQueue[i].n < j1708TxQueue[j].n
  BY DEF NumbersInv
<1>3. CASE UNCHANGED <<j1708TxQueue, j1708CurTxMessage, accepted>>
  BY <1>3 DEF NumbersInv
<1>4. CASE j1708TxQueue' = <<>> /\ UNCHANGED <<j1708CurTxMessage, accepted>>
  BY <1>2, <1>4 DEF NumbersInv
<1>5. ASSUME NEW m \in Messages, m.n = accepted + 1, accepted' = accepted + 1,
             UNCHANGED j1708CurTxMessage, j1708TxQueue' = Append(j1708TxQueue, m)
      PROVE  NumbersInv'
  <2>1. /\ Len(j1708TxQueue') = Len(j1708TxQueue) + 1
        /\ \A i \in 1 .. Len(j1708TxQueue) : j1708TxQueue'[i] = j1708TxQueue[i]
        /\ j1708TxQueue'[Len(j1708TxQueue) + 1] = m
    BY <1>1, <1>5, AppendProperties, LenProperties
  <2> QED BY <1>1, <1>2, <1>5, <2>1 DEF NumbersInv
<1>6. CASE /\ j1708TxQueue # <<>> /\ UNCHANGED accepted
           /\ j1708CurTxMessage' = Head(j1708TxQueue) /\ j1708TxQueue' = Tail(j1708TxQueue)
  <2>1. /\ j1708CurTxMessage' = j1708TxQueue[1] /\ Len(j1708TxQueue) \in Nat \ {0}
        /\ Len(j1708TxQueue') = Len(j1708TxQueue) - 1
        /\ \A i \in 1 .. Len(j1708TxQueue') : j1708TxQueue'[i] = j1708TxQueue[i + 1]
    BY <1>1, <1>6, HeadTailProperties, LenProperties
  <2>2. 1 \in 1 .. Len(j1708TxQueue)
        /\ \A i \in 1 .. Len(j1708TxQueue') : i + 1 \in 1 .. Len(j1708TxQueue) /\ 1 < i + 1
    BY <2>1
  <2> QED BY <1>2, <1>6, <2>1, <2>2 DEF NumbersInv
<1> QED BY <1>3, <1>4, <1>5, <1>6 DEF MessageMove

-------------------------------------------------------------------------------
(***************************************************************************)
(* What was superseded stays so: whatever is queued from now on is newer.  *)
(***************************************************************************)
LEMMA LaterStays ==
  ASSUME TypeOK, PortMove, NEW n \in Nat, OverBy(n), Later(Received, n)
  PROVE  Later(Received', n)
<1>1. /\ Received \in Seq(Units) /\ rxQueue \in Seq(Units) /\ rxBuffer \in Seq(Units)
  BY ReceivedTypes DEF TypeOK
<1> PICK s \in Seq(Units), q \in Seq(Units), b \in Seq(Units) :
           s = Received /\ q = rxQueue /\ b = rxBuffer
  BY <1>1
<1>2. \A i \in 1 .. Len(s) : s[i].of = "other" => n < s[i].n
  BY DEF Later
<1>3. CASE Received' = Received
  BY <1>3
<1>4. CASE Received' = <<>>
  BY <1>4 DEF Later
<1>5. CASE Received' = rxBuffer
  <2>1. q \o b = s
    BY DEF Received
  <2>2. /\ Len(q) \in Nat /\ Len(b) \in Nat /\ Len(q \o b) = Len(q) + Len(b)
        /\ \A i \in 1 .. Len(b) : (q \o b)[Len(q) + i] = b[i]
    BY ConcatProperties, LenProperties
  <2>3. \A i \in 1 .. Len(b) : Len(q) + i \in 1 .. Len(s) /\ s[Len(q) + i] = b[i]
    <3>1. /\ Len(s) = Len(q) + Len(b)
          /\ \A i \in 1 .. Len(b) : s[Len(q) + i] = b[i]
      BY <2>1, <2>2
    <3>2. Len(q) \in Nat /\ Len(b) \in Nat
      BY <2>2
    <3>3. \A i \in 1 .. Len(b) : Len(q) + i \in 1 .. Len(q) + Len(b)
      BY <3>2
    <3> QED BY <3>1, <3>3
  <2>4. \A i \in 1 .. Len(b) : b[i].of = "other" => n < b[i].n
    BY <1>2, <2>3
  <2> QED BY <1>5, <2>4 DEF Later
<1>6. ASSUME NEW u \in Units, UnitHeard(u), Received' = Append(Received, u)
      PROVE  Later(Received', n)
  <2> DEFINE t == Append(s, u)
  <2>1. /\ Len(t) = Len(s) + 1 /\ Len(s) \in Nat /\ t[Len(s) + 1] = u
        /\ \A i \in 1 .. Len(s) : t[i] = s[i]
    BY AppendProperties, LenProperties
  <2>2. u.of = "other" => n < u.n
    BY <1>6 DEF UnitHeard, Other, OverBy
  <2> HIDE DEF t
  <2>3. \A i \in 1 .. Len(t) : t[i].of = "other" => n < t[i].n
    BY <1>2, <2>1, <2>2
  <2> QED BY <1>6, <2>3 DEF Later, t
<1> QED BY <1>3, <1>4, <1>5, <1>6 DEF PortMove, UnitHeard, HearsUnit

LEMMA SupersededStays ==
  ASSUME TypeOK, TypeOK', FrameMove, PortMove, MessageMove, NumbersInv,
         NEW kind, NEW n \in Nat, Superseded(kind, n)
  PROVE  Superseded(kind, n)'
<1>1. ASSUME kind = "frame" PROVE OverBy(n)' /\ Later(Received, n)'
  <2>1. OverBy(n) /\ Later(Received, n)
    BY <1>1 DEF Superseded
  <2>2. OverBy(n)'
    BY <2>1, PastStays
  <2>3. Later(Received', n)
    BY <2>1, LaterStays
  <2> QED BY <2>2, <2>3 DEF Later
<1>2. ASSUME kind = "confirm"
      PROVE  n <= j1708CurTxMessage'.n /\ (InHand' => n < j1708CurTxMessage'.n)
  <2>1. n <= j1708CurTxMessage.n /\ (InHand => n < j1708CurTxMessage.n)
    BY <1>2 DEF Superseded, InHand
  <2>2. CASE UNCHANGED j1708CurTxMessage /\ (InHand' => InHand)
    BY <2>1, <2>2
  <2>3. CASE j1708TxQueue # <<>> /\ j1708CurTxMessage' = Head(j1708TxQueue)
    <3>1. j1708TxQueue \in Seq(Messages)
      BY DEF TypeOK
    <3>2. /\ j1708CurTxMessage' = j1708TxQueue[1] /\ 1 \in 1 .. Len(j1708TxQueue)
          /\ j1708CurTxMessage' \in Messages
      BY <2>3, <3>1, HeadTailProperties, LenProperties
    <3>3. j1708CurTxMessage.n < j1708CurTxMessage'.n
      BY <3>2 DEF NumbersInv
    <3>4. j1708CurTxMessage.n \in Nat /\ j1708CurTxMessage'.n \in Nat
      BY <3>2, MessageLength DEF TypeOK
    <3> QED BY <2>1, <3>3, <3>4
  <2> QED BY <2>2, <2>3 DEF MessageMove
<1> QED BY <1>1, <1>2 DEF Superseded, InHand

(* What is newly queued for the host. *)
NewEntry(e) ==
  /\ e \in Entries /\ e.kind # "echo"
  /\ \A n \in Nat : Superseded(e.kind, n) => e.kind = "damaged" \/ n < e.n

(* The confirmation of the transmission that has just ended. *)
LEMMA ConfirmIsNew ==
  ASSUME TypeOK, Confirmed, UNCHANGED j1708CurTxMessage,
         NEW e, e = [kind |-> "confirm", n |-> j1708CurTxMessage.n]
  PROVE  NewEntry(e) /\ Superseded(e.kind, e.n)'
<1>1. j1708CurTxMessage.n \in Nat
  BY MessageLength DEF TypeOK
<1>2. e \in Entries /\ e.kind = "confirm" /\ e.n = j1708CurTxMessage.n
  BY <1>1 DEF Entries
<1>3. NewEntry(e)
  BY <1>2 DEF NewEntry, Superseded, Confirmed
<1>4. Superseded("confirm", j1708CurTxMessage.n)'
  BY <1>1 DEF Superseded, Confirmed
<1>5. ~InHand' /\ e.n <= j1708CurTxMessage'.n
  BY <1>1, <1>2 DEF InHand, Confirmed
<1> QED BY <1>2, <1>3, <1>5 DEF Superseded, InHand

(* What the port had for a message of another device.  It is none of the    *)
(* firmware's own, and as a whole message it is later than any before.      *)
Queues(queued, rest) ==
  /\ j1708State = "Passive" /\ queued # <<>>
  /\ Received = queued \o rest /\ Received' = rest
  /\ QueueReceived(Entry(queued))

LEMMA MessageIsNew ==
  ASSUME TypeOK, TypeOK', FrameMove, UnitsInv,
         NEW queued \in Seq(Units), NEW rest \in Seq(Units), Queues(queued, rest),
         NEW e, e = Entry(queued)
  PROVE  NewEntry(e) /\ Superseded(e.kind, e.n)'
<1>1. e \in Entries
  BY EntryType DEF Queues
<1> DEFINE s == queued \o rest
<1>2. /\ s = Received /\ Received' = rest /\ j1708State = "Passive" /\ queued # <<>>
  BY DEF Queues
<1>3. /\ s \in Seq(Units) /\ Len(queued) \in Nat /\ Len(rest) \in Nat
      /\ Len(s) = Len(queued) + Len(rest)
      /\ \A i \in 1 .. Len(queued) : s[i] = queued[i]
      /\ \A i \in 1 .. Len(rest) : s[Len(queued) + i] = rest[i]
  BY ConcatProperties, LenProperties
<1> HIDE DEF s
<1>4. /\ Len(queued) \in Nat \ {0} /\ Head(queued) = queued[1]
      /\ 1 \in 1 .. Len(queued) /\ 1 \in 1 .. Len(s) /\ s[1] = queued[1]
  BY <1>2, <1>3, HeadTailProperties, LenProperties
<1>5. InBusOrder(s) /\ \A i \in 1 .. Len(s) : s[i].of # "own"
  BY <1>2 DEF UnitsInv
<1>6. queued # Echo(j1708CurTxMessage)
  <2>1. 1 \in 1 .. j1708CurTxMessage.len
    <3>1. j1708CurTxMessage.len \in 2 .. 3
      BY MessageLength DEF TypeOK, FrameLength
    <3> QED BY <3>1
  <2>2. Echo(j1708CurTxMessage)[1].of = "own"
    BY <2>1 DEF Echo, Own
  <2> QED BY <1>4, <1>5, <2>2
<1>7. ASSUME queued = Whole(e.n)
      PROVE  /\ \A n \in Nat : Superseded("frame", n) => n < e.n
             /\ Superseded("frame", e.n)'
  <2>1. e.n \in Nat
    BY <1>1 DEF Entries
  <2>2. /\ Len(queued) = 3 /\ \A i \in 1 .. 3 : queued[i] = Other(e.n, i)
    BY <1>7, <2>1, WholeFacts DEF FrameLength
  <2>3. 3 \in 1 .. Len(s) /\ s[1] = Other(e.n, 1) /\ s[3] = Other(e.n, 3)
    BY <1>3, <1>4, <2>2
  <2>4. \A i \in 1 .. 3 : Other(e.n, i).of = "other" /\ Other(e.n, i).n = e.n
                          /\ Other(e.n, i).i = i
    BY DEF Other
  <2>5. \A n \in Nat : Superseded("frame", n) => n < e.n
    BY <1>2, <1>4, <2>3, <2>4 DEF Superseded, Later
  <2>6. OverBy(e.n)
    <3>1. Past(s[3])
      BY <1>5, <2>3, <2>4 DEF InBusOrder
    <3>2. frame.at \in 0 .. 2
      BY FrameFacts DEF FrameLength
    <3>3. s[3].n = e.n /\ s[3].i = 3
      BY <2>3, <2>4
    <3> QED BY <2>1, <3>1, <3>2, <3>3 DEF Past, OverBy
  <2>7. OverBy(e.n)'
    BY <2>1, <2>6, PastStays
  <2>8. \A i \in 1 .. Len(rest) : rest[i].of = "other" => e.n < rest[i].n
    <3> SUFFICES ASSUME NEW i \in 1 .. Len(rest), rest[i].of = "other"
                 PROVE  e.n < rest[i].n
      OBVIOUS
    <3>1. 3 + i \in 1 .. Len(s) /\ s[3 + i] = rest[i] /\ 3 < 3 + i
      BY <1>3, <2>2
    <3>2. Before(s[3], s[3 + i])
      BY <1>5, <2>3, <2>4, <3>1 DEF InBusOrder
    <3>3. rest[i].i \in 0 .. 3 /\ rest[i].n \in Nat
      <4>1. rest[i] \in Units
        OBVIOUS
      <4> QED BY <4>1 DEF Units, FrameLength
    <3>4. s[3].n = e.n /\ s[3].i = 3
      BY <2>3, <2>4
    <3> QED BY <2>1, <3>1, <3>2, <3>3, <3>4 DEF Before
  <2>9. Later(Received, e.n)'
    BY <1>2, <2>8 DEF Later
  <2> QED BY <2>5, <2>7, <2>9 DEF Superseded
<1>8. e.n = Head(queued).n
      /\ e.kind = IF queued = Whole(e.n) THEN "frame" ELSE "damaged"
  BY <1>6 DEF Entry
<1>9. CASE queued = Whole(e.n)
  <2>1. e.kind = "frame"
    BY <1>8, <1>9
  <2>2. NewEntry(e)
    BY <1>1, <1>7, <1>9, <2>1 DEF NewEntry
  <2> QED BY <1>7, <1>9, <2>1, <2>2
<1>10. CASE queued # Whole(e.n)
  BY <1>1, <1>8, <1>10 DEF NewEntry, Superseded
<1> QED BY <1>9, <1>10

-------------------------------------------------------------------------------
(***************************************************************************)
(* The queue towards the host: in a step one entry is added, or forwarded, *)
(* or removed, or all are.                                                 *)
(***************************************************************************)
QueueMove ==
  \/ UNCHANGED <<j1708RxQueue, told, forwarded>>
  \/ Confirmed /\ UNCHANGED <<j1708CurTxMessage, told, forwarded>>
  \/ /\ \E queued, rest \in Seq(Units) : Queues(queued, rest)
     /\ UNCHANGED <<told, forwarded>>
  \/ ProcessJ1708RecvPacket \/ AdvanceTail \/ J1708ResetDefaultPrefs

LEMMA QueueSteps ==
  ASSUME IInv, HeardInv, [Next]_vars
  PROVE  QueueMove
<1> USE DEF IInv
<1>1. /\ Received \in Seq(Units) /\ rxQueue \in Seq(Units) /\ rxBuffer \in Seq(Units)
      /\ <<>> \in Seq(Units) /\ Received \o <<>> = Received
  BY ReceivedTypes, ConcatEmptySeq DEF TypeOK
<1>2. CASE UNCHANGED <<queueVars, told, forwarded>>
  BY <1>2 DEF QueueMove, queueVars
<1>3. CASE \/ \E len \in Lengths : J1708AddFormattedTxPacket(len)
           \/ EnableJ1708TxConfirm \/ Silence \/ OtherStarts \/ UNCHANGED vars
  BY <1>3 DEF vars, queueVars, J1708AddFormattedTxPacket, GetFreeJ1708TxBuffers, EnableJ1708TxConfirm, Silence,
              OtherStarts, QueueMove
<1>4. CASE OwnUnit \/ OtherUnit \/ DisturbedUnit \/ Fragment
  BY <1>4, UnitsHeard DEF UnitHeard, queueVars, QueueMove
<1>5. CASE Retransmit \/ TransmitNext
  <2>1. HandleDelayed /\ ~txEmptyIE /\ UNCHANGED <<told, forwarded>>
    BY <1>5 DEF Retransmit, TransmitNext, GetNextJ1708TxMessage, StartJ1708Transmit
  <2>2. j1708State # "Transmitting"
    BY <2>1 DEF TransmissionInv
  <2>3. CASE j1708State = "IgnoreRxData" \/ Received = <<>>
    BY <2>1, <2>3 DEF HandleDelayed, QueueMove
  <2>4. CASE ~(j1708State = "IgnoreRxData" \/ Received = <<>>)
    <3>1. QueueReceived(Entry(Received)) /\ Received' = <<>>
      BY <2>1, <2>4, ClearedEmpty DEF HandleDelayed
    <3>2. j1708State = "Passive"
      BY <2>2, <2>4 DEF TypeOK, States
    <3>3. Queues(Received, <<>>)
      BY <1>1, <2>4, <3>1, <3>2 DEF Queues
    <3> QED BY <1>1, <2>1, <3>3 DEF QueueMove
  <2> QED BY <2>3, <2>4
<1>6. CASE TxEmptyEarly
  <2>1. /\ sending /\ UNCHANGED <<j1708CurTxMessage, told, forwarded>>
        /\ \E heard : TransmissionEnds(heard)
    BY <1>6 DEF TxEmptyEarly, LastUnit
  <2>2. j1708State = "Transmitting"
    BY <2>1 DEF TransmissionInv
  <2>3. Dropped \/ Confirmed
    BY <2>1, <2>2, TransmissionCases
  <2> QED BY <2>1, <2>3 DEF Dropped, QueueMove
<1>7. CASE TxEmpty
  <2>1. MessageEnds(rxQueue, rxBuffer) /\ UNCHANGED <<j1708CurTxMessage, told, forwarded>>
    BY <1>7 DEF TxEmpty
  <2>2. Dropped \/ Confirmed \/ Taken(rxQueue, rxBuffer)
    BY <1>1, <2>1, EndCases
  <2>3. Taken(rxQueue, rxBuffer) => Queues(rxQueue, rxBuffer)
    BY DEF Taken, Queues, Received
  <2> QED BY <1>1, <2>1, <2>2, <2>3 DEF Dropped, QueueMove
<1>8. CASE TimeoutIdle
  <2>1. MessageEnds(Received, <<>>) /\ UNCHANGED <<j1708CurTxMessage, told, forwarded>>
    BY <1>8 DEF TimeoutIdle
  <2>2. Dropped \/ Confirmed \/ Taken(Received, <<>>)
    BY <1>1, <2>1, EndCases
  <2>3. Taken(Received, <<>>) => Queues(Received, <<>>)
    BY <1>1 DEF Taken, Queues
  <2> QED BY <1>1, <2>1, <2>2, <2>3 DEF Dropped, QueueMove
<1> QED
  BY <1>3, <1>4, <1>5, <1>6, <1>7, <1>8 DEF Next, MainLoop, Bus, Handler, QueueMove

(* What is superseded stays so in a step. *)
Monotone == \A kind \in {"frame", "echo", "damaged", "confirm"}, n \in Nat :
              Superseded(kind, n) => Superseded(kind, n)'

LEMMA QueueTypes ==
  ASSUME TypeOK
  PROVE  /\ j1708RxQueue \in Seq(Entries) /\ Len(j1708RxQueue) \in Nat
         /\ \A i \in 1 .. Len(j1708RxQueue) :
              j1708RxQueue[i].kind \in {"frame", "echo", "damaged", "confirm"}
              /\ j1708RxQueue[i].n \in Nat
         /\ told["frame"] \in Nat /\ told["confirm"] \in Nat
         /\ \A kind \in {"frame", "confirm"} : told[kind] \in Nat
<1>1. j1708RxQueue \in Seq(Entries) /\ told \in [frame : Nat, confirm : Nat]
  BY DEF TypeOK
<1>2. \A i \in 1 .. Len(j1708RxQueue) : j1708RxQueue[i] \in Entries
  BY <1>1
<1>3. told["frame"] \in Nat /\ told["confirm"] \in Nat
  BY <1>1
<1> QED BY <1>1, <1>2, <1>3 DEF Entries

(* Something is queued, told, or removed. *)
LEMMA InTurnQueued ==
  ASSUME NEW q \in Seq(Entries), NEW f \in BOOLEAN, NEW t \in [frame : Nat, confirm : Nat],
         NEW e \in Entries, InTurn(q, f, t), f => q # <<>>, e.kind # "echo",
         e.kind # "damaged" =>
           /\ t[e.kind] < e.n
           /\ \A i \in 1 .. Len(q) : q[i].kind = e.kind => q[i].n < e.n
  PROVE  InTurn(Append(q, e), f, t)
<1> DEFINE w == Append(q, e)
<1>1. /\ Len(w) = Len(q) + 1 /\ Len(q) \in Nat /\ w[Len(q) + 1] = e
      /\ \A i \in 1 .. Len(q) : w[i] = q[i]
  BY AppendProperties, LenProperties
<1> HIDE DEF w
<1>2. ASSUME NEW i \in 1 .. Len(w)
      PROVE  /\ w[i].kind # "echo"
             /\ w[i].kind # "damaged" =>
                  t[w[i].kind] < w[i].n \/ (f /\ i = 1 /\ t[w[i].kind] = w[i].n)
  <2>1. CASE i = Len(q) + 1
    BY <1>1, <2>1
  <2>2. CASE i # Len(q) + 1
    <3>1. i \in 1 .. Len(q) /\ w[i] = q[i]
      BY <1>1, <2>2
    <3> QED BY <3>1 DEF InTurn
  <2> QED BY <2>1, <2>2
<1>3. ASSUME NEW i \in 1 .. Len(w), NEW j \in 1 .. Len(w), i < j,
             w[i].kind = w[j].kind, w[i].kind # "damaged"
      PROVE  w[i].n < w[j].n
  <2>1. i \in 1 .. Len(q) /\ w[i] = q[i]
    BY <1>1, <1>3
  <2>2. CASE j = Len(q) + 1
    BY <1>1, <1>3, <2>1, <2>2
  <2>3. CASE j # Len(q) + 1
    <3>1. j \in 1 .. Len(q) /\ w[j] = q[j]
      BY <1>1, <2>3
    <3> QED BY <1>3, <2>1, <3>1 DEF InTurn
  <2> QED BY <2>2, <2>3
<1>4. InTurn(w, f, t)
  BY <1>2, <1>3 DEF InTurn
<1> QED BY <1>4 DEF w

LEMMA InTurnTold ==
  ASSUME NEW q \in Seq(Entries), NEW t \in [frame : Nat, confirm : Nat], InTurn(q, FALSE, t),
         q # <<>>, NEW r, r = t \/ \E kind \in {"frame", "confirm"} :
                                   kind = q[1].kind /\ r = [t EXCEPT ![kind] = q[1].n]
  PROVE  InTurn(q, TRUE, r)
<1>1. /\ Len(q) \in Nat \ {0} /\ 1 \in 1 .. Len(q)
      /\ \A i \in 1 .. Len(q) : q[i].kind \in {"frame", "echo", "damaged", "confirm"}
  <2>1. Len(q) \in Nat \ {0} /\ \A i \in 1 .. Len(q) : q[i] \in Entries
    OBVIOUS
  <2> QED BY <2>1 DEF Entries
<1>2. /\ \A i \in 1 .. Len(q) : q[i].kind # "echo"
                                /\ (q[i].kind # "damaged" => t[q[i].kind] < q[i].n)
      /\ \A i, j \in 1 .. Len(q) :
           i < j /\ q[i].kind = q[j].kind /\ q[i].kind # "damaged" => q[i].n < q[j].n
  BY DEF InTurn
<1>3. CASE r = t
  BY <1>2, <1>3 DEF InTurn
<1>4. ASSUME NEW kind \in {"frame", "confirm"}, kind = q[1].kind,
             r = [t EXCEPT ![kind] = q[1].n]
      PROVE  InTurn(q, TRUE, r)
  <2>1. \A k \in {"frame", "confirm"} : r[k] = IF k = kind THEN q[1].n ELSE t[k]
    BY <1>4
  <2>2. ASSUME NEW i \in 1 .. Len(q), q[i].kind # "damaged"
        PROVE  r[q[i].kind] < q[i].n \/ (i = 1 /\ r[q[i].kind] = q[i].n)
    <3>1. q[i].kind \in {"frame", "confirm"}
      BY <1>1, <1>2, <2>2
    <3>2. CASE i = 1
      BY <1>4, <2>1, <3>1, <3>2
    <3>3. CASE i # 1 /\ q[i].kind = kind
      <4>1. 1 < i
        BY <3>3
      <4>2. q[1].n < q[i].n
        BY <1>1, <1>2, <1>4, <2>2, <3>3, <4>1
      <4> QED BY <2>1, <3>1, <3>3, <4>2
    <3>4. CASE q[i].kind # kind
      BY <1>2, <2>1, <2>2, <3>1, <3>4
    <3> QED BY <3>2, <3>3, <3>4
  <2> QED BY <1>2, <2>2 DEF InTurn
<1> QED BY <1>3, <1>4

LEMMA InTurnRemoved ==
  ASSUME NEW q \in Seq(Entries), NEW t, InTurn(q, TRUE, t), q # <<>>
  PROVE  InTurn(Tail(q), FALSE, t)
<1> DEFINE w == Tail(q)
<1>1. /\ Len(q) \in Nat \ {0} /\ Len(w) = Len(q) - 1
      /\ \A i \in 1 .. Len(w) : w[i] = q[i + 1]
  BY HeadTailProperties, LenProperties
<1> HIDE DEF w
<1>2. \A i \in 1 .. Len(w) : i + 1 \in 1 .. Len(q) /\ i + 1 # 1
  BY <1>1
<1>3. ASSUME NEW i \in 1 .. Len(w), NEW j \in 1 .. Len(w), i < j,
             w[i].kind = w[j].kind, w[i].kind # "damaged"
      PROVE  w[i].n < w[j].n
  <2>1. i + 1 < j + 1
    BY <1>3
  <2> QED BY <1>1, <1>2, <1>3, <2>1 DEF InTurn
<1>4. InTurn(w, FALSE, t)
  BY <1>1, <1>2, <1>3 DEF InTurn
<1> QED BY <1>4 DEF w

(* All that is queued or told is superseded, before and after each of them. *)
LEMMA SupersededAfter ==
  ASSUME Monotone, NEW q \in Seq(Entries), NEW t \in [frame : Nat, confirm : Nat],
         AllSuperseded(q, t)
  PROVE  AllSuperseded(q, t)'
<1>1. \A i \in 1 .. Len(q) : q[i] \in Entries
  OBVIOUS
<1>2. \A i \in 1 .. Len(q) :
        q[i].kind \in {"frame", "echo", "confirm", "damaged"} /\ q[i].n \in Nat
  BY <1>1 DEF Entries
<1>3. \A kind \in {"frame", "confirm"} : t[kind] \in Nat
  OBVIOUS
<1>4. \A i \in 1 .. Len(q) : Superseded(q[i].kind, q[i].n)'
  BY <1>2 DEF AllSuperseded, Monotone
<1>5. \A kind \in {"frame", "confirm"} : Superseded(kind, t[kind])'
  BY <1>3 DEF AllSuperseded, Monotone
<1> QED BY <1>4, <1>5 DEF AllSuperseded

LEMMA SupersededQueued ==
  ASSUME NEW q \in Seq(Entries), NEW t, NEW e \in Entries,
         AllSuperseded(q, t)', Superseded(e.kind, e.n)'
  PROVE  AllSuperseded(Append(q, e), t)'
<1> DEFINE w == Append(q, e)
<1>1. /\ Len(w) = Len(q) + 1 /\ Len(q) \in Nat /\ w[Len(q) + 1] = e
      /\ \A i \in 1 .. Len(q) : w[i] = q[i]
  BY AppendProperties, LenProperties
<1> HIDE DEF w
<1>2. ASSUME NEW i \in 1 .. Len(w) PROVE Superseded(w[i].kind, w[i].n)'
  <2>1. CASE i = Len(q) + 1
    BY <1>1, <2>1
  <2>2. CASE i # Len(q) + 1
    <3>1. i \in 1 .. Len(q) /\ w[i] = q[i]
      BY <1>1, <2>2
    <3> QED BY <3>1 DEF AllSuperseded
  <2> QED BY <2>1, <2>2
<1>3. AllSuperseded(w, t)'
  BY <1>2 DEF AllSuperseded
<1> QED BY <1>3 DEF w

LEMMA SupersededTold ==
  ASSUME NEW q \in Seq(Entries), NEW t \in [frame : Nat, confirm : Nat], AllSuperseded(q, t),
         q # <<>>, NEW r, r = t \/ \E kind \in {"frame", "confirm"} :
                                   kind = q[1].kind /\ r = [t EXCEPT ![kind] = q[1].n]
  PROVE  AllSuperseded(q, r)
<1>1. 1 \in 1 .. Len(q)
  BY HeadTailProperties, LenProperties
<1>2. ASSUME NEW kind \in {"frame", "confirm"}, kind = q[1].kind,
             r = [t EXCEPT ![kind] = q[1].n]
      PROVE  AllSuperseded(q, r)
  <2>1. \A k \in {"frame", "confirm"} : r[k] = IF k = kind THEN q[1].n ELSE t[k]
    BY <1>2
  <2>2. Superseded(kind, q[1].n)
    BY <1>1, <1>2 DEF AllSuperseded
  <2>3. \A k \in {"frame", "confirm"} : Superseded(k, r[k])
    BY <2>1, <2>2 DEF AllSuperseded
  <2> QED BY <2>3 DEF AllSuperseded
<1> QED BY <1>2

LEMMA SupersededRemoved ==
  ASSUME NEW q \in Seq(Entries), NEW t, AllSuperseded(q, t), q # <<>>
  PROVE  AllSuperseded(Tail(q), t)
<1>1. /\ Len(q) \in Nat \ {0} /\ Len(Tail(q)) = Len(q) - 1
      /\ \A i \in 1 .. Len(Tail(q)) : Tail(q)[i] = q[i + 1]
  BY HeadTailProperties, LenProperties
<1>2. \A i \in 1 .. Len(Tail(q)) : i + 1 \in 1 .. Len(q)
  BY <1>1
<1> QED BY <1>1, <1>2 DEF AllSuperseded

(* The newest that the host is told of is the first entry. *)
LEMMA ToldFirst ==
  ASSUME TypeOK, InTurn(j1708RxQueue, forwarded, told), ProcessJ1708RecvPacket
  PROVE  /\ j1708RxQueue # <<>> /\ ~forwarded /\ forwarded' = TRUE
         /\ UNCHANGED j1708RxQueue
         /\ \/ told' = told
            \/ \E kind \in {"frame", "confirm"} :
                 kind = j1708RxQueue[1].kind /\ told' = [told EXCEPT ![kind] = j1708RxQueue[1].n]
<1>1. /\ ~forwarded /\ j1708RxQueue # <<>> /\ forwarded' = TRUE /\ UNCHANGED j1708RxQueue
      /\ \/ ForwardConfirm(Head(j1708RxQueue))
         \/ DropBadChecksum(Head(j1708RxQueue))
         \/ ForwardMessage(Head(j1708RxQueue))
  BY DEF ProcessJ1708RecvPacket, GetNextJ1708RxMessage, queueVars
<1>2. Head(j1708RxQueue) = j1708RxQueue[1] /\ 1 \in 1 .. Len(j1708RxQueue)
  BY <1>1, HeadTailProperties, LenProperties DEF TypeOK
<1>3. j1708RxQueue[1].kind # "echo"
  BY <1>2 DEF InTurn
<1> DEFINE e == j1708RxQueue[1]
<1> HIDE DEF e
<1>4. /\ e.kind # "echo"
      /\ ForwardConfirm(e) \/ DropBadChecksum(e) \/ ForwardMessage(e)
  BY <1>1, <1>2, <1>3 DEF e
<1>5. \/ told' = told
      \/ e.kind = "confirm" /\ told' = [told EXCEPT !["confirm"] = e.n]
      \/ e.kind = "frame" /\ told' = [told EXCEPT !["frame"] = e.n]
  BY <1>4 DEF ForwardConfirm, DropBadChecksum, ForwardMessage, Tell
<1> QED BY <1>1, <1>5 DEF e

(* The invariant after each move. *)
LEMMA TellStep ==
  ASSUME TypeOK, TypeOK', ForwardedInv, FrameMove, UnitsInv, TellInv, Monotone, QueueMove
  PROVE  TellInv'
<1> PICK q \in Seq(Entries), t \in [frame : Nat, confirm : Nat], f \in BOOLEAN :
           q = j1708RxQueue /\ t = told /\ f = forwarded
  BY DEF TypeOK
<1>1. AllSuperseded(q, t) /\ InTurn(q, f, t) /\ (f => q # <<>>)
  BY DEF TellInv, ForwardedInv
<1>2. ASSUME NEW q2 \in Seq(Entries), NEW told2 \in [frame : Nat, confirm : Nat],
             NEW f2 \in BOOLEAN, q2 = j1708RxQueue', told2 = told', f2 = forwarded',
             AllSuperseded(q2, told2)', InTurn(q2, f2, told2)
      PROVE  TellInv'
  BY <1>2 DEF TellInv, AllSuperseded, InTurn
<1>3. AllSuperseded(q, t)'
  BY <1>1, SupersededAfter
<1>4. CASE UNCHANGED <<j1708RxQueue, told, forwarded>>
  BY <1>1, <1>2, <1>3, <1>4
<1>5. ASSUME NEW e, NewEntry(e), Superseded(e.kind, e.n)', QueueReceived(e),
             UNCHANGED <<told, forwarded>>
      PROVE  TellInv'
  <2>1. CASE UNCHANGED j1708RxQueue
    BY <1>4, <1>5, <2>1
  <2>2. CASE j1708RxQueue' = Append(q, e)
    <3>1. e \in Entries /\ e.kind # "echo" /\ Append(q, e) \in Seq(Entries)
      BY <1>5, AppendProperties, LenProperties DEF NewEntry
    <3>2. AllSuperseded(Append(q, e), t)'
      BY <1>3, <1>5, <3>1, SupersededQueued
    <3>3. ASSUME e.kind # "damaged"
          PROVE  /\ t[e.kind] < e.n
                 /\ \A i \in 1 .. Len(q) : q[i].kind = e.kind => q[i].n < e.n
      <4>1. e.kind \in {"frame", "confirm"} /\ t[e.kind] \in Nat
        BY <3>1, <3>3 DEF Entries
      <4>2. \A i \in 1 .. Len(q) : q[i] \in Entries
        OBVIOUS
      <4>3. \A i \in 1 .. Len(q) : q[i].n \in Nat
        BY <4>2 DEF Entries
      <4>4. \A n \in Nat : Superseded(e.kind, n) => n < e.n
        BY <1>5, <3>3 DEF NewEntry
      <4> QED BY <1>1, <4>1, <4>3, <4>4 DEF AllSuperseded
    <3>4. InTurn(Append(q, e), f, t)
      BY <1>1, <3>1, <3>3, InTurnQueued
    <3> QED BY <1>2, <1>5, <2>2, <3>1, <3>2, <3>4
  <2> QED BY <1>5, <2>1, <2>2 DEF QueueReceived
<1>6. CASE Confirmed /\ UNCHANGED <<j1708CurTxMessage, told, forwarded>>
  <2> PICK e : e = [kind |-> "confirm", n |-> j1708CurTxMessage.n]
    OBVIOUS
  <2>1. NewEntry(e) /\ Superseded(e.kind, e.n)'
    BY <1>6, ConfirmIsNew
  <2> QED BY <1>5, <1>6, <2>1 DEF Confirmed
<1>7. ASSUME NEW queued \in Seq(Units), NEW rest \in Seq(Units), Queues(queued, rest),
             UNCHANGED <<told, forwarded>>
      PROVE  TellInv'
  <2> PICK e : e = Entry(queued)
    OBVIOUS
  <2>1. NewEntry(e) /\ Superseded(e.kind, e.n)'
    BY <1>7, MessageIsNew
  <2> QED BY <1>5, <1>7, <2>1 DEF Queues
<1>8. CASE ProcessJ1708RecvPacket
  <2>1. /\ q # <<>> /\ f = FALSE /\ forwarded' = TRUE /\ j1708RxQueue' = q
        /\ told' = t \/ \E kind \in {"frame", "confirm"} :
                          kind = q[1].kind /\ told' = [t EXCEPT ![kind] = q[1].n]
    BY <1>1, <1>8, ToldFirst
  <2> PICK told2 \in [frame : Nat, confirm : Nat] : told2 = told'
    BY DEF TypeOK
  <2>2. InTurn(q, TRUE, told2) /\ AllSuperseded(q, told2)
    <3>1. /\ InTurn(q, FALSE, t) /\ AllSuperseded(q, t)
          /\ told2 = t \/ \E kind \in {"frame", "confirm"} :
                         kind = q[1].kind /\ told2 = [t EXCEPT ![kind] = q[1].n]
      BY <1>1, <2>1
    <3>2. InTurn(q, TRUE, told2)
      BY <2>1, <3>1, InTurnTold
    <3>3. AllSuperseded(q, told2)
      BY <2>1, <3>1, SupersededTold
    <3> QED BY <3>2, <3>3
  <2>3. AllSuperseded(q, told2)'
    BY <2>2, SupersededAfter
  <2> QED BY <1>2, <2>1, <2>2, <2>3
<1>9. CASE AdvanceTail
  <2>1. f = TRUE /\ forwarded' = FALSE /\ j1708RxQueue' = Tail(q) /\ told' = t
    BY <1>9 DEF AdvanceTail
  <2>2. q # <<>> /\ Tail(q) \in Seq(Entries)
    BY <1>1, <2>1, HeadTailProperties, LenProperties
  <2>3. AllSuperseded(Tail(q), t)
    BY <1>1, <2>2, SupersededRemoved
  <2>4. AllSuperseded(Tail(q), t)'
    BY <2>2, <2>3, SupersededAfter
  <2>5. InTurn(Tail(q), FALSE, t)
    BY <1>1, <2>1, <2>2, InTurnRemoved
  <2> QED BY <1>2, <2>1, <2>2, <2>4, <2>5
<1>10. CASE J1708ResetDefaultPrefs
  <2>1. j1708RxQueue' = <<>> /\ told' = t /\ forwarded' = f /\ f = FALSE
    BY <1>10 DEF J1708ResetDefaultPrefs
  <2>2. <<>> \in Seq(Entries) /\ Len(<<>>) = 0
    OBVIOUS
  <2>3. AllSuperseded(<<>>, t)' /\ InTurn(<<>>, FALSE, t)
    BY <1>3, <2>2 DEF AllSuperseded, InTurn
  <2> QED BY <1>2, <2>1, <2>2, <2>3
<1> QED BY <1>4, <1>6, <1>7, <1>8, <1>9, <1>10 DEF QueueMove

(* Whatever the main loop takes from the queue is new to the host. *)
LEMMA TellsStep ==
  ASSUME TypeOK, TellInv, [Next]_vars
  PROVE  TellsNext
<1> SUFFICES ASSUME ~forwarded, forwarded'
             PROVE  LET e == Head(j1708RxQueue)
                    IN  e.kind = "damaged" \/ (e.kind \in DOMAIN told /\ told[e.kind] < e.n)
  BY DEF TellsNext
<1>1. ProcessJ1708RecvPacket
  <2>1. forwarded' # forwarded
    OBVIOUS
  <2> QED BY <2>1 DEF vars, Next, MainLoop, Bus, Handler, J1708AddFormattedTxPacket, GetFreeJ1708TxBuffers,
       EnableJ1708TxConfirm, J1708ResetDefaultPrefs, Retransmit, TransmitNext, GetNextJ1708TxMessage,
       StartJ1708Transmit, AdvanceTail, OwnUnit, OtherUnit, DisturbedUnit, Fragment, Heard,
       Silence, OtherStarts, TxEmptyEarly, LastUnit, TxEmpty, TimeoutIdle
<1>2. Head(j1708RxQueue) = j1708RxQueue[1] /\ 1 \in 1 .. Len(j1708RxQueue)
  BY <1>1, HeadTailProperties, LenProperties DEF TypeOK, ProcessJ1708RecvPacket, GetNextJ1708RxMessage
<1> PICK e : e = j1708RxQueue[1]
  OBVIOUS
<1>3. e.kind # "echo" /\ (e.kind # "damaged" => told[e.kind] < e.n)
  BY <1>2 DEF TellInv, InTurn
<1>4. e.kind \in {"frame", "echo", "damaged", "confirm"}
  BY <1>2, QueueTypes
<1>5. DOMAIN told = {"frame", "confirm"}
  BY DEF TypeOK
<1> QED BY <1>2, <1>3, <1>4, <1>5

-------------------------------------------------------------------------------
(* The whole of it, initially and after every step. *)
LEMMA HostInit == Init => HostInv
<1> SUFFICES ASSUME Init PROVE HostInv
  OBVIOUS
<1>1. /\ Len(<<>>) = 0 /\ Received = <<>>
      /\ j1708TxQueue = <<>> /\ j1708RxQueue = <<>> /\ j1708CurTxMessage = NoMessage
      /\ j1708State = "Passive" /\ ~j1708RetransmitNeeded /\ checking = -1 /\ ~txEmptyIE
      /\ ~sending /\ frame = NoFrame /\ frames = 0 /\ accepted = 0 /\ heardAlone = FALSE
      /\ told = [frame |-> 0, confirm |-> 0]
  BY DEF Init, Received
<1>2. HeardInv
  BY <1>1 DEF HeardInv
<1>3. UnitsInv
  BY <1>1 DEF UnitsInv, InBusOrder
<1>4. NumbersInv
  BY <1>1 DEF NumbersInv, NoMessage
<1>5. Superseded("frame", 0) /\ Superseded("confirm", 0)
  BY <1>1 DEF Superseded, OverBy, Later, NoMessage
<1>6. TellInv
  BY <1>1, <1>5 DEF TellInv, AllSuperseded, InTurn
<1> QED BY <1>2, <1>3, <1>4, <1>6 DEF HostInv

LEMMA HostStep ==
  ASSUME IInv, HostInv, [Next]_vars
  PROVE  HostInv'
<1>1. TypeOK /\ ForwardedInv /\ HeardInv /\ UnitsInv /\ TellInv /\ NumbersInv
  BY DEF IInv, HostInv
<1>2. TypeOK'
  BY StepFacts DEF IInv
<1>3. FrameMove /\ PortMove /\ MessageMove /\ QueueMove
  BY <1>1, FrameSteps, PortSteps, MessageSteps, QueueSteps
<1>4. Monotone
  BY <1>1, <1>2, <1>3, SupersededStays DEF Monotone
<1>5. HeardInv'
  BY <1>1, HeardStep
<1>6. UnitsInv'
  BY <1>1, <1>2, <1>3, UnitsStep
<1>7. TellInv'
  BY <1>1, <1>2, <1>3, <1>4, TellStep
<1>8. NumbersInv'
  BY <1>1, <1>3, NumbersStep
<1> QED BY <1>5, <1>6, <1>7, <1>8 DEF HostInv

(* Type correctness: both rings keep a slot free, the comparison of the     *)
(* first characters stays within them, and what the port holds is heard     *)
(* units, whatever happens on the bus.                                      *)
THEOREM TypeCorrect == Spec => []TypeOK
<1>1. Init => IInv
  BY InitFacts
<1>2. IInv /\ [Next]_vars => IInv'
  BY StepFacts
<1>3. IInv => TypeOK
  BY DEF IInv
<1> QED BY <1>1, <1>2, <1>3, PTL DEF Spec

(* Through every collision, disturbance, retransmission and end of a        *)
(* message, the messages accepted are transmitted in order and none is      *)
(* lost, except all of them by a reset; one is done with only when it has   *)
(* just been on the bus as a whole.                                         *)
THEOREM NothingIsLost == Spec => NothingLost
<1>1. Init => IInv
  BY InitFacts
<1>2. IInv /\ [Next]_vars => IInv' /\ [LosesNone]_vars
  BY StepFacts
<1> QED BY <1>1, <1>2, PTL DEF Spec, NothingLost

(* Messages of other devices and confirmations are told to the host in      *)
(* order and each at most once, and the firmware never forwards its own     *)
(* transmission as another device's, whatever was disturbed or cut off.     *)
THEOREM ToldInOrder == Spec => ToldOnceInOrder
<1>1. Init => IInv /\ HostInv
  BY InitFacts, HostInit
<1>2. IInv /\ HostInv /\ [Next]_vars => IInv' /\ HostInv'
  BY StepFacts, HostStep
<1>3. IInv /\ HostInv /\ [Next]_vars => [TellsNext]_vars
  BY TellsStep DEF IInv, HostInv
<1> QED BY <1>1, <1>2, <1>3, PTL DEF Spec, ToldOnceInOrder

(* A message of another device that was on the bus as a whole and that      *)
(* nothing of the firmware's was in the way of is queued for the host when  *)
(* it is over, unless the queue is full, also when the main loop starts a   *)
(* transmission before the handler has seen the end.                        *)
THEOREM FramesAreKept == Spec => FrameKept
<1>1. Init => IInv /\ HeardInv
  BY InitFacts, HostInit DEF HostInv
<1>2. IInv /\ HeardInv /\ [Next]_vars => IInv' /\ HeardInv'
  BY StepFacts, HeardStep
<1>3. IInv /\ HeardInv /\ [Next]_vars => [KeepsFrames]_vars
  BY KeepsStep
<1> QED BY <1>1, <1>2, <1>3, PTL DEF Spec, FrameKept
-------------------------------------------------------------------------------
(* The main timer and the edges of the bus (BusTimer). *)
\* The main loop comes round before two bits have passed.
InTime == ROUND < 2 * BIT

\* The main loop has noticed a rising edge and not yet cleared its flag.
AfterEdge == pc \in {"capture", "wrap", "count", "status", "back", "clearA"}
Reading   == pc \in {"read1", "read2", "read3", "read4", "read5"}
Using     == pc \in {"compare", "stamp"}
Asking    == Reading \/ pc \in {"compare", "sync"}

Wraps == time \div PERIOD
Age(t) == Elapsed(t, time)

\* How long ago the counter was c, now that it is n, and how many times it had
\* wrapped then, now that it has w times, if that is less than a wrap ago.
Since(n, c)     == IF c <= n THEN n - c ELSE (n - c) + PERIOD
WrapsBefore(w, n, c) == IF c <= n THEN w ELSE IF w = 0 THEN WRAPS - 1 ELSE w - 1
After(w)        == IF w = WRAPS - 1 THEN 0 ELSE w + 1

Counts == 0 .. PERIOD - 1
Times  == 0 .. Cycle - 1

pcs == {"poll", "clearB", "edge", "capture", "wrap", "count", "status", "back", "clearA",
        "sample", "ask", "read1", "read2", "read3", "read4", "read5", "compare", "stamp",
        "sync", "look", "write"}

TimerTypeOK ==
  /\ time \in Times /\ TimerOverflow \in BOOLEAN
  /\ InputCaptureA \in {None} \cup Counts /\ InputCaptureFlagB \in BOOLEAN
  /\ asserted \in BOOLEAN /\ since \in Nat
  /\ wrapCounter \in 0 .. WRAPS - 1
  /\ J1708_idle_time \in 0 .. SATURATED
  /\ J1708_last_transition_time \in Times
  /\ J1708_bus_not_idle \in BOOLEAN
  /\ pc \in pcs
  /\ t1 \in Int /\ t2 \in Int /\ t3 \in Nat /\ began \in Times
  /\ late \in BOOLEAN /\ lag \in 0 .. ROUND /\ span \in Nat
  /\ wanted \in IdleCounts \cup {Nothing}
  /\ AfterEdge => InputCaptureA \in Counts
  /\ pc \in {"wrap", "count", "status", "back", "clearA"} => t1 \in Counts

\* wrapCounter is short of the overflow that has not been served.
CountInv == Wraps = IF TimerOverflow THEN After(wrapCounter) ELSE wrapCounter

\* Counts that were read since began.
CountRead(c) == /\ c \in Counts
                /\ Since(Counter, c) <= Age(began)
                /\ TimerOverflow \/ c <= Counter

\* Times that were since began.
TimeRead(t) == t \in Times /\ Age(t) <= Age(began)

ReadInv ==
  /\ (Reading \/ Using) => Age(began) <= lag
  /\ pc \in {"read2", "read3", "read4"} => CountRead(t2)
  /\ pc \in {"read3", "read4", "read5"} => t1 = wrapCounter
  /\ pc = "read4" => CountRead(t3) /\ (TimerOverflow \/ t2 <= t3)
  /\ pc = "read5" => TimerOverflow
  /\ Using => TimeRead(Time32(t1, t2)) /\ TimeRead(Time32(t1, t3))

CaptureInv ==
  /\ InputCaptureFlagA =>
       /\ Since(Counter, InputCaptureA) <= lag
       /\ ~asserted => Since(Counter, InputCaptureA) = since
       /\ asserted => Since(Counter, InputCaptureA) >= since + BIT
  /\ asserted => since <= BIT
  /\ AfterEdge /\ TimerOverflow /\ ~late => Counter < InputCaptureA
  /\ pc \in {"wrap", "count", "status", "back", "clearA"} => t1 = InputCaptureA

WrapInv ==
  /\ pc \in {"count", "status"} =>
       \/ t2 = WrapsBefore(Wraps, Counter, t1)
       \/ (Counter < t1 /\ t2 = Wraps)
  /\ pc = "status" => /\ (t2 = WrapsBefore(Wraps, Counter, t1) \/ t3 < t1)
                      /\ t3 < t1 => Counter < t1 /\ (TimerOverflow => late)
                      /\ t3 \in Counts
  /\ pc = "back" => Counter < t1 /\ ~TimerOverflow
  /\ pc = "clearA" => t2 \in -1 .. WRAPS - 1 /\ t2 % WRAPS = WrapsBefore(Wraps, Counter, t1)

EdgeInv ==
  /\ EdgeTimeIsTrue
  /\ ~asserted /\ ~InputCaptureFlagA => since >= lag

SpanInv ==
  /\ pc = "edge" /\ TimerOverflow /\ ~late => Counter <= span
  /\ Looking => span <= LOOK
  /\ ~Looking => span = 0

\* The time since the overflows have been counted from 0.
Overflows == J1708_idle_time * PERIOD + (IF TimerOverflow THEN PERIOD ELSE 0) + Counter

IdleInv ==
  ~asserted /\ (AfterEdge \/ (~InputCaptureFlagA /\ ~J1708_bus_not_idle))
     => Overflows <= since + LOOK + PERIOD

AskInv ==
  /\ (pc \in {"ask", "sync"} \/ Reading \/ Using) =>
       (asserted => InputCaptureFlagB \/ J1708_bus_not_idle)
  /\ Asking => (wanted # Nothing => ~J1708_bus_not_idle)
  /\ pc \in {"compare", "sync", "look", "write"} => wanted # Nothing

LookInv ==
  /\ pc = "sync" => InputCaptureFlagA \/ InputCaptureFlagB \/ (~asserted /\ since >= ACCESS)
  /\ pc = "look" => /\ Age(began) < BIT
                    /\ ~asserted => since >= ACCESS
                    /\ asserted => since <= Age(began)

TimeInv  == TimerTypeOK /\ CountInv /\ ReadInv
TimerInv == /\ TimeInv /\ CaptureInv /\ WrapInv /\ EdgeInv /\ SpanInv /\ IdleInv
            /\ AskInv /\ LookInv
-------------------------------------------------------------------------------
LEMMA Positive ==
  /\ PERIOD \in Nat /\ PERIOD > 1 /\ WRAPS \in Nat /\ WRAPS > 0
  /\ SATURATED \in Nat /\ BIT \in Nat /\ BIT > 0 /\ LOOK \in Nat
  /\ ROUND \in Nat /\ ROUND > 0 /\ ROUND < PERIOD
<1>1. /\ PERIOD \in Nat /\ PERIOD > 1 /\ WRAPS \in Nat /\ SATURATED \in Nat
      /\ (SATURATED + 1) * PERIOD <= PERIOD * WRAPS
  BY TimerAssumption DEF Cycle
<1>2. (SATURATED + 1) * PERIOD > 0
  BY <1>1
<1>3. WRAPS # 0
  BY <1>1, <1>2
<1>4. QED
  BY <1>1, <1>3, TimerAssumption

LEMMA CycleIsLong ==
  /\ Cycle \in Nat /\ Cycle >= PERIOD
  /\ (SATURATED + 1) * PERIOD <= Cycle
  /\ \A w \in 0 .. WRAPS - 1 : w * PERIOD \in Nat /\ w * PERIOD <= Cycle - PERIOD
<1>1. Cycle \in Nat
  BY Positive DEF Cycle
<1>2. ASSUME NEW w \in 0 .. WRAPS - 1
      PROVE  w * PERIOD \in Nat /\ w * PERIOD <= Cycle - PERIOD
  BY Positive DEF Cycle
<1>3. Cycle >= PERIOD
  BY <1>1, <1>2, Positive
<1>4. QED
  BY <1>1, <1>2, <1>3, TimerAssumption

LEMMA DivideByPeriod ==
  ASSUME NEW q \in Nat, NEW r \in Counts
  PROVE  (q * PERIOD + r) \div PERIOD = q /\ (q * PERIOD + r) % PERIOD = r
BY Positive DEF Counts

\* The counter and the number of its wraps make up the time.
LEMMA TimeSplits ==
  ASSUME time \in Times
  PROVE  /\ Counter \in Counts /\ Wraps \in 0 .. WRAPS - 1
         /\ time = Wraps * PERIOD + Counter
<1>1. /\ Counter \in Counts /\ Wraps \in Nat
      /\ time = Wraps * PERIOD + Counter
  BY Positive, CycleIsLong DEF Counts, Counter, Wraps, Times
<1>2. Wraps < WRAPS
  <2>1. SUFFICES ASSUME Wraps >= WRAPS PROVE FALSE
    BY <1>1, Positive
  <2>2. Wraps * PERIOD >= WRAPS * PERIOD
    BY <2>1, <1>1, Positive
  <2>3. QED
    BY <2>2, <1>1, Positive, CycleIsLong DEF Cycle, Times, Counts
<1>3. QED
  BY <1>1, <1>2, Positive

LEMMA ElapsedIs ==
  ASSUME NEW a \in Times, NEW b \in Times
  PROVE  Elapsed(a, b) = IF a <= b THEN b - a ELSE (b - a) + Cycle
BY CycleIsLong, Positive DEF Elapsed, Times

LEMMA NextSplits ==
  ASSUME NEW q \in Nat, NEW r \in Counts, time' = q * PERIOD + r
  PROVE  Counter' = r /\ Wraps' = q
BY DivideByPeriod DEF Counter, Wraps

\* One tick of the clock: the counter, its wraps.
LEMMA TickCounts ==
  ASSUME time \in Times, time' = (time + 1) % Cycle
  PROVE  /\ time' \in Times
         /\ Counter # PERIOD - 1 => Counter' = Counter + 1 /\ Wraps' = Wraps
         /\ Counter = PERIOD - 1 => Counter' = 0 /\ Wraps' = After(Wraps)
<1>1. /\ Counter \in Counts /\ Wraps \in 0 .. WRAPS - 1
      /\ time = Wraps * PERIOD + Counter
  BY TimeSplits
<1>2. time' = IF time = Cycle - 1 THEN 0 ELSE time + 1
  BY CycleIsLong, Positive DEF Times
<1>3. time' \in Times
  BY <1>2, CycleIsLong, Positive DEF Times
<1>4. CASE Counter # PERIOD - 1
  <2>1. Counter + 1 \in Counts /\ Counter <= PERIOD - 2
    BY <1>1, <1>4, Positive DEF Counts
  <2>2. time # Cycle - 1
    BY <1>1, <2>1, CycleIsLong, Positive DEF Counts
  <2>3. time' = Wraps * PERIOD + (Counter + 1)
    BY <1>1, <1>2, <2>1, <2>2, CycleIsLong, Positive DEF Counts
  <2>4. Counter' = Counter + 1 /\ Wraps' = Wraps
    BY <1>1, <2>1, <2>3, NextSplits
  <2>5. QED
    BY <1>3, <1>4, <2>4
<1>5. CASE Counter = PERIOD - 1 /\ Wraps # WRAPS - 1
  <2>1. Wraps + 1 \in 0 .. WRAPS - 1
    BY <1>1, <1>5, Positive
  <2>2. (Wraps + 1) * PERIOD = Wraps * PERIOD + PERIOD
    BY <1>1, Positive
  <2>3. (Wraps + 1) * PERIOD \in Nat /\ (Wraps + 1) * PERIOD <= Cycle - PERIOD
    BY <2>1, CycleIsLong
  <2>4. time + 1 = (Wraps + 1) * PERIOD
    BY <1>1, <1>5, <2>2, CycleIsLong, Positive
  <2>5. time' = (Wraps + 1) * PERIOD + 0
    BY <1>2, <2>3, <2>4, CycleIsLong, Positive
  <2>6. 0 \in Counts /\ Wraps + 1 \in Nat
    BY <2>1, Positive DEF Counts
  <2>7. Counter' = 0 /\ Wraps' = Wraps + 1
    BY <2>5, <2>6, NextSplits
  <2>8. QED
    BY <1>3, <1>5, <2>7 DEF After
<1>6. CASE Counter = PERIOD - 1 /\ Wraps = WRAPS - 1
  <2>1. Wraps * PERIOD = Cycle - PERIOD
    BY <1>1, <1>6, Positive DEF Cycle
  <2>2. time = Cycle - 1
    BY <1>1, <1>6, <2>1, CycleIsLong, Positive
  <2>3. time' = 0
    BY <1>2, <2>2
  <2>4. Counter' = 0 /\ Wraps' = 0
    BY <2>3, Positive DEF Counter, Wraps
  <2>5. QED
    BY <1>3, <1>6, <2>4, Positive DEF After
<1>7. QED
  BY <1>4, <1>5, <1>6

LEMMA TickAges ==
  ASSUME time \in Times, time' = (time + 1) % Cycle, NEW t \in Times, Age(t) < Cycle - 1
  PROVE  Elapsed(t, time') = Age(t) + 1
<1>1. time' = (IF time = Cycle - 1 THEN 0 ELSE time + 1) /\ time' \in Times
  BY CycleIsLong, Positive DEF Times
<1>2. Age(t) = IF t <= time THEN time - t ELSE (time - t) + Cycle
  BY ElapsedIs DEF Age
<1>3. Elapsed(t, time') = IF t <= time' THEN time' - t ELSE (time' - t) + Cycle
  BY <1>1, ElapsedIs
<1>4. QED
  BY <1>1, <1>2, <1>3, CycleIsLong, Positive DEF Times

LEMMA AgesAre ==
  ASSUME time \in Times, NEW t \in Times
  PROVE  Age(t) \in Nat /\ Age(t) < Cycle
BY ElapsedIs, CycleIsLong, Positive DEF Age, Times

\* A count that is younger than a wrap grows older by a tick.
LEMMA TickSince ==
  ASSUME time \in Times, time' = (time + 1) % Cycle, NEW c \in Counts,
         Since(Counter, c) < PERIOD - 1
  PROVE  /\ Since(Counter', c) = Since(Counter, c) + 1
         /\ WrapsBefore(Wraps', Counter', c) = WrapsBefore(Wraps, Counter, c)
<1>1. Counter \in Counts /\ Wraps \in 0 .. WRAPS - 1
  BY TimeSplits
<1>2. /\ Counter # PERIOD - 1 => Counter' = Counter + 1 /\ Wraps' = Wraps
      /\ Counter = PERIOD - 1 => Counter' = 0 /\ Wraps' = After(Wraps)
  BY TickCounts
<1>3. CASE Counter # PERIOD - 1
  BY <1>1, <1>2, <1>3, Positive DEF Counts, Since, WrapsBefore
<1>4. CASE Counter = PERIOD - 1
  BY <1>1, <1>2, <1>4, Positive DEF Counts, Since, WrapsBefore, After
<1>5. QED
  BY <1>3, <1>4

\* The time that a count and the wraps before it make up is as old as the count.
LEMMA AgeOfCount ==
  ASSUME time \in Times, NEW c \in Counts
  PROVE  /\ Since(Counter, c) \in Counts
         /\ WrapsBefore(Wraps, Counter, c) \in 0 .. WRAPS - 1
         /\ WrapsBefore(Wraps, Counter, c) * PERIOD + c \in Times
         /\ Age(WrapsBefore(Wraps, Counter, c) * PERIOD + c) = Since(Counter, c)
<1> DEFINE w == WrapsBefore(Wraps, Counter, c)
           t == w * PERIOD + c
<1>1. /\ Counter \in Counts /\ Wraps \in 0 .. WRAPS - 1
      /\ time = Wraps * PERIOD + Counter
  BY TimeSplits
<1>2. w \in 0 .. WRAPS - 1
  BY <1>1, Positive DEF WrapsBefore, Counts
<1>3. w * PERIOD \in Nat /\ w * PERIOD <= Cycle - PERIOD
  BY <1>2, CycleIsLong
<1>4. t \in Times
  BY <1>3, CycleIsLong, Positive DEF Times, Counts
<1>5. Age(t) = IF t <= time THEN time - t ELSE (time - t) + Cycle
  BY <1>4, ElapsedIs DEF Age
<1>6. Wraps * PERIOD \in Nat /\ Wraps * PERIOD <= Cycle - PERIOD
  BY <1>1, CycleIsLong
<1>7. Since(Counter, c) \in Counts
  BY <1>1, Positive DEF Since, Counts
<1>8. CASE c <= Counter
  <2>1. w = Wraps
    BY <1>8 DEF WrapsBefore
  <2>2. time - t = Counter - c /\ t <= time
    BY <2>1, <1>1, <1>6, <1>8, Positive DEF Counts
  <2>3. QED
    BY <1>2, <1>4, <1>5, <1>7, <1>8, <2>2 DEF Since
<1>9. CASE c > Counter /\ Wraps # 0
  <2>1. w = Wraps - 1 /\ w * PERIOD = Wraps * PERIOD - PERIOD
    BY <1>1, <1>9, Positive DEF WrapsBefore, Counts
  <2>2. time - t = (Counter - c) + PERIOD /\ t <= time
    BY <2>1, <1>1, <1>6, <1>9, <1>3, Positive DEF Counts
  <2>3. ~ (c <= Counter)
    BY <1>1, <1>9, Positive DEF Counts
  <2>4. QED
    BY <1>2, <1>4, <1>5, <1>7, <2>2, <2>3 DEF Since
<1>10. CASE c > Counter /\ Wraps = 0
  <2>1. w = WRAPS - 1 /\ w * PERIOD = Cycle - PERIOD
    BY <1>1, <1>10, Positive DEF WrapsBefore, Counts, Cycle
  <2>2. (time - t) + Cycle = (Counter - c) + PERIOD /\ ~ (t <= time)
    BY <2>1, <1>1, <1>10, CycleIsLong, Positive DEF Counts
  <2>3. ~ (c <= Counter)
    BY <1>1, <1>10, Positive DEF Counts
  <2>4. QED
    BY <1>2, <1>4, <1>5, <1>7, <2>2, <2>3 DEF Since
<1>11. QED
  BY <1>1, <1>8, <1>9, <1>10, Positive DEF Counts
-------------------------------------------------------------------------------
LEMMA StillTime ==
  ASSUME time' = time
  PROVE  Counter' = Counter /\ Wraps' = Wraps
BY DEF Counter, Wraps

LEMMA Time32InCycle ==
  ASSUME NEW w \in Int, NEW c \in Counts
  PROVE  Time32(w, c) \in Times
<1>1. w % WRAPS \in 0 .. WRAPS - 1
  BY Positive
<1>2. (w % WRAPS) * PERIOD \in Nat /\ (w % WRAPS) * PERIOD <= Cycle - PERIOD
  BY <1>1, CycleIsLong
<1>3. QED
  BY <1>2, CycleIsLong, Positive DEF Time32, Times, Counts

LEMMA ZeroFits ==
  /\ 0 \in Times /\ 0 \in Counts /\ 0 \in 0 .. WRAPS - 1 /\ 0 \in 0 .. ROUND /\ 0 \in 0 .. SATURATED
  /\ Counts \subseteq Nat /\ 0 \in Nat /\ 0 \in Int
BY CycleIsLong, Positive DEF Times, Counts

\* What the steps of the main loop leave alone.
LEMMA MainLeaves ==
  ASSUME Main
  PROVE  UNCHANGED <<time, TimerOverflow, asserted, since, wrapCounter>>
<1>1. CASE NoFallingEdge
  BY <1>1 DEF NoFallingEdge, Access, SameHardware, FromNowOn
<1>2. CASE FallingEdge
  BY <1>2 DEF FallingEdge, Access, SameHardware, FromNowOn
<1>3. CASE ClearFlagB
  BY <1>3 DEF ClearFlagB, Access, SameHardware, FromNowOn
<1>4. CASE NoRisingEdge
  BY <1>4 DEF NoRisingEdge, Access, SameHardware, FromNowOn
<1>5. CASE RisingEdge
  BY <1>5 DEF RisingEdge, Access, SameHardware, FromNowOn
<1>6. CASE ReadCapture
  BY <1>6 DEF ReadCapture, Access, SameHardware, FromNowOn
<1>7. CASE ReadWraps
  BY <1>7 DEF ReadWraps, Access, SameHardware, FromNowOn
<1>8. CASE ReadCount
  BY <1>8 DEF ReadCount, Access, SameHardware, FromNowOn
<1>9. CASE ReadStatus
  BY <1>9 DEF ReadStatus, Access, SameHardware, FromNowOn
<1>10. CASE TakeBackWrap
  BY <1>10 DEF TakeBackWrap, Access, SameHardware, FromNowOn
<1>11. CASE ClearFlagA
  BY <1>11 DEF ClearFlagA, Access, SameHardware, FromNowOn
<1>12. CASE SampleBus
  BY <1>12 DEF SampleBus, Access, SameHardware, FromNowOn
<1>13. CASE BeginTimeStamp
  BY <1>13 DEF BeginTimeStamp, Access, SameHardware, FromNowOn
<1>14. CASE BeginIdleTime
  BY <1>14 DEF BeginIdleTime, Access, SameHardware, FromNowOn
<1>15. CASE ReadFirst
  BY <1>15 DEF ReadFirst, Access, SameHardware, FromNowOn
<1>16. CASE ReadWrapCounter
  BY <1>16 DEF ReadWrapCounter, Access, SameHardware, FromNowOn
<1>17. CASE ReadSecond
  BY <1>17 DEF ReadSecond, Access, SameHardware, FromNowOn
<1>18. CASE CheckWrapped
  BY <1>18 DEF CheckWrapped, Access, SameHardware, FromNowOn
<1>19. CASE ReadAgain
  BY <1>19 DEF ReadAgain, Access, SameHardware, FromNowOn
<1>20. CASE EndTimeStamp
  BY <1>20 DEF EndTimeStamp, Access, SameHardware, FromNowOn
<1>21. CASE NothingWanted
  BY <1>21 DEF NothingWanted, Access, SameHardware, FromNowOn
<1>22. CASE Busy
  BY <1>22 DEF Busy, Access, SameHardware, FromNowOn
<1>23. CASE IdleForEver
  BY <1>23 DEF IdleForEver, Access, SameHardware, FromNowOn
<1>24. CASE CompareIdleTime
  BY <1>24 DEF CompareIdleTime, Access, SameHardware, FromNowOn
<1>25. CASE CheckTransitions
  BY <1>25 DEF CheckTransitions, Access, SameHardware, FromNowOn
<1>26. CASE LastLook
  BY <1>26 DEF LastLook, Access, SameHardware, FromNowOn
<1>27. CASE WriteTxBuffer
  BY <1>27 DEF WriteTxBuffer, Access, SameHardware, FromNowOn
<1>28. QED
  BY <1>1, <1>2, <1>3, <1>4, <1>5, <1>6, <1>7, <1>8, <1>9, <1>10, <1>11, <1>12,
     <1>13, <1>14, <1>15, <1>16, <1>17, <1>18, <1>19, <1>20, <1>21, <1>22,
     <1>23, <1>24, <1>25, <1>26, <1>27 DEF Main, Poll, ReadTime, Transmit

LEMMA TimerTypeStarts ==
  ASSUME InitializeTimers PROVE TimerTypeOK
<1>1. Counter \in Counts
  BY ZeroFits, TimeSplits DEF InitializeTimers
<1>2. J1708_last_transition_time \in Times
  BY <1>1, ZeroFits, Time32InCycle DEF InitializeTimers, StartJ1708IdleTimer
<1>3. J1708_bus_not_idle \in BOOLEAN /\ late \in BOOLEAN
  BY DEF InitializeTimers
<1>4. QED
  BY <1>2, <1>3, ZeroFits DEF InitializeTimers, StartJ1708IdleTimer, TimerTypeOK, pcs,
     AfterEdge

LEMMA TimerTypeNext ==
  ASSUME TimerTypeOK, [TimerNext]_timerVars PROVE TimerTypeOK'
<1>1. Counter \in Counts /\ Counter \in Nat /\ Counter \in Int
  BY TimeSplits DEF TimerTypeOK, Counts
<1> USE DEF TimerTypeOK, InputCaptureFlagA, AfterEdge, pcs
<1>2. CASE Tick
  <2>1. time' \in Times
    BY <1>2, TickCounts DEF Tick
  <2>2. since' \in Nat
    BY <1>2 DEF Tick
  <2>3. QED
    BY <1>2, <2>1, <2>2, Positive DEF Tick, Looking, idleVars, localVars
<1>3. CASE Edge
  <2>1. asserted' \in BOOLEAN /\ InputCaptureFlagB' \in BOOLEAN
    BY <1>3 DEF Edge
  <2>2. /\ InputCaptureA' \in {None} \cup Counts
        /\ InputCaptureA \in Counts => InputCaptureA' \in Counts
    BY <1>1, <1>3 DEF Edge
  <2>3. since' \in Nat
    BY <1>3 DEF Edge
  <2>4. QED
    BY <1>3, <2>1, <2>2, <2>3 DEF Edge, idleVars, localVars
<1>4. CASE Timer1IRQ
  <2>1. wrapCounter' \in 0 .. WRAPS - 1
    BY <1>4, Positive DEF Timer1IRQ
  <2>2. J1708_idle_time' \in 0 .. SATURATED
    BY <1>4, Positive DEF Timer1IRQ, MoreIdle
  <2>3. QED
    BY <1>4, <2>1, <2>2 DEF Timer1IRQ, localVars
<1>5. CASE Want
  BY <1>5 DEF Want, hardwareVars, idleVars, localVars
<1>6. CASE NoFallingEdge
  BY <1>1, <1>6, ZeroFits DEF NoFallingEdge, Access, SameHardware, SameEdges,
     Forget, FromNowOn, idleVars, localVars
<1>7. CASE FallingEdge
  BY <1>1, <1>7, ZeroFits DEF FallingEdge, Access, SameHardware, SameEdges,
     Forget, FromNowOn, idleVars, localVars
<1>8. CASE ClearFlagB
  BY <1>1, <1>8, ZeroFits DEF ClearFlagB, Access, SameHardware, SameEdges,
     Forget, FromNowOn, idleVars, localVars
<1>9. CASE NoRisingEdge
  BY <1>1, <1>9, ZeroFits DEF NoRisingEdge, Access, SameHardware, SameEdges,
     Forget, FromNowOn, idleVars, localVars
<1>10. CASE RisingEdge
  BY <1>1, <1>10, ZeroFits DEF RisingEdge, Access, SameHardware, SameEdges,
     Forget, FromNowOn, idleVars, localVars
<1>11. CASE ReadCapture
  <2>1. t1' \in Counts
    BY <1>11 DEF ReadCapture, Access
  <2>2. t1' \in Int
    BY <2>1 DEF Counts
  <2>3. QED
    BY <1>11, <2>1, <2>2 DEF ReadCapture, Access, SameHardware, SameEdges, idleVars
<1>12. CASE ReadWraps
  BY <1>1, <1>12, ZeroFits DEF ReadWraps, Access, SameHardware, SameEdges,
     Forget, FromNowOn, idleVars, localVars
<1>13. CASE ReadCount
  BY <1>1, <1>13, ZeroFits DEF ReadCount, Access, SameHardware, SameEdges,
     Forget, FromNowOn, idleVars, localVars
<1>14. CASE ReadStatus
  BY <1>1, <1>14, ZeroFits DEF ReadStatus, WrappedSince, Access, SameHardware,
     SameEdges, Forget, FromNowOn, idleVars, localVars
<1>15. CASE TakeBackWrap
  BY <1>1, <1>15, ZeroFits DEF TakeBackWrap, Access, SameHardware, SameEdges,
     Forget, FromNowOn, idleVars, localVars
<1>16. CASE ClearFlagA
  <2>1. J1708_last_transition_time' \in Times
    BY <1>16, Time32InCycle DEF ClearFlagA, Access
  <2>2. QED
    BY <1>16, <2>1, ZeroFits DEF ClearFlagA, Access, SameHardware, Forget
<1>17. CASE SampleBus
  <2>1. late' \in BOOLEAN
    BY <1>17 DEF SampleBus, Access
  <2>2. CASE asserted
    BY <1>1, <1>17, <2>1, <2>2, ZeroFits DEF SampleBus, Access, SameHardware,
       SameEdges, Forget, FromNowOn, idleVars, localVars
  <2>3. CASE ~asserted
    BY <1>1, <1>17, <2>1, <2>3, ZeroFits DEF SampleBus, Access, SameHardware,
       SameEdges, Forget, FromNowOn, idleVars, localVars
  <2>4. QED
    BY <2>2, <2>3
<1>18. CASE BeginTimeStamp
  BY <1>1, <1>18, ZeroFits DEF BeginTimeStamp, Access, SameHardware, SameEdges,
     Forget, FromNowOn, idleVars, localVars
<1>19. CASE BeginIdleTime
  BY <1>1, <1>19, ZeroFits DEF BeginIdleTime, Access, SameHardware, SameEdges,
     Forget, FromNowOn, idleVars, localVars
<1>20. CASE ReadFirst
  BY <1>1, <1>20, ZeroFits DEF ReadFirst, Access, SameHardware, SameEdges,
     Forget, FromNowOn, idleVars, localVars
<1>21. CASE ReadWrapCounter
  BY <1>1, <1>21, ZeroFits DEF ReadWrapCounter, Access, SameHardware,
     SameEdges, Forget, FromNowOn, idleVars, localVars
<1>22. CASE ReadSecond
  BY <1>1, <1>22, ZeroFits DEF ReadSecond, Access, SameHardware, SameEdges,
     Forget, FromNowOn, idleVars, localVars
<1>23. CASE CheckWrapped
  BY <1>1, <1>23, ZeroFits DEF CheckWrapped, Wrapped, Use, Access,
     SameHardware, SameEdges, Forget, FromNowOn, idleVars, localVars
<1>24. CASE ReadAgain
  BY <1>1, <1>24, ZeroFits DEF ReadAgain, Use, Access, SameHardware, SameEdges,
     Forget, FromNowOn, idleVars, localVars
<1>25. CASE EndTimeStamp
  BY <1>1, <1>25, ZeroFits DEF EndTimeStamp, Access, SameHardware, SameEdges,
     Forget, FromNowOn, idleVars, localVars
<1>26. CASE NothingWanted
  BY <1>1, <1>26, ZeroFits DEF NothingWanted, Access, SameHardware, SameEdges,
     Forget, FromNowOn, idleVars, localVars
<1>27. CASE Busy
  BY <1>1, <1>27, ZeroFits DEF Busy, Access, SameHardware, SameEdges, Forget,
     FromNowOn, idleVars, localVars
<1>28. CASE IdleForEver
  BY <1>1, <1>28, ZeroFits DEF IdleForEver, Access, SameHardware, SameEdges,
     Forget, FromNowOn, idleVars, localVars
<1>29. CASE CompareIdleTime
  <2>1. late' \in BOOLEAN
    BY <1>29 DEF CompareIdleTime, Access
  <2>2. CASE pc' = "sync"
    BY <1>1, <1>29, <2>1, <2>2, ZeroFits DEF CompareIdleTime, Access,
       SameHardware, SameEdges, Forget, FromNowOn, idleVars, localVars
  <2>3. CASE pc' # "sync"
    BY <1>1, <1>29, <2>1, <2>3, ZeroFits DEF CompareIdleTime, Access,
       SameHardware, SameEdges, Forget, FromNowOn, idleVars, localVars
  <2>4. QED
    BY <2>2, <2>3
<1>30. CASE CheckTransitions
  <2>1. late' \in BOOLEAN
    BY <1>30 DEF CheckTransitions, Access
  <2>2. CASE pc' = "look"
    BY <1>1, <1>30, <2>1, <2>2, ZeroFits DEF CheckTransitions,
       UNHANDELED_BUS_TRANSITION, Access, SameHardware, SameEdges, Forget,
       FromNowOn, idleVars, localVars
  <2>3. CASE pc' # "look"
    BY <1>1, <1>30, <2>1, <2>3, ZeroFits DEF CheckTransitions,
       UNHANDELED_BUS_TRANSITION, Access, SameHardware, SameEdges, Forget,
       FromNowOn, idleVars, localVars
  <2>4. QED
    BY <2>2, <2>3
<1>31. CASE LastLook
  <2>1. late' \in BOOLEAN
    BY <1>31 DEF LastLook, Access
  <2>2. CASE asserted
    BY <1>1, <1>31, <2>1, <2>2, ZeroFits DEF LastLook, Access, SameHardware,
       SameEdges, Forget, FromNowOn, idleVars, localVars
  <2>3. CASE ~asserted
    BY <1>1, <1>31, <2>1, <2>3, ZeroFits DEF LastLook, Access, SameHardware,
       SameEdges, Forget, FromNowOn, idleVars, localVars
  <2>4. QED
    BY <2>2, <2>3
<1>32. CASE WriteTxBuffer
  BY <1>1, <1>32, ZeroFits DEF WriteTxBuffer, Access, SameHardware, SameEdges,
     Forget, FromNowOn, idleVars, localVars
<1>33. CASE UNCHANGED timerVars
  BY <1>33 DEF timerVars, hardwareVars, idleVars, localVars
<1>34. QED
  BY <1>2, <1>3, <1>4, <1>5, <1>6, <1>7, <1>8, <1>9, <1>10, <1>11, <1>12,
     <1>13, <1>14, <1>15, <1>16, <1>17, <1>18, <1>19, <1>20, <1>21, <1>22,
     <1>23, <1>24, <1>25, <1>26, <1>27, <1>28, <1>29, <1>30, <1>31, <1>32,
     <1>33
     DEF TimerNext, Main, Poll, ReadTime, Transmit
-------------------------------------------------------------------------------
\* The reading of a time: what a tick does to what has been read.
LEMMA TickBegan ==
  ASSUME TimerTypeOK, Tick, Age(began) <= lag
  PROVE  Elapsed(began', time') = Age(began) + 1 /\ Age(began) + 1 <= lag'
<1>1. /\ time \in Times /\ began \in Times /\ lag \in Nat /\ lag < ROUND
      /\ time' = (time + 1) % Cycle /\ began' = began /\ lag' = lag + 1
  BY DEF TimerTypeOK, Tick, localVars
<1>2. Age(began) \in Nat /\ Age(began) < Cycle - 1
  BY <1>1, AgesAre, CycleIsLong, Positive
<1>3. QED
  BY <1>1, <1>2, TickAges

LEMMA TickCountRead ==
  ASSUME TimerTypeOK, Tick, Age(began) <= lag, NEW c, CountRead(c)
  PROVE  /\ c \in Counts /\ Since(Counter', c) <= Elapsed(began', time')
         /\ TimerOverflow' \/ c <= Counter'
<1>1. /\ time \in Times /\ began \in Times /\ lag \in Nat /\ lag < ROUND
      /\ time' = (time + 1) % Cycle
  BY DEF TimerTypeOK, Tick
<1>2. Age(began) \in Nat /\ c \in Counts /\ Counter \in Counts /\ Since(Counter, c) \in Counts
  BY <1>1, AgesAre, TimeSplits, AgeOfCount DEF CountRead
<1>3. Since(Counter, c) <= Age(began)
  BY DEF CountRead
<1>4. Since(Counter, c) < PERIOD - 1
  BY <1>1, <1>2, <1>3, Positive DEF Counts
<1>5. Since(Counter', c) = Since(Counter, c) + 1
  BY <1>1, <1>2, <1>4, TickSince
<1>6. Elapsed(began', time') = Age(began) + 1
  BY TickBegan
<1>7. TimerOverflow' \/ c <= Counter'
  <2>1. CASE TimerOverflow \/ Counter = PERIOD - 1
    BY <2>1 DEF Tick
  <2>2. CASE ~TimerOverflow /\ Counter # PERIOD - 1
    <3>1. c <= Counter
      BY <2>2 DEF CountRead
    <3>2. QED
      BY <3>1, <2>2, <1>1, <1>2, TickCounts DEF Counts
  <2>3. QED
    BY <2>1, <2>2
<1>8. QED
  BY <1>2, <1>3, <1>5, <1>6, <1>7 DEF Counts

LEMMA TickTimeRead ==
  ASSUME TimerTypeOK, Tick, Age(began) <= lag, NEW t, TimeRead(t)
  PROVE  t \in Times /\ Elapsed(t, time') <= Elapsed(began', time')
<1>1. /\ time \in Times /\ began \in Times /\ lag \in Nat /\ lag < ROUND /\ t \in Times
      /\ time' = (time + 1) % Cycle
  BY DEF TimerTypeOK, Tick, TimeRead
<1>2. /\ Age(began) \in Nat /\ Age(t) \in Nat /\ Age(t) <= Age(began)
      /\ Age(t) < Cycle - 1
  BY <1>1, AgesAre, CycleIsLong, Positive DEF TimeRead
<1>3. Elapsed(t, time') = Age(t) + 1
  BY <1>1, <1>2, TickAges
<1>4. QED
  BY <1>1, <1>2, <1>3, TickBegan

\* A count that was read, with the wraps when it was: a time since began.
LEMMA ReadTogether ==
  ASSUME time \in Times, began \in Times, NEW c, CountRead(c), NEW w \in Int,
         w % WRAPS = WrapsBefore(Wraps, Counter, c)
  PROVE  TimeRead(Time32(w, c))
<1>1. c \in Counts
  BY DEF CountRead
<1>2. Time32(w, c) = WrapsBefore(Wraps, Counter, c) * PERIOD + c
  BY DEF Time32
<1>3. QED
  BY <1>1, <1>2, AgeOfCount DEF TimeRead, CountRead

LEMMA CountInvNext ==
  ASSUME TimerTypeOK, CountInv, [TimerNext]_timerVars PROVE CountInv'
<1>1. CASE Tick
  <2>1. TimerOverflow' = (TimerOverflow \/ Counter = PERIOD - 1) /\ wrapCounter' = wrapCounter
        /\ ~(TimerOverflow /\ Counter = PERIOD - 1)
    BY <1>1 DEF Tick
  <2>2. /\ Counter # PERIOD - 1 => Wraps' = Wraps
        /\ Counter = PERIOD - 1 => Wraps' = After(Wraps)
    BY <1>1, TickCounts DEF Tick, TimerTypeOK
  <2>3. CASE Counter = PERIOD - 1
    BY <2>1, <2>2, <2>3 DEF CountInv, After
  <2>4. CASE Counter # PERIOD - 1
    BY <2>1, <2>2, <2>4 DEF CountInv, After
  <2>5. QED
    BY <2>3, <2>4
<1>2. CASE Timer1IRQ
  <2>1. wrapCounter' = After(wrapCounter)
    BY <1>2, Positive DEF Timer1IRQ, After, TimerTypeOK
  <2>2. Wraps' = Wraps
    BY <1>2, StillTime DEF Timer1IRQ
  <2>3. QED
    BY <1>2, <2>1, <2>2 DEF CountInv, Timer1IRQ
<1>3. CASE Edge \/ Want \/ Main \/ UNCHANGED timerVars
  <2>1. UNCHANGED <<time, TimerOverflow, wrapCounter>>
    BY <1>3, MainLeaves DEF Edge, Want, hardwareVars, timerVars
  <2>2. Wraps' = Wraps
    BY <2>1, StillTime
  <2>3. QED
    BY <2>1, <2>2 DEF CountInv, After
<1>4. QED
  BY <1>1, <1>2, <1>3 DEF TimerNext

LEMMA TimeInvNext ==
  ASSUME TimeInv, [TimerNext]_timerVars PROVE TimeInv'
<1>1. TimerTypeOK' /\ CountInv'
  BY TimerTypeNext, CountInvNext DEF TimeInv
<1>2. /\ time \in Times /\ began \in Times /\ Counter \in Counts /\ lag \in Nat
      /\ Wraps \in 0 .. WRAPS - 1 /\ wrapCounter \in 0 .. WRAPS - 1
      /\ Age(began) \in Nat /\ Counter \in Int /\ wrapCounter \in Int
  BY TimeSplits, AgesAre DEF TimeInv, TimerTypeOK, Counts
<1>3. ReadInv'
  <2>1. CASE Tick
    <3>1. UNCHANGED <<pc, t1, t2, t3, began, wrapCounter>>
      BY <2>1 DEF Tick, localVars
    <3>2. TimerOverflow => TimerOverflow'
      BY <2>1 DEF Tick
    <3>3. (Reading \/ Using) => Age(began) <= lag
      BY DEF TimeInv, ReadInv
    <3>4. (Reading \/ Using)' => Age(began)' <= lag'
      BY <3>1, <3>3, <2>1, TickBegan DEF TimeInv, Reading, Using, Age
    <3>5. (pc \in {"read2", "read3", "read4"} => CountRead(t2))'
      BY <3>1, <3>3, <2>1, TickCountRead DEF TimeInv, ReadInv, Reading, CountRead, Age
    <3>6. (pc = "read4" => CountRead(t3))'
      BY <3>1, <3>3, <2>1, TickCountRead DEF TimeInv, ReadInv, Reading, CountRead, Age
    <3>7. (Using => TimeRead(Time32(t1, t2)) /\ TimeRead(Time32(t1, t3)))'
      <4>1. SUFFICES ASSUME Using
                     PROVE  (TimeRead(Time32(t1, t2)) /\ TimeRead(Time32(t1, t3)))'
        BY <3>1 DEF Using
      <4>2. (Time32(t1, t2))' = Time32(t1, t2) /\ (Time32(t1, t3))' = Time32(t1, t3)
        BY <3>1 DEF Time32
      <4>3. TimeRead(Time32(t1, t2)) /\ TimeRead(Time32(t1, t3)) /\ Age(began) <= lag
        BY <4>1 DEF TimeInv, ReadInv
      <4>4. QED
        BY <4>2, <4>3, <2>1, TickTimeRead DEF TimeInv, TimeRead, Age
    <3>8. QED
      BY <3>1, <3>2, <3>4, <3>5, <3>6, <3>7 DEF TimeInv, ReadInv
  <2>2. CASE Edge \/ Want \/ UNCHANGED timerVars
    <3>1. UNCHANGED <<time, TimerOverflow, lag, wrapCounter, pc, t1, t2, t3, began>>
      BY <2>2 DEF Edge, Want, hardwareVars, localVars, timerVars
    <3>2. QED
      BY <3>1, StillTime DEF TimeInv, ReadInv, Reading, Using, CountRead, TimeRead, Age, Time32
  <2>3. CASE Timer1IRQ
    <3>1. UNCHANGED <<time, lag, pc, t1, t2, t3, began>> /\ ~Reading
      BY <2>3 DEF Timer1IRQ, localVars, IRQsOff, Reading
    <3>2. QED
      BY <3>1, StillTime DEF TimeInv, ReadInv, Reading, Using, TimeRead, Age, Time32
  <2>4. CASE Main
    <3>1. UNCHANGED <<time, TimerOverflow, wrapCounter>> /\ Counter' = Counter /\ Wraps' = Wraps
      BY <2>4, MainLeaves, StillTime
    <3>2. CASE Poll \/ Transmit \/ EndTimeStamp
      <4>1. ~Reading' /\ ~Using'
        BY <3>2 DEF Poll, Transmit, NoFallingEdge, FallingEdge, ClearFlagB,
           NoRisingEdge, RisingEdge, ReadCapture, ReadWraps, ReadCount,
           ReadStatus, TakeBackWrap, ClearFlagA, SampleBus, NothingWanted,
           Busy, IdleForEver, CompareIdleTime, CheckTransitions, LastLook,
           WriteTxBuffer, EndTimeStamp, Access, Reading, Using
      <4>2. QED
        BY <4>1 DEF ReadInv, Reading, Using
    <3>3. CASE BeginTimeStamp \/ BeginIdleTime
      <4>1. pc' = "read1" /\ began' = time /\ lag' = lag
        BY <3>3 DEF BeginTimeStamp, BeginIdleTime, FromNowOn, Access
      <4>2. Elapsed(time, time) = 0
        BY <1>2, ElapsedIs DEF Times
      <4>3. QED
        BY <4>1, <4>2, <3>1, <1>2 DEF ReadInv, Using, Age
    <3>4. CASE ReadFirst
      <4>1. pc = "read1" /\ pc' = "read2" /\ t2' = Counter /\ UNCHANGED <<began, lag>>
        BY <3>4 DEF ReadFirst, Access
      <4>2. Since(Counter, Counter) = 0
        BY <1>2 DEF Since
      <4>3. CountRead(t2)' /\ Age(began)' <= lag'
        BY <4>1, <4>2, <3>1, <1>2 DEF CountRead, Age, Reading, TimeInv, ReadInv
      <4>4. QED
        BY <4>1, <4>3 DEF ReadInv, Using
    <3>5. CASE ReadWrapCounter
      <4>1. pc = "read2" /\ pc' = "read3" /\ t1' = wrapCounter /\ UNCHANGED <<t2, began, lag>>
        BY <3>5 DEF ReadWrapCounter, Access
      <4>2. CountRead(t2)' /\ Age(began)' <= lag'
        BY <4>1, <3>1 DEF CountRead, Age, Reading, TimeInv, ReadInv
      <4>3. QED
        BY <4>1, <4>2, <3>1 DEF ReadInv, Using
    <3>6. CASE ReadSecond
      <4>1. pc = "read3" /\ pc' = "read4" /\ t3' = Counter /\ UNCHANGED <<t1, t2, began, lag>>
        BY <3>6 DEF ReadSecond, Access
      <4>2. Since(Counter, Counter) = 0
        BY <1>2 DEF Since
      <4>3. CountRead(t2)' /\ CountRead(t3)' /\ Age(began)' <= lag'
        BY <4>1, <4>2, <3>1, <1>2 DEF CountRead, Age, Reading, TimeInv, ReadInv
      <4>4. TimerOverflow \/ t2 <= Counter
        BY <4>1 DEF TimeInv, ReadInv, CountRead
      <4>5. QED
        BY <4>1, <4>3, <4>4, <3>1 DEF ReadInv, Using, TimeInv
    <3>7. CASE CheckWrapped /\ pc' = "read5"
      <4>1. pc = "read4" /\ Wrapped /\ UNCHANGED <<t1, t2, t3, began, lag>>
        BY <3>7 DEF CheckWrapped, Access, Use, localVars
      <4>2. TimerOverflow
        BY <4>1, <1>2 DEF Wrapped, TimeInv, ReadInv, CountRead, Counts
      <4>3. QED
        BY <4>1, <4>2, <3>1, <3>7 DEF ReadInv, Using, Reading, Age, TimeInv
    <3>8. CASE CheckWrapped /\ pc' # "read5"
      <4>1. /\ pc = "read4" /\ pc' \in {"stamp", "compare"} /\ ~Wrapped
            /\ UNCHANGED <<t1, t2, t3, began, lag>>
        BY <3>8 DEF CheckWrapped, Access, Use, localVars
      <4>2. /\ ~TimerOverflow /\ t1 = wrapCounter /\ wrapCounter = Wraps
            /\ CountRead(t2) /\ CountRead(t3) /\ t2 <= Counter /\ t3 <= Counter
            /\ Age(began) <= lag
        BY <4>1 DEF Wrapped, TimeInv, ReadInv, CountRead, CountInv, Reading
      <4>3. t1 \in Int /\ t1 % WRAPS = Wraps
        BY <4>2, <1>2, Positive
      <4>4. t1 % WRAPS = WrapsBefore(Wraps, Counter, t2) /\ t1 % WRAPS = WrapsBefore(Wraps, Counter, t3)
        BY <4>2, <4>3 DEF WrapsBefore
      <4>5. TimeRead(Time32(t1, t2)) /\ TimeRead(Time32(t1, t3))
        BY <4>2, <4>3, <4>4, <1>2, ReadTogether
      <4>6. QED
        BY <4>1, <4>2, <4>5, <3>1 DEF ReadInv, Using, Reading, TimeRead, Age, Time32
    <3>9. CASE ReadAgain
      <4>1. /\ pc = "read5" /\ pc' \in {"stamp", "compare"}
            /\ t1' = t1 + 1 /\ t2' = Counter /\ t3' = Counter /\ UNCHANGED <<began, lag>>
        BY <3>9 DEF ReadAgain, Access, Use
      <4>2. TimerOverflow /\ t1 = wrapCounter /\ Age(began) <= lag
        BY <4>1 DEF TimeInv, ReadInv, Reading
      <4>3. t1 + 1 \in Int /\ (t1 + 1) % WRAPS = Wraps
        BY <4>2, <1>2, Positive DEF TimeInv, CountInv, After
      <4>4. Since(Counter, Counter) = 0 /\ WrapsBefore(Wraps, Counter, Counter) = Wraps
        BY <1>2 DEF Since, WrapsBefore
      <4>5. CountRead(Counter)
        BY <4>4, <1>2 DEF CountRead
      <4>6. TimeRead(Time32(t1 + 1, Counter))
        BY <4>3, <4>4, <4>5, <1>2, ReadTogether
      <4>7. QED
        BY <4>1, <4>2, <4>6, <3>1 DEF ReadInv, Using, Reading, TimeRead, Age, Time32
    <3>10. QED
      BY <2>4, <3>2, <3>3, <3>4, <3>5, <3>6, <3>7, <3>8, <3>9 DEF Main, ReadTime
  <2>5. QED
    BY <2>1, <2>2, <2>3, <2>4 DEF TimerNext
<1>4. QED
  BY <1>1, <1>3 DEF TimeInv

LEMMA TimeInvStarts ==
  ASSUME InitializeTimers PROVE TimeInv
<1>1. TimerTypeOK
  BY TimerTypeStarts
<1>2. Wraps = 0
  BY Positive DEF InitializeTimers, Wraps
<1>3. QED
  BY <1>1, <1>2 DEF InitializeTimers, TimeInv, CountInv, ReadInv, Reading, Using

LEMMA TimeInvGivesTimeIsTrue ==
  ASSUME TimeInv PROVE TimeIsTrue
<1>1. SUFFICES ASSUME Using
               PROVE  /\ Elapsed(began, Time32(t1, t2)) <= Elapsed(began, time)
                      /\ Elapsed(began, Time32(t1, t3)) <= Elapsed(began, time)
  BY DEF TimeIsTrue, Using
<1>2. ASSUME NEW t, TimeRead(t)
      PROVE  Elapsed(began, t) <= Elapsed(began, time)
  <2>1. time \in Times /\ began \in Times /\ t \in Times /\ Age(t) <= Age(began)
    BY <1>2 DEF TimeInv, TimerTypeOK, TimeRead
  <2>2. /\ Age(t) = IF t <= time THEN time - t ELSE (time - t) + Cycle
        /\ Age(began) = IF began <= time THEN time - began ELSE (time - began) + Cycle
        /\ Elapsed(began, t) = IF began <= t THEN t - began ELSE (t - began) + Cycle
    BY <2>1, ElapsedIs DEF Age
  <2>3. QED
    BY <2>1, <2>2, CycleIsLong DEF Times, Age
<1>3. QED
  BY <1>1, <1>2 DEF TimeInv, ReadInv

\* A time that was read is a time there was between the beginning and the end of
\* the reading, wherever in between the counter wrapped and the interrupt was
\* served, for every size of the counter (timers.c:161).
THEOREM TimesReadAreTrue == TimerSpec => []TimeIsTrue
<1>1. InitializeTimers => TimeInv
  BY TimeInvStarts
<1>2. TimeInv /\ [TimerNext]_timerVars => TimeInv'
  BY TimeInvNext
<1>3. TimeInv => TimeIsTrue
  BY TimeInvGivesTimeIsTrue
<1>4. QED
  BY <1>1, <1>2, <1>3, PTL DEF TimerSpec
-------------------------------------------------------------------------------
\* The edges of the bus.  An interrupt that the main loop lets wait is late.
LEMMA MainIsPrompt ==
  ASSUME Main, pc' \in {"clearB", "edge", "capture", "wrap", "count", "status", "back", "clearA"}
  PROVE  /\ TimerOverflow => late' /\ ~late
         /\ pc \in {"poll", "clearB", "edge", "capture", "wrap", "count", "status", "back"}
BY DEF Main, Poll, ReadTime, Transmit, NoFallingEdge, FallingEdge, ClearFlagB,
   NoRisingEdge, RisingEdge, ReadCapture, ReadWraps, ReadCount, ReadStatus,
   TakeBackWrap, ClearFlagA, SampleBus, BeginTimeStamp, BeginIdleTime,
   ReadFirst, ReadWrapCounter, ReadSecond, CheckWrapped, ReadAgain,
   EndTimeStamp, NothingWanted, Busy, IdleForEver, CompareIdleTime,
   CheckTransitions, LastLook, WriteTxBuffer, WrappedSince, Wrapped, Use,
   UNHANDELED_BUS_TRANSITION, Access, IRQsOff

LEMMA SpanInvNext ==
  ASSUME TimerTypeOK, SpanInv, [TimerNext]_timerVars PROVE SpanInv'
<1>1. Counter \in Counts /\ Counter \in Nat /\ span \in Nat /\ LOOK \in Nat
  BY TimeSplits, Positive DEF TimerTypeOK, Counts
<1>2. CASE Tick
  <2>1. /\ pc' = pc /\ late' = late /\ TimerOverflow' = (TimerOverflow \/ Counter = PERIOD - 1)
        /\ ~(TimerOverflow /\ Counter = PERIOD - 1)
        /\ span' = (IF Looking THEN span + 1 ELSE 0) /\ (Looking => span < LOOK)
    BY <1>2 DEF Tick
  <2>2. Looking' = Looking
    BY <2>1 DEF Looking
  <2>3. Counter # PERIOD - 1 => Counter' = Counter + 1
    BY <1>2, TickCounts DEF Tick, TimerTypeOK
  <2>4. Counter = PERIOD - 1 => Counter' = 0
    BY <1>2, TickCounts DEF Tick, TimerTypeOK
  <2>5. (pc = "edge" /\ TimerOverflow /\ ~late => Counter <= span)'
    <3>1. SUFFICES ASSUME pc = "edge", TimerOverflow', ~late PROVE Counter' <= span'
      BY <2>1
    <3>2. Looking
      BY <3>1 DEF Looking
    <3>3. CASE Counter = PERIOD - 1
      BY <3>2, <3>3, <2>1, <2>4, <1>1
    <3>4. CASE Counter # PERIOD - 1
      <4>1. TimerOverflow
        BY <3>1, <3>4, <2>1
      <4>2. Counter <= span
        BY <4>1, <3>1 DEF SpanInv
      <4>3. QED
        BY <4>2, <3>2, <3>4, <2>1, <2>3, <1>1
    <3>5. QED
      BY <3>3, <3>4
  <2>6. (Looking => span <= LOOK)' /\ (~Looking => span = 0)'
    BY <2>1, <2>2, <1>1
  <2>7. QED
    BY <2>5, <2>6 DEF SpanInv
<1>3. CASE Edge \/ Want \/ UNCHANGED timerVars
  <2>1. UNCHANGED <<time, TimerOverflow, span, late, pc>>
    BY <1>3 DEF Edge, Want, hardwareVars, localVars, timerVars
  <2>2. QED
    BY <2>1, StillTime DEF SpanInv, Looking
<1>4. CASE Timer1IRQ
  <2>1. UNCHANGED <<time, span, pc>> /\ ~TimerOverflow'
    BY <1>4 DEF Timer1IRQ
  <2>2. QED
    BY <2>1, StillTime DEF SpanInv, Looking
<1>5. CASE Main
  <2>1. TimerOverflow' = TimerOverflow
    BY <1>5, MainLeaves
  <2>2. pc' = "edge" /\ TimerOverflow' => late'
    BY <1>5, <2>1, MainIsPrompt
  <2>3. \/ span' = span /\ Looking' = Looking
        \/ span' = span /\ pc = "poll" /\ Looking'
        \/ span' = 0 /\ ~Looking'
    BY <1>5 DEF Main, Poll, ReadTime, Transmit, NoFallingEdge, FallingEdge,
       ClearFlagB, NoRisingEdge, RisingEdge, ReadCapture, ReadWraps, ReadCount,
       ReadStatus, TakeBackWrap, ClearFlagA, SampleBus, BeginTimeStamp,
       BeginIdleTime, ReadFirst, ReadWrapCounter, ReadSecond, CheckWrapped,
       ReadAgain, EndTimeStamp, NothingWanted, Busy, IdleForEver,
       CompareIdleTime, CheckTransitions, LastLook, WriteTxBuffer,
       WrappedSince, Wrapped, Use, UNHANDELED_BUS_TRANSITION, Access, Looking,
       FromNowOn
  <2>4. (Looking => span <= LOOK)' /\ (~Looking => span = 0)'
    <3>1. CASE span' = span /\ Looking' = Looking
      BY <3>1 DEF SpanInv
    <3>2. CASE span' = span /\ pc = "poll" /\ Looking'
      <4>1. span = 0
        BY <3>2 DEF SpanInv, Looking
      <4>2. QED
        BY <3>2, <4>1, <1>1
    <3>3. QED
      BY <2>3, <3>1, <3>2
  <2>5. QED
    BY <2>2, <2>4 DEF SpanInv
<1>6. QED
  BY <1>2, <1>3, <1>4, <1>5 DEF TimerNext

\* A captured edge that has not been dealt with grows older by a tick.
LEMMA TickCapture ==
  ASSUME TimerTypeOK, CaptureInv, InputCaptureFlagA, Tick
  PROVE  /\ InputCaptureA \in Counts /\ Since(Counter, InputCaptureA) \in Counts
         /\ Since(Counter, InputCaptureA) < PERIOD - 1
         /\ Since(Counter', InputCaptureA) = Since(Counter, InputCaptureA) + 1
         /\ WrapsBefore(Wraps', Counter', InputCaptureA) = WrapsBefore(Wraps, Counter, InputCaptureA)
<1>1. /\ time \in Times /\ InputCaptureA \in Counts /\ lag \in Nat /\ lag < ROUND
      /\ time' = (time + 1) % Cycle
  BY DEF TimerTypeOK, InputCaptureFlagA, Tick
<1>2. Since(Counter, InputCaptureA) <= lag
  BY DEF CaptureInv
<1>3. Since(Counter, InputCaptureA) \in Counts
  BY <1>1, AgeOfCount
<1>4. Since(Counter, InputCaptureA) < PERIOD - 1
  BY <1>1, <1>2, <1>3, Positive DEF Counts
<1>5. QED
  BY <1>1, <1>3, <1>4, TickSince

LEMMA NoneIsNoCount == None \notin Counts
BY DEF None, Counts

\* The bus does not rise a second time before the first rise has been dealt with.
LEMMA OneRise ==
  ASSUME InTime, TimerTypeOK, CaptureInv, Edge, asserted
  PROVE  ~InputCaptureFlagA /\ ~AfterEdge
<1>1. since \in Nat /\ since >= BIT /\ lag \in Nat /\ lag <= ROUND
  BY Positive DEF TimerTypeOK, Edge
<1>2. ~InputCaptureFlagA
  <2>1. SUFFICES ASSUME InputCaptureFlagA PROVE FALSE
    OBVIOUS
  <2>2. /\ Since(Counter, InputCaptureA) <= lag
        /\ Since(Counter, InputCaptureA) >= since + BIT
    BY <2>1 DEF CaptureInv
  <2>3. Since(Counter, InputCaptureA) \in Nat
    BY <2>1, AgeOfCount DEF TimerTypeOK, InputCaptureFlagA, Counts
  <2>4. QED
    BY <2>2, <2>3, <1>1, Positive DEF InTime
<1>3. QED
  BY <1>2, NoneIsNoCount DEF TimerTypeOK, InputCaptureFlagA

LEMMA CaptureInvNext ==
  ASSUME InTime, TimerTypeOK, CaptureInv, [TimerNext]_timerVars PROVE CaptureInv'
<1>1. /\ Counter \in Counts /\ since \in Nat /\ lag \in Nat /\ BIT \in Nat
      /\ BIT > 0 /\ time \in Times /\ asserted \in BOOLEAN /\ Counter \in Nat
  BY TimeSplits, Positive DEF TimerTypeOK, Counts
<1>2. CASE Tick
  <2>1. /\ UNCHANGED <<pc, late, t1, InputCaptureA, asserted>> /\ lag' = lag + 1
        /\ TimerOverflow' = (TimerOverflow \/ Counter = PERIOD - 1)
        /\ since' = IF since >= Long THEN since ELSE since + 1
    BY <1>2 DEF Tick, localVars
  <2>2. /\ Counter # PERIOD - 1 => Counter' = Counter + 1
        /\ Counter = PERIOD - 1 => Counter' = 0
    BY <1>2, TickCounts DEF Tick, TimerTypeOK
  <2>3. ASSUME InputCaptureFlagA
        PROVE  /\ Since(Counter', InputCaptureA) <= lag + 1
               /\ ~asserted => Since(Counter', InputCaptureA) = since'
               /\ asserted => Since(Counter', InputCaptureA) >= since' + BIT
    <3>1. /\ Since(Counter, InputCaptureA) \in Nat
          /\ Since(Counter, InputCaptureA) < PERIOD - 1
          /\ Since(Counter', InputCaptureA) = Since(Counter, InputCaptureA) + 1
      BY <1>2, <2>3, TickCapture DEF Counts
    <3>2. Since(Counter, InputCaptureA) <= lag
      BY <2>3 DEF CaptureInv
    <3>3. CASE asserted
      <4>1. Since(Counter, InputCaptureA) >= since + BIT
        BY <2>3, <3>3 DEF CaptureInv
      <4>2. since' <= since + 1 /\ since' \in Nat
        BY <2>1, <1>1
      <4>3. QED
        BY <3>1, <3>2, <3>3, <4>1, <4>2, <1>1
    <3>4. CASE ~asserted
      <4>1. Since(Counter, InputCaptureA) = since
        BY <2>3, <3>4 DEF CaptureInv
      <4>2. since < Cycle /\ Long = Cycle
        BY <3>1, <3>4, <4>1, CycleIsLong, Positive DEF Long
      <4>3. since' = since + 1
        BY <2>1, <4>2, <1>1, CycleIsLong
      <4>4. QED
        BY <3>1, <3>2, <3>4, <4>1, <4>3, <1>1
    <3>5. QED
      BY <3>3, <3>4, <1>1
  <2>4. (asserted => since <= BIT)'
    BY <2>1, <1>1 DEF CaptureInv, Long
  <2>5. (AfterEdge /\ TimerOverflow /\ ~late => Counter < InputCaptureA)'
    <3>1. SUFFICES ASSUME AfterEdge, TimerOverflow', ~late PROVE Counter' < InputCaptureA
      BY <2>1 DEF AfterEdge
    <3>2. InputCaptureFlagA
      BY <3>1, NoneIsNoCount DEF TimerTypeOK, InputCaptureFlagA
    <3>3. /\ InputCaptureA \in Counts /\ Since(Counter, InputCaptureA) \in Nat
          /\ Since(Counter', InputCaptureA) = Since(Counter, InputCaptureA) + 1
      BY <1>2, <3>2, TickCapture DEF Counts
    <3>4. CASE Counter = PERIOD - 1
      BY <3>3, <3>4, <2>2 DEF Since, Counts
    <3>5. CASE Counter # PERIOD - 1
      <4>1. TimerOverflow
        BY <3>1, <3>5, <2>1
      <4>2. Counter < InputCaptureA
        BY <4>1, <3>1 DEF CaptureInv
      <4>3. QED
        BY <4>2, <3>3, <3>5, <2>2, <1>1 DEF Since, Counts
    <3>6. QED
      BY <3>4, <3>5
  <2>6. (pc \in {"wrap", "count", "status", "back", "clearA"} => t1 = InputCaptureA)'
    BY <2>1 DEF CaptureInv
  <2>7. (InputCaptureFlagA => Since(Counter, InputCaptureA) <= lag)'
    BY <2>1, <2>3 DEF InputCaptureFlagA
  <2>8. (InputCaptureFlagA => (~asserted => Since(Counter, InputCaptureA) = since))'
    BY <2>1, <2>3 DEF InputCaptureFlagA
  <2>9. (InputCaptureFlagA => (asserted => Since(Counter, InputCaptureA) >= since + BIT))'
    BY <2>1, <2>3 DEF InputCaptureFlagA
  <2>10. QED
    BY <2>4, <2>5, <2>6, <2>7, <2>8, <2>9 DEF CaptureInv
<1>3. CASE Edge /\ asserted
  <2>1. ~InputCaptureFlagA /\ ~AfterEdge
    BY <1>3, OneRise
  <2>2. /\ UNCHANGED <<time, lag, pc>> /\ ~asserted' /\ since' = 0
        /\ InputCaptureA' = Counter
    BY <1>3 DEF Edge
  <2>3. Counter' = Counter /\ Since(Counter, Counter) = 0
    BY <2>2, <1>1, StillTime DEF Since
  <2>4. ~AfterEdge'
    BY <2>1, <2>2 DEF AfterEdge
  <2>5. QED
    BY <2>2, <2>3, <2>4, <1>1 DEF CaptureInv, AfterEdge
<1>4. CASE Edge /\ ~asserted
  <2>1. /\ UNCHANGED <<time, TimerOverflow, lag, pc, late, t1, InputCaptureA>>
        /\ asserted' /\ since' = 0 /\ since >= BIT
    BY <1>4 DEF Edge, localVars
  <2>2. Counter' = Counter
    BY <2>1, StillTime
  <2>3. InputCaptureFlagA => Since(Counter, InputCaptureA) >= BIT
    BY <1>4, <2>1, <1>1 DEF CaptureInv
  <2>4. QED
    BY <2>1, <2>2, <2>3, <1>1 DEF CaptureInv, AfterEdge, InputCaptureFlagA
<1>5. CASE Timer1IRQ
  <2>1. UNCHANGED <<time, lag, pc, t1, InputCaptureA, asserted, since>> /\ ~TimerOverflow'
    BY <1>5 DEF Timer1IRQ, localVars
  <2>2. QED
    BY <2>1, StillTime DEF CaptureInv, AfterEdge, InputCaptureFlagA
<1>6. CASE Want \/ UNCHANGED timerVars
  <2>1. /\ UNCHANGED <<time, TimerOverflow, lag, pc, late, t1, InputCaptureA, asserted, since>>
    BY <1>6 DEF Want, timerVars, hardwareVars, localVars
  <2>2. QED
    BY <2>1, StillTime DEF CaptureInv, AfterEdge, InputCaptureFlagA
<1>7. CASE Main
  <2>1. UNCHANGED <<time, TimerOverflow, asserted, since>> /\ Counter' = Counter
    BY <1>7, MainLeaves, StillTime
  <2>2. \/ InputCaptureA' = InputCaptureA /\ (lag' = lag \/ InputCaptureA = None)
        \/ InputCaptureA' = None
    BY <1>7 DEF Main, Poll, ReadTime, Transmit, NoFallingEdge, FallingEdge,
       ClearFlagB, NoRisingEdge, RisingEdge, ReadCapture, ReadWraps, ReadCount,
       ReadStatus, TakeBackWrap, ClearFlagA, SampleBus, BeginTimeStamp,
       BeginIdleTime, ReadFirst, ReadWrapCounter, ReadSecond, CheckWrapped,
       ReadAgain, EndTimeStamp, NothingWanted, Busy, IdleForEver,
       CompareIdleTime, CheckTransitions, LastLook, WriteTxBuffer,
       WrappedSince, Wrapped, Use, UNHANDELED_BUS_TRANSITION, SameEdges,
       FromNowOn, InputCaptureFlagA
  <2>3. pc' \in {"wrap", "count", "status", "back", "clearA"} =>
           \/ pc = "capture" /\ t1' = InputCaptureA /\ InputCaptureA' = InputCaptureA
           \/ /\ pc \in {"wrap", "count", "status", "back"}
              /\ UNCHANGED <<t1, InputCaptureA>>
    BY <1>7 DEF Main, Poll, ReadTime, Transmit, NoFallingEdge, FallingEdge,
       ClearFlagB, NoRisingEdge, RisingEdge, ReadCapture, ReadWraps, ReadCount,
       ReadStatus, TakeBackWrap, ClearFlagA, SampleBus, BeginTimeStamp,
       BeginIdleTime, ReadFirst, ReadWrapCounter, ReadSecond, CheckWrapped,
       ReadAgain, EndTimeStamp, NothingWanted, Busy, IdleForEver,
       CompareIdleTime, CheckTransitions, LastLook, WriteTxBuffer,
       WrappedSince, Wrapped, Use, UNHANDELED_BUS_TRANSITION, Access,
       SameEdges, FromNowOn, localVars
  <2>4. (AfterEdge /\ TimerOverflow /\ ~late => Counter < InputCaptureA)'
    BY <1>7, <2>1, MainIsPrompt DEF AfterEdge
  <2>5. (pc \in {"wrap", "count", "status", "back", "clearA"} => t1 = InputCaptureA)'
    BY <2>3 DEF CaptureInv
  <2>6. (InputCaptureFlagA =>
           /\ Since(Counter, InputCaptureA) <= lag
           /\ ~asserted => Since(Counter, InputCaptureA) = since
           /\ asserted => Since(Counter, InputCaptureA) >= since + BIT)'
    BY <2>1, <2>2 DEF CaptureInv, InputCaptureFlagA
  <2>7. (asserted => since <= BIT)'
    BY <2>1 DEF CaptureInv
  <2>8. QED
    BY <2>4, <2>5, <2>6, <2>7 DEF CaptureInv
<1>8. QED
  BY <1>2, <1>3, <1>4, <1>5, <1>6, <1>7 DEF TimerNext

LEMMA WrapInvNext ==
  ASSUME InTime, TimerTypeOK, CountInv, CaptureInv, WrapInv, [TimerNext]_timerVars
  PROVE  WrapInv'
<1>1. /\ Counter \in Counts /\ Wraps \in 0 .. WRAPS - 1 /\ time \in Times
      /\ wrapCounter \in 0 .. WRAPS - 1 /\ Counter \in Nat
  BY TimeSplits DEF TimerTypeOK, Counts
<1>2. CASE Tick
  <2>1. /\ UNCHANGED <<pc, late, t1, t2, t3, InputCaptureA>>
        /\ TimerOverflow' = (TimerOverflow \/ Counter = PERIOD - 1)
    BY <1>2 DEF Tick, localVars
  <2>2. CASE pc \notin {"count", "status", "back", "clearA"}
    BY <2>1, <2>2 DEF WrapInv
  <2>3. CASE pc \in {"count", "status", "back", "clearA"}
    <3>1. InputCaptureFlagA /\ t1 = InputCaptureA
      BY <2>3, NoneIsNoCount DEF TimerTypeOK, CaptureInv, AfterEdge, InputCaptureFlagA
    <3>2. /\ t1 \in Counts /\ Since(Counter, t1) \in Counts
          /\ Since(Counter', t1) = Since(Counter, t1) + 1
          /\ WrapsBefore(Wraps', Counter', t1) = WrapsBefore(Wraps, Counter, t1)
      BY <1>2, <3>1, TickCapture
    <3>3. /\ Counter # PERIOD - 1 => Counter' = Counter + 1 /\ Wraps' = Wraps
          /\ Counter = PERIOD - 1 => Counter' = 0
      BY <1>2, TickCounts DEF Tick, TimerTypeOK
    <3>4. Counter < t1 => /\ Counter' < t1 /\ Wraps' = Wraps
                          /\ TimerOverflow' = TimerOverflow
      <4>1. SUFFICES ASSUME Counter < t1
                     PROVE  Counter' < t1 /\ Wraps' = Wraps /\ Counter # PERIOD - 1
        BY <2>1, <1>1 DEF TimerTypeOK
      <4>2. Counter # PERIOD - 1
        BY <4>1, <3>2, <1>1 DEF Counts
      <4>3. QED
        BY <4>1, <4>2, <3>2, <3>3, <1>1 DEF Since, Counts
    <3>5. QED
      BY <2>1, <2>3, <3>2, <3>4 DEF WrapInv
  <2>4. QED
    BY <2>2, <2>3
<1>3. CASE Edge \/ Want \/ UNCHANGED timerVars
  <2>1. UNCHANGED <<time, TimerOverflow, late, pc, t1, t2, t3>>
    BY <1>3 DEF Edge, Want, timerVars, hardwareVars, localVars
  <2>2. QED
    BY <2>1, StillTime DEF WrapInv
<1>4. CASE Timer1IRQ
  <2>1. UNCHANGED <<time, pc, t1, t2, t3>> /\ ~TimerOverflow'
    BY <1>4 DEF Timer1IRQ, localVars
  <2>2. QED
    BY <2>1, StillTime DEF WrapInv
<1>5. CASE Main
  <2>1. UNCHANGED <<time, TimerOverflow>> /\ Counter' = Counter /\ Wraps' = Wraps
    BY <1>5, MainLeaves, StillTime
  <2>2. CASE ReadWraps
    <3>1. /\ pc = "wrap" /\ pc' = "count" /\ t1' = t1 /\ t2' = wrapCounter
          /\ TimerOverflow => ~late
      BY <2>2 DEF ReadWraps, Access, IRQsOff
    <3>2. t1 = InputCaptureA /\ t1 \in Counts
      BY <3>1 DEF CaptureInv, TimerTypeOK
    <3>3. CASE TimerOverflow
      <4>1. Counter < t1
        BY <3>1, <3>2, <3>3 DEF CaptureInv, AfterEdge
      <4>2. Wraps = After(wrapCounter)
        BY <3>3 DEF CountInv
      <4>3. wrapCounter = WrapsBefore(Wraps, Counter, t1)
        BY <4>1, <4>2, <3>2, <1>1, Positive DEF After, WrapsBefore, Counts
      <4>4. QED
        BY <3>1, <4>3, <2>1 DEF WrapInv
    <3>4. CASE ~TimerOverflow
      <4>1. Wraps = wrapCounter
        BY <3>4 DEF CountInv
      <4>2. wrapCounter = WrapsBefore(Wraps, Counter, t1) \/ (Counter < t1 /\ wrapCounter = Wraps)
        BY <4>1, <3>2, <1>1 DEF WrapsBefore, Counts
      <4>3. QED
        BY <3>1, <4>2, <2>1 DEF WrapInv
    <3>5. QED
      BY <3>3, <3>4
  <2>3. CASE ReadCount
    <3>1. /\ pc = "count" /\ pc' = "status" /\ t1' = t1 /\ t2' = t2 /\ t3' = Counter
          /\ TimerOverflow => late'
      BY <2>3 DEF ReadCount, Access, IRQsOff
    <3>2. QED
      BY <3>1, <2>1, <1>1 DEF WrapInv
  <2>4. CASE ReadStatus
    <3>1. /\ pc = "status" /\ pc' \in {"back", "clearA"} /\ t1' = t1 /\ t2' = t2
          /\ TimerOverflow => ~late
          /\ pc' = "back" => WrappedSince
          /\ pc' = "clearA" => ~WrappedSince
      BY <2>4 DEF ReadStatus, Access, IRQsOff, localVars
    <3>2. t1 \in Counts /\ t1 \in Nat /\ t3 \in Nat
      BY <3>1 DEF TimerTypeOK, Counts
    <3>3. CASE pc' = "back"
      BY <3>1, <3>2, <3>3, <2>1 DEF WrapInv, WrappedSince
    <3>4. CASE pc' = "clearA"
      <4>1. t2 = WrapsBefore(Wraps, Counter, t1)
        BY <3>1, <3>2, <3>4 DEF WrapInv, WrappedSince
      <4>2. t2 \in 0 .. WRAPS - 1
        BY <4>1, <3>2, AgeOfCount DEF TimerTypeOK
      <4>3. t2 % WRAPS = t2
        BY <4>2, Positive
      <4>4. QED
        BY <3>1, <3>4, <4>1, <4>2, <4>3, <2>1, Positive DEF WrapInv
    <3>5. QED
      BY <3>1, <3>3, <3>4
  <2>5. CASE TakeBackWrap
    <3>1. pc = "back" /\ pc' = "clearA" /\ t1' = t1 /\ t2' = wrapCounter - 1
      BY <2>5 DEF TakeBackWrap, Access
    <3>2. Counter < t1 /\ ~TimerOverflow /\ t1 \in Counts /\ Wraps = wrapCounter
      BY <3>1 DEF WrapInv, TimerTypeOK, CountInv
    <3>3. WrapsBefore(Wraps, Counter, t1) = IF wrapCounter = 0 THEN WRAPS - 1 ELSE wrapCounter - 1
      BY <3>2, <1>1 DEF WrapsBefore, Counts
    <3>4. (wrapCounter - 1) % WRAPS = IF wrapCounter = 0 THEN WRAPS - 1 ELSE wrapCounter - 1
      BY <1>1, Positive
    <3>5. QED
      BY <3>1, <3>3, <3>4, <2>1, <1>1, Positive DEF WrapInv
  <2>6. CASE ~(ReadWraps \/ ReadCount \/ ReadStatus \/ TakeBackWrap)
    <3>1. pc' \notin {"count", "status", "back", "clearA"}
      BY <1>5, <2>6 DEF Main, Poll, ReadTime, Transmit, NoFallingEdge,
         FallingEdge, ClearFlagB, NoRisingEdge, RisingEdge, ReadCapture,
         ClearFlagA, SampleBus, BeginTimeStamp, BeginIdleTime, ReadFirst,
         ReadWrapCounter, ReadSecond, CheckWrapped, ReadAgain, EndTimeStamp,
         NothingWanted, Busy, IdleForEver, CompareIdleTime, CheckTransitions,
         LastLook, WriteTxBuffer, Access, Use
    <3>2. QED
      BY <3>1 DEF WrapInv
  <2>7. QED
    BY <2>2, <2>3, <2>4, <2>5, <2>6
<1>6. QED
  BY <1>2, <1>3, <1>4, <1>5 DEF TimerNext

LEMMA EdgeInvNext ==
  ASSUME TimerTypeOK, CaptureInv, WrapInv, EdgeInv, [TimerNext]_timerVars
  PROVE  EdgeInv'
<1>1. /\ since \in Nat /\ lag \in Nat /\ lag <= ROUND /\ time \in Times /\ Cycle \in Nat
      /\ J1708_last_transition_time \in Times /\ Cycle > ROUND /\ ROUND \in Nat
  BY CycleIsLong, Positive DEF TimerTypeOK
<1>2. CASE Tick
  <2>1. /\ UNCHANGED <<asserted, InputCaptureA, J1708_last_transition_time>>
        /\ lag' = lag + 1 /\ lag < ROUND /\ time' = (time + 1) % Cycle
        /\ since' = IF since >= Long THEN since ELSE since + 1
    BY <1>2 DEF Tick, idleVars
  <2>2. SUFFICES ASSUME ~asserted, ~InputCaptureFlagA
                 PROVE  /\ since' < Cycle => Elapsed(J1708_last_transition_time, time') = since'
                        /\ since' >= lag'
    BY <2>1 DEF EdgeInv, EdgeTimeIsTrue, InputCaptureFlagA
  <2>3. since' = IF since >= Cycle THEN since ELSE since + 1
    BY <2>1, <2>2 DEF Long
  <2>4. since >= lag
    BY <2>2 DEF EdgeInv
  <2>5. since' >= lag'
    BY <2>1, <2>3, <2>4, <1>1
  <2>6. ASSUME since' < Cycle
        PROVE  Elapsed(J1708_last_transition_time, time') = since'
    <3>1. since < Cycle - 1 /\ since' = since + 1
      BY <2>3, <2>6, <1>1
    <3>2. since < Cycle
      BY <3>1, <1>1
    <3>3. Age(J1708_last_transition_time) = since
      BY <2>2, <3>2 DEF EdgeInv, EdgeTimeIsTrue, Age
    <3>4. QED
      BY <2>1, <3>1, <3>3, <1>1, TickAges
  <2>7. QED
    BY <2>5, <2>6
<1>3. CASE Edge
  <2>1. asserted' \/ InputCaptureA' # None
    <3>1. Counter # None
      BY TimeSplits, NoneIsNoCount DEF TimerTypeOK
    <3>2. QED
      BY <3>1, <1>3 DEF Edge
  <2>2. QED
    BY <2>1 DEF EdgeInv, EdgeTimeIsTrue, InputCaptureFlagA
<1>4. CASE Timer1IRQ \/ Want \/ UNCHANGED timerVars
  <2>1. UNCHANGED <<asserted, InputCaptureA, J1708_last_transition_time, time, since, lag>>
    BY <1>4 DEF Timer1IRQ, Want, timerVars, hardwareVars, idleVars
  <2>2. QED
    BY <2>1 DEF EdgeInv, EdgeTimeIsTrue, InputCaptureFlagA
<1>5. CASE ClearFlagA
  <2>1. /\ pc = "clearA" /\ lag' = 0 /\ UNCHANGED <<time, asserted, since>>
        /\ J1708_last_transition_time' = Time32(t2, t1)
    BY <1>5 DEF ClearFlagA, Access, SameHardware
  <2>2. /\ t1 = InputCaptureA /\ t1 \in Counts /\ t2 % WRAPS = WrapsBefore(Wraps, Counter, t1)
        /\ InputCaptureFlagA
    BY <2>1, NoneIsNoCount DEF CaptureInv, TimerTypeOK, WrapInv, InputCaptureFlagA
  <2>3. Age(Time32(t2, t1)) = Since(Counter, t1)
    BY <2>2, <1>1, AgeOfCount DEF Time32
  <2>4. ~asserted => Since(Counter, t1) = since
    BY <2>2 DEF CaptureInv
  <2>5. ~asserted => Elapsed(J1708_last_transition_time', time') = since'
    BY <2>1, <2>3, <2>4 DEF Age
  <2>6. QED
    BY <2>1, <2>5, <1>1 DEF EdgeInv, EdgeTimeIsTrue
<1>6. CASE Main /\ ~ClearFlagA
  <2>1. UNCHANGED <<time, asserted, since>>
    BY <1>6, MainLeaves
  <2>2. UNCHANGED <<InputCaptureA, J1708_last_transition_time>> /\ (lag' = lag \/ lag' = 0)
    BY <1>6 DEF Main, Poll, ReadTime, Transmit, NoFallingEdge, FallingEdge,
       ClearFlagB, NoRisingEdge, RisingEdge, ReadCapture, ReadWraps, ReadCount,
       ReadStatus, TakeBackWrap, SampleBus, BeginTimeStamp, BeginIdleTime,
       ReadFirst, ReadWrapCounter, ReadSecond, CheckWrapped, ReadAgain,
       EndTimeStamp, NothingWanted, Busy, IdleForEver, CompareIdleTime,
       CheckTransitions, LastLook, WriteTxBuffer, WrappedSince, Wrapped, Use,
       UNHANDELED_BUS_TRANSITION, SameEdges, FromNowOn, idleVars
  <2>3. QED
    BY <2>1, <2>2, <1>1 DEF EdgeInv, EdgeTimeIsTrue, InputCaptureFlagA
<1>7. QED
  BY <1>2, <1>3, <1>4, <1>5, <1>6 DEF TimerNext

\* A tick adds no more to the count of overflows than to the time that it counts.
LEMMA TickOverflows ==
  ASSUME TimerTypeOK, Tick
  PROVE  Overflows' = Overflows + 1
<1>1. /\ J1708_idle_time' = J1708_idle_time
      /\ TimerOverflow' = (TimerOverflow \/ Counter = PERIOD - 1)
      /\ ~(TimerOverflow /\ Counter = PERIOD - 1)
  BY DEF Tick, idleVars
<1>2. /\ Counter # PERIOD - 1 => Counter' = Counter + 1
      /\ Counter = PERIOD - 1 => Counter' = 0
  BY TickCounts DEF Tick, TimerTypeOK
<1>3. Counter \in Nat /\ J1708_idle_time * PERIOD \in Nat /\ PERIOD \in Nat
  BY TimeSplits, Positive DEF TimerTypeOK, Counts
<1> DEFINE counted == J1708_idle_time * PERIOD
<1>4. J1708_idle_time' * PERIOD = counted /\ counted \in Nat
  BY <1>1, <1>3
<1>5. /\ Overflows' = (counted + (IF TimerOverflow' THEN PERIOD ELSE 0)) + Counter'
      /\ Overflows = (counted + (IF TimerOverflow THEN PERIOD ELSE 0)) + Counter
  BY <1>4 DEF Overflows
<1> HIDE DEF counted
<1>6. CASE TimerOverflow
  <2>1. TimerOverflow' /\ Counter # PERIOD - 1
    BY <1>1, <1>6
  <2>2. /\ Overflows' = (counted + PERIOD) + Counter'
        /\ Overflows = (counted + PERIOD) + Counter
    BY <1>5, <1>6, <2>1
  <2>3. QED
    BY <2>1, <2>2, <1>2, <1>3, <1>4
<1>7. CASE ~TimerOverflow /\ Counter = PERIOD - 1
  <2>1. TimerOverflow' /\ Counter = PERIOD - 1
    BY <1>1, <1>7
  <2>2. /\ Overflows' = (counted + PERIOD) + Counter'
        /\ Overflows = (counted + 0) + Counter
    BY <1>5, <1>7, <2>1
  <2>3. QED
    BY <2>1, <2>2, <1>2, <1>3, <1>4
<1>8. CASE ~TimerOverflow /\ Counter # PERIOD - 1
  <2>1. ~TimerOverflow' /\ Counter # PERIOD - 1
    BY <1>1, <1>8
  <2>2. /\ Overflows' = (counted + 0) + Counter'
        /\ Overflows = (counted + 0) + Counter
    BY <1>5, <1>8, <2>1
  <2>3. QED
    BY <2>1, <2>2, <1>2, <1>3, <1>4
<1>9. QED
  BY <1>6, <1>7, <1>8

LEMMA OverflowsInNat ==
  ASSUME TimerTypeOK
  PROVE  /\ Overflows \in Nat /\ J1708_idle_time * PERIOD \in Nat
         /\ J1708_idle_time * PERIOD <= SATURATED * PERIOD /\ SATURATED * PERIOD \in Nat
         /\ Overflows <= SATURATED * PERIOD + PERIOD + PERIOD
<1>1. /\ Counter \in Nat /\ Counter < PERIOD
  BY TimeSplits, Positive DEF TimerTypeOK, Counts
<1>2. /\ J1708_idle_time * PERIOD \in Nat /\ SATURATED * PERIOD \in Nat
      /\ J1708_idle_time * PERIOD <= SATURATED * PERIOD
  BY Positive DEF TimerTypeOK
<1>3. CASE TimerOverflow
  BY <1>1, <1>2, <1>3, Positive DEF Overflows
<1>4. CASE ~TimerOverflow
  BY <1>1, <1>2, <1>4, Positive DEF Overflows
<1>5. QED
  BY <1>2, <1>3, <1>4

LEMMA IdleInvNext ==
  ASSUME InTime, TimerTypeOK, CaptureInv, SpanInv, IdleInv, [TimerNext]_timerVars
  PROVE  IdleInv'
<1>1. /\ since \in Nat /\ LOOK \in Nat /\ PERIOD \in Nat /\ Overflows \in Nat /\ Cycle \in Nat
      /\ Counter \in Nat /\ Counter < PERIOD /\ SATURATED * PERIOD \in Nat
      /\ J1708_idle_time * PERIOD \in Nat /\ span \in Nat
  BY OverflowsInNat, CycleIsLong, Positive, TimeSplits DEF TimerTypeOK, Counts
<1>2. CASE Tick
  <2>1. /\ UNCHANGED <<asserted, InputCaptureA, pc, J1708_bus_not_idle>>
        /\ since' = IF since >= Long THEN since ELSE since + 1
    BY <1>2 DEF Tick, idleVars
  <2>2. SUFFICES ASSUME ~asserted, AfterEdge \/ (~InputCaptureFlagA /\ ~J1708_bus_not_idle)
                 PROVE  Overflows' <= since' + LOOK + PERIOD
    BY <2>1 DEF IdleInv, AfterEdge, InputCaptureFlagA
  <2>3. Overflows <= since + LOOK + PERIOD
    BY <2>2 DEF IdleInv
  <2>4. Overflows' = Overflows + 1
    BY <1>2, TickOverflows
  <2>5. CASE since < Cycle
    BY <2>1, <2>2, <2>3, <2>4, <2>5, <1>1 DEF Long
  <2>6. CASE since >= Cycle
    <3>1. since' = since
      BY <2>1, <2>2, <2>6 DEF Long
    <3>2. Overflows' <= SATURATED * PERIOD + PERIOD + PERIOD
      <4>1. TimerTypeOK'
        BY <1>2, TimerTypeNext DEF TimerNext
      <4>2. (Overflows <= SATURATED * PERIOD + PERIOD + PERIOD)'
        BY <4>1, OverflowsInNat, PTL
      <4>3. QED
        BY <4>2
    <3>3. (SATURATED + 1) * PERIOD = SATURATED * PERIOD + PERIOD
      BY Positive
    <3>4. QED
      BY <2>4, <2>6, <3>1, <3>2, <3>3, <1>1, CycleIsLong
  <2>7. QED
    BY <2>5, <2>6, <1>1
<1>3. CASE Edge
  <2>1. CASE asserted
    <3>1. ~AfterEdge'
      BY <1>3, <2>1, OneRise DEF Edge, AfterEdge
    <3>2. InputCaptureFlagA'
      <4>1. Counter # None
        BY TimeSplits, NoneIsNoCount DEF TimerTypeOK
      <4>2. QED
        BY <1>3, <2>1, <4>1 DEF Edge, InputCaptureFlagA
    <3>3. QED
      BY <3>1, <3>2 DEF IdleInv
  <2>2. CASE ~asserted
    BY <1>3, <2>2 DEF Edge, IdleInv
  <2>3. QED
    BY <2>1, <2>2
<1>4. CASE Timer1IRQ
  <2>1. /\ UNCHANGED <<time, asserted, InputCaptureA, pc, J1708_bus_not_idle, since>>
        /\ TimerOverflow /\ ~TimerOverflow'
        /\ J1708_idle_time' = MoreIdle
    BY <1>4 DEF Timer1IRQ
  <2>2. J1708_idle_time' * PERIOD <= J1708_idle_time * PERIOD + PERIOD
    <3>1. J1708_idle_time \in Nat /\ J1708_idle_time <= SATURATED
      BY Positive DEF TimerTypeOK
    <3>2. J1708_idle_time' = J1708_idle_time \/ J1708_idle_time' = J1708_idle_time + 1
      BY <3>1, <2>1, Positive DEF MoreIdle
    <3>3. (J1708_idle_time + 1) * PERIOD = J1708_idle_time * PERIOD + PERIOD
      BY <3>1, Positive
    <3>4. CASE J1708_idle_time' = J1708_idle_time
      BY <3>4, <1>1
    <3>5. CASE J1708_idle_time' = J1708_idle_time + 1
      BY <3>3, <3>5, <1>1
    <3>6. QED
      BY <3>2, <3>4, <3>5
  <2>3. Counter' = Counter
    BY <2>1, StillTime
  <2>4. Overflows' = J1708_idle_time' * PERIOD + 0 + Counter
    BY <2>1, <2>3 DEF Overflows
  <2>5. Overflows = J1708_idle_time * PERIOD + PERIOD + Counter
    BY <2>1 DEF Overflows
  <2>6. J1708_idle_time' * PERIOD \in Int
    <3>1. J1708_idle_time' \in Int
      BY <2>1, Positive DEF MoreIdle, TimerTypeOK
    <3>2. QED
      BY <3>1, Positive
  <2>7. Overflows' <= Overflows
    BY <2>2, <2>4, <2>5, <2>6, <1>1
  <2>8. Overflows' \in Int
    BY <2>4, <2>6, <1>1
  <2>9. ~asserted' /\ (AfterEdge' \/ (~InputCaptureFlagA' /\ ~J1708_bus_not_idle'))
          => Overflows <= since + LOOK + PERIOD
    BY <2>1 DEF IdleInv, AfterEdge, InputCaptureFlagA
  <2>10. since' = since
    BY <2>1
  <2>11. Overflows <= since + LOOK + PERIOD => Overflows' <= since' + LOOK + PERIOD
    BY <2>7, <2>8, <2>10, <1>1
  <2>12. QED
    BY <2>9, <2>11 DEF IdleInv
<1>5. CASE Want \/ UNCHANGED timerVars
  <2>1. UNCHANGED <<time, TimerOverflow, asserted, InputCaptureA, pc, J1708_idle_time, J1708_bus_not_idle, since>>
    BY <1>5 DEF Want, timerVars, hardwareVars, idleVars
  <2>2. QED
    BY <2>1, StillTime DEF IdleInv, AfterEdge, InputCaptureFlagA, Overflows
<1>6. CASE Main
  <2>1. UNCHANGED <<time, TimerOverflow, asserted, since>> /\ Counter' = Counter
    BY <1>6, MainLeaves, StillTime
  <2>2. CASE RisingEdge
    <3>1. /\ pc = "edge" /\ J1708_idle_time' = 0 /\ (TimerOverflow => ~late)
      BY <2>2 DEF RisingEdge, Access, IRQsOff
    <3>2. TimerOverflow => Counter <= LOOK
      <4>1. TimerOverflow => Counter <= span
        BY <3>1 DEF SpanInv
      <4>2. span <= LOOK
        BY <3>1 DEF SpanInv, Looking
      <4>3. QED
        BY <4>1, <4>2, <1>1
    <3>3. Overflows' <= since' + LOOK + PERIOD
      <4>1. CASE TimerOverflow
        BY <4>1, <3>1, <3>2, <2>1, <1>1 DEF Overflows
      <4>2. CASE ~TimerOverflow
        BY <4>2, <3>1, <2>1, <1>1 DEF Overflows
      <4>3. QED
        BY <4>1, <4>2
    <3>4. QED
      BY <3>3 DEF IdleInv
  <2>3. CASE ~RisingEdge
    <3>1. ~asserted /\ (AfterEdge' \/ (~InputCaptureFlagA' /\ ~J1708_bus_not_idle'))
             => AfterEdge \/ (~InputCaptureFlagA /\ ~J1708_bus_not_idle)
      BY <1>6, <2>3 DEF Main, Poll, ReadTime, Transmit, NoFallingEdge,
         FallingEdge, ClearFlagB, NoRisingEdge, ReadCapture, ReadWraps,
         ReadCount, ReadStatus, TakeBackWrap, ClearFlagA, SampleBus,
         BeginTimeStamp, BeginIdleTime, ReadFirst, ReadWrapCounter, ReadSecond,
         CheckWrapped, ReadAgain, EndTimeStamp, NothingWanted, Busy,
         IdleForEver, CompareIdleTime, CheckTransitions, LastLook,
         WriteTxBuffer, WrappedSince, Wrapped, Use, UNHANDELED_BUS_TRANSITION,
         Access, SameEdges, FromNowOn, idleVars, InputCaptureFlagA, AfterEdge
    <3>2. ~asserted /\ ~J1708_bus_not_idle' => J1708_idle_time' = J1708_idle_time \/ J1708_idle_time' = 0
      BY <1>6, <2>3 DEF Main, Poll, ReadTime, Transmit, NoFallingEdge,
         FallingEdge, ClearFlagB, NoRisingEdge, ReadCapture, ReadWraps,
         ReadCount, ReadStatus, TakeBackWrap, ClearFlagA, SampleBus,
         BeginTimeStamp, BeginIdleTime, ReadFirst, ReadWrapCounter, ReadSecond,
         CheckWrapped, ReadAgain, EndTimeStamp, NothingWanted, Busy,
         IdleForEver, CompareIdleTime, CheckTransitions, LastLook,
         WriteTxBuffer, WrappedSince, Wrapped, Use, UNHANDELED_BUS_TRANSITION,
         Access, SameEdges, FromNowOn, idleVars, InputCaptureFlagA, AfterEdge
    <3>3. AfterEdge' => J1708_idle_time' = J1708_idle_time
      BY <1>6, <2>3 DEF Main, Poll, ReadTime, Transmit, NoFallingEdge,
         FallingEdge, ClearFlagB, NoRisingEdge, ReadCapture, ReadWraps,
         ReadCount, ReadStatus, TakeBackWrap, ClearFlagA, SampleBus,
         BeginTimeStamp, BeginIdleTime, ReadFirst, ReadWrapCounter, ReadSecond,
         CheckWrapped, ReadAgain, EndTimeStamp, NothingWanted, Busy,
         IdleForEver, CompareIdleTime, CheckTransitions, LastLook,
         WriteTxBuffer, WrappedSince, Wrapped, Use, UNHANDELED_BUS_TRANSITION,
         Access, SameEdges, FromNowOn, idleVars, InputCaptureFlagA, AfterEdge
    <3>4. J1708_idle_time' = J1708_idle_time \/ J1708_idle_time' = 0 => Overflows' <= Overflows /\ Overflows' \in Nat
      <4>1. CASE TimerOverflow
        BY <4>1, <2>1, <1>1 DEF Overflows
      <4>2. CASE ~TimerOverflow
        BY <4>2, <2>1, <1>1 DEF Overflows
      <4>3. QED
        BY <4>1, <4>2
    <3>5. SUFFICES ASSUME ~asserted', AfterEdge' \/ (~InputCaptureFlagA' /\ ~J1708_bus_not_idle')
                   PROVE  Overflows' <= since' + LOOK + PERIOD
      BY DEF IdleInv
    <3>6. ~asserted /\ since' = since
      BY <3>5, <2>1
    <3>7. Overflows <= since + LOOK + PERIOD
      BY <3>1, <3>5, <3>6 DEF IdleInv
    <3>8. Overflows' <= Overflows /\ Overflows' \in Nat
      BY <3>2, <3>3, <3>4, <3>5, <3>6
    <3>9. QED
      BY <3>6, <3>7, <3>8, <1>1
  <2>4. QED
    BY <2>2, <2>3
<1>7. QED
  BY <1>2, <1>3, <1>4, <1>5, <1>6 DEF TimerNext

LEMMA AskInvNext ==
  ASSUME TimerTypeOK, AskInv, [TimerNext]_timerVars PROVE AskInv'
<1>1. CASE Tick \/ Timer1IRQ \/ UNCHANGED timerVars
  <2>1. UNCHANGED <<asserted, InputCaptureFlagB, J1708_bus_not_idle, pc, wanted>>
    BY <1>1 DEF Tick, Timer1IRQ, timerVars, hardwareVars, idleVars
  <2>2. QED
    BY <2>1 DEF AskInv, Reading, Using, Asking
<1>2. CASE Edge
  <2>1. UNCHANGED <<J1708_bus_not_idle, pc, wanted>>
    BY <1>2 DEF Edge, idleVars
  <2>2. asserted' => InputCaptureFlagB'
    BY <1>2 DEF Edge
  <2>3. QED
    BY <2>1, <2>2 DEF AskInv, Reading, Using, Asking
<1>3. CASE Want
  <2>1. UNCHANGED <<asserted, InputCaptureFlagB, J1708_bus_not_idle, pc>> /\ pc = "ask"
    BY <1>3 DEF Want, hardwareVars, idleVars
  <2>2. QED
    BY <2>1 DEF AskInv, Reading, Using, Asking
<1>4. CASE Main
  <2>1. asserted' = asserted
    BY <1>4, MainLeaves
  <2>2. CASE SampleBus
    <3>1. pc' = "ask" /\ (asserted => J1708_bus_not_idle')
      BY <2>2 DEF SampleBus, Access
    <3>2. QED
      BY <3>1, <2>1 DEF AskInv, Reading, Using, Asking
  <2>3. CASE ~SampleBus
    <3>1. (pc' \in {"ask", "sync", "look", "write"} \/ Reading' \/ Using') =>
             /\ pc \in {"ask", "sync", "look"} \/ Reading \/ Using
             /\ UNCHANGED <<InputCaptureFlagB, J1708_bus_not_idle, wanted>>
      BY <1>4, <2>3 DEF Main, Poll, ReadTime, Transmit, NoFallingEdge,
         FallingEdge, ClearFlagB, NoRisingEdge, RisingEdge, ReadCapture,
         ReadWraps, ReadCount, ReadStatus, TakeBackWrap, ClearFlagA,
         BeginTimeStamp, BeginIdleTime, ReadFirst, ReadWrapCounter, ReadSecond,
         CheckWrapped, ReadAgain, EndTimeStamp, NothingWanted, Busy,
         IdleForEver, CompareIdleTime, CheckTransitions, LastLook,
         WriteTxBuffer, WrappedSince, Wrapped, Use, UNHANDELED_BUS_TRANSITION,
         Access, SameEdges, FromNowOn, idleVars, Reading, Using
    <3>2. /\ pc' \in {"ask", "sync"} \/ Reading' \/ Using' =>
                pc \in {"ask", "sync"} \/ Reading \/ Using
          /\ Asking' => Asking \/ (wanted # Nothing => ~J1708_bus_not_idle)
          /\ pc' \in {"compare", "sync", "look", "write"} =>
                pc \in {"compare", "sync", "look", "write"} \/ wanted # Nothing
      BY <1>4, <2>3 DEF Main, Poll, ReadTime, Transmit, NoFallingEdge,
         FallingEdge, ClearFlagB, NoRisingEdge, RisingEdge, ReadCapture,
         ReadWraps, ReadCount, ReadStatus, TakeBackWrap, ClearFlagA,
         BeginTimeStamp, BeginIdleTime, ReadFirst, ReadWrapCounter, ReadSecond,
         CheckWrapped, ReadAgain, EndTimeStamp, NothingWanted, Busy,
         IdleForEver, CompareIdleTime, CheckTransitions, LastLook,
         WriteTxBuffer, WrappedSince, Wrapped, Use, UNHANDELED_BUS_TRANSITION,
         Access, Reading, Using, Asking, Nothing
    <3>3. Asking' => Reading' \/ Using' \/ pc' = "sync"
      BY DEF Asking, Using
    <3>4. QED
      BY <2>1, <3>1, <3>2, <3>3 DEF AskInv, Using
  <2>4. QED
    BY <2>2, <2>3
<1>5. QED
  BY <1>1, <1>2, <1>3, <1>4 DEF TimerNext

\* What is to be transmitted needs no more time than that after which the bus
\* counts as idle for ever.
LEMMA AccessIs ==
  ASSUME wanted \in IdleCounts
  PROVE  /\ ACCESS \in Nat /\ ACCESS + LOOK <= SATURATED * PERIOD - PERIOD
         /\ SATURATED * PERIOD \in Nat /\ SATURATED * PERIOD + PERIOD <= Cycle
         /\ BIT <= ACCESS /\ ACCESS <= Cycle - PERIOD - PERIOD
<1>1. wanted \in Nat /\ wanted # 0 /\ DataBits \in Nat
  BY TimerAssumption
<1>2. ACCESS = (wanted + DataBits) * BIT
  BY DEF ACCESS, ConvertJ1708IdleCountToTimerTicks
<1>3. ACCESS \in Nat /\ BIT <= ACCESS
  <2>1. \E k \in Nat : wanted + DataBits = k + 1
    BY <1>1
  <2>2. PICK k \in Nat : wanted + DataBits = k + 1
    BY <2>1
  <2>3. (k + 1) * BIT = k * BIT + BIT /\ k * BIT \in Nat
    BY Positive
  <2>4. QED
    BY <1>2, <2>2, <2>3, Positive
<1>4. ACCESS + LOOK <= (SATURATED - 1) * PERIOD
  BY TimerAssumption DEF ACCESS
<1>5. /\ (SATURATED - 1) * PERIOD = SATURATED * PERIOD - PERIOD
      /\ (SATURATED + 1) * PERIOD = SATURATED * PERIOD + PERIOD
      /\ SATURATED * PERIOD \in Nat
  BY Positive
<1>6. QED
  BY <1>3, <1>4, <1>5, CycleIsLong, Positive

\* No edge waits, and the bus is not found busy: it is not asserted.
LEMMA QuietBus ==
  ASSUME TimerTypeOK, AskInv, ~InputCaptureFlagB, ~J1708_bus_not_idle,
         pc \in {"ask", "sync"} \/ Reading \/ Using
  PROVE  ~asserted
BY DEF AskInv

\* The idle time that was computed is no longer than the bus has been idle.
LEMMA ComparedTime ==
  ASSUME TimeInv, EdgeInv, AskInv, pc = "compare", ~UNHANDELED_BUS_TRANSITION,
         GetJ1708IdleTime >= ACCESS
  PROVE  ~asserted /\ since >= ACCESS
<1>1. wanted # Nothing /\ ~J1708_bus_not_idle
  BY DEF AskInv, Asking
<1>2. ~asserted
  BY <1>1, QuietBus DEF TimeInv, Using, UNHANDELED_BUS_TRANSITION
<1>3. wanted \in IdleCounts
  BY <1>1 DEF TimeInv, TimerTypeOK
<1>4. /\ since \in Nat /\ time \in Times /\ J1708_last_transition_time \in Times
      /\ began \in Times /\ lag \in Nat
  BY DEF TimeInv, TimerTypeOK
<1>5. CASE since >= Cycle
  BY <1>2, <1>3, <1>4, <1>5, AccessIs, CycleIsLong, Positive
<1>6. CASE since < Cycle
  <2>1. Age(J1708_last_transition_time) = since
    BY <1>2, <1>6 DEF EdgeInv, EdgeTimeIsTrue, Age, UNHANDELED_BUS_TRANSITION
  <2>2. since >= lag /\ Age(began) <= lag
    BY <1>2 DEF EdgeInv, TimeInv, ReadInv, Using, UNHANDELED_BUS_TRANSITION
  <2>3. Time32(t1, t2) \in Times /\ Age(Time32(t1, t2)) <= Age(began)
    BY DEF TimeInv, ReadInv, Using, TimeRead
  <2>4. ASSUME NEW t \in Times, Age(t) <= Age(began)
        PROVE  Elapsed(J1708_last_transition_time, t) <= since
    <3>1. Age(t) \in Nat /\ Age(began) \in Nat /\ Age(t) <= since
      BY <2>2, <2>4, <1>4, AgesAre
    <3>2. /\ Age(t) = IF t <= time THEN time - t ELSE (time - t) + Cycle
          /\ since = IF J1708_last_transition_time <= time
                     THEN time - J1708_last_transition_time
                     ELSE (time - J1708_last_transition_time) + Cycle
          /\ Elapsed(J1708_last_transition_time, t) =
                     IF J1708_last_transition_time <= t
                     THEN t - J1708_last_transition_time
                     ELSE (t - J1708_last_transition_time) + Cycle
      BY <2>1, <1>4, ElapsedIs DEF Age
    <3>3. QED
      BY <3>1, <3>2, <1>4, CycleIsLong DEF Times
  <2>5. GetJ1708IdleTime <= since
    BY <2>3, <2>4 DEF GetJ1708IdleTime
  <2>6. GetJ1708IdleTime \in Int
    BY <2>3, <1>4, ElapsedIs, CycleIsLong DEF GetJ1708IdleTime, Times
  <2>7. QED
    BY <1>2, <1>3, <1>4, <2>5, <2>6, AccessIs
<1>7. QED
  BY <1>4, <1>5, <1>6, CycleIsLong

\* The bus has been idle so long that its overflows are no longer counted.
LEMMA SaturatedTime ==
  ASSUME TimeInv, IdleInv, AskInv, pc = "ask", wanted # Nothing, ~UNHANDELED_BUS_TRANSITION,
         ~J1708_bus_not_idle, J1708_idle_time >= SATURATED
  PROVE  ~asserted /\ since >= ACCESS
<1>1. ~asserted
  BY QuietBus DEF TimeInv, UNHANDELED_BUS_TRANSITION
<1>2. wanted \in IdleCounts /\ since \in Nat /\ Counter \in Nat
  BY TimeSplits DEF TimeInv, TimerTypeOK, Counts
<1>3. J1708_idle_time = SATURATED
  BY Positive DEF TimeInv, TimerTypeOK
<1>4. Overflows >= SATURATED * PERIOD
  <2>1. Overflows = (SATURATED * PERIOD + (IF TimerOverflow THEN PERIOD ELSE 0)) + Counter
    BY <1>3 DEF Overflows
  <2>2. SATURATED * PERIOD \in Nat
    BY Positive
  <2>3. CASE TimerOverflow
    BY <2>1, <2>2, <2>3, <1>2, Positive
  <2>4. CASE ~TimerOverflow
    BY <2>1, <2>2, <2>4, <1>2, Positive
  <2>5. QED
    BY <2>3, <2>4
<1>5. Overflows <= since + LOOK + PERIOD /\ Overflows \in Nat
  BY <1>1, OverflowsInNat DEF IdleInv, TimeInv, UNHANDELED_BUS_TRANSITION
<1>6. QED
  BY <1>1, <1>2, <1>4, <1>5, AccessIs, Positive

LEMMA LookInvNext ==
  ASSUME TimeInv, EdgeInv, IdleInv, AskInv, LookInv, [TimerNext]_timerVars
  PROVE  LookInv'
<1>1. /\ since \in Nat /\ time \in Times /\ began \in Times /\ BIT \in Nat /\ BIT > 0
      /\ Age(began) \in Nat /\ Counter \in Counts
  BY AgesAre, Positive, TimeSplits DEF TimeInv, TimerTypeOK
<1>2. pc \in {"sync", "look"} => ACCESS \in Nat /\ ACCESS <= Cycle
  <2>1. pc \in {"sync", "look"} => wanted \in IdleCounts
    BY DEF AskInv, TimeInv, TimerTypeOK
  <2>2. QED
    BY <2>1, AccessIs, CycleIsLong, Positive
<1>3. CASE Tick
  <2>1. /\ UNCHANGED <<pc, asserted, InputCaptureA, InputCaptureFlagB, wanted, began>>
        /\ since' = (IF since >= Long THEN since ELSE since + 1)
        /\ time' = (time + 1) % Cycle
        /\ pc = "look" => Age(began) < BIT - 1
    BY <1>3 DEF Tick, localVars, Age
  <2>2. since' \in Nat /\ since' >= since /\ since' <= since + 1
    BY <2>1, <1>1
  <2>3. ACCESS' = ACCESS
    BY <2>1 DEF ACCESS
  <2>4. (pc = "sync" => InputCaptureFlagA \/ InputCaptureFlagB \/ (~asserted /\ since >= ACCESS))'
    BY <2>1, <2>2, <2>3, <1>1, <1>2 DEF LookInv, InputCaptureFlagA
  <2>5. pc = "look" => Elapsed(began, time') <= Age(began) + 1 /\ Elapsed(began, time') \in Nat
                       /\ (Age(began) < Cycle - 1 => Elapsed(began, time') = Age(began) + 1)
    <3>1. time' \in Times
      BY <2>1, <1>1, TickCounts
    <3>2. Elapsed(began, time') \in Nat /\ Elapsed(began, time') < Cycle
      BY <3>1, <1>1, ElapsedIs, CycleIsLong, Positive DEF Times
    <3>3. Age(began) < Cycle
      BY <1>1, AgesAre
    <3>4. Age(began) < Cycle - 1 => Elapsed(began, time') = Age(began) + 1
      BY <2>1, <1>1, TickAges
    <3>5. QED
      BY <3>2, <3>3, <3>4, <1>1, CycleIsLong
  <2>6. (pc = "look" => Age(began) < BIT)'
    BY <2>1, <2>5, <1>1 DEF Age
  <2>7. (pc = "look" => (~asserted => since >= ACCESS))'
    BY <2>1, <2>2, <2>3, <1>1, <1>2 DEF LookInv
  <2>8. (pc = "look" => (asserted => since <= Age(began)))'
    <3>1. SUFFICES ASSUME pc = "look", asserted PROVE since' <= Elapsed(began, time')
      BY <2>1 DEF Age
    <3>2. since <= Age(began) /\ Age(began) < BIT
      BY <3>1 DEF LookInv
    <3>3. Age(began) < Cycle - 1
      <4>1. BIT <= ACCESS /\ ACCESS \in Nat /\ ACCESS <= Cycle - PERIOD - PERIOD
        BY <3>1, <1>2, AccessIs DEF AskInv, TimeInv, TimerTypeOK
      <4>2. QED
        BY <4>1, <3>2, <1>1, Positive, CycleIsLong
    <3>4. QED
      BY <3>1, <3>2, <3>3, <2>2, <2>5, <1>1
  <2>9. QED
    BY <2>4, <2>6, <2>7, <2>8 DEF LookInv
<1>4. CASE Edge
  <2>1. UNCHANGED <<pc, time, began, wanted>> /\ asserted' = ~asserted /\ since' = 0 /\ since >= BIT
    BY <1>4 DEF Edge, localVars
  <2>2. InputCaptureFlagA' \/ InputCaptureFlagB'
    <3>1. Counter # None
      BY <1>1, NoneIsNoCount
    <3>2. QED
      BY <3>1, <1>4 DEF Edge, InputCaptureFlagA
  <2>3. pc = "look" => Age(began) < BIT /\ ~asserted
    <3>1. pc = "look" /\ asserted => since <= Age(began) /\ Age(began) < BIT
      BY DEF LookInv
    <3>2. pc = "look" => ~asserted
      BY <3>1, <2>1, <1>1
    <3>3. QED
      BY <3>2 DEF LookInv
  <2>4. Age(began)' = Age(began)
    BY <2>1 DEF Age
  <2>5. pc = "look" => asserted'
    BY <2>1, <2>3
  <2>6. (pc = "sync" => InputCaptureFlagA \/ InputCaptureFlagB \/ (~asserted /\ since >= ACCESS))'
    BY <2>2
  <2>7. (pc = "look" => Age(began) < BIT)' /\ (pc = "look" => (~asserted => since >= ACCESS))'
    BY <2>1, <2>3, <2>4, <2>5
  <2>8. (pc = "look" => (asserted => since <= Age(began)))'
    BY <2>1, <2>4, <1>1
  <2>9. QED
    BY <2>6, <2>7, <2>8 DEF LookInv
<1>5. CASE Timer1IRQ \/ Want \/ UNCHANGED timerVars
  <2>1. /\ UNCHANGED <<pc, asserted, InputCaptureA, InputCaptureFlagB, began, since, time>>
        /\ wanted' = wanted \/ pc = "ask"
    BY <1>5 DEF Timer1IRQ, Want, timerVars, hardwareVars, localVars
  <2>2. QED
    BY <2>1 DEF LookInv, InputCaptureFlagA, Age, ACCESS
<1>6. CASE Main
  <2>1. UNCHANGED <<time, asserted, since>>
    BY <1>6, MainLeaves
  <2>2. CASE IdleForEver
    <3>1. /\ pc = "ask" /\ pc' = "sync" /\ wanted # Nothing /\ ~J1708_bus_not_idle
          /\ J1708_idle_time >= SATURATED
          /\ UNCHANGED <<InputCaptureA, InputCaptureFlagB, wanted>>
      BY <2>2 DEF IdleForEver, Access, SameEdges
    <3>2. UNHANDELED_BUS_TRANSITION \/ (~asserted /\ since >= ACCESS)
      BY <3>1, SaturatedTime
    <3>3. QED
      BY <3>1, <3>2, <2>1 DEF LookInv, ACCESS, UNHANDELED_BUS_TRANSITION, InputCaptureFlagA
  <2>3. CASE CompareIdleTime /\ pc' = "sync"
    <3>1. /\ pc = "compare" /\ GetJ1708IdleTime >= ACCESS
          /\ UNCHANGED <<InputCaptureA, InputCaptureFlagB, wanted>>
      BY <2>3 DEF CompareIdleTime, Access, SameEdges
    <3>2. UNHANDELED_BUS_TRANSITION \/ (~asserted /\ since >= ACCESS)
      BY <3>1, ComparedTime
    <3>3. QED
      BY <3>1, <3>2, <2>1, <2>3 DEF LookInv, ACCESS, UNHANDELED_BUS_TRANSITION, InputCaptureFlagA
  <2>4. CASE CheckTransitions /\ pc' = "look"
    <3>1. pc = "sync" /\ ~UNHANDELED_BUS_TRANSITION /\ began' = time /\ wanted' = wanted
      BY <2>4 DEF CheckTransitions, Access
    <3>2. ~asserted /\ since >= ACCESS
      BY <3>1 DEF LookInv, UNHANDELED_BUS_TRANSITION
    <3>3. Elapsed(time, time) = 0
      BY <1>1, ElapsedIs DEF Times
    <3>4. Age(began)' = 0 /\ ~asserted' /\ since' >= ACCESS'
      BY <3>1, <3>2, <3>3, <2>1 DEF Age, ACCESS
    <3>5. QED
      BY <3>4, <2>4, <1>1 DEF LookInv
  <2>5. CASE ~IdleForEver /\ ~(CompareIdleTime /\ pc' = "sync") /\ ~(CheckTransitions /\ pc' = "look")
    <3>1. pc' \notin {"sync", "look"}
      BY <1>6, <2>5 DEF Main, Poll, ReadTime, Transmit, NoFallingEdge,
         FallingEdge, ClearFlagB, NoRisingEdge, RisingEdge, ReadCapture,
         ReadWraps, ReadCount, ReadStatus, TakeBackWrap, ClearFlagA, SampleBus,
         BeginTimeStamp, BeginIdleTime, ReadFirst, ReadWrapCounter, ReadSecond,
         CheckWrapped, ReadAgain, EndTimeStamp, NothingWanted, Busy,
         CompareIdleTime, CheckTransitions, LastLook, WriteTxBuffer,
         WrappedSince, Wrapped, Use, UNHANDELED_BUS_TRANSITION, Access
    <3>2. QED
      BY <3>1 DEF LookInv
  <2>6. QED
    BY <2>2, <2>3, <2>4, <2>5
<1>7. QED
  BY <1>3, <1>4, <1>5, <1>6 DEF TimerNext

LEMMA TimerInvStarts ==
  ASSUME InitializeTimers PROVE TimerInv
<1>1. TimeInv /\ TimerTypeOK
  BY TimeInvStarts DEF TimeInv
<1>2. /\ pc = "poll" /\ InputCaptureA = None /\ since = 0 /\ lag = 0 /\ span = 0
      /\ time = 0 /\ ~TimerOverflow /\ J1708_idle_time = 0
  BY DEF InitializeTimers, StartJ1708IdleTimer
<1>3. Counter = 0
  BY <1>2, Positive DEF Counter
<1>4. J1708_last_transition_time = 0
  <2>1. 0 % WRAPS = 0
    BY Positive
  <2>2. 0 * PERIOD = 0
    BY Positive
  <2>3. Time32(0, 0) = 0
    BY <2>1, <2>2 DEF Time32
  <2>4. QED
    BY <1>3, <2>3 DEF InitializeTimers, StartJ1708IdleTimer
<1>5. Elapsed(0, 0) = 0
  BY ZeroFits, ElapsedIs
<1>6. EdgeInv
  BY <1>2, <1>4, <1>5 DEF EdgeInv, EdgeTimeIsTrue
<1>7. IdleInv
  <2>1. Overflows = 0
    BY <1>2, <1>3, Positive DEF Overflows
  <2>2. QED
    BY <2>1, <1>2, Positive DEF IdleInv
<1>8. CaptureInv /\ WrapInv /\ SpanInv /\ AskInv /\ LookInv
  BY <1>2, Positive DEF CaptureInv, WrapInv, SpanInv, AskInv, LookInv, AfterEdge, Reading,
     Using, Asking, Looking, InputCaptureFlagA
<1>9. QED
  BY <1>1, <1>6, <1>7, <1>8 DEF TimerInv

LEMMA TimerInvNext ==
  ASSUME InTime, TimerInv, [TimerNext]_timerVars PROVE TimerInv'
<1>1. TimeInv' /\ TimerTypeOK /\ CountInv
  BY TimeInvNext DEF TimerInv, TimeInv
<1>2. CaptureInv' /\ WrapInv' /\ SpanInv' /\ AskInv'
  BY <1>1, CaptureInvNext, WrapInvNext, SpanInvNext, AskInvNext DEF TimerInv
<1>3. EdgeInv' /\ IdleInv' /\ LookInv'
  BY <1>1, EdgeInvNext, IdleInvNext, LookInvNext DEF TimerInv
<1>4. QED
  BY <1>1, <1>2, <1>3 DEF TimerInv

\* Edges of the bus are timed accurately too, if the main loop comes round before
\* two bits have passed: a second rise does not overwrite what the hardware kept of
\* the first, and no time is off by a whole wrap, in whatever order the counter, its
\* overflow flag and wrapCounter are read (timers.c:161, timers.c:234).
THEOREM TimesStayTrue == ASSUME InTime PROVE TimerSpec => []TimesAreTrue
<1>1. InitializeTimers => TimerInv
  BY TimerInvStarts
<1>2. TimerInv /\ [TimerNext]_timerVars => TimerInv'
  BY TimerInvNext
<1>3. TimerInv => TimesAreTrue
  BY TimeInvGivesTimeIsTrue DEF TimerInv, EdgeInv, TimesAreTrue
<1>4. QED
  BY <1>1, <1>2, <1>3, PTL DEF TimerSpec

\* Under the same hypothesis a transmission starts only on a bus that has been idle
\* for as long as its priority asks for, whatever edges come between the comparison
\* of times and the last look, and however often the counter has wrapped
\* (ProcessJ1708TransmitQueue, StartJ1708Transmit).
THEOREM TransmissionsWait == ASSUME InTime PROVE TimerSpec => StartsOnIdleBus
<1>1. InitializeTimers => TimerInv
  BY TimerInvStarts
<1>2. TimerInv /\ [TimerNext]_timerVars => TimerInv'
  BY TimerInvNext
<1>3. TimerInv /\ [TimerNext]_timerVars
        => [pc = "look" /\ pc' = "write" => ~asserted /\ since >= ACCESS]_timerVars
  <2>1. SUFFICES ASSUME TimerInv, TimerNext, pc = "look", pc' = "write"
                 PROVE  ~asserted /\ since >= ACCESS
    OBVIOUS
  <2>2. ~Tick /\ ~Edge /\ ~Timer1IRQ /\ ~Want
    BY <2>1 DEF Tick, Edge, Timer1IRQ, Want
  <2>3. LastLook
    BY <2>1, <2>2 DEF TimerNext, Main, Poll, ReadTime, Transmit, NoFallingEdge,
       FallingEdge, ClearFlagB, NoRisingEdge, RisingEdge, ReadCapture,
       ReadWraps, ReadCount, ReadStatus, TakeBackWrap, ClearFlagA, SampleBus,
       BeginTimeStamp, BeginIdleTime, ReadFirst, ReadWrapCounter, ReadSecond,
       CheckWrapped, ReadAgain, EndTimeStamp, NothingWanted, Busy, IdleForEver,
       CompareIdleTime, CheckTransitions, WriteTxBuffer, WrappedSince, Wrapped,
       Use, UNHANDELED_BUS_TRANSITION, Access
  <2>4. ~asserted
    BY <2>1, <2>3 DEF LastLook, Access
  <2>5. QED
    BY <2>1, <2>4 DEF TimerInv, LookInv
<1>4. QED
  BY <1>1, <1>2, <1>3, PTL DEF TimerSpec, StartsOnIdleBus
================================================================================
