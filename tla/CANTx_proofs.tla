----------------------------- MODULE CANTx_proofs -----------------------------
(***************************************************************************)
(* Theorems about CANTx, for every size of the queue and every bound.      *)
(***************************************************************************)
EXTENDS CANTx, SequenceTheorems, TLAPS

\* The calls of one bit of a recovery command.
LEMMA CallsIfType ==
  ASSUME NEW bit \in Bits, NEW bits
  PROVE  CallsIf(bit, bits) \in Seq(Calls)
<1>1. CallsOf("restart") \in Seq(Calls)
  BY DEF CallsOf, Calls
<1>2. CallsOf("reset") \in Seq(Calls)
  BY DEF CallsOf, Calls
<1>3. CallsOf("init") \in Seq(Calls)
  BY DEF CallsOf, Calls
<1>4. CallsOf("clear") \in Seq(Calls)
  BY DEF CallsOf, Calls
<1>5. CallsOf("stop") \in Seq(Calls)
  BY DEF CallsOf, Calls
<1>6. CallsOf(bit) \in Seq(Calls)
  BY <1>1, <1>2, <1>3, <1>4, <1>5 DEF Bits
<1>7. <<>> \in Seq(Calls)
  OBVIOUS
<1> QED BY <1>6, <1>7 DEF CallsIf

\* The calls of a recovery command.
LEMMA ProgramType == \A bits : Program(bits) \in Seq(Calls)
<1> SUFFICES ASSUME NEW bits PROVE Program(bits) \in Seq(Calls)
  OBVIOUS
<1>1. \A bit \in {"restart", "reset", "init", "clear", "stop"} :
        CallsIf(bit, bits) \in Seq(Calls)
  BY CallsIfType DEF Bits
<1>2. \A s, t \in Seq(Calls) : s \o t \in Seq(Calls)
  OBVIOUS
<1> HIDE DEF CallsIf
<1> QED BY <1>1, <1>2 DEF Program

\* The message object's message is a message while its transmission is requested.
LEMMA MessageFields ==
  \A m \in Messages : m.id \in Ids /\ m.n \in Stamps /\ m.n \in Nat
  BY BoundAssumption DEF Messages, Stamps

-------------------------------------------------------------------------------
\* The initial state has the types.
LEMMA TypeInit == Init => TypeOK
<1> SUFFICES ASSUME Init PROVE TypeOK
  OBVIOUS
<1> USE SizeAssumption, BoundAssumption DEF Init
<1>1. CAN_tosend_queue \in Seq(Messages) /\ Len(CAN_tosend_queue) < CAN_QUEUE_SIZE
  OBVIOUS
<1>2. SNDMSG \in [TxRqst : BOOLEAN, TxIE : BOOLEAN, msg : Messages \union {NoMessage}]
  BY DEF Cleared
<1>3. todo \in Seq(Calls) /\ bus \in Seq(Nat) /\ confirmed \in Seq(Nat)
  OBVIOUS
<1>4. /\ CANtxc \in 0 .. MaxPktID /\ pktIDcounter \in Ids
      /\ others \in 0 .. MaxOthers /\ settings \in 0 .. MaxSettings
      /\ recoveries \in 0 .. MaxRecoveries /\ faults \in 0 .. MaxFaults
      /\ accepted \in 0 .. MaxAccepted
  OBVIOUS
<1>5. /\ busOff \in BOOLEAN /\ silent \in BOOLEAN
      /\ CANtransmitConfirm \in BOOLEAN /\ CANAutoRestart \in BOOLEAN
      /\ command \in SUBSET Bits
  BY Zenon
<1> QED BY <1>1, <1>2, <1>3, <1>4, <1>5 DEF TypeOK

\* The next id is an id.
LEMMA NextPktIDType == \A id \in Ids : NextPktID(id) \in Ids
  BY SizeAssumption DEF Ids, NextPktID

\* Steps of the host's commands keep the types.
LEMMA TypeStepHost ==
  ASSUME TypeOK, J1708TakesId \/ RefuseBusFault \/ AcceptMessage \/ Setting
                 \/ (\E bits \in SUBSET Bits : RecoveryCommand(bits))
  PROVE  TypeOK'
<1> USE SizeAssumption, BoundAssumption
<1>1. CASE J1708TakesId
  BY <1>1, NextPktIDType
     DEF TypeOK, J1708TakesId, controllerVars, settingVars, commandVars, historyVars
<1>2. CASE RefuseBusFault
  BY <1>2 DEF TypeOK, RefuseBusFault, settingVars, commandVars, boundVars, historyVars
<1>3. CASE AcceptMessage
  <2>1. [id |-> pktIDcounter, n |-> accepted + 1] \in Messages
    BY <1>3 DEF TypeOK, AcceptMessage, Messages, Stamps
  <2>2. CAN_tosend_queue' \in Seq(Messages) /\ Len(CAN_tosend_queue') < CAN_QUEUE_SIZE
    BY <1>3, <2>1, AppendProperties, LenProperties DEF TypeOK, AcceptMessage, QueueFull, GetFreeCANtxBuffers
  <2>3. accepted' \in 0 .. MaxAccepted /\ pktIDcounter' \in Ids
    BY <1>3, NextPktIDType DEF TypeOK, AcceptMessage
  <2> QED BY <1>3, <2>2, <2>3
    DEF TypeOK, AcceptMessage, controllerVars, settingVars, commandVars, boundVars
<1>4. CASE Setting
  <2>1. /\ CANtransmitConfirm' \in BOOLEAN /\ CANAutoRestart' \in BOOLEAN
        /\ silent' \in BOOLEAN
    BY <1>4, Zenon DEF TypeOK, Setting, SetTransmitConfirm, SetAutoRestart, SetTestMode,
                       settingVars
  <2>2. settings' \in 0 .. MaxSettings
    BY <1>4 DEF TypeOK, Setting
  <2> QED BY <1>4, <2>1, <2>2 DEF TypeOK, Setting, commandVars, historyVars
<1>5. ASSUME NEW bits \in SUBSET Bits, RecoveryCommand(bits) PROVE TypeOK'
  BY <1>5, ProgramType
     DEF TypeOK, RecoveryCommand, controllerVars, settingVars, historyVars
<1> QED BY <1>1, <1>2, <1>3, <1>4, <1>5

\* A cleared message object has the types.
LEMMA ClearedType ==
  Cleared \in [TxRqst : BOOLEAN, TxIE : BOOLEAN, msg : Messages \union {NoMessage}]
  BY DEF Cleared

\* What every call of a recovery command does to the rest of the state.
LEMMA CallType ==
  ASSUME TypeOK, NEW f, Call(f)
  PROVE  /\ todo' \in Seq(Calls) /\ command' \in SUBSET Bits
         /\ pktIDcounter' \in Ids
         /\ others' \in 0 .. MaxOthers /\ settings' \in 0 .. MaxSettings
         /\ recoveries' \in 0 .. MaxRecoveries /\ faults' \in 0 .. MaxFaults
         /\ accepted' \in 0 .. MaxAccepted
         /\ bus' \in Seq(Nat) /\ confirmed' \in Seq(Nat)
<1>1. todo' \in Seq(Calls)
  BY HeadTailProperties, LenProperties DEF TypeOK, Call
<1> QED BY <1>1 DEF TypeOK, Call, boundVars, historyVars

\* Steps of a recovery command keep the types.
LEMMA TypeStepCalls == ASSUME TypeOK, Calling PROVE TypeOK'
<1> USE SizeAssumption, BoundAssumption, CallType, ClearedType
<1>1. CASE CANRestart
  BY <1>1 DEF TypeOK, CANRestart, settingVars
<1>2. CASE DefaultPrefs
  BY <1>2 DEF TypeOK, DefaultPrefs, controllerVars
<1>3. ASSUME NEW f, EmptyQueue(f) PROVE TypeOK'
  <2>1. <<>> \in Seq(Messages) /\ Len(<<>>) = 0
    OBVIOUS
  <2> QED BY <1>3, <2>1 DEF TypeOK, EmptyQueue, controllerVars, settingVars
<1>4. CASE DisableCANTxIP
  BY <1>4 DEF TypeOK, DisableCANTxIP, settingVars
<1>5. CASE InitializeCANBusController
  <2>1. CANtxc' \in 0 .. MaxPktID
    BY <1>5 DEF InitializeCANBusController
  <2>2. busOff' \in BOOLEAN /\ silent' \in BOOLEAN
    BY <1>5, Zenon DEF InitializeCANBusController
  <2> QED BY <1>5, <2>1, <2>2 DEF TypeOK, InitializeCANBusController, settingVars
<1> QED BY <1>1, <1>2, <1>3, <1>4, <1>5 DEF Calling, ClearCANTxQueue, InitializeCANstructs

\* Steps of the transmitter and the bus keep the types.
LEMMA TypeStepBus ==
  ASSUME TypeOK, ConfirmInv, ProcessCANTransmitQueue \/ Transmitted \/ BusOff
  PROVE  TypeOK'
<1> USE SizeAssumption, BoundAssumption
<1>1. CASE ProcessCANTransmitQueue
  <2> DEFINE m == Head(CAN_tosend_queue)
  <2>1. /\ m \in Messages /\ m.id \in 0 .. MaxPktID
        /\ Tail(CAN_tosend_queue) \in Seq(Messages)
        /\ Len(Tail(CAN_tosend_queue)) < CAN_QUEUE_SIZE
    BY <1>1, HeadTailProperties, LenProperties, MessageFields DEF TypeOK, ProcessCANTransmitQueue, GetNextCANmessage, Ids
  <2> HIDE DEF m
  <2>2. Load(m)
    BY <1>1 DEF ProcessCANTransmitQueue, GetNextCANmessage, m
  <2> QED BY <2>1, <2>2 DEF TypeOK, Load, settingVars, commandVars, boundVars, historyVars
<1>2. CASE Transmitted
  <2>1. SNDMSG.msg.n \in Nat
    BY <1>2, MessageFields DEF ConfirmInv, Transmitted
  <2>2. bus' \in Seq(Nat) /\ confirmed' \in Seq(Nat)
    <3>1. Append(bus, SNDMSG.msg.n) \in Seq(Nat)
          /\ Append(confirmed, SNDMSG.msg.n) \in Seq(Nat)
      BY <2>1, AppendProperties, LenProperties DEF TypeOK
    <3> QED BY <1>2, <3>1 DEF TypeOK, Transmitted, Confirm, NextFrame, NoInterrupt
  <2>3. SNDMSG' \in [TxRqst : BOOLEAN, TxIE : BOOLEAN, msg : Messages \union {NoMessage}]
    BY <1>2 DEF TypeOK, Transmitted, Confirm, NextFrame, NoInterrupt
  <2>4. CANtxc' \in 0 .. MaxPktID
    <3>1. CANtxc' = CANtxc \/ CANtxc' = 0
      BY <1>2, Zenon DEF Transmitted, Confirm, NextFrame, NoInterrupt
    <3> QED BY <3>1 DEF TypeOK
  <2> QED BY <1>2, <2>2, <2>3, <2>4 DEF TypeOK, Transmitted, settingVars, commandVars, boundVars
<1>3. CASE BusOff
  BY <1>3 DEF TypeOK, BusOff, settingVars, commandVars, historyVars
<1> QED BY <1>1, <1>2, <1>3

\* Every step keeps the types; ConfirmInv says that what is sent is a message.
LEMMA TypeStep == TypeOK /\ ConfirmInv /\ [Next]_vars => TypeOK'
<1> SUFFICES ASSUME TypeOK, ConfirmInv, [Next]_vars PROVE TypeOK'
  OBVIOUS
<1>1. CASE Next
  BY <1>1, TypeStepHost, TypeStepCalls, TypeStepBus DEF Next
<1>2. CASE UNCHANGED vars
  BY <1>2 DEF TypeOK, vars, controllerVars, settingVars, commandVars, boundVars, historyVars
<1> QED BY <1>1, <1>2

-------------------------------------------------------------------------------
\* The object's message, CANtxc and the request agree at first.
LEMMA ConfirmInit == Init => ConfirmInv
  BY DEF Init, ConfirmInv, Cleared

\* CANtxc goes with the message in the object, and never is 0 for one to confirm.
LEMMA ConfirmStep == TypeOK /\ ConfirmInv /\ [Next]_vars => ConfirmInv'
<1> SUFFICES ASSUME TypeOK, ConfirmInv, [Next]_vars PROVE ConfirmInv'
  OBVIOUS
<1>1. CASE UNCHANGED <<SNDMSG, CANtxc>>
  BY <1>1 DEF ConfirmInv
<1>2. CASE ProcessCANTransmitQueue
  <2>1. Head(CAN_tosend_queue) \in Messages
    BY <1>2, HeadTailProperties, LenProperties DEF TypeOK, ProcessCANTransmitQueue, GetNextCANmessage
  <2> QED BY <1>2, <2>1 DEF ConfirmInv, ProcessCANTransmitQueue, GetNextCANmessage, Load
<1>3. CASE Transmitted
  <2>1. SNDMSG.TxIE => CANtxc # 0
    BY <1>3, MessageFields DEF ConfirmInv, Transmitted, Ids
  <2>2. ~SNDMSG'.TxRqst
    BY <1>3, <2>1 DEF TypeOK, Transmitted, NoInterrupt, Confirm
  <2> QED BY <2>2 DEF ConfirmInv
<1>4. CASE DisableCANTxIP \/ InitializeCANBusController
  BY <1>4 DEF ConfirmInv, DisableCANTxIP, InitializeCANBusController, Cleared
<1> QED BY <1>1, <1>2, <1>3, <1>4
  DEF Next, Calling, vars, controllerVars, J1708TakesId, RefuseBusFault, AcceptMessage,
      Setting, RecoveryCommand, CANRestart, DefaultPrefs, EmptyQueue, ClearCANTxQueue,
      InitializeCANstructs, BusOff

(***************************************************************************)
(* Type correctness.  The slots of the ring in use, the message object,    *)
(* CANtxc and the id counter (1 .. MaxPktID, never 0) stay in range.       *)
(***************************************************************************)
THEOREM TypeCorrect == Spec => []TypeOK
<1>1. Init => TypeOK /\ ConfirmInv
  BY TypeInit, ConfirmInit
<1>2. TypeOK /\ ConfirmInv /\ [Next]_vars => (TypeOK /\ ConfirmInv)'
  BY TypeStep, ConfirmStep
<1> QED BY <1>1, <1>2, PTL DEF Spec

-------------------------------------------------------------------------------
(***************************************************************************)
(* The refinement: what every action does to Waiting.                      *)
(***************************************************************************)
\* The stamps of a queue, one per message and in the same order.
LEMMA StampsFacts ==
  ASSUME NEW q \in Seq(Messages)
  PROVE  /\ StampsOf(q) \in Seq(Nat) /\ Len(StampsOf(q)) = Len(q)
         /\ \A i \in 1 .. Len(q) : StampsOf(q)[i] = q[i].n
         /\ q = <<>> => StampsOf(q) = <<>>
<1>1. \A i \in 1 .. Len(q) : q[i].n \in Nat
  BY MessageFields
<1>2. StampsOf(q) \in Seq(Nat) /\ Len(StampsOf(q)) = Len(q)
      /\ \A i \in 1 .. Len(q) : StampsOf(q)[i] = q[i].n
  BY <1>1 DEF StampsOf
<1>3. \A t \in Seq(Nat) : Len(t) = 0 => t = <<>>
  OBVIOUS
<1> QED BY <1>2, <1>3

\* The stamps of a queue with a message appended.
LEMMA StampsAppend ==
  ASSUME NEW q \in Seq(Messages), NEW m \in Messages
  PROVE  StampsOf(Append(q, m)) = Append(StampsOf(q), m.n)
<1> DEFINE r == Append(q, m)
           t == Append(StampsOf(q), m.n)
<1>1. /\ r \in Seq(Messages) /\ Len(r) = Len(q) + 1 /\ r[Len(q) + 1] = m
      /\ \A i \in 1 .. Len(q) : r[i] = q[i]
  BY AppendProperties, LenProperties
<1>2. /\ t \in Seq(Nat) /\ Len(t) = Len(q) + 1 /\ t[Len(q) + 1] = m.n
      /\ \A i \in 1 .. Len(q) : t[i] = q[i].n
  BY AppendProperties, LenProperties, StampsFacts, MessageFields
<1> HIDE DEF r, t
<1>3. /\ StampsOf(r) \in Seq(Nat) /\ Len(StampsOf(r)) = Len(r)
      /\ \A i \in 1 .. Len(r) : StampsOf(r)[i] = r[i].n
  BY <1>1, StampsFacts
<1>4. \A i \in 1 .. Len(r) : StampsOf(r)[i] = t[i]
  <2> TAKE i \in 1 .. Len(r)
  <2>1. Len(q) \in Nat
    OBVIOUS
  <2>2. CASE i = Len(q) + 1
    <3>1. StampsOf(r)[i] = r[i].n
      BY <1>3
    <3> QED BY <1>1, <1>2, <2>2, <3>1
  <2>3. CASE i \in 1 .. Len(q)
    <3>1. StampsOf(r)[i] = r[i].n
      BY <1>3
    <3> QED BY <1>1, <1>2, <2>3, <3>1
  <2> QED BY <1>1, <2>1, <2>2, <2>3
<1>5. StampsOf(r) = t
  BY <1>1, <1>2, <1>3, <1>4, SeqEqual
<1> QED BY <1>5 DEF r, t

\* The stamps of a queue without its head.
LEMMA StampsTail ==
  ASSUME NEW q \in Seq(Messages), q # <<>>
  PROVE  <<Head(q).n>> \o StampsOf(Tail(q)) = StampsOf(q)
<1>1. /\ Len(q) \in Nat \ {0} /\ Head(q) = q[1] /\ Head(q) \in Messages
      /\ Tail(q) \in Seq(Messages) /\ Len(Tail(q)) = Len(q) - 1
      /\ \A i \in 1 .. Len(Tail(q)) : Tail(q)[i] = q[i + 1]
  BY HeadTailProperties, LenProperties
<1> DEFINE r == Tail(q)
           s == <<Head(q).n>>
           t == s \o StampsOf(r)
<1>2. /\ r \in Seq(Messages) /\ Len(r) = Len(q) - 1
      /\ \A i \in 1 .. Len(r) : r[i] = q[i + 1]
  BY <1>1
<1> HIDE DEF r
<1>3. /\ StampsOf(r) \in Seq(Nat) /\ Len(StampsOf(r)) = Len(r)
      /\ \A i \in 1 .. Len(r) : StampsOf(r)[i] = r[i].n
  BY <1>2, StampsFacts
<1>4. /\ StampsOf(r) \in Seq(Nat) /\ Len(StampsOf(r)) = Len(q) - 1
      /\ \A i \in 1 .. Len(q) - 1 : StampsOf(r)[i] = q[i + 1].n
  BY <1>2, <1>3
<1>5. s \in Seq(Nat) /\ Len(s) = 1 /\ s[1] = q[1].n
  BY <1>1, MessageFields
<1> HIDE DEF s
<1>6. /\ t \in Seq(Nat) /\ Len(t) = Len(q) /\ t[1] = q[1].n
      /\ \A i \in 1 .. Len(q) - 1 : t[1 + i] = q[i + 1].n
  <2>1. /\ t \in Seq(Nat) /\ Len(t) = Len(s) + Len(StampsOf(r))
        /\ \A i \in 1 .. Len(s) : t[i] = s[i]
        /\ \A i \in 1 .. Len(StampsOf(r)) : t[Len(s) + i] = StampsOf(r)[i]
    <3> DEFINE u == StampsOf(r)
    <3>1. s \in Seq(Nat) /\ u \in Seq(Nat)
      BY <1>4, <1>5
    <3> HIDE DEF u
    <3>2. /\ s \o u \in Seq(Nat) /\ Len(s \o u) = Len(s) + Len(u)
          /\ \A i \in 1 .. Len(s) : (s \o u)[i] = s[i]
          /\ \A i \in 1 .. Len(u) : (s \o u)[Len(s) + i] = u[i]
      BY <3>1, ConcatProperties, LenProperties
    <3> QED BY <3>2 DEF u
  <2> HIDE DEF t
  <2>2. Len(t) = Len(q)
    BY <1>1, <1>4, <1>5, <2>1
  <2>4. t[1] = q[1].n
    BY <1>5, <2>1
  <2>3. ASSUME NEW i \in 1 .. Len(q) - 1 PROVE t[1 + i] = q[i + 1].n
    <3>1. t[1 + i] = StampsOf(r)[i]
      BY <1>4, <1>5, <2>1
    <3> QED BY <1>4, <3>1
  <2> QED BY <2>1, <2>2, <2>3, <2>4
<1> HIDE DEF t
<1>7. \A i \in 1 .. Len(q) : t[i] = q[i].n
  <2> TAKE i \in 1 .. Len(q)
  <2>1. CASE i = 1
    BY <1>6, <2>1
  <2>2. CASE i # 1
    <3>1. i - 1 \in 1 .. Len(q) - 1 /\ 1 + (i - 1) = i /\ (i - 1) + 1 = i
      BY <1>1, <2>2
    <3> QED BY <1>6, <3>1
  <2> QED BY <2>1, <2>2
<1>8. t = StampsOf(q)
  BY <1>6, <1>7, StampsFacts, SeqEqual
<1> QED BY <1>8 DEF t, r, s

\* What is put in front of a sequence is its head, and the sequence its tail.
LEMMA PutInFront ==
  ASSUME NEW S, NEW s \in Seq(S), NEW e \in S
  PROVE  /\ <<e>> \o s \in Seq(S) /\ <<e>> \o s # <<>>
         /\ Head(<<e>> \o s) = e /\ Tail(<<e>> \o s) = s
<1>1. <<e>> \in Seq(S) /\ Len(<<e>>) = 1 /\ <<e>>[1] = e
  OBVIOUS
<1> DEFINE t == <<e>> \o s
<1>2. /\ t \in Seq(S) /\ Len(t) = 1 + Len(s) /\ Len(s) \in Nat
      /\ \A i \in 1 .. 1 + Len(s) : t[i] = IF i <= 1 THEN e ELSE s[i - 1]
  BY <1>1, ConcatProperties, LenProperties
<1> HIDE DEF t
<1>3. t # <<>> /\ Head(t) = t[1] /\ t[1] = e
  BY <1>2
<1>4. Tail(t) \in Seq(S) /\ Len(Tail(t)) = Len(s) /\ \A i \in 1 .. Len(s) : Tail(t)[i] = s[i]
  BY <1>2, <1>3, HeadTailProperties
<1>5. Tail(t) = s
  BY <1>4, SeqEqual
<1> QED
  BY <1>2, <1>3, <1>5 DEF t

\* What waits is a sequence of stamps: the object's, if any, and the queue's.
LEMMA WaitingFacts ==
  ASSUME TypeOK, ConfirmInv
  PROVE  /\ Waiting \in Seq(Nat)
         /\ StampsOf(CAN_tosend_queue) \in Seq(Nat)
         /\ InObject \in Seq(Nat)
         /\ ~SNDMSG.TxRqst => Waiting = StampsOf(CAN_tosend_queue)
         /\ SNDMSG.TxRqst => /\ SNDMSG.msg.n \in Nat
                              /\ Waiting # <<>> /\ Head(Waiting) = SNDMSG.msg.n
                              /\ Tail(Waiting) = StampsOf(CAN_tosend_queue)
         /\ CAN_tosend_queue = <<>> => Waiting = InObject
<1>1. StampsOf(CAN_tosend_queue) \in Seq(Nat)
      /\ (CAN_tosend_queue = <<>> => StampsOf(CAN_tosend_queue) = <<>>)
  BY StampsFacts DEF TypeOK
<1>2. SNDMSG.TxRqst => SNDMSG.msg.n \in Nat
  BY MessageFields DEF ConfirmInv
<1>3. InObject \in Seq(Nat)
  BY <1>2 DEF InObject
<1> DEFINE s == StampsOf(CAN_tosend_queue)
<1> HIDE DEF s
<1>4. s \in Seq(Nat) /\ (CAN_tosend_queue = <<>> => s = <<>>) /\ Waiting = InObject \o s
  BY <1>1 DEF s, Waiting
<1>5. CASE ~SNDMSG.TxRqst
  <2>1. Waiting = s
    BY <1>4, <1>5, ConcatEmptySeq DEF InObject
  <2>2. s = <<>> => Waiting = InObject
    BY <1>5, <2>1 DEF InObject
  <2> QED BY <1>3, <1>4, <1>5, <2>1, <2>2 DEF s
<1>6. CASE SNDMSG.TxRqst
  <2>1. Waiting = <<SNDMSG.msg.n>> \o s
    BY <1>4, <1>6 DEF InObject
  <2>2. /\ Waiting \in Seq(Nat) /\ Waiting # <<>>
        /\ Head(Waiting) = SNDMSG.msg.n /\ Tail(Waiting) = s
    BY <1>2, <1>4, <1>6, <2>1, PutInFront
  <2>3. s = <<>> => Waiting = InObject
    BY <1>3, <1>4, ConcatEmptySeq
  <2> QED BY <1>2, <1>3, <1>4, <1>6, <2>2, <2>3 DEF s
<1> QED BY <1>5, <1>6

\* Accepting a message puts it behind those that wait.
LEMMA AcceptMaps ==
  ASSUME TypeOK, ConfirmInv, AcceptMessage
  PROVE  Service!Accept
<1> DEFINE m == [id |-> pktIDcounter, n |-> accepted + 1]
<1>1. m \in Messages /\ m.n = accepted + 1
  BY BoundAssumption DEF TypeOK, AcceptMessage, Messages, Stamps
<1>2. accepted + 1 \in Nat
  BY BoundAssumption DEF TypeOK
<1> DEFINE s == StampsOf(CAN_tosend_queue)
<1>3. StampsOf(CAN_tosend_queue') = Append(s, accepted + 1)
  BY <1>1, StampsAppend DEF TypeOK, AcceptMessage
<1>4. InObject' = InObject
  BY DEF AcceptMessage, controllerVars, InObject
<1>5. s \in Seq(Nat) /\ InObject \in Seq(Nat)
  BY WaitingFacts
<1> HIDE DEF s, m
<1>6. InObject \o Append(s, accepted + 1) = Append(InObject \o s, accepted + 1)
  BY <1>2, <1>5, AppendIsConcat, ConcatAssociative, ConcatProperties
<1>7. Waiting' = Append(Waiting, accepted + 1)
  BY <1>3, <1>4, <1>6 DEF Waiting, s
<1>8. todo = <<>> /\ todo' = <<>> /\ accepted' = accepted + 1
      /\ bus' = bus /\ confirmed' = confirmed
  BY DEF AcceptMessage, commandVars
<1> QED BY <1>7, <1>8 DEF Service!Accept

\* Loading the message object changes nothing of what waits.
LEMMA ProcessMaps ==
  ASSUME TypeOK, ConfirmInv, ProcessCANTransmitQueue
  PROVE  UNCHANGED Service!vars
<1>1. /\ CAN_tosend_queue \in Seq(Messages) /\ CAN_tosend_queue # <<>> /\ ~SNDMSG.TxRqst
      /\ CAN_tosend_queue' = Tail(CAN_tosend_queue)
      /\ SNDMSG'.TxRqst /\ SNDMSG'.msg = Head(CAN_tosend_queue)
  BY DEF TypeOK, ProcessCANTransmitQueue, GetNextCANmessage, Load
<1>2. InObject' = <<Head(CAN_tosend_queue).n>>
  BY <1>1 DEF InObject
<1>3. Waiting' = <<Head(CAN_tosend_queue).n>> \o StampsOf(Tail(CAN_tosend_queue))
  BY <1>1, <1>2 DEF Waiting
<1>4. Waiting' = Waiting
  BY <1>1, <1>3, StampsTail, WaitingFacts
<1> QED BY <1>4 DEF Service!vars, ProcessCANTransmitQueue, GetNextCANmessage, Load, commandVars, historyVars

\* The interrupt sees an id to confirm exactly if a confirmation is owed.
LEMMA TransmittedRequest ==
  ASSUME TypeOK, ConfirmInv, Transmitted
  PROVE  ~SNDMSG'.TxRqst /\ confirmed' \in {confirmed, Append(confirmed, SNDMSG.msg.n)}
<1>1. SNDMSG.TxIE => CANtxc # 0
  BY MessageFields DEF ConfirmInv, Transmitted, Ids
<1> QED BY <1>1 DEF TypeOK, Transmitted, NoInterrupt, Confirm

\* What is transmitted is the first of what waits.
LEMMA TransmittedMaps ==
  ASSUME TypeOK, ConfirmInv, Transmitted
  PROVE  Service!Transmit
<1>1. /\ Waiting # <<>> /\ Head(Waiting) = SNDMSG.msg.n
      /\ Tail(Waiting) = StampsOf(CAN_tosend_queue)
      /\ StampsOf(CAN_tosend_queue) \in Seq(Nat)
  BY WaitingFacts DEF Transmitted
<1>2. InObject' = <<>> /\ CAN_tosend_queue' = CAN_tosend_queue
  BY TransmittedRequest DEF InObject, Transmitted
<1>3. Waiting' = StampsOf(CAN_tosend_queue)
  BY <1>1, <1>2, ConcatEmptySeq DEF Waiting
<1>4. /\ bus' = Append(bus, SNDMSG.msg.n) /\ accepted' = accepted /\ todo' = todo
      /\ confirmed' \in {confirmed, Append(confirmed, SNDMSG.msg.n)}
  BY TransmittedRequest DEF Transmitted, commandVars
<1> QED BY <1>1, <1>3, <1>4 DEF Service!Transmit

\* Clearing the queue keeps at most the message in the object; clearing the
\* object keeps at most the queue.
LEMMA ClearingWaiting ==
  ASSUME TypeOK, ConfirmInv
  PROVE  /\ UNCHANGED <<SNDMSG, CAN_tosend_queue>> => Waiting' = Waiting
         /\ SNDMSG' = SNDMSG /\ CAN_tosend_queue' = <<>> =>
              Waiting' \in {Waiting, <<>>, <<Head(Waiting)>>}
         /\ SNDMSG' = Cleared /\ CAN_tosend_queue' = CAN_tosend_queue =>
              Waiting' = Waiting \/ (Waiting # <<>> /\ Waiting' = Tail(Waiting))
<1>1. UNCHANGED <<SNDMSG, CAN_tosend_queue>> => Waiting' = Waiting
  BY DEF Waiting, InObject
<1>2. ASSUME SNDMSG' = SNDMSG, CAN_tosend_queue' = <<>>
      PROVE  Waiting' \in {Waiting, <<>>, <<Head(Waiting)>>}
  <2>1. <<>> \in Seq(Messages)
    OBVIOUS
  <2>2. StampsOf(CAN_tosend_queue') = <<>>
    BY <1>2, <2>1, StampsFacts
  <2>3. InObject' = InObject /\ InObject \in Seq(Nat)
    BY <1>2, WaitingFacts DEF InObject
  <2>4. Waiting' = InObject \o <<>>
    BY <2>2, <2>3 DEF Waiting
  <2>5. Waiting' = InObject
    BY <2>3, <2>4, ConcatEmptySeq
  <2> QED BY <2>5, WaitingFacts DEF InObject
<1>3. ASSUME SNDMSG' = Cleared, CAN_tosend_queue' = CAN_tosend_queue
      PROVE  Waiting' = Waiting \/ (Waiting # <<>> /\ Waiting' = Tail(Waiting))
  <2>1. InObject' = <<>>
    BY <1>3 DEF InObject, Cleared
  <2>2. Waiting' = <<>> \o StampsOf(CAN_tosend_queue)
    BY <1>3, <2>1 DEF Waiting
  <2>3. Waiting' = StampsOf(CAN_tosend_queue)
    BY <2>2, ConcatEmptySeq, WaitingFacts
  <2> QED BY <2>3, WaitingFacts
<1> QED BY <1>1, <1>2, <1>3

\* A call of a recovery command gives up messages, or ends the command, or is
\* not seen.
LEMMA CallingMaps ==
  ASSUME TypeOK, ConfirmInv, Calling
  PROVE  Service!Next \/ UNCHANGED Service!vars
<1>1. todo # <<>> /\ UNCHANGED <<accepted, bus, confirmed>>
  BY DEF Calling, CANRestart, DefaultPrefs, ClearCANTxQueue, InitializeCANstructs,
         EmptyQueue, DisableCANTxIP, InitializeCANBusController, Call, historyVars
<1>2. \/ UNCHANGED <<SNDMSG, CAN_tosend_queue>>
      \/ SNDMSG' = SNDMSG /\ CAN_tosend_queue' = <<>>
      \/ SNDMSG' = Cleared /\ CAN_tosend_queue' = CAN_tosend_queue
  BY DEF Calling, CANRestart, DefaultPrefs, ClearCANTxQueue, InitializeCANstructs,
         EmptyQueue, DisableCANTxIP, InitializeCANBusController, controllerVars
<1>3. \/ Waiting' = Waiting
      \/ Waiting' = <<>>
      \/ Waiting' = <<Head(Waiting)>>
      \/ Waiting # <<>> /\ Waiting' = Tail(Waiting)
  BY <1>2, ClearingWaiting
<1>4. CASE Waiting' = Waiting
  <2>1. CASE todo' = <<>>
    BY <1>1, <1>4, <2>1 DEF Service!Next, Service!Recover
  <2>2. CASE todo' # <<>>
    BY <1>1, <1>4, <2>2 DEF Service!vars
  <2> QED BY <2>1, <2>2
<1>5. CASE Waiting' # Waiting
  <2>1. Waiting # <<>>
    <3>1. SUFFICES ASSUME Waiting = <<>> PROVE FALSE
      OBVIOUS
    <3>2. CAN_tosend_queue = <<>> /\ ~SNDMSG.TxRqst
      <4>1. ~SNDMSG.TxRqst
        BY <3>1, WaitingFacts
      <4>2. StampsOf(CAN_tosend_queue) = <<>>
        BY <3>1, <4>1, WaitingFacts
      <4>3. Len(CAN_tosend_queue) = 0
        <5>1. Len(StampsOf(CAN_tosend_queue)) = Len(CAN_tosend_queue)
          BY StampsFacts DEF TypeOK
        <5> QED BY <4>2, <5>1
      <4> QED BY <4>1, <4>3 DEF TypeOK
    <3>3. InObject' = <<>> /\ CAN_tosend_queue' = <<>>
      BY <1>2, <3>2 DEF InObject, Cleared
    <3>4. UNCHANGED <<InObject, CAN_tosend_queue>>
      BY <3>2, <3>3 DEF InObject
    <3> QED BY <1>5, <3>4 DEF Waiting
  <2>2. Waiting' \in {<<>>, <<Head(Waiting)>>, Tail(Waiting)}
    BY <1>3, <1>5
  <2> QED BY <1>1, <2>1, <2>2 DEF Service!Next, Service!GiveUp
<1> QED BY <1>4, <1>5

\* Every step is a step of the service, or is not seen.
LEMMA StepMaps ==
  TypeOK /\ ConfirmInv /\ [Next]_vars => [Service!Next]_(Service!vars)
<1> SUFFICES ASSUME TypeOK, ConfirmInv, [Next]_vars
             PROVE  Service!Next \/ UNCHANGED Service!vars
  OBVIOUS
<1>1. CASE AcceptMessage
  BY <1>1, AcceptMaps DEF Service!Next
<1>2. CASE ProcessCANTransmitQueue
  BY <1>2, ProcessMaps
<1>3. CASE Transmitted
  BY <1>3, TransmittedMaps DEF Service!Next
<1>4. CASE Calling
  BY <1>4, CallingMaps
<1>5. ASSUME NEW bits \in SUBSET Bits, RecoveryCommand(bits)
      PROVE  Service!Next \/ UNCHANGED Service!vars
  <2>1. UNCHANGED <<SNDMSG, CAN_tosend_queue, accepted, bus, confirmed>> /\ todo = <<>>
    BY <1>5 DEF RecoveryCommand, controllerVars, historyVars
  <2>2. Waiting' = Waiting
    BY <2>1, ClearingWaiting
  <2>3. CASE todo' = <<>>
    BY <2>1, <2>2, <2>3 DEF Service!vars
  <2>4. CASE todo' # <<>>
    BY <2>1, <2>2, <2>4 DEF Service!Next, Service!Recover
  <2> QED BY <2>3, <2>4
<1>6. CASE UNCHANGED <<SNDMSG, CAN_tosend_queue, todo, accepted, bus, confirmed>>
  BY <1>6, ClearingWaiting DEF Service!vars
<1> QED BY <1>1, <1>2, <1>3, <1>4, <1>5, <1>6
  DEF Next, vars, controllerVars, commandVars, historyVars,
      J1708TakesId, RefuseBusFault, Setting, BusOff

\* Nothing waits at first.
LEMMA InitMaps == Init => Service!Init
<1> SUFFICES ASSUME Init PROVE Service!Init
  OBVIOUS
<1>1. <<>> \in Seq(Messages)
  OBVIOUS
<1>2. StampsOf(CAN_tosend_queue) = <<>> /\ InObject = <<>>
  BY <1>1, StampsFacts DEF Init, Cleared, InObject
<1>3. Waiting = <<>>
  BY <1>2 DEF Waiting
<1> QED BY <1>3 DEF Init, Service!Init

(***************************************************************************)
(* The transmit side implements CANService: whatever the host commands and *)
(* the bus does, messages go out once and in order, only what is on the    *)
(* bus is confirmed, and only a recovery command gives a message up.       *)
(***************************************************************************)
THEOREM Implementation == Spec => ImplementsService
<1>1. Init => TypeOK /\ ConfirmInv
  BY TypeInit, ConfirmInit
<1>2. TypeOK /\ ConfirmInv /\ [Next]_vars => (TypeOK /\ ConfirmInv)'
  BY TypeStep, ConfirmStep
<1> QED BY <1>1, <1>2, InitMaps, StepMaps, PTL DEF Spec, ImplementsService, Service!Spec

-------------------------------------------------------------------------------
(***************************************************************************)
(* What the service promises follows from its steps, and so holds of the   *)
(* transmit side, which takes no others.                                   *)
(***************************************************************************)
\* Nothing has happened at first.
LEMMA ServiceStart == Service!Init => Service!TypeOK /\ Service!ServiceInv
<1> SUFFICES ASSUME Service!Init PROVE Service!TypeOK /\ Service!ServiceInv
  OBVIOUS
<1>1. DOMAIN Waiting = {} /\ DOMAIN bus = {} /\ DOMAIN confirmed = {}
  BY DEF Service!Init
<1>2. Service!TypeOK
  <2>1. <<>> \in Seq(Nat) /\ 0 \in Nat
    OBVIOUS
  <2>2. (todo # <<>>) \in BOOLEAN
    BY Zenon DEF Service!Init
  <2> QED BY <2>1, <2>2 DEF Service!Init, Service!TypeOK
<1> QED BY <1>1, <1>2 DEF Service!ServiceInv, Service!Increasing

\* Appending something larger keeps a sequence increasing.
LEMMA IncreasingAppend ==
  ASSUME NEW s \in Seq(Nat), Service!Increasing(s), NEW n \in Nat,
         \A i \in 1 .. Len(s) : s[i] < n
  PROVE  Service!Increasing(Append(s, n))
<1> DEFINE r == Append(s, n)
<1>1. /\ r \in Seq(Nat) /\ Len(r) = Len(s) + 1 /\ Len(s) \in Nat /\ r[Len(s) + 1] = n
      /\ \A i \in 1 .. Len(s) : r[i] = s[i]
  BY AppendProperties, LenProperties
<1>2. DOMAIN s = 1 .. Len(s)
  OBVIOUS
<1> HIDE DEF r
<1>3. ASSUME NEW i \in 1 .. Len(r), NEW j \in 1 .. Len(r), i < j
      PROVE  r[i] < r[j]
  <2>1. i \in 1 .. Len(s) /\ r[i] = s[i]
    BY <1>1, <1>3
  <2>2. CASE j \in 1 .. Len(s)
    BY <1>1, <1>2, <1>3, <2>1, <2>2 DEF Service!Increasing
  <2>3. CASE j = Len(s) + 1
    BY <1>1, <2>1, <2>3
  <2> QED BY <1>1, <2>2, <2>3
<1>4. DOMAIN r = 1 .. Len(r)
  BY <1>1
<1>5. Service!Increasing(r)
  BY <1>3, <1>4 DEF Service!Increasing
<1> QED BY <1>5 DEF r

\* A tail of an increasing sequence is increasing.
LEMMA IncreasingTail ==
  ASSUME NEW s \in Seq(Nat), s # <<>>, Service!Increasing(s)
  PROVE  Service!Increasing(Tail(s)) /\ \A i \in 1 .. Len(Tail(s)) : Head(s) < Tail(s)[i]
<1> DEFINE r == Tail(s)
<1>1. /\ Len(s) \in Nat \ {0} /\ Head(s) = s[1]
      /\ r \in Seq(Nat) /\ Len(r) = Len(s) - 1
      /\ \A i \in 1 .. Len(r) : r[i] = s[i + 1]
  BY HeadTailProperties, LenProperties
<1>2. DOMAIN s = 1 .. Len(s) /\ DOMAIN r = 1 .. Len(r)
  BY <1>1
<1> HIDE DEF r
<1>3. \A i \in 1 .. Len(r) : i + 1 \in DOMAIN s /\ 1 \in DOMAIN s /\ 1 < i + 1
  BY <1>1, <1>2
<1>4. \A i, j \in 1 .. Len(r) : i < j => i + 1 < j + 1
  BY <1>1
<1> QED BY <1>1, <1>2, <1>3, <1>4 DEF Service!Increasing, r

\* Domains of the service's sequences.
LEMMA ServiceDomains ==
  ASSUME Service!TypeOK
  PROVE  /\ DOMAIN Waiting = 1 .. Len(Waiting)
         /\ DOMAIN bus = 1 .. Len(bus)
         /\ DOMAIN confirmed = 1 .. Len(confirmed)
  BY DEF Service!TypeOK

\* A message is accepted: it is newer than all others.
LEMMA ServiceAccepts ==
  ASSUME Service!TypeOK, Service!ServiceInv, Service!Accept
  PROVE  Service!TypeOK' /\ Service!ServiceInv'
<1> DEFINE w == Waiting
           v == Append(Waiting, accepted + 1)
<1>1. /\ w \in Seq(Nat) /\ accepted \in Nat /\ accepted + 1 \in Nat
      /\ accepted' = accepted + 1 /\ Waiting' = v
      /\ bus' = bus /\ confirmed' = confirmed /\ (todo # <<>>)' = (todo # <<>>)
  BY DEF Service!TypeOK, Service!Accept
<1>2. /\ v \in Seq(Nat) /\ Len(v) = Len(w) + 1 /\ Len(w) \in Nat
      /\ v[Len(w) + 1] = accepted + 1
      /\ \A i \in 1 .. Len(w) : v[i] = w[i]
  BY <1>1, AppendProperties, LenProperties
<1>3. \A i \in 1 .. Len(w) : w[i] <= accepted /\ w[i] \in Nat
  <2>1. \A i \in 1 .. Len(w) : w[i] <= accepted
    BY ServiceDomains DEF Service!ServiceInv
  <2>2. \A i \in 1 .. Len(w) : w[i] \in Nat
    BY <1>1
  <2> QED BY <2>1, <2>2
<1>4. Service!Increasing(v)
  BY <1>1, <1>3, IncreasingAppend DEF Service!ServiceInv
<1>5. Service!TypeOK'
  BY <1>1, <1>2 DEF Service!TypeOK
<1> HIDE DEF v
<1>6. DOMAIN v = 1 .. Len(v)
  BY <1>2
<1>7. \A i \in DOMAIN v : v[i] <= accepted + 1
  BY <1>1, <1>2, <1>3, <1>6
<1>8. \A i \in DOMAIN bus : bus[i] \in Nat /\ bus[i] <= accepted
  BY ServiceDomains DEF Service!TypeOK, Service!ServiceInv
<1>9. \A i \in DOMAIN bus : \A j \in DOMAIN v : bus[i] < v[j]
  <2> TAKE i \in DOMAIN bus
  <2> TAKE j \in DOMAIN v
  <2>1. CASE j \in 1 .. Len(w)
    BY <1>2, <2>1, ServiceDomains DEF Service!ServiceInv
  <2>2. CASE j = Len(w) + 1
    BY <1>1, <1>2, <1>8, <2>2
  <2> QED BY <1>2, <1>6, <2>1, <2>2
<1>10. \A i \in DOMAIN bus : bus[i] <= accepted + 1
  BY <1>1, <1>8
<1> QED BY <1>1, <1>4, <1>5, <1>7, <1>9, <1>10 DEF Service!ServiceInv

\* The oldest message goes on the bus: it is newer than all that are on it.
LEMMA ServiceTransmits ==
  ASSUME Service!TypeOK, Service!ServiceInv, Service!Transmit
  PROVE  Service!TypeOK' /\ Service!ServiceInv'
<1> DEFINE h == Head(Waiting)
           v == Tail(Waiting)
           b == Append(bus, h)
           c == Append(confirmed, h)
<1>1. /\ Waiting \in Seq(Nat) /\ Waiting # <<>> /\ bus \in Seq(Nat) /\ confirmed \in Seq(Nat)
      /\ accepted \in Nat /\ accepted' = accepted /\ (todo # <<>>)' = (todo # <<>>)
      /\ Waiting' = v /\ bus' = b /\ confirmed' \in {confirmed, c}
  BY DEF Service!TypeOK, Service!Transmit
<1>2. /\ Len(Waiting) \in Nat \ {0} /\ h = Waiting[1] /\ h \in Nat
      /\ v \in Seq(Nat) /\ Len(v) = Len(Waiting) - 1
      /\ \A i \in 1 .. Len(v) : v[i] = Waiting[i + 1]
  BY <1>1, HeadTailProperties, LenProperties
<1>3. Service!Increasing(v) /\ \A i \in 1 .. Len(v) : h < v[i]
  BY <1>1, IncreasingTail DEF Service!ServiceInv
<1>4. \A i \in 1 .. Len(bus) : bus[i] < h /\ bus[i] \in Nat
  <2>1. \A i \in 1 .. Len(bus) : bus[i] \in Nat
    BY <1>1
  <2>2. 1 \in DOMAIN Waiting
    BY <1>2, ServiceDomains
  <2>3. \A i \in 1 .. Len(bus) : bus[i] < Waiting[1]
    BY <2>2, ServiceDomains DEF Service!ServiceInv
  <2> QED BY <1>2, <2>1, <2>3
<1>5. \A i \in 1 .. Len(confirmed) : \E j \in 1 .. Len(bus) : confirmed[i] = bus[j]
  BY ServiceDomains DEF Service!ServiceInv
<1>6. \A i \in 1 .. Len(confirmed) : confirmed[i] < h
  BY <1>4, <1>5
<1>7. Service!Increasing(b) /\ Service!Increasing(c)
  BY <1>1, <1>2, <1>4, <1>6, IncreasingAppend DEF Service!ServiceInv
<1>8. /\ b \in Seq(Nat) /\ Len(b) = Len(bus) + 1 /\ Len(bus) \in Nat
      /\ b[Len(bus) + 1] = h /\ \A i \in 1 .. Len(bus) : b[i] = bus[i]
  BY <1>1, <1>2, AppendProperties, LenProperties
<1>9. /\ c \in Seq(Nat) /\ Len(c) = Len(confirmed) + 1 /\ Len(confirmed) \in Nat
      /\ c[Len(confirmed) + 1] = h /\ \A i \in 1 .. Len(confirmed) : c[i] = confirmed[i]
  BY <1>1, <1>2, AppendProperties, LenProperties
<1>10. h <= accepted /\ \A i \in 1 .. Len(v) : v[i] <= accepted
  <2>1. \A i \in 1 .. Len(Waiting) : Waiting[i] <= accepted
    BY ServiceDomains DEF Service!ServiceInv
  <2>2. 1 \in 1 .. Len(Waiting) /\ \A i \in 1 .. Len(v) : i + 1 \in 1 .. Len(Waiting)
    BY <1>2
  <2> QED BY <1>2, <2>1, <2>2
<1>11. Service!TypeOK'
  BY <1>1, <1>2, <1>8, <1>9 DEF Service!TypeOK
<1> HIDE DEF h, v, b, c
<1>12. DOMAIN v = 1 .. Len(v) /\ DOMAIN b = 1 .. Len(b) /\ DOMAIN c = 1 .. Len(c)
  BY <1>2, <1>8, <1>9
<1>13. \A i \in DOMAIN b : b[i] <= accepted /\ \A j \in DOMAIN v : b[i] < v[j]
  <2> TAKE i \in DOMAIN b
  <2>1. CASE i \in 1 .. Len(bus)
    <3>1. b[i] < h /\ b[i] \in Nat
      BY <1>4, <1>8, <2>1
    <3>2. \A j \in DOMAIN v : h < v[j] /\ v[j] \in Nat
      BY <1>2, <1>3, <1>12
    <3> QED BY <1>1, <1>2, <1>10, <3>1, <3>2
  <2>2. CASE i = Len(bus) + 1
    BY <1>3, <1>8, <1>10, <1>12, <2>2
  <2> QED BY <1>8, <1>12, <2>1, <2>2
<1>14. \A i \in 1 .. Len(confirmed) : \E j \in DOMAIN b : confirmed[i] = b[j]
  <2> TAKE i \in 1 .. Len(confirmed)
  <2>1. PICK j \in 1 .. Len(bus) : confirmed[i] = bus[j]
    BY <1>5
  <2>2. j \in DOMAIN b /\ b[j] = bus[j]
    BY <1>8, <1>12
  <2> QED BY <2>1, <2>2
<1>15. \A i \in DOMAIN c : \E j \in DOMAIN b : c[i] = b[j]
  <2> TAKE i \in DOMAIN c
  <2>1. CASE i \in 1 .. Len(confirmed)
    BY <1>9, <1>14, <2>1
  <2>2. CASE i = Len(confirmed) + 1
    <3>1. Len(bus) + 1 \in DOMAIN b
      BY <1>8, <1>12
    <3> QED BY <1>8, <1>9, <2>2, <3>1
  <2> QED BY <1>9, <1>12, <2>1, <2>2
<1>16. \A i \in DOMAIN confirmed' : \E j \in DOMAIN b : confirmed'[i] = b[j]
  BY <1>1, <1>14, <1>15, ServiceDomains
<1>17. Service!Increasing(confirmed') /\ Service!Increasing(Waiting') /\ Service!Increasing(bus')
  BY <1>1, <1>3, <1>7 DEF Service!ServiceInv
<1> QED BY <1>1, <1>10, <1>11, <1>12, <1>13, <1>16, <1>17 DEF Service!ServiceInv

\* Giving messages up leaves some of those that waited, in their order.
LEMMA ServiceGivesUp ==
  ASSUME Service!TypeOK, Service!ServiceInv, Service!GiveUp
  PROVE  Service!TypeOK' /\ Service!ServiceInv'
<1>1. /\ Waiting \in Seq(Nat) /\ Waiting # <<>>
      /\ accepted' = accepted /\ bus' = bus /\ confirmed' = confirmed
      /\ (todo # <<>>)' \in BOOLEAN
      /\ Waiting' \in {<<>>, <<Head(Waiting)>>, Tail(Waiting)}
  BY DEF Service!TypeOK, Service!GiveUp
<1>2. /\ Len(Waiting) \in Nat \ {0} /\ Head(Waiting) = Waiting[1] /\ Head(Waiting) \in Nat
      /\ Tail(Waiting) \in Seq(Nat) /\ Len(Tail(Waiting)) = Len(Waiting) - 1
      /\ \A i \in 1 .. Len(Tail(Waiting)) : Tail(Waiting)[i] = Waiting[i + 1]
  BY <1>1, HeadTailProperties, LenProperties
<1>3. Waiting' \in Seq(Nat) /\ Service!Increasing(Waiting')
  <2>1. CASE Waiting' = <<>>
    BY <2>1 DEF Service!Increasing
  <2>2. CASE Waiting' = <<Head(Waiting)>>
    <3>1. Waiting' \in Seq(Nat) /\ DOMAIN Waiting' = 1 .. 1
      BY <1>2, <2>2
    <3>2. \A i, j \in 1 .. 1 : ~(i < j)
      OBVIOUS
    <3> QED BY <3>1, <3>2 DEF Service!Increasing
  <2>3. CASE Waiting' = Tail(Waiting)
    BY <1>1, <1>2, <2>3, IncreasingTail DEF Service!ServiceInv
  <2> QED BY <1>1, <2>1, <2>2, <2>3
<1>4. \A i \in DOMAIN Waiting' : \E j \in DOMAIN Waiting : Waiting'[i] = Waiting[j]
  <2>1. CASE Waiting' = <<>>
    BY <2>1
  <2>2. CASE Waiting' = <<Head(Waiting)>>
    <3>1. DOMAIN Waiting' = 1 .. 1 /\ Waiting'[1] = Waiting[1]
      BY <1>2, <2>2
    <3>2. 1 \in DOMAIN Waiting /\ \A i \in 1 .. 1 : i = 1
      BY <1>2, ServiceDomains
    <3> QED BY <3>1, <3>2
  <2>3. CASE Waiting' = Tail(Waiting)
    <3>1. DOMAIN Waiting' = 1 .. Len(Tail(Waiting))
      BY <1>2, <2>3
    <3>2. \A i \in 1 .. Len(Tail(Waiting)) : i + 1 \in DOMAIN Waiting
      BY <1>2, ServiceDomains
    <3> QED BY <1>2, <2>3, <3>1, <3>2
  <2> QED BY <1>1, <2>1, <2>2, <2>3
<1>5. Service!TypeOK'
  BY <1>1, <1>3 DEF Service!TypeOK
<1> QED BY <1>1, <1>3, <1>4, <1>5 DEF Service!ServiceInv

\* Every step of the service keeps its invariant.
LEMMA ServiceKeeps ==
  Service!TypeOK /\ Service!ServiceInv /\ [Service!Next]_(Service!vars)
    => (Service!TypeOK /\ Service!ServiceInv)'
<1> SUFFICES ASSUME Service!TypeOK, Service!ServiceInv, [Service!Next]_(Service!vars)
             PROVE  Service!TypeOK' /\ Service!ServiceInv'
  OBVIOUS
<1>1. CASE Service!Accept
  BY <1>1, ServiceAccepts
<1>2. CASE Service!Transmit
  BY <1>2, ServiceTransmits
<1>3. CASE Service!GiveUp
  BY <1>3, ServiceGivesUp
<1>4. CASE Service!Recover
  BY <1>4 DEF Service!Recover, Service!TypeOK, Service!ServiceInv
<1>5. CASE UNCHANGED Service!vars
  BY <1>5 DEF Service!vars, Service!TypeOK, Service!ServiceInv
<1> QED BY <1>1, <1>2, <1>3, <1>4, <1>5 DEF Service!Next

(***************************************************************************)
(* Whatever the order in which messages are accepted, given up and         *)
(* transmitted, and whatever the bus does, it has them in the order of     *)
(* acceptance and once, and a confirmation is for a message on the bus,    *)
(* and the only one for it.                                                *)
(***************************************************************************)
THEOREM BusOrder == Spec => []Service!OnBusInOrder
<1>1. Init => TypeOK /\ ConfirmInv /\ Service!TypeOK /\ Service!ServiceInv
  BY TypeInit, ConfirmInit, InitMaps, ServiceStart
<1>2. /\ TypeOK /\ ConfirmInv /\ Service!TypeOK /\ Service!ServiceInv
      /\ [Next]_vars
      => (TypeOK /\ ConfirmInv /\ Service!TypeOK /\ Service!ServiceInv)'
  BY TypeStep, ConfirmStep, StepMaps, ServiceKeeps
<1>3. Service!ServiceInv => Service!OnBusInOrder
  BY DEF Service!ServiceInv, Service!OnBusInOrder
<1> QED BY <1>1, <1>2, <1>3, PTL DEF Spec

-------------------------------------------------------------------------------
(***************************************************************************)
(* The ids of the messages that wait: IdsInv for a queue q, a message m in *)
(* the object (rqst says whether there is one), a counter c and k ids      *)
(* taken since the counter's first value.                                  *)
(***************************************************************************)
IdsOK(q, rqst, m, c, k) ==
  /\ \A i \in 1 .. Len(q) : Behind(q[i].id, c) <= k
  /\ \A i, j \in 1 .. Len(q) : i < j => Behind(q[j].id, c) < Behind(q[i].id, c)
  /\ rqst => /\ Behind(m.id, c) <= k
             /\ \A i \in 1 .. Len(q) : Behind(q[i].id, c) < Behind(m.id, c)

\* IdsOK is IdsInv.
LEMMA IdsInvIsIdsOK ==
  ASSUME TypeOK
  PROVE  IdsInv <=> IdsOK(CAN_tosend_queue, SNDMSG.TxRqst, SNDMSG.msg, pktIDcounter,
                          accepted + others)
<1>1. DOMAIN CAN_tosend_queue = 1 .. Len(CAN_tosend_queue)
  BY DEF TypeOK
<1> QED BY <1>1 DEF IdsInv, IdsOK

\* An id is 1 .. MaxPktID behind the counter.
LEMMA BehindType ==
  ASSUME NEW id \in Ids, NEW c \in Ids
  PROVE  Behind(id, c) \in 1 .. MaxPktID
  BY SizeAssumption DEF Behind, Ids

\* Taking an id moves the others one further behind, if they are not as far
\* as they can be, and the one taken is next to the counter.
LEMMA BehindNext ==
  ASSUME NEW c \in Ids
  PROVE  /\ \A id \in Ids : Behind(id, c) < MaxPktID =>
              Behind(id, NextPktID(c)) = Behind(id, c) + 1
         /\ Behind(c, NextPktID(c)) = 1
  BY SizeAssumption DEF Behind, Ids, NextPktID

\* Taking an id keeps the order.
LEMMA IdsTake ==
  ASSUME NEW q \in Seq(Messages), NEW rqst, NEW m, NEW c \in Ids, NEW k \in Nat,
         rqst => m \in Messages, k < MaxPktID, IdsOK(q, rqst, m, c, k)
  PROVE  IdsOK(q, rqst, m, NextPktID(c), k + 1)
<1> DEFINE d == NextPktID(c)
<1>1. \A x \in Messages : /\ Behind(x.id, c) \in 1 .. MaxPktID
                          /\ Behind(x.id, c) <= k => Behind(x.id, d) = Behind(x.id, c) + 1
  BY MessageFields, BehindNext, BehindType, SizeAssumption
<1> HIDE DEF d
<1>2. \A i \in 1 .. Len(q) : /\ Behind(q[i].id, c) \in 1 .. MaxPktID
                             /\ Behind(q[i].id, d) = Behind(q[i].id, c) + 1
  BY <1>1 DEF IdsOK
<1>3. rqst => /\ Behind(m.id, c) \in 1 .. MaxPktID
              /\ Behind(m.id, d) = Behind(m.id, c) + 1
  BY <1>1 DEF IdsOK
<1>4. IdsOK(q, rqst, m, d, k + 1)
  BY <1>2, <1>3, SizeAssumption DEF IdsOK
<1> QED BY <1>4 DEF d

\* The message that takes the id goes to the end of the queue.
LEMMA IdsAppend ==
  ASSUME NEW q \in Seq(Messages), NEW rqst, NEW m, NEW c \in Ids, NEW k \in Nat,
         rqst => m \in Messages, k < MaxPktID, IdsOK(q, rqst, m, c, k),
         NEW x \in Messages, x.id = c
  PROVE  IdsOK(Append(q, x), rqst, m, NextPktID(c), k + 1)
<1> DEFINE d == NextPktID(c)
           r == Append(q, x)
<1>1. IdsOK(q, rqst, m, d, k + 1)
  BY IdsTake
<1>2. /\ Len(q) \in Nat /\ r \in Seq(Messages) /\ Len(r) = Len(q) + 1
      /\ \A i \in 1 .. Len(q) : r[i] = q[i]
      /\ r[Len(q) + 1] = x
  BY AppendProperties, LenProperties
<1>3. Behind(x.id, d) = 1
  BY BehindNext
<1>4. \A y \in Messages : /\ Behind(y.id, c) \in 1 .. MaxPktID
                          /\ Behind(y.id, c) <= k => Behind(y.id, d) > 1
  BY MessageFields, BehindNext, BehindType, SizeAssumption
<1>5. /\ \A i \in 1 .. Len(q) : Behind(q[i].id, d) > 1
      /\ rqst => Behind(m.id, d) > 1
  BY <1>4 DEF IdsOK
<1> HIDE DEF d, r
<1>6. \A i \in 1 .. Len(r) : Behind(r[i].id, d) <= k + 1
  <2> TAKE i \in 1 .. Len(r)
  <2>1. CASE i \in 1 .. Len(q)
    BY <1>1, <1>2, <2>1 DEF IdsOK
  <2>2. CASE i = Len(q) + 1
    BY <1>2, <1>3, <2>2
  <2> QED BY <1>2, <2>1, <2>2
<1>7. \A i, j \in 1 .. Len(r) : i < j => Behind(r[j].id, d) < Behind(r[i].id, d)
  <2> TAKE i, j \in 1 .. Len(r)
  <2> HAVE i < j
  <2>1. i \in 1 .. Len(q) /\ r[i] = q[i]
    BY <1>2
  <2>2. CASE j \in 1 .. Len(q)
    BY <1>1, <1>2, <2>1, <2>2 DEF IdsOK
  <2>3. CASE j = Len(q) + 1
    BY <1>2, <1>3, <1>5, <2>1, <2>3
  <2> QED BY <1>2, <2>2, <2>3
<1>8. ASSUME rqst, NEW i \in 1 .. Len(r) PROVE Behind(r[i].id, d) < Behind(m.id, d)
  <2>1. CASE i \in 1 .. Len(q)
    BY <1>1, <1>2, <1>8, <2>1 DEF IdsOK
  <2>2. CASE i = Len(q) + 1
    BY <1>2, <1>3, <1>5, <1>8, <2>2
  <2> QED BY <1>2, <2>1, <2>2
<1>9. IdsOK(r, rqst, m, d, k + 1)
  BY <1>1, <1>6, <1>7, <1>8 DEF IdsOK
<1> QED BY <1>9 DEF d, r

\* Loading the head of the queue keeps the order.
LEMMA IdsLoad ==
  ASSUME NEW q \in Seq(Messages), q # <<>>, NEW rqst, NEW m, NEW c, NEW k,
         IdsOK(q, rqst, m, c, k)
  PROVE  IdsOK(Tail(q), TRUE, Head(q), c, k)
<1>1. /\ Len(q) \in Nat \ {0} /\ Head(q) = q[1]
      /\ Tail(q) \in Seq(Messages) /\ Len(Tail(q)) = Len(q) - 1
      /\ \A i \in 1 .. Len(Tail(q)) : Tail(q)[i] = q[i + 1]
  BY HeadTailProperties, LenProperties
<1> DEFINE r == Tail(q)
<1> HIDE DEF r
<1>2. \A i \in 1 .. Len(r) : r[i] = q[i + 1] /\ i + 1 \in 1 .. Len(q) /\ 1 < i + 1
  BY <1>1 DEF r
<1>3. \A i, j \in 1 .. Len(r) : i < j => Behind(r[j].id, c) < Behind(r[i].id, c)
  BY <1>2 DEF IdsOK
<1>4. 1 \in 1 .. Len(q)
  BY <1>1
<1> QED BY <1>1, <1>2, <1>3, <1>4 DEF IdsOK, r

\* Every step keeps the order of the ids.
LEMMA IdsStep == TypeOK /\ ConfirmInv /\ IdsInv /\ [Next]_vars => IdsInv'
<1> SUFFICES ASSUME TypeOK, ConfirmInv, IdsInv, [Next]_vars PROVE IdsInv'
  OBVIOUS
<1> DEFINE q == CAN_tosend_queue
           k == accepted + others
<1>1. TypeOK'
  BY TypeStep
<1>2. IdsOK(q, SNDMSG.TxRqst, SNDMSG.msg, pktIDcounter, k)
  BY IdsInvIsIdsOK
<1>3. SUFFICES IdsOK(q', SNDMSG'.TxRqst, SNDMSG'.msg, pktIDcounter', k')
  <2>1. TypeOK' => (IdsInv' <=> IdsOK(q', SNDMSG'.TxRqst, SNDMSG'.msg, pktIDcounter', k'))
    <3>1. TypeOK' => DOMAIN q' = 1 .. Len(q')
      BY DEF TypeOK
    <3> QED BY <3>1 DEF IdsInv, IdsOK
  <2> QED BY <1>1, <2>1
<1>4. /\ q \in Seq(Messages) /\ pktIDcounter \in Ids /\ k \in Nat
      /\ SNDMSG.TxRqst => SNDMSG.msg \in Messages
  BY BoundAssumption DEF TypeOK, ConfirmInv
<1>5. CASE UNCHANGED <<CAN_tosend_queue, SNDMSG, pktIDcounter, accepted, others>>
  BY <1>2, <1>5
<1>6. CASE J1708TakesId
  <2>1. k < MaxPktID /\ k' = k + 1
    BY <1>6, BoundAssumption, IdAssumption, SizeAssumption DEF TypeOK, J1708TakesId, historyVars
  <2>2. UNCHANGED <<CAN_tosend_queue, SNDMSG>> /\ pktIDcounter' = NextPktID(pktIDcounter)
    BY <1>6 DEF J1708TakesId, controllerVars
  <2> QED BY <1>2, <1>4, <2>1, <2>2, IdsTake
<1>7. CASE AcceptMessage
  <2>1. k < MaxPktID /\ k' = k + 1
    BY <1>7, BoundAssumption, IdAssumption, SizeAssumption DEF TypeOK, AcceptMessage, boundVars
  <2> DEFINE x == [id |-> pktIDcounter, n |-> accepted + 1]
  <2>2. x \in Messages /\ x.id = pktIDcounter
    BY <1>7, BoundAssumption DEF TypeOK, AcceptMessage, Messages, Stamps
  <2>3. /\ SNDMSG' = SNDMSG /\ pktIDcounter' = NextPktID(pktIDcounter)
        /\ q' = Append(q, x)
    BY <1>7 DEF AcceptMessage, controllerVars
  <2> HIDE DEF x
  <2> QED BY <1>2, <1>4, <2>1, <2>2, <2>3, IdsAppend
<1>8. CASE ProcessCANTransmitQueue
  <2>1. /\ q # <<>> /\ q' = Tail(q) /\ SNDMSG'.TxRqst = TRUE /\ SNDMSG'.msg = Head(q)
        /\ pktIDcounter' = pktIDcounter /\ k' = k
    BY <1>8 DEF ProcessCANTransmitQueue, GetNextCANmessage, Load, boundVars, historyVars
  <2> QED BY <1>2, <1>4, <2>1, IdsLoad
<1>9. ASSUME ~SNDMSG'.TxRqst, q' = q \/ q' = <<>>, pktIDcounter' = pktIDcounter, k' = k
      PROVE  IdsOK(q', SNDMSG'.TxRqst, SNDMSG'.msg, pktIDcounter', k')
  BY <1>2, <1>9 DEF IdsOK
<1>10. CASE Transmitted
  BY <1>9, <1>10, TransmittedRequest DEF Transmitted, boundVars
<1>11. CASE DisableCANTxIP \/ InitializeCANBusController
  BY <1>9, <1>11
     DEF DisableCANTxIP, InitializeCANBusController, Cleared, Call, boundVars, historyVars
<1>12. ASSUME NEW f, EmptyQueue(f)
       PROVE  IdsOK(q', SNDMSG'.TxRqst, SNDMSG'.msg, pktIDcounter', k')
  <2>1. q' = <<>> /\ UNCHANGED <<SNDMSG, pktIDcounter, accepted, others>>
    BY <1>12 DEF EmptyQueue, Call, controllerVars, boundVars, historyVars
  <2> QED BY <1>2, <2>1 DEF IdsOK
<1> QED BY <1>5, <1>6, <1>7, <1>8, <1>10, <1>11, <1>12
  DEF Next, Calling, vars, controllerVars, boundVars, historyVars, RefuseBusFault,
      Setting, RecoveryCommand, CANRestart, DefaultPrefs, Call, ClearCANTxQueue,
      InitializeCANstructs, BusOff

\* No message waits at first.
LEMMA IdsInit == Init => IdsInv
  BY DEF Init, IdsInv, Cleared

\* The invariant on which the properties of confirmations rest.
LEMMA InductiveIds == Spec => [](TypeOK /\ ConfirmInv /\ IdsInv)
<1>1. Init => TypeOK /\ ConfirmInv /\ IdsInv
  BY TypeInit, ConfirmInit, IdsInit
<1>2. TypeOK /\ ConfirmInv /\ IdsInv /\ [Next]_vars => (TypeOK /\ ConfirmInv /\ IdsInv)'
  BY TypeStep, ConfirmStep, IdsStep
<1> QED BY <1>1, <1>2, PTL DEF Spec

(***************************************************************************)
(* A confirmation names the message just transmitted and no other one that *)
(* waits, for every size of the queue and wherever the counter started, as *)
(* long as no more ids are taken than there are.                           *)
(***************************************************************************)
THEOREM ConfirmsNameTheMessage == Spec => ConfirmUnambiguous
<1>1. ASSUME TypeOK, ConfirmInv, IdsInv, [Next]_vars, confirmed' # confirmed
      PROVE  /\ CANtxc = SNDMSG.msg.id
             /\ \A i \in DOMAIN CAN_tosend_queue : CAN_tosend_queue[i].id # CANtxc
  <2>1. Transmitted /\ Confirm
    BY <1>1
    DEF Next, Calling, vars, historyVars, J1708TakesId, RefuseBusFault, AcceptMessage,
        Setting, RecoveryCommand, CANRestart, DefaultPrefs, EmptyQueue, ClearCANTxQueue,
        InitializeCANstructs, DisableCANTxIP, InitializeCANBusController, Call, BusOff,
        ProcessCANTransmitQueue, GetNextCANmessage, Load, Transmitted, NoInterrupt, NextFrame
  <2>2. SNDMSG.TxIE
    BY <1>1, <2>1 DEF Transmitted, NoInterrupt
  <2>3. CANtxc = SNDMSG.msg.id
    BY <1>1, <2>1, <2>2 DEF ConfirmInv, Transmitted
  <2>4. SNDMSG.msg \in Messages
    BY <1>1, <2>1 DEF ConfirmInv, Transmitted
  <2>5. ASSUME NEW i \in DOMAIN CAN_tosend_queue, CAN_tosend_queue[i].id = CANtxc
        PROVE  FALSE
    <3>1. Behind(CAN_tosend_queue[i].id, pktIDcounter) < Behind(SNDMSG.msg.id, pktIDcounter)
      BY <1>1, <2>1 DEF IdsInv, Transmitted
    <3>2. Behind(SNDMSG.msg.id, pktIDcounter) \in 1 .. MaxPktID
      BY <1>1, <2>4, MessageFields, BehindType DEF TypeOK
    <3> QED BY <2>3, <2>5, <3>1, <3>2
  <2> QED BY <2>3, <2>5
<1>2. TypeOK /\ ConfirmInv /\ IdsInv /\ [Next]_vars =>
        [confirmed' # confirmed =>
           /\ CANtxc = SNDMSG.msg.id
           /\ \A i \in DOMAIN CAN_tosend_queue : CAN_tosend_queue[i].id # CANtxc]_vars
  BY <1>1
<1> QED BY <1>2, InductiveIds, PTL DEF ConfirmUnambiguous, Spec
-------------------------------------------------------------------------------
(***************************************************************************)
(* Recovery commands: a clearing one has ahead the calls that empty what   *)
(* is not empty yet.                                                       *)
(***************************************************************************)
Has(s, f) == \E i \in 1 .. Len(s) : s[i] = f

\* The two ways of emptying the queue, and of emptying the message object.
EmptyingCalls(s) == Has(s, "ClearCANTxQueue") \/ Has(s, "InitializeCANstructs")
ObjectCalls(s)   == Has(s, "DisableCANTxIP") \/ Has(s, "InitializeCANBusController")

\* A concatenation has what either part has.
LEMMA HasConcat ==
  ASSUME NEW s \in Seq(Calls), NEW t \in Seq(Calls), NEW f, Has(s, f) \/ Has(t, f)
  PROVE  Has(s \o t, f)
<1>1. /\ Len(s) \in Nat /\ Len(t) \in Nat /\ Len(s \o t) = Len(s) + Len(t)
      /\ \A i \in 1 .. Len(s) : (s \o t)[i] = s[i]
      /\ \A i \in 1 .. Len(t) : (s \o t)[Len(s) + i] = t[i]
  BY ConcatProperties, LenProperties
<1> DEFINE r == s \o t
<1> HIDE DEF r
<1>2. CASE Has(s, f)
  <2>1. PICK i \in 1 .. Len(s) : s[i] = f
    BY <1>2 DEF Has
  <2>2. i \in 1 .. Len(r) /\ r[i] = f
    BY <1>1, <2>1 DEF r
  <2> QED BY <2>2 DEF Has, r
<1>3. CASE Has(t, f)
  <2>1. PICK i \in 1 .. Len(t) : t[i] = f
    BY <1>3 DEF Has
  <2>2. Len(s) + i \in 1 .. Len(r) /\ r[Len(s) + i] = f
    BY <1>1, <2>1 DEF r
  <2> QED BY <2>2 DEF Has, r
<1> QED BY <1>2, <1>3

\* A command makes every call of every bit it has.
LEMMA ProgramHas ==
  ASSUME NEW bits, NEW f, NEW bit \in Bits, Has(CallsIf(bit, bits), f)
  PROVE  Has(Program(bits), f)
<1> DEFINE a == CallsIf("restart", bits)
           b == CallsIf("reset", bits)
           c == CallsIf("init", bits)
           d == CallsIf("clear", bits)
           e == CallsIf("stop", bits)
<1>1. Program(bits) = ((((a \o b) \o c) \o d) \o e)
  BY DEF Program
<1>2. /\ a \in Seq(Calls) /\ b \in Seq(Calls) /\ c \in Seq(Calls)
      /\ d \in Seq(Calls) /\ e \in Seq(Calls)
  BY CallsIfType DEF Bits
<1>3. Has(a, f) \/ Has(b, f) \/ Has(c, f) \/ Has(d, f) \/ Has(e, f)
  BY DEF Bits
<1> HIDE DEF a, b, c, d, e
<1>4. \A s, t \in Seq(Calls) : s \o t \in Seq(Calls)
  OBVIOUS
<1>5. /\ a \o b \in Seq(Calls) /\ (a \o b) \o c \in Seq(Calls)
      /\ ((a \o b) \o c) \o d \in Seq(Calls)
  BY <1>2, <1>4
<1>6. Has(a, f) \/ Has(b, f) => Has(a \o b, f)
  BY <1>2, HasConcat
<1>7. Has(a \o b, f) \/ Has(c, f) => Has((a \o b) \o c, f)
  BY <1>2, <1>5, HasConcat
<1>8. Has((a \o b) \o c, f) \/ Has(d, f) => Has(((a \o b) \o c) \o d, f)
  BY <1>2, <1>5, HasConcat
<1>9. Has(((a \o b) \o c) \o d, f) \/ Has(e, f) => Has(Program(bits), f)
  BY <1>1, <1>2, <1>5, HasConcat
<1> QED BY <1>3, <1>6, <1>7, <1>8, <1>9

\* A clearing command makes calls of both kinds.
LEMMA ClearingHas ==
  ASSUME NEW bits, Clearing(bits)
  PROVE  EmptyingCalls(Program(bits)) /\ ObjectCalls(Program(bits))
<1>1. "init" \in bits => /\ Has(CallsIf("init", bits), "InitializeCANstructs")
                         /\ Has(CallsIf("init", bits), "InitializeCANBusController")
  BY DEF Has, CallsIf, CallsOf
<1>2. "reset" \in bits => /\ Has(CallsIf("reset", bits), "ClearCANTxQueue")
                          /\ Has(CallsIf("reset", bits), "DisableCANTxIP")
  BY DEF Has, CallsIf, CallsOf
<1>3. "clear" \in bits => Has(CallsIf("clear", bits), "ClearCANTxQueue")
  BY DEF Has, CallsIf, CallsOf
<1>4. "stop" \in bits => Has(CallsIf("stop", bits), "DisableCANTxIP")
  BY DEF Has, CallsIf, CallsOf
<1>5. \A f : \A bit \in Bits : Has(CallsIf(bit, bits), f) => Has(Program(bits), f)
  BY ProgramHas
<1>6. "init" \in Bits /\ "reset" \in Bits /\ "clear" \in Bits /\ "stop" \in Bits
  BY DEF Bits
<1> QED BY <1>1, <1>2, <1>3, <1>4, <1>5, <1>6 DEF Clearing, EmptyingCalls, ObjectCalls

\* Making the call at the head leaves the other ones ahead.
LEMMA TailHas ==
  ASSUME NEW s \in Seq(Calls), s # <<>>, NEW f, Has(s, f), Head(s) # f
  PROVE  Has(Tail(s), f)
<1>1. /\ Len(s) \in Nat \ {0} /\ Head(s) = s[1] /\ Len(Tail(s)) = Len(s) - 1
      /\ \A i \in 1 .. Len(Tail(s)) : Tail(s)[i] = s[i + 1]
  BY HeadTailProperties, LenProperties
<1>2. PICK i \in 1 .. Len(s) : s[i] = f
  BY DEF Has
<1>3. i - 1 \in 1 .. Len(Tail(s)) /\ (i - 1) + 1 = i
  BY <1>1, <1>2
<1>4. Tail(s)[i - 1] = f
  BY <1>1, <1>2, <1>3
<1> QED BY <1>3, <1>4 DEF Has

\* ClearInv, in terms of a sequence of calls.
Left(s, q, m) == /\ q # <<>> => EmptyingCalls(s)
                 /\ m.TxRqst => ObjectCalls(s)

LEMMA ClearInvIsLeft ==
  ASSUME TypeOK
  PROVE  ClearInv <=> (todo # <<>> /\ Clearing(command) =>
                         Left(todo, CAN_tosend_queue, SNDMSG))
<1>1. DOMAIN todo = 1 .. Len(todo)
  BY DEF TypeOK
<1> QED BY <1>1 DEF ClearInv, Ahead, Left, EmptyingCalls, ObjectCalls, Has

\* A call of a clearing command keeps the calls ahead that are needed.
LEMMA CallLeaves ==
  ASSUME TypeOK, ClearInv, Calling, Clearing(command)
  PROVE  Left(todo', CAN_tosend_queue', SNDMSG')
<1>1. todo # <<>> /\ todo \in Seq(Calls) /\ todo' = Tail(todo)
  BY DEF TypeOK, Calling, CANRestart, DefaultPrefs, ClearCANTxQueue, InitializeCANstructs,
         EmptyQueue, DisableCANTxIP, InitializeCANBusController, Call
<1>2. Left(todo, CAN_tosend_queue, SNDMSG)
  BY <1>1, ClearInvIsLeft
<1>3. \A f : Has(todo, f) /\ Head(todo) # f => Has(todo', f)
  BY <1>1, TailHas
<1>4. CAN_tosend_queue' # <<>> =>
        /\ CAN_tosend_queue # <<>>
        /\ Head(todo) # "ClearCANTxQueue" /\ Head(todo) # "InitializeCANstructs"
  BY DEF Calling, CANRestart, DefaultPrefs, ClearCANTxQueue, InitializeCANstructs,
         EmptyQueue, DisableCANTxIP, InitializeCANBusController, Call
<1>5. SNDMSG'.TxRqst =>
        /\ SNDMSG.TxRqst
        /\ Head(todo) # "DisableCANTxIP" /\ Head(todo) # "InitializeCANBusController"
  BY DEF Calling, CANRestart, DefaultPrefs, ClearCANTxQueue, InitializeCANstructs,
         EmptyQueue, DisableCANTxIP, InitializeCANBusController, Call, Cleared,
         controllerVars
<1> QED BY <1>2, <1>3, <1>4, <1>5 DEF Left, EmptyingCalls, ObjectCalls

\* Every step keeps ClearInv.
LEMMA ClearStep == TypeOK /\ ConfirmInv /\ ClearInv /\ [Next]_vars => ClearInv'
<1> SUFFICES ASSUME TypeOK, ConfirmInv, ClearInv, [Next]_vars,
                    todo' # <<>>, Clearing(command')
             PROVE  Left(todo', CAN_tosend_queue', SNDMSG')
  <2>1. TypeOK' => DOMAIN todo' = 1 .. Len(todo')
    BY DEF TypeOK
  <2> QED BY <2>1, TypeStep DEF ClearInv, Ahead, Left, EmptyingCalls, ObjectCalls, Has
<1>1. todo # <<>> /\ Clearing(command) => Left(todo, CAN_tosend_queue, SNDMSG)
  BY ClearInvIsLeft
<1>2. CASE Calling
  <2>1. command' = command
    BY <1>2 DEF Calling, CANRestart, DefaultPrefs, ClearCANTxQueue, InitializeCANstructs,
         EmptyQueue, DisableCANTxIP, InitializeCANBusController, Call
  <2> QED BY <1>2, <2>1, CallLeaves
<1>3. ASSUME NEW bits \in SUBSET Bits, RecoveryCommand(bits)
      PROVE  Left(todo', CAN_tosend_queue', SNDMSG')
  <2>1. todo' = Program(bits) /\ command' = bits
    BY <1>3 DEF RecoveryCommand
  <2> QED BY <2>1, ClearingHas DEF Left
<1>4. CASE Transmitted
  <2>1. ~SNDMSG'.TxRqst /\ UNCHANGED <<CAN_tosend_queue, todo, command>>
    BY <1>4, TransmittedRequest DEF Transmitted, commandVars
  <2> QED BY <1>1, <2>1 DEF Left
<1>5. CASE BusOff \/ UNCHANGED vars
  BY <1>1, <1>5 DEF BusOff, vars, controllerVars, commandVars
<1>6. CASE todo = <<>> /\ todo' = todo
  BY <1>6
<1> QED BY <1>2, <1>3, <1>4, <1>5, <1>6
  DEF Next, J1708TakesId, RefuseBusFault, AcceptMessage, Setting,
      ProcessCANTransmitQueue, GetNextCANmessage, Load, commandVars

\* The invariant on which RecoveryClears rests.
LEMMA InductiveClear == Spec => [](TypeOK /\ ConfirmInv /\ ClearInv)
<1>1. Init => TypeOK /\ ConfirmInv /\ ClearInv
  <2>1. Init => ClearInv
    BY DEF Init, ClearInv
  <2> QED BY <2>1, TypeInit, ConfirmInit
<1>2. TypeOK /\ ConfirmInv /\ ClearInv /\ [Next]_vars => (TypeOK /\ ConfirmInv /\ ClearInv)'
  BY TypeStep, ConfirmStep, ClearStep
<1> QED BY <1>1, <1>2, PTL DEF Spec

(***************************************************************************)
(* Nothing accepted before a clearing command waits when it ends, whatever *)
(* bits the command has besides and whatever the controller does while the *)
(* command is carried out.                                                 *)
(***************************************************************************)
THEOREM ClearingCommandsClear == Spec => RecoveryClears
<1>1. ASSUME TypeOK, ConfirmInv, ClearInv, [Next]_vars,
             todo # <<>>, todo' = <<>>, Clearing(command)
      PROVE  Waiting' = <<>>
  <2>1. Calling
    BY <1>1
    DEF Next, vars, J1708TakesId, RefuseBusFault, AcceptMessage, Setting, RecoveryCommand,
        ProcessCANTransmitQueue, GetNextCANmessage, Load, Transmitted, BusOff, commandVars
  <2>2. Left(todo', CAN_tosend_queue', SNDMSG')
    BY <1>1, <2>1, CallLeaves
  <2>3. \A f : ~Has(<<>>, f)
    BY DEF Has
  <2>4. CAN_tosend_queue' = <<>> /\ ~SNDMSG'.TxRqst
    BY <1>1, <2>2, <2>3 DEF Left, EmptyingCalls, ObjectCalls
  <2>5. <<>> \in Seq(Messages)
    OBVIOUS
  <2>6. StampsOf(CAN_tosend_queue') = <<>> /\ InObject' = <<>>
    BY <2>4, <2>5, StampsFacts DEF InObject
  <2> QED BY <2>6 DEF Waiting
<1>2. TypeOK /\ ConfirmInv /\ ClearInv /\ [Next]_vars =>
        [todo # <<>> /\ todo' = <<>> /\ Clearing(command) => Waiting' = <<>>]_vars
  BY <1>1
<1> QED BY <1>2, InductiveClear, PTL DEF RecoveryClears, Spec
===============================================================================
