------------------------------- MODULE QBSerial -------------------------------
(***************************************************************************)
(* The host driver's side of a serial port (QBSerial.cs, and the sending   *)
(* half of J1939Transaction.cs).  Messages of the clients become           *)
(* transactions.  They wait in QBTransactionNew, those that would mix with *)
(* a J1939 transaction under way in QBTransJ1939Pending; one at a time is  *)
(* in QBTransactionSent, until the firmware has acknowledged its packet    *)
(* and confirmed the transmission, and is sent again if that takes too     *)
(* long.  A J1939 message of several frames goes back to the end of        *)
(* QBTransactionNew after each; one by RTS and CTS waits there without a   *)
(* frame until the receiver asks for some.  When a transaction has failed  *)
(* for want of an answer the driver takes the firmware for removed, fails  *)
(* what waits and initialises it again, step by step.                      *)
(*                                                                         *)
(* Every handler holds the lock and ends with CheckSendMsgQ, so it is one  *)
(* step, the packet it sends included.  The firmware answers a packet at   *)
(* once, into `line`; the driver reads its answers later.                  *)
(***************************************************************************)
EXTENDS Integers, Sequences, FiniteSets, SequencesExt

CONSTANTS
  Messages,   \* what clients may ask to send
  Kind,       \* [Messages -> {"J1708", "single", "BAM", "RTS"}]
  Route,      \* [Messages -> client, source and destination]
  Frames,     \* [Messages -> Nat]: data frames after the BAM or RTS frame
  Window,     \* [Messages -> Nat]: frames the receiver asks for at a time
  Inits,      \* bound: names for the initialisations of the firmware
  Faults      \* bound: Faults[n] packets lost, refused or repeated, restarts and late
              \* answers, when clients give n messages

ASSUME SerialAssumption ==
  /\ Kind \in [Messages -> {"J1708", "single", "BAM", "RTS"}]
  /\ Frames \in [Messages -> Nat] /\ Window \in [Messages -> Nat \ {0}]
  /\ Messages \cap Inits = {}
  /\ Faults \in [1..Cardinality(Messages) -> Nat]

NoFrame == -1      \* pktData is empty
NumRetries == 3    \* numRetries of a J1939 transaction; others are not repeated

VARIABLES
  port,      \* the transactions (SerialPortInfo)
  answers,   \* [Messages -> the replies given to the client]
  given,     \* the messages clients have given
  packetId,  \* the last packet id: it does not wrap within the bounds
  line,      \* from the firmware: answers, confirmations and received frames
  firmware,  \* [confirming: confirmations are on, bus: frames transmitted]
  room,      \* faults there may still be
  spoilt     \* pairs: a message and the defect of the code that it met

vars == <<port, answers, given, packetId, line, firmware, room, spoilt>>

J1939(x) == x \in Messages /\ Kind[x] # "J1708"
RTS(x)   == x \in Messages /\ Kind[x] = "RTS"

\* Transaction x before anything was sent (QBTransaction, UpdateJ1939Data).
Fresh(x) ==
  [cmd |-> IF J1939(x) THEN "CAN" ELSE IF x \in Inits THEN "none" ELSE "J1708",
   frame |-> IF J1939(x) THEN NoFrame ELSE 0, next |-> 0, max |-> 0,
   done |-> FALSE, complete |-> FALSE, reply |-> FALSE, busTimer |-> FALSE,
   retries |-> IF J1939(x) THEN NumRetries ELSE 0, pktId |-> 0, confirmId |-> 0]

\* Mutant: no timer runs while the receiver's CTS is due.
GetCANPacketNoTimer(t, x) ==
  IF t.done \/ t.next > Frames[x] \/ (RTS(x) /\ t.next > t.max)
    THEN [t EXCEPT !.frame = NoFrame]
    ELSE [t EXCEPT !.frame = t.next, !.next = @ + 1]

\* GetCANPacket: the next frame, if it may be sent.
GetCANPacket(t, x) ==
  IF t.done \/ t.next > Frames[x] \/ (RTS(x) /\ t.next > t.max)
    THEN [t EXCEPT !.frame = NoFrame]
    ELSE [t EXCEPT !.frame = t.next, !.next = @ + 1, !.busTimer = @ \/ RTS(x)]

Load(p, x) == [p EXCEPT !.tx[x] = GetCANPacket(@, x)]

(***************************************************************************)
(* The lists.                                                              *)
(***************************************************************************)
\* The elements of s but for those in S, in their order.
Without(s, S) ==
  LET kept[i \in 0 .. Len(s)] ==
        IF i = 0 THEN <<>>
        ELSE IF s[i] \in S THEN kept[i - 1] ELSE Append(kept[i - 1], s[i])
  IN kept[Len(s)]
Active(p) == ToSet(p.new) \cup ToSet(p.sent)

\* IsQBTransJ1939Pending: a J1939 transaction of the same client, source,
\* destination and manner is under way.
Conflicts(x, y) == J1939(x) /\ J1939(y) /\ Route[x] = Route[y] /\ RTS(x) = RTS(y)
MustWait(p, x) == \E y \in Active(p) : Conflicts(x, y)

\* Those of QBTransJ1939Pending for which nothing is under way, nor another one
\* that waits in front of them: once added, that one is under way itself.
Admitted(p) ==
  {p.pend[i] : i \in {j \in DOMAIN p.pend :
     ~MustWait(p, p.pend[j]) /\ \A h \in 1 .. j - 1 : ~Conflicts(p.pend[h], p.pend[j])}}

\* CheckJ1939Pending
CheckJ1939Pending(p) ==
  [p EXCEPT !.new = @ \o Without(p.pend, ToSet(p.pend) \ Admitted(p)),
            !.pend = Without(@, Admitted(p)),
            !.tx = [x \in DOMAIN @ |->
                      IF x \in Admitted(p) THEN GetCANPacket(@[x], x) ELSE @[x]]]

\* Mutant: what waits for x is not looked at.
TakeOutOnly(p, S) == [p EXCEPT !.new = Without(@, S), !.sent = Without(@, S)]

\* Transactions S leave the lists.
TakeOut(p, S) ==
  CheckJ1939Pending([p EXCEPT !.new = Without(@, S), !.sent = Without(@, S)])

\* A transaction leaves QBTransactionSent for the end of QBTransactionNew.
Requeue(p, x) ==
  [p EXCEPT !.new = Append(Without(@, {x}), x), !.sent = Without(@, {x})]

\* What ClearQBTransactionNew fails: all that waits, and what becomes ready
\* when it is gone.
Cleared(p) ==
  ToSet(p.new) \cup {x \in ToSet(p.pend) : \A y \in ToSet(p.sent) : ~Conflicts(x, y)}

\* Mutant: what has become ready is told of its failure and sent nevertheless.
ClearQBTransactionNewOnly(p) == CheckJ1939Pending([p EXCEPT !.new = <<>>])

ClearQBTransactionNew(p) ==
  [p EXCEPT !.new = <<>>, !.pend = Without(@, Cleared(p))]

\* ReInitSerialPort: an initialisation under a name not in use.
Idle(p) == {i \in Inits : p.tx[i].cmd = "none"}
ReInitSerialPort(p) ==
  LET i == CHOOSE i \in Idle(p) : TRUE
  IN [p EXCEPT !.new = Append(@, i), !.tx[i].cmd = "INIT"]

Met(x, defect) == <<x, defect>> \in spoilt
Meets(S, defect) == spoilt' = spoilt \cup (S \X {defect})

\* Messages S end; those whose timers run meet a defect.
EndsTimed(S) == Meets({x \in S \cap ToSet(port.sent) : port.tx[x].reply}, "timer")

Tell(x, what) == [answers EXCEPT ![x] = Append(@, what)]
TellAll(a, S, what) ==
  [x \in Messages |-> IF x \in S THEN Append(a[x], what) ELSE a[x]]

(***************************************************************************)
(* Writing a packet, and what the firmware and the receiver on the bus do  *)
(* with it: [out: answers, sent: the frame was transmitted, confirming,    *)
(* cost: faults].                                                          *)
(***************************************************************************)
Ack(id)         == [type |-> "ack", id |-> id]
Refusal(id)     == [type |-> "refusal", id |-> id]
Confirm(id, ok) == [type |-> "confirm", id |-> id, ok |-> ok]
CTS(x, next)    == [type |-> "cts", msg |-> x, next |-> next]
EndOfMsg(x)     == [type |-> "eom", msg |-> x]

Outcome(out, sent, on, cost) ==
  [out |-> out, sent |-> sent, confirming |-> on, cost |-> cost]

\* The receiver asks for a window after the RTS and at the end of a window, and
\* acknowledges the message once it has all.
PeerAnswer(x, k, bus) ==
  IF ~RTS(x) THEN <<>>
  ELSE IF k = 0 THEN <<CTS(x, 1)>>
  ELSE IF 1..Frames[x] \subseteq bus THEN <<EndOfMsg(x)>>
  ELSE IF k % Window[x] = 0 THEN <<CTS(x, k + 1)>> ELSE <<>>

Outcomes(x, t, id, fw) ==
  LET confirm(ok) == IF fw.confirming THEN <<Confirm(id, ok)>> ELSE <<>>
      peer == PeerAnswer(x, t.frame, fw.bus[x] \cup {t.frame})
      lost == Outcome(<<>>, FALSE, fw.confirming, 1)
  IN IF x \in Inits
       THEN {lost, Outcome(<<Ack(id)>>, FALSE,
                           CASE t.cmd = "INIT" -> FALSE
                             [] t.cmd = "CONFIRM" -> TRUE
                             [] OTHER -> fw.confirming, 0)}
       ELSE {lost,
             Outcome(<<Refusal(id)>>, FALSE, fw.confirming, 1),
             Outcome(<<Ack(id)>> \o confirm(FALSE), FALSE, fw.confirming, 1),
             Outcome(<<Ack(id)>> \o confirm(TRUE) \o peer, TRUE, fw.confirming, 0),
             Outcome(<<Ack(id)>> \o peer \o confirm(TRUE), TRUE, fw.confirming, 0)}

\* MakeQBridgePacket and Write for transaction x of p; `rest` is the line as the
\* handler leaves it, fw the firmware and `cost` the faults so far.
Write(p, x, rest, fw, cost) ==
  LET id == packetId + 1
  IN \E o \in Outcomes(x, p.tx[x], id, fw) :
       /\ cost + o.cost <= room /\ room' = room - cost - o.cost
       /\ packetId' = id
       /\ port' = [p EXCEPT !.tx[x].pktId = id, !.tx[x].reply = TRUE]
       /\ line' = rest \o o.out
       /\ firmware' = [confirming |-> o.confirming,
            bus |-> IF o.sent THEN [fw.bus EXCEPT ![x] = @ \cup {p.tx[x].frame}] ELSE fw.bus]

NoWrite(p, rest, fw, cost) ==
  /\ cost <= room /\ room' = room - cost
  /\ port' = p /\ line' = rest /\ firmware' = fw
  /\ UNCHANGED packetId

\* CheckSendMsgQ, at the end of every handler: nothing while an answer is due,
\* else the first transaction that has something to send.
Ready(p) == {i \in DOMAIN p.new : p.tx[p.new[i]].frame # NoFrame}

CheckSendMsgQ(p, rest, fw, cost) ==
  IF p.sent # <<>> \/ Ready(p) = {} THEN NoWrite(p, rest, fw, cost)
  ELSE LET x == p.new[CHOOSE i \in Ready(p) : \A j \in Ready(p) : i <= j]
           q == [p EXCEPT !.new = Without(@, {x}), !.sent = Append(@, x)]
       IN Write(CheckJ1939Pending(q), x, rest, fw, cost)

(***************************************************************************)
(* ProcessValidQBPacket.  The transaction an answer belongs to is the one  *)
(* in QBTransactionSent with its packet id, or its confirmation id.        *)
(***************************************************************************)
Matching(p, id) == {x \in ToSet(p.sent) : p.tx[x].pktId = id}
Confirmed(p, id) == {x \in ToSet(p.sent) : p.tx[x].confirmId = id}

NextStage(cmd) ==
  CASE cmd = "INIT" -> "CONFIRM" [] cmd = "CONFIRM" -> "CAN_CONTROL"
    [] cmd = "CAN_CONTROL" -> "MID" [] cmd = "MID" -> "none"

\* An acknowledged message waits for its confirmation.
ReceiveAck(f, rest) ==
  \E x \in Matching(port, f.id) \cap Messages :
    /\ CheckSendMsgQ([port EXCEPT !.tx[x].pktId = 0, !.tx[x].confirmId = f.id,
                                  !.tx[x].reply = TRUE], rest, firmware, 0)
    /\ UNCHANGED <<answers, given, spoilt>>

\* An acknowledged step of the initialisation fails what waits and leads to the
\* next step.
ReceiveInitAck(f, rest) ==
  \E x \in Matching(port, f.id) \cap Inits :
    /\ port.tx[x].cmd # "MID"
    /\ LET p == [ClearQBTransactionNew(port) EXCEPT
                   !.tx[x].cmd = NextStage(@), !.tx[x].reply = TRUE]
       IN CheckSendMsgQ(Requeue(p, x), rest, firmware, 0)
    /\ answers' = TellAll(answers, Cleared(port) \cap Messages, "timeout")
    /\ UNCHANGED <<given, spoilt>>

\* The last step; UpdateQBridgeCANFilters then writes some commands at once: one
\* turns confirmations off, a later one, unless it is lost, on again.
ReceiveLastInitAck(f, rest) ==
  \E x \in Matching(port, f.id) \cap Inits, on \in BOOLEAN :
    /\ port.tx[x].cmd = "MID"
    /\ CheckSendMsgQ([port EXCEPT !.sent = Without(@, {x}), !.tx[x] = Fresh(x)], rest,
                     [firmware EXCEPT !.confirming = on], IF on THEN 0 ELSE 1)
    /\ UNCHANGED <<answers, given, spoilt>>

\* PKT_ACK_UNABLE_TO_PROCESS, PKT_ACK_INVALID_DATA: the timer is left running.
ReceiveRefusal(f, rest) ==
  \E x \in Matching(port, f.id) :
    /\ answers' = Tell(x, "fail")
    /\ CheckSendMsgQ(TakeOut(port, {x}), rest, firmware, 0)
    /\ EndsTimed({x})
    /\ UNCHANGED given

\* Mutant: one frame too early.
TransmitConfirmEarly(t, x) ==
  IF ~RTS(x) /\ t.next >= Frames[x] THEN [t EXCEPT !.done = TRUE, !.complete = TRUE]
                                    ELSE t

\* TransmitConfirm
TransmitConfirm(t, x) ==
  IF ~RTS(x) /\ t.next > Frames[x] THEN [t EXCEPT !.done = TRUE, !.complete = TRUE]
                                   ELSE t

\* PKT_CMD_J1708_CAN_CONFIRM: the end of the message, or the next frame.
ReceiveConfirm(f, rest, cost) ==
  \E x \in Confirmed(port, f.id) :
    LET t == IF J1939(x) /\ f.ok THEN TransmitConfirm(port.tx[x], x) ELSE port.tx[x]
        p == [port EXCEPT !.tx[x] = [t EXCEPT !.reply = FALSE]]
        ends == ~f.ok \/ ~J1939(x) \/ t.done
    IN /\ IF ends
            THEN /\ answers' = Tell(x, IF ~f.ok THEN "fail"
                                       ELSE IF ~J1939(x) \/ t.complete THEN "success"
                                       ELSE "timeout")
                 /\ CheckSendMsgQ(TakeOut(p, {x}), rest, firmware, cost)
            ELSE /\ CheckSendMsgQ(CheckJ1939Pending(Requeue(Load(p, x), x)),
                                  rest, firmware, cost)
                 /\ UNCHANGED answers
       /\ Meets(IF cost > 0 THEN {x} ELSE {}, "repeated")
       /\ UNCHANGED given

\* J1939PktRecv, TP.CM_CTS: where to go on, and with how many frames; one that
\* waits without a frame takes the first of them.
AfterCTS(t, next, x) ==
  [t EXCEPT !.next = next, !.max = next + Window[x], !.busTimer = TRUE]

ReceiveCTS(f, rest) ==
  LET x == f.msg
      t == AfterCTS(port.tx[x], f.next, x)
  IN /\ x \in Active(port) /\ ~port.tx[x].done
     /\ CheckSendMsgQ([port EXCEPT !.tx[x] =
                         IF t.frame = NoFrame THEN GetCANPacket(t, x) ELSE t],
                      rest, firmware, 0)
     /\ UNCHANGED <<answers, given, spoilt>>

\* TP.CM_EndOfMsgACK: the message is answered and leaves its list.  In
\* QBTransactionSent it is looked for at the index it has in both lists together:
\* unless QBTransactionNew is empty that throws, CheckSendMsgQ is not reached and
\* the firmware, which gets no acknowledgement, may send the frame again.
Throws(x) == x \in ToSet(port.sent) /\ port.new # <<>>

ReceiveEndOfMsg(f, rest) ==
  LET x == f.msg
      p == [port EXCEPT !.tx[x].done = TRUE, !.tx[x].busTimer = FALSE,
                        !.tx[x].complete = @ \/ ~port.tx[x].done]
  IN /\ x \in Active(port)
     /\ answers' = Tell(x, IF p.tx[x].complete THEN "success" ELSE "timeout")
     /\ IF Throws(x)
          THEN \/ NoWrite(p, rest, firmware, 0)
               \/ NoWrite(p, line, firmware, 1)
          ELSE CheckSendMsgQ(TakeOut(p, {x}), rest, firmware, 0)
     /\ IF Throws(x) THEN Meets({x}, "thrown") ELSE EndsTimed({x})
     /\ UNCHANGED given

\* What belongs to nothing (any more).
Concerns(f) ==
  CASE f.type \in {"ack", "refusal"} -> Matching(port, f.id) # {}
    [] f.type = "confirm" -> Confirmed(port, f.id) # {}
    [] f.type = "cts" -> f.msg \in Active(port) /\ ~port.tx[f.msg].done
    [] f.type = "eom" -> f.msg \in Active(port)

ReceiveOther(f, rest) ==
  /\ ~Concerns(f)
  /\ CheckSendMsgQ(port, rest, firmware, 0)
  /\ UNCHANGED <<answers, given, spoilt>>

Process(f, rest) ==
  \/ f.type = "ack" /\ (ReceiveAck(f, rest) \/ ReceiveInitAck(f, rest)
                        \/ ReceiveLastInitAck(f, rest))
  \/ f.type = "refusal" /\ ReceiveRefusal(f, rest)
  \/ f.type = "confirm" /\ ReceiveConfirm(f, rest, 0)
  \/ f.type = "cts" /\ ReceiveCTS(f, rest)
  \/ f.type = "eom" /\ ReceiveEndOfMsg(f, rest)
  \/ ReceiveOther(f, rest)

ThreadRead == line # <<>> /\ Process(Head(line), Tail(line))

(***************************************************************************)
(* Timers.  ComReplyTimeOut does not ask whether the transaction is still  *)
(* in a list: its timer runs on when an answer of another kind ends it.    *)
(***************************************************************************)
\* Nothing is under way that would have stopped the timer; otherwise it is late.
Late == IF line = <<>> THEN 0 ELSE 1

\* Again, after a command that turns confirmations on, unless it is lost (only
\* J1939 messages are repeated).
Resend(x) ==
  LET p == [port EXCEPT !.tx[x].retries = @ - 1]
  IN /\ \E on \in BOOLEAN :
          Write(p, x, line, [firmware EXCEPT !.confirming = @ \/ on],
                Late + IF on THEN 0 ELSE 1)
     /\ UNCHANGED <<answers, given, spoilt>>

\* RemoveSentQBTransaction: by packet id and kind of command, so that x, whose
\* timer ran on, may remove another one (a packet id is 0 once it is acknowledged).
\* A step "CAN control" of the initialisation is not removed.
Victims(x) ==
  IF port.tx[x].cmd = "CAN_CONTROL" THEN {}
  ELSE {y \in ToSet(port.sent) :
          port.tx[y].pktId = port.tx[x].pktId /\ port.tx[y].cmd = port.tx[x].cmd}

GiveUp(x) ==
  LET stopped == [port EXCEPT !.tx[x].reply = FALSE]
      p == IF Victims(x) = {} THEN stopped
           ELSE TakeOut(stopped, Victims(x))
      q == [ClearQBTransactionNew(p) EXCEPT
              !.tx[x] = IF x \in Inits /\ x \in Victims(x) THEN Fresh(x) ELSE @]
  IN /\ Idle(q) # {}
     /\ CheckSendMsgQ(ReInitSerialPort(q), line, firmware, Late)
     /\ answers' = TellAll(TellAll(answers, {x} \cap Messages, "timeout"),
                           Cleared(p) \cap Messages, "timeout")
     /\ UNCHANGED <<given, spoilt>>

ComReplyTimeOut(x) ==
  /\ port.tx[x].reply
  /\ IF port.tx[x].retries = 0 THEN GiveUp(x)
     ELSE IF port.tx[x].done
       THEN /\ NoWrite([port EXCEPT !.tx[x].reply = FALSE], line, firmware, Late)
            /\ UNCHANGED <<answers, given, spoilt>>
       ELSE Resend(x)

\* J1939Transaction.TimeOut, ten seconds after the last frame or CTS, which is
\* longer than a frame in QBTransactionSent is repeated; CheckForCompleteJ1939
\* then removes all that is done, a transaction whose removal threw included.
BusTimeOut(x) ==
  LET p == [port EXCEPT !.tx[x].done = TRUE, !.tx[x].busTimer = FALSE]
      late == IF line = <<>> /\ ~port.tx[x].reply THEN 0 ELSE 1
      ended == {y \in Active(p) : p.tx[y].done}
      whole == {y \in ended : p.tx[y].complete}
  IN /\ port.tx[x].busTimer
     /\ NoWrite(TakeOut(p, ended), line, firmware, late)
     /\ answers' = TellAll(TellAll(answers, whole, "success"), ended \ whole, "timeout")
     /\ EndsTimed(ended)
     /\ UNCHANGED given

Timers ==
  \/ \E x \in Messages : BusTimeOut(x)
  \/ \E x \in Messages \cup Inits : ComReplyTimeOut(x)

(***************************************************************************)
(* Clients, and what goes wrong on the line.                               *)
(***************************************************************************)
\* Each message after the first leaves less room for faults.
Crowd == LET n == Cardinality(given) IN IF n = 0 THEN 0 ELSE Faults[n] - Faults[n + 1]

\* AddSendJ1708Msg, AddSendJ1939Msg
AddSendMsg(x) ==
  /\ x \notin given /\ given' = given \cup {x}
  /\ LET p == IF MustWait(port, x) THEN [port EXCEPT !.pend = Append(@, x)]
              ELSE [port EXCEPT !.new = Append(@, x),
                                !.tx[x] = IF J1939(x) THEN GetCANPacket(@, x) ELSE @]
     IN CheckSendMsgQ(p, line, firmware, Crowd)
  /\ UNCHANGED <<answers, spoilt>>

\* CheckSendMsgQ is called for every packet of a client, also for a hello and for
\* a send that is refused before it becomes a transaction (AddSendJ1939Msg).
Hello ==
  /\ port.sent = <<>> /\ Ready(port) # {}
  /\ CheckSendMsgQ(port, line, firmware, 0)
  /\ UNCHANGED <<answers, given, spoilt>>

LoseAnswer ==
  /\ line # <<>>
  /\ NoWrite(port, Tail(line), firmware, 1)
  /\ UNCHANGED <<answers, given, spoilt>>

\* The driver's acknowledgement of a confirmation is lost: it comes again.
RepeatConfirm ==
  /\ line # <<>> /\ Head(line).type = "confirm"
  /\ ReceiveConfirm(Head(line), line, 1)

FirmwareRestarts ==
  /\ NoWrite(port, <<>>, [firmware EXCEPT !.confirming = FALSE], 1)
  /\ UNCHANGED <<answers, given, spoilt>>

(***************************************************************************)
Init ==
  /\ port = [new |-> <<>>, sent |-> <<>>, pend |-> <<>>,
             tx |-> [x \in Messages \cup Inits |-> Fresh(x)]]
  /\ answers = [x \in Messages |-> <<>>]
  /\ given = {} /\ packetId = 0 /\ line = <<>>
  /\ firmware = [confirming |-> TRUE, bus |-> [x \in Messages |-> {}]]
  /\ room = Faults[1] /\ spoilt = {}

Next ==
  \/ \E x \in Messages : AddSendMsg(x)
  \/ Timers \/ ThreadRead \/ Hello
  \/ LoseAnswer \/ RepeatConfirm \/ FirmwareRestarts

\* The threads run: what has arrived is read, what may be sent is sent by the
\* next hello, and when nothing is under way a timer that runs expires.
CanStep ==
  \/ line # <<>>
  \/ port.sent = <<>> /\ Ready(port) # {}
  \/ \E x \in Messages : port.tx[x].busTimer
  \/ \E x \in Messages \cup Inits : port.tx[x].reply

\* This is WF_vars(Next /\ UNCHANGED <<given, room>>), weak fairness of the steps
\* that are neither a client's nor a fault.  CanStep is what ENABLED makes of it,
\* which TLC is slow to find out in every state.
Fairness == []<>~CanStep \/ []<><<UNCHANGED <<given, room>>>>_vars

Spec == Init /\ [][Next]_vars /\ Fairness

(***************************************************************************)
(* Properties.  Three defects of the code are excepted by name; without    *)
(* the exception TLC shows each of them.                                   *)
(***************************************************************************)
\* A J1939 transaction waits only for one that is still to end: none is left in
\* QBTransJ1939Pending when the last one it could mix with leaves the lists.
PendingHasReason == \A x \in ToSet(port.pend) : MustWait(port, x)

\* A client gets one reply to a message, whatever is lost, late or refused,
\* unless the message ended while its timer ran on (a refusal, an EndOfMsgAck or
\* a timeout of the bus does not stop it), or its removal threw.
AnsweredOnce ==
  \A x \in Messages : Len(answers[x]) <= 1 \/ Met(x, "timer") \/ Met(x, "thrown")

\* A client is told of success only when all frames were transmitted, whatever
\* was lost, late, refused or sent again, unless a confirmation came twice: it
\* is not told from the confirmation of the next frame.
SuccessIsTrue ==
  \A x \in Messages :
    J1939(x) /\ Contains(answers[x], "success")
      => 0..Frames[x] \subseteq firmware.bus[x] \/ Met(x, "repeated")

\* Both: a client can believe the one answer it gets to a message.
AnsweredTruly == AnsweredOnce /\ SuccessIsTrue

\* A transaction without a timer that is in the way of all others: one whose
\* removal threw, or a step of the initialisation that is not removed.
Blocked == \E x \in ToSet(port.sent) : ~port.tx[x].reply

\* Every message that was given is answered in the end, through losses, refusals
\* and restarts of the firmware, unless the port is blocked.
EventuallyAnswered ==
  []<>(Blocked \/ \A x \in given : answers[x] # <<>>)
==============================================================================
