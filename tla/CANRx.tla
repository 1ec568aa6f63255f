-------------------------------- MODULE CANRx --------------------------------
(***************************************************************************)
(* The CAN receive queue of the firmware (src/src/CAN.c): a ring of        *)
(* CAN_QUEUE_SIZE slots filled by the CAN interrupt handler and emptied    *)
(* towards the host by the main loop.  The two share head, tail, the slots *)
(* and the flag CAN_received; the handler may run between any two steps of *)
(* the main loop except inside a DISABLE_IRQ region.                       *)
(*                                                                         *)
(* Every event the handler puts in the queue carries a stamp, and the      *)
(* history variable fate records what became of it; stamps and fates are   *)
(* not in the code and no guard reads them.                                *)
(***************************************************************************)
EXTENDS Integers

CONSTANTS
  CAN_QUEUE_SIZE,  \* slots of the ring (300 in the firmware)
  MaxArrivals,     \* bound: events the interrupt handler queues
  MaxCommands      \* bound: host commands that touch the queue

ASSUME QueueSizeAssumption == CAN_QUEUE_SIZE \in Nat /\ CAN_QUEUE_SIZE >= 2
ASSUME BoundAssumption == MaxArrivals \in Nat /\ MaxCommands \in Nat

VARIABLES
  head, tail,              \* CAN_received_queue.head and .tail
  CAN_messages,            \* CAN_received_queue.CAN_messages
  CAN_received,            \* "there is something for the main loop"
  can_int_queue_overflow,  \* sticky overflow indication
  pc,                      \* where the main loop is
  todo,                    \* what is left of the host command in progress
  curSrc,                  \* canmsg->src as the main loop read it
  commands,                \* commands received so far
  arrived, fate, lastSent, \* history: stamps, their fates, last one forwarded
  dirty                    \* history: emptied at least once with the flag TRUE

queueVars   == <<head, tail, CAN_messages, CAN_received, can_int_queue_overflow>>
mainVars    == <<pc, todo, curSrc, commands>>
historyVars == <<arrived, fate, lastSent, dirty>>
vars        == <<queueVars, mainVars, historyVars>>

Slots  == 0 .. CAN_QUEUE_SIZE - 1
Stamps == 1 .. MaxArrivals

\* The origin of a slot's content; 232 is the zero the ring is loaded with.
ISRSources == {"RCV", "TXC", "BOF"}
Sources    == ISRSources \union {"232"}
Messages   == [src : Sources, n : 0 .. MaxArrivals]

Fates == {"none", "queued", "lost", "forwarded", "cleared"}

\* The ring increment (i + 1) % CAN_QUEUE_SIZE, for i already in the ring.
NextSlot(i) == IF i = CAN_QUEUE_SIZE - 1 THEN 0 ELSE i + 1

-------------------------------------------------------------------------------
Init ==
  /\ head = 0 /\ tail = 0
  /\ CAN_messages = [i \in Slots |-> [src |-> "232", n |-> 0]]
  /\ CAN_received = FALSE
  /\ can_int_queue_overflow = FALSE
  /\ pc = "cmd" /\ todo = {} /\ curSrc = "232" /\ commands = 0
  /\ arrived = 0 /\ fate = [n \in Stamps |-> "none"] /\ lastSent = 0
  /\ dirty = FALSE

(***************************************************************************)
(* The interrupt handler queues a received frame, a transmit confirmation  *)
(* or a bus-off notification.  All three places do the same: a full ring   *)
(* keeps head where it is, so the newest event goes to the spare slot.     *)
(***************************************************************************)
RingFull == NextSlot(head) = tail

\* Mutant: head moves on although the ring is full.
QueueFromISRAlways(s) ==
  /\ arrived < MaxArrivals
  /\ arrived' = arrived + 1
  /\ CAN_received' = TRUE
  /\ CAN_messages' = [CAN_messages EXCEPT ![head] = [src |-> s, n |-> arrived + 1]]
  /\ head' = NextSlot(head)
  /\ fate' = [fate EXCEPT ![arrived + 1] = "queued"]
  /\ UNCHANGED <<tail, can_int_queue_overflow, mainVars, lastSent, dirty>>

QueueFromISR(s) ==
  /\ arrived < MaxArrivals
  /\ arrived' = arrived + 1
  /\ CAN_received' = TRUE
  /\ CAN_messages' = [CAN_messages EXCEPT ![head] = [src |-> s, n |-> arrived + 1]]
  /\ IF RingFull
       THEN /\ can_int_queue_overflow' = TRUE
            /\ head' = head
            /\ fate' = [fate EXCEPT ![arrived + 1] = "lost"]
       ELSE /\ head' = NextSlot(head)
            /\ fate' = [fate EXCEPT ![arrived + 1] = "queued"]
            /\ UNCHANGED can_int_queue_overflow
  /\ UNCHANGED <<tail, mainVars, lastSent, dirty>>

-------------------------------------------------------------------------------
(***************************************************************************)
(* Host commands, executed by the main loop before it serves the queues.   *)
(* Init232 resets the preferences ("reset"); CANcontrol 'r' does any of    *)
(* reset, InitializeCAN ("init") and ClearCANRxQueue ("clear"), in this    *)
(* order; GetInfo 3 re-arms the overflow indication ("rearm").             *)
(***************************************************************************)
HostCommands == (SUBSET {"reset", "init", "clear"}) \union {{"rearm"}}

HostCommand(cmd) ==
  /\ pc = "cmd" /\ todo = {} /\ cmd # {}
  /\ commands < MaxCommands
  /\ commands' = commands + 1
  /\ todo' = cmd
  /\ UNCHANGED <<queueVars, pc, curSrc, historyVars>>

\* Everything still queued is given up by the code that empties the ring.
ClearedFate == [n \in Stamps |-> IF fate[n] = "queued" THEN "cleared" ELSE fate[n]]

\* ClearCANRxQueue, in one DISABLE_IRQ region: the flag is not touched.
ClearCANRxQueue(step) ==
  /\ pc = "cmd" /\ step \in todo
  /\ step = "clear" => "reset" \notin todo /\ "init" \notin todo
  /\ todo' = todo \ {step}
  /\ tail' = head
  /\ fate' = ClearedFate
  /\ dirty' = (dirty \/ CAN_received)
  /\ UNCHANGED <<head, CAN_messages, CAN_received, can_int_queue_overflow,
                 pc, curSrc, commands, arrived, lastSent>>

\* InitializeCANstructs stores head and tail with interrupts enabled, so an
\* event may arrive between the two stores.
InitializeHead ==
  /\ pc = "cmd" /\ "init" \in todo /\ "reset" \notin todo
  /\ pc' = "init"
  /\ head' = 0
  /\ fate' = ClearedFate
  /\ UNCHANGED <<tail, CAN_messages, CAN_received, can_int_queue_overflow,
                 todo, curSrc, commands, arrived, lastSent, dirty>>

InitializeTail ==
  /\ pc = "init"
  /\ pc' = "cmd"
  /\ todo' = todo \ {"init"}
  /\ tail' = 0
  /\ dirty' = (dirty \/ (CAN_received /\ head = 0))
  /\ UNCHANGED <<head, CAN_messages, CAN_received, can_int_queue_overflow,
                 curSrc, commands, arrived, fate, lastSent>>

RearmOverflow ==
  /\ pc = "cmd" /\ "rearm" \in todo
  /\ todo' = todo \ {"rearm"}
  /\ can_int_queue_overflow' = FALSE
  /\ UNCHANGED <<head, tail, CAN_messages, CAN_received,
                 pc, curSrc, commands, historyVars>>

CommandsDone ==
  /\ pc = "cmd" /\ todo = {}
  /\ pc' = "rx"
  /\ UNCHANGED <<queueVars, todo, curSrc, commands, historyVars>>

-------------------------------------------------------------------------------
(***************************************************************************)
(* ProcessCANRecievePacket.  It works on the slot in place: the source is  *)
(* read first, the identity and data while the host packet is built.       *)
(***************************************************************************)
CheckReceived ==
  /\ pc = "rx"
  /\ IF CAN_received
       THEN pc' = "build" /\ curSrc' = CAN_messages[tail].src
       ELSE pc' = "cmd" /\ UNCHANGED curSrc
  /\ UNCHANGED <<queueVars, todo, commands, historyVars>>

ForwardedStamp == CAN_messages[tail].n

\* A slot with a bad source is dropped, nothing is sent.
DropBadSource ==
  /\ pc = "build" /\ curSrc \notin ISRSources
  /\ pc' = "advance"
  /\ UNCHANGED <<queueVars, todo, curSrc, commands, historyVars>>

\* QueueTx232Packet takes the packet ...
ForwardToHost ==
  /\ pc = "build" /\ curSrc \in ISRSources
  /\ pc' = "advance"
  /\ lastSent' = ForwardedStamp
  /\ fate' = [n \in Stamps |->
                IF n = ForwardedStamp /\ fate[n] = "queued" THEN "forwarded" ELSE fate[n]]
  /\ UNCHANGED <<queueVars, todo, curSrc, commands, arrived, dirty>>

\* ... or has no room, and the slot is tried again in the next main loop.
HostQueueFull ==
  /\ pc = "build" /\ curSrc \in ISRSources
  /\ pc' = "cmd"
  /\ UNCHANGED <<queueVars, todo, curSrc, commands, historyVars>>

\* Mutants: the flag is always lowered, or tail stays.
Advance(newtail, flag) ==
  /\ pc = "advance"
  /\ pc' = "cmd"
  /\ tail' = newtail
  /\ CAN_received' = flag
  /\ UNCHANGED <<head, CAN_messages, can_int_queue_overflow,
                 todo, curSrc, commands, historyVars>>

AdvanceTailLowersFlag == Advance(NextSlot(tail), FALSE)
AdvanceTailNot == Advance(tail, CAN_received /\ head # tail)

\* The DISABLE_IRQ region: advance tail, lower the flag if the ring is empty.
AdvanceTail ==
  /\ pc = "advance"
  /\ pc' = "cmd"
  /\ tail' = NextSlot(tail)
  /\ CAN_received' = (CAN_received /\ head # NextSlot(tail))
  /\ UNCHANGED <<head, CAN_messages, can_int_queue_overflow,
                 todo, curSrc, commands, historyVars>>

-------------------------------------------------------------------------------
ISR == \E s \in ISRSources : QueueFromISR(s)

Clearing == \E step \in {"reset", "clear"} : ClearCANRxQueue(step)

MainLoop ==
  \/ Clearing
  \/ InitializeHead
  \/ InitializeTail
  \/ RearmOverflow
  \/ CommandsDone
  \/ CheckReceived
  \/ DropBadSource
  \/ ForwardToHost
  \/ HostQueueFull
  \/ AdvanceTail

Next ==
  \/ ISR
  \/ \E cmd \in HostCommands : HostCommand(cmd)
  \/ MainLoop

Spec == Init /\ [][Next]_vars

\* The main loop is a while(1) that never blocks, and the host link frees room
\* again and again: an entry it refuses is eventually taken.
FairSpec == Spec /\ WF_vars(MainLoop) /\ SF_vars(ForwardToHost)

-------------------------------------------------------------------------------
TypeOK ==
  /\ head \in Slots /\ tail \in Slots
  /\ CAN_messages \in [Slots -> Messages]
  /\ CAN_received \in BOOLEAN
  /\ can_int_queue_overflow \in BOOLEAN
  /\ pc \in {"cmd", "init", "rx", "build", "advance"}
  /\ todo \in HostCommands
  /\ curSrc \in Sources
  /\ commands \in 0 .. MaxCommands
  /\ arrived \in 0 .. MaxArrivals
  /\ fate \in [Stamps -> Fates]
  /\ lastSent \in 0 .. MaxArrivals
  /\ dirty \in BOOLEAN

\* Slots from the first argument up to, not including, the second.
Between(t, h) ==
  {i \in Slots : IF t <= h THEN t <= i /\ i < h ELSE t <= i \/ i < h}

\* The first slot that holds an event not yet handed to the host.  While the
\* main loop stands between the queueing and the advance, the slot at tail is
\* done with; while it re-initialises, tail is about to be 0.
PendingTail ==
  CASE pc = "init"    -> 0
    [] pc = "advance" -> NextSlot(tail)
    [] OTHER          -> tail

Pending == Between(PendingTail, head)

(***************************************************************************)
(* No lost wakeup: whenever the ring holds an event the flag the main loop *)
(* polls is raised, whatever the order of the handler and of the advance   *)
(* that may lower it.                                                      *)
(***************************************************************************)
NoLostWakeup == pc # "init" /\ head # tail => CAN_received

(***************************************************************************)
(* Conservation: as long as the ring was never emptied with the flag up,   *)
(* the events that are queued and neither forwarded nor cleared are those  *)
(* in the pending slots, one slot each.                                    *)
(***************************************************************************)
PendingEvents == {CAN_messages[i].n : i \in Pending}

Conservation ==
  ~dirty => /\ PendingEvents = {n \in Stamps : fate[n] = "queued"}
            /\ \A i, j \in Pending : CAN_messages[i].n = CAN_messages[j].n => i = j

(***************************************************************************)
(* The ring keeps what the interrupt handler queued: every event is there  *)
(* once until the main loop has taken it, and the flag that sends the main *)
(* loop there is up (CAN.c, CANIRQHandler against ProcessCANRecievePacket).*)
(***************************************************************************)
RingSound == NoLostWakeup /\ Conservation

(***************************************************************************)
(* The inductive strengthening.  Rank is a slot's distance from the oldest *)
(* event; older events have smaller stamps, and none older than the last   *)
(* one forwarded is left.                                                  *)
(***************************************************************************)
Rank(t, i) == IF t <= i THEN i - t ELSE i + CAN_QUEUE_SIZE - t

ArrivedFate == \A n \in Stamps : fate[n] = "none" <=> n > arrived

FlagExact == ~dirty /\ pc # "init" => (CAN_received <=> head # tail)

PendingInOrder ==
  ~dirty =>
    /\ lastSent <= arrived
    /\ \A i \in Pending :
         /\ CAN_messages[i].n > lastSent
         /\ CAN_messages[i].src \in ISRSources
         /\ \A j \in Pending : Rank(PendingTail, i) < Rank(PendingTail, j)
                                 => CAN_messages[i].n < CAN_messages[j].n

MainLoopPlace ==
  /\ pc \in {"build", "advance"} => CAN_received
  /\ pc = "build" /\ ~dirty => curSrc = CAN_messages[tail].src
  /\ pc = "init" => (tail = 0 \/ head < tail) /\ (head # 0 => CAN_received)

IInv ==
  /\ TypeOK
  /\ NoLostWakeup
  /\ ArrivedFate
  /\ FlagExact
  /\ MainLoopPlace
  /\ PendingInOrder
  /\ Conservation

(***************************************************************************)
(* What reaches the host is an event that is queued, newer than everything *)
(* forwarded before it: exactly once and in the order of arrival.          *)
(***************************************************************************)
ForwardsInOrder ==
  [][ForwardToHost /\ ~dirty =>
       /\ ForwardedStamp \in Stamps /\ fate[ForwardedStamp] = "queued"
       /\ ForwardedStamp > lastSent]_vars

(***************************************************************************)
(* No torn read: between reading a slot's source and its data, the handler *)
(* does not write the slot the main loop is reading.                       *)
(***************************************************************************)
NoTornRead ==
  [][pc = "build" /\ ~dirty => CAN_messages'[tail] = CAN_messages[tail]]_vars

(***************************************************************************)
(* Both: the host gets each event once, in order, and whole, although      *)
(* ProcessCANRecievePacket reads the slot in place while the handler       *)
(* writes others.                                                          *)
(***************************************************************************)
ForwardsWhole == ForwardsInOrder /\ NoTornRead

(***************************************************************************)
(* What the protocol document says of bit 5 of CANcontrol 'r': "Clear the  *)
(* CAN Receive Queue (all pending packets that have not yet been sent to   *)
(* the host will be ignored)".  The flag stays up, and the code forwards   *)
(* what it cleared: ClearedIgnored does not hold.                          *)
(***************************************************************************)
ClearedIgnored ==
  [][ForwardToHost =>
       ForwardedStamp \notin {n \in Stamps : fate[n] = "cleared"}]_vars

(***************************************************************************)
(* Everything pending is eventually forwarded or cleared, and the flag is  *)
(* lowered: the main loop does not go on reading an empty ring for ever,   *)
(* even after a clear that left the flag up.                               *)
(***************************************************************************)
EventuallyDrained == CAN_received ~> ~CAN_received
===============================================================================
