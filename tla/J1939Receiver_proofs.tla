------------------------ MODULE J1939Receiver_proofs ------------------------
(***************************************************************************)
(* Theorems about the receiving half of the J1939 transport protocol, for  *)
(* any messages, sizes, windows and number of faults: what a client gets   *)
(* is as it was sent because a receiver holds packets of its own message   *)
(* only (Own), and that because two messages a receiver cannot tell apart, *)
(* being of one sender, are in mixed as soon as both are active            *)
(* (Separate).                                                             *)
(***************************************************************************)
EXTENDS J1939Receiver, SequenceTheorems, WellFoundedInduction, TLAPS

\* Some natural numbers have a smallest (the order of Nat is well-founded).
LEMMA Smallest ==
  ASSUME NEW T, T \subseteq Nat, T # {}
  PROVE  \E x \in T : \A y \in T : x <= y
<1> DEFINE R == OpToRel(<, Nat)
<1>1. IsWellFoundedOn(R, Nat)
  BY NatLessThanWellFounded
<1>2. \A i, j \in Nat : i < j => <<i, j>> \in R
  BY DEF OpToRel
<1> HIDE DEF R
<1>3. PICK x \in T : \A y \in T : ~(<<y, x>> \in R)
  BY <1>1, WFMin
<1>4. \A y \in T : ~(y < x)
  BY <1>2, <1>3
<1> QED
  BY <1>4

(***************************************************************************)
(* The inductive invariant.                                                *)
(***************************************************************************)
\* What there is at the places of m's packets; receivers, the driver's frames and
\* the states of a sender.
Slots(m) == [1 .. Packets[m] -> Messages \cup {None}]
ReceiversOf(m) ==
  [msg : {m}, got : Slots(m), nextSeq : Nat, nextCTS : Nat, retries : 0 .. NumRetries,
   valid : BOOLEAN, timer : BOOLEAN]
Receivers == UNION {ReceiversOf(m) : m \in Messages}
Frames == {EndOfMsgAck} \cup [type : {"CTS"}, next : Nat \ {0}, n : Nat \ {0}]
Phases == {"unsent", "waiting", "sending", "acked", "closed"}

\* A complete receiver never outlives the step that completes it.
Incomplete == {r \in Receivers : ~Complete(r)}

TypeOK ==
  /\ bam \subseteq Incomplete /\ rts \subseteq Incomplete /\ detached \subseteq Incomplete
  /\ delivered \subseteq {[msg |-> r.msg, got |-> r.got] : r \in Receivers}
  /\ dropped \subseteq Messages
  /\ peer \in [Messages -> [phase : Phases, next : Nat \ {0}, last : Nat]]
  /\ inbox \in [Messages -> Seq(Frames)]
  /\ faults \in [Messages -> Nat] /\ room \in Nat
  /\ claimed \subseteq Addresses
  /\ mixed \subseteq Messages /\ aborted \subseteq Messages

\* The message m is still on its way or being collected.
Active(m) == Open(m) \/ Listens(m)

\* Two messages of one sender that are active at once have been noted.
Separate ==
  \A m, n \in Messages :
    m # n /\ SA[m] = SA[n] /\ Active(m) /\ Active(n) => m \in mixed

\* Apart from those, a receiver holds packets of its own message only.
Own ==
  \A r \in Listed : r.msg \notin mixed =>
    \A j \in 1 .. Packets[r.msg] : r.got[j] \in {None, r.msg}

Inv == TypeOK /\ Separate /\ Own /\ Intact /\ AcknowledgedIsHandedOver

---------------------------------------------------------------------------
(***************************************************************************)
(* Receivers, and what a packet or a timer does to one.                    *)
(***************************************************************************)
LEMMA ReceiverFacts ==
  ASSUME NEW r \in Receivers
  PROVE  /\ r.msg \in Messages /\ r.got \in Slots(r.msg) /\ r.nextSeq \in Nat /\ r.nextCTS \in Nat
         /\ r.retries \in 0 .. NumRetries /\ r.valid \in BOOLEAN /\ r.timer \in BOOLEAN
         /\ DOMAIN r.got = 1 .. Packets[r.msg] /\ Packets[r.msg] \in Nat \ {0}
         /\ Window[r.msg] \in Nat \ {0}
         /\ r = [msg |-> r.msg, got |-> r.got, nextSeq |-> r.nextSeq, nextCTS |-> r.nextCTS,
                 retries |-> r.retries, valid |-> r.valid, timer |-> r.timer]
<1>1. PICK m \in Messages : r \in ReceiversOf(m)
  BY DEF Receivers
<1>2. /\ r.msg = m /\ r.got \in Slots(r.msg) /\ r.nextSeq \in Nat /\ r.nextCTS \in Nat
      /\ r.retries \in 0 .. NumRetries /\ r.valid \in BOOLEAN /\ r.timer \in BOOLEAN
      /\ r = [msg |-> r.msg, got |-> r.got, nextSeq |-> r.nextSeq, nextCTS |-> r.nextCTS,
              retries |-> r.retries, valid |-> r.valid, timer |-> r.timer]
  BY <1>1 DEF ReceiversOf
<1>3. DOMAIN r.got = 1 .. Packets[r.msg]
  BY <1>2 DEF Slots
<1>4. Packets[r.msg] \in Nat \ {0} /\ Window[r.msg] \in Nat \ {0}
  BY <1>2, ReceiverAssumption
<1> QED
  BY <1>2, <1>3, <1>4

LEMMA ReceiverMade ==
  ASSUME NEW m \in Messages, NEW got \in Slots(m), NEW ns \in Nat, NEW nc \in Nat,
         NEW re \in 0 .. NumRetries, NEW v \in BOOLEAN, NEW t \in BOOLEAN
  PROVE  [msg |-> m, got |-> got, nextSeq |-> ns, nextCTS |-> nc, retries |-> re,
          valid |-> v, timer |-> t] \in Receivers
  BY DEF Receivers, ReceiversOf

\* The first of the missing packets, and the run of missing ones from there.
LEMMA Asked ==
  ASSUME NEW r \in Incomplete
  PROVE  /\ FirstMissing(r) \in Missing(r) /\ FirstMissing(r) \in 1 .. Packets[r.msg]
         /\ RunLength(r) \in 1 .. Window[r.msg]
         /\ \A k \in FirstMissing(r) .. (FirstMissing(r) + RunLength(r) - 1) : k \in Missing(r)
<1>1. r \in Receivers /\ ~Complete(r)
  BY DEF Incomplete
<1>2. Missing(r) \subseteq Nat /\ Missing(r) # {} /\ Missing(r) \subseteq 1 .. Packets[r.msg]
  BY <1>1, ReceiverFacts DEF Missing, Complete
<1>3. \E k \in Missing(r) : \A j \in Missing(r) : k <= j
  BY <1>2, Smallest
<1>4. FirstMissing(r) \in Missing(r)
  BY <1>3 DEF FirstMissing
<1> DEFINE first == FirstMissing(r)
           w == Window[r.msg]
           T == {n \in 1 .. w : n = w \/ first + n \notin Missing(r)}
<1>5. w \in Nat \ {0} /\ first \in Nat
  BY <1>1, <1>2, <1>4, ReceiverFacts
<1> HIDE DEF first, w
<1>6. T \subseteq Nat /\ w \in T
  BY <1>5
<1>7. PICK n \in T : \A y \in T : n <= y
  BY <1>6, Smallest
<1>8. ASSUME NEW k \in first .. (first + n - 1) PROVE k \in Missing(r)
  <2>1. CASE k = first
    BY <1>4, <2>1 DEF first
  <2>2. CASE k # first
    <3>1. k - first \in 1 .. w /\ ~(n <= k - first) /\ first + (k - first) = k
      BY <1>5, <1>7, <2>2
    <3>2. k - first \notin T
      BY <1>7, <3>1
    <3> QED
      BY <3>1, <3>2
  <2> QED
    BY <2>1, <2>2
<1>9. n \in 1 .. w /\ (n = w \/ first + n \notin Missing(r))
  BY <1>7
<1>10. \E q \in 1 .. w : /\ \A k \in first .. (first + q - 1) : k \in Missing(r)
                         /\ q = w \/ first + q \notin Missing(r)
  BY <1>8, <1>9
<1>11. /\ RunLength(r) \in 1 .. w
       /\ \A k \in first .. (first + RunLength(r) - 1) : k \in Missing(r)
  BY <1>10 DEF RunLength, first, w
<1> QED
  BY <1>2, <1>4, <1>11 DEF first, w

LEMMA ResendFrame ==
  ASSUME NEW r \in Incomplete
  PROVE  Resend(r) \in Frames /\ Resend(r) # EndOfMsgAck
         /\ AfterResend(r) = [r EXCEPT !.nextSeq = FirstMissing(r)]
         /\ AfterResend(r) \in Incomplete /\ AfterResend(r).msg = r.msg
         /\ AfterResend(r).got = r.got /\ AfterResend(r).retries = r.retries
<1>1. /\ FirstMissing(r) \in Nat \ {0} /\ RunLength(r) \in Nat \ {0} /\ r \in Receivers
  BY Asked DEF Incomplete
<1>2. Resend(r) \in Frames /\ Resend(r) # EndOfMsgAck
  <2>1. Resend(r) = [type |-> "CTS", next |-> FirstMissing(r), n |-> RunLength(r)]
    BY DEF Resend, CTS
  <2>2. Resend(r).type = "CTS" /\ EndOfMsgAck.type = "EOM"
    BY <2>1 DEF EndOfMsgAck
  <2> QED
    BY <1>1, <2>1, <2>2 DEF Frames
<1> DEFINE s == AfterResend(r)
<1>3. s = [msg |-> r.msg, got |-> r.got, nextSeq |-> FirstMissing(r), nextCTS |-> r.nextCTS,
           retries |-> r.retries, valid |-> r.valid, timer |-> r.timer]
  BY <1>1, ReceiverFacts DEF AfterResend
<1>4. s \in Receivers
  BY <1>1, <1>3, ReceiverFacts, ReceiverMade
<1>5. s.msg = r.msg /\ s.got = r.got /\ s.retries = r.retries
  BY <1>3
<1>6. s \in Incomplete
  BY <1>4, <1>5 DEF Incomplete, Complete
<1> QED
  BY <1>2, <1>5, <1>6 DEF AfterResend

\* s is what r may be after packets of m have come in.
Updated(r, s, m) ==
  /\ s \in Receivers /\ s.msg = r.msg
  /\ \A j \in 1 .. Packets[r.msg] :
       s.got[j] = r.got[j] \/ (s.got[j] = m /\ SA[m] = SA[r.msg])

\* The number of the packet that is due next matters to nothing but itself.
LEMMA NextSeqFacts ==
  ASSUME NEW r \in Receivers, NEW n \in Nat
  PROVE  LET s == [r EXCEPT !.nextSeq = n]
         IN s \in Receivers /\ s.msg = r.msg /\ s.got = r.got
<1> DEFINE s == [r EXCEPT !.nextSeq = n]
<1>1. s = [msg |-> r.msg, got |-> r.got, nextSeq |-> n, nextCTS |-> r.nextCTS,
           retries |-> r.retries, valid |-> r.valid, timer |-> r.timer]
  BY ReceiverFacts
<1> HIDE DEF s
<1>2. s \in Receivers
  BY <1>1, ReceiverFacts, ReceiverMade
<1>3. s.msg = r.msg /\ s.got = r.got
  BY <1>1
<1> QED
  BY <1>2, <1>3 DEF s

\* A packet is put in its place.
LEMMA StoredFacts ==
  ASSUME NEW r \in Receivers, NEW m \in Messages, NEW k \in Nat, SA[m] = SA[r.msg]
  PROVE  Updated(r, Stored(r, m, k), m)
<1> DEFINE s == Stored(r, m, k)
           got == [r.got EXCEPT ![k] = m]
<1>1. got \in Slots(r.msg) /\ \A j \in 1 .. Packets[r.msg] : got[j] = r.got[j] \/ got[j] = m
  BY ReceiverFacts DEF Slots
<1>6. s = [r EXCEPT !.got = got, !.timer = TRUE]
  BY DEF Stored
<1> HIDE DEF s, got
<1>2. s = [msg |-> r.msg, got |-> got, nextSeq |-> r.nextSeq, nextCTS |-> r.nextCTS,
           retries |-> r.retries, valid |-> r.valid, timer |-> TRUE]
  <2> DEFINE u == [msg |-> r.msg, got |-> got, nextSeq |-> r.nextSeq, nextCTS |-> r.nextCTS,
                   retries |-> r.retries, valid |-> r.valid, timer |-> r.timer]
  <2>1. [r EXCEPT !.got = got] = u
    BY ReceiverFacts
  <2>2. s = [[r EXCEPT !.got = got] EXCEPT !.timer = TRUE]
    BY <1>6
  <2>3. s = [u EXCEPT !.timer = TRUE]
    BY <2>1, <2>2
  <2> QED
    BY <2>3
<1>3. s \in Receivers
  <2>1. /\ r.msg \in Messages /\ r.nextSeq \in Nat /\ r.nextCTS \in Nat
        /\ r.retries \in 0 .. NumRetries /\ r.valid \in BOOLEAN /\ TRUE \in BOOLEAN
    BY ReceiverFacts
  <2> QED
    BY <1>1, <1>2, <2>1, ReceiverMade
<1>4. s.msg = r.msg /\ s.got = got
  BY <1>2
<1>5. Updated(r, s, m)
  BY <1>1, <1>3, <1>4 DEF Updated
<1> QED
  BY <1>5 DEF s

LEMMA UpdateBAMFacts ==
  ASSUME NEW r \in Receivers, NEW m \in Messages, NEW k \in Nat
  PROVE  Updated(r, UpdateBAM(r, m, k), m)
<1>1. CASE SA[m] # SA[r.msg] \/ k # r.nextSeq
  BY <1>1 DEF UpdateBAM, Updated
<1>2. CASE ~(SA[m] # SA[r.msg] \/ k # r.nextSeq)
  <2> DEFINE s == Stored(r, m, k)
             t == [s EXCEPT !.nextSeq = k + 1]
  <2>1. UpdateBAM(r, m, k) = t
    BY <1>2 DEF UpdateBAM
  <2>2. Updated(r, s, m)
    BY <1>2, StoredFacts
  <2>3. s \in Receivers /\ k + 1 \in Nat
    BY <2>2 DEF Updated
  <2> HIDE DEF s
  <2>4. t \in Receivers /\ t.msg = s.msg /\ t.got = s.got
    BY <2>3, NextSeqFacts
  <2> HIDE DEF t
  <2>5. Updated(r, t, m)
    BY <2>2, <2>4 DEF Updated
  <2> QED
    BY <2>1, <2>5
<1> QED
  BY <1>1, <1>2

\* What a packet does to a receiver of a connection, and what it is answered:
\* the end of the message only if it is complete.
LEMMA UpdateRTSCTSFacts ==
  ASSUME NEW r \in Receivers, NEW m \in Messages, NEW k \in Nat
  PROVE  /\ Updated(r, UpdateRTSCTS(r, m, k), m)
         /\ \/ AnswerTo(r, m, k) = <<>>
            \/ \E f \in Frames : /\ AnswerTo(r, m, k) = <<f>>
                                 /\ f = EndOfMsgAck => Complete(UpdateRTSCTS(r, m, k))
<1> DEFINE s == Stored(r, m, k)
           t == [s EXCEPT !.nextSeq = k + 1]
<1>1. CASE ~Accepts(r, m, k)
  BY <1>1 DEF UpdateRTSCTS, AnswerTo, Updated
<1>2. CASE Accepts(r, m, k)
  <2>1. SA[m] = SA[r.msg]
    BY <1>2 DEF Accepts
  <2>3. Updated(r, s, m)
    BY <2>1, StoredFacts
  <2> HIDE DEF s
  <2>4. s \in Receivers /\ k + 1 \in Nat
    BY <2>3 DEF Updated
  <2>6. t \in Receivers /\ t.msg = s.msg /\ t.got = s.got
    BY <2>4, NextSeqFacts
  <2> HIDE DEF t
  <2>7. Updated(r, t, m) /\ (Complete(t) <=> Complete(s))
    BY <2>3, <2>6 DEF Updated, Complete
  <2>8. CASE AsksMore(s, k)
    <3>1. s \in Incomplete
      BY <2>4, <2>8 DEF AsksMore, Incomplete
    <3>2. UpdateRTSCTS(r, m, k) = AfterResend(s)
      BY <1>2, <2>8 DEF UpdateRTSCTS, s
    <3>3. AnswerTo(r, m, k) = <<Resend(s)>>
      BY <1>2, <2>8, <3>1 DEF AnswerTo, s, Incomplete
    <3>4. /\ Resend(s) \in Frames /\ Resend(s) # EndOfMsgAck
          /\ AfterResend(s) \in Receivers /\ AfterResend(s).msg = s.msg /\ AfterResend(s).got = s.got
      BY <3>1, ResendFrame DEF Incomplete
    <3>5. Updated(r, AfterResend(s), m)
      BY <2>3, <3>4 DEF Updated
    <3> QED
      BY <3>2, <3>3, <3>4, <3>5
  <2>9. CASE ~AsksMore(s, k)
    <3>1. UpdateRTSCTS(r, m, k) = t
      BY <1>2, <2>9 DEF UpdateRTSCTS, s, t
    <3>2. AnswerTo(r, m, k) = IF Complete(s) THEN <<EndOfMsgAck>> ELSE <<>>
      BY <1>2, <2>9 DEF AnswerTo, s
    <3>3. EndOfMsgAck \in Frames
      BY DEF Frames
    <3> QED
      BY <2>7, <3>1, <3>2, <3>3
  <2> QED
    BY <2>8, <2>9
<1> QED
  BY <1>1, <1>2

LEMMA NewReceiverFacts ==
  ASSUME NEW m \in Messages
  PROVE  /\ NewReceiver(m) \in Incomplete /\ NewReceiver(m).msg = m
         /\ \A j \in 1 .. Packets[m] : NewReceiver(m).got[j] = None
<1> DEFINE r == NewReceiver(m)
           got == [k \in 1 .. Packets[m] |-> None]
<1>1. Packets[m] \in Nat \ {0} /\ Window[m] \in Nat \ {0}
  BY ReceiverAssumption
<1>2. r = [msg |-> m, got |-> got, nextSeq |-> 1, nextCTS |-> 1 + Window[m], retries |-> NumRetries,
           valid |-> TRUE, timer |-> TRUE]
  BY DEF NewReceiver
<1>3. got \in Slots(m) /\ \A j \in 1 .. Packets[m] : got[j] = None
  BY DEF Slots
<1> HIDE DEF r, got
<1>4. r \in Receivers
  <2>1. 1 \in Nat /\ 1 + Window[m] \in Nat /\ NumRetries \in 0 .. NumRetries /\ TRUE \in BOOLEAN
    BY <1>1 DEF NumRetries
  <2> QED
    BY <1>2, <1>3, <2>1, ReceiverMade
<1>5. r.msg = m /\ r.got = got
  BY <1>2
<1>6. 1 \in DOMAIN r.got /\ r.got[1] = None
  BY <1>1, <1>3, <1>4, <1>5, ReceiverFacts
<1>7. ~Complete(r)
  BY <1>6 DEF Complete
<1> QED
  BY <1>3, <1>4, <1>5, <1>7 DEF Incomplete, r

---------------------------------------------------------------------------
(***************************************************************************)
(* What most steps have in common.                                         *)
(***************************************************************************)
\* The receiver s is one there was, with packets of messages on their way.
Came(s) ==
  \E r \in Listed :
    /\ s.msg = r.msg
    /\ \A j \in 1 .. Packets[r.msg] :
         \/ s.got[j] = r.got[j]
         \/ \E m \in Messages : Open(m) /\ SA[m] = SA[r.msg] /\ s.got[j] = m

LEMMA CameItself ==
  ASSUME NEW r \in Listed
  PROVE  Came(r)
  BY DEF Came

LEMMA CameUpdated ==
  ASSUME TypeOK, NEW r \in Listed, NEW s, NEW m \in Messages, Open(m), Updated(r, s, m)
  PROVE  Came(s)
  BY DEF Came, Updated

LEMMA ListedTyped ==
  ASSUME TypeOK, NEW r \in Listed
  PROVE  r \in Receivers /\ ~Complete(r) /\ r \in Incomplete
  BY DEF TypeOK, Listed, Incomplete

LEMMA KeepOwn ==
  ASSUME TypeOK, Separate, Own, mixed' = mixed,
         \A n \in Messages : Open(n)' => Open(n),
         \A s \in Listed' : Came(s)
  PROVE  Separate' /\ Own'
<1>1. ASSUME NEW n \in Messages, Active(n)' PROVE Active(n)
  <2>1. Open(n)' => Open(n)
    OBVIOUS
  <2>2. Listens(n)' => Listens(n)
    BY DEF Listens, Came
  <2> QED
    BY <1>1, <2>1, <2>2 DEF Active
<1>2. Separate'
  BY <1>1 DEF Separate
<1>3. ASSUME NEW s \in Listed', s.msg \notin mixed', NEW j \in 1 .. Packets[s.msg]
      PROVE  s.got[j] \in {None, s.msg}
  <2>1. PICK r \in Listed :
          /\ s.msg = r.msg
          /\ \A i \in 1 .. Packets[r.msg] :
               \/ s.got[i] = r.got[i]
               \/ \E m \in Messages : Open(m) /\ SA[m] = SA[r.msg] /\ s.got[i] = m
    BY DEF Came
  <2>2. r.msg \in Messages /\ r.msg \notin mixed
    BY <1>3, <2>1, ListedTyped, ReceiverFacts
  <2>3. CASE s.got[j] = r.got[j]
    BY <2>1, <2>2, <2>3 DEF Own
  <2>4. ASSUME NEW m \in Messages, Open(m), SA[m] = SA[r.msg], s.got[j] = m
        PROVE  s.got[j] = s.msg
    <3>1. Active(m) /\ Active(r.msg)
      BY <2>4 DEF Active, Listens
    <3>2. m = r.msg
      BY <2>2, <2>4, <3>1 DEF Separate
    <3> QED
      BY <2>1, <2>4, <3>2
  <2> QED
    BY <2>1, <2>3, <2>4
<1>4. Own'
  BY <1>3 DEF Own
<1> QED
  BY <1>2, <1>4

LEMMA KeepIntact ==
  ASSUME Intact, mixed \subseteq mixed', delivered' = delivered
  PROVE  Intact'
  BY DEF Intact

\* The sender of m has been told, or is about to be, that it has arrived.
Acked(m) == peer[m].phase = "acked" \/ Contains(inbox[m], EndOfMsgAck)

LEMMA KeepAcked ==
  ASSUME AcknowledgedIsHandedOver, delivered \subseteq delivered', dropped \subseteq dropped',
         \A n \in Messages : Acked(n)' => Acked(n) \/ HandedOver(n)'
  PROVE  AcknowledgedIsHandedOver'
  BY DEF AcknowledgedIsHandedOver, Acked, HandedOver, Delivered

\* Frames behind, or taken from the front of, what a sender has yet to read.
LEMMA Behind ==
  ASSUME NEW q \in Seq(Frames), NEW f \in Frames
  PROVE  /\ Append(q, f) \in Seq(Frames)
         /\ Contains(Append(q, f), EndOfMsgAck) => Contains(q, EndOfMsgAck) \/ f = EndOfMsgAck
<1>1. /\ Len(q) \in Nat /\ Append(q, f) \in Seq(Frames) /\ Len(Append(q, f)) = Len(q) + 1
      /\ \A i \in 1 .. Len(q) : Append(q, f)[i] = q[i]
      /\ Append(q, f)[Len(q) + 1] = f
  BY AppendProperties, LenProperties
<1> DEFINE p == Append(q, f)
<1> HIDE DEF p
<1>2. ASSUME NEW i \in 1 .. Len(p), p[i] = EndOfMsgAck
      PROVE  Contains(q, EndOfMsgAck) \/ f = EndOfMsgAck
  BY <1>1, <1>2 DEF Contains, p
<1>3. Contains(p, EndOfMsgAck) => Contains(q, EndOfMsgAck) \/ f = EndOfMsgAck
  BY <1>2 DEF Contains
<1> QED
  BY <1>1, <1>3 DEF p

LEMMA BehindOne ==
  ASSUME NEW q \in Seq(Frames), NEW f \in Frames
  PROVE  q \o <<f>> = Append(q, f)
<1>1. <<f>> \in Seq(Frames) /\ Len(<<f>>) = 1 /\ <<f>>[1] = f
  OBVIOUS
<1>2. /\ q \o <<f>> \in Seq(Frames) /\ Len(q \o <<f>>) = Len(q) + 1
      /\ \A i \in 1 .. Len(q) : (q \o <<f>>)[i] = q[i]
      /\ (q \o <<f>>)[Len(q) + 1] = f
  BY <1>1, ConcatProperties, LenProperties
<1>3. /\ Len(q) \in Nat /\ Append(q, f) \in Seq(Frames) /\ Len(Append(q, f)) = Len(q) + 1
      /\ \A i \in 1 .. Len(q) : Append(q, f)[i] = q[i]
      /\ Append(q, f)[Len(q) + 1] = f
  BY AppendProperties, LenProperties
<1> DEFINE s == q \o <<f>>
           t == Append(q, f)
<1> HIDE DEF s, t
<1>4. \A i \in 1 .. Len(s) : s[i] = t[i]
  BY <1>2, <1>3 DEF s, t
<1>5. s \in Seq(Frames) /\ t \in Seq(Frames) /\ Len(s) = Len(t)
  BY <1>2, <1>3 DEF s, t
<1>6. s = t
  BY <1>4, <1>5, SeqEqual
<1> QED
  BY <1>6 DEF s, t

LEMMA TakenOff ==
  ASSUME NEW q \in Seq(Frames), q # <<>>
  PROVE  /\ Head(q) \in Frames /\ Tail(q) \in Seq(Frames)
         /\ Head(q) = EndOfMsgAck => Contains(q, EndOfMsgAck)
         /\ Contains(Tail(q), EndOfMsgAck) => Contains(q, EndOfMsgAck)
  BY HeadTailProperties, LenProperties DEF Contains

LEMMA FrameFacts ==
  ASSUME NEW f \in Frames
  PROVE  \/ f = EndOfMsgAck /\ f.type = "EOM"
         \/ f.type = "CTS" /\ f # EndOfMsgAck /\ f.next \in Nat \ {0} /\ f.n \in Nat \ {0}
<1>1. EndOfMsgAck.type = "EOM"
  BY DEF EndOfMsgAck
<1>2. CASE f = EndOfMsgAck
  BY <1>1, <1>2
<1>3. CASE f \in [type : {"CTS"}, next : Nat \ {0}, n : Nat \ {0}]
  BY <1>1, <1>3
<1> QED
  BY <1>2, <1>3 DEF Frames

LEMMA PeerFacts ==
  ASSUME TypeOK, NEW m \in Messages
  PROVE  /\ peer[m] \in [phase : Phases, next : Nat \ {0}, last : Nat]
         /\ peer[m].phase \in Phases /\ peer[m].next \in Nat \ {0} /\ peer[m].last \in Nat
         /\ Packets[m] \in Nat \ {0} /\ Window[m] \in Nat \ {0}
         /\ inbox[m] \in Seq(Frames)
  BY ReceiverAssumption DEF TypeOK

LEMMA FaultTyped ==
  ASSUME TypeOK, NEW m \in Messages, Fault(m)
  PROVE  faults' \in [Messages -> Nat] /\ room' \in Nat
  BY DEF TypeOK, Fault

\* The steps that leave the receivers and what was delivered alone.
LEMMA SendersOnly ==
  ASSUME Inv, UNCHANGED <<lists, clients, mixed>>,
         \A n \in Messages : Open(n)' => Open(n),
         \A n \in Messages : Acked(n)' => Acked(n)
  PROVE  (Separate /\ Own /\ Intact /\ AcknowledgedIsHandedOver)'
<1>1. Listed' = Listed
  BY DEF Listed, lists
<1>2. \A s \in Listed' : Came(s)
  BY <1>1, CameItself
<1> QED
  BY <1>2, KeepOwn, KeepIntact, KeepAcked DEF Inv, clients

---------------------------------------------------------------------------
(***************************************************************************)
(* One lemma for each step.                                                *)
(***************************************************************************)
LEMMA AnnounceKeeps ==
  ASSUME Inv, NEW m \in Messages, Announce(m)
  PROVE  Inv'
<1> USE DEF Inv, clients
<1>1. peer[m].phase = "unsent" /\ ~Open(m)
  BY DEF Announce, Open
<1>2. \A n \in Messages \ {m} : peer'[n] = peer[n]
  BY DEF Announce, TypeOK
<1>3. /\ peer' \in [Messages -> [phase : Phases, next : Nat \ {0}, last : Nat]]
      /\ peer'[m].phase \in {"sending", "waiting"}
  <2> DEFINE p == IF IsBAM[m] THEN [phase |-> "sending", next |-> 1, last |-> Packets[m]]
                  ELSE [phase |-> "waiting", next |-> 1, last |-> 0]
  <2>1. peer' = [peer EXCEPT ![m] = p]
    BY DEF Announce
  <2>2. p \in [phase : Phases, next : Nat \ {0}, last : Nat] /\ p.phase \in {"sending", "waiting"}
    BY PeerFacts DEF Phases
  <2> HIDE DEF p
  <2> QED
    BY <2>1, <2>2 DEF TypeOK
<1>4. mixed \subseteq mixed' /\ Overlap(m) \subseteq mixed' /\ (Overlap(m) # {} => m \in mixed')
      /\ mixed' \subseteq Messages
  BY DEF Announce, Overlap, SameSender, TypeOK
<1>5. /\ bam' \subseteq Incomplete /\ rts' \subseteq Incomplete
      /\ detached' = detached /\ UNCHANGED clients
      /\ \A r \in Listed' : r \in Listed \/ r = NewReceiver(m)
  BY NewReceiverFacts DEF Announce, ReceiveBAM, ReceiveRTS, lists, Listed, TypeOK
<1>6. inbox' = inbox \/ inbox' = [inbox EXCEPT ![m] = Append(@, CTS(1, Window[m]))]
  BY DEF Announce, ReceiveBAM, ReceiveRTS
<1>7. CTS(1, Window[m]) \in Frames /\ CTS(1, Window[m]) # EndOfMsgAck
  <2>1. Window[m] \in Nat \ {0}
    BY PeerFacts
  <2>2. CTS(1, Window[m]).type = "CTS" /\ EndOfMsgAck.type = "EOM"
    BY DEF CTS, EndOfMsgAck
  <2> QED
    BY <2>1, <2>2 DEF CTS, Frames
<1>8. /\ inbox' \in [Messages -> Seq(Frames)]
      /\ \A n \in Messages : Contains(inbox'[n], EndOfMsgAck) => Contains(inbox[n], EndOfMsgAck)
  <2>1. CASE inbox' = inbox
    BY <2>1 DEF TypeOK
  <2>2. CASE inbox' = [inbox EXCEPT ![m] = Append(@, CTS(1, Window[m]))]
    <3> DEFINE q == Append(inbox[m], CTS(1, Window[m]))
    <3>1. q \in Seq(Frames) /\ (Contains(q, EndOfMsgAck) => Contains(inbox[m], EndOfMsgAck))
      BY <1>7, PeerFacts, Behind
    <3>2. inbox' = [inbox EXCEPT ![m] = q]
      BY <2>2
    <3> HIDE DEF q
    <3> QED
      BY <3>1, <3>2 DEF TypeOK
  <2> QED
    BY <1>6, <2>1, <2>2
<1>9. faults' \in [Messages -> Nat] /\ room' \in Nat /\ claimed' = claimed /\ aborted' = aborted
  BY FaultTyped DEF Announce, TypeOK
<1>10. TypeOK'
  BY <1>3, <1>4, <1>5, <1>8, <1>9 DEF TypeOK
<1>11. \A n \in Messages \ {m} : Active(n)' => Active(n)
  BY <1>2, <1>5, NewReceiverFacts DEF Active, Open, Listens
<1>12. Separate'
  <2>1. ASSUME NEW a \in Messages, NEW b \in Messages, a # b, SA[a] = SA[b], Active(a)', Active(b)'
        PROVE  a \in mixed'
    <3>1. CASE a = m
      BY <1>4, <1>11, <2>1, <3>1 DEF Active, Overlap, SameSender
    <3>2. CASE b = m
      BY <1>4, <1>11, <2>1, <3>2 DEF Active, Overlap, SameSender
    <3>3. CASE a # m /\ b # m
      BY <1>4, <1>11, <2>1, <3>3 DEF Separate
    <3> QED
      BY <3>1, <3>2, <3>3
  <2> QED
    BY <2>1 DEF Separate
<1>13. Own'
  BY <1>4, <1>5, NewReceiverFacts DEF Own
<1>14. Intact'
  BY <1>4, <1>5, KeepIntact
<1>15. AcknowledgedIsHandedOver'
  <2>1. \A n \in Messages : peer'[n].phase = "acked" => peer[n].phase = "acked"
    BY <1>2, <1>3
  <2> QED
    BY <1>5, <1>8, <2>1, KeepAcked DEF Acked
<1> QED
  BY <1>10, <1>12, <1>13, <1>14, <1>15

\* The sender's own place in its message.
LEMMA AdvanceFacts ==
  ASSUME TypeOK, NEW m \in Messages, peer[m].phase = "sending",
         peer' = [peer EXCEPT ![m] = Advance(m)]
  PROVE  /\ peer' \in [Messages -> [phase : Phases, next : Nat \ {0}, last : Nat]]
         /\ \A n \in Messages : Open(n)' => Open(n)
         /\ \A n \in Messages : peer'[n].phase = "acked" => peer[n].phase = "acked"
<1> DEFINE p == Advance(m)
<1>1. p \in [phase : Phases, next : Nat \ {0}, last : Nat] /\ p.phase # "acked"
  BY PeerFacts DEF Advance, Phases
<1>2. peer' = [peer EXCEPT ![m] = p]
  OBVIOUS
<1> HIDE DEF p
<1> QED
  BY <1>1, <1>2 DEF TypeOK, Open

LEMMA LosePacketKeeps ==
  ASSUME Inv, NEW m \in Messages, LosePacket(m)
  PROVE  Inv'
<1> USE DEF Inv, clients
<1>1. /\ peer' \in [Messages -> [phase : Phases, next : Nat \ {0}, last : Nat]]
      /\ \A n \in Messages : Open(n)' => Open(n)
      /\ \A n \in Messages : peer'[n].phase = "acked" => peer[n].phase = "acked"
  BY AdvanceFacts DEF LosePacket
<1>2. TypeOK'
  BY <1>1, FaultTyped DEF LosePacket, TypeOK, lists
<1>3. (Separate /\ Own /\ Intact /\ AcknowledgedIsHandedOver)'
  BY <1>1, SendersOnly DEF LosePacket, Acked
<1> QED
  BY <1>2, <1>3

\* A frame is taken off what a sender has yet to read.
LEMMA InboxTail ==
  ASSUME TypeOK, NEW m \in Messages, inbox[m] # <<>>, inbox' = [inbox EXCEPT ![m] = Tail(@)]
  PROVE  /\ inbox' \in [Messages -> Seq(Frames)]
         /\ \A n \in Messages : Contains(inbox'[n], EndOfMsgAck) => Contains(inbox[n], EndOfMsgAck)
<1> DEFINE q == Tail(inbox[m])
<1>1. q \in Seq(Frames) /\ (Contains(q, EndOfMsgAck) => Contains(inbox[m], EndOfMsgAck))
  BY PeerFacts, TakenOff
<1>2. inbox' = [inbox EXCEPT ![m] = q]
  OBVIOUS
<1> HIDE DEF q
<1> QED
  BY <1>1, <1>2 DEF TypeOK

LEMMA HearKeeps ==
  ASSUME Inv, NEW m \in Messages, Hear(m)
  PROVE  Inv'
<1> USE DEF Inv, clients
<1> DEFINE f == Head(inbox[m])
           last == IF f.next + f.n - 1 < Packets[m] THEN f.next + f.n - 1 ELSE Packets[m]
<1>1. f \in Frames /\ inbox[m] # <<>> /\ (f = EndOfMsgAck => Contains(inbox[m], EndOfMsgAck))
  BY PeerFacts, TakenOff DEF Hear
<1>2. /\ inbox' \in [Messages -> Seq(Frames)]
      /\ \A n \in Messages : Contains(inbox'[n], EndOfMsgAck) => Contains(inbox[n], EndOfMsgAck)
  BY InboxTail DEF Hear
<1>3. peer' = IF peer[m].phase # "waiting" THEN peer
              ELSE IF f.type = "EOM" THEN [peer EXCEPT ![m].phase = "acked"]
              ELSE [peer EXCEPT ![m] = [phase |-> "sending", next |-> f.next, last |-> last]]
  BY DEF Hear
<1>4. /\ peer' \in [Messages -> [phase : Phases, next : Nat \ {0}, last : Nat]]
      /\ \A n \in Messages : Open(n)' => Open(n)
      /\ \A n \in Messages : Acked(n)' => Acked(n)
  <2>1. CASE peer[m].phase # "waiting"
    BY <1>2, <1>3, <2>1 DEF TypeOK, Open, Acked
  <2>2. CASE peer[m].phase = "waiting" /\ f.type = "EOM"
    <3>1. peer' = [peer EXCEPT ![m].phase = "acked"]
      BY <1>3, <2>2
    <3>2. Acked(m)
      BY <1>1, <2>2, FrameFacts DEF Acked
    <3>3. /\ peer' \in [Messages -> [phase : Phases, next : Nat \ {0}, last : Nat]]
          /\ peer'[m].phase = "acked" /\ \A n \in Messages \ {m} : peer'[n] = peer[n]
      BY <3>1, PeerFacts DEF TypeOK, Phases
    <3> QED
      BY <1>2, <3>2, <3>3 DEF Open, Acked
  <2>3. CASE peer[m].phase = "waiting" /\ f.type # "EOM"
    <3>1. peer' = [peer EXCEPT ![m] = [phase |-> "sending", next |-> f.next, last |-> last]]
      BY <1>3, <2>3
    <3>2. f.next \in Nat \ {0} /\ last \in Nat
      BY <1>1, <2>3, FrameFacts, PeerFacts
    <3> HIDE DEF last
    <3>3. /\ peer' \in [Messages -> [phase : Phases, next : Nat \ {0}, last : Nat]]
          /\ peer'[m].phase = "sending" /\ \A n \in Messages \ {m} : peer'[n] = peer[n]
      BY <3>1, <3>2 DEF TypeOK, Phases
    <3>4. Open(m)
      BY <2>3 DEF Open
    <3> QED
      BY <1>2, <3>3, <3>4 DEF Open, Acked
  <2> QED
    BY <2>1, <2>2, <2>3
<1>5. UNCHANGED <<lists, claimed, clients, ghosts>>
  BY DEF Hear
<1> HIDE DEF f, last
<1>6. TypeOK'
  BY <1>2, <1>4, <1>5 DEF TypeOK, lists, ghosts
<1>7. (Separate /\ Own /\ Intact /\ AcknowledgedIsHandedOver)'
  BY <1>4, <1>5, SendersOnly DEF ghosts
<1> QED
  BY <1>6, <1>7

LEMMA LoseAnswerKeeps ==
  ASSUME Inv, NEW m \in Messages, LoseAnswer(m)
  PROVE  Inv'
<1> USE DEF Inv, clients
<1>1. /\ inbox' \in [Messages -> Seq(Frames)]
      /\ \A n \in Messages : Contains(inbox'[n], EndOfMsgAck) => Contains(inbox[n], EndOfMsgAck)
  BY InboxTail DEF LoseAnswer
<1>2. TypeOK'
  BY <1>1, FaultTyped DEF LoseAnswer, TypeOK, lists
<1>3. (Separate /\ Own /\ Intact /\ AcknowledgedIsHandedOver)'
  BY <1>1, SendersOnly DEF LoseAnswer, Acked, Open
<1> QED
  BY <1>2, <1>3

\* A sender that gives up.
LEMMA ClosedFacts ==
  ASSUME TypeOK, NEW m \in Messages, peer' = [peer EXCEPT ![m].phase = "closed"]
  PROVE  /\ peer' \in [Messages -> [phase : Phases, next : Nat \ {0}, last : Nat]]
         /\ \A n \in Messages : Open(n)' => Open(n)
         /\ \A n \in Messages : peer'[n].phase = "acked" => peer[n].phase = "acked"
<1>1. /\ peer' \in [Messages -> [phase : Phases, next : Nat \ {0}, last : Nat]]
      /\ peer'[m].phase = "closed" /\ \A n \in Messages \ {m} : peer'[n] = peer[n]
  BY PeerFacts DEF TypeOK, Phases
<1> QED
  BY <1>1 DEF Open

LEMMA GiveUpKeeps ==
  ASSUME Inv, NEW m \in Messages, GiveUp(m)
  PROVE  Inv'
<1> USE DEF Inv, clients
<1>1. /\ peer' \in [Messages -> [phase : Phases, next : Nat \ {0}, last : Nat]]
      /\ \A n \in Messages : Open(n)' => Open(n)
      /\ \A n \in Messages : peer'[n].phase = "acked" => peer[n].phase = "acked"
  BY ClosedFacts DEF GiveUp
<1>2. TypeOK'
  BY <1>1 DEF GiveUp, TypeOK, lists, ghosts
<1>3. (Separate /\ Own /\ Intact /\ AcknowledgedIsHandedOver)'
  BY <1>1, SendersOnly DEF GiveUp, Acked, ghosts
<1> QED
  BY <1>2, <1>3

LEMMA OwnUpdated ==
  ASSUME TypeOK, Separate, Own, NEW r \in Listed, NEW s, NEW m \in Messages, Open(m),
         Updated(r, s, m), s.msg \notin mixed
  PROVE  \A j \in 1 .. Packets[s.msg] : s.got[j] \in {None, s.msg}
<1>1. s.msg = r.msg /\ r.msg \in Messages
  BY ListedTyped, ReceiverFacts DEF Updated
<1>2. ASSUME NEW j \in 1 .. Packets[s.msg] PROVE s.got[j] \in {None, s.msg}
  <2>1. s.got[j] = r.got[j] \/ (s.got[j] = m /\ SA[m] = SA[r.msg])
    BY <1>1 DEF Updated
  <2>2. r.got[j] \in {None, r.msg}
    BY <1>1 DEF Own
  <2>3. CASE s.got[j] = m /\ SA[m] = SA[r.msg]
    <3>1. Active(m) /\ Active(r.msg)
      BY DEF Active, Listens
    <3>2. m = r.msg
      BY <1>1, <2>3, <3>1 DEF Separate
    <3> QED
      BY <1>1, <2>3, <3>2
  <2> QED
    BY <1>1, <2>1, <2>2, <2>3
<1> QED
  BY <1>2

\* A packet that arrives: the receivers it completes hold their own message.
LEMMA SendPacketKeeps ==
  ASSUME Inv, NEW m \in Messages, SendPacket(m)
  PROVE  Inv'
<1> USE DEF Inv, clients
<1> DEFINE k == peer[m].next
           newBam == {UpdateBAM(r, m, k) : r \in bam}
           newRts == {UpdateRTSCTS(r, m, k) : r \in rts}
           done   == {r \in newBam \cup newRts : Complete(r)}
<1>0. PICK taken \in SUBSET done :
        /\ delivered' = delivered \cup {[msg |-> r.msg, got |-> r.got] : r \in taken}
        /\ dropped' = dropped \cup {r.msg : r \in done \ taken}
  BY DEF SendPacket, ReceiveDT, ClientJ1939ReadMsg
<1> DEFINE held == {[msg |-> r.msg, got |-> r.got] : r \in taken}
           gone == {r.msg : r \in done \ taken}
<1>1. k \in Nat /\ Open(m) /\ peer[m].phase = "sending"
  BY PeerFacts DEF SendPacket, Open
<1>2. /\ bam' = {r \in newBam : Stays(r)}
      /\ rts' = {r \in newRts : Stays(r)}
      /\ detached' = detached \cup {r \in newRts : ~Complete(r) /\ ~r.valid /\ r.timer}
      /\ delivered' = delivered \cup held /\ dropped' = dropped \cup gone
      /\ inbox' = [n \in Messages |->
                    IF \E r \in rts : r.msg = n
                      THEN inbox[n] \o AnswerTo(ReceiverOf(n), m, k)
                      ELSE inbox[n]]
      /\ UNCHANGED <<claimed, ghosts>>
  BY <1>0 DEF SendPacket, ReceiveDT
<1>3. /\ peer' \in [Messages -> [phase : Phases, next : Nat \ {0}, last : Nat]]
      /\ \A n \in Messages : Open(n)' => Open(n)
      /\ \A n \in Messages : peer'[n].phase = "acked" => peer[n].phase = "acked"
  BY AdvanceFacts DEF SendPacket
<1> HIDE DEF k
<1>4. \A r \in bam : r \in Receivers /\ Updated(r, UpdateBAM(r, m, k), m)
  BY <1>1, ListedTyped, UpdateBAMFacts DEF Listed
<1>5. \A r \in rts : /\ r \in Receivers
                     /\ Updated(r, UpdateRTSCTS(r, m, k), m)
                     /\ \/ AnswerTo(r, m, k) = <<>>
                        \/ \E f \in Frames : /\ AnswerTo(r, m, k) = <<f>>
                                             /\ f = EndOfMsgAck => Complete(UpdateRTSCTS(r, m, k))
  BY <1>1, ListedTyped, UpdateRTSCTSFacts DEF Listed
<1>6. \A s \in newBam \cup newRts : s \in Receivers /\ \E r \in Listed : Updated(r, s, m)
  BY <1>4, <1>5 DEF Listed, Updated
<1>7. \A s \in Listed' : Came(s)
  <2>1. \A s \in Listed' : s \in newBam \cup newRts
    BY <1>2 DEF Listed
  <2> HIDE DEF newBam, newRts
  <2> QED
    BY <1>1, <1>6, <2>1, CameUpdated
<1>8. Separate' /\ Own'
  <2>1. mixed' = mixed
    BY <1>2 DEF ghosts
  <2> QED
    BY <1>3, <1>7, <2>1, KeepOwn
<1>9. \A d \in held : \E s \in done : d = [msg |-> s.msg, got |-> s.got]
  OBVIOUS
<1>10. \A s \in done : s \in Receivers /\ Complete(s) /\ \E r \in Listed : Updated(r, s, m)
  BY <1>6
<1>11. ASSUME NEW r \in rts, Complete(UpdateRTSCTS(r, m, k))
       PROVE  r.msg \in gone \/ \E d \in held : d.msg = r.msg
  <2> DEFINE u == UpdateRTSCTS(r, m, k)
  <2>1. u \in done
    BY <1>11
  <2>2. u.msg = r.msg
    BY <1>5 DEF Updated
  <2>3. u.msg \in gone \/ [msg |-> u.msg, got |-> u.got] \in held
    BY <2>1
  <2> HIDE DEF u, held, gone
  <2> QED
    BY <2>2, <2>3
<1>12. /\ bam' \subseteq Incomplete /\ rts' \subseteq Incomplete /\ detached' \subseteq Incomplete
  <2>1. \A s \in newBam \cup newRts : s \in Receivers
    BY <1>6
  <2> HIDE DEF newBam, newRts
  <2> QED
    BY <1>2, <2>1 DEF Incomplete, Stays, TypeOK
<1> HIDE DEF newBam, newRts, done, held, gone
<1>13. Intact'
  <2>1. ASSUME NEW d \in held, d.msg \notin mixed', NEW j \in DOMAIN d.got
        PROVE  d.got[j] = d.msg
    <3>1. PICK s \in done : d = [msg |-> s.msg, got |-> s.got]
      BY <1>9
    <3>2. s \in Receivers /\ Complete(s) /\ d.msg = s.msg /\ d.got = s.got
      BY <1>10, <3>1
    <3>3. PICK r \in Listed : Updated(r, s, m)
      BY <1>10
    <3>4. s.msg \notin mixed
      BY <1>2, <2>1, <3>2 DEF ghosts
    <3>5. j \in DOMAIN s.got /\ DOMAIN s.got = 1 .. Packets[s.msg]
      BY <2>1, <3>2, ReceiverFacts
    <3>6. s.got[j] \in {None, s.msg}
      BY <1>1, <3>3, <3>4, <3>5, OwnUpdated
    <3>7. s.got[j] # None
      BY <3>2, <3>5 DEF Complete
    <3> QED
      BY <3>2, <3>6, <3>7
  <2>2. \A d \in delivered' : d \in delivered \/ d \in held
    BY <1>2
  <2>3. mixed' = mixed
    BY <1>2 DEF ghosts
  <2> QED
    BY <2>1, <2>2, <2>3 DEF Intact
<1>14. ASSUME NEW n \in Messages
       PROVE  /\ inbox'[n] \in Seq(Frames)
              /\ Contains(inbox'[n], EndOfMsgAck) => Contains(inbox[n], EndOfMsgAck) \/ HandedOver(n)'
  <2>1. inbox[n] \in Seq(Frames)
    BY PeerFacts
  <2>2. CASE ~\E r \in rts : r.msg = n
    BY <1>2, <2>1, <2>2
  <2>3. CASE \E r \in rts : r.msg = n
    <3> DEFINE r == ReceiverOf(n)
               a == AnswerTo(r, m, k)
    <3>1. r \in rts /\ r.msg = n
      BY <2>3 DEF ReceiverOf
    <3>2. inbox'[n] = inbox[n] \o a
      BY <1>2, <2>3
    <3>3. \/ a = <<>>
          \/ \E f \in Frames : a = <<f>> /\ (f = EndOfMsgAck => Complete(UpdateRTSCTS(r, m, k)))
      BY <1>5, <3>1
    <3> HIDE DEF r
    <3>4. Complete(UpdateRTSCTS(r, m, k)) => HandedOver(n)'
      BY <1>2, <1>11, <3>1 DEF HandedOver, Delivered
    <3> HIDE DEF a
    <3>5. CASE a = <<>>
      <4>1. inbox[n] \o <<>> = inbox[n]
        BY <2>1
      <4> QED
        BY <2>1, <3>2, <3>5, <4>1
    <3>6. CASE \E f \in Frames : a = <<f>> /\ (f = EndOfMsgAck => Complete(UpdateRTSCTS(r, m, k)))
      <4>1. PICK f \in Frames : a = <<f>> /\ (f = EndOfMsgAck => Complete(UpdateRTSCTS(r, m, k)))
        BY <3>6
      <4>2. inbox'[n] = Append(inbox[n], f)
        BY <2>1, <3>2, <4>1, BehindOne
      <4> QED
        BY <2>1, <3>4, <4>1, <4>2, Behind
    <3> QED
      BY <3>3, <3>5, <3>6
  <2> QED
    BY <2>2, <2>3
<1>15. inbox' \in [Messages -> Seq(Frames)]
  <2> DEFINE Read(n) == IF \E r \in rts : r.msg = n
                          THEN inbox[n] \o AnswerTo(ReceiverOf(n), m, k)
                          ELSE inbox[n]
  <2>1. inbox' = [n \in Messages |-> Read(n)]
    BY <1>2
  <2> HIDE DEF Read
  <2> QED
    BY <1>14, <2>1
<1>16. AcknowledgedIsHandedOver'
  BY <1>2, <1>3, <1>14, KeepAcked DEF Acked
<1>17. /\ delivered' \subseteq {[msg |-> r.msg, got |-> r.got] : r \in Receivers}
       /\ dropped' \subseteq Messages
  <2>1. \A x \in gone : \E r \in done : x = r.msg
    BY DEF gone
  <2>2. gone \subseteq Messages
    BY <1>10, <2>1, ReceiverFacts
  <2> QED
    BY <1>2, <1>9, <1>10, <2>2 DEF TypeOK
<1>18. TypeOK'
  BY <1>2, <1>3, <1>12, <1>15, <1>17 DEF TypeOK, ghosts
<1> QED
  BY <1>8, <1>13, <1>16, <1>18

\* Receivers that no longer count keep what they hold.
LEMMA InvalidFacts ==
  ASSUME NEW r \in Incomplete
  PROVE  LET s == [r EXCEPT !.valid = FALSE]
         IN s \in Incomplete /\ s.msg = r.msg /\ s.got = r.got
<1> DEFINE w == [msg |-> r.msg, got |-> r.got, nextSeq |-> r.nextSeq, nextCTS |-> r.nextCTS,
                 retries |-> r.retries, valid |-> r.valid, timer |-> r.timer]
           s == [r EXCEPT !.valid = FALSE]
<1>1. r \in Receivers /\ ~Complete(r)
  BY DEF Incomplete
<1>2. s = [msg |-> r.msg, got |-> r.got, nextSeq |-> r.nextSeq, nextCTS |-> r.nextCTS,
           retries |-> r.retries, valid |-> FALSE, timer |-> r.timer]
  <2>1. r = w
    BY <1>1, ReceiverFacts
  <2>2. s = [w EXCEPT !.valid = FALSE]
    BY <2>1
  <2> HIDE DEF s
  <2> QED
    BY <2>2
<1> HIDE DEF s
<1>3. s \in Receivers
  <2>1. FALSE \in BOOLEAN
    OBVIOUS
  <2> QED
    BY <1>1, <1>2, <2>1, ReceiverFacts, ReceiverMade
<1>4. s.msg = r.msg /\ s.got = r.got
  BY <1>2
<1>5. s \in Incomplete
  BY <1>1, <1>3, <1>4 DEF Incomplete, Complete
<1> QED
  BY <1>4, <1>5 DEF s

LEMMA TimerFacts ==
  ASSUME NEW r \in Incomplete
  PROVE  LET s == [r EXCEPT !.timer = FALSE]
         IN s \in Incomplete /\ s.msg = r.msg /\ s.got = r.got
<1> DEFINE w == [msg |-> r.msg, got |-> r.got, nextSeq |-> r.nextSeq, nextCTS |-> r.nextCTS,
                 retries |-> r.retries, valid |-> r.valid, timer |-> r.timer]
           s == [r EXCEPT !.timer = FALSE]
<1>1. r \in Receivers /\ ~Complete(r)
  BY DEF Incomplete
<1>2. s = [msg |-> r.msg, got |-> r.got, nextSeq |-> r.nextSeq, nextCTS |-> r.nextCTS,
           retries |-> r.retries, valid |-> r.valid, timer |-> FALSE]
  <2>1. r = w
    BY <1>1, ReceiverFacts
  <2>2. s = [w EXCEPT !.timer = FALSE]
    BY <2>1
  <2> HIDE DEF s
  <2> QED
    BY <2>2
<1> HIDE DEF s
<1>3. s \in Receivers
  <2>1. FALSE \in BOOLEAN
    OBVIOUS
  <2> QED
    BY <1>1, <1>2, <2>1, ReceiverFacts, ReceiverMade
<1>4. s.msg = r.msg /\ s.got = r.got
  BY <1>2
<1>5. s \in Incomplete
  BY <1>1, <1>3, <1>4 DEF Incomplete, Complete
<1> QED
  BY <1>4, <1>5 DEF s

LEMMA StoppedFacts ==
  ASSUME NEW r \in Incomplete
  PROVE  LET s == [r EXCEPT !.valid = FALSE, !.timer = FALSE]
         IN s \in Incomplete /\ s.msg = r.msg /\ s.got = r.got
<1> DEFINE u == [r EXCEPT !.valid = FALSE]
           s == [r EXCEPT !.valid = FALSE, !.timer = FALSE]
<1>1. u \in Incomplete /\ u.msg = r.msg /\ u.got = r.got
  BY InvalidFacts
<1>2. s = [u EXCEPT !.timer = FALSE]
  OBVIOUS
<1> HIDE DEF u, s
<1>3. s \in Incomplete /\ s.msg = u.msg /\ s.got = u.got
  BY <1>1, <1>2, TimerFacts
<1> QED
  BY <1>1, <1>3 DEF s

\* The connections to an address, when they no longer count.
LEMMA InvalidatedFacts ==
  ASSUME TypeOK, NEW a
  PROVE  /\ Invalidated(a) \subseteq Incomplete
         /\ \A s \in Invalidated(a) : \E r \in rts : s.msg = r.msg /\ s.got = r.got
<1> DEFINE New(r) == IF DA[r.msg] = a THEN [r EXCEPT !.valid = FALSE] ELSE r
<1>1. ASSUME NEW r \in rts
      PROVE  New(r) \in Incomplete /\ New(r).msg = r.msg /\ New(r).got = r.got
  <2>1. r \in Incomplete
    BY DEF TypeOK
  <2> QED
    BY <2>1, InvalidFacts
<1> HIDE DEF New
<1>2. Invalidated(a) = {New(r) : r \in rts}
  BY DEF Invalidated, New
<1> QED
  BY <1>1, <1>2

\* A step that changes no receiver's message or packets and delivers nothing.
LEMMA SamePackets ==
  ASSUME Inv, UNCHANGED <<clients, mixed>>,
         \A s \in Listed' : \E r \in Listed : s.msg = r.msg /\ s.got = r.got,
         \A n \in Messages : Open(n)' => Open(n),
         \A n \in Messages : Acked(n)' => Acked(n)
  PROVE  (Separate /\ Own /\ Intact /\ AcknowledgedIsHandedOver)'
<1>1. \A s \in Listed' : Came(s)
  BY DEF Came
<1> QED
  BY <1>1, KeepOwn, KeepIntact, KeepAcked DEF Inv, clients

LEMMA AbortKeeps ==
  ASSUME Inv, NEW m \in Messages, Abort(m)
  PROVE  Inv'
<1> USE DEF Inv, clients
<1>1. /\ peer' \in [Messages -> [phase : Phases, next : Nat \ {0}, last : Nat]]
      /\ \A n \in Messages : Open(n)' => Open(n)
      /\ \A n \in Messages : peer'[n].phase = "acked" => peer[n].phase = "acked"
  BY ClosedFacts DEF Abort
<1>2. /\ bam' \subseteq bam
      /\ rts' = rts \/ rts' = Invalidated(DA[m])
      /\ aborted' \subseteq aborted \cup {m} \cup {r.msg : r \in Listed}
      /\ UNCHANGED <<detached, clients, inbox, claimed, mixed>>
  BY DEF Abort, ReceiveAbort, Listed
<1>3. \A r \in Listed : r.msg \in Messages
  BY ListedTyped, ReceiverFacts
<1>4. faults' \in [Messages -> Nat] /\ room' \in Nat
  BY FaultTyped DEF Abort, TypeOK
<1>5. TypeOK'
  <2>1. bam' \subseteq Incomplete /\ rts' \subseteq Incomplete
    BY <1>2, InvalidatedFacts DEF TypeOK
  <2>2. aborted' \subseteq Messages
    <3> DEFINE ended == {r.msg : r \in Listed}
    <3>1. ended \subseteq Messages /\ aborted' \subseteq aborted \cup {m} \cup ended
      BY <1>2, <1>3
    <3> HIDE DEF ended
    <3> QED
      BY <3>1 DEF TypeOK
  <2> QED
    BY <1>1, <1>2, <1>4, <2>1, <2>2 DEF TypeOK
<1>6. \A s \in Listed' : \E r \in Listed : s.msg = r.msg /\ s.got = r.got
  BY <1>2, InvalidatedFacts DEF Listed
<1>7. (Separate /\ Own /\ Intact /\ AcknowledgedIsHandedOver)'
  BY <1>1, <1>2, <1>6, SamePackets DEF Acked
<1> QED
  BY <1>5, <1>7

LEMMA LoseClaimKeeps ==
  ASSUME Inv, NEW a \in Addresses, LoseClaim(a)
  PROVE  Inv'
<1> USE DEF Inv, clients
<1>1. /\ rts' = Invalidated(a)
      /\ UNCHANGED <<bam, detached, clients, peer, inbox, faults, room, mixed>>
      /\ claimed' \subseteq claimed
      /\ aborted' \subseteq aborted \cup Messages
  BY DEF LoseClaim
<1>2. TypeOK'
  BY <1>1, InvalidatedFacts DEF TypeOK
<1>3. \A s \in Listed' : \E r \in Listed : s.msg = r.msg /\ s.got = r.got
  BY <1>1, InvalidatedFacts DEF Listed
<1>4. (Separate /\ Own /\ Intact /\ AcknowledgedIsHandedOver)'
  BY <1>1, <1>3, SamePackets DEF Acked, Open
<1> QED
  BY <1>2, <1>4

LEMMA DisconnectKeeps ==
  ASSUME Inv, NEW a \in Addresses, Disconnect(a)
  PROVE  Inv'
<1> USE DEF Inv, clients
<1>1. UNCHANGED <<lists, clients, peer, inbox, ghosts>> /\ claimed' \subseteq claimed
  BY DEF Disconnect
<1>2. TypeOK'
  BY <1>1 DEF TypeOK, lists, ghosts
<1>3. (Separate /\ Own /\ Intact /\ AcknowledgedIsHandedOver)'
  BY <1>1, SendersOnly DEF Acked, Open, ghosts
<1> QED
  BY <1>2, <1>3

LEMMA TimeOutBAMKeeps ==
  ASSUME Inv, NEW r \in bam, TimeOutBAM(r)
  PROVE  Inv'
<1> USE DEF Inv, clients
<1> DEFINE s == [r EXCEPT !.valid = FALSE, !.timer = FALSE]
<1>1. r \in Incomplete /\ r.msg \in Messages
  BY ReceiverFacts DEF TypeOK, Incomplete
<1>2. s \in Incomplete /\ s.msg = r.msg /\ s.got = r.got
  BY <1>1, StoppedFacts
<1>3. /\ bam' = (bam \ {r}) \cup {s}
      /\ UNCHANGED <<rts, detached, claimed, clients, peer, inbox, mixed, aborted>>
  BY DEF TimeOutBAM
<1> HIDE DEF s
<1>4. faults' \in [Messages -> Nat] /\ room' \in Nat
  BY <1>1, FaultTyped DEF TimeOutBAM, LateUnlessQuiet, TypeOK
<1>5. TypeOK'
  BY <1>2, <1>3, <1>4 DEF TypeOK
<1>6. \A x \in Listed' : \E y \in Listed : x.msg = y.msg /\ x.got = y.got
  BY <1>2, <1>3 DEF Listed
<1>7. (Separate /\ Own /\ Intact /\ AcknowledgedIsHandedOver)'
  BY <1>3, <1>6, SamePackets DEF Acked, Open
<1> QED
  BY <1>5, <1>7

LEMMA AfterTimeOutFacts ==
  ASSUME NEW r \in Incomplete
  PROVE  AfterTimeOut(r) \in Incomplete /\ AfterTimeOut(r).msg = r.msg /\ AfterTimeOut(r).got = r.got
<1>1. CASE ~(r.retries > 0)
  BY <1>1, StoppedFacts DEF AfterTimeOut
<1>2. CASE r.retries > 0
  <2> DEFINE u == AfterResend(r)
             s == [u EXCEPT !.retries = @ - 1]
  <2>1. u \in Incomplete /\ u.msg = r.msg /\ u.got = r.got /\ u.retries = r.retries
    BY ResendFrame
  <2>2. AfterTimeOut(r) = s
    BY <1>2 DEF AfterTimeOut
  <2> HIDE DEF u
  <2>3. u \in Receivers /\ ~Complete(u)
    BY <2>1 DEF Incomplete
  <2>4. s = [msg |-> u.msg, got |-> u.got, nextSeq |-> u.nextSeq, nextCTS |-> u.nextCTS,
             retries |-> u.retries - 1, valid |-> u.valid, timer |-> u.timer]
    BY <2>3, ReceiverFacts
  <2> HIDE DEF s
  <2>5. u.retries - 1 \in 0 .. NumRetries
    BY <1>2, <2>1, <2>3, ReceiverFacts DEF NumRetries
  <2>6. s \in Receivers
    BY <2>3, <2>4, <2>5, ReceiverFacts, ReceiverMade
  <2>7. s.msg = u.msg /\ s.got = u.got
    BY <2>4
  <2>8. s \in Incomplete
    BY <2>3, <2>6, <2>7 DEF Incomplete, Complete
  <2> QED
    BY <2>1, <2>2, <2>7, <2>8
<1> QED
  BY <1>1, <1>2

\* A repeated CTS among the frames for the sender.
LEMMA AskAgainFacts ==
  ASSUME TypeOK, NEW r \in Incomplete, AskAgain(r)
  PROVE  /\ inbox' \in [Messages -> Seq(Frames)]
         /\ \A n \in Messages : Contains(inbox'[n], EndOfMsgAck) => Contains(inbox[n], EndOfMsgAck)
<1>1. CASE inbox' = inbox
  BY <1>1 DEF TypeOK
<1>2. CASE inbox' = [inbox EXCEPT ![r.msg] = Append(@, Resend(r))]
  <2> DEFINE q == Append(inbox[r.msg], Resend(r))
  <2>1. r.msg \in Messages
    BY ReceiverFacts DEF Incomplete
  <2>2. q \in Seq(Frames) /\ (Contains(q, EndOfMsgAck) => Contains(inbox[r.msg], EndOfMsgAck))
    BY <2>1, ResendFrame, PeerFacts, Behind
  <2>3. inbox' = [inbox EXCEPT ![r.msg] = q]
    BY <1>2
  <2> HIDE DEF q
  <2> QED
    BY <2>1, <2>2, <2>3 DEF TypeOK
<1> QED
  BY <1>1, <1>2 DEF AskAgain

LEMMA TimeOutRTSCTSKeeps ==
  ASSUME Inv, NEW r \in rts, TimeOutRTSCTS(r)
  PROVE  Inv'
<1> USE DEF Inv, clients
<1>1. r \in Incomplete /\ r.msg \in Messages
  BY ReceiverFacts DEF TypeOK, Incomplete
<1> DEFINE s == AfterTimeOut(r)
<1>2. s \in Incomplete /\ s.msg = r.msg /\ s.got = r.got
  BY <1>1, AfterTimeOutFacts
<1>3. /\ rts' = (rts \ {r}) \cup {s}
      /\ AskAgain(r)
      /\ UNCHANGED <<bam, detached, claimed, clients, peer, mixed, aborted>>
  BY DEF TimeOutRTSCTS
<1> HIDE DEF s
<1>4. faults' \in [Messages -> Nat] /\ room' \in Nat
  BY <1>1, FaultTyped DEF TimeOutRTSCTS, LateUnlessQuiet, TypeOK
<1>5. TypeOK'
  BY <1>1, <1>2, <1>3, <1>4, AskAgainFacts DEF TypeOK
<1>6. \A x \in Listed' : \E y \in Listed : x.msg = y.msg /\ x.got = y.got
  BY <1>2, <1>3 DEF Listed
<1>7. (Separate /\ Own /\ Intact /\ AcknowledgedIsHandedOver)'
  BY <1>1, <1>3, <1>6, AskAgainFacts, SamePackets DEF Acked, Open
<1> QED
  BY <1>5, <1>7

LEMMA TimeOutDetachedKeeps ==
  ASSUME Inv, NEW r \in detached, TimeOutDetached(r)
  PROVE  Inv'
<1> USE DEF Inv, clients
<1>1. r \in Incomplete /\ r.msg \in Messages
  BY ReceiverFacts DEF TypeOK, Incomplete
<1>2. AfterTimeOut(r) \in Incomplete
  BY <1>1, AfterTimeOutFacts
<1>3. /\ detached' \subseteq detached \cup {AfterTimeOut(r)}
      /\ AskAgain(r)
      /\ UNCHANGED <<bam, rts, claimed, clients, peer, mixed, aborted>>
  BY DEF TimeOutDetached
<1>4. faults' \in [Messages -> Nat] /\ room' \in Nat
  BY <1>1, FaultTyped DEF TimeOutDetached, LateUnlessQuiet, TypeOK
<1>5. TypeOK'
  BY <1>1, <1>2, <1>3, <1>4, AskAgainFacts DEF TypeOK
<1>6. \A x \in Listed' : \E y \in Listed : x.msg = y.msg /\ x.got = y.got
  BY <1>3 DEF Listed
<1>7. (Separate /\ Own /\ Intact /\ AcknowledgedIsHandedOver)'
  BY <1>1, <1>3, <1>6, AskAgainFacts, SamePackets DEF Acked, Open
<1> QED
  BY <1>5, <1>7

---------------------------------------------------------------------------
LEMMA InitInv == Init => Inv
<1> SUFFICES ASSUME Init PROVE Inv
  OBVIOUS
<1>1. \A m \in Messages : inbox[m] = <<>> /\ peer[m].phase = "unsent"
  BY DEF Init
<1>2. TypeOK
  <2>1. peer \in [Messages -> [phase : Phases, next : Nat \ {0}, last : Nat]]
    BY DEF Init, Phases
  <2>2. inbox \in [Messages -> Seq(Frames)]
    <3>1. <<>> \in Seq(Frames)
      OBVIOUS
    <3> QED
      BY <3>1 DEF Init
  <2>3. faults \in [Messages -> Nat] /\ room \in Nat
    BY ReceiverAssumption DEF Init
  <2> QED
    BY <2>1, <2>2, <2>3 DEF Init, TypeOK
<1>3. Separate /\ Own /\ Intact
  BY <1>1 DEF Init, Separate, Own, Intact, Active, Open, Listens, Listed
<1>4. AcknowledgedIsHandedOver
  BY <1>1 DEF AcknowledgedIsHandedOver, Contains
<1> QED
  BY <1>2, <1>3, <1>4 DEF Inv

LEMMA NextInv == Inv /\ [Next]_vars => Inv'
<1> SUFFICES ASSUME Inv, [Next]_vars PROVE Inv'
  OBVIOUS
<1>1. CASE UNCHANGED vars
  BY <1>1 DEF Inv, vars, lists, clients, ghosts, TypeOK, Separate, Own, Intact, AcknowledgedIsHandedOver,
              Active, Open, Listens, Listed, HandedOver, Delivered
<1>2. ASSUME NEW m \in Messages,
             Announce(m) \/ SendPacket(m) \/ LosePacket(m) \/ Hear(m) \/ LoseAnswer(m)
               \/ GiveUp(m) \/ Abort(m)
      PROVE  Inv'
  BY <1>2, AnnounceKeeps, SendPacketKeeps, LosePacketKeeps, HearKeeps, LoseAnswerKeeps,
     GiveUpKeeps, AbortKeeps
<1>3. ASSUME NEW a \in Addresses, LoseClaim(a) \/ Disconnect(a) PROVE Inv'
  BY <1>3, LoseClaimKeeps, DisconnectKeeps
<1>4. CASE TimeOut
  BY <1>4, TimeOutBAMKeeps, TimeOutRTSCTSKeeps, TimeOutDetachedKeeps DEF TimeOut
<1> QED
  BY <1>1, <1>2, <1>3, <1>4 DEF Next

LEMMA Invariance == Spec => []Inv
  BY InitInv, NextInv, PTL DEF Spec

\* The receivers, the frames on their way and the states of the senders are what
\* the declarations say, and no receiver in the list is complete: whoever holds
\* the last packet is handed over and taken out in the step that brings it.
THEOREM TypeCorrect == Spec => []TypeOK
<1>1. Inv => TypeOK
  BY DEF Inv
<1> QED
  BY <1>1, Invariance, PTL

\* A client gets each message as it was sent, unless it overlapped another one of
\* its sender.
THEOREM DeliveredIntact == Spec => []Intact
<1>1. Inv => Intact
  BY DEF Inv
<1> QED
  BY <1>1, Invariance, PTL

\* A sender is told that its message has arrived only once the driver has put all
\* of it together and handed it over, whatever is lost, late or aborted and
\* whoever goes; whether the client took it is not known to the sender.
THEOREM ToldWhenHandedOver == Spec => []AcknowledgedIsHandedOver
<1>1. Inv => AcknowledgedIsHandedOver
  BY DEF Inv
<1> QED
  BY <1>1, Invariance, PTL
=============================================================================
