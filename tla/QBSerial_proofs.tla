--------------------------- MODULE QBSerial_proofs ---------------------------
(***************************************************************************)
(* Theorems about the driver's side of a serial port, for any messages and *)
(* any number of faults: none is left waiting for nothing, none is         *)
(* answered twice, and success is true, but for the defects named there.   *)
(***************************************************************************)
EXTENDS QBSerial, Upgrade, SequenceTheorems, WellFoundedInduction, TLAPS

(***************************************************************************)
(* The inductive invariant.                                                *)
(***************************************************************************)
All == Messages \cup Inits
Stages == {"INIT", "CONFIRM", "CAN_CONTROL", "MID"}
Cmds == {"CAN", "J1708", "none"} \cup Stages
Transactions ==
  [cmd : Cmds, frame : Nat \cup {NoFrame}, next : Nat, max : Nat, done : BOOLEAN,
   complete : BOOLEAN, reply : BOOLEAN, busTimer : BOOLEAN, retries : Int,
   pktId : Nat, confirmId : Nat]
Ports == [new : Seq(All), sent : Seq(All), pend : Seq(Messages), tx : [All -> Transactions]]
Items ==
  [type : {"ack", "refusal"}, id : Nat] \cup [type : {"confirm"}, id : Nat, ok : BOOLEAN]
    \cup [type : {"cts"}, msg : Messages, next : Nat \ {0}] \cup [type : {"eom"}, msg : Messages]
Replies == {"success", "fail", "timeout"}

TypeOK ==
  /\ port \in Ports /\ line \in Seq(Items) /\ packetId \in Nat
  /\ answers \in [Messages -> Seq(Replies)] /\ given \subseteq Messages
  /\ firmware \in [confirming : BOOLEAN, bus : [Messages -> SUBSET Int]]

\* The lists of port p: a message is in one of them, one that has not been looked
\* at since it was given is as it was, and no timer runs for one in QBTransactionNew.
Lists(p, g) ==
  /\ Active(p) \subseteq g \cup Inits /\ ToSet(p.pend) \subseteq {x \in g : J1939(x)}
  /\ ToSet(p.pend) \cap Active(p) = {}
  /\ ToSet(p.new) \cap ToSet(p.sent) = {}
  /\ \A x \in Messages : x \notin g \/ x \in ToSet(p.pend) => p.tx[x] = Fresh(x)
  /\ \A x \in ToSet(p.new) \cap Messages : ~p.tx[x].reply
  /\ \A x \in Inits : p.tx[x].confirmId = 0 /\ (x \in Active(p) => p.tx[x].cmd \in Stages)

Reasons(p) == \A x \in ToSet(p.pend) : MustWait(p, x)

\* All frames of x have been transmitted.
Whole(x, bus) == 0 .. Frames[x] \subseteq bus[x]
Repeated(x, sp) == <<x, "repeated">> \in sp
OneByOne(x) == J1939(x) /\ ~RTS(x)

\* Frame by frame, without being asked: the frames before the last one loaded were
\* transmitted, and so was that one if a confirmation on its way says so.
Steady(x, t, sent, l, bus) ==
  /\ t.frame = t.next - 1 /\ t.next <= Frames[x] + 1
  /\ 0 .. t.next - 2 \subseteq bus[x]
  /\ \A f \in ToSet(l) :
       f.type = "confirm" /\ f.ok /\ (f.id = t.confirmId \/ (x \in sent /\ f.id = t.pktId))
         => t.frame \in bus[x]

Transmits(x, t, sent, l, bus, id, sp) ==
  /\ t.cmd = Fresh(x).cmd /\ t.pktId <= id /\ t.confirmId <= id
  /\ t.reply \/ x \in sent => t.frame # NoFrame
  /\ RTS(x) => (t.frame >= 1 => t.max > 0) /\ (t.max > 0 => 0 \in bus[x])
  /\ t.complete => Repeated(x, sp) \/ Whole(x, bus)
  /\ OneByOne(x) => Repeated(x, sp) \/ Steady(x, t, sent, l, bus)

AllTransmit(p, sent, l, bus, id, sp) ==
  \A x \in Messages : Transmits(x, p.tx[x], sent, l, bus, id, sp)

\* What comes from the firmware: confirmations in the order of their packets, and
\* what a receiver says of the frames it has got.
Incoming(l, bus, id) ==
  /\ \A f \in ToSet(l) :
       /\ f.type = "confirm" => f.id \in 1 .. id
       /\ f.type = "cts" => RTS(f.msg) /\ 0 \in bus[f.msg]
       /\ f.type = "eom" => RTS(f.msg) /\ Whole(f.msg, bus)
  /\ \A i, j \in 1 .. Len(l) :
       i < j /\ l[i].type = "confirm" /\ l[j].type = "confirm" => l[i].id < l[j].id

\* What may still be answered: what is in a list, and what a timer runs for.
Open(p) == {x \in Messages : x \in Active(p) \cup ToSet(p.pend) \/ p.tx[x].reply}

Excepted(x, sp) == <<x, "timer">> \in sp \/ <<x, "thrown">> \in sp

Answered(p, a, bus, sp) ==
  /\ \A x \in Messages : J1939(x) /\ Contains(a[x], "success") => Whole(x, bus) \/ Repeated(x, sp)
  /\ \A x \in Messages : Excepted(x, sp) \/ (Len(a[x]) <= 1 /\ (x \in Open(p) => a[x] = <<>>))

IInv ==
  /\ TypeOK
  /\ Lists(port, given) /\ Reasons(port)
  /\ AllTransmit(port, ToSet(port.sent), line, firmware.bus, packetId, spoilt)
  /\ Incoming(line, firmware.bus, packetId)
  /\ Answered(port, answers, firmware.bus, spoilt)
  /\ \A x \in Messages \ given : answers[x] = <<>>

(***************************************************************************)
(* Sequences, and the elements of them.                                    *)
(***************************************************************************)
\* Some natural numbers have a smallest (the order of Nat is well-founded).
LEMMA Smallest ==
  ASSUME NEW T, T \subseteq Nat, T # {}
  PROVE  \E x \in T : \A y \in T : x <= y
<1> DEFINE R == OpToRel(<, Nat)
<1>1. IsWellFoundedOn(R, Nat)
  BY NatLessThanWellFounded
<1>2. \A i, j \in Nat : i < j => <<i, j>> \in R
  BY DEF OpToRel
<1> HIDE DEF R
<1>3. PICK x \in T : \A y \in T : ~(<<y, x>> \in R)
  BY <1>1, WFMin
<1>4. \A y \in T : ~(y < x)
  BY <1>2, <1>3
<1> QED
  BY <1>4

LEMMA Members ==
  ASSUME NEW S, NEW s \in Seq(S)
  PROVE  /\ ToSet(s) \subseteq S /\ ToSet(s) = {s[i] : i \in 1 .. Len(s)}
         /\ s = <<>> <=> ToSet(s) = {}
<1>1. DOMAIN s = 1 .. Len(s) /\ Len(s) \in Nat /\ \A i \in 1 .. Len(s) : s[i] \in S
  BY LenProperties, ElementOfSeq
<1>2. ToSet(s) = {s[i] : i \in 1 .. Len(s)}
  BY <1>1 DEF ToSet
<1>3. s # <<>> => Len(s) # 0
  BY EmptySeq
<1>4. s = <<>> => Len(s) = 0
  OBVIOUS
<1>5. s # <<>> => 1 \in 1 .. Len(s)
  BY <1>1, <1>3
<1> QED
  BY <1>1, <1>2, <1>4, <1>5

LEMMA EmptyMembers == ToSet(<<>>) = {}
  BY DEF ToSet

LEMMA AppendMembers ==
  ASSUME NEW S, NEW s \in Seq(S), NEW e \in S
  PROVE  Append(s, e) \in Seq(S) /\ ToSet(Append(s, e)) = ToSet(s) \cup {e}
<1>1. /\ Append(s, e) \in Seq(S) /\ Len(Append(s, e)) = Len(s) + 1 /\ Len(s) \in Nat
      /\ \A i \in 1 .. Len(s) : Append(s, e)[i] = s[i]
      /\ Append(s, e)[Len(s) + 1] = e
  BY AppendProperties, LenProperties
<1> DEFINE t == Append(s, e)
<1>2. ToSet(t) = {t[i] : i \in 1 .. Len(s) + 1}
  <2>1. t \in Seq(S) /\ Len(t) = Len(s) + 1
    BY <1>1
  <2> HIDE DEF t
  <2>2. ToSet(t) = {t[i] : i \in 1 .. Len(t)}
    BY <2>1, Members
  <2> QED
    BY <2>1, <2>2
<1>3. 1 .. Len(s) + 1 = 1 .. Len(s) \cup {Len(s) + 1}
  BY <1>1
<1>4. ToSet(s) = {s[i] : i \in 1 .. Len(s)}
  BY Members
<1> QED
  BY <1>1, <1>2, <1>3, <1>4

LEMMA JoinMembers ==
  ASSUME NEW S, NEW s \in Seq(S), NEW t \in Seq(S)
  PROVE  s \o t \in Seq(S) /\ ToSet(s \o t) = ToSet(s) \cup ToSet(t)
<1>1. s \o t \in Seq(S) /\ Range(s \o t) = Range(s) \cup Range(t)
  BY ConcatProperties, RangeConcatenation
<1>2. \A u : Range(u) = ToSet(u)
  BY DEF Range, ToSet
<1> QED
  BY <1>1, <1>2

LEMMA TailMembers ==
  ASSUME NEW S, NEW s \in Seq(S), s # <<>>
  PROVE  /\ Head(s) \in ToSet(s) /\ Tail(s) \in Seq(S) /\ ToSet(Tail(s)) \subseteq ToSet(s)
         /\ Len(s) \in Nat \ {0} /\ Head(s) = s[1] /\ Len(Tail(s)) = Len(s) - 1
         /\ \A i \in 1 .. Len(s) - 1 : Tail(s)[i] = s[i + 1]
<1>1. /\ Tail(s) \in Seq(S) /\ Len(Tail(s)) = Len(s) - 1 /\ Len(s) \in Nat \ {0}
      /\ \A i \in 1 .. Len(s) - 1 : Tail(s)[i] = s[i + 1]
      /\ Head(s) = s[1]
  BY HeadTailProperties, EmptySeq
<1> DEFINE t == Tail(s)
<1>2. ToSet(s) = {s[i] : i \in 1 .. Len(s)} /\ ToSet(t) = {t[i] : i \in 1 .. Len(s) - 1}
  <2>1. t \in Seq(S) /\ Len(t) = Len(s) - 1
    BY <1>1
  <2> HIDE DEF t
  <2>2. ToSet(t) = {t[i] : i \in 1 .. Len(t)}
    BY <2>1, Members
  <2>3. ToSet(s) = {s[i] : i \in 1 .. Len(s)}
    BY Members
  <2> QED
    BY <2>1, <2>2, <2>3
<1>3. \A i \in 1 .. Len(s) - 1 : i + 1 \in 1 .. Len(s)
  BY <1>1
<1>4. 1 \in 1 .. Len(s)
  BY <1>1
<1> QED
  BY <1>1, <1>2, <1>3, <1>4

-------------------------------------------------------------------------------
\* What Without computes, position by position.  That there is such a function
\* is proved by induction on how far it goes.
Step(s, S, f, i) == IF s[i] \in S THEN f[i - 1] ELSE Append(f[i - 1], s[i])
Kept(s, S, f, n) == f[0] = <<>> /\ \A i \in 1 .. n : f[i] = Step(s, S, f, i)
Filtered(s, S, f, n) ==
  Kept(s, S, f, n) /\ \A i \in 0 .. n : ToSet(f[i]) = {s[j] : j \in 1 .. i} \ S

LEMMA KeptExists ==
  ASSUME NEW X, NEW s \in Seq(X), NEW S
  PROVE  \A n \in 0 .. Len(s) : \E f \in [0 .. n -> Seq(X)] : Filtered(s, S, f, n)
<1> DEFINE Bad == {n \in 0 .. Len(s) : ~\E f \in [0 .. n -> Seq(X)] : Filtered(s, S, f, n)}
<1>1. Len(s) \in Nat
  BY LenProperties
<1>2. SUFFICES ASSUME Bad # {} PROVE FALSE
  BY <1>2
<1>3. PICK n \in Bad : \A m \in Bad : n <= m
  <2>1. Bad \subseteq Nat /\ Bad # {}
    BY <1>1, <1>2
  <2> HIDE DEF Bad
  <2> QED
    BY <2>1, Smallest
<1>4. n # 0
  <2> DEFINE f == [i \in 0 .. 0 |-> <<>>]
  <2>1. <<>> \in Seq(X) /\ f \in [0 .. 0 -> Seq(X)] /\ f[0] = <<>>
    OBVIOUS
  <2>2. ToSet(f[0]) = {s[j] : j \in 1 .. 0} \ S
    BY <2>1, EmptyMembers
  <2> HIDE DEF f
  <2>3. Filtered(s, S, f, 0)
    BY <2>1, <2>2 DEF Kept, Filtered
  <2> QED
    BY <2>1, <2>3
<1>5. n - 1 \in 0 .. Len(s) /\ n - 1 \notin Bad /\ n \in 1 .. Len(s) /\ n - 1 \in 0 .. n - 1
  BY <1>1, <1>3, <1>4
<1>6. PICK g \in [0 .. n - 1 -> Seq(X)] : Filtered(s, S, g, n - 1)
  BY <1>5
<1> DEFINE f == [i \in 0 .. n |-> IF i = n THEN Step(s, S, g, n) ELSE g[i]]
<1>7. s[n] \in X /\ g[n - 1] \in Seq(X)
  BY <1>5, <1>6, ElementOfSeq
<1>8. Step(s, S, g, n) \in Seq(X) /\ ToSet(Step(s, S, g, n)) = {s[j] : j \in 1 .. n} \ S
  <2>1. ToSet(g[n - 1]) = {s[j] : j \in 1 .. n - 1} \ S
    BY <1>5, <1>6 DEF Filtered
  <2>2. 1 .. n = 1 .. n - 1 \cup {n}
    BY <1>5
  <2>3. Append(g[n - 1], s[n]) \in Seq(X) /\ ToSet(Append(g[n - 1], s[n])) = ToSet(g[n - 1]) \cup {s[n]}
    BY <1>7, AppendMembers
  <2> QED
    BY <1>7, <2>1, <2>2, <2>3 DEF Step
<1>9. f \in [0 .. n -> Seq(X)]
  <2>1. \A i \in 0 .. n : i # n => i \in 0 .. n - 1
    BY <1>5
  <2> QED
    BY <1>6, <1>8, <2>1
<1>10. /\ f[n] = Step(s, S, g, n) /\ \A i \in 0 .. n - 1 : f[i] = g[i]
       /\ \A i \in 0 .. n : i = n \/ i \in 0 .. n - 1
       /\ \A i \in 1 .. n : i - 1 \in 0 .. n - 1 /\ (i = n \/ i \in 1 .. n - 1)
       /\ 0 \in 0 .. n - 1
  BY <1>5
<1> HIDE DEF f
<1>11. Kept(s, S, f, n)
  <2>1. g[0] = <<>> /\ \A i \in 1 .. n - 1 : g[i] = Step(s, S, g, i)
    BY <1>6 DEF Filtered, Kept
  <2>2. f[0] = <<>> /\ f[n - 1] = g[n - 1]
    BY <1>10, <1>5, <2>1
  <2>3. \A i \in 1 .. n - 1 : f[i] = Step(s, S, f, i)
    <3>1. TAKE i \in 1 .. n - 1
    <3>2. i \in 0 .. n - 1 /\ i - 1 \in 0 .. n - 1
      BY <1>5
    <3>3. f[i] = g[i] /\ f[i - 1] = g[i - 1] /\ g[i] = Step(s, S, g, i)
      BY <1>10, <2>1, <3>2
    <3> QED
      BY <3>3 DEF Step
  <2>4. f[n] = Step(s, S, f, n)
    BY <1>10, <2>2 DEF Step
  <2> QED
    BY <1>10, <2>2, <2>3, <2>4 DEF Kept
<1>12. \A i \in 0 .. n : ToSet(f[i]) = {s[j] : j \in 1 .. i} \ S
  BY <1>6, <1>8, <1>10 DEF Filtered
<1> QED
  BY <1>3, <1>9, <1>11, <1>12 DEF Filtered

LEMMA WithoutFacts ==
  ASSUME NEW X, NEW s \in Seq(X), NEW S
  PROVE  Without(s, S) \in Seq(X) /\ ToSet(Without(s, S)) = ToSet(s) \ S
<1> DEFINE F(k) == [i \in 0 .. Len(s) |->
                      IF i = 0 THEN <<>>
                      ELSE IF s[i] \in S THEN k[i - 1] ELSE Append(k[i - 1], s[i])]
           kept == CHOOSE k : k = F(k)
<1>1. Len(s) \in Nat
  BY LenProperties
<1>2. PICK f \in [0 .. Len(s) -> Seq(X)] :
        Kept(s, S, f, Len(s)) /\ \A i \in 0 .. Len(s) : ToSet(f[i]) = {s[j] : j \in 1 .. i} \ S
  <2>1. Len(s) \in 0 .. Len(s)
    BY <1>1
  <2>2. \A n \in 0 .. Len(s) : \E f \in [0 .. n -> Seq(X)] : Filtered(s, S, f, n)
    BY KeptExists
  <2> QED
    BY <2>1, <2>2 DEF Filtered
<1>3. f = F(f)
  <2>1. \A i \in 0 .. Len(s) : i = 0 \/ i \in 1 .. Len(s)
    BY <1>1
  <2>2. \A i \in 0 .. Len(s) : f[i] = F(f)[i]
    BY <1>2, <2>1 DEF Kept, Step
  <2> QED
    BY <1>2, <2>2
<1>4. kept = F(kept)
  BY <1>3
<1> HIDE DEF kept
<1>5. /\ kept[0] = <<>>
      /\ \A i \in 1 .. Len(s) : kept[i] = Step(s, S, kept, i)
  <2>1. \A i \in 0 .. Len(s) : kept[i] = F(kept)[i]
    BY <1>4
  <2>2. 0 \in 0 .. Len(s) /\ \A i \in 1 .. Len(s) : i \in 0 .. Len(s) /\ i # 0
    BY <1>1
  <2> QED
    BY <2>1, <2>2 DEF Step
<1>6. \A n \in 0 .. Len(s) : kept[n] = f[n]
  <2> DEFINE Bad == {n \in 0 .. Len(s) : kept[n] # f[n]}
  <2>1. SUFFICES ASSUME Bad # {} PROVE FALSE
    BY <2>1
  <2>2. PICK n \in Bad : \A m \in Bad : n <= m
    <3>1. Bad \subseteq Nat /\ Bad # {}
      BY <1>1, <2>1
    <3> HIDE DEF Bad
    <3> QED
      BY <3>1, Smallest
  <2>3. n # 0
    BY <1>2, <1>5, <2>2 DEF Kept
  <2>4. n - 1 \in 0 .. Len(s) /\ n - 1 \notin Bad /\ n \in 1 .. Len(s)
    BY <1>1, <2>2, <2>3
  <2> QED
    BY <1>2, <1>5, <2>2, <2>4 DEF Kept, Step
<1>7. kept[Len(s)] \in Seq(X) /\ ToSet(kept[Len(s)]) = {s[j] : j \in 1 .. Len(s)} \ S
  BY <1>1, <1>2, <1>6
<1>8. Without(s, S) = kept[Len(s)]
  BY DEF Without, kept
<1> QED
  BY <1>7, <1>8, Members

(***************************************************************************)
(* What the operations on the lists do.                                    *)
(***************************************************************************)
Fetched(x) == GetCANPacket(Fresh(x), x)

\* Nothing is sent: some transactions that waited have their first frame now.
Moves(p, q) ==
  \A x \in Messages :
    \/ q.tx[x] = p.tx[x]
    \/ p.tx[x] = Fresh(x) /\ J1939(x) /\ q.tx[x] = Fetched(x)

LEMMA Disjoint == Messages \cap Inits = {} /\ \A x \in Inits : ~J1939(x) /\ ~RTS(x)
  BY SerialAssumption DEF J1939, RTS

LEMMA LoadTyped ==
  ASSUME NEW t \in Transactions, NEW x
  PROVE  GetCANPacket(t, x) \in Transactions /\ GetCANPacket(t, x).reply = t.reply
         /\ GetCANPacket(t, x).confirmId = t.confirmId
<1> DEFINE b == t.busTimer \/ RTS(x)
           n == t.next + 1
           u == [t EXCEPT !.frame = t.next, !.next = n, !.busTimer = b]
           v == [t EXCEPT !.frame = NoFrame]
<1>1. b \in BOOLEAN
  OBVIOUS
<1>2. n \in Nat /\ t.next \in Nat
  BY DEF Transactions
<1>3. GetCANPacket(t, x) \in {u, v}
  BY DEF GetCANPacket
<1> HIDE DEF b, n
<1>4. u \in Transactions /\ u.reply = t.reply /\ u.confirmId = t.confirmId
  BY <1>1, <1>2 DEF Transactions
<1>5. v \in Transactions /\ v.reply = t.reply /\ v.confirmId = t.confirmId
  BY DEF Transactions
<1> HIDE DEF u, v
<1> QED
  BY <1>3, <1>4, <1>5

LEMMA FreshTyped ==
  ASSUME NEW x \in All
  PROVE  Fresh(x) \in Transactions /\ ~Fresh(x).reply /\ Fresh(x).confirmId = 0
  BY DEF Fresh, Transactions, Cmds, Stages, NoFrame, NumRetries, J1939

\* Conflicts is symmetric and transitive.
LEMMA ConflictsChain ==
  ASSUME NEW x, NEW y, NEW z, Conflicts(x, y)
  PROVE  (Conflicts(y, z) => Conflicts(x, z)) /\ (Conflicts(x, z) => Conflicts(y, z))
  BY DEF Conflicts

\* Where there is none under way that x would mix with, it is admitted itself, or
\* one that it would mix with is.
LEMMA AdmittedInstead ==
  ASSUME NEW p \in Ports, NEW x \in ToSet(p.pend), x \notin Admitted(p), ~MustWait(p, x)
  PROVE  \E y \in Admitted(p) : Conflicts(x, y)
<1> DEFINE w == p.pend
<1>1. w \in Seq(Messages) /\ DOMAIN w = 1 .. Len(w) /\ Len(w) \in Nat
  <2>1. w \in Seq(Messages)
    BY DEF Ports
  <2> HIDE DEF w
  <2> QED
    BY <2>1, LenProperties
<1>2. PICK i \in 1 .. Len(w) : x = w[i]
  BY <1>1 DEF ToSet
<1> DEFINE T == {j \in 1 .. Len(w) : Conflicts(w[j], x)}
<1>3. PICK h \in 1 .. i - 1 : Conflicts(w[h], w[i])
  BY <1>1, <1>2 DEF Admitted
<1>4. h \in T
  BY <1>1, <1>2, <1>3
<1>5. PICK k \in T : \A j \in T : k <= j
  <2>1. T \subseteq Nat /\ T # {}
    BY <1>1, <1>4
  <2> HIDE DEF T
  <2> QED
    BY <2>1, Smallest
<1>6. Conflicts(x, w[k]) /\ k \in 1 .. Len(w)
  BY <1>5 DEF Conflicts
<1>7. ~MustWait(p, w[k])
  BY <1>6, ConflictsChain DEF MustWait
<1>8. \A j \in 1 .. k - 1 : ~Conflicts(w[j], w[k])
  <2> SUFFICES ASSUME NEW j \in 1 .. k - 1, Conflicts(w[j], w[k]) PROVE FALSE
    OBVIOUS
  <2>1. j \in 1 .. Len(w) /\ ~(k <= j)
    BY <1>1, <1>6
  <2>2. Conflicts(w[j], x)
    BY <1>6 DEF Conflicts
  <2> QED
    BY <1>5, <2>1, <2>2
<1>9. w[k] \in Admitted(p)
  BY <1>1, <1>6, <1>7, <1>8 DEF Admitted
<1> QED
  BY <1>6, <1>9

LEMMA CheckFacts ==
  ASSUME NEW p \in Ports
  PROVE  LET q == CheckJ1939Pending(p)
         IN  /\ q \in Ports /\ q.sent = p.sent /\ Admitted(p) \subseteq ToSet(p.pend)
             /\ ToSet(q.new) = ToSet(p.new) \cup Admitted(p)
             /\ ToSet(q.pend) = ToSet(p.pend) \ Admitted(p)
             /\ \A x \in All : q.tx[x] = IF x \in Admitted(p) THEN GetCANPacket(p.tx[x], x)
                                                           ELSE p.tx[x]
             /\ Reasons(q)
<1> DEFINE A == Admitted(p)
           w == Without(p.pend, ToSet(p.pend) \ A)
           new == p.new \o w
           pend == Without(p.pend, A)
           entries == [x \in DOMAIN p.tx |-> IF x \in A THEN GetCANPacket(p.tx[x], x) ELSE p.tx[x]]
           q == [p EXCEPT !.new = new, !.pend = pend, !.tx = entries]
<1>1. /\ p.new \in Seq(All) /\ p.sent \in Seq(All) /\ p.pend \in Seq(Messages)
      /\ p.tx \in [All -> Transactions] /\ DOMAIN p.tx = All
  BY DEF Ports
<1>2. A \subseteq ToSet(p.pend) /\ ToSet(p.pend) \subseteq Messages /\ ToSet(p.pend) \subseteq All
  <2>1. ToSet(p.pend) \subseteq Messages
    BY <1>1, Members
  <2>2. A \subseteq ToSet(p.pend)
    BY DEF Admitted, ToSet
  <2> QED
    BY <2>1, <2>2 DEF All
<1>3. w \in Seq(Messages) /\ ToSet(w) = ToSet(p.pend) \ (ToSet(p.pend) \ A)
  BY <1>1, WithoutFacts
<1>4. pend \in Seq(Messages) /\ ToSet(pend) = ToSet(p.pend) \ A
  BY <1>1, WithoutFacts
<1>5. w \in Seq(All)
  <2> HIDE DEF w
  <2>1. Messages \subseteq All
    BY DEF All
  <2> QED
    BY <1>3, <2>1, SeqMonotonic
<1>6. new \in Seq(All) /\ ToSet(new) = ToSet(p.new) \cup A
  <2>1. new \in Seq(All) /\ ToSet(new) = ToSet(p.new) \cup ToSet(w)
    <3> HIDE DEF w
    <3> QED
      BY <1>1, <1>5, JoinMembers
  <2> QED
    BY <1>2, <1>3, <2>1
<1>7. entries \in [All -> Transactions]
  BY <1>1, LoadTyped
<1>8. CheckJ1939Pending(p) = q
  BY DEF CheckJ1939Pending
<1> HIDE DEF w, new, pend, entries
<1>9. q \in Ports /\ q.new = new /\ q.pend = pend /\ q.sent = p.sent /\ q.tx = entries
  BY <1>1, <1>4, <1>6, <1>7 DEF Ports
<1> HIDE DEF q
<1>10. Reasons(q)
  <2> SUFFICES ASSUME NEW x \in ToSet(q.pend) PROVE MustWait(q, x)
    BY DEF Reasons
  <2>1. x \in ToSet(p.pend) /\ x \notin A
    BY <1>4, <1>9
  <2>2. Active(p) \cup A = Active(q)
    BY <1>6, <1>9 DEF Active
  <2>3. CASE MustWait(p, x)
    BY <2>2, <2>3 DEF MustWait
  <2>4. CASE ~MustWait(p, x)
    BY <2>1, <2>2, <2>4, AdmittedInstead DEF MustWait
  <2> QED
    BY <2>3, <2>4
<1>11. \A x \in All : q.tx[x] = IF x \in A THEN GetCANPacket(p.tx[x], x) ELSE p.tx[x]
  BY <1>1, <1>9 DEF entries
<1> QED
  BY <1>2, <1>4, <1>6, <1>8, <1>9, <1>10, <1>11

\* Fewer transactions in the lists, the transactions as they were.
LEMMA FewerKeep ==
  ASSUME NEW g, NEW p \in Ports, NEW q \in Ports, Lists(p, g), q.tx = p.tx,
         ToSet(q.new) \subseteq ToSet(p.new), ToSet(q.sent) \subseteq ToSet(p.sent),
         ToSet(q.pend) \subseteq ToSet(p.pend)
  PROVE  Lists(q, g) /\ Moves(p, q) /\ Open(q) \subseteq Open(p)
  BY DEF Lists, Moves, Open, Active

LEMMA CheckKeeps ==
  ASSUME NEW g \in SUBSET Messages, NEW p \in Ports, Lists(p, g)
  PROVE  LET q == CheckJ1939Pending(p)
         IN  /\ q \in Ports /\ Lists(q, g) /\ Moves(p, q) /\ Reasons(q)
             /\ q.sent = p.sent /\ Open(q) \subseteq Open(p)
             /\ ToSet(p.new) \subseteq ToSet(q.new)
             /\ \A x \in All : x \in Active(p) \/ x \notin g => q.tx[x] = p.tx[x]
<1> DEFINE q == CheckJ1939Pending(p)
           A == Admitted(p)
<1>1. /\ q \in Ports /\ q.sent = p.sent /\ A \subseteq ToSet(p.pend)
      /\ ToSet(q.new) = ToSet(p.new) \cup A
      /\ ToSet(q.pend) = ToSet(p.pend) \ A
      /\ \A x \in All : q.tx[x] = IF x \in A THEN GetCANPacket(p.tx[x], x) ELSE p.tx[x]
      /\ Reasons(q)
  BY CheckFacts
<1> HIDE DEF q, A
<1>2. \A x \in A : x \in g /\ J1939(x) /\ x \notin Active(p) /\ x \in Messages /\ p.tx[x] = Fresh(x)
  BY <1>1 DEF Lists
<1>3. \A x \in Messages : x \in All /\ p.tx[x] \in Transactions
  BY DEF All, Ports
<1>4. \A x \in A : q.tx[x] = Fetched(x) /\ ~q.tx[x].reply
  <2> SUFFICES ASSUME NEW x \in A PROVE q.tx[x] = Fetched(x) /\ ~q.tx[x].reply
    OBVIOUS
  <2>1. q.tx[x] = Fetched(x) /\ x \in All
    BY <1>1, <1>2, <1>3 DEF Fetched
  <2>2. Fresh(x) \in Transactions /\ ~Fresh(x).reply
    BY <2>1, FreshTyped
  <2>3. Fetched(x).reply = Fresh(x).reply
    BY <2>2, LoadTyped DEF Fetched
  <2> QED
    BY <2>1, <2>2, <2>3
<1>5. \A x \in All : x \notin A => q.tx[x] = p.tx[x]
  BY <1>1
<1>6. Active(q) = Active(p) \cup A
  BY <1>1 DEF Active
<1>7. Moves(p, q)
  BY <1>2, <1>3, <1>4, <1>5 DEF Moves
<1>8. Open(q) \subseteq Open(p)
  BY <1>1, <1>3, <1>4, <1>5, <1>6 DEF Open
<1>9. Lists(q, g)
  <2>1. Active(q) \subseteq g \cup Inits /\ ToSet(q.pend) \subseteq {x \in g : J1939(x)}
        /\ ToSet(q.pend) \cap Active(q) = {}
    BY <1>1, <1>2, <1>6 DEF Lists
  <2>2. ToSet(q.new) \cap ToSet(q.sent) = {}
    BY <1>1, <1>2 DEF Lists, Active
  <2>3. \A x \in Messages : x \notin g \/ x \in ToSet(q.pend) => q.tx[x] = Fresh(x)
    BY <1>1, <1>2, <1>3, <1>5 DEF Lists
  <2>4. \A x \in ToSet(q.new) \cap Messages : ~q.tx[x].reply
    BY <1>1, <1>3, <1>4, <1>5 DEF Lists
  <2>5. \A x \in Inits : q.tx[x].confirmId = 0 /\ (x \in Active(q) => q.tx[x].cmd \in Stages)
    BY <1>2, <1>5, <1>6, Disjoint DEF Lists, All
  <2> QED
    BY <2>1, <2>2, <2>3, <2>4, <2>5 DEF Lists
<1>10. \A x \in All : x \in Active(p) \/ x \notin g => q.tx[x] = p.tx[x]
  BY <1>2, <1>5
<1> QED
  BY <1>1, <1>7, <1>8, <1>9, <1>10 DEF q

\* Without some transactions, before it is looked who need not wait any more.
LEMMA RemoveFacts ==
  ASSUME NEW p \in Ports, NEW S
  PROVE  LET q == [p EXCEPT !.new = Without(@, S), !.sent = Without(@, S)]
         IN  /\ q \in Ports /\ q.tx = p.tx /\ q.pend = p.pend
             /\ ToSet(q.new) = ToSet(p.new) \ S /\ ToSet(q.sent) = ToSet(p.sent) \ S
<1> DEFINE new == Without(p.new, S)
           sent == Without(p.sent, S)
           q == [p EXCEPT !.new = new, !.sent = sent]
<1>1. p.new \in Seq(All) /\ p.sent \in Seq(All)
  BY DEF Ports
<1>2. /\ new \in Seq(All) /\ ToSet(new) = ToSet(p.new) \ S
      /\ sent \in Seq(All) /\ ToSet(sent) = ToSet(p.sent) \ S
  BY <1>1, WithoutFacts
<1> HIDE DEF new, sent
<1>3. q \in Ports /\ q.tx = p.tx /\ q.pend = p.pend /\ q.new = new /\ q.sent = sent
  BY <1>2 DEF Ports
<1> QED
  BY <1>2, <1>3 DEF new, sent

\* Transactions S of p are in no list of q, and are as they were.
Left(p, q, S) ==
  S \cap (Active(q) \cup ToSet(q.pend)) = {} /\ \A x \in S \cap Messages : q.tx[x] = p.tx[x]

LEMMA TakeOutKeeps ==
  ASSUME NEW g \in SUBSET Messages, NEW p \in Ports, Lists(p, g),
         NEW S \in SUBSET (All \ ToSet(p.pend))
  PROVE  LET q == TakeOut(p, S)
         IN  /\ q \in Ports /\ Lists(q, g) /\ Moves(p, q) /\ Reasons(q)
             /\ ToSet(q.sent) = ToSet(p.sent) \ S /\ Open(q) \subseteq Open(p) /\ Left(p, q, S)
<1> DEFINE r == [p EXCEPT !.new = Without(@, S), !.sent = Without(@, S)]
           q == CheckJ1939Pending(r)
<1>1. /\ r \in Ports /\ r.tx = p.tx /\ r.pend = p.pend
      /\ ToSet(r.new) = ToSet(p.new) \ S /\ ToSet(r.sent) = ToSet(p.sent) \ S
  BY RemoveFacts
<1> HIDE DEF r
<1>2. Lists(r, g) /\ Moves(p, r) /\ Open(r) \subseteq Open(p)
  BY <1>1, FewerKeep
<1>3. q \in Ports /\ Lists(q, g) /\ Moves(r, q) /\ Reasons(q) /\ q.sent = r.sent
      /\ Open(q) \subseteq Open(r)
  BY <1>1, <1>2, CheckKeeps
<1>4. /\ Admitted(r) \subseteq ToSet(r.pend)
      /\ ToSet(q.new) = ToSet(r.new) \cup Admitted(r)
      /\ ToSet(q.pend) = ToSet(r.pend) \ Admitted(r)
      /\ \A x \in All : q.tx[x] = IF x \in Admitted(r) THEN GetCANPacket(r.tx[x], x) ELSE r.tx[x]
  BY <1>1, CheckFacts
<1>5. TakeOut(p, S) = q
  BY DEF TakeOut, r
<1> HIDE DEF q
<1>6. Moves(p, q)
  BY <1>1, <1>3 DEF Moves
<1>7. S \cap (Active(q) \cup ToSet(q.pend)) = {}
  BY <1>1, <1>3, <1>4 DEF Active
<1>8. \A x \in S \cap Messages : q.tx[x] = p.tx[x]
  BY <1>1, <1>4 DEF All
<1> QED
  BY <1>1, <1>2, <1>3, <1>5, <1>6, <1>7, <1>8 DEF Left

LEMMA RequeueKeeps ==
  ASSUME NEW g \in SUBSET Messages, NEW p \in Ports, Lists(p, g), Reasons(p),
         NEW x \in ToSet(p.sent), x \in Messages => ~p.tx[x].reply
  PROVE  LET q == Requeue(p, x)
         IN  /\ q \in Ports /\ Lists(q, g) /\ Moves(p, q) /\ Reasons(q) /\ q.tx = p.tx
             /\ ToSet(q.sent) = ToSet(p.sent) \ {x} /\ Open(q) \subseteq Open(p)
<1> DEFINE w == Without(p.new, {x})
           new == Append(w, x)
           sent == Without(p.sent, {x})
           q == [p EXCEPT !.new = new, !.sent = sent]
<1>1. p.new \in Seq(All) /\ p.sent \in Seq(All)
  BY DEF Ports
<1>2. /\ w \in Seq(All) /\ ToSet(w) = ToSet(p.new) \ {x}
      /\ sent \in Seq(All) /\ ToSet(sent) = ToSet(p.sent) \ {x}
  BY <1>1, WithoutFacts
<1>3. x \in All
  BY <1>1, Members
<1> HIDE DEF w
<1>4. new \in Seq(All) /\ ToSet(new) = ToSet(p.new) \cup {x}
  BY <1>2, <1>3, AppendMembers
<1>5. q = Requeue(p, x)
  BY DEF Requeue, w
<1> HIDE DEF new, sent
<1>6. q \in Ports /\ q.tx = p.tx /\ q.pend = p.pend /\ q.new = new /\ q.sent = sent
  BY <1>2, <1>4 DEF Ports
<1> HIDE DEF q
<1>7. Active(q) = Active(p)
  BY <1>2, <1>4, <1>6 DEF Active
<1>8. Lists(q, g)
  <2>1. ToSet(q.new) \cap ToSet(q.sent) = {}
    BY <1>2, <1>4, <1>6 DEF Lists
  <2>2. \A y \in ToSet(q.new) \cap Messages : ~q.tx[y].reply
    BY <1>4, <1>6 DEF Lists
  <2> QED
    BY <1>6, <1>7, <2>1, <2>2 DEF Lists
<1>9. Reasons(q)
  BY <1>6, <1>7 DEF Reasons, MustWait
<1>10. Moves(p, q) /\ Open(q) \subseteq Open(p) /\ ToSet(q.sent) = ToSet(p.sent) \ {x}
  BY <1>2, <1>6, <1>7 DEF Moves, Open
<1> QED
  BY <1>5, <1>6, <1>8, <1>9, <1>10

LEMMA ClearKeeps ==
  ASSUME NEW g \in SUBSET Messages, NEW p \in Ports, Lists(p, g)
  PROVE  LET q == ClearQBTransactionNew(p)
         IN  /\ q \in Ports /\ Lists(q, g) /\ Moves(p, q) /\ Reasons(q) /\ q.tx = p.tx
             /\ q.sent = p.sent /\ Open(q) \subseteq Open(p) \ Cleared(p)
             /\ Cleared(p) \cap Messages \subseteq Open(p) /\ Active(q) \subseteq Active(p)
<1> DEFINE pend == Without(p.pend, Cleared(p))
           q == [p EXCEPT !.new = <<>>, !.pend = pend]
<1>1. p.pend \in Seq(Messages) /\ <<>> \in Seq(All) /\ ToSet(<<>>) = {}
  BY EmptyMembers DEF Ports
<1>2. pend \in Seq(Messages) /\ ToSet(pend) = ToSet(p.pend) \ Cleared(p)
  BY <1>1, WithoutFacts
<1>3. q = ClearQBTransactionNew(p)
  BY DEF ClearQBTransactionNew
<1> HIDE DEF pend
<1>4. q \in Ports /\ q.tx = p.tx /\ q.pend = pend /\ q.new = <<>> /\ q.sent = p.sent
  BY <1>1, <1>2 DEF Ports
<1> HIDE DEF q
<1>5. Lists(q, g) /\ Moves(p, q) /\ Open(q) \subseteq Open(p)
  BY <1>1, <1>2, <1>4, FewerKeep
<1>6. Reasons(q)
  BY <1>1, <1>2, <1>4 DEF Reasons, MustWait, Active, Cleared
<1>7. \A x \in Cleared(p) \cap Messages : ~p.tx[x].reply /\ x \notin ToSet(p.sent)
  <2> SUFFICES ASSUME NEW x \in Cleared(p) \cap Messages
               PROVE  ~p.tx[x].reply /\ x \notin ToSet(p.sent)
    OBVIOUS
  <2>1. CASE x \in ToSet(p.new)
    BY <2>1 DEF Lists
  <2>2. CASE x \in ToSet(p.pend)
    BY <2>2, FreshTyped DEF Lists, All, Active
  <2> QED
    BY <2>1, <2>2 DEF Cleared
<1>8. Open(q) \cap Cleared(p) = {}
  BY <1>1, <1>2, <1>4, <1>7 DEF Open, Active
<1>9. Cleared(p) \cap Messages \subseteq Open(p) /\ Active(q) \subseteq Active(p)
  BY <1>1, <1>4 DEF Cleared, Open, Active
<1> QED
  BY <1>3, <1>4, <1>5, <1>6, <1>8, <1>9

LEMMA ReInitKeeps ==
  ASSUME NEW g \in SUBSET Messages, NEW p \in Ports, Lists(p, g), Reasons(p), Idle(p) # {}
  PROVE  LET q == ReInitSerialPort(p)
         IN  /\ q \in Ports /\ Lists(q, g) /\ Moves(p, q) /\ Reasons(q)
             /\ q.sent = p.sent /\ Open(q) \subseteq Open(p)
<1> DEFINE i == CHOOSE i \in Idle(p) : TRUE
           new == Append(p.new, i)
           q == [p EXCEPT !.new = new, !.tx[i].cmd = "INIT"]
<1>1. i \in Inits /\ i \in All /\ i \notin Active(p)
  BY DEF Idle, All, Lists, Stages
<1>2. p.new \in Seq(All) /\ p.tx \in [All -> Transactions]
  BY DEF Ports
<1>3. q = ReInitSerialPort(p)
  BY DEF ReInitSerialPort
<1> HIDE DEF i
<1>4. new \in Seq(All) /\ ToSet(new) = ToSet(p.new) \cup {i}
  BY <1>1, <1>2, AppendMembers
<1> DEFINE t == [p.tx[i] EXCEPT !.cmd = "INIT"]
           entries == [p.tx EXCEPT ![i] = t]
<1>5. t \in Transactions /\ t.confirmId = p.tx[i].confirmId /\ t.cmd \in Stages
  BY <1>1, <1>2 DEF Transactions, Cmds, Stages
<1>6. q = [p EXCEPT !.new = new, !.tx = entries]
  BY <1>1, <1>2 DEF Ports
<1> HIDE DEF q, new, t
<1>7. entries \in [All -> Transactions] /\ entries[i] = t /\ \A x \in All : x # i => entries[x] = p.tx[x]
  BY <1>1, <1>2, <1>5
<1> HIDE DEF entries
<1>8. q \in Ports /\ q.new = new /\ q.sent = p.sent /\ q.pend = p.pend /\ q.tx = entries
  BY <1>4, <1>6, <1>7 DEF Ports
<1>9. \A x \in Messages : x # i /\ q.tx[x] = p.tx[x]
  BY <1>1, <1>7, <1>8, Disjoint DEF All
<1>10. Active(q) = Active(p) \cup {i}
  BY <1>4, <1>8 DEF Active
<1>11. Lists(q, g)
  <2>1. ToSet(q.pend) \cap Active(q) = {}
    BY <1>1, <1>8, <1>10, Disjoint DEF Lists
  <2>2. ToSet(q.new) \cap ToSet(q.sent) = {}
    BY <1>1, <1>4, <1>8 DEF Lists, Active
  <2>3. \A x \in ToSet(q.new) \cap Messages : ~q.tx[x].reply
    BY <1>4, <1>8, <1>9 DEF Lists
  <2>4. \A x \in Inits : q.tx[x].confirmId = 0 /\ (x \in Active(q) => q.tx[x].cmd \in Stages)
    BY <1>5, <1>7, <1>8, <1>10, <1>1 DEF Lists, All
  <2> QED
    BY <1>1, <1>8, <1>9, <1>10, <2>1, <2>2, <2>3, <2>4 DEF Lists
<1>12. Reasons(q)
  BY <1>8, <1>10 DEF Reasons, MustWait
<1>13. Moves(p, q) /\ Open(q) \subseteq Open(p)
  BY <1>8, <1>9, <1>10 DEF Moves, Open
<1> QED
  BY <1>3, <1>8, <1>11, <1>12, <1>13

\* Only transaction x is another.
Changed(p, q, x) ==
  /\ q.new = p.new /\ q.sent = p.sent /\ q.pend = p.pend
  /\ \A y \in All : y # x => q.tx[y] = p.tx[y]

LEMMA ChangeKeeps ==
  ASSUME NEW g \in SUBSET Messages, NEW p \in Ports, Lists(p, g), Reasons(p),
         NEW x \in All, NEW q \in Ports, Changed(p, q, x),
         x \in Messages => x \in g /\ x \notin ToSet(p.pend),
         x \in ToSet(p.new) \cap Messages => ~q.tx[x].reply,
         x \in Inits => q.tx[x].confirmId = 0 /\ (x \in Active(p) => q.tx[x].cmd \in Stages)
  PROVE  /\ Lists(q, g) /\ Reasons(q) /\ Active(q) = Active(p)
         /\ x \in Messages /\ ~q.tx[x].reply => Open(q) \subseteq Open(p)
         /\ x \notin Messages \/ x \in Open(p) => Open(q) \subseteq Open(p)
<1>1. Active(q) = Active(p)
  BY DEF Active, Changed
<1>2. Reasons(q)
  BY <1>1 DEF Reasons, MustWait, Changed
<1>3. \A y \in Messages : y # x => q.tx[y] = p.tx[y]
  BY DEF Changed, All
<1>4. \A y \in Inits : y # x => q.tx[y] = p.tx[y]
  BY DEF Changed, All
<1>5. Lists(q, g)
  BY <1>1, <1>3, <1>4 DEF Lists, Changed
<1>6. x \in Messages /\ ~q.tx[x].reply => Open(q) \subseteq Open(p)
  BY <1>1, <1>3 DEF Open, Changed
<1>7. x \notin Messages \/ x \in Open(p) => Open(q) \subseteq Open(p)
  BY <1>1, <1>3 DEF Open, Changed
<1> QED
  BY <1>1, <1>2, <1>5, <1>6, <1>7

\* What is sent, if anything.
Chosen(p, q, x, g) ==
  /\ Lists(q, g) /\ Reasons(q) /\ Moves(p, q) /\ Open(q) \subseteq Open(p)
  /\ ToSet(q.sent) \subseteq ToSet(p.sent) \cup {x} /\ x \in ToSet(q.sent)
  /\ q.tx[x].frame # NoFrame

LEMMA Sends ==
  ASSUME NEW g \in SUBSET Messages, NEW p \in Ports, Lists(p, g), Reasons(p),
         NEW rest, NEW fw, NEW cost, CheckSendMsgQ(p, rest, fw, cost)
  PROVE  \/ NoWrite(p, rest, fw, cost)
         \/ \E x \in All, q \in Ports : Chosen(p, q, x, g) /\ Write(q, x, rest, fw, cost)
<1> SUFFICES ASSUME ~NoWrite(p, rest, fw, cost)
             PROVE  \E x \in All, q \in Ports : Chosen(p, q, x, g) /\ Write(q, x, rest, fw, cost)
  OBVIOUS
<1> DEFINE i == CHOOSE i \in Ready(p) : \A j \in Ready(p) : i <= j
           x == p.new[i]
           new == Without(p.new, {x})
           sent == Append(p.sent, x)
           r == [p EXCEPT !.new = new, !.sent = sent]
           q == CheckJ1939Pending(r)
<1>1. Ready(p) # {} /\ Write(q, x, rest, fw, cost)
  BY DEF CheckSendMsgQ
<1>2. p.new \in Seq(All) /\ p.sent \in Seq(All)
  BY DEF Ports
<1>3. Ready(p) \subseteq 1 .. Len(p.new) /\ Ready(p) \subseteq Nat
  <2>1. DOMAIN p.new = 1 .. Len(p.new) /\ Len(p.new) \in Nat
    BY <1>2, LenProperties
  <2> QED
    BY <2>1 DEF Ready
<1>4. i \in Ready(p)
  <2>1. \E n \in Ready(p) : \A j \in Ready(p) : n <= j
    BY <1>1, <1>3, Smallest
  <2> QED
    BY <2>1
<1>5. x \in ToSet(p.new) /\ x \in All /\ p.tx[x].frame # NoFrame
  <2> HIDE DEF i
  <2>1. p.new[i] \in All /\ p.new[i] \in ToSet(p.new)
    BY <1>2, <1>3, <1>4, Members, ElementOfSeq
  <2> QED
    BY <1>4, <2>1 DEF Ready
<1> HIDE DEF x
<1>6. /\ new \in Seq(All) /\ ToSet(new) = ToSet(p.new) \ {x}
      /\ sent \in Seq(All) /\ ToSet(sent) = ToSet(p.sent) \cup {x}
  BY <1>2, <1>5, WithoutFacts, AppendMembers
<1> HIDE DEF new, sent
<1>7. r \in Ports /\ r.tx = p.tx /\ r.pend = p.pend /\ r.new = new /\ r.sent = sent
  BY <1>6 DEF Ports
<1> HIDE DEF r
<1>8. Active(r) = Active(p)
  BY <1>5, <1>6, <1>7 DEF Active
<1>9. Lists(r, g)
  <2>1. ToSet(r.new) \cap ToSet(r.sent) = {}
    BY <1>6, <1>7 DEF Lists
  <2>2. \A y \in ToSet(r.new) \cap Messages : ~r.tx[y].reply
    BY <1>6, <1>7 DEF Lists
  <2> QED
    BY <1>7, <1>8, <2>1, <2>2 DEF Lists
<1>10. /\ q \in Ports /\ Lists(q, g) /\ Moves(r, q) /\ Reasons(q)
       /\ q.sent = r.sent /\ Open(q) \subseteq Open(r)
       /\ \A y \in All : y \in Active(r) \/ y \notin g => q.tx[y] = r.tx[y]
  BY <1>7, <1>9, CheckKeeps
<1> HIDE DEF q
<1>11. Moves(p, q) /\ Open(q) \subseteq Open(p)
  BY <1>7, <1>8, <1>10 DEF Moves, Open
<1>12. q.tx[x].frame # NoFrame
  BY <1>5, <1>7, <1>8, <1>10 DEF Active
<1>13. Chosen(p, q, x, g)
  BY <1>6, <1>7, <1>10, <1>11, <1>12 DEF Chosen
<1> QED
  BY <1>1, <1>5, <1>10, <1>13

(***************************************************************************)
(* What the firmware answers, and what it means for the transactions.      *)
(***************************************************************************)
LEMMA ItemsMade ==
  ASSUME NEW id \in Nat, NEW ok \in BOOLEAN, NEW x \in Messages, NEW n \in Nat \ {0}
  PROVE  /\ Ack(id) \in Items /\ Ack(id).type = "ack"
         /\ Refusal(id) \in Items /\ Refusal(id).type = "refusal"
         /\ Confirm(id, ok) \in Items /\ Confirm(id, ok).type = "confirm"
         /\ Confirm(id, ok).id = id /\ Confirm(id, ok).ok = ok
         /\ CTS(x, n) \in Items /\ CTS(x, n).type = "cts" /\ CTS(x, n).msg = x
         /\ EndOfMsg(x) \in Items /\ EndOfMsg(x).type = "eom" /\ EndOfMsg(x).msg = x
<1>1. Ack(id) \in Items /\ Ack(id).type = "ack" /\ Refusal(id) \in Items /\ Refusal(id).type = "refusal"
  BY DEF Items, Ack, Refusal
<1>2. Confirm(id, ok) \in Items /\ Confirm(id, ok).type = "confirm"
      /\ Confirm(id, ok).id = id /\ Confirm(id, ok).ok = ok
  BY DEF Items, Confirm
<1>3. CTS(x, n) \in Items /\ CTS(x, n).type = "cts" /\ CTS(x, n).msg = x
  BY DEF Items, CTS
<1>4. EndOfMsg(x) \in Items /\ EndOfMsg(x).type = "eom" /\ EndOfMsg(x).msg = x
  BY DEF Items, EndOfMsg
<1> QED
  BY <1>1, <1>2, <1>3, <1>4

LEMMA ItemFields ==
  ASSUME NEW f \in Items
  PROVE  /\ f.type \in {"ack", "refusal", "confirm", "cts", "eom"}
         /\ f.type \in {"ack", "refusal", "confirm"} => f.id \in Nat
         /\ f.type = "confirm" => f.ok \in BOOLEAN
         /\ f.type = "cts" => f.msg \in Messages /\ f.next \in Nat \ {0}
         /\ f.type = "eom" => f.msg \in Messages
  BY DEF Items

\* At most one confirmation, or none.
OneConfirm(s) ==
  \A i, j \in 1 .. Len(s) : s[i].type = "confirm" /\ s[j].type = "confirm" => i = j
NoConfirm(s) == \A f \in ToSet(s) : f.type # "confirm"

LEMMA JoinOne ==
  ASSUME NEW s \in Seq(Items), NEW t \in Seq(Items),
         (OneConfirm(s) /\ NoConfirm(t)) \/ (NoConfirm(s) /\ OneConfirm(t))
  PROVE  s \o t \in Seq(Items) /\ ToSet(s \o t) = ToSet(s) \cup ToSet(t) /\ OneConfirm(s \o t)
<1> DEFINE u == s \o t
<1>1. /\ u \in Seq(Items) /\ Len(u) = Len(s) + Len(t) /\ Len(s) \in Nat /\ Len(t) \in Nat
      /\ \A i \in 1 .. Len(s) + Len(t) : u[i] = IF i <= Len(s) THEN s[i] ELSE t[i - Len(s)]
  BY ConcatProperties, LenProperties
<1>2. ToSet(u) = ToSet(s) \cup ToSet(t)
  BY JoinMembers
<1>3. /\ \A i \in 1 .. Len(s) : s[i] \in ToSet(s)
      /\ \A i \in 1 .. Len(t) : t[i] \in ToSet(t)
  BY Members
<1> HIDE DEF u
<1>4. OneConfirm(u)
  <2> SUFFICES ASSUME NEW i \in 1 .. Len(u), NEW j \in 1 .. Len(u),
                      u[i].type = "confirm", u[j].type = "confirm"
               PROVE  i = j
    BY DEF OneConfirm
  <2>1. CASE OneConfirm(s) /\ NoConfirm(t)
    <3>1. \A k \in 1 .. Len(u) : u[k].type = "confirm" => k \in 1 .. Len(s) /\ u[k] = s[k]
      <4> SUFFICES ASSUME NEW k \in 1 .. Len(u), u[k].type = "confirm"
                   PROVE  k \in 1 .. Len(s) /\ u[k] = s[k]
        OBVIOUS
      <4>1. k <= Len(s) \/ k - Len(s) \in 1 .. Len(t)
        BY <1>1
      <4>2. ~(k <= Len(s)) => u[k] \in ToSet(t)
        BY <1>1, <1>3, <4>1
      <4> QED
        BY <1>1, <2>1, <4>2 DEF NoConfirm
    <3> QED
      BY <2>1, <3>1 DEF OneConfirm
  <2>2. CASE NoConfirm(s) /\ OneConfirm(t)
    <3>1. \A k \in 1 .. Len(u) : u[k].type = "confirm" =>
             k - Len(s) \in 1 .. Len(t) /\ u[k] = t[k - Len(s)]
      <4> SUFFICES ASSUME NEW k \in 1 .. Len(u), u[k].type = "confirm"
                   PROVE  k - Len(s) \in 1 .. Len(t) /\ u[k] = t[k - Len(s)]
        OBVIOUS
      <4>1. k <= Len(s) => k \in 1 .. Len(s) /\ u[k] \in ToSet(s)
        BY <1>1, <1>3
      <4>2. ~(k <= Len(s))
        BY <2>2, <4>1 DEF NoConfirm
      <4> QED
        BY <1>1, <4>2
    <3>2. i - Len(s) = j - Len(s)
      BY <2>2, <3>1 DEF OneConfirm
    <3> QED
      BY <1>1, <3>2
  <2> QED
    BY <2>1, <2>2
<1> QED
  BY <1>1, <1>2, <1>4 DEF u

LEMMA ShortOne ==
  ASSUME NEW f \in Items
  PROVE  /\ <<f>> \in Seq(Items) /\ ToSet(<<f>>) = {f} /\ OneConfirm(<<f>>)
         /\ <<>> \in Seq(Items) /\ ToSet(<<>>) = {} /\ OneConfirm(<<>>) /\ NoConfirm(<<>>)
<1>1. <<f>> \in Seq(Items) /\ Len(<<f>>) = 1 /\ <<f>>[1] = f /\ DOMAIN <<f>> = 1 .. 1
  OBVIOUS
<1>2. <<>> \in Seq(Items) /\ ToSet(<<>>) = {} /\ Len(<<>>) = 0
  BY EmptyMembers
<1>3. ToSet(<<f>>) = {f}
  BY <1>1 DEF ToSet
<1>4. OneConfirm(<<f>>)
  BY <1>1 DEF OneConfirm
<1>5. OneConfirm(<<>>) /\ NoConfirm(<<>>)
  BY <1>2 DEF OneConfirm, NoConfirm
<1> QED
  BY <1>1, <1>2, <1>3, <1>4, <1>5

\* What f says of transaction t of x that was sent under id, if `sent` is true.
Says(f, x, t, id, sent, bus) ==
  /\ f.type = "confirm" => f.id = id /\ (f.ok => sent)
  /\ f.type = "cts" => f.msg = x /\ RTS(x) /\ sent
  /\ f.type = "eom" => f.msg = x /\ RTS(x) /\ sent /\ t.frame # 0
                         /\ 1 .. Frames[x] \subseteq bus[x] \cup {t.frame}

LEMMA PeerFacts ==
  ASSUME NEW x \in Messages, NEW k \in Nat, NEW bus
  PROVE  LET peer == PeerAnswer(x, k, bus)
         IN  /\ peer \in Seq(Items) /\ OneConfirm(peer) /\ NoConfirm(peer)
             /\ \A f \in ToSet(peer) :
                  /\ f.type \in {"cts", "eom"} /\ f.msg = x /\ RTS(x)
                  /\ f.type = "eom" => k # 0 /\ 1 .. Frames[x] \subseteq bus
<1> DEFINE peer == PeerAnswer(x, k, bus)
<1>1. /\ CTS(x, 1) \in Items /\ CTS(x, 1).type = "cts" /\ CTS(x, 1).msg = x
      /\ CTS(x, k + 1) \in Items /\ CTS(x, k + 1).type = "cts" /\ CTS(x, k + 1).msg = x
      /\ EndOfMsg(x) \in Items /\ EndOfMsg(x).type = "eom" /\ EndOfMsg(x).msg = x
  <2>1. \A n \in Nat \ {0} : CTS(x, n) \in Items /\ CTS(x, n).type = "cts" /\ CTS(x, n).msg = x
    BY DEF Items, CTS
  <2>2. EndOfMsg(x) \in Items /\ EndOfMsg(x).type = "eom" /\ EndOfMsg(x).msg = x
    BY DEF Items, EndOfMsg
  <2>3. 1 \in Nat \ {0} /\ k + 1 \in Nat \ {0}
    OBVIOUS
  <2>4. CTS(x, 1) \in Items /\ CTS(x, 1).type = "cts" /\ CTS(x, 1).msg = x
    BY <2>1, <2>3
  <2>5. CTS(x, k + 1) \in Items /\ CTS(x, k + 1).type = "cts" /\ CTS(x, k + 1).msg = x
    BY <2>1, <2>3
  <2> QED
    BY <2>2, <2>4, <2>5
<1>2. \/ peer = <<>>
      \/ RTS(x) /\ peer \in {<<CTS(x, 1)>>, <<CTS(x, k + 1)>>}
      \/ RTS(x) /\ peer = <<EndOfMsg(x)>> /\ k # 0 /\ 1 .. Frames[x] \subseteq bus
  BY DEF PeerAnswer
<1> HIDE DEF peer
<1>3. CASE peer = <<>>
  <2>1. peer \in Seq(Items) /\ ToSet(peer) = {} /\ OneConfirm(peer) /\ NoConfirm(peer)
    BY <1>1, <1>3, ShortOne
  <2> QED
    BY <2>1 DEF peer
<1>4. CASE RTS(x) /\ peer \in {<<CTS(x, 1)>>, <<CTS(x, k + 1)>>}
  <2>1. PICK f \in {CTS(x, 1), CTS(x, k + 1)} : peer = <<f>>
    BY <1>4
  <2>2. f \in Items /\ f.type = "cts" /\ f.msg = x
    BY <1>1
  <2>3. peer \in Seq(Items) /\ ToSet(peer) = {f} /\ OneConfirm(peer)
    BY <2>1, <2>2, ShortOne
  <2> QED
    BY <1>4, <2>2, <2>3 DEF NoConfirm, peer
<1>5. CASE RTS(x) /\ peer = <<EndOfMsg(x)>> /\ k # 0 /\ 1 .. Frames[x] \subseteq bus
  <2>1. peer \in Seq(Items) /\ ToSet(peer) = {EndOfMsg(x)} /\ OneConfirm(peer)
    BY <1>1, <1>5, ShortOne
  <2> QED
    BY <1>1, <1>5, <2>1 DEF NoConfirm, peer
<1> QED
  BY <1>2, <1>3, <1>4, <1>5 DEF peer

LEMMA OutcomeFacts ==
  ASSUME NEW x \in All, NEW t \in Transactions, x \in Messages => t.frame # NoFrame,
         NEW id \in Nat,
         NEW fw \in [confirming : BOOLEAN, bus : [Messages -> SUBSET Int]],
         NEW o \in Outcomes(x, t, id, fw)
  PROVE  /\ o.out \in Seq(Items) /\ OneConfirm(o.out)
         /\ o.sent \in BOOLEAN /\ o.confirming \in BOOLEAN /\ (o.sent => x \in Messages)
         /\ \A f \in ToSet(o.out) : Says(f, x, t, id, o.sent, fw.bus)
<1> DEFINE peer == PeerAnswer(x, t.frame, fw.bus[x] \cup {t.frame})
           c(ok) == IF fw.confirming THEN <<Confirm(id, ok)>> ELSE <<>>
           ack == <<Ack(id)>>
<1>1. fw.confirming \in BOOLEAN
  OBVIOUS
<1>2. /\ ack \in Seq(Items) /\ ToSet(ack) = {Ack(id)} /\ OneConfirm(ack)
      /\ Ack(id).type = "ack"
      /\ <<Refusal(id)>> \in Seq(Items) /\ ToSet(<<Refusal(id)>>) = {Refusal(id)}
      /\ OneConfirm(<<Refusal(id)>>) /\ Refusal(id).type = "refusal"
      /\ <<>> \in Seq(Items) /\ ToSet(<<>>) = {} /\ OneConfirm(<<>>)
  <2>1. Ack(id) \in Items /\ Ack(id).type = "ack" /\ Refusal(id) \in Items /\ Refusal(id).type = "refusal"
    BY DEF Items, Ack, Refusal
  <2> QED
    BY <2>1, ShortOne
<1>3. NoConfirm(ack)
  BY <1>2 DEF NoConfirm
<1>4. ASSUME NEW ok \in BOOLEAN
      PROVE  /\ c(ok) \in Seq(Items) /\ OneConfirm(c(ok))
             /\ \A f \in ToSet(c(ok)) : f.type = "confirm" /\ f.id = id /\ f.ok = ok
  <2>1. Confirm(id, ok) \in Items /\ Confirm(id, ok).type = "confirm"
        /\ Confirm(id, ok).id = id /\ Confirm(id, ok).ok = ok
    BY DEF Items, Confirm
  <2> QED
    BY <2>1, ShortOne
<1>5. CASE x \in Inits
  <2> DEFINE on == CASE t.cmd = "INIT" -> FALSE [] t.cmd = "CONFIRM" -> TRUE
                     [] OTHER -> fw.confirming
  <2>2. on \in BOOLEAN
    BY <1>1
  <2>3. o \in {Outcome(<<>>, FALSE, fw.confirming, 1), Outcome(ack, FALSE, on, 0)}
    BY <1>5 DEF Outcomes
  <2> HIDE DEF on, ack
  <2>1. o.out \in {<<>>, ack} /\ o.sent = FALSE /\ o.confirming \in BOOLEAN
    BY <1>1, <2>2, <2>3 DEF Outcome
  <2> QED
    BY <1>2, <2>1 DEF Says
<1>6. CASE x \in Messages
  <2>1. t.frame \in Nat
    BY <1>6 DEF Transactions
  <2> DEFINE bus == fw.bus[x] \cup {t.frame}
  <2>2. /\ peer \in Seq(Items) /\ OneConfirm(peer) /\ NoConfirm(peer)
        /\ \A f \in ToSet(peer) :
             /\ f.type \in {"cts", "eom"} /\ f.msg = x /\ RTS(x)
             /\ f.type = "eom" => t.frame # 0 /\ 1 .. Frames[x] \subseteq bus
    <3> HIDE DEF bus
    <3>1. LET answer == PeerAnswer(x, t.frame, bus)
          IN  /\ answer \in Seq(Items) /\ OneConfirm(answer) /\ NoConfirm(answer)
              /\ \A f \in ToSet(answer) :
                   /\ f.type \in {"cts", "eom"} /\ f.msg = x /\ RTS(x)
                   /\ f.type = "eom" => t.frame # 0 /\ 1 .. Frames[x] \subseteq bus
      BY <1>6, <2>1, PeerFacts
    <3> QED
      BY <3>1 DEF bus
  <2>3. x \notin Inits
    BY <1>6, Disjoint
  <2> DEFINE failed == ack \o c(FALSE)
             before == (ack \o c(TRUE)) \o peer
             after == (ack \o peer) \o c(TRUE)
  <2>17. o \in {Outcome(<<>>, FALSE, fw.confirming, 1),
                Outcome(<<Refusal(id)>>, FALSE, fw.confirming, 1),
                Outcome(failed, FALSE, fw.confirming, 1),
                Outcome(before, TRUE, fw.confirming, 0),
                Outcome(after, TRUE, fw.confirming, 0)}
    BY <2>3 DEF Outcomes
  <2> HIDE DEF peer, c, ack, failed, before, after
  <2>18. \/ o.out \in {<<>>, <<Refusal(id)>>, failed} /\ o.sent = FALSE
         \/ o.out \in {before, after} /\ o.sent = TRUE
    BY <2>17 DEF Outcome
  <2>4. \/ o.out \in {<<>>, <<Refusal(id)>>, ack \o c(FALSE)} /\ o.sent = FALSE
        \/ o.out \in {(ack \o c(TRUE)) \o peer, (ack \o peer) \o c(TRUE)} /\ o.sent = TRUE
    BY <2>18 DEF failed, before, after
  <2>5. o.confirming = fw.confirming
    BY <2>17 DEF Outcome
  <2>6. /\ \A ok \in BOOLEAN : /\ ack \o c(ok) \in Seq(Items) /\ OneConfirm(ack \o c(ok))
                               /\ ToSet(ack \o c(ok)) = ToSet(ack) \cup ToSet(c(ok))
        /\ ack \o peer \in Seq(Items) /\ OneConfirm(ack \o peer)
        /\ ToSet(ack \o peer) = ToSet(ack) \cup ToSet(peer)
    BY <1>2, <1>3, <1>4, <2>2, JoinOne
  <2>7. NoConfirm(ack \o peer)
    BY <1>3, <2>2, <2>6 DEF NoConfirm
  <2>8. /\ (ack \o c(TRUE)) \o peer \in Seq(Items) /\ OneConfirm((ack \o c(TRUE)) \o peer)
        /\ ToSet((ack \o c(TRUE)) \o peer) = (ToSet(ack) \cup ToSet(c(TRUE))) \cup ToSet(peer)
    <3> DEFINE s == ack \o c(TRUE)
    <3>1. s \in Seq(Items) /\ OneConfirm(s) /\ ToSet(s) = ToSet(ack) \cup ToSet(c(TRUE))
      BY <2>6
    <3> HIDE DEF s
    <3>2. s \o peer \in Seq(Items) /\ ToSet(s \o peer) = ToSet(s) \cup ToSet(peer) /\ OneConfirm(s \o peer)
      BY <2>2, <3>1, JoinOne
    <3> QED
      BY <3>1, <3>2 DEF s
  <2>9. /\ (ack \o peer) \o c(TRUE) \in Seq(Items) /\ OneConfirm((ack \o peer) \o c(TRUE))
        /\ ToSet((ack \o peer) \o c(TRUE)) = (ToSet(ack) \cup ToSet(peer)) \cup ToSet(c(TRUE))
    <3> DEFINE s == ack \o peer
               u == c(TRUE)
    <3>1. s \in Seq(Items) /\ NoConfirm(s) /\ ToSet(s) = ToSet(ack) \cup ToSet(peer)
          /\ u \in Seq(Items) /\ OneConfirm(u)
      BY <1>4, <2>6, <2>7
    <3> HIDE DEF s, u
    <3>2. s \o u \in Seq(Items) /\ ToSet(s \o u) = ToSet(s) \cup ToSet(u) /\ OneConfirm(s \o u)
      BY <3>1, JoinOne
    <3> QED
      BY <3>1, <3>2 DEF s, u
  <2>10. o.out \in Seq(Items) /\ OneConfirm(o.out) /\ o.sent \in BOOLEAN /\ o.confirming \in BOOLEAN
    BY <1>1, <1>2, <2>4, <2>5, <2>6, <2>8, <2>9
  <2>11. \A f \in ToSet(ack) : Says(f, x, t, id, o.sent, fw.bus)
    BY <1>2 DEF Says
  <2>12. \A f \in ToSet(c(FALSE)) : Says(f, x, t, id, o.sent, fw.bus)
    BY <1>4 DEF Says
  <2>13. o.sent => \A f \in ToSet(c(TRUE)) : Says(f, x, t, id, o.sent, fw.bus)
    BY <1>4 DEF Says
  <2>14. o.sent => \A f \in ToSet(peer) : Says(f, x, t, id, o.sent, fw.bus)
    BY <2>2 DEF Says
  <2>15. \A f \in ToSet(<<Refusal(id)>>) : Says(f, x, t, id, o.sent, fw.bus)
    BY <1>2 DEF Says
  <2>16. \A f \in ToSet(o.out) : Says(f, x, t, id, o.sent, fw.bus)
    <3>1. CASE o.sent = FALSE
      <4>1. ToSet(o.out) \in {ToSet(<<>>), ToSet(<<Refusal(id)>>), ToSet(ack) \cup ToSet(c(FALSE))}
        BY <2>4, <2>6, <3>1
      <4> QED
        BY <1>2, <2>11, <2>12, <2>15, <4>1
    <3>2. CASE o.sent = TRUE
      <4>1. ToSet(o.out) \subseteq ToSet(ack) \cup ToSet(c(TRUE)) \cup ToSet(peer)
        BY <2>4, <2>8, <2>9, <3>2
      <4> QED
        BY <2>11, <2>13, <2>14, <3>2, <4>1
    <3> QED
      BY <2>4, <3>1, <3>2
  <2> QED
    BY <1>6, <2>10, <2>16
<1> QED
  BY <1>5, <1>6 DEF All

LEMMA FetchedFields ==
  ASSUME NEW x \in Messages, J1939(x)
  PROVE  /\ Fetched(x).frame = 0 /\ Fetched(x).next = 1 /\ Fetched(x).max = 0
         /\ Fetched(x).cmd = Fresh(x).cmd /\ ~Fetched(x).reply /\ ~Fetched(x).complete
         /\ Fetched(x).pktId = 0 /\ Fetched(x).confirmId = 0
  BY SerialAssumption DEF Fetched, Fresh, GetCANPacket

\* The first frame of one that waited tells nobody anything.
LEMMA MovesTransmit ==
  ASSUME NEW p \in Ports, NEW q \in Ports, Moves(p, q), NEW id \in Nat,
         NEW S, NEW l, NEW bus, NEW sp,
         AllTransmit(p, S, l, bus, id, sp), Incoming(l, bus, id)
  PROVE  AllTransmit(q, S, l, bus, id, sp)
<1> SUFFICES ASSUME NEW x \in Messages
             PROVE  Transmits(x, q.tx[x], S, l, bus, id, sp)
  BY DEF AllTransmit
<1>1. CASE q.tx[x] = p.tx[x]
  BY <1>1 DEF AllTransmit
<1>2. CASE J1939(x) /\ q.tx[x] = Fetched(x)
  <2> DEFINE t == Fetched(x)
  <2>1. /\ t.frame = 0 /\ t.next = 1 /\ t.max = 0 /\ t.cmd = Fresh(x).cmd
        /\ ~t.reply /\ ~t.complete /\ t.pktId = 0 /\ t.confirmId = 0
    BY <1>2, FetchedFields
  <2>2. Frames[x] \in Nat
    BY SerialAssumption
  <2> HIDE DEF t
  <2>3. \A f \in ToSet(l) : f.type = "confirm" => f.id # 0
    BY DEF Incoming
  <2>4. Steady(x, t, S, l, bus)
    BY <2>1, <2>2, <2>3 DEF Steady
  <2>5. Transmits(x, t, S, l, bus, id, sp)
    BY <2>1, <2>4 DEF Transmits, NoFrame
  <2> QED
    BY <1>2, <2>5 DEF t
<1> QED
  BY <1>1, <1>2 DEF Moves

\* Less is sent, less has come.
LEMMA LessTransmit ==
  ASSUME NEW p \in Ports, NEW id \in Nat, NEW S, NEW T \in SUBSET S, NEW l, NEW k,
         ToSet(k) \subseteq ToSet(l), NEW bus, NEW sp, NEW sq, sp \subseteq sq,
         AllTransmit(p, S, l, bus, id, sp)
  PROVE  AllTransmit(p, T, k, bus, id, sq)
  BY DEF AllTransmit, Transmits, Steady, Repeated

Firmwares == [confirming : BOOLEAN, bus : [Messages -> SUBSET Int]]
Grows(bus, b) == \A x \in Messages : bus[x] \subseteq b[x]
Transmitted(fw, x, t, o) ==
  [confirming |-> o.confirming,
   bus |-> IF o.sent THEN [fw.bus EXCEPT ![x] = @ \cup {t.frame}] ELSE fw.bus]

LEMMA SentFacts ==
  ASSUME NEW fw \in Firmwares, NEW x \in All, NEW t \in Transactions, NEW o,
         o.sent \in BOOLEAN, o.confirming \in BOOLEAN, o.sent => x \in Messages
  PROVE  LET g == Transmitted(fw, x, t, o)
         IN  /\ g \in Firmwares /\ Grows(fw.bus, g.bus)
             /\ o.sent => g.bus[x] = fw.bus[x] \cup {t.frame}
<1> DEFINE b == [fw.bus EXCEPT ![x] = @ \cup {t.frame}]
           c == IF o.sent THEN b ELSE fw.bus
           g == [confirming |-> o.confirming, bus |-> c]
<1>1. fw.bus \in [Messages -> SUBSET Int] /\ t.frame \in Int
  BY DEF Firmwares, Transactions, NoFrame
<1>2. o.sent => b \in [Messages -> SUBSET Int] /\ Grows(fw.bus, b) /\ b[x] = fw.bus[x] \cup {t.frame}
  BY <1>1 DEF Grows
<1> HIDE DEF b
<1>3. c \in [Messages -> SUBSET Int] /\ Grows(fw.bus, c) /\ (o.sent => c[x] = fw.bus[x] \cup {t.frame})
  BY <1>1, <1>2 DEF Grows
<1>4. Transmitted(fw, x, t, o) = g
  BY DEF Transmitted, b
<1> HIDE DEF c
<1>5. g \in Firmwares /\ g.bus = c
  BY <1>3 DEF Firmwares
<1> QED
  BY <1>3, <1>4, <1>5

Written(p, x, id) == [p EXCEPT !.tx[x].pktId = id, !.tx[x].reply = TRUE]

LEMMA WrittenFacts ==
  ASSUME NEW p \in Ports, NEW x \in All, NEW id \in Nat
  PROVE  LET q == Written(p, x, id)
             t == q.tx[x]
             u == p.tx[x]
         IN  /\ q \in Ports /\ Changed(p, q, x) /\ t.pktId = id /\ t.reply
             /\ t.cmd = u.cmd /\ t.frame = u.frame /\ t.next = u.next /\ t.max = u.max
             /\ t.complete = u.complete /\ t.confirmId = u.confirmId
<1> DEFINE u == p.tx[x]
           t == [u EXCEPT !.pktId = id, !.reply = TRUE]
           entries == [p.tx EXCEPT ![x] = t]
           q == [p EXCEPT !.tx = entries]
<1>1. p.tx \in [All -> Transactions] /\ u \in Transactions
  BY DEF Ports
<1>2. q = Written(p, x, id)
  BY <1>1 DEF Written, Ports
<1> HIDE DEF u
<1>3. /\ t \in Transactions /\ t.pktId = id /\ t.reply
      /\ t.cmd = u.cmd /\ t.frame = u.frame /\ t.next = u.next /\ t.max = u.max
      /\ t.complete = u.complete /\ t.confirmId = u.confirmId
  BY <1>1 DEF Transactions
<1> HIDE DEF t
<1>4. entries \in [All -> Transactions] /\ entries[x] = t /\ \A y \in All : y # x => entries[y] = p.tx[y]
  BY <1>1, <1>3
<1> HIDE DEF entries
<1>5. q \in Ports /\ q.tx = entries /\ q.new = p.new /\ q.sent = p.sent /\ q.pend = p.pend
  BY <1>4 DEF Ports
<1> HIDE DEF q
<1> QED
  BY <1>2, <1>3, <1>4, <1>5 DEF Changed, u
\* The line after a packet of x under id + 1: confirmations stay in order, and what
\* a receiver says is true.
LEMMA IncomingKeeps ==
  ASSUME NEW rest \in Seq(Items), NEW out \in Seq(Items), NEW bus, NEW b, Grows(bus, b),
         NEW id \in Nat, Incoming(rest, bus, id), OneConfirm(out),
         \A f \in ToSet(out) :
           /\ f.type = "confirm" => f.id = id + 1
           /\ f.type = "cts" => RTS(f.msg) /\ 0 \in b[f.msg]
           /\ f.type = "eom" => RTS(f.msg) /\ Whole(f.msg, b)
  PROVE  Incoming(rest \o out, b, id + 1)
<1> DEFINE l == rest \o out
<1>1. /\ Len(l) = Len(rest) + Len(out) /\ Len(rest) \in Nat /\ Len(out) \in Nat
      /\ \A i \in 1 .. Len(rest) + Len(out) :
           l[i] = IF i <= Len(rest) THEN rest[i] ELSE out[i - Len(rest)]
  BY ConcatProperties, LenProperties
<1>2. ToSet(l) = ToSet(rest) \cup ToSet(out)
  BY JoinMembers
<1>3. /\ \A i \in 1 .. Len(rest) : rest[i] \in ToSet(rest)
      /\ \A i \in 1 .. Len(out) : out[i] \in ToSet(out)
  BY Members
<1>4. \A f \in ToSet(rest) \cup ToSet(out) : f \in Items
  BY Members
<1> HIDE DEF l
<1>5. ASSUME NEW f \in ToSet(l)
      PROVE  /\ f.type = "confirm" => f.id \in 1 .. id + 1
             /\ f.type = "cts" => RTS(f.msg) /\ 0 \in b[f.msg]
             /\ f.type = "eom" => RTS(f.msg) /\ Whole(f.msg, b)
  <2>1. CASE f \in ToSet(rest)
    <3>1. f.type = "cts" \/ f.type = "eom" => f.msg \in Messages
      BY <1>4, <2>1, ItemFields
    <3> QED
      BY <2>1, <3>1 DEF Incoming, Grows, Whole
  <2>2. CASE f \in ToSet(out)
    BY <2>2
  <2> QED
    BY <1>2, <2>1, <2>2
<1>6. ASSUME NEW i \in 1 .. Len(l), NEW j \in 1 .. Len(l), i < j,
             l[i].type = "confirm", l[j].type = "confirm"
      PROVE  l[i].id < l[j].id
  <2>1. CASE j <= Len(rest)
    BY <1>1, <1>6, <2>1 DEF Incoming
  <2>2. CASE i <= Len(rest) /\ ~(j <= Len(rest))
    <3>1. i \in 1 .. Len(rest) /\ l[i] = rest[i] /\ j - Len(rest) \in 1 .. Len(out)
          /\ l[j] = out[j - Len(rest)]
      BY <1>1, <2>2
    <3>2. l[i].id \in 1 .. id /\ l[j].id = id + 1
      BY <1>3, <1>6, <3>1 DEF Incoming
    <3> QED
      BY <3>2
  <2>3. CASE ~(i <= Len(rest))
    <3>1. i - Len(rest) \in 1 .. Len(out) /\ j - Len(rest) \in 1 .. Len(out)
          /\ l[i] = out[i - Len(rest)] /\ l[j] = out[j - Len(rest)]
      BY <1>1, <1>6, <2>3
    <3>2. i - Len(rest) = j - Len(rest)
      BY <1>6, <3>1 DEF OneConfirm
    <3> QED
      BY <1>1, <1>6, <3>2
  <2> QED
    BY <1>1, <2>1, <2>2, <2>3
<1>7. Incoming(l, b, id + 1)
  BY <1>5, <1>6 DEF Incoming
<1> QED
  BY <1>7 DEF l

\* A packet is written: the transactions still know what was transmitted.
LEMMA WriteKeeps ==
  ASSUME NEW p \in Ports, NEW x \in All, NEW rest \in Seq(Items), NEW fw \in Firmwares,
         NEW cost, packetId \in Nat, NEW S, ToSet(p.sent) \subseteq S \cup {x}, NEW sp,
         x \in Messages => p.tx[x].frame # NoFrame,
         AllTransmit(p, S, rest, fw.bus, packetId, sp), Incoming(rest, fw.bus, packetId),
         Write(p, x, rest, fw, cost)
  PROVE  /\ port' \in Ports /\ Changed(p, port', x)
         /\ port'.tx[x].confirmId = p.tx[x].confirmId /\ port'.tx[x].cmd = p.tx[x].cmd
         /\ line' \in Seq(Items) /\ packetId' \in Nat /\ firmware' \in Firmwares
         /\ Grows(fw.bus, firmware'.bus)
         /\ AllTransmit(port', ToSet(port'.sent), line', firmware'.bus, packetId', sp)
         /\ Incoming(line', firmware'.bus, packetId')
<1> DEFINE u == p.tx[x]
           id == packetId + 1
<1>1. p.tx \in [All -> Transactions] /\ u \in Transactions
  BY DEF Ports
<1>2. PICK o \in Outcomes(x, u, id, fw) :
        /\ packetId' = id /\ port' = Written(p, x, id) /\ line' = rest \o o.out
        /\ firmware' = Transmitted(fw, x, u, o)
  BY DEF Write, Written, Transmitted
<1> DEFINE q == Written(p, x, id)
           t == q.tx[x]
           g == Transmitted(fw, x, u, o)
           l == rest \o o.out
<1>3. id \in Nat /\ fw \in [confirming : BOOLEAN, bus : [Messages -> SUBSET Int]]
  BY DEF Firmwares
<1>4. /\ o.out \in Seq(Items) /\ OneConfirm(o.out)
      /\ o.sent \in BOOLEAN /\ o.confirming \in BOOLEAN /\ (o.sent => x \in Messages)
      /\ \A f \in ToSet(o.out) : Says(f, x, u, id, o.sent, fw.bus)
  <2>1. x \in Messages => u.frame # NoFrame
    OBVIOUS
  <2> HIDE DEF id, u
  <2> QED
    BY <1>1, <1>2, <1>3, <2>1, OutcomeFacts
<1>5. /\ q \in Ports /\ Changed(p, q, x) /\ t.pktId = id /\ t.reply
      /\ t.cmd = u.cmd /\ t.frame = u.frame /\ t.next = u.next /\ t.max = u.max
      /\ t.complete = u.complete /\ t.confirmId = u.confirmId
  <2> HIDE DEF id
  <2> QED
    BY <1>3, WrittenFacts
<1>6. /\ g \in Firmwares /\ Grows(fw.bus, g.bus)
      /\ o.sent => g.bus[x] = fw.bus[x] \cup {u.frame}
  <2> HIDE DEF u
  <2> QED
    BY <1>1, <1>4, SentFacts
<1>7. l \in Seq(Items) /\ ToSet(l) = ToSet(rest) \cup ToSet(o.out)
  BY <1>4, JoinMembers
<1> HIDE DEF q, g, l
<1>8. o.sent /\ RTS(x) => 0 \in g.bus[x]
  <2> SUFFICES ASSUME o.sent, RTS(x) PROVE 0 \in g.bus[x]
    OBVIOUS
  <2>1. x \in Messages /\ u.frame \in Nat
    BY <1>1, <1>4 DEF Transactions
  <2>2. CASE u.frame = 0
    BY <1>6, <2>2
  <2>3. CASE u.frame # 0
    <3>1. 0 \in fw.bus[x]
      BY <2>1, <2>3 DEF AllTransmit, Transmits
    <3> QED
      BY <1>6, <2>1, <3>1 DEF Grows
  <2> QED
    BY <2>2, <2>3
<1>9. \A f \in ToSet(o.out) :
        /\ f.type = "confirm" => f.id = packetId + 1
        /\ f.type = "cts" => RTS(f.msg) /\ 0 \in g.bus[f.msg]
        /\ f.type = "eom" => RTS(f.msg) /\ Whole(f.msg, g.bus)
  <2>1. Frames[x] \in Nat \/ x \notin Messages
    BY SerialAssumption
  <2>2. x \in Messages => 0 .. Frames[x] = {0} \cup 1 .. Frames[x]
    BY <2>1
  <2> QED
    BY <1>4, <1>6, <1>8, <2>2 DEF Says, Whole
<1>10. Incoming(l, g.bus, id)
  BY <1>4, <1>6, <1>9, IncomingKeeps DEF l
<1>11. ASSUME NEW y \in Messages
       PROVE  Transmits(y, q.tx[y], ToSet(q.sent), l, g.bus, id, sp)
  <2> DEFINE v == p.tx[y]
             w == q.tx[y]
             sent == ToSet(q.sent)
  <2>1. Transmits(y, v, S, rest, fw.bus, packetId, sp)
    BY DEF AllTransmit
  <2>2. v \in Transactions /\ y \in All
    BY <1>1 DEF All
  <2>3. /\ w.cmd = v.cmd /\ w.frame = v.frame /\ w.next = v.next /\ w.max = v.max
        /\ w.complete = v.complete /\ w.confirmId = v.confirmId
        /\ y # x => w = v
        /\ y = x => w.pktId = id /\ w.frame # NoFrame
    BY <1>5, <2>2 DEF Changed
  <2>4. fw.bus[y] \subseteq g.bus[y]
    BY <1>6 DEF Grows
  <2>5. v.pktId <= packetId /\ v.confirmId <= packetId /\ v.pktId \in Nat /\ v.confirmId \in Nat
    BY <2>1, <2>2 DEF Transmits, Transactions
  <2>6. y \in sent => y \in S \/ y = x
    BY <1>5 DEF Changed
  <2>7. \A f \in ToSet(rest) : f.type = "confirm" => f.id <= packetId
    BY DEF Incoming
  <2>8. \A f \in ToSet(o.out) : f.type = "confirm" /\ f.ok => f.id = id /\ u.frame \in g.bus[x]
    BY <1>4, <1>6 DEF Says
  <2>9. w.pktId <= id /\ w.confirmId <= id
    BY <1>3, <2>3, <2>5
  <2>10. OneByOne(y) => Repeated(y, sp) \/ Steady(y, w, sent, l, g.bus)
    <3> SUFFICES ASSUME Steady(y, v, S, rest, fw.bus)
                 PROVE  Steady(y, w, sent, l, g.bus)
      BY <2>1 DEF Transmits
    <3>1. ASSUME NEW f \in ToSet(l), f.type = "confirm", f.ok,
                 f.id = w.confirmId \/ (y \in sent /\ f.id = w.pktId)
          PROVE  w.frame \in g.bus[y]
      <4>1. CASE f \in ToSet(rest)
        <5>1. f.id <= packetId /\ f.id # id
          BY <2>7, <3>1, <4>1
        <5>2. f.id = v.confirmId \/ (y \in S /\ f.id = v.pktId)
          BY <2>3, <2>6, <3>1, <5>1
        <5> QED
          BY <2>3, <2>4, <3>1, <4>1, <5>2 DEF Steady
      <4>2. CASE f \in ToSet(o.out)
        <5>1. f.id = id /\ u.frame \in g.bus[x]
          BY <2>8, <3>1, <4>2
        <5>2. v.confirmId # id /\ v.pktId # id
          BY <2>5
        <5>3. y = x
          BY <2>3, <3>1, <5>1, <5>2
        <5> QED
          BY <2>3, <5>1, <5>3
      <4> QED
        BY <1>7, <3>1, <4>1, <4>2
    <3> HIDE DEF v, w, sent
    <3> QED
      BY <2>3, <2>4, <3>1 DEF Steady
  <2>11. w.reply \/ y \in sent => w.frame # NoFrame
    BY <2>1, <2>3, <2>6 DEF Transmits
  <2>12. w.complete => Repeated(y, sp) \/ Whole(y, g.bus)
    BY <2>1, <2>3, <2>4 DEF Transmits, Whole
  <2>13. RTS(y) => (w.frame >= 1 => w.max > 0) /\ (w.max > 0 => 0 \in g.bus[y])
    BY <2>1, <2>3, <2>4 DEF Transmits
  <2>14. w.cmd = Fresh(y).cmd
    BY <2>1, <2>3 DEF Transmits
  <2> HIDE DEF v, w, sent, id
  <2>15. Transmits(y, w, sent, l, g.bus, id, sp)
    BY <2>9, <2>10, <2>11, <2>12, <2>13, <2>14 DEF Transmits
  <2> QED
    BY <2>15 DEF w, sent
<1>12. AllTransmit(q, ToSet(q.sent), l, g.bus, id, sp)
  BY <1>11 DEF AllTransmit
<1> QED
  BY <1>2, <1>3, <1>5, <1>6, <1>7, <1>10, <1>12 DEF q, g, l
(***************************************************************************)
(* What every handler leaves behind.                                       *)
(***************************************************************************)
\* All of the invariant that is not about answers.
Sound(p, g, l, bus, id, sp) ==
  /\ p \in Ports /\ Lists(p, g) /\ Reasons(p) /\ l \in Seq(Items) /\ id \in Nat
  /\ AllTransmit(p, ToSet(p.sent), l, bus, id, sp) /\ Incoming(l, bus, id)

Follows(p, g, fw, sp) ==
  /\ Sound(port', g, line', firmware'.bus, packetId', sp)
  /\ firmware' \in Firmwares /\ Grows(fw.bus, firmware'.bus)
  /\ Open(port') \subseteq Open(p)

LEMMA NoWriteKeeps ==
  ASSUME NEW g, NEW p, NEW rest, NEW fw \in Firmwares, NEW cost, NEW sp,
         Sound(p, g, rest, fw.bus, packetId, sp), NoWrite(p, rest, fw, cost)
  PROVE  Follows(p, g, fw, sp)
<1>1. port' = p /\ line' = rest /\ firmware' = fw /\ packetId' = packetId
  BY DEF NoWrite
<1>2. Grows(fw.bus, fw.bus)
  BY DEF Grows
<1> QED
  BY <1>1, <1>2 DEF Follows, Sound

LEMMA CheckSendKeeps ==
  ASSUME NEW g \in SUBSET Messages, NEW p, NEW rest, NEW fw \in Firmwares, NEW cost, NEW sp,
         Sound(p, g, rest, fw.bus, packetId, sp), CheckSendMsgQ(p, rest, fw, cost)
  PROVE  Follows(p, g, fw, sp)
<1>1. /\ p \in Ports /\ Lists(p, g) /\ Reasons(p) /\ rest \in Seq(Items) /\ packetId \in Nat
      /\ AllTransmit(p, ToSet(p.sent), rest, fw.bus, packetId, sp)
      /\ Incoming(rest, fw.bus, packetId)
  BY DEF Sound
<1>2. CASE NoWrite(p, rest, fw, cost)
  BY <1>2, NoWriteKeeps
<1>3. ASSUME NEW x \in All, NEW q \in Ports, Chosen(p, q, x, g), Write(q, x, rest, fw, cost)
      PROVE  Follows(p, g, fw, sp)
  <2> DEFINE S == ToSet(p.sent)
  <2>1. /\ Lists(q, g) /\ Reasons(q) /\ Moves(p, q) /\ Open(q) \subseteq Open(p)
        /\ ToSet(q.sent) \subseteq S \cup {x} /\ x \in ToSet(q.sent)
        /\ q.tx[x].frame # NoFrame
    BY <1>3 DEF Chosen
  <2>2. AllTransmit(q, S, rest, fw.bus, packetId, sp)
    <3> HIDE DEF S
    <3>1. AllTransmit(p, S, rest, fw.bus, packetId, sp)
      BY <1>1 DEF S
    <3> QED
      BY <1>1, <1>3, <2>1, <3>1, MovesTransmit
  <2>3. /\ port' \in Ports /\ Changed(q, port', x)
        /\ port'.tx[x].confirmId = q.tx[x].confirmId /\ port'.tx[x].cmd = q.tx[x].cmd
        /\ line' \in Seq(Items) /\ packetId' \in Nat /\ firmware' \in Firmwares
        /\ Grows(fw.bus, firmware'.bus)
        /\ AllTransmit(port', ToSet(port'.sent), line', firmware'.bus, packetId', sp)
        /\ Incoming(line', firmware'.bus, packetId')
    <3> HIDE DEF S
    <3> QED
      BY <1>1, <1>3, <2>1, <2>2, WriteKeeps
  <2>4. x \in Active(q) /\ x \notin ToSet(q.new)
        /\ (x \in Messages => x \in g /\ x \notin ToSet(q.pend) /\ x \in Open(q))
    BY <2>1, Disjoint DEF Active, Lists, Open
  <2>5. x \in Inits => port'.tx[x].confirmId = 0 /\ port'.tx[x].cmd \in Stages
    BY <2>1, <2>3, <2>4 DEF Lists
  <2>6. Lists(port', g) /\ Reasons(port') /\ Open(port') \subseteq Open(q)
    BY <1>3, <2>1, <2>3, <2>4, <2>5, ChangeKeeps
  <2> QED
    BY <2>1, <2>3, <2>6 DEF Follows, Sound
<1> QED
  BY <1>1, <1>2, <1>3, Sends

\* Transactions may leave lists, and waiting ones may be looked at.
LEMMA SoundMoves ==
  ASSUME NEW g, NEW p, NEW q \in Ports, NEW l, NEW bus, NEW id, NEW sp,
         Sound(p, g, l, bus, id, sp), Lists(q, g), Reasons(q), Moves(p, q),
         ToSet(q.sent) \subseteq ToSet(p.sent)
  PROVE  Sound(q, g, l, bus, id, sp)
<1> DEFINE S == ToSet(p.sent)
           T == ToSet(q.sent)
<1>1. p \in Ports /\ id \in Nat /\ AllTransmit(p, S, l, bus, id, sp) /\ Incoming(l, bus, id)
  BY DEF Sound
<1>2. T \in SUBSET S
  OBVIOUS
<1> HIDE DEF S, T
<1>3. AllTransmit(q, S, l, bus, id, sp)
  BY <1>1, MovesTransmit
<1>4. AllTransmit(q, T, l, bus, id, sp)
  BY <1>1, <1>2, <1>3, LessTransmit
<1> QED
  BY <1>4 DEF Sound, T

\* Less may be on its way.
LEMMA SoundLess ==
  ASSUME NEW g, NEW p, NEW l, NEW k \in Seq(Items), ToSet(k) \subseteq ToSet(l), NEW bus, NEW id,
         NEW sp, NEW sq, sp \subseteq sq, Sound(p, g, l, bus, id, sp), Incoming(k, bus, id)
  PROVE  Sound(p, g, k, bus, id, sq)
<1> DEFINE S == ToSet(p.sent)
<1>1. p \in Ports /\ id \in Nat /\ AllTransmit(p, S, l, bus, id, sp) /\ S \in SUBSET S
  BY DEF Sound
<1> HIDE DEF S
<1>2. AllTransmit(p, S, k, bus, id, sq)
  BY <1>1, LessTransmit
<1> QED
  BY <1>2 DEF Sound, S

\* One transaction may change.
LEMMA SoundChange ==
  ASSUME NEW g \in SUBSET Messages, NEW p, NEW q \in Ports, NEW x \in All, NEW l, NEW bus, NEW id,
         NEW sp, Sound(p, g, l, bus, id, sp), Changed(p, q, x),
         x \in Messages => /\ x \in g /\ x \notin ToSet(p.pend)
                           /\ Transmits(x, q.tx[x], ToSet(q.sent), l, bus, id, sp)
                           /\ x \in ToSet(p.new) => ~q.tx[x].reply,
         x \in Inits => q.tx[x].confirmId = 0 /\ (x \in Active(p) => q.tx[x].cmd \in Stages)
  PROVE  /\ Sound(q, g, l, bus, id, sp) /\ Active(q) = Active(p)
         /\ x \in Messages /\ ~q.tx[x].reply => Open(q) \subseteq Open(p)
         /\ x \notin Messages \/ x \in Open(p) => Open(q) \subseteq Open(p)
<1>1. p \in Ports /\ Lists(p, g) /\ Reasons(p) /\ AllTransmit(p, ToSet(p.sent), l, bus, id, sp)
  BY DEF Sound
<1>2. /\ Lists(q, g) /\ Reasons(q) /\ Active(q) = Active(p)
      /\ x \in Messages /\ ~q.tx[x].reply => Open(q) \subseteq Open(p)
      /\ x \notin Messages \/ x \in Open(p) => Open(q) \subseteq Open(p)
  BY <1>1, ChangeKeeps
<1>3. \A y \in Messages : y # x => q.tx[y] = p.tx[y]
  BY DEF Changed, All
<1>4. q.sent = p.sent
  BY DEF Changed
<1>5. AllTransmit(q, ToSet(q.sent), l, bus, id, sp)
  BY <1>1, <1>3, <1>4 DEF AllTransmit
<1> QED
  BY <1>2, <1>5 DEF Sound

LEMMA IncomingTail ==
  ASSUME NEW l \in Seq(Items), l # <<>>, NEW bus, NEW id, Incoming(l, bus, id)
  PROVE  /\ Incoming(Tail(l), bus, id) /\ Tail(l) \in Seq(Items) /\ Head(l) \in Items
         /\ Head(l) \in ToSet(l) /\ ToSet(Tail(l)) \subseteq ToSet(l)
         /\ \A f \in ToSet(Tail(l)) :
              f.type = "confirm" /\ Head(l).type = "confirm" => f.id # Head(l).id
<1> DEFINE t == Tail(l)
           h == Head(l)
<1>1. /\ h \in ToSet(l) /\ t \in Seq(Items) /\ ToSet(t) \subseteq ToSet(l)
      /\ Len(l) \in Nat \ {0} /\ h = l[1] /\ Len(t) = Len(l) - 1
      /\ \A i \in 1 .. Len(l) - 1 : t[i] = l[i + 1]
  BY TailMembers
<1> HIDE DEF t, h
<1>2. ToSet(t) = {t[i] : i \in 1 .. Len(t)} /\ h \in Items
  BY <1>1, Members
<1>3. \A i \in 1 .. Len(t) : i + 1 \in 1 .. Len(l) /\ t[i] = l[i + 1]
  BY <1>1
<1>4. \A f \in ToSet(t) : f.type = "confirm" /\ h.type = "confirm" => f.id # h.id
  <2> SUFFICES ASSUME NEW i \in 1 .. Len(t), t[i].type = "confirm", h.type = "confirm"
               PROVE  t[i].id # h.id
    BY <1>2
  <2>1. 1 \in 1 .. Len(l) /\ 1 < i + 1
    BY <1>1
  <2>2. l[1].id < l[i + 1].id
    BY <1>1, <1>3, <2>1 DEF Incoming
  <2>3. l[1].id \in Int
    BY <1>1, <1>2, ItemFields
  <2>4. l[1].id # l[i + 1].id
    <3>1. l[i + 1] \in Items
      BY <1>3, ElementOfSeq
    <3>2. l[i + 1].id \in Int
      BY <1>3, <3>1, ItemFields
    <3> QED
      BY <2>2, <2>3, <3>2
  <2> QED
    BY <1>1, <1>3, <2>4
<1>5. \A i, j \in 1 .. Len(t) :
        i < j /\ t[i].type = "confirm" /\ t[j].type = "confirm" => t[i].id < t[j].id
  BY <1>1, <1>3 DEF Incoming
<1>6. Incoming(t, bus, id)
  BY <1>1, <1>5 DEF Incoming
<1> QED
  BY <1>1, <1>2, <1>4, <1>6 DEF t, h

(***************************************************************************)
(* A step of the invariant, from what it does to the transactions and what *)
(* clients are told.                                                       *)
(***************************************************************************)
\* Transaction x is not answered, and is not open again; or it is answered, and is
\* not open any more.
Replied(x) ==
  \/ answers'[x] = answers[x] /\ (x \in Open(port') => x \in Open(port) \/ x \notin given)
  \/ /\ x \in given
     /\ \E what \in Replies :
          /\ answers'[x] = Append(answers[x], what)
          /\ what = "success" /\ J1939(x) => Whole(x, firmware'.bus) \/ Repeated(x, spoilt')
     /\ Excepted(x, spoilt') \/ (x \in Open(port) /\ x \notin Open(port'))

StepSound ==
  /\ Sound(port', given', line', firmware'.bus, packetId', spoilt')
  /\ firmware' \in Firmwares /\ Grows(firmware.bus, firmware'.bus)
  /\ spoilt \subseteq spoilt' /\ given \subseteq given' /\ given' \subseteq Messages
  /\ answers' = [x \in Messages |-> answers'[x]]
  /\ \A x \in Messages : Replied(x)

LEMMA ToldMembers ==
  ASSUME NEW s \in Seq(Replies), NEW what \in Replies
  PROVE  /\ Append(s, what) \in Seq(Replies) /\ Len(Append(s, what)) = Len(s) + 1
         /\ Len(s) \in Nat
         /\ Contains(Append(s, what), "success") => Contains(s, "success") \/ what = "success"
         /\ s = <<>> => Len(s) = 0
<1>1. /\ Append(s, what) \in Seq(Replies) /\ Len(Append(s, what)) = Len(s) + 1 /\ Len(s) \in Nat
  BY AppendProperties, LenProperties
<1>2. ToSet(Append(s, what)) = ToSet(s) \cup {what}
  BY AppendMembers
<1>3. \A u : Contains(u, "success") <=> "success" \in ToSet(u)
  BY DEF Contains, ToSet
<1> QED
  BY <1>1, <1>2, <1>3

LEMMA StepKeeps ==
  ASSUME IInv, StepSound
  PROVE  IInv'
<1>1. /\ port' \in Ports /\ line' \in Seq(Items) /\ packetId' \in Nat
      /\ Lists(port', given') /\ Reasons(port')
      /\ AllTransmit(port', ToSet(port'.sent), line', firmware'.bus, packetId', spoilt')
      /\ Incoming(line', firmware'.bus, packetId')
      /\ firmware' \in [confirming : BOOLEAN, bus : [Messages -> SUBSET Int]]
      /\ given' \subseteq Messages
  BY DEF StepSound, Sound, Firmwares
<1>2. ASSUME NEW x \in Messages
      PROVE  /\ answers'[x] \in Seq(Replies)
             /\ J1939(x) /\ Contains(answers'[x], "success")
                  => Whole(x, firmware'.bus) \/ Repeated(x, spoilt')
             /\ Excepted(x, spoilt') \/ (Len(answers'[x]) <= 1 /\ (x \in Open(port') => answers'[x] = <<>>))
             /\ x \notin given' => answers'[x] = <<>>
  <2> DEFINE a == answers[x]
             b == answers'[x]
  <2>1. /\ a \in Seq(Replies)
        /\ J1939(x) /\ Contains(a, "success") => Whole(x, firmware.bus) \/ Repeated(x, spoilt)
        /\ Excepted(x, spoilt) \/ (Len(a) <= 1 /\ (x \in Open(port) => a = <<>>))
        /\ x \notin given => a = <<>>
    BY DEF IInv, TypeOK, Answered
  <2>2. /\ Whole(x, firmware.bus) => Whole(x, firmware'.bus)
        /\ Repeated(x, spoilt) => Repeated(x, spoilt')
        /\ Excepted(x, spoilt) => Excepted(x, spoilt')
        /\ x \in given => x \in given'
    BY DEF StepSound, Whole, Grows, Repeated, Excepted
  <2>3. CASE b = a /\ (x \in Open(port') => x \in Open(port) \/ x \notin given)
    <3> HIDE DEF a, b
    <3>1. /\ b \in Seq(Replies)
          /\ J1939(x) /\ Contains(b, "success") => Whole(x, firmware'.bus) \/ Repeated(x, spoilt')
          /\ Excepted(x, spoilt') \/ (Len(b) <= 1 /\ (x \in Open(port') => b = <<>>))
          /\ x \notin given' => b = <<>>
      BY <2>1, <2>2, <2>3
    <3> QED
      BY <3>1 DEF b
  <2>4. ASSUME NEW what \in Replies, x \in given, b = Append(a, what),
               what = "success" /\ J1939(x) => Whole(x, firmware'.bus) \/ Repeated(x, spoilt'),
               Excepted(x, spoilt') \/ (x \in Open(port) /\ x \notin Open(port'))
        PROVE  /\ b \in Seq(Replies)
               /\ J1939(x) /\ Contains(b, "success") => Whole(x, firmware'.bus) \/ Repeated(x, spoilt')
               /\ Excepted(x, spoilt') \/ (Len(b) <= 1 /\ (x \in Open(port') => b = <<>>))
               /\ x \notin given' => b = <<>>
    <3> HIDE DEF a, b
    <3>1. /\ b \in Seq(Replies) /\ Len(b) = Len(a) + 1 /\ Len(a) \in Nat
          /\ Contains(b, "success") => Contains(a, "success") \/ what = "success"
          /\ a = <<>> => Len(a) = 0
      BY <2>1, <2>4, ToldMembers
    <3> QED
      BY <2>1, <2>2, <2>4, <3>1
  <2>5. Replied(x)
    BY DEF StepSound
  <2> QED
    BY <2>3, <2>4, <2>5 DEF Replied
<1>3. answers' \in [Messages -> Seq(Replies)]
  <2>1. answers' = [x \in Messages |-> answers'[x]]
    BY DEF StepSound
  <2> QED
    BY <1>2, <2>1
<1>4. Answered(port, answers, firmware.bus, spoilt)'
  BY <1>2 DEF Answered
<1>5. \A x \in Messages \ given' : answers'[x] = <<>>
  BY <1>2
<1>6. TypeOK'
  BY <1>1, <1>3 DEF TypeOK
<1> QED
  BY <1>1, <1>4, <1>5, <1>6 DEF IInv
LEMMA Now ==
  ASSUME IInv
  PROVE  /\ Sound(port, given, line, firmware.bus, packetId, spoilt)
         /\ port \in Ports /\ line \in Seq(Items) /\ firmware \in Firmwares
         /\ given \in SUBSET Messages /\ packetId \in Nat
         /\ answers = [x \in Messages |-> answers[x]]
         /\ Lists(port, given) /\ Incoming(line, firmware.bus, packetId)
  BY DEF IInv, TypeOK, Sound, Firmwares

\* Handlers that answer no client.
LEMMA Silent ==
  ASSUME IInv, NEW p, NEW fw, fw.bus = firmware.bus, Follows(p, given', fw, spoilt'),
         answers' = answers, spoilt \subseteq spoilt', given \subseteq given',
         given' \subseteq Messages, \A x \in Open(p) : x \in Open(port) \/ x \notin given
  PROVE  StepSound
<1>1. \A x \in Messages : Replied(x)
  BY DEF Replied, Follows
<1>2. answers' = [x \in Messages |-> answers'[x]]
  BY Now
<1> QED
  BY <1>1, <1>2 DEF StepSound, Follows

LEMMA HelloKeeps ==
  ASSUME IInv, Hello PROVE StepSound
<1>1. Follows(port, given, firmware, spoilt)
  BY Now, CheckSendKeeps DEF Hello
<1> QED
  BY <1>1, Now, Silent DEF Hello

LEMMA LoseAnswerKeeps ==
  ASSUME IInv, LoseAnswer PROVE StepSound
<1>1. Sound(port, given, Tail(line), firmware.bus, packetId, spoilt)
  <2>1. Incoming(Tail(line), firmware.bus, packetId) /\ Tail(line) \in Seq(Items)
        /\ ToSet(Tail(line)) \subseteq ToSet(line)
    BY Now, IncomingTail DEF LoseAnswer
  <2> QED
    BY <2>1, Now, SoundLess
<1>2. Follows(port, given, firmware, spoilt)
  BY <1>1, Now, NoWriteKeeps DEF LoseAnswer
<1> QED
  BY <1>2, Now, Silent DEF LoseAnswer

LEMMA FirmwareRestartsKeeps ==
  ASSUME IInv, FirmwareRestarts PROVE StepSound
<1> DEFINE fw == [firmware EXCEPT !.confirming = FALSE]
<1>1. fw \in Firmwares /\ fw.bus = firmware.bus
  BY Now DEF Firmwares
<1>2. NoWrite(port, <<>>, fw, 1) /\ answers' = answers /\ given' = given /\ spoilt' = spoilt
  BY DEF FirmwareRestarts
<1> HIDE DEF fw
<1>3. Sound(port, given, <<>>, fw.bus, packetId, spoilt)
  <2>1. <<>> \in Seq(Items) /\ ToSet(<<>>) = {} /\ Len(<<>>) = 0
    BY EmptyMembers
  <2>2. Incoming(<<>>, firmware.bus, packetId)
    BY <2>1 DEF Incoming
  <2>3. ToSet(<<>>) \subseteq ToSet(line)
    BY <2>1
  <2>4. Sound(port, given, <<>>, firmware.bus, packetId, spoilt)
    BY <2>1, <2>2, <2>3, Now, SoundLess
  <2> QED
    BY <1>1, <2>4
<1>4. Follows(port, given, fw, spoilt)
  BY <1>1, <1>2, <1>3, NoWriteKeeps
<1> QED
  BY <1>1, <1>2, <1>4, Now, Silent

\* What has been read: the line without its head.
LEMMA Reading ==
  ASSUME IInv, line # <<>>
  PROVE  LET f == Head(line)
             rest == Tail(line)
         IN  /\ Sound(port, given, rest, firmware.bus, packetId, spoilt) /\ rest \in Seq(Items)
             /\ f \in Items /\ f \in ToSet(line) /\ Incoming(rest, firmware.bus, packetId)
             /\ \A e \in ToSet(rest) : e.type = "confirm" /\ f.type = "confirm" => e.id # f.id
             /\ f.type = "confirm" => f.id # 0
             /\ f.type = "cts" => RTS(f.msg) /\ 0 \in firmware.bus[f.msg]
             /\ f.type = "eom" => RTS(f.msg) /\ Whole(f.msg, firmware.bus)
<1>1. /\ Incoming(Tail(line), firmware.bus, packetId) /\ Tail(line) \in Seq(Items)
      /\ ToSet(Tail(line)) \subseteq ToSet(line)
      /\ Head(line) \in Items /\ Head(line) \in ToSet(line)
      /\ \A e \in ToSet(Tail(line)) :
           e.type = "confirm" /\ Head(line).type = "confirm" => e.id # Head(line).id
  BY Now, IncomingTail
<1>2. Sound(port, given, Tail(line), firmware.bus, packetId, spoilt)
  BY <1>1, Now, SoundLess
<1>3. \A f \in ToSet(line) :
        /\ f.type = "confirm" => f.id # 0
        /\ f.type = "cts" => RTS(f.msg) /\ 0 \in firmware.bus[f.msg]
        /\ f.type = "eom" => RTS(f.msg) /\ Whole(f.msg, firmware.bus)
  BY Now DEF Incoming
<1> QED
  BY <1>1, <1>2, <1>3

LEMMA ReceiveOtherKeeps ==
  ASSUME IInv, line # <<>>, ReceiveOther(Head(line), Tail(line)) PROVE StepSound
<1>1. Sound(port, given, Tail(line), firmware.bus, packetId, spoilt)
  BY Reading
<1>2. Follows(port, given, firmware, spoilt)
  BY <1>1, Now, CheckSendKeeps DEF ReceiveOther
<1> QED
  BY <1>2, Now, Silent DEF ReceiveOther
(***************************************************************************)
(* The handlers of what the firmware sends.                                *)
(***************************************************************************)
With(p, x, t) == [p EXCEPT !.tx = [p.tx EXCEPT ![x] = t]]

LEMMA WithFacts ==
  ASSUME NEW p \in Ports, NEW x \in All, NEW t \in Transactions
  PROVE  /\ With(p, x, t) \in Ports /\ Changed(p, With(p, x, t), x)
         /\ With(p, x, t).tx[x] = t /\ With(p, x, t).sent = p.sent
         /\ With(p, x, t).new = p.new /\ With(p, x, t).pend = p.pend
<1> DEFINE entries == [p.tx EXCEPT ![x] = t]
<1>1. entries \in [All -> Transactions] /\ entries[x] = t /\ \A y \in All : y # x => entries[y] = p.tx[y]
  BY DEF Ports
<1> HIDE DEF entries
<1> DEFINE q == [p EXCEPT !.tx = entries]
<1>2. q \in Ports /\ q.tx = entries /\ q.new = p.new /\ q.sent = p.sent /\ q.pend = p.pend
  BY <1>1 DEF Ports
<1>3. q = With(p, x, t)
  BY DEF With, entries
<1> HIDE DEF q
<1> QED
  BY <1>1, <1>2, <1>3 DEF Changed

LEMMA SentOne ==
  ASSUME IInv, NEW x \in ToSet(port.sent)
  PROVE  /\ x \in All /\ x \in Active(port) /\ x \notin ToSet(port.new) /\ x \notin ToSet(port.pend)
         /\ x \in Messages => /\ x \in given /\ x \in Open(port)
                              /\ port.tx[x].frame # NoFrame
                              /\ port.tx[x].frame \in Nat
         /\ x \in Inits => port.tx[x].confirmId = 0 /\ port.tx[x].cmd \in Stages
         /\ port.tx[x] \in Transactions
<1>1. port.sent \in Seq(All) /\ port.tx \in [All -> Transactions]
  BY Now DEF Ports
<1>2. x \in All
  BY <1>1, Members
<1>3. x \in Active(port) /\ x \notin ToSet(port.new) /\ x \notin ToSet(port.pend)
  BY Now DEF Active, Lists
<1>4. x \in Messages => x \in given /\ x \in Open(port)
  BY <1>3, Now, Disjoint DEF Lists, Open
<1>5. x \in Messages => port.tx[x].frame # NoFrame
  BY DEF IInv, AllTransmit, Transmits
<1>6. x \in Inits => port.tx[x].confirmId = 0 /\ port.tx[x].cmd \in Stages
  BY <1>3, Now DEF Lists
<1>7. port.tx[x].frame \in Nat \cup {NoFrame}
  BY <1>1, <1>2 DEF Transactions
<1> QED
  BY <1>1, <1>2, <1>3, <1>4, <1>5, <1>6, <1>7

\* What is known of a message, for what is left of the line.
LEMMA KnownOf ==
  ASSUME IInv, NEW x \in Messages
  PROVE  Transmits(x, port.tx[x], ToSet(port.sent), line, firmware.bus, packetId, spoilt)
  BY DEF IInv, AllTransmit

LEMMA ReceiveAckKeeps ==
  ASSUME IInv, line # <<>>, Head(line).type = "ack", ReceiveAck(Head(line), Tail(line))
  PROVE  StepSound
<1> DEFINE f == Head(line)
           rest == Tail(line)
<1>1. /\ Sound(port, given, rest, firmware.bus, packetId, spoilt) /\ rest \in Seq(Items)
      /\ f \in Items /\ Incoming(rest, firmware.bus, packetId)
  BY Reading
<1>2. f.id \in Nat
  BY <1>1, ItemFields
<1> DEFINE Q(x) == [port EXCEPT !.tx[x].pktId = 0, !.tx[x].confirmId = f.id, !.tx[x].reply = TRUE]
<1>3. PICK x \in Matching(port, f.id) \cap Messages : CheckSendMsgQ(Q(x), rest, firmware, 0)
  BY DEF ReceiveAck
<1>4. UNCHANGED <<answers, given, spoilt>>
  BY DEF ReceiveAck
<1>5. x \in ToSet(port.sent) /\ port.tx[x].pktId = f.id /\ x \in Messages
  BY <1>3 DEF Matching
<1> DEFINE u == port.tx[x]
           id == f.id
           t == [u EXCEPT !.pktId = 0, !.confirmId = id, !.reply = TRUE]
           q == With(port, x, t)
<1>6. /\ x \in All /\ x \in Active(port) /\ x \notin ToSet(port.new) /\ x \notin ToSet(port.pend)
      /\ x \in given /\ x \in Open(port) /\ u.frame # NoFrame /\ u \in Transactions
  BY <1>5, SentOne
<1>7. q = Q(x)
  <2>1. port.tx \in [All -> Transactions]
    BY Now DEF Ports
  <2> QED
    BY <1>6, <2>1, Now DEF With, Ports
<1>8. Transmits(x, u, ToSet(port.sent), rest, firmware.bus, packetId, spoilt)
  BY <1>1, <1>5 DEF Sound, AllTransmit
<1> HIDE DEF Q, u, f, rest, id
<1>9. /\ t \in Transactions /\ t.cmd = u.cmd /\ t.frame = u.frame /\ t.next = u.next
      /\ t.max = u.max /\ t.complete = u.complete /\ t.pktId = 0 /\ t.confirmId = id
  BY <1>2, <1>6 DEF Transactions, id
<1> HIDE DEF t
<1>10. /\ q \in Ports /\ Changed(port, q, x) /\ q.tx[x] = t /\ q.sent = port.sent
  BY <1>6, <1>9, Now, WithFacts
<1> HIDE DEF q
<1>11. Transmits(x, t, ToSet(q.sent), rest, firmware.bus, packetId, spoilt)
  <2>1. u.pktId = id
    BY <1>5 DEF u, id
  <2>2. \A e \in ToSet(rest) : e.type = "confirm" => e.id # 0
    BY <1>1 DEF Incoming
  <2>3. OneByOne(x) => Repeated(x, spoilt) \/ Steady(x, t, ToSet(q.sent), rest, firmware.bus)
    BY <1>5, <1>8, <1>9, <1>10, <2>1, <2>2 DEF Steady, Transmits
  <2>4. t.pktId <= packetId /\ t.confirmId <= packetId
    BY <1>8, <1>9, <2>1, Now DEF Transmits
  <2> QED
    BY <1>6, <1>8, <1>9, <2>3, <2>4 DEF Transmits
<1>12. Sound(q, given, rest, firmware.bus, packetId, spoilt) /\ Open(q) \subseteq Open(port)
  BY <1>1, <1>5, <1>6, <1>10, <1>11, Now, Disjoint, SoundChange
<1>13. Follows(q, given, firmware, spoilt)
  BY <1>3, <1>7, <1>12, Now, CheckSendKeeps
<1> QED
  BY <1>4, <1>12, <1>13, Now, Silent
\* A set of messages is told something at once.
LEMMA ToldAll ==
  ASSUME IInv, NEW S, NEW what \in {"fail", "timeout"}, NEW x \in Messages,
         answers' = TellAll(answers, S \cap Messages, what),
         x \in S => x \in given /\ (Excepted(x, spoilt') \/ (x \in Open(port) /\ x \notin Open(port'))),
         x \in Open(port') => x \in Open(port)
  PROVE  Replied(x)
<1>1. answers'[x] = IF x \in S THEN Append(answers[x], what) ELSE answers[x]
  BY DEF TellAll
<1>2. what \in Replies /\ what # "success"
  BY DEF Replies
<1> QED
  BY <1>1, <1>2 DEF Replied

LEMMA InListGiven ==
  ASSUME IInv, NEW x \in Messages, x \in Open(port)
  PROVE  x \in given
<1>1. ~Fresh(x).reply
  BY FreshTyped DEF All
<1> QED
  BY <1>1, Now, Disjoint DEF Open, Lists

LEMMA ReceiveInitAckKeeps ==
  ASSUME IInv, line # <<>>, ReceiveInitAck(Head(line), Tail(line))
  PROVE  StepSound
<1> DEFINE f == Head(line)
           rest == Tail(line)
           c == ClearQBTransactionNew(port)
           P(x) == [c EXCEPT !.tx[x].cmd = NextStage(@), !.tx[x].reply = TRUE]
<1>1. Sound(port, given, rest, firmware.bus, packetId, spoilt) /\ rest \in Seq(Items)
  BY Reading
<1>2. PICK x \in Matching(port, f.id) \cap Inits :
        port.tx[x].cmd # "MID" /\ CheckSendMsgQ(Requeue(P(x), x), rest, firmware, 0)
  BY DEF ReceiveInitAck
<1>3. /\ answers' = TellAll(answers, Cleared(port) \cap Messages, "timeout")
      /\ given' = given /\ spoilt' = spoilt
  BY DEF ReceiveInitAck
<1>4. /\ x \in ToSet(port.sent) /\ x \in Inits /\ x \in All /\ port.tx[x].confirmId = 0
      /\ port.tx[x].cmd \in {"INIT", "CONFIRM", "CAN_CONTROL"} /\ x \notin Messages
  BY <1>2, SentOne, Disjoint DEF Matching, Stages
<1>5. /\ c \in Ports /\ Lists(c, given) /\ Moves(port, c) /\ Reasons(c) /\ c.tx = port.tx
      /\ c.sent = port.sent /\ Open(c) \subseteq Open(port) \ Cleared(port)
      /\ Cleared(port) \cap Messages \subseteq Open(port)
  BY Now, ClearKeeps
<1> HIDE DEF c
<1>6. Sound(c, given, rest, firmware.bus, packetId, spoilt)
  BY <1>1, <1>5, SoundMoves
<1> DEFINE u == port.tx[x]
           next == NextStage(u.cmd)
           t == [u EXCEPT !.cmd = next, !.reply = TRUE]
           q == With(c, x, t)
<1>7. c.tx \in [All -> Transactions] /\ u \in Transactions
  BY <1>4, <1>5 DEF Ports
<1>8. next \in Stages
  BY <1>4 DEF NextStage, Stages
<1>9. q = P(x)
  BY <1>4, <1>5, <1>7 DEF With, Ports
<1>10. u.confirmId = 0
  BY <1>4
<1> HIDE DEF P, u, f, rest, next
<1>11. t \in Transactions /\ t.cmd = next /\ t.confirmId = 0
  BY <1>7, <1>8, <1>10 DEF Transactions, Cmds
<1> HIDE DEF t
<1>12. q \in Ports /\ Changed(c, q, x) /\ q.tx[x] = t /\ q.sent = c.sent
  BY <1>4, <1>5, <1>11, WithFacts
<1> HIDE DEF q
<1>13. Sound(q, given, rest, firmware.bus, packetId, spoilt) /\ Open(q) \subseteq Open(c)
  BY <1>4, <1>5, <1>6, <1>8, <1>11, <1>12, Now, SoundChange
<1> DEFINE r == Requeue(q, x)
<1>14. /\ r \in Ports /\ Lists(r, given) /\ Moves(q, r) /\ Reasons(r)
       /\ ToSet(r.sent) = ToSet(q.sent) \ {x} /\ Open(r) \subseteq Open(q)
  <2>1. Lists(q, given) /\ Reasons(q) /\ x \in ToSet(q.sent)
    BY <1>4, <1>5, <1>12, <1>13 DEF Sound
  <2> QED
    BY <1>4, <1>12, <2>1, Now, RequeueKeeps
<1>15. CheckSendMsgQ(r, rest, firmware, 0)
  BY <1>2, <1>9
<1> HIDE DEF r
<1>16. Sound(r, given, rest, firmware.bus, packetId, spoilt)
  BY <1>13, <1>14, SoundMoves
<1>17. Follows(r, given, firmware, spoilt)
  BY <1>15, <1>16, Now, CheckSendKeeps
<1>18. Open(port') \subseteq Open(port) \ Cleared(port)
  BY <1>5, <1>13, <1>14, <1>17 DEF Follows
<1>19. \A y \in Messages : Replied(y)
  <2> SUFFICES ASSUME NEW y \in Messages PROVE Replied(y)
    OBVIOUS
  <2> DEFINE S == Cleared(port)
  <2>1. y \in S => y \in given /\ y \in Open(port) /\ y \notin Open(port')
    BY <1>5, <1>18, InListGiven
  <2>2. y \in Open(port') => y \in Open(port)
    BY <1>18
  <2> QED
    BY <1>3, <2>1, <2>2, ToldAll
<1>20. answers' = [y \in Messages |-> answers'[y]]
  BY <1>3 DEF TellAll
<1> QED
  BY <1>3, <1>17, <1>19, <1>20, Now DEF StepSound, Follows

LEMMA ReceiveLastInitAckKeeps ==
  ASSUME IInv, line # <<>>, ReceiveLastInitAck(Head(line), Tail(line))
  PROVE  StepSound
<1> DEFINE f == Head(line)
           rest == Tail(line)
           F(on) == [firmware EXCEPT !.confirming = on]
           P(x) == [port EXCEPT !.sent = Without(@, {x}), !.tx[x] = Fresh(x)]
<1>1. Sound(port, given, rest, firmware.bus, packetId, spoilt) /\ rest \in Seq(Items)
  BY Reading
<1>2. PICK x \in Matching(port, f.id) \cap Inits, on \in BOOLEAN :
        CheckSendMsgQ(P(x), rest, F(on), IF on THEN 0 ELSE 1)
  BY DEF ReceiveLastInitAck
<1>3. answers' = answers /\ given' = given /\ spoilt' = spoilt
  BY DEF ReceiveLastInitAck
<1>4. x \in ToSet(port.sent) /\ x \in Inits /\ x \in All /\ x \notin ToSet(port.new)
  BY <1>2, SentOne DEF Matching
<1> DEFINE fw == F(on)
           sent == Without(port.sent, {x})
           c == [port EXCEPT !.sent = sent]
           q == With(c, x, Fresh(x))
<1>5. fw \in Firmwares /\ fw.bus = firmware.bus
  BY Now DEF Firmwares
<1>6. sent \in Seq(All) /\ ToSet(sent) = ToSet(port.sent) \ {x}
  <2>1. port.sent \in Seq(All)
    BY Now DEF Ports
  <2> QED
    BY <2>1, WithoutFacts
<1>7. q = P(x)
  BY Now DEF With, Ports
<1> HIDE DEF P, F, fw, sent, f, rest
<1>8. c \in Ports /\ c.tx = port.tx /\ c.new = port.new /\ c.pend = port.pend /\ c.sent = sent
  BY <1>6, Now DEF Ports
<1> HIDE DEF c
<1>9. Lists(c, given) /\ Moves(port, c) /\ Open(c) \subseteq Open(port)
  BY <1>6, <1>8, Now, FewerKeep
<1>10. x \notin Active(c)
  BY <1>4, <1>6, <1>8 DEF Active
<1>11. Reasons(c)
  <2>1. \A y \in ToSet(port.pend) : MustWait(c, y)
    <3> SUFFICES ASSUME NEW y \in ToSet(port.pend) PROVE MustWait(c, y)
      OBVIOUS
    <3>1. PICK z \in Active(port) : Conflicts(y, z)
      BY <1>1 DEF Sound, Reasons, MustWait
    <3>2. z # x
      BY <1>4, <3>1, Disjoint DEF Conflicts
    <3> QED
      BY <1>6, <1>8, <3>1, <3>2 DEF MustWait, Active
  <2> QED
    BY <1>8, <2>1 DEF Reasons
<1>12. Sound(c, given, rest, firmware.bus, packetId, spoilt)
  BY <1>1, <1>6, <1>8, <1>9, <1>11, SoundMoves
<1>13. Fresh(x) \in Transactions /\ Fresh(x).confirmId = 0
  BY <1>4, FreshTyped
<1> DEFINE t == Fresh(x)
<1> HIDE DEF t
<1>14. q \in Ports /\ Changed(c, q, x) /\ q.tx[x] = t /\ q.sent = c.sent
  BY <1>4, <1>8, <1>13, WithFacts DEF t
<1> HIDE DEF q
<1>15. x \notin Messages /\ t.confirmId = 0
  BY <1>4, <1>13, Disjoint DEF t
<1>16. Sound(q, given, rest, firmware.bus, packetId, spoilt) /\ Open(q) \subseteq Open(c)
  BY <1>4, <1>10, <1>12, <1>14, <1>15, Now, SoundChange
<1>17. CheckSendMsgQ(q, rest, fw, IF on THEN 0 ELSE 1)
  BY <1>2, <1>7 DEF fw
<1>18. Follows(q, given, fw, spoilt)
  <2>1. Sound(q, given, rest, fw.bus, packetId, spoilt)
    BY <1>5, <1>16
  <2> QED
    BY <1>5, <1>17, <2>1, Now, CheckSendKeeps
<1> QED
  BY <1>3, <1>5, <1>9, <1>16, <1>18, Now, Silent
\* One client is told something, if x is a message at all.
LEMMA ToldOne ==
  ASSUME IInv, NEW x \in All, NEW what \in Replies, answers' = Tell(x, what),
         x \in Messages =>
           /\ x \in Open(port)
           /\ what = "success" /\ J1939(x) => Whole(x, firmware'.bus) \/ Repeated(x, spoilt')
           /\ Excepted(x, spoilt') \/ x \notin Open(port'),
         Open(port') \subseteq Open(port)
  PROVE  (\A y \in Messages : Replied(y)) /\ answers' = [y \in Messages |-> answers'[y]]
<1>1. answers = [y \in Messages |-> answers[y]]
  BY Now
<1>2. answers' = [y \in Messages |-> IF y = x THEN Append(answers[y], what) ELSE answers[y]]
  BY <1>1 DEF Tell
<1>3. ASSUME NEW y \in Messages PROVE Replied(y)
  <2>1. CASE y = x
    <3>1. answers'[y] = Append(answers[y], what) /\ y \in given
      BY <1>2, <2>1, InListGiven
    <3> QED
      BY <2>1, <3>1 DEF Replied
  <2>2. CASE y # x
    BY <1>2, <2>2 DEF Replied
  <2> QED
    BY <2>1, <2>2
<1> QED
  BY <1>2, <1>3

\* The defect of a message whose timer runs on.
LEMMA TimedOut ==
  ASSUME IInv, NEW S, EndsTimed(S)
  PROVE  /\ spoilt \subseteq spoilt'
         /\ \A x \in S \cap ToSet(port.sent) : port.tx[x].reply => Excepted(x, spoilt')
<1>1. ASSUME NEW x \in S \cap ToSet(port.sent), port.tx[x].reply PROVE Excepted(x, spoilt')
  <2>1. <<x, "timer">> \in {y \in S \cap ToSet(port.sent) : port.tx[y].reply} \X {"timer"}
    BY <1>1
  <2> QED
    BY <2>1 DEF EndsTimed, Meets, Excepted
<1>2. spoilt \subseteq spoilt'
  BY DEF EndsTimed, Meets
<1> QED
  BY <1>1, <1>2

\* Sound states and transactions taken out of the lists.
LEMMA SoundTakeOut ==
  ASSUME NEW g \in SUBSET Messages, NEW p, NEW l, NEW bus, NEW id, NEW sp,
         Sound(p, g, l, bus, id, sp), NEW S \in SUBSET (All \ ToSet(p.pend))
  PROVE  LET q == TakeOut(p, S)
         IN  /\ Sound(q, g, l, bus, id, sp) /\ Open(q) \subseteq Open(p) /\ Left(p, q, S)
<1> DEFINE q == TakeOut(p, S)
<1>1. /\ q \in Ports /\ Lists(q, g) /\ Moves(p, q) /\ Reasons(q)
      /\ ToSet(q.sent) = ToSet(p.sent) \ S /\ Open(q) \subseteq Open(p) /\ Left(p, q, S)
  <2>1. p \in Ports /\ Lists(p, g)
    BY DEF Sound
  <2> QED
    BY <2>1, TakeOutKeeps
<1> HIDE DEF q
<1>2. Sound(q, g, l, bus, id, sp)
  BY <1>1, SoundMoves
<1> QED
  BY <1>1, <1>2 DEF q

LEMMA ReceiveRefusalKeeps ==
  ASSUME IInv, line # <<>>, ReceiveRefusal(Head(line), Tail(line))
  PROVE  StepSound
<1> DEFINE f == Head(line)
           rest == Tail(line)
<1>1. Sound(port, given, rest, firmware.bus, packetId, spoilt) /\ rest \in Seq(Items)
      /\ Incoming(rest, firmware.bus, packetId)
  BY Reading
<1>2. PICK x \in Matching(port, f.id) :
        /\ answers' = Tell(x, "fail")
        /\ CheckSendMsgQ(TakeOut(port, {x}), rest, firmware, 0)
        /\ EndsTimed({x}) /\ given' = given
  BY DEF ReceiveRefusal
<1> HIDE DEF f, rest
<1> DEFINE q == TakeOut(port, {x})
<1>3. x \in ToSet(port.sent) /\ x \in All /\ x \notin ToSet(port.pend)
      /\ (x \in Messages => x \in Open(port))
  BY <1>2, SentOne DEF Matching
<1>4. spoilt \subseteq spoilt' /\ (port.tx[x].reply => Excepted(x, spoilt'))
  BY <1>2, <1>3, TimedOut
<1>5. Sound(port, given, rest, firmware.bus, packetId, spoilt')
  BY <1>1, <1>4, SoundLess
<1>6. /\ Sound(q, given, rest, firmware.bus, packetId, spoilt') /\ Open(q) \subseteq Open(port)
      /\ x \notin Active(q) \cup ToSet(q.pend)
      /\ x \in Messages => q.tx[x] = port.tx[x]
  <2> DEFINE S == {x}
  <2>1. S \in SUBSET (All \ ToSet(port.pend)) /\ q = TakeOut(port, S) /\ x \in S
    BY <1>3
  <2>2. /\ Sound(q, given, rest, firmware.bus, packetId, spoilt') /\ Open(q) \subseteq Open(port)
        /\ Left(port, q, S)
    <3> HIDE DEF S, q
    <3> QED
      BY <1>5, <2>1, Now, SoundTakeOut
  <2> QED
    BY <2>2 DEF Left
<1>7. CheckSendMsgQ(q, rest, firmware, 0)
  BY <1>2
<1> HIDE DEF q
<1>8. Follows(q, given, firmware, spoilt')
  BY <1>6, <1>7, Now, CheckSendKeeps
<1>9. x \in Messages => Excepted(x, spoilt') \/ x \notin Open(port')
  BY <1>4, <1>6, <1>8 DEF Follows, Open
<1>10. Open(port') \subseteq Open(port)
  BY <1>6, <1>8 DEF Follows
<1>11. (\A y \in Messages : Replied(y)) /\ answers' = [y \in Messages |-> answers'[y]]
  <2>1. "fail" \in Replies /\ "fail" # "success"
    BY DEF Replies
  <2>2. answers' = Tell(x, "fail")
    BY <1>2
  <2> QED
    BY <1>3, <1>9, <1>10, <2>1, <2>2, ToldOne
<1> QED
  BY <1>2, <1>4, <1>8, <1>11, Now DEF StepSound, Follows

\* The next frame, if any, of a message by RTS and CTS.
LEMMA ReceiveCTSKeeps ==
  ASSUME IInv, line # <<>>, Head(line).type = "cts", ReceiveCTS(Head(line), Tail(line))
  PROVE  StepSound
<1> DEFINE f == Head(line)
           rest == Tail(line)
           x == f.msg
           u == port.tx[x]
           a == AfterCTS(u, f.next, x)
           t == IF a.frame = NoFrame THEN GetCANPacket(a, x) ELSE a
           q == With(port, x, t)
           P == [port EXCEPT !.tx[x] = t]
<1>1. /\ Sound(port, given, rest, firmware.bus, packetId, spoilt) /\ rest \in Seq(Items)
      /\ f \in Items /\ RTS(x) /\ 0 \in firmware.bus[x]
  BY Reading
<1>2. /\ x \in Active(port) /\ CheckSendMsgQ(P, rest, firmware, 0)
      /\ answers' = answers /\ given' = given /\ spoilt' = spoilt
  BY DEF ReceiveCTS
<1>3. x \in Messages /\ f.next \in Nat \ {0}
  BY <1>1, ItemFields
<1>4. P = q
  BY Now DEF With, Ports
<1>5. Transmits(x, u, ToSet(port.sent), rest, firmware.bus, packetId, spoilt)
  BY <1>1, <1>3 DEF Sound, AllTransmit
<1>6. /\ x \in All /\ x \in given /\ x \notin ToSet(port.pend) /\ x \in Open(port)
      /\ x \in ToSet(port.new) => ~u.reply
      /\ u \in Transactions
  BY <1>2, <1>3, Now, Disjoint DEF All, Lists, Open, Ports
<1> DEFINE n == f.next
           m == f.next + Window[x]
<1>7. n \in Nat /\ n > 0 /\ m \in Nat /\ m > 0
  BY <1>3, SerialAssumption
<1>8. a = [u EXCEPT !.next = n, !.max = m, !.busTimer = TRUE]
  BY DEF AfterCTS
<1> HIDE DEF n, m, a, f, rest, u, P
<1>9. /\ a \in Transactions /\ a.next = n /\ a.max = m /\ a.reply = u.reply /\ a.frame = u.frame
      /\ a.cmd = u.cmd /\ a.pktId = u.pktId /\ a.confirmId = u.confirmId /\ a.complete = u.complete
  BY <1>6, <1>7, <1>8 DEF Transactions
<1>10. /\ t \in Transactions /\ t.max = m /\ t.reply = u.reply
       /\ t.cmd = u.cmd /\ t.pktId = u.pktId /\ t.confirmId = u.confirmId /\ t.complete = u.complete
       /\ a.frame # NoFrame => t.frame = u.frame
  <2>1. CASE a.frame # NoFrame
    BY <1>9, <2>1
  <2>2. CASE a.frame = NoFrame
    <3>1. GetCANPacket(a, x) \in Transactions /\ GetCANPacket(a, x).reply = a.reply
          /\ GetCANPacket(a, x).confirmId = a.confirmId
      BY <1>9, LoadTyped
    <3>2. /\ GetCANPacket(a, x).max = a.max /\ GetCANPacket(a, x).cmd = a.cmd
          /\ GetCANPacket(a, x).pktId = a.pktId /\ GetCANPacket(a, x).complete = a.complete
      BY <1>9 DEF GetCANPacket, Transactions
    <3> QED
      BY <1>9, <2>2, <3>1, <3>2
  <2> QED
    BY <2>1, <2>2
<1> HIDE DEF t
<1>11. /\ q \in Ports /\ Changed(port, q, x) /\ q.tx[x] = t /\ q.sent = port.sent
  BY <1>6, <1>10, Now, WithFacts
<1> HIDE DEF q
<1>12. Transmits(x, t, ToSet(q.sent), rest, firmware.bus, packetId, spoilt)
  <2>1. t.reply \/ x \in ToSet(q.sent) => t.frame # NoFrame
    BY <1>5, <1>9, <1>10, <1>11 DEF Transmits
  <2> QED
    BY <1>1, <1>5, <1>7, <1>10, <2>1 DEF Transmits, OneByOne
<1>13. Sound(q, given, rest, firmware.bus, packetId, spoilt) /\ Open(q) \subseteq Open(port)
  <2>1. x \notin Inits
    BY <1>3, Disjoint
  <2> HIDE DEF x
  <2> QED
    BY <1>1, <1>3, <1>6, <1>10, <1>11, <1>12, <2>1, Now, SoundChange
<1>14. Follows(q, given, firmware, spoilt)
  BY <1>2, <1>4, <1>13, Now, CheckSendKeeps
<1> QED
  BY <1>2, <1>13, <1>14, Now, Silent
\* The end of a message by RTS and CTS: it has been transmitted.
LEMMA ReceiveEndOfMsgKeeps ==
  ASSUME IInv, line # <<>>, Head(line).type = "eom", ReceiveEndOfMsg(Head(line), Tail(line))
  PROVE  StepSound
<1> DEFINE f == Head(line)
           rest == Tail(line)
           x == f.msg
           u == port.tx[x]
           c == u.complete \/ ~u.done
           t == [u EXCEPT !.done = TRUE, !.busTimer = FALSE, !.complete = c]
           q == With(port, x, t)
           P == [port EXCEPT !.tx[x].done = TRUE, !.tx[x].busTimer = FALSE,
                             !.tx[x].complete = @ \/ ~port.tx[x].done]
           what == IF P.tx[x].complete THEN "success" ELSE "timeout"
<1>1. /\ Sound(port, given, rest, firmware.bus, packetId, spoilt) /\ rest \in Seq(Items)
      /\ f \in Items /\ RTS(x) /\ Whole(x, firmware.bus) /\ Incoming(rest, firmware.bus, packetId)
  BY Reading
<1>2. /\ x \in Active(port) /\ answers' = Tell(x, what) /\ given' = given
      /\ \/ Throws(x) /\ NoWrite(P, rest, firmware, 0) /\ Meets({x}, "thrown")
         \/ Throws(x) /\ NoWrite(P, line, firmware, 1) /\ Meets({x}, "thrown")
         \/ ~Throws(x) /\ CheckSendMsgQ(TakeOut(P, {x}), rest, firmware, 0) /\ EndsTimed({x})
  BY DEF ReceiveEndOfMsg
<1>3. x \in Messages /\ x \in All
  BY <1>1, ItemFields DEF All
<1>4. /\ x \in given /\ x \notin ToSet(port.pend) /\ x \in Open(port) /\ x \notin Inits
      /\ x \in ToSet(port.new) => ~u.reply
      /\ x \in ToSet(port.new) \/ x \in ToSet(port.sent)
      /\ u \in Transactions
  BY <1>2, <1>3, Now, Disjoint DEF Active, Lists, Open, Ports
<1>5. P = q
  BY <1>3, Now DEF With, Ports
<1>6. c \in BOOLEAN
  BY <1>4 DEF Transactions
<1>7. Transmits(x, u, ToSet(port.sent), line, firmware.bus, packetId, spoilt)
  BY <1>3, KnownOf
<1>8. "success" \in Replies /\ "timeout" \in Replies
  BY DEF Replies
<1>9. what \in Replies
  BY <1>8
<1> HIDE DEF c, u, f, rest, P, what
<1>10. /\ t \in Transactions /\ t.frame = u.frame /\ t.next = u.next /\ t.max = u.max
       /\ t.reply = u.reply /\ t.cmd = u.cmd /\ t.pktId = u.pktId /\ t.confirmId = u.confirmId
  BY <1>4, <1>6 DEF Transactions
<1> HIDE DEF t
<1>11. /\ q \in Ports /\ Changed(port, q, x) /\ q.tx[x] = t /\ q.sent = port.sent
       /\ q.pend = port.pend /\ q.new = port.new
  BY <1>3, <1>10, Now, WithFacts
<1> HIDE DEF q
<1>12. Transmits(x, t, ToSet(q.sent), line, firmware.bus, packetId, spoilt)
  BY <1>1, <1>7, <1>10, <1>11 DEF Transmits, OneByOne
<1>13. Sound(q, given, line, firmware.bus, packetId, spoilt) /\ Open(q) \subseteq Open(port)
  <2> HIDE DEF x
  <2> QED
    BY <1>3, <1>4, <1>10, <1>11, <1>12, Now, SoundChange
<1>14. spoilt \subseteq spoilt'
  BY <1>2, TimedOut DEF Meets
<1>15. /\ Sound(q, given, line, firmware.bus, packetId, spoilt')
       /\ Sound(q, given, rest, firmware.bus, packetId, spoilt')
  <2>1. ToSet(rest) \subseteq ToSet(line) /\ line \in Seq(Items)
    BY Now, TailMembers DEF rest
  <2>2. ToSet(line) \subseteq ToSet(line)
    OBVIOUS
  <2> QED
    BY <1>1, <1>13, <1>14, <2>1, <2>2, Now, SoundLess
<1>17. /\ Sound(port', given, line', firmware'.bus, packetId', spoilt')
       /\ firmware' \in Firmwares /\ Grows(firmware.bus, firmware'.bus)
       /\ Open(port') \subseteq Open(q)
       /\ Excepted(x, spoilt') \/ x \notin Open(port')
  <2>1. CASE Throws(x)
    <3>1. Excepted(x, spoilt')
      BY <1>2, <2>1 DEF Meets, Excepted
    <3>2. NoWrite(q, rest, firmware, 0) \/ NoWrite(q, line, firmware, 1)
      BY <1>2, <1>5, <2>1
    <3>3. Follows(q, given, firmware, spoilt')
      BY <1>15, <3>2, Now, NoWriteKeeps
    <3> QED
      BY <3>1, <3>3 DEF Follows
  <2>2. CASE ~Throws(x)
    <3> DEFINE r == TakeOut(q, {x})
    <3>1. CheckSendMsgQ(r, rest, firmware, 0) /\ EndsTimed({x})
      BY <1>2, <1>5, <2>2
    <3>2. /\ Sound(r, given, rest, firmware.bus, packetId, spoilt') /\ Open(r) \subseteq Open(q)
          /\ x \notin Active(r) \cup ToSet(r.pend) /\ r.tx[x] = q.tx[x]
      <4> DEFINE S == {x}
      <4>1. S \in SUBSET (All \ ToSet(q.pend)) /\ r = TakeOut(q, S) /\ x \in S
        BY <1>3, <1>4, <1>11
      <4>2. /\ Sound(r, given, rest, firmware.bus, packetId, spoilt') /\ Open(r) \subseteq Open(q)
            /\ Left(q, r, S)
        <5> HIDE DEF S, r
        <5> QED
          BY <1>15, <4>1, Now, SoundTakeOut
      <4> QED
        BY <1>3, <4>2 DEF Left
    <3> HIDE DEF r
    <3>3. Follows(r, given, firmware, spoilt')
      BY <3>1, <3>2, Now, CheckSendKeeps
    <3>4. x \in ToSet(port.sent) /\ u.reply => Excepted(x, spoilt')
      BY <3>1, TimedOut DEF u
    <3>5. Excepted(x, spoilt') \/ x \notin Open(r)
      BY <1>4, <1>10, <1>11, <3>2, <3>4 DEF Open
    <3> QED
      BY <3>2, <3>3, <3>5 DEF Follows
  <2> QED
    BY <2>1, <2>2
<1>18. Open(port') \subseteq Open(port)
  BY <1>13, <1>17
<1>19. Whole(x, firmware'.bus)
  BY <1>1, <1>3, <1>17 DEF Whole, Grows
<1>20. (\A y \in Messages : Replied(y)) /\ answers' = [y \in Messages |-> answers'[y]]
  <2> HIDE DEF x
  <2> QED
    BY <1>2, <1>3, <1>4, <1>9, <1>17, <1>18, <1>19, ToldOne
<1> QED
  BY <1>2, <1>14, <1>17, <1>20, Now DEF StepSound
\* The transaction as its confirmation leaves it, before the next frame is loaded.
LEMMA Confirming ==
  ASSUME IInv, line # <<>>, Head(line).type = "confirm",
         NEW x \in Messages, x \in ToSet(port.sent), port.tx[x].confirmId = Head(line).id
  PROVE  LET f == Head(line)
             u == port.tx[x]
             v == IF J1939(x) /\ f.ok THEN TransmitConfirm(u, x) ELSE u
             t == [v EXCEPT !.reply = FALSE]
         IN  /\ t \in Transactions /\ ~t.reply /\ v.done = t.done /\ v.complete = t.complete
             /\ t.cmd = u.cmd /\ t.frame = u.frame /\ t.next = u.next /\ t.max = u.max
             /\ t.pktId = u.pktId /\ t.confirmId = u.confirmId
             /\ J1939(x) /\ ~RTS(x) /\ f.ok /\ ~t.done => t.next <= Frames[x]
             /\ Transmits(x, t, ToSet(port.sent), line, firmware.bus, packetId, spoilt)
<1> DEFINE f == Head(line)
           u == port.tx[x]
           d == [u EXCEPT !.done = TRUE, !.complete = TRUE]
           last == J1939(x) /\ f.ok /\ ~RTS(x) /\ u.next > Frames[x]
           v == IF J1939(x) /\ f.ok THEN TransmitConfirm(u, x) ELSE u
           t == [v EXCEPT !.reply = FALSE]
<1>1. f \in ToSet(line) /\ f.type = "confirm" /\ u.confirmId = f.id
  BY Now, TailMembers
<1>2. u \in Transactions /\ Frames[x] \in Nat
  BY SentOne, SerialAssumption
<1>3. Transmits(x, u, ToSet(port.sent), line, firmware.bus, packetId, spoilt)
  BY KnownOf
<1>4. v = IF last THEN d ELSE u
  BY DEF TransmitConfirm
<1>5. last => Repeated(x, spoilt) \/ Whole(x, firmware.bus)
  <2> SUFFICES ASSUME last, ~Repeated(x, spoilt) PROVE Whole(x, firmware.bus)
    OBVIOUS
  <2>1. OneByOne(x) /\ f.ok /\ u.next > Frames[x]
    BY DEF OneByOne
  <2> HIDE DEF f, u
  <2>2. /\ u.frame = u.next - 1 /\ u.next <= Frames[x] + 1
        /\ 0 .. u.next - 2 \subseteq firmware.bus[x] /\ u.frame \in firmware.bus[x]
    BY <1>1, <1>3, <2>1 DEF Transmits, Steady
  <2>3. u.next \in Nat
    BY <1>2 DEF Transactions
  <2>4. u.next = Frames[x] + 1
    BY <1>2, <2>1, <2>2, <2>3
  <2>5. 0 .. Frames[x] = 0 .. u.next - 2 \cup {u.frame}
    BY <1>2, <2>2, <2>3, <2>4
  <2> QED
    BY <2>2, <2>5 DEF Whole
<1>6. J1939(x) /\ ~RTS(x) /\ f.ok /\ ~last => u.next <= Frames[x]
  BY <1>2 DEF Transactions
<1> HIDE DEF u, f, last
<1>7. /\ d \in Transactions /\ d.done /\ d.complete
      /\ d.cmd = u.cmd /\ d.frame = u.frame /\ d.next = u.next /\ d.max = u.max
      /\ d.pktId = u.pktId /\ d.confirmId = u.confirmId
  BY <1>2 DEF Transactions
<1> HIDE DEF d
<1>8. v \in Transactions
  BY <1>2, <1>4, <1>7
<1>9. /\ v.cmd = u.cmd /\ v.frame = u.frame /\ v.next = u.next /\ v.max = u.max
      /\ v.pktId = u.pktId /\ v.confirmId = u.confirmId
      /\ last => v.done
      /\ ~last => v.complete = u.complete
  BY <1>4, <1>7
<1> HIDE DEF v
<1>10. /\ t \in Transactions /\ ~t.reply /\ v.done = t.done /\ v.complete = t.complete
       /\ t.cmd = v.cmd /\ t.frame = v.frame /\ t.next = v.next /\ t.max = v.max
       /\ t.pktId = v.pktId /\ t.confirmId = v.confirmId
  BY <1>8 DEF Transactions
<1> HIDE DEF t
<1>11. J1939(x) /\ ~RTS(x) /\ f.ok /\ ~t.done => t.next <= Frames[x]
  BY <1>6, <1>9, <1>10
<1>12. Transmits(x, t, ToSet(port.sent), line, firmware.bus, packetId, spoilt)
  BY <1>3, <1>5, <1>9, <1>10 DEF Transmits, Steady
<1> QED
  BY <1>9, <1>10, <1>11, <1>12 DEF t, v, u, f

\* The next frame, after a confirmation that it does not come again.
LEMMA Loading ==
  ASSUME NEW x \in Messages, NEW t \in Transactions, ~t.done, J1939(x),
         ~RTS(x) => t.next <= Frames[x],
         NEW S, NEW l, NEW bus, NEW id, NEW sp, x \in S, Transmits(x, t, S, l, bus, id, sp),
         NEW k, ToSet(k) \subseteq ToSet(l), NEW sq, sp \subseteq sq,
         NEW f \in ToSet(l), f.type = "confirm", f.ok, f.id = t.confirmId, ~t.reply,
         Repeated(x, sq) \/ \A e \in ToSet(k) : e.type = "confirm" => e.id # f.id
  PROVE  LET v == GetCANPacket(t, x)
         IN  /\ v \in Transactions /\ ~v.reply
             /\ Transmits(x, v, S \ {x}, k, bus, id, sq)
<1> DEFINE v == GetCANPacket(t, x)
<1>1. v \in Transactions /\ v.reply = t.reply /\ v.confirmId = t.confirmId
  BY LoadTyped
<1>2. v.cmd = t.cmd /\ v.pktId = t.pktId /\ v.max = t.max /\ v.complete = t.complete
  BY DEF GetCANPacket, Transactions
<1>3. Frames[x] \in Nat /\ t.next \in Nat /\ t.max \in Nat
  BY SerialAssumption DEF Transactions
<1>4. RTS(x) => (v.frame >= 1 => v.max > 0)
  <2> SUFFICES ASSUME RTS(x), v.frame >= 1 PROVE t.max > 0
    BY <1>2
  <2>1. v.frame = t.next /\ t.next <= t.max
    BY <1>3 DEF GetCANPacket, Transactions, NoFrame
  <2> QED
    BY <1>3, <2>1
<1>5. OneByOne(x) => v.frame = t.next /\ v.next = t.next + 1
  BY <1>3 DEF OneByOne, GetCANPacket, Transactions
<1> HIDE DEF v
<1>6. OneByOne(x) => Repeated(x, sq) \/ Steady(x, v, S \ {x}, k, bus)
  <2> SUFFICES ASSUME OneByOne(x), ~Repeated(x, sq) PROVE Steady(x, v, S \ {x}, k, bus)
    OBVIOUS
  <2>1. Steady(x, t, S, l, bus)
    BY DEF Transmits, Repeated
  <2>2. t.frame \in bus[x] /\ t.frame = t.next - 1 /\ 0 .. t.next - 2 \subseteq bus[x]
    BY <2>1 DEF Steady
  <2>3. 0 .. v.next - 2 \subseteq bus[x]
    <3>1. \A i \in 0 .. v.next - 2 : i \in 0 .. t.next - 2 \/ i = t.frame
      BY <1>3, <1>5, <2>2
    <3> QED
      BY <2>2, <3>1
  <2>4. v.frame = v.next - 1 /\ v.next <= Frames[x] + 1
    BY <1>3, <1>5 DEF OneByOne
  <2>5. ~\E e \in ToSet(k) : e.type = "confirm" /\ e.ok
                               /\ (e.id = v.confirmId \/ (x \in S \ {x} /\ e.id = v.pktId))
    BY <1>1
  <2> QED
    BY <2>3, <2>4, <2>5 DEF Steady
<1>7. v.complete => Repeated(x, sq) \/ Whole(x, bus)
  BY <1>2 DEF Transmits, Repeated
<1>8. Transmits(x, v, S \ {x}, k, bus, id, sq)
  BY <1>1, <1>2, <1>4, <1>6, <1>7 DEF Transmits
<1> QED
  BY <1>1, <1>8 DEF v
LEMMA ReceiveConfirmKeeps ==
  ASSUME IInv, line # <<>>, Head(line).type = "confirm", NEW rest, NEW cost,
         (rest = Tail(line) /\ cost = 0) \/ (rest = line /\ cost = 1),
         ReceiveConfirm(Head(line), rest, cost)
  PROVE  StepSound
<1> DEFINE f == Head(line)
           T(x) == IF J1939(x) /\ f.ok THEN TransmitConfirm(port.tx[x], x) ELSE port.tx[x]
           P(x) == [port EXCEPT !.tx[x] = [T(x) EXCEPT !.reply = FALSE]]
           ends(x) == ~f.ok \/ ~J1939(x) \/ T(x).done
           what(x) == IF ~f.ok THEN "fail"
                      ELSE IF ~J1939(x) \/ T(x).complete THEN "success" ELSE "timeout"
           S == ToSet(port.sent)
<1>1. PICK x \in Confirmed(port, f.id) :
        /\ \/ /\ ends(x) /\ answers' = Tell(x, what(x))
              /\ CheckSendMsgQ(TakeOut(P(x), {x}), rest, firmware, cost)
           \/ /\ ~ends(x) /\ answers' = answers
              /\ CheckSendMsgQ(CheckJ1939Pending(Requeue(Load(P(x), x), x)), rest, firmware, cost)
        /\ Meets(IF cost > 0 THEN {x} ELSE {}, "repeated")
        /\ given' = given
  BY DEF ReceiveConfirm
<1>2. /\ x \in S /\ port.tx[x].confirmId = f.id /\ f.id # 0
  BY <1>1, Reading DEF Confirmed
<1>3. x \in Messages /\ x \in All /\ x \in given /\ x \in Open(port) /\ x \notin Inits
      /\ x \notin ToSet(port.new) /\ x \notin ToSet(port.pend)
  BY <1>2, SentOne, Disjoint DEF All
<1>4. /\ ToSet(rest) \subseteq ToSet(line) /\ rest \in Seq(Items)
      /\ Incoming(rest, firmware.bus, packetId)
      /\ f \in ToSet(line)
      /\ cost = 0 => \A e \in ToSet(rest) : e.type = "confirm" => e.id # f.id
  <2>1. /\ Incoming(Tail(line), firmware.bus, packetId) /\ Tail(line) \in Seq(Items)
        /\ f \in ToSet(line) /\ ToSet(Tail(line)) \subseteq ToSet(line)
        /\ \A e \in ToSet(Tail(line)) : e.type = "confirm" /\ f.type = "confirm" => e.id # f.id
    BY Now, IncomingTail
  <2>2. f.type = "confirm" /\ line \in Seq(Items) /\ Incoming(line, firmware.bus, packetId)
    BY Now
  <2> HIDE DEF f
  <2>3. CASE rest = Tail(line) /\ cost = 0
    BY <2>1, <2>2, <2>3
  <2>4. CASE rest = line /\ cost = 1
    BY <2>1, <2>2, <2>4
  <2> QED
    BY <2>3, <2>4
<1>5. /\ spoilt \subseteq spoilt' /\ (cost > 0 => Repeated(x, spoilt'))
  BY <1>1 DEF Meets, Repeated
<1>6. Sound(port, given, rest, firmware.bus, packetId, spoilt')
  BY <1>4, <1>5, Now, SoundLess
<1> DEFINE t == [T(x) EXCEPT !.reply = FALSE]
           q == With(port, x, t)
<1>7. /\ t \in Transactions /\ ~t.reply /\ T(x).done = t.done /\ T(x).complete = t.complete
      /\ t.confirmId = port.tx[x].confirmId
      /\ J1939(x) /\ ~RTS(x) /\ f.ok /\ ~t.done => t.next <= Frames[x]
      /\ Transmits(x, t, S, line, firmware.bus, packetId, spoilt)
  BY <1>2, <1>3, Confirming
<1>8. q = P(x)
  BY Now DEF With, Ports
<1>9. CASE ends(x)
  <2> DEFINE w == what(x)
             r == TakeOut(q, {x})
  <2>1. answers' = Tell(x, w) /\ CheckSendMsgQ(r, rest, firmware, cost)
    BY <1>1, <1>8, <1>9
  <2>2. w \in Replies
    BY DEF Replies
  <2>3. w = "success" /\ J1939(x) => t.complete
    BY <1>7
  <2> HIDE DEF w, t, T, P, ends, what, f
  <2>4. /\ q \in Ports /\ Changed(port, q, x) /\ q.tx[x] = t /\ q.sent = port.sent
        /\ q.pend = port.pend
    BY <1>3, <1>7, Now, WithFacts
  <2> HIDE DEF q
  <2>5. Transmits(x, t, ToSet(q.sent), line, firmware.bus, packetId, spoilt)
    BY <1>7, <2>4
  <2>6. Sound(q, given, line, firmware.bus, packetId, spoilt) /\ Open(q) \subseteq Open(port)
    BY <1>3, <1>7, <2>4, <2>5, Now, SoundChange
  <2>7. Sound(q, given, rest, firmware.bus, packetId, spoilt')
    BY <1>4, <1>5, <2>6, SoundLess
  <2>8. /\ Sound(r, given, rest, firmware.bus, packetId, spoilt') /\ Open(r) \subseteq Open(q)
        /\ x \notin Active(r) \cup ToSet(r.pend) /\ r.tx[x] = q.tx[x]
    <3> DEFINE X == {x}
    <3>1. X \in SUBSET (All \ ToSet(q.pend)) /\ r = TakeOut(q, X) /\ x \in X
      BY <1>3, <2>4
    <3>2. /\ Sound(r, given, rest, firmware.bus, packetId, spoilt') /\ Open(r) \subseteq Open(q)
          /\ Left(q, r, X)
      <4> HIDE DEF X, r
      <4> QED
        BY <2>7, <3>1, Now, SoundTakeOut
    <3> QED
      BY <1>3, <3>2 DEF Left
  <2> HIDE DEF r
  <2>9. Follows(r, given, firmware, spoilt')
    BY <2>1, <2>8, Now, CheckSendKeeps
  <2>10. x \notin Open(port') /\ Open(port') \subseteq Open(port)
    BY <1>7, <2>4, <2>6, <2>8, <2>9 DEF Follows, Open
  <2>11. w = "success" /\ J1939(x) => Whole(x, firmware'.bus) \/ Repeated(x, spoilt')
    BY <1>3, <1>5, <1>7, <2>3, <2>9 DEF Transmits, Whole, Repeated, Follows, Grows
  <2>12. (\A y \in Messages : Replied(y)) /\ answers' = [y \in Messages |-> answers'[y]]
    BY <1>3, <2>1, <2>2, <2>10, <2>11, ToldOne
  <2> QED
    BY <1>1, <1>5, <2>9, <2>12, Now DEF StepSound, Follows
<1>10. CASE ~ends(x)
  <2> DEFINE v == GetCANPacket(t, x)
             r == With(port, x, v)
             s == Requeue(r, x)
             z == CheckJ1939Pending(s)
  <2>1. f.ok /\ J1939(x) /\ ~t.done
    BY <1>7, <1>10
  <2>2. r = Load(P(x), x)
    <3>1. q.tx[x] = t /\ Load(q, x) = [q EXCEPT !.tx = [q.tx EXCEPT ![x] = GetCANPacket(q.tx[x], x)]]
      <4> HIDE DEF t
      <4>1. q \in Ports /\ q.tx[x] = t
        BY <1>3, <1>7, Now, WithFacts
      <4> HIDE DEF q
      <4> QED
        BY <1>3, <4>1 DEF Load, Ports
    <3>2. [q EXCEPT !.tx = [q.tx EXCEPT ![x] = v]] = r
      <4> HIDE DEF t, v
      <4> QED
        BY <1>3, Now DEF With, Ports
    <3> QED
      BY <1>8, <3>1, <3>2
  <2>3. answers' = answers /\ CheckSendMsgQ(z, rest, firmware, cost)
    BY <1>1, <1>10, <2>2
  <2>4. v \in Transactions /\ ~v.reply /\ Transmits(x, v, S \ {x}, rest, firmware.bus, packetId, spoilt')
    <3>1. Repeated(x, spoilt') \/ \A e \in ToSet(rest) : e.type = "confirm" => e.id # f.id
      BY <1>4, <1>5
    <3>2. f.type = "confirm" /\ f.id = t.confirmId /\ (~RTS(x) => t.next <= Frames[x])
      BY <1>2, <1>7, <2>1
    <3> HIDE DEF t, S, f
    <3> QED
      BY <1>2, <1>3, <1>4, <1>5, <1>7, <2>1, <3>1, <3>2, Loading
  <2> HIDE DEF v
  <2>5. /\ r \in Ports /\ Changed(port, r, x) /\ r.tx[x] = v /\ r.sent = port.sent
        /\ r.pend = port.pend
    BY <1>3, <2>4, Now, WithFacts
  <2> HIDE DEF r
  <2>6. Lists(r, given) /\ Reasons(r) /\ Open(r) \subseteq Open(port)
    <3>1. Lists(port, given) /\ Reasons(port)
      BY Now DEF Sound
    <3> QED
      BY <1>3, <2>4, <2>5, <3>1, Now, ChangeKeeps
  <2>7. AllTransmit(r, S \ {x}, rest, firmware.bus, packetId, spoilt')
    <3>1. AllTransmit(port, S, rest, firmware.bus, packetId, spoilt')
      BY <1>6 DEF Sound
    <3> DEFINE R == S \ {x}
    <3>2. R \in SUBSET S /\ ToSet(rest) \subseteq ToSet(rest) /\ spoilt' \subseteq spoilt'
      OBVIOUS
    <3>3. AllTransmit(port, R, rest, firmware.bus, packetId, spoilt')
      <4> HIDE DEF R, S
      <4> QED
        BY <3>1, <3>2, Now, LessTransmit
    <3>4. \A y \in Messages : y # x => r.tx[y] = port.tx[y]
      BY <2>5 DEF Changed, All
    <3>5. Transmits(x, r.tx[x], R, rest, firmware.bus, packetId, spoilt')
      BY <2>4, <2>5
    <3> HIDE DEF R
    <3>6. AllTransmit(r, R, rest, firmware.bus, packetId, spoilt')
      BY <3>3, <3>4, <3>5 DEF AllTransmit
    <3> QED
      BY <3>6 DEF R
  <2>8. /\ s \in Ports /\ Lists(s, given) /\ Moves(r, s) /\ Reasons(s)
        /\ ToSet(s.sent) = S \ {x} /\ Open(s) \subseteq Open(r)
    <3>1. x \in ToSet(r.sent) /\ ~r.tx[x].reply
      BY <1>2, <2>4, <2>5
    <3> QED
      BY <2>5, <2>6, <3>1, Now, RequeueKeeps
  <2> HIDE DEF s
  <2>9. Sound(s, given, rest, firmware.bus, packetId, spoilt')
    <3>1. AllTransmit(s, S \ {x}, rest, firmware.bus, packetId, spoilt')
      <4> DEFINE R == S \ {x}
      <4>1. AllTransmit(r, R, rest, firmware.bus, packetId, spoilt')
        BY <2>7
      <4> HIDE DEF R
      <4>2. AllTransmit(s, R, rest, firmware.bus, packetId, spoilt')
        BY <1>4, <2>5, <2>8, <4>1, Now, MovesTransmit
      <4> QED
        BY <4>2 DEF R
    <3> QED
      BY <1>4, <2>8, <3>1, Now DEF Sound
  <2>10. /\ z \in Ports /\ Lists(z, given) /\ Moves(s, z) /\ Reasons(z) /\ z.sent = s.sent
         /\ Open(z) \subseteq Open(s)
    BY <2>8, Now, CheckKeeps
  <2> HIDE DEF z
  <2>11. Sound(z, given, rest, firmware.bus, packetId, spoilt')
    BY <2>9, <2>10, SoundMoves
  <2>12. Follows(z, given, firmware, spoilt')
    BY <2>3, <2>11, Now, CheckSendKeeps
  <2> QED
    BY <1>1, <1>5, <2>3, <2>6, <2>8, <2>10, <2>12, Now, Silent
<1> QED
  BY <1>9, <1>10
(***************************************************************************)
(* The timers.                                                             *)
(***************************************************************************)
LEMMA WriteFollows ==
  ASSUME NEW g \in SUBSET Messages, NEW p, NEW x \in All, NEW rest, NEW fw \in Firmwares,
         NEW cost, NEW sp, Sound(p, g, rest, fw.bus, packetId, sp),
         x \in Messages => /\ x \in g /\ x \notin ToSet(p.pend) /\ x \notin ToSet(p.new)
                           /\ x \in Open(p) /\ p.tx[x].frame # NoFrame,
         Write(p, x, rest, fw, cost)
  PROVE  Follows(p, g, fw, sp)
<1> DEFINE S == ToSet(p.sent)
<1>1. /\ p \in Ports /\ Lists(p, g) /\ Reasons(p) /\ rest \in Seq(Items) /\ packetId \in Nat
      /\ AllTransmit(p, S, rest, fw.bus, packetId, sp)
      /\ Incoming(rest, fw.bus, packetId)
  BY DEF Sound
<1>2. ToSet(p.sent) \subseteq S \cup {x}
  OBVIOUS
<1> HIDE DEF S
<1>3. /\ port' \in Ports /\ Changed(p, port', x)
      /\ port'.tx[x].confirmId = p.tx[x].confirmId /\ port'.tx[x].cmd = p.tx[x].cmd
      /\ line' \in Seq(Items) /\ packetId' \in Nat /\ firmware' \in Firmwares
      /\ Grows(fw.bus, firmware'.bus)
      /\ AllTransmit(port', ToSet(port'.sent), line', firmware'.bus, packetId', sp)
      /\ Incoming(line', firmware'.bus, packetId')
  BY <1>1, <1>2, WriteKeeps
<1>4. x \in Inits => port'.tx[x].confirmId = 0 /\ (x \in Active(p) => port'.tx[x].cmd \in Stages)
  BY <1>1, <1>3 DEF Lists
<1>5. Lists(port', g) /\ Reasons(port') /\ Open(port') \subseteq Open(p)
  BY <1>1, <1>3, <1>4, ChangeKeeps
<1> QED
  BY <1>1, <1>3, <1>5 DEF Follows, Sound

\* A message whose timer runs.
LEMMA Timed ==
  ASSUME IInv, NEW x \in Messages, port.tx[x].reply
  PROVE  /\ x \in given /\ x \notin ToSet(port.pend) /\ x \notin ToSet(port.new)
         /\ x \in Open(port) /\ port.tx[x].frame # NoFrame
<1>1. ~Fresh(x).reply
  BY FreshTyped DEF All
<1>2. port.tx[x].frame # NoFrame
  BY KnownOf DEF Transmits
<1> QED
  BY <1>1, <1>2, Now DEF Lists, Open

LEMMA ResendKeeps ==
  ASSUME IInv, NEW x \in All, port.tx[x].reply, Resend(x)
  PROVE  StepSound
<1> DEFINE P == [port EXCEPT !.tx[x].retries = @ - 1]
           F(on) == [firmware EXCEPT !.confirming = @ \/ on]
<1>1. PICK on \in BOOLEAN : Write(P, x, line, F(on), Late + IF on THEN 0 ELSE 1)
  BY DEF Resend
<1>2. answers' = answers /\ given' = given /\ spoilt' = spoilt
  BY DEF Resend
<1> DEFINE u == port.tx[x]
           n == u.retries - 1
           t == [u EXCEPT !.retries = n]
           q == With(port, x, t)
           b == firmware.confirming \/ on
           fw == [firmware EXCEPT !.confirming = b]
           cost == Late + IF on THEN 0 ELSE 1
<1>3. port.tx \in [All -> Transactions] /\ u \in Transactions
  BY Now DEF Ports
<1>4. n \in Int
  BY <1>3 DEF Transactions
<1>5. q = P /\ fw = F(on)
  BY <1>3, Now DEF With, Ports, Firmwares
<1>6. b \in BOOLEAN
  BY Now DEF Firmwares
<1>7. Write(q, x, line, fw, cost)
  BY <1>1, <1>5
<1> HIDE DEF b, P, F, n, cost
<1>8. fw \in Firmwares /\ fw.bus = firmware.bus
  BY <1>6, Now DEF Firmwares
<1>9. x \in Messages => /\ x \in given /\ x \notin ToSet(port.pend) /\ x \notin ToSet(port.new)
                        /\ x \in Open(port) /\ port.tx[x].frame # NoFrame
  BY Timed
<1>10. x \in Messages => Transmits(x, u, ToSet(port.sent), line, firmware.bus, packetId, spoilt)
  BY KnownOf
<1>11. x \in Inits => u.confirmId = 0 /\ (x \in Active(port) => u.cmd \in Stages)
  BY Now DEF Lists
<1> HIDE DEF fw, u
<1>12. /\ t \in Transactions /\ t.cmd = u.cmd /\ t.frame = u.frame /\ t.next = u.next
       /\ t.max = u.max /\ t.complete = u.complete /\ t.reply = u.reply
       /\ t.pktId = u.pktId /\ t.confirmId = u.confirmId
  BY <1>3, <1>4 DEF Transactions
<1> HIDE DEF t
<1>13. /\ q \in Ports /\ Changed(port, q, x) /\ q.tx[x] = t /\ q.sent = port.sent
       /\ q.pend = port.pend /\ q.new = port.new
  BY <1>12, Now, WithFacts
<1> HIDE DEF q
<1>14. x \in Messages => Transmits(x, t, ToSet(q.sent), line, firmware.bus, packetId, spoilt)
  BY <1>10, <1>12, <1>13 DEF Transmits, Steady
<1>15. Sound(q, given, line, firmware.bus, packetId, spoilt) /\ Open(q) \subseteq Open(port)
  BY <1>9, <1>11, <1>12, <1>13, <1>14, Now, SoundChange
<1>16. Follows(q, given, fw, spoilt)
  <2>1. x \in Messages => x \in Open(q) /\ q.tx[x].frame # NoFrame
    BY <1>9, <1>12, <1>13 DEF Open, u
  <2>2. Sound(q, given, line, fw.bus, packetId, spoilt)
    BY <1>8, <1>15
  <2>3. x \in Messages => /\ x \in given /\ x \notin ToSet(q.pend) /\ x \notin ToSet(q.new)
                          /\ x \in Open(q) /\ q.tx[x].frame # NoFrame
    BY <1>9, <1>13, <2>1
  <2> QED
    BY <1>7, <1>8, <2>2, <2>3, Now, WriteFollows
<1> QED
  BY <1>2, <1>8, <1>15, <1>16, Now, Silent

\* The timer of x is stopped.
LEMMA Stopping ==
  ASSUME IInv, NEW x \in All, port.tx[x].reply
  PROVE  LET q == [port EXCEPT !.tx[x].reply = FALSE]
         IN  /\ q \in Ports /\ Sound(q, given, line, firmware.bus, packetId, spoilt)
             /\ Open(q) \subseteq Open(port) /\ ~q.tx[x].reply /\ q.sent = port.sent
             /\ q.new = port.new /\ q.pend = port.pend /\ Active(q) = Active(port)
<1> DEFINE P == [port EXCEPT !.tx[x].reply = FALSE]
           u == port.tx[x]
           t == [u EXCEPT !.reply = FALSE]
           q == With(port, x, t)
<1>1. port.tx \in [All -> Transactions] /\ u \in Transactions
  BY Now DEF Ports
<1>2. q = P
  BY <1>1, Now DEF With, Ports
<1>3. x \in Messages => /\ x \in given /\ x \notin ToSet(port.pend) /\ x \notin ToSet(port.new)
                        /\ x \in Open(port) /\ port.tx[x].frame # NoFrame
  BY Timed
<1>4. x \in Messages => Transmits(x, u, ToSet(port.sent), line, firmware.bus, packetId, spoilt)
  BY KnownOf
<1>5. x \in Inits => u.confirmId = 0 /\ (x \in Active(port) => u.cmd \in Stages)
  BY Now DEF Lists
<1> HIDE DEF P, u
<1>6. /\ t \in Transactions /\ t.cmd = u.cmd /\ t.frame = u.frame /\ t.next = u.next
      /\ t.max = u.max /\ t.complete = u.complete /\ ~t.reply
      /\ t.pktId = u.pktId /\ t.confirmId = u.confirmId
  BY <1>1 DEF Transactions
<1> HIDE DEF t
<1>7. /\ q \in Ports /\ Changed(port, q, x) /\ q.tx[x] = t /\ q.sent = port.sent
      /\ q.pend = port.pend /\ q.new = port.new
  BY <1>6, Now, WithFacts
<1> HIDE DEF q
<1>8. x \in Messages => Transmits(x, t, ToSet(q.sent), line, firmware.bus, packetId, spoilt)
  BY <1>4, <1>6, <1>7 DEF Transmits, Steady
<1>9. /\ Sound(q, given, line, firmware.bus, packetId, spoilt) /\ Open(q) \subseteq Open(port)
      /\ Active(q) = Active(port)
  <2>1. ~q.tx[x].reply
    BY <1>6, <1>7
  <2>2. x \in Messages => /\ x \in given /\ x \notin ToSet(port.pend)
                          /\ Transmits(x, q.tx[x], ToSet(q.sent), line, firmware.bus, packetId, spoilt)
                          /\ x \in ToSet(port.new) => ~q.tx[x].reply
    BY <1>3, <1>7, <1>8
  <2>3. x \in Inits => q.tx[x].confirmId = 0 /\ (x \in Active(port) => q.tx[x].cmd \in Stages)
    BY <1>5, <1>6, <1>7
  <2>4. /\ Sound(q, given, line, firmware.bus, packetId, spoilt) /\ Active(q) = Active(port)
        /\ x \in Messages /\ ~q.tx[x].reply => Open(q) \subseteq Open(port)
        /\ x \notin Messages \/ x \in Open(port) => Open(q) \subseteq Open(port)
    BY <1>7, <2>2, <2>3, Now, SoundChange
  <2> QED
    BY <2>1, <2>4
<1> QED
  BY <1>2, <1>6, <1>7, <1>9 DEF P

LEMMA DoneTimeOutKeeps ==
  ASSUME IInv, NEW x \in All, port.tx[x].reply,
         NoWrite([port EXCEPT !.tx[x].reply = FALSE], line, firmware, Late),
         UNCHANGED <<answers, given, spoilt>>
  PROVE  StepSound
<1> DEFINE q == [port EXCEPT !.tx[x].reply = FALSE]
<1>1. Sound(q, given, line, firmware.bus, packetId, spoilt) /\ Open(q) \subseteq Open(port)
  BY Stopping
<1>2. NoWrite(q, line, firmware, Late)
  OBVIOUS
<1> HIDE DEF q
<1>3. Follows(q, given, firmware, spoilt)
  BY <1>1, <1>2, Now, NoWriteKeeps
<1> QED
  BY <1>1, <1>3, Now, Silent
LEMMA GiveUpKeeps ==
  ASSUME IInv, NEW x \in All, port.tx[x].reply, GiveUp(x)
  PROVE  StepSound
<1> DEFINE V == Victims(x)
           s == [port EXCEPT !.tx[x].reply = FALSE]
           p == IF V = {} THEN s ELSE TakeOut(s, V)
           c == ClearQBTransactionNew(p)
           q == [c EXCEPT !.tx[x] = IF x \in Inits /\ x \in V THEN Fresh(x) ELSE @]
           r == ReInitSerialPort(q)
           C == Cleared(p)
<1>1. /\ Idle(q) # {} /\ CheckSendMsgQ(r, line, firmware, Late)
      /\ answers' = TellAll(TellAll(answers, {x} \cap Messages, "timeout"), C \cap Messages, "timeout")
      /\ given' = given /\ spoilt' = spoilt
  BY DEF GiveUp
<1>2. /\ s \in Ports /\ Sound(s, given, line, firmware.bus, packetId, spoilt)
      /\ Open(s) \subseteq Open(port) /\ ~s.tx[x].reply /\ s.sent = port.sent
      /\ s.new = port.new /\ s.pend = port.pend /\ Active(s) = Active(port)
  BY Stopping
<1>3. V \in SUBSET (All \ ToSet(s.pend)) /\ V \subseteq ToSet(port.sent)
  <2>1. V \subseteq ToSet(port.sent)
    BY DEF Victims
  <2> HIDE DEF V
  <2> QED
    BY <1>2, <2>1, SentOne
<1>4. x \in Messages => x \in V \/ x \notin Active(port) \cup ToSet(port.pend)
  <2> SUFFICES ASSUME x \in Messages, x \notin V PROVE x \notin Active(port) \cup ToSet(port.pend)
    OBVIOUS
  <2>1. port.tx[x].cmd # "CAN_CONTROL"
    BY KnownOf, Disjoint DEF Transmits, Fresh
  <2>2. x \notin ToSet(port.sent)
    BY <2>1 DEF Victims
  <2> QED
    BY <2>2, Timed DEF Active
<1> HIDE DEF s, V
<1>5. /\ p \in Ports /\ Sound(p, given, line, firmware.bus, packetId, spoilt)
      /\ Open(p) \subseteq Open(s) /\ Left(s, p, V)
  <2>1. CASE V = {}
    BY <1>2, <2>1 DEF Left
  <2>2. CASE V # {}
    <3>1. LET t == TakeOut(s, V)
          IN  /\ Sound(t, given, line, firmware.bus, packetId, spoilt) /\ Open(t) \subseteq Open(s)
              /\ Left(s, t, V)
      BY <1>2, <1>3, Now, SoundTakeOut
    <3> QED
      BY <2>2, <3>1 DEF Sound
  <2> QED
    BY <2>1, <2>2
<1> HIDE DEF p
<1>6. x \in Messages => x \notin Open(p)
  <2> SUFFICES ASSUME x \in Messages PROVE x \notin Open(p)
    OBVIOUS
  <2>1. CASE x \in V
    BY <1>2, <1>5, <2>1 DEF Left, Open
  <2>2. CASE x \notin V
    BY <1>2, <1>4, <1>5, <2>2 DEF Open
  <2> QED
    BY <2>1, <2>2
<1>7. /\ c \in Ports /\ Lists(c, given) /\ Moves(p, c) /\ Reasons(c) /\ c.tx = p.tx
      /\ c.sent = p.sent /\ Open(c) \subseteq Open(p) \ C
      /\ C \cap Messages \subseteq Open(p) /\ Active(c) \subseteq Active(p)
  <2>1. Lists(p, given)
    BY <1>5 DEF Sound
  <2> QED
    BY <1>5, <2>1, Now, ClearKeeps
<1> HIDE DEF c, C
<1>8. Sound(c, given, line, firmware.bus, packetId, spoilt)
  BY <1>5, <1>7, SoundMoves
<1>9. q \in Ports /\ Sound(q, given, line, firmware.bus, packetId, spoilt) /\ Open(q) \subseteq Open(c)
  <2>1. CASE x \in Inits /\ x \in V
    <3> DEFINE t == Fresh(x)
    <3>1. q = With(c, x, t)
      BY <1>7, <2>1 DEF With, Ports
    <3>2. t \in Transactions /\ t.confirmId = 0
      BY FreshTyped
    <3> HIDE DEF t
    <3> HIDE DEF q
    <3>3. q \in Ports /\ Changed(c, q, x) /\ q.tx[x] = t
      BY <1>7, <3>1, <3>2, WithFacts
    <3>4. x \notin Active(c) /\ x \notin Messages /\ q.tx[x].confirmId = 0
      BY <1>5, <1>7, <2>1, <3>2, <3>3, Disjoint DEF Left
    <3> QED
      BY <1>8, <3>3, <3>4, Now, SoundChange
  <2>2. CASE ~(x \in Inits /\ x \in V)
    <3>1. q = c
      BY <1>7, <2>2 DEF Ports
    <3> QED
      BY <1>7, <1>8, <3>1
  <2> QED
    BY <2>1, <2>2
<1> HIDE DEF q
<1>10. /\ r \in Ports /\ Lists(r, given) /\ Moves(q, r) /\ Reasons(r) /\ r.sent = q.sent
       /\ Open(r) \subseteq Open(q)
  <2>1. Lists(q, given) /\ Reasons(q)
    BY <1>9 DEF Sound
  <2> QED
    BY <1>1, <1>9, <2>1, Now, ReInitKeeps
<1> HIDE DEF r
<1>11. Sound(r, given, line, firmware.bus, packetId, spoilt)
  BY <1>9, <1>10, SoundMoves
<1>12. Follows(r, given, firmware, spoilt)
  BY <1>1, <1>11, Now, CheckSendKeeps
<1>13. Open(port') \subseteq Open(p) \ C /\ Open(p) \subseteq Open(port)
  BY <1>2, <1>5, <1>7, <1>9, <1>10, <1>12 DEF Follows
<1>14. x \notin C \cap Messages
  BY <1>6, <1>7
<1>15. ASSUME NEW y \in Messages PROVE Replied(y)
  <2>1. answers'[y] = IF y = x \/ y \in C THEN Append(answers[y], "timeout") ELSE answers[y]
    BY <1>1, <1>14 DEF TellAll
  <2>2. y = x => y \in Open(port) /\ y \in given /\ y \notin Open(port')
    BY <1>6, <1>13, Timed
  <2>3. y \in C => y \in Open(port) /\ y \in given /\ y \notin Open(port')
    BY <1>7, <1>13, InListGiven
  <2>4. y \in Open(port') => y \in Open(port)
    BY <1>13
  <2>5. "timeout" \in Replies /\ "timeout" # "success"
    BY DEF Replies
  <2> QED
    BY <2>1, <2>2, <2>3, <2>4, <2>5 DEF Replied
<1>16. answers' = [y \in Messages |-> answers'[y]]
  BY <1>1 DEF TellAll
<1> QED
  BY <1>1, <1>12, <1>15, <1>16, Now DEF StepSound, Follows

LEMMA ComReplyTimeOutKeeps ==
  ASSUME IInv, NEW x \in All, ComReplyTimeOut(x)
  PROVE  StepSound
<1>1. port.tx[x].reply
  BY DEF ComReplyTimeOut
<1>2. CASE GiveUp(x)
  BY <1>1, <1>2, GiveUpKeeps
<1>3. CASE Resend(x)
  BY <1>1, <1>3, ResendKeeps
<1>4. CASE /\ NoWrite([port EXCEPT !.tx[x].reply = FALSE], line, firmware, Late)
           /\ UNCHANGED <<answers, given, spoilt>>
  BY <1>1, <1>4, DoneTimeOutKeeps
<1> QED
  BY <1>2, <1>3, <1>4 DEF ComReplyTimeOut

LEMMA BusTimeOutKeeps ==
  ASSUME IInv, NEW x \in Messages, BusTimeOut(x)
  PROVE  StepSound
<1> DEFINE P == [port EXCEPT !.tx[x].done = TRUE, !.tx[x].busTimer = FALSE]
           late == IF line = <<>> /\ ~port.tx[x].reply THEN 0 ELSE 1
           u == port.tx[x]
           t == [u EXCEPT !.done = TRUE, !.busTimer = FALSE]
           p == With(port, x, t)
           E == {y \in Active(p) : p.tx[y].done}
           W == {y \in E : p.tx[y].complete}
           r == TakeOut(p, E)
<1>1. x \in All /\ port.tx \in [All -> Transactions] /\ u \in Transactions
  BY Now DEF All, Ports
<1>2. P = p
  BY <1>1, Now DEF With, Ports
<1>3. /\ u.busTimer /\ NoWrite(r, line, firmware, late)
      /\ answers' = TellAll(TellAll(answers, W, "success"), E \ W, "timeout")
      /\ EndsTimed(E) /\ given' = given
  BY <1>2 DEF BusTimeOut
<1>4. /\ x \in given /\ x \notin ToSet(port.pend) /\ x \notin Inits
      /\ x \in ToSet(port.new) => ~u.reply
  <2>1. ~Fresh(x).busTimer
    BY DEF Fresh
  <2>2. x \in given /\ x \notin ToSet(port.pend)
    BY <1>3, <2>1, Now DEF Lists
  <2>3. x \in ToSet(port.new) => ~u.reply
    BY Now DEF Lists
  <2> QED
    BY <2>2, <2>3, Disjoint
<1>5. Transmits(x, u, ToSet(port.sent), line, firmware.bus, packetId, spoilt)
  BY KnownOf
<1> HIDE DEF P, late, u
<1>6. /\ t \in Transactions /\ t.cmd = u.cmd /\ t.frame = u.frame /\ t.next = u.next
      /\ t.max = u.max /\ t.complete = u.complete /\ t.reply = u.reply
      /\ t.pktId = u.pktId /\ t.confirmId = u.confirmId
  BY <1>1 DEF Transactions
<1> HIDE DEF t
<1>7. /\ p \in Ports /\ Changed(port, p, x) /\ p.tx[x] = t /\ p.sent = port.sent
      /\ p.pend = port.pend /\ p.new = port.new
  BY <1>1, <1>6, Now, WithFacts
<1> HIDE DEF p
<1>8. Transmits(x, t, ToSet(p.sent), line, firmware.bus, packetId, spoilt)
  BY <1>5, <1>6, <1>7 DEF Transmits, Steady
<1>9. /\ Sound(p, given, line, firmware.bus, packetId, spoilt) /\ Active(p) = Active(port)
      /\ x \in Messages /\ ~p.tx[x].reply => Open(p) \subseteq Open(port)
      /\ x \notin Messages \/ x \in Open(port) => Open(p) \subseteq Open(port)
  <2>1. /\ x \in given /\ x \notin ToSet(port.pend)
        /\ Transmits(x, p.tx[x], ToSet(p.sent), line, firmware.bus, packetId, spoilt)
        /\ x \in ToSet(port.new) => ~p.tx[x].reply
    BY <1>4, <1>6, <1>7, <1>8
  <2> QED
    BY <1>1, <1>4, <1>7, <2>1, Now, SoundChange
<1>10. \A y \in Messages : y \in All /\ p.tx[y].reply = port.tx[y].reply
                                    /\ p.tx[y].complete = port.tx[y].complete
  BY <1>6, <1>7 DEF Changed, All, u
<1>11. Open(p) = Open(port)
  BY <1>7, <1>9, <1>10 DEF Open
<1>12. spoilt \subseteq spoilt'
       /\ \A y \in E \cap ToSet(port.sent) : port.tx[y].reply => Excepted(y, spoilt')
  <2> HIDE DEF E
  <2> QED
    BY <1>3, TimedOut
<1>13. Sound(p, given, line, firmware.bus, packetId, spoilt')
  <2>1. ToSet(line) \subseteq ToSet(line)
    OBVIOUS
  <2> QED
    BY <1>9, <1>12, <2>1, Now, SoundLess
<1>14. E \in SUBSET (All \ ToSet(p.pend)) /\ E \subseteq Active(port)
  <2>1. Active(p) \subseteq All
    BY <1>7, Members DEF Active, Ports
  <2>2. ToSet(p.pend) \cap Active(p) = {}
    BY <1>13 DEF Sound, Lists
  <2> QED
    BY <1>9, <2>1, <2>2
<1>15. W \subseteq E /\ \A y \in W : p.tx[y].complete
  OBVIOUS
<1> HIDE DEF E, W
<1>16. /\ Sound(r, given, line, firmware.bus, packetId, spoilt') /\ Open(r) \subseteq Open(p)
       /\ Left(p, r, E)
  BY <1>13, <1>14, Now, SoundTakeOut
<1> HIDE DEF r
<1>17. Follows(r, given, firmware, spoilt')
  BY <1>3, <1>16, Now, NoWriteKeeps
<1>18. Open(port') \subseteq Open(r)
  BY <1>17 DEF Follows
<1>19. ASSUME NEW y \in Messages PROVE Replied(y)
  <2>1. answers'[y] = IF y \in W THEN Append(answers[y], "success")
                      ELSE IF y \in E THEN Append(answers[y], "timeout") ELSE answers[y]
    BY <1>3, <1>15 DEF TellAll
  <2>2. y \in E => /\ y \in Open(port) /\ y \in given
                   /\ Excepted(y, spoilt') \/ y \notin Open(port')
    <3> SUFFICES ASSUME y \in E PROVE /\ y \in Open(port) /\ y \in given
                                      /\ Excepted(y, spoilt') \/ y \notin Open(port')
      OBVIOUS
    <3>1. y \in Open(port) /\ y \in given
      BY <1>14, InListGiven DEF Open
    <3>2. y \in ToSet(port.new) \/ y \in ToSet(port.sent)
      BY <1>14 DEF Active
    <3>3. port.tx[y].reply => Excepted(y, spoilt')
      BY <1>12, <3>2, Now DEF Lists
    <3>4. ~port.tx[y].reply => y \notin Open(r)
      BY <1>10, <1>16 DEF Left, Open
    <3> QED
      BY <1>18, <3>1, <3>3, <3>4
  <2>3. y \in W => Whole(y, firmware'.bus) \/ Repeated(y, spoilt')
    <3>1. y \in W => port.tx[y].complete
      BY <1>10, <1>15
    <3>2. y \in W => Whole(y, firmware.bus) \/ Repeated(y, spoilt)
      BY <3>1, KnownOf DEF Transmits
    <3> QED
      BY <1>12, <1>17, <3>2 DEF Whole, Repeated, Follows, Grows
  <2>4. y \in Open(port') => y \in Open(port)
    BY <1>11, <1>16, <1>18
  <2>5. "timeout" \in Replies /\ "timeout" # "success" /\ "success" \in Replies
    BY DEF Replies
  <2>6. CASE y \in W
    BY <1>15, <2>1, <2>2, <2>3, <2>5, <2>6 DEF Replied
  <2>7. CASE y \notin W /\ y \in E
    BY <2>1, <2>2, <2>5, <2>7 DEF Replied
  <2>8. CASE y \notin W /\ y \notin E
    BY <2>1, <2>4, <2>8 DEF Replied
  <2> QED
    BY <2>6, <2>7, <2>8
<1>20. answers' = [y \in Messages |-> answers'[y]]
  BY <1>3 DEF TellAll
<1> QED
  BY <1>3, <1>12, <1>17, <1>19, <1>20, Now DEF StepSound, Follows
(***************************************************************************)
(* A new message, and the theorems.                                        *)
(***************************************************************************)
LEMMA AddSendMsgKeeps ==
  ASSUME IInv, NEW x \in Messages, AddSendMsg(x)
  PROVE  StepSound
<1> DEFINE g == given \cup {x}
           v == IF J1939(x) THEN GetCANPacket(port.tx[x], x) ELSE port.tx[x]
           pend == Append(port.pend, x)
           new == Append(port.new, x)
           w == [port EXCEPT !.pend = pend]
           c == [port EXCEPT !.new = new]
           q == With(c, x, v)
           P == IF MustWait(port, x) THEN [port EXCEPT !.pend = Append(@, x)]
                ELSE [port EXCEPT !.new = Append(@, x),
                                  !.tx[x] = IF J1939(x) THEN GetCANPacket(@, x) ELSE @]
           r == IF MustWait(port, x) THEN w ELSE q
<1>1. /\ x \notin given /\ given' = g /\ CheckSendMsgQ(P, line, firmware, Crowd)
      /\ answers' = answers /\ spoilt' = spoilt
  BY DEF AddSendMsg
<1>2. x \in All /\ port.new \in Seq(All) /\ port.pend \in Seq(Messages)
      /\ port.tx \in [All -> Transactions]
  BY Now DEF All, Ports
<1>3. P = r
  BY <1>2, Now DEF With, Ports
<1>4. /\ pend \in Seq(Messages) /\ ToSet(pend) = ToSet(port.pend) \cup {x}
      /\ new \in Seq(All) /\ ToSet(new) = ToSet(port.new) \cup {x}
  BY <1>2, AppendMembers
<1>5. /\ port.tx[x] = Fresh(x) /\ x \notin Active(port) \cup ToSet(port.pend) /\ x \notin Inits
  BY <1>1, Now, Disjoint DEF Lists
<1>6. Fresh(x) \in Transactions /\ ~Fresh(x).reply /\ port.tx[x] \in Transactions
  BY <1>2, <1>5, FreshTyped
<1>7. /\ v \in Transactions /\ ~v.reply /\ v = (IF J1939(x) THEN Fetched(x) ELSE Fresh(x))
  BY <1>5, <1>6, LoadTyped DEF Fetched
<1>8. g \in SUBSET Messages /\ given \subseteq g /\ x \in g /\ \A y \in g : y = x \/ y \in given
  BY Now
<1> HIDE DEF v, pend, new, P, g
<1>9. /\ w \in Ports /\ w.pend = pend /\ w.new = port.new /\ w.sent = port.sent /\ w.tx = port.tx
      /\ c \in Ports /\ c.new = new /\ c.pend = port.pend /\ c.sent = port.sent /\ c.tx = port.tx
  BY <1>4, Now DEF Ports
<1> HIDE DEF w, c
<1>10. /\ q \in Ports /\ Changed(c, q, x) /\ q.tx[x] = v /\ q.sent = c.sent
       /\ q.new = c.new /\ q.pend = c.pend
  BY <1>2, <1>7, <1>9, WithFacts
<1> HIDE DEF q
<1>11. \A y \in All : y # x => q.tx[y] = port.tx[y]
  BY <1>9, <1>10 DEF Changed
<1>12. Reasons(port) /\ AllTransmit(port, ToSet(port.sent), line, firmware.bus, packetId, spoilt)
  BY DEF IInv
<1>13. CASE MustWait(port, x)
  <2>1. Active(w) = Active(port)
    BY <1>9 DEF Active
  <2>2. J1939(x)
    BY <1>13 DEF MustWait, Conflicts
  <2>3. Lists(w, g)
    <3>1. Active(w) \subseteq g \cup Inits /\ ToSet(w.pend) \subseteq {y \in g : J1939(y)}
          /\ ToSet(w.pend) \cap Active(w) = {}
      BY <1>4, <1>5, <1>8, <1>9, <2>1, <2>2, Now DEF Lists
    <3>2. \A y \in Messages : y \notin g \/ y \in ToSet(w.pend) => w.tx[y] = Fresh(y)
      BY <1>4, <1>5, <1>8, <1>9, Now DEF Lists
    <3> QED
      BY <1>9, <2>1, <3>1, <3>2, Now DEF Lists
  <2>4. Reasons(w)
    BY <1>4, <1>9, <1>12, <1>13, <2>1 DEF Reasons, MustWait
  <2>5. AllTransmit(w, ToSet(w.sent), line, firmware.bus, packetId, spoilt)
    BY <1>9, <1>12 DEF AllTransmit
  <2>6. Sound(w, g, line, firmware.bus, packetId, spoilt)
    BY <1>9, <2>3, <2>4, <2>5, Now DEF Sound
  <2>7. \A y \in Open(w) : y \in Open(port) \/ y = x
    BY <1>4, <1>9, <2>1 DEF Open
  <2> QED
    <3>1. r = w
      BY <1>13
    <3>2. CheckSendMsgQ(w, line, firmware, Crowd)
      BY <1>1, <1>3, <3>1
    <3>3. Follows(w, given', firmware, spoilt')
      BY <1>1, <1>8, <2>6, <3>2, Now, CheckSendKeeps
    <3>4. \A y \in Open(w) : y \in Open(port) \/ y \notin given
      BY <1>1, <2>7
    <3> QED
      BY <1>1, <1>8, <3>3, <3>4, Now, Silent
<1>14. CASE ~MustWait(port, x)
  <2>1. Active(q) = Active(port) \cup {x}
    BY <1>4, <1>9, <1>10 DEF Active
  <2>2. Lists(q, g)
    <3>1. Active(q) \subseteq g \cup Inits /\ ToSet(q.pend) \subseteq {y \in g : J1939(y)}
          /\ ToSet(q.pend) \cap Active(q) = {}
      BY <1>5, <1>8, <1>9, <1>10, <2>1, Now DEF Lists
    <3>2. ToSet(q.new) \cap ToSet(q.sent) = {}
      BY <1>4, <1>5, <1>9, <1>10, Now DEF Lists, Active
    <3>3. \A y \in Messages : y \notin g \/ y \in ToSet(q.pend) => q.tx[y] = Fresh(y)
      <4>1. \A y \in Messages : y \in All
        BY DEF All
      <4> QED
        BY <1>5, <1>8, <1>9, <1>10, <1>11, <4>1, Now DEF Lists
    <3>4. \A y \in ToSet(q.new) \cap Messages : ~q.tx[y].reply
      <4>1. \A y \in Messages : y \in All
        BY DEF All
      <4> QED
        BY <1>4, <1>7, <1>9, <1>10, <1>11, <4>1, Now DEF Lists
    <3>5. \A y \in Inits : q.tx[y].confirmId = 0 /\ (y \in Active(q) => q.tx[y].cmd \in Stages)
      <4>1. \A y \in Inits : y \in All /\ y # x
        BY <1>5 DEF All
      <4> QED
        BY <1>11, <2>1, <4>1, Now DEF Lists
    <3> QED
      BY <3>1, <3>2, <3>3, <3>4, <3>5 DEF Lists
  <2>3. Reasons(q)
    BY <1>9, <1>10, <1>12, <2>1 DEF Reasons, MustWait
  <2>4. Moves(port, q) \/ ~J1939(x)
    BY <1>5, <1>7, <1>10, <1>11 DEF Moves, All
  <2>5. ~J1939(x) => \A y \in Messages : q.tx[y] = port.tx[y]
    BY <1>5, <1>7, <1>10, <1>11 DEF All
  <2>6. Moves(port, q)
    BY <2>4, <2>5 DEF Moves
  <2>7. AllTransmit(q, ToSet(q.sent), line, firmware.bus, packetId, spoilt)
    <3> DEFINE S == ToSet(port.sent)
    <3>1. AllTransmit(port, S, line, firmware.bus, packetId, spoilt) /\ S = ToSet(q.sent)
      BY <1>9, <1>10, <1>12
    <3> HIDE DEF S
    <3>2. AllTransmit(q, S, line, firmware.bus, packetId, spoilt)
      BY <1>10, <2>6, <3>1, Now, MovesTransmit
    <3> QED
      BY <3>1, <3>2
  <2>8. Sound(q, g, line, firmware.bus, packetId, spoilt)
    BY <1>10, <2>2, <2>3, <2>7, Now DEF Sound
  <2>9. \A y \in Open(q) : y \in Open(port) \/ y = x
    BY <1>9, <1>10, <1>11, <2>1 DEF Open, All
  <2> QED
    <3>1. r = q
      BY <1>14
    <3>2. CheckSendMsgQ(q, line, firmware, Crowd)
      BY <1>1, <1>3, <3>1
    <3>3. Follows(q, given', firmware, spoilt')
      BY <1>1, <1>8, <2>8, <3>2, Now, CheckSendKeeps
    <3>4. \A y \in Open(q) : y \in Open(port) \/ y \notin given
      BY <1>1, <2>9
    <3> QED
      BY <1>1, <1>8, <3>3, <3>4, Now, Silent
<1> QED
  BY <1>13, <1>14

LEMMA InitSound == Init => IInv
<1> SUFFICES ASSUME Init PROVE IInv
  OBVIOUS
<1> DEFINE entries == [x \in All |-> Fresh(x)]
           p == [new |-> <<>>, sent |-> <<>>, pend |-> <<>>, tx |-> entries]
<1>1. /\ port = p /\ answers = [x \in Messages |-> <<>>] /\ given = {} /\ packetId = 0
      /\ line = <<>> /\ firmware = [confirming |-> TRUE, bus |-> [x \in Messages |-> {}]]
  BY DEF Init, All
<1>2. entries \in [All -> Transactions] /\ \A x \in All : entries[x] = Fresh(x)
  BY FreshTyped
<1> HIDE DEF entries
<1>3. /\ p \in Ports /\ p.new = <<>> /\ p.sent = <<>> /\ p.pend = <<>> /\ p.tx = entries
  BY <1>2 DEF Ports
<1> HIDE DEF p
<1>4. ToSet(<<>>) = {} /\ <<>> \in Seq(Items) /\ <<>> \in Seq(Replies) /\ Len(<<>>) = 0
      /\ ~Contains(<<>>, "success")
  BY EmptyMembers DEF Contains
<1>5. TypeOK
  BY <1>1, <1>3, <1>4 DEF TypeOK
<1>6. \A x \in Messages : x \in All /\ port.tx[x] = Fresh(x)
  BY <1>1, <1>2, <1>3 DEF All
<1>7. Active(port) = {} /\ ToSet(port.pend) = {} /\ ToSet(port.sent) = {} /\ ToSet(port.new) = {}
  BY <1>1, <1>3, <1>4 DEF Active
<1>8. \A x \in Inits : port.tx[x].confirmId = 0
  BY <1>1, <1>2, <1>3, FreshTyped DEF All
<1>9. Lists(port, given) /\ Reasons(port)
  BY <1>6, <1>7, <1>8 DEF Lists, Reasons
<1>10. Incoming(line, firmware.bus, packetId)
  BY <1>1, <1>4 DEF Incoming
<1>11. ASSUME NEW x \in Messages
       PROVE  Transmits(x, port.tx[x], ToSet(port.sent), line, firmware.bus, packetId, spoilt)
  <2> DEFINE t == Fresh(x)
  <2>1. /\ t.max = 0 /\ t.cmd = Fresh(x).cmd /\ ~t.reply /\ ~t.complete /\ t.pktId = 0
        /\ t.confirmId = 0 /\ t.next = 0
        /\ J1939(x) => t.frame = NoFrame
        /\ ~J1939(x) => t.frame = 0
    BY <1>6, Disjoint DEF Fresh
  <2>2. Frames[x] \in Nat
    BY SerialAssumption
  <2> HIDE DEF t
  <2>3. OneByOne(x) => Steady(x, t, {}, <<>>, firmware.bus)
    BY <1>4, <2>1, <2>2 DEF Steady, OneByOne, NoFrame
  <2>4. RTS(x) => J1939(x)
    BY DEF RTS, J1939
  <2>5. Transmits(x, t, {}, <<>>, firmware.bus, 0, spoilt)
    BY <2>1, <2>3, <2>4 DEF Transmits, NoFrame
  <2> QED
    BY <1>1, <1>6, <1>7, <2>5 DEF t
<1>12. AllTransmit(port, ToSet(port.sent), line, firmware.bus, packetId, spoilt)
  BY <1>11 DEF AllTransmit
<1>13. \A x \in Messages : answers[x] = <<>>
  BY <1>1
<1>14. Answered(port, answers, firmware.bus, spoilt)
  BY <1>4, <1>13 DEF Answered
<1> QED
  BY <1>5, <1>9, <1>10, <1>12, <1>13, <1>14 DEF IInv

LEMMA NextSound ==
  ASSUME IInv, Next PROVE StepSound
<1>1. ASSUME NEW x \in Messages, AddSendMsg(x) PROVE StepSound
  BY <1>1, AddSendMsgKeeps
<1>2. ASSUME NEW x \in Messages, BusTimeOut(x) PROVE StepSound
  BY <1>2, BusTimeOutKeeps
<1>3. ASSUME NEW x \in Messages \cup Inits, ComReplyTimeOut(x) PROVE StepSound
  BY <1>3, ComReplyTimeOutKeeps DEF All
<1>4. CASE ThreadRead
  <2> DEFINE f == Head(line)
             rest == Tail(line)
  <2>1. line # <<>> /\ Process(f, rest)
    BY <1>4 DEF ThreadRead
  <2>2. CASE f.type = "ack" /\ ReceiveAck(f, rest)
    BY <2>1, <2>2, ReceiveAckKeeps
  <2>3. CASE f.type = "ack" /\ ReceiveInitAck(f, rest)
    BY <2>1, <2>3, ReceiveInitAckKeeps
  <2>4. CASE f.type = "ack" /\ ReceiveLastInitAck(f, rest)
    BY <2>1, <2>4, ReceiveLastInitAckKeeps
  <2>5. CASE f.type = "refusal" /\ ReceiveRefusal(f, rest)
    BY <2>1, <2>5, ReceiveRefusalKeeps
  <2>6. CASE f.type = "confirm" /\ ReceiveConfirm(f, rest, 0)
    <3> DEFINE none == 0
    <3>1. (rest = Tail(line) /\ none = 0) \/ (rest = line /\ none = 1)
      OBVIOUS
    <3>2. ReceiveConfirm(f, rest, none)
      BY <2>6
    <3> HIDE DEF none
    <3> QED
      BY <2>1, <2>6, <3>1, <3>2, ReceiveConfirmKeeps
  <2>7. CASE f.type = "cts" /\ ReceiveCTS(f, rest)
    BY <2>1, <2>7, ReceiveCTSKeeps
  <2>8. CASE f.type = "eom" /\ ReceiveEndOfMsg(f, rest)
    BY <2>1, <2>8, ReceiveEndOfMsgKeeps
  <2>9. CASE ReceiveOther(f, rest)
    BY <2>1, <2>9, ReceiveOtherKeeps
  <2> QED
    BY <2>1, <2>2, <2>3, <2>4, <2>5, <2>6, <2>7, <2>8, <2>9 DEF Process
<1>5. CASE RepeatConfirm
  <2> DEFINE again == 1
             rest == line
  <2>1. line # <<>> /\ Head(line).type = "confirm" /\ ReceiveConfirm(Head(line), rest, again)
    BY <1>5 DEF RepeatConfirm
  <2>2. (rest = Tail(line) /\ again = 0) \/ (rest = line /\ again = 1)
    OBVIOUS
  <2> HIDE DEF again, rest
  <2> QED
    BY <2>1, <2>2, ReceiveConfirmKeeps
<1> QED
  BY <1>1, <1>2, <1>3, <1>4, <1>5, HelloKeeps, LoseAnswerKeeps, FirmwareRestartsKeeps
     DEF Next, Timers

LEMMA NextKeeps == IInv /\ [Next]_vars => IInv'
<1>1. IInv /\ Next => IInv'
  BY NextSound, StepKeeps
<1>2. IInv /\ UNCHANGED vars => IInv'
  BY DEF vars, IInv, TypeOK, Lists, Reasons, AllTransmit, Incoming, Answered, Open, Active,
         MustWait, Transmits, Steady, Conflicts, Whole, Excepted, Repeated
<1> QED
  BY <1>1, <1>2

LEMMA Inductive == Spec => []IInv
  BY InitSound, NextKeeps, PTL DEF Spec

\* No transaction is left in QBTransJ1939Pending for which nothing is under way: each
\* time one that it could mix with leaves the lists, CheckJ1939Pending lets it go on.
THEOREM NoneWaitsForNothing == Spec => []PendingHasReason
<1>1. IInv => PendingHasReason
  BY DEF IInv, Reasons, PendingHasReason
<1> QED
  BY <1>1, Inductive, PTL

\* A client gets at most one reply to a message, however many packets, answers and
\* timers there are, but for a message that met one of the two defects named.
THEOREM AnsweredAtMostOnce == Spec => []AnsweredOnce
<1>1. IInv => AnsweredOnce
  BY DEF IInv, Answered, Excepted, AnsweredOnce, Met
<1> QED
  BY <1>1, Inductive, PTL

\* A client that is told of success has had all frames of its message transmitted,
\* unless the confirmation of one of them came twice.
THEOREM SuccessTold == Spec => []SuccessIsTrue
<1>1. IInv => SuccessIsTrue
  BY DEF IInv, Answered, Whole, Repeated, SuccessIsTrue, Met
<1> QED
  BY <1>1, Inductive, PTL

\* Both of it, for any messages, faults and restarts of the firmware.
THEOREM ClientsAreAnswered == Spec => []AnsweredTruly
<1>1. AnsweredOnce /\ SuccessIsTrue => AnsweredTruly
  BY DEF AnsweredTruly
<1> QED
  BY <1>1, AnsweredAtMostOnce, SuccessTold, PTL

(***************************************************************************)
(* The upgrade (Upgrade).  Start is where the firmware is, and Second the  *)
(* second double word of its header: the CRC, its padding and the entry.   *)
(***************************************************************************)
Begin  == FirmwareStartAddr
Second == Begin + 2 * Word .. Begin + 4 * Word - 1

LEMMA Layout ==
  /\ Word \in Nat /\ Word >= 2 /\ Chunk \in Nat /\ Chunk >= 2 * Word
  /\ Chunk # 2 * Word => Chunk >= 4 * Word
  /\ Begin \in Nat /\ FlashBase \in Nat /\ FlashBase + 8192 <= Begin
  /\ RegionSize \in Nat /\ HdrSize = 4 * Word /\ HdrSize <= RegionSize
  /\ FlashSize \in Nat /\ FlashSize >= HdrSize
  /\ Word % 2 = 0 /\ Word \div 2 \in Nat /\ Word \div 2 > 0 /\ Word \div 2 <= Word
<1>1. /\ Word \in Nat /\ Word > 0 /\ Word % 2 = 0 /\ Chunk \in Nat /\ Chunk > 0
      /\ HdrSize = 4 * Word /\ Chunk % (2 * Word) = 0
      /\ Begin \in Nat /\ FlashBase \in Nat /\ FlashBase + 8192 <= Begin
      /\ RegionSize \in Nat /\ HdrSize <= RegionSize
      /\ FlashSize \in Nat /\ FlashSize >= HdrSize
  BY RecordAssumption, UpgradeAssumption, LayoutAssumption DEF HdrSize, Begin, KB
<1>2. Word >= 2 /\ Word \div 2 \in Nat /\ Word \div 2 > 0 /\ Word \div 2 <= Word
  BY <1>1
<1>3. PICK c \in Nat : Chunk = c * (2 * Word)
  BY <1>1
<1>4. c # 0
  BY <1>1, <1>3
<1>5. c = 1 => Chunk = 2 * Word
  BY <1>1, <1>3
<1>6. c >= 2 => Chunk >= 4 * Word
  <2>1. SUFFICES ASSUME c >= 2 PROVE c * (2 * Word) >= 2 * (2 * Word)
    BY <1>1, <1>3
  <2>2. QED
    BY <2>1, <1>1
<1>7. QED
  BY <1>1, <1>2, <1>4, <1>5, <1>6

(***************************************************************************)
(* The greatest of some bounded numbers, and the less of two.              *)
(***************************************************************************)
LEMMA Greatest ==
  ASSUME NEW T, T \subseteq Int, T # {}, NEW b \in Int, \A x \in T : x <= b
  PROVE  Max(T) \in T /\ \A y \in T : y <= Max(T)
<1> DEFINE Under == {b - x : x \in T}
<1>1. Under \subseteq Nat /\ Under # {}
  <2>1. \A x \in T : b - x \in Nat
    OBVIOUS
  <2>2. \E x \in T : b - x \in Under
    OBVIOUS
  <2>3. QED
    BY <2>1, <2>2
<1>2. PICK d \in Under : \A y \in Under : d <= y
  BY <1>1, Smallest
<1>3. PICK x \in T : d = b - x
  BY <1>2
<1>4. \A y \in T : b - y \in Under
  OBVIOUS
<1>5. \A y \in T : b - x <= b - y
  BY <1>2, <1>3, <1>4
<1>6. \A y \in T : x >= y
  BY <1>3, <1>5
<1>7. QED
  BY <1>3, <1>6 DEF Max

LEMMA Least ==
  ASSUME NEW T, T \subseteq Nat, T # {}
  PROVE  Min(T) \in T /\ \A y \in T : Min(T) <= y
<1>1. PICK x \in T : \A y \in T : x <= y
  BY Smallest
<1>2. QED
  BY <1>1 DEF Min

LEMMA LessOfTwo ==
  ASSUME NEW a \in Nat, NEW b \in Nat
  PROVE  Min({a, b}) = IF a <= b THEN a ELSE b
<1>1. Min({a, b}) \in {a, b} /\ \A y \in {a, b} : Min({a, b}) <= y
  BY Least
<1>2. QED
  BY <1>1

LEMMA MaxOfOne == ASSUME NEW a \in Int PROVE Max({a}) = a
BY DEF Max

(***************************************************************************)
(* The memory a written file describes is the one it was written from.     *)
(***************************************************************************)
Lines3(len)   == (len + Chunk - 1) \div Chunk
Offset(i)     == (i - 1) * Chunk
Upto(i, len)  == IF i * Chunk <= len THEN i * Chunk ELSE len
Piece(mem, lo, len, i) == Line(3, lo + Offset(i), Segment(mem, lo + Offset(i), lo + Upto(i, len)))

LEMMA Offsets ==
  ASSUME NEW len \in Nat, NEW i \in 1 .. Lines3(len)
  PROVE  /\ Offset(i) \in Nat /\ i * Chunk = Offset(i) + Chunk
         /\ Offset(i) < len /\ Upto(i, len) \in Nat /\ Upto(i, len) <= len
         /\ Offset(i) < Upto(i, len) /\ Upto(i, len) <= Offset(i) + Chunk
         /\ Upto(i, len) = Offset(i) + Chunk \/ Upto(i, len) = len
<1>1. Lines3(len) \in Nat
  BY Layout DEF Lines3
<1>2. Offset(i) \in Nat /\ i * Chunk = Offset(i) + Chunk /\ i * Chunk \in Nat
  BY <1>1, Layout DEF Offset
<1>3. Offset(i) < len
  <2>1. Lines3(len) * Chunk <= len + Chunk - 1
    BY Layout DEF Lines3
  <2>2. i * Chunk <= Lines3(len) * Chunk
    BY <1>1, Layout
  <2>3. QED
    BY <2>1, <2>2, <1>1, <1>2, Layout
<1>4. QED
  BY <1>2, <1>3, Layout DEF Upto

\* Every offset is in one piece.
PieceOf(x) == (x \div Chunk) + 1

LEMMA InPiece ==
  ASSUME NEW len \in Nat, NEW x \in 0 .. len - 1
  PROVE  /\ PieceOf(x) \in 1 .. Lines3(len)
         /\ Offset(PieceOf(x)) <= x /\ x < Upto(PieceOf(x), len)
<1> DEFINE q == x \div Chunk
<1>1. q \in Nat /\ q * Chunk <= x /\ x < q * Chunk + Chunk /\ q * Chunk \in Nat
  BY Layout
<1>2. (q + 1) * Chunk = q * Chunk + Chunk /\ (q + 1) - 1 = q
  BY <1>1, Layout
<1>3. q + 1 <= Lines3(len)
  <2>1. Lines3(len) \in Nat /\ len + Chunk - 1 < Lines3(len) * Chunk + Chunk
    BY Layout DEF Lines3
  <2>2. q * Chunk < Lines3(len) * Chunk
    BY <1>1, <2>1, Layout
  <2>3. q < Lines3(len)
    <3>1. SUFFICES ASSUME q >= Lines3(len) PROVE q * Chunk >= Lines3(len) * Chunk
      BY <1>1, <2>1, <2>2, Layout
    <3>2. QED
      BY <3>1, <1>1, <2>1, Layout
  <2>4. QED
    BY <1>1, <2>1, <2>3
<1>4. QED
  BY <1>1, <1>2, <1>3 DEF PieceOf, Offset, Upto

LEMMA OnePiece ==
  ASSUME NEW len \in Nat, NEW i \in 1 .. Lines3(len), NEW x \in Nat,
         Offset(i) <= x, x < Upto(i, len)
  PROVE  i = PieceOf(x)
<1>1. Lines3(len) \in Nat
  BY Layout DEF Lines3
<1>2. Offset(i) \in Nat /\ x < Offset(i) + Chunk
  BY Offsets, Layout
<1> DEFINE j == i - 1
           r == x - j * Chunk
<1>3. j \in Nat /\ j * Chunk \in Nat /\ r \in Nat /\ r < Chunk /\ x = j * Chunk + r
  BY <1>1, <1>2, Layout DEF Offset
<1> HIDE DEF j, r
<1>4. (j * Chunk + r) \div Chunk = j
  BY <1>3, Layout
<1>5. QED
  BY <1>1, <1>3, <1>4 DEF PieceOf, j

IsWritten(file, mem, lo, len, name) ==
  /\ Lines3(len) \in Nat /\ Len(file) = Lines3(len) + 2 /\ DOMAIN file = 1 .. Lines3(len) + 2
  /\ file[1] = Line(0, 0, name)
  /\ file[Lines3(len) + 2] = Line(7, mem[lo + 3 * Word], <<>>)
  /\ \A i \in 1 .. Lines3(len) : file[i + 1] = Piece(mem, lo, len, i)

LEMMA WrittenLines ==
  ASSUME NEW len \in Nat, NEW lo \in Nat, NEW mem, NEW name
  PROVE  IsWritten(WriteSRecFile(mem, lo, len, name), mem, lo, len, name)
<1> DEFINE n == Lines3(len)
           first == Line(0, 0, name)
           last  == Line(7, mem[lo + 3 * Word], <<>>)
           data  == [i \in 1 .. n |-> Piece(mem, lo, len, i)]
           S     == {first, last} \cup {Piece(mem, lo, len, i) : i \in 1 .. n}
           file  == WriteSRecFile(mem, lo, len, name)
<1>1. n \in Nat /\ n = (len + Chunk - 1) \div Chunk
  BY Layout DEF Lines3
<1>2. ASSUME NEW i \in 1 .. n
      PROVE  /\ Min({i * Chunk, len}) = Upto(i, len)
             /\ Line(3, lo + (i - 1) * Chunk,
                     Segment(mem, lo + (i - 1) * Chunk, lo + Min({i * Chunk, len})))
                  = Piece(mem, lo, len, i)
  <2>1. i * Chunk \in Nat
    BY <1>1, Layout
  <2>2. Min({i * Chunk, len}) = Upto(i, len)
    BY <2>1, LessOfTwo DEF Upto
  <2>3. QED
    BY <2>2 DEF Piece, Offset
<1>3. file = <<first>> \o data \o <<last>>
  <2> DEFINE d == [i \in 1 .. (len + Chunk - 1) \div Chunk |->
                     Line(3, lo + (i - 1) * Chunk,
                          Segment(mem, lo + (i - 1) * Chunk, lo + Min({i * Chunk, len})))]
  <2>1. file = <<first>> \o d \o <<last>>
    BY Zenon DEF WriteSRecFile
  <2>2. d = data
    BY <1>1, <1>2, Zenon
  <2>3. QED
    BY <2>1, <2>2
<1>4. data \in Seq(S) /\ Len(data) = n /\ first \in S /\ last \in S
      /\ \A i \in 1 .. n : data[i] = Piece(mem, lo, len, i)
  <2>1. \A i \in 1 .. n : Piece(mem, lo, len, i) \in S
    OBVIOUS
  <2>2. data \in [1 .. n -> S]
    BY <2>1
  <2>3. QED
    BY <1>1, <2>2
<1> HIDE DEF n, first, last, data, S, file
<1>5. /\ <<first>> \o data \in Seq(S) /\ Len(<<first>> \o data) = n + 1
      /\ (<<first>> \o data)[1] = first
      /\ \A i \in 1 .. n : (<<first>> \o data)[i + 1] = data[i]
  BY <1>1, <1>4
<1> DEFINE front == <<first>> \o data
<1> HIDE DEF front
<1>6. /\ front \o <<last>> \in Seq(S) /\ Len(front \o <<last>>) = n + 2
      /\ (front \o <<last>>)[n + 2] = last
      /\ \A i \in 1 .. n + 1 : (front \o <<last>>)[i] = front[i]
  BY <1>1, <1>4, <1>5 DEF front
<1>7. file = front \o <<last>>
  BY <1>3 DEF front
<1>8. DOMAIN file = 1 .. n + 2
  BY <1>6, <1>7, LenProperties
<1>9. file[1] = first /\ \A i \in 1 .. n : file[i + 1] = data[i]
  <2>1. 1 \in 1 .. n + 1 /\ \A i \in 1 .. n : i + 1 \in 1 .. n + 1
    BY <1>1
  <2>2. QED
    BY <2>1, <1>5, <1>6, <1>7 DEF front
<1>10. QED
  BY <1>1, <1>4, <1>6, <1>7, <1>8, <1>9 DEF file, n, first, last, IsWritten

LEMMA SegmentIs ==
  ASSUME NEW mem, NEW a \in Nat, NEW b \in Nat, a <= b
  PROVE  /\ Segment(mem, a, b) \in Seq({mem[x] : x \in a .. b - 1})
         /\ Len(Segment(mem, a, b)) = b - a
         /\ \A x \in a .. b - 1 : Segment(mem, a, b)[x - a + 1] = mem[x]
<1>1. b - a \in Nat
  OBVIOUS
<1>2. \A i \in 1 .. b - a : a + i - 1 \in a .. b - 1
  OBVIOUS
<1>3. Segment(mem, a, b) \in [1 .. b - a -> {mem[x] : x \in a .. b - 1}]
  BY <1>2 DEF Segment
<1>4. ASSUME NEW x \in a .. b - 1
      PROVE  Segment(mem, a, b)[x - a + 1] = mem[x]
  <2>1. x - a + 1 \in 1 .. b - a /\ a + (x - a + 1) - 1 = x
    OBVIOUS
  <2>2. QED
    BY <2>1 DEF Segment
<1> DEFINE k == b - a
           S == {mem[x] : x \in a .. b - 1}
<1>5. k \in Nat /\ Segment(mem, a, b) \in [1 .. k -> S]
  BY <1>1, <1>3
<1> HIDE DEF k, S
<1>6. Segment(mem, a, b) \in Seq(S) /\ DOMAIN Segment(mem, a, b) = 1 .. k
  BY <1>5
<1>7. Len(Segment(mem, a, b)) = k
  BY <1>5, <1>6, LenProperties
<1>8. QED
  BY <1>4, <1>6, <1>7 DEF k, S

\* What a piece is, as a line.
LEMMA PieceLine ==
  ASSUME NEW len \in Nat, NEW lo \in Nat, NEW mem, NEW i \in 1 .. Lines3(len)
  PROVE  /\ Piece(mem, lo, len, i).t = 3 /\ Piece(mem, lo, len, i).defect = "none"
         /\ Piece(mem, lo, len, i).addr = lo + Offset(i)
         /\ Len(Piece(mem, lo, len, i).data) = Upto(i, len) - Offset(i)
         /\ Cover(Piece(mem, lo, len, i)) = lo + Offset(i) .. lo + Upto(i, len) - 1
         /\ \A a \in Cover(Piece(mem, lo, len, i)) :
              Piece(mem, lo, len, i).data[a - (lo + Offset(i)) + 1] = mem[a]
<1> DEFINE p == lo + Offset(i)
           q == lo + Upto(i, len)
<1>0. p = lo + Offset(i) /\ q = lo + Upto(i, len)
  OBVIOUS
<1>1. p \in Nat /\ q \in Nat /\ p <= q /\ q - p = Upto(i, len) - Offset(i)
  BY Offsets
<1>2. Piece(mem, lo, len, i) = [t |-> 3, addr |-> p, data |-> Segment(mem, p, q), defect |-> "none"]
  BY DEF Piece, Line
<1> HIDE DEF p, q
<1>3. Len(Segment(mem, p, q)) = q - p /\ \A x \in p .. q - 1 : Segment(mem, p, q)[x - p + 1] = mem[x]
  BY <1>1, SegmentIs
<1>4. Cover(Piece(mem, lo, len, i)) = p .. q - 1
  BY <1>1, <1>2, <1>3 DEF Cover
<1>5. \A a \in Cover(Piece(mem, lo, len, i)) : Piece(mem, lo, len, i).data[a - p + 1] = mem[a]
  BY <1>2, <1>3, <1>4
<1>6. Len(Piece(mem, lo, len, i).data) = Upto(i, len) - Offset(i)
  BY <1>1, <1>2, <1>3
<1>7. /\ Piece(mem, lo, len, i).t = 3 /\ Piece(mem, lo, len, i).defect = "none"
      /\ Piece(mem, lo, len, i).addr = p
  BY <1>2
<1>8. Cover(Piece(mem, lo, len, i)) = lo + Offset(i) .. lo + Upto(i, len) - 1
  BY <1>0, <1>4, Offsets
<1>9. ASSUME NEW a \in Cover(Piece(mem, lo, len, i))
      PROVE  Piece(mem, lo, len, i).data[a - (lo + Offset(i)) + 1] = mem[a]
  BY <1>0, <1>5
<1>10. Piece(mem, lo, len, i).addr = lo + Offset(i)
  BY <1>7 DEF p
<1>11. QED
  BY <1>6, <1>7, <1>8, <1>9, <1>10

LEMMA WrittenLoads ==
  ASSUME NEW len \in Nat, NEW lo \in Nat, NEW mem, NEW name, DOMAIN mem = lo .. lo + len - 1
  PROVE  LET file == WriteSRecFile(mem, lo, len, name)
         IN  /\ DOMAIN Loaded(file) = lo .. lo + len - 1
             /\ \A a \in lo .. lo + len - 1 : Loaded(file)[a] = mem[a]
<1>0. IsWritten(WriteSRecFile(mem, lo, len, name), mem, lo, len, name)
  BY WrittenLines
<1> DEFINE file == WriteSRecFile(mem, lo, len, name)
           n == Lines3(len)
           covering(a) == {i \in DataLines(file) : a \in Cover(file[i])}
           Covered == UNION {Cover(file[i]) : i \in DataLines(file)}
<1>1. /\ n \in Nat /\ DOMAIN file = 1 .. n + 2
      /\ file[1].t = 0 /\ file[n + 2].t = 7
      /\ \A i \in 1 .. n : file[i + 1] = Piece(mem, lo, len, i)
  <2>1. /\ n \in Nat /\ DOMAIN file = 1 .. n + 2
        /\ file[1] = Line(0, 0, name) /\ file[n + 2] = Line(7, mem[lo + 3 * Word], <<>>)
        /\ \A i \in 1 .. n : file[i + 1] = Piece(mem, lo, len, i)
    BY <1>0 DEF IsWritten
  <2>2. QED
    BY <2>1 DEF Line
<1>2. Loaded(file) = [a \in Covered |-> file[Max(covering(a))].data[a - file[Max(covering(a))].addr + 1]]
  BY Zenon DEF Loaded
<1> HIDE DEF file, n
<1>3. DataLines(file) = 2 .. n + 1
  <2>1. \A i \in 1 .. n : IsData(file[i + 1])
    <3>1. TAKE i \in 1 .. n
    <3>2. file[i + 1] = Piece(mem, lo, len, i)
      BY <1>1
    <3>3. Piece(mem, lo, len, i).t = 3
      BY DEF Piece, Line
    <3>4. QED
      BY <3>2, <3>3 DEF IsData
  <2>2. ~IsData(file[1]) /\ ~IsData(file[n + 2])
    BY <1>1 DEF IsData
  <2>3. \A i \in 2 .. n + 1 : i - 1 \in 1 .. n /\ (i - 1) + 1 = i
    BY <1>1
  <2>4. \A i \in 2 .. n + 1 : IsData(file[i])
    BY <2>1, <2>3
  <2>5. \A i \in 1 .. n + 2 : i = 1 \/ i = n + 2 \/ i \in 2 .. n + 1
    BY <1>1
  <2>6. QED
    BY <1>1, <2>2, <2>4, <2>5 DEF DataLines
<1>4. \A i \in 1 .. n : Cover(file[i + 1]) = lo + Offset(i) .. lo + Upto(i, len) - 1
  BY <1>1, PieceLine DEF n
<1>5. ASSUME NEW a \in lo .. lo + len - 1
      PROVE  /\ a \in Covered
             /\ covering(a) = {PieceOf(a - lo) + 1}
             /\ PieceOf(a - lo) \in 1 .. n
             /\ a \in Cover(file[PieceOf(a - lo) + 1])
  <2> DEFINE k == PieceOf(a - lo)
  <2>1. a - lo \in 0 .. len - 1
    OBVIOUS
  <2>2. k \in 1 .. n /\ Offset(k) <= a - lo /\ a - lo < Upto(k, len)
    BY <2>1, InPiece DEF n
  <2>3. Offset(k) \in Nat /\ Upto(k, len) \in Nat
    BY <2>2, Offsets DEF n
  <2>4. a \in Cover(file[k + 1])
    BY <2>2, <2>3, <1>4
  <2>5. k + 1 \in 2 .. n + 1
    BY <2>2, <1>1
  <2>6. ASSUME NEW i \in 2 .. n + 1, a \in Cover(file[i])
        PROVE  i = k + 1
    <3>1. i - 1 \in 1 .. n /\ (i - 1) + 1 = i
      BY <1>1
    <3>2. a \in lo + Offset(i - 1) .. lo + Upto(i - 1, len) - 1
      BY <3>1, <2>6, <1>4
    <3>3. Offset(i - 1) \in Nat /\ Upto(i - 1, len) \in Nat
      BY <3>1, Offsets DEF n
    <3>4. Offset(i - 1) <= a - lo /\ a - lo < Upto(i - 1, len)
      BY <3>2, <3>3
    <3>5. i - 1 = k
      BY <3>1, <3>4, <2>1, OnePiece DEF n
    <3>6. QED
      BY <3>5
  <2>7. covering(a) = {k + 1}
    BY <2>4, <2>5, <2>6, <1>3
  <2>8. QED
    BY <2>2, <2>4, <2>5, <2>7, <1>3
<1>6. Covered = lo .. lo + len - 1
  <2>1. ASSUME NEW i \in 2 .. n + 1, NEW a \in Cover(file[i])
        PROVE  a \in lo .. lo + len - 1
    <3>1. i - 1 \in 1 .. n /\ (i - 1) + 1 = i
      BY <1>1
    <3>2. a \in lo + Offset(i - 1) .. lo + Upto(i - 1, len) - 1
      BY <3>1, <1>4
    <3>3. Offset(i - 1) \in Nat /\ Upto(i - 1, len) \in Nat /\ Upto(i - 1, len) <= len
      BY <3>1, Offsets DEF n
    <3>4. QED
      BY <3>2, <3>3
  <2>2. QED
    BY <2>1, <1>3, <1>5
<1>7. ASSUME NEW a \in lo .. lo + len - 1
      PROVE  Loaded(file)[a] = mem[a]
  <2> DEFINE k == PieceOf(a - lo)
  <2>1. covering(a) = {k + 1} /\ k \in 1 .. n /\ a \in Cover(file[k + 1])
    BY <1>5
  <2>2. Max(covering(a)) = k + 1
    BY <2>1, MaxOfOne
  <2>3. Loaded(file)[a] = file[k + 1].data[a - file[k + 1].addr + 1]
    BY <1>2, <1>6, <2>2
  <2>4. file[k + 1] = Piece(mem, lo, len, k)
    BY <2>1, <1>1
  <2>5. QED
    BY <2>1, <2>3, <2>4, PieceLine DEF n
<1>8. DOMAIN Loaded(file) = lo .. lo + len - 1
  BY <1>2, <1>6
<1>9. QED
  BY <1>7, <1>8 DEF file

(***************************************************************************)
(* What sreccrc makes of a file of the linker: the memory it describes and *)
(* the lines it is sent in.  The second double word of the header is never *)
(* in two lines.                                                           *)
(***************************************************************************)
IsImage(img, file) ==
  /\ img # <<>> /\ file \in Readable
  /\ Length(file) \in Nat /\ Length(file) >= 4 * Word
  /\ DOMAIN Loaded(img) = Begin .. Begin + Length(file) - 1
  /\ \A a \in Begin .. Begin + Word - 1 : Loaded(img)[a] = Magic
  /\ \A a \in CodeLenField(Begin) : Loaded(img)[a] = LenByte(Length(file))
  /\ \A a \in CrcField(Begin) : Loaded(img)[a] = CrcByte(CodeOf(file))
  /\ \A a \in Begin + 2 * Word + (Word \div 2) .. Begin + Length(file) - 1 :
       Loaded(img)[a] = Buffer(file)[a]

IsLine(l, img) ==
  /\ l = Line(l.t, l.addr, l.data) /\ l.t \in {0, 3, 7}
  /\ l.t = 3 =>
       /\ l.addr \in Nat /\ l.addr >= Begin /\ l.addr % (2 * Word) = 0
       /\ Len(l.data) \in Nat
       /\ \A a \in Cover(l) : l.data[a - l.addr + 1] = Loaded(img)[a]
       /\ \/ l.addr <= Begin + 2 * Word /\ l.addr + Len(l.data) >= Begin + 4 * Word
          \/ l.addr + Len(l.data) <= Begin + 2 * Word
          \/ l.addr >= Begin + 4 * Word

LEMMA Multiple ==
  ASSUME NEW k \in Nat, NEW m \in Nat, m > 0
  PROVE  (k * m) % m = 0
OBVIOUS

LEMMA Factor ==
  ASSUME NEW x \in Nat, NEW m \in Nat, m > 0, x % m = 0
  PROVE  \E k \in Nat : x = k * m
<1>1. x \div m \in Nat /\ x = (x \div m) * m
  OBVIOUS
<1>2. QED
  BY <1>1

LEMMA OffsetAligned ==
  ASSUME NEW i \in Nat, i >= 1
  PROVE  (Begin + Offset(i)) % (2 * Word) = 0
<1> DEFINE m == 2 * Word
<1>1. m \in Nat /\ m > 0 /\ Begin % m = 0 /\ Chunk % m = 0
  BY Layout, LayoutAssumption DEF Begin
<1> HIDE DEF m
<1>2. PICK b \in Nat : Begin = b * m
  BY <1>1, Factor, Layout
<1>3. PICK c \in Nat : Chunk = c * m
  <2>1. Chunk \in Nat
    BY Layout
  <2>2. QED
    BY <1>1, <2>1, Factor
<1>4. (i - 1) * Chunk = ((i - 1) * c) * m
  BY <1>1, <1>3
<1>5. Begin + Offset(i) = (b + (i - 1) * c) * m
  BY <1>1, <1>2, <1>4 DEF Offset
<1>6. b + (i - 1) * c \in Nat
  OBVIOUS
<1>7. (Begin + Offset(i)) % m = 0
  BY <1>1, <1>5, <1>6, Multiple
<1>8. QED
  BY <1>7 DEF m

LEMMA PieceIsLine ==
  ASSUME NEW img, NEW mem, NEW len \in Nat, len >= 4 * Word, NEW i \in 1 .. Lines3(len),
         \A a \in Begin .. Begin + len - 1 : Loaded(img)[a] = mem[a]
  PROVE  IsLine(Piece(mem, Begin, len, i), img)
<1> DEFINE l == Piece(mem, Begin, len, i)
           o == Offset(i)
           u == Upto(i, len)
<1>1. /\ o \in Nat /\ u \in Nat /\ u <= len /\ o < u /\ u <= o + Chunk
      /\ u = o + Chunk \/ u = len
  BY Offsets
<1>2. /\ l.t = 3 /\ l.defect = "none" /\ l.addr = Begin + o /\ Len(l.data) = u - o
      /\ Cover(l) = Begin + o .. Begin + u - 1
      /\ \A a \in Cover(l) : l.data[a - (Begin + o) + 1] = mem[a]
  BY PieceLine, Layout
<1>3. i = 1 \/ i = 2 \/ i >= 3
  BY Layout DEF Lines3
<1>4. i = 1 => o = 0
  BY Layout DEF Offset
<1>5. i = 2 => o = Chunk
  BY Layout DEF Offset
<1>6. i >= 3 => o >= 2 * Chunk
  <2>1. SUFFICES ASSUME i >= 3 PROVE (i - 1) * Chunk >= 2 * Chunk
    BY DEF Offset
  <2>2. i - 1 \in Nat /\ i - 1 >= 2
    BY <2>1
  <2>3. QED
    BY <2>2, Layout
<1>7. (Begin + o) % (2 * Word) = 0
  BY OffsetAligned
<1>11. l = Line(l.t, l.addr, l.data)
  BY DEF Piece, Line
<1> HIDE DEF l, o, u
<1>8. \A a \in Cover(l) : l.data[a - l.addr + 1] = Loaded(img)[a]
  <2>1. TAKE a \in Cover(l)
  <2>2. a \in Begin .. Begin + len - 1
    BY <1>1, <1>2, Layout
  <2>3. QED
    BY <1>2, <2>2
<1>9. \/ Begin + o <= Begin + 2 * Word /\ (Begin + o) + (u - o) >= Begin + 4 * Word
      \/ (Begin + o) + (u - o) <= Begin + 2 * Word
      \/ Begin + o >= Begin + 4 * Word
  BY <1>1, <1>3, <1>4, <1>5, <1>6, Layout
<1>10. l.addr \in Nat /\ l.addr >= Begin /\ l.addr % (2 * Word) = 0 /\ Len(l.data) \in Nat
  BY <1>1, <1>2, <1>7, Layout
<1>12. IsLine(l, img)
  BY <1>2, <1>8, <1>9, <1>10, <1>11 DEF IsLine
<1>13. QED
  BY <1>12 DEF l

LEMMA FilledHeader ==
  ASSUME NEW mem, NEW lo \in Nat, NEW len
  PROVE  /\ DOMAIN FillHeader(mem, lo, len) = DOMAIN mem
         /\ \A a \in DOMAIN mem : FillHeader(mem, lo, len)[a] =
              IF a \in CodeLenField(lo) THEN LenByte(len)
              ELSE IF a \in CrcField(lo) THEN CrcByte(Segment(mem, lo + HdrSize, lo + len))
              ELSE mem[a]
<1> DEFINE crc == CrcByte(Segment(mem, lo + HdrSize, lo + len))
<1>1. FillHeader(mem, lo, len) =
        [a \in DOMAIN mem |-> CASE a \in CodeLenField(lo) -> LenByte(len)
                                 [] a \in CrcField(lo)     -> crc
                                 [] OTHER                  -> mem[a]]
  BY DEF FillHeader
<1> HIDE DEF crc
<1>2. \A a \in CrcField(lo) : a \notin CodeLenField(lo)
  BY Layout DEF CodeLenField, CrcField
<1>3. /\ DOMAIN FillHeader(mem, lo, len) = DOMAIN mem
      /\ \A a \in DOMAIN mem : FillHeader(mem, lo, len)[a] =
           IF a \in CodeLenField(lo) THEN LenByte(len)
           ELSE IF a \in CrcField(lo) THEN crc ELSE mem[a]
  BY <1>1, <1>2
<1>4. QED
  BY <1>3 DEF crc

LEMMA ImageFacts ==
  ASSUME NEW file \in LinkerFiles \cup {OldFile}, SrecCrc(file, Name) # <<>>
  PROVE  /\ IsImage(SrecCrc(file, Name), file)
         /\ \E n \in Nat : DOMAIN SrecCrc(file, Name) = 1 .. n /\ Len(SrecCrc(file, Name)) = n /\ n >= 1
         /\ \A i \in DOMAIN SrecCrc(file, Name) :
              IsLine(SrecCrc(file, Name)[i], SrecCrc(file, Name))
<1> DEFINE len == Length(file)
           buf == Buffer(file)
           mem == FillHeader(buf, Begin, len)
           img == WriteSRecFile(mem, Begin, len, Name)
<1>1. ReadSRecFile(file) # <<>> /\ file \in Readable
  BY DEF SrecCrc, Readable
<1>2. /\ ReadSRecFile(file)[1].minAddr = Begin /\ len \in Nat /\ len >= 4 * Word
      /\ DOMAIN buf = Begin .. Begin + len - 1
  BY <1>1, LinkerAssumption, Layout DEF Begin
<1>3. HasMagic(buf, Begin) /\ SrecCrc(file, Name) = img
  BY <1>1, <1>2 DEF SrecCrc, Buffer, Length
<1>4. img # <<>>
  BY <1>3
<1>5. /\ DOMAIN mem = Begin .. Begin + len - 1
      /\ \A a \in Begin .. Begin + len - 1 :
           mem[a] = IF a \in CodeLenField(Begin) THEN LenByte(len)
                    ELSE IF a \in CrcField(Begin) THEN CrcByte(CodeOf(file)) ELSE buf[a]
  <2>1. CrcByte(CodeOf(file)) = CrcByte(Segment(buf, Begin + HdrSize, Begin + len))
    BY DEF CodeOf, Begin
  <2>2. /\ DOMAIN mem = DOMAIN buf
        /\ \A a \in DOMAIN buf : mem[a] =
             IF a \in CodeLenField(Begin) THEN LenByte(len)
             ELSE IF a \in CrcField(Begin) THEN CrcByte(Segment(buf, Begin + HdrSize, Begin + len))
             ELSE buf[a]
    <3>1. Begin \in Nat
      BY Layout
    <3>2. QED
      BY <3>1, FilledHeader, Zenon
  <2> HIDE DEF mem, buf, len
  <2>3. QED
    BY <1>2, <2>1, <2>2
<1>6. IsWritten(img, mem, Begin, len, Name)
  BY <1>2, Layout, WrittenLines
<1>7. /\ DOMAIN Loaded(img) = Begin .. Begin + len - 1
      /\ \A a \in Begin .. Begin + len - 1 : Loaded(img)[a] = mem[a]
  BY <1>2, <1>5, Layout, WrittenLoads
<1> HIDE DEF len, buf, mem, img
<1>8. IsImage(img, file)
  <2>1. \A a \in CodeLenField(Begin) : a \in Begin .. Begin + len - 1
    BY <1>2, Layout DEF CodeLenField
  <2>2. \A a \in CrcField(Begin) : a \in Begin .. Begin + len - 1 /\ a \notin CodeLenField(Begin)
    BY <1>2, Layout DEF CodeLenField, CrcField
  <2>3. \A a \in Begin .. Begin + Word - 1 :
          /\ a \in Begin .. Begin + len - 1
          /\ a \notin CodeLenField(Begin) /\ a \notin CrcField(Begin)
    BY <1>2, Layout DEF CodeLenField, CrcField
  <2>4. \A a \in Begin + 2 * Word + (Word \div 2) .. Begin + len - 1 :
          /\ a \in Begin .. Begin + len - 1
          /\ a \notin CodeLenField(Begin) /\ a \notin CrcField(Begin)
    BY <1>2, Layout DEF CodeLenField, CrcField
  <2>5. \A a \in Begin .. Begin + Word - 1 : Loaded(img)[a] = Magic
    BY <1>3, <1>5, <1>7, <2>3 DEF HasMagic
  <2>6. \A a \in CodeLenField(Begin) : Loaded(img)[a] = LenByte(len)
    BY <1>5, <1>7, <2>1
  <2>7. \A a \in CrcField(Begin) : Loaded(img)[a] = CrcByte(CodeOf(file))
    BY <1>5, <1>7, <2>2
  <2>8. \A a \in Begin + 2 * Word + (Word \div 2) .. Begin + len - 1 : Loaded(img)[a] = buf[a]
    BY <1>5, <1>7, <2>4
  <2>9. QED
    BY <1>1, <1>2, <1>4, <1>7, <2>5, <2>6, <2>7, <2>8 DEF IsImage, len, buf
<1>9. ASSUME NEW i \in DOMAIN img
      PROVE  IsLine(img[i], img)
  <2>1. /\ Lines3(len) \in Nat /\ i \in 1 .. Lines3(len) + 2
    BY <1>6 DEF IsWritten
  <2>2. CASE i = 1
    BY <1>6, <2>2 DEF IsWritten, Line, IsLine
  <2>3. CASE i = Lines3(len) + 2
    BY <1>6, <2>3 DEF IsWritten, Line, IsLine
  <2>4. CASE i - 1 \in 1 .. Lines3(len)
    <3>1. img[(i - 1) + 1] = Piece(mem, Begin, len, i - 1)
      BY <2>4, <1>6 DEF IsWritten
    <3>2. (i - 1) + 1 = i
      BY <2>1
    <3>3. IsLine(Piece(mem, Begin, len, i - 1), img)
      BY <2>4, <1>2, <1>7, PieceIsLine
    <3>4. QED
      BY <3>1, <3>2, <3>3
  <2>5. QED
    BY <2>1, <2>2, <2>3, <2>4
<1>10. Lines3(len) + 2 \in Nat /\ DOMAIN img = 1 .. Lines3(len) + 2 /\ Len(img) = Lines3(len) + 2
  BY <1>6 DEF IsWritten
<1>11. QED
  BY <1>3, <1>8, <1>9, <1>10

(***************************************************************************)
(* Where a write may end.  The second double word of the header is written *)
(* at once or not at all.                                                  *)
(***************************************************************************)
Apart(s) == s \in Int /\ (s <= Begin + 2 * Word \/ s >= Begin + 4 * Word)

LEMMA SecondAligned ==
  /\ (Begin + 2 * Word) % (2 * Word) = 0 /\ (Begin + 4 * Word) % (2 * Word) = 0
  /\ (Begin + 2 * Word) % Word = 0 /\ (Begin + 4 * Word) % Word = 0
<1> DEFINE m == 2 * Word
<1>1. m \in Nat /\ m > 0 /\ Begin % m = 0
  BY Layout, LayoutAssumption DEF Begin
<1>2. Begin \in Nat
  BY Layout
<1> HIDE DEF m
<1>3. PICK b \in Nat : Begin = b * m
  BY <1>1, <1>2, Factor
<1>4. Begin + m = (b + 1) * m /\ Begin + 2 * m = (b + 2) * m
  BY <1>1, <1>3
<1>5. (Begin + m) % m = 0 /\ (Begin + 2 * m) % m = 0
  BY <1>1, <1>4, Multiple
<1>6. Begin + m = (2 * (b + 1)) * Word /\ Begin + 2 * m = (2 * (b + 2)) * Word
  BY <1>4, Layout DEF m
<1>7. (Begin + m) % Word = 0 /\ (Begin + 2 * m) % Word = 0
  <2>1. 2 * (b + 1) \in Nat /\ 2 * (b + 2) \in Nat
    OBVIOUS
  <2>2. Word \in Nat /\ Word > 0
    BY Layout
  <2>3. ((2 * (b + 1)) * Word) % Word = 0 /\ ((2 * (b + 2)) * Word) % Word = 0
    BY <2>1, <2>2, Multiple
  <2>4. QED
    BY <1>6, <2>3
<1>8. m = 2 * Word /\ 2 * m = 4 * Word
  BY Layout DEF m
<1>9. QED
  BY <1>5, <1>7, <1>8

\* Whether the line from addr to addr + n - 1 has all of Second.
HasSecond(addr, n) ==
  /\ addr \in Nat /\ n \in Nat
  /\ addr <= Begin + 2 * Word /\ addr + n >= Begin + 4 * Word

LEMMA OneBetween ==
  ASSUME NEW e \in Int, NEW w \in Nat, w >= 1, e * w > 0, e * w < 2 * w
  PROVE  e = 1
<1>1. e <= 0 => e * w <= 0
  OBVIOUS
<1>2. e >= 2 => e * w >= 2 * w
  OBVIOUS
<1>3. QED
  BY <1>1, <1>2

LEMMA HalfWay ==
  ASSUME NEW a \in Nat, NEW u \in Nat, NEW w \in Nat, w >= 1,
         a % w = 0, u % (2 * w) = 0, u < a, a < u + 2 * w
  PROVE  a = u + w /\ a % (2 * w) = w
<1> DEFINE m == 2 * w
<1>1. m \in Nat /\ m > 0 /\ m = 2 * w /\ u % m = 0
  OBVIOUS
<1> HIDE DEF m
<1>2. PICK k \in Nat : a = k * w
  <2>1. w > 0
    OBVIOUS
  <2>2. QED
    BY <2>1, Factor
<1>3. PICK j \in Nat : u = j * m
  BY <1>1, Factor
<1>4. u = (2 * j) * w
  BY <1>1, <1>3
<1> DEFINE e == k - 2 * j
<1>5. e \in Int /\ a - u = e * w
  BY <1>2, <1>4
<1>6. e * w > 0 /\ e * w < 2 * w
  BY <1>5
<1> HIDE DEF e
<1>7. e = 1
  BY <1>5, <1>6, OneBetween
<1>8. a = u + w
  BY <1>5, <1>7
<1>9. a = j * m + w /\ w < m
  BY <1>1, <1>3, <1>8
<1>10. (j * m + w) % m = w
  BY <1>1, <1>9
<1>11. QED
  BY <1>1, <1>8, <1>9, <1>10

LEMMA StartsApart ==
  ASSUME NEW addr, NEW n, HasSecond(addr, n)
  PROVE  /\ UnitStarts(addr, n) \subseteq Nat /\ \A s \in UnitStarts(addr, n) : Apart(s)
         /\ Begin + 2 * Word \in UnitStarts(addr, n)
         /\ Begin + 4 * Word \in UnitStarts(addr, n) \/ Begin + 4 * Word = addr + n
<1> DEFINE second(a) == /\ a % (2 * Word) = Word
                        /\ a - Word >= addr /\ addr + n - (a - Word) >= 2 * Word
           u == Begin + 2 * Word
           v == Begin + 4 * Word
<1>1. UnitStarts(addr, n) = {addr} \cup {a \in addr .. addr + n - 1 : a % Word = 0 /\ ~second(a)}
  BY DEF UnitStarts
<1>2. /\ addr \in Nat /\ n \in Nat /\ u \in Nat /\ v \in Nat /\ addr <= u /\ v <= addr + n
      /\ v = u + 2 * Word
  BY Layout DEF HasSecond
<1>3. ~second(u) /\ ~second(v)
  BY SecondAligned, Layout
<1>4. u % Word = 0 /\ v % Word = 0
  BY SecondAligned
<1>5. u \in UnitStarts(addr, n)
  BY <1>1, <1>2, <1>3, <1>4, Layout
<1>6. v \in UnitStarts(addr, n) \/ v = addr + n
  BY <1>1, <1>2, <1>3, <1>4, Layout
<1>7. ASSUME NEW a \in addr .. addr + n - 1, a % Word = 0, u < a, a < v
      PROVE  second(a)
  <2>1. a \in Nat
    BY <1>2
  <2>2. u \in Nat /\ u % (2 * Word) = 0 /\ v = u + 2 * Word
    BY <1>2, SecondAligned
  <2> HIDE DEF u, v
  <2>3. a = u + Word /\ a % (2 * Word) = Word
    <3>1. u < a /\ a < u + 2 * Word /\ a % Word = 0
      BY <1>7, <2>2
    <3>2. Word \in Nat /\ Word >= 1
      BY Layout
    <3>3. QED
      BY <2>1, <2>2, <3>1, <3>2, HalfWay, Zenon
  <2>4. QED
    BY <2>1, <2>2, <2>3, <1>2, Layout
<1>8. ASSUME NEW s \in UnitStarts(addr, n)
      PROVE  s \in Nat /\ Apart(s)
  <2>1. s \in Nat
    BY <1>1, <1>2
  <2>2. s = addr \/ (s \in addr .. addr + n - 1 /\ s % Word = 0 /\ ~second(s))
    BY <1>1
  <2>3. s <= u \/ s >= v
    BY <2>1, <2>2, <1>2, <1>7
  <2>4. QED
    BY <2>1, <2>3 DEF Apart
<1>9. QED
  BY <1>5, <1>6, <1>8

LEMMA StopApart ==
  ASSUME NEW f, NEW data, NEW addr, HasSecond(addr, Len(data))
  PROVE  Apart(WriteStop(f, data, addr))
<1> DEFINE n == Len(data)
           end == addr + n
           starts == UnitStarts(addr, n)
           unit(s) == {a \in s .. end - 1 : \A t \in starts : t <= s \/ a < t}
           failed == {s \in starts : \E a \in unit(s) : ~Takes(f, a, data[a - addr + 1])}
           u == Begin + 2 * Word
           v == Begin + 4 * Word
<1>1. WriteStop(f, data, addr) = IF failed = {} THEN end + 1 ELSE Max(unit(Min(failed))) + 1
  BY Zenon DEF WriteStop
<1>2. /\ addr \in Nat /\ n \in Nat /\ u \in Nat /\ v \in Nat /\ end \in Nat
      /\ v <= end /\ v = u + 2 * Word
  BY Layout DEF HasSecond
<1>3. /\ starts \subseteq Nat /\ \A s \in starts : Apart(s)
      /\ u \in starts /\ (v \in starts \/ v = end)
  BY StartsApart
<1>4. CASE failed = {}
  BY <1>1, <1>2, <1>4, Layout DEF Apart
<1>5. CASE failed # {}
  <2> DEFINE s == Min(failed)
             x == Max(unit(s))
  <2>1. s \in failed
    BY <1>3, <1>5, Least
  <2>2. s \in Nat /\ Apart(s) /\ unit(s) # {}
    BY <1>3, <2>1
  <2>3. unit(s) \subseteq Int /\ \A y \in unit(s) : y <= end - 1
    BY <1>2, <2>2
  <2> HIDE DEF s
  <2>4. x \in unit(s) /\ \A y \in unit(s) : y <= x
    <3> DEFINE T == unit(s)
    <3>1. T \subseteq Int /\ T # {} /\ end - 1 \in Int /\ \A y \in T : y <= end - 1
      BY <1>2, <2>2, <2>3
    <3> HIDE DEF T
    <3>2. Max(T) \in T /\ \A y \in T : y <= Max(T)
      BY <3>1, Greatest
    <3>3. QED
      BY <3>2 DEF T
  <2>5. x \in Int /\ x >= s /\ \A t \in starts : t <= s \/ x < t
    BY <2>2, <2>4, <1>2
  <2>6. s < u => x < u
    <3>1. ASSUME s < u PROVE x < u
      <4>1. ~(u <= s)
        BY <3>1, <2>2, <1>2
      <4>2. QED
        BY <4>1, <2>5, <1>3
    <3>2. QED
      BY <3>1
  <2>7. s = u => v - 1 <= x
    <3>1. SUFFICES ASSUME s = u PROVE v - 1 \in unit(s)
      BY <2>4
    <3>2. v - 1 \in s .. end - 1
      BY <3>1, <1>2, Layout
    <3>3. \A t \in starts : t <= s \/ v - 1 < t
      BY <3>1, <1>2, <1>3 DEF Apart
    <3>4. QED
      BY <3>2, <3>3
  <2>8. s > u => s >= v
    BY <2>2, <1>2 DEF Apart
  <2>9. x + 1 <= u \/ x + 1 >= v
    BY <2>2, <2>5, <2>6, <2>7, <2>8, <1>2
  <2>10. WriteStop(f, data, addr) = x + 1
    BY <1>1, <1>5 DEF s
  <2>11. QED
    BY <2>5, <2>9, <2>10 DEF Apart
<1>6. QED
  BY <1>4, <1>5

(***************************************************************************)
(* What flash may hold.  The code behind the header may be anything; but   *)
(* the second double word of the header is erased, damaged in the CRC, or  *)
(* that of one of the two firmwares, as a whole.                           *)
(***************************************************************************)
Old == SrecCrc(OldFile, Name)

OfImage(f, img) == img # <<>> /\ \A a \in Second : f[a] = Loaded(img)[a]

HeaderOk(f, img) ==
  \/ \A a \in Second : f[a] = Erased
  \/ \E a \in CrcField(Begin) : f[a] = Junk
  \/ OfImage(f, img) \/ OfImage(f, Old)

FlashOk(f, img) ==
  /\ DOMAIN f = Addresses /\ f[FlashBase] = <<"bootloader">>
  /\ HeaderOk(f, img)

\* 'img' is no image yet, or what sreccrc made of a file of the linker.
Made(img) == img = <<>> \/ \E file \in LinkerFiles : img = SrecCrc(file, Name)

LEMMA Places ==
  /\ FlashBase \in Addresses /\ Second \subseteq Addresses
  /\ FlashBase \notin Second
  /\ CrcField(Begin) \subseteq Second /\ Begin + 2 * Word \in CrcField(Begin)
  /\ Begin + 2 * Word \in Second
  /\ \A a \in Second : a \in CrcField(Begin) \/ a \in Begin + 2 * Word + (Word \div 2) .. Begin + 4 * Word - 1
<1>1. Second \subseteq Addresses
  BY Layout DEF Second, Addresses, Firmware, Begin
<1>2. CrcField(Begin) \subseteq Second /\ Begin + 2 * Word \in CrcField(Begin)
  BY Layout DEF Second, CrcField
<1>3. \A a \in Second : a \in CrcField(Begin) \/ a \in Begin + 2 * Word + (Word \div 2) .. Begin + 4 * Word - 1
  BY Layout DEF Second, CrcField
<1>4. FlashBase \in Addresses /\ FlashBase \notin Second
  BY Layout DEF Addresses, Second
<1>5. QED
  BY <1>1, <1>2, <1>3, <1>4

LEMMA Different ==
  ASSUME NEW s
  PROVE  /\ CrcByte(s) # Erased /\ CrcByte(s) # Junk /\ Junk # Erased
BY DEF CrcByte, Erased, Junk

LEMMA CrcInjective == ASSUME NEW s, NEW t, CrcByte(s) = CrcByte(t) PROVE s = t
BY DEF CrcByte

(***************************************************************************)
(* Erasing the region takes the header whole, and leaves the bootloader.   *)
(***************************************************************************)
LEMMA Sectors ==
  ASSUME NEW x \in Nat, NEW y \in Nat, x <= y
  PROVE  /\ FlashGetSectorNumber(FlashBase + x) \in Nat
         /\ FlashGetSectorNumber(FlashBase + x) <= FlashGetSectorNumber(FlashBase + y)
         /\ x = 0 => FlashGetSectorNumber(FlashBase + x) = 0
         /\ x >= 8192 => FlashGetSectorNumber(FlashBase + x) >= 1
<1>1. (FlashBase + x) - FlashBase = x /\ (FlashBase + y) - FlashBase = y
  BY Layout
<1>2. FlashGetSectorNumber(FlashBase + x) =
        IF x < 32768 THEN x \div 8192 ELSE 4 + x \div 65536
  BY <1>1 DEF FlashGetSectorNumber, KB
<1>3. FlashGetSectorNumber(FlashBase + y) =
        IF y < 32768 THEN y \div 8192 ELSE 4 + y \div 65536
  BY <1>1 DEF FlashGetSectorNumber, KB
<1>4. QED
  BY <1>2, <1>3

LEMMA ErasedRegion ==
  ASSUME NEW f
  PROVE  LET e == FlashEraseRegion(f, FirmwareStartAddr, RegionSize)
         IN  /\ DOMAIN e = Addresses /\ e[FlashBase] = f[FlashBase]
             /\ \A a \in Second : e[a] = Erased
<1> DEFINE e == FlashEraseRegion(f, FirmwareStartAddr, RegionSize)
           S(a) == FlashGetSectorNumber(a)
           sectors == S(Begin) .. S(Begin + RegionSize)
<1>1. e = [a \in Addresses |-> IF S(a) \in sectors THEN Erased ELSE f[a]]
  BY Zenon DEF FlashEraseRegion, Begin
<1>2. S(FlashBase) = 0 /\ S(Begin) >= 1 /\ S(Begin) \in Nat
  <2>1. /\ 0 \in Nat /\ Begin - FlashBase \in Nat /\ Begin - FlashBase >= 8192
        /\ FlashBase + (Begin - FlashBase) = Begin /\ FlashBase + 0 = FlashBase
    BY Layout
  <2>2. S(FlashBase + 0) = 0
    BY <2>1, Sectors
  <2>3. S(FlashBase + (Begin - FlashBase)) >= 1 /\ S(FlashBase + (Begin - FlashBase)) \in Nat
    BY <2>1, Sectors
  <2>4. QED
    BY <2>1, <2>2, <2>3
<1>3. ASSUME NEW a \in Second
      PROVE  S(a) \in sectors
  <2> DEFINE b == Begin - FlashBase
             x == a - FlashBase
             z == Begin + RegionSize - FlashBase
  <2>1. /\ b \in Nat /\ x \in Nat /\ z \in Nat /\ b <= x /\ x <= z
        /\ FlashBase + b = Begin /\ FlashBase + x = a /\ FlashBase + z = Begin + RegionSize
    BY Layout DEF Second
  <2> HIDE DEF b, x, z
  <2>2. S(FlashBase + b) \in Nat /\ S(FlashBase + b) <= S(FlashBase + x)
    BY <2>1, Sectors
  <2>3. S(FlashBase + x) \in Nat /\ S(FlashBase + x) <= S(FlashBase + z)
    BY <2>1, Sectors
  <2>4. S(FlashBase + z) \in Nat
    BY <2>1, Sectors
  <2>5. QED
    BY <2>1, <2>2, <2>3, <2>4
<1>4. S(FlashBase) \notin sectors
  BY <1>2
<1> HIDE DEF e, sectors
<1>5. DOMAIN e = Addresses /\ e[FlashBase] = f[FlashBase]
  BY <1>1, <1>4, Places
<1>6. \A a \in Second : e[a] = Erased
  BY <1>1, <1>3, Places
<1>7. QED
  BY <1>5, <1>6 DEF e

LEMMA EraseKeeps ==
  ASSUME NEW f, NEW img, FlashOk(f, img)
  PROVE  FlashOk(FlashEraseRegion(f, FirmwareStartAddr, RegionSize), img)
BY ErasedRegion DEF FlashOk, HeaderOk

\* The power fails meanwhile.
LEMMA HalfEraseKeeps ==
  ASSUME NEW f, NEW img, NEW g, FlashOk(f, img), Made(img),
         g = FlashEraseRegion(f, FirmwareStartAddr, RegionSize) \/ g = f
  PROVE  FlashOk([a \in Addresses |-> IF g[a] # f[a] THEN Junk ELSE f[a]], img)
<1> DEFINE h == [a \in Addresses |-> IF g[a] # f[a] THEN Junk ELSE f[a]]
<1>1. DOMAIN h = Addresses /\ \A a \in Addresses : h[a] = IF g[a] # f[a] THEN Junk ELSE f[a]
  OBVIOUS
<1> HIDE DEF h
<1>2. g[FlashBase] = f[FlashBase]
  BY ErasedRegion
<1>3. h[FlashBase] = <<"bootloader">>
  BY <1>1, <1>2, Places DEF FlashOk
<1>4. CASE g = f
  <2>1. \A a \in Addresses : h[a] = f[a]
    BY <1>1, <1>4
  <2>2. HeaderOk(h, img)
    BY <2>1, Places DEF FlashOk, HeaderOk, OfImage
  <2>3. QED
    BY <1>1, <1>3, <2>2 DEF FlashOk, h
<1>5. CASE \A a \in Second : g[a] = Erased
  <2>1. \A a \in Second : h[a] = IF f[a] = Erased THEN Erased ELSE Junk
    BY <1>1, <1>5, Places
  <2>2. HeaderOk(h, img)
    <3>1. CASE \A a \in Second : f[a] = Erased
      BY <2>1, <3>1 DEF HeaderOk
    <3>2. CASE \E a \in CrcField(Begin) : f[a] = Junk
      BY <2>1, <3>2, Places, Different DEF HeaderOk
    <3>3. ASSUME NEW m, NEW file \in LinkerFiles \cup {OldFile}, m = SrecCrc(file, Name), OfImage(f, m)
          PROVE  HeaderOk(h, img)
      <4>1. IsImage(m, file)
        BY <3>3, ImageFacts DEF OfImage
      <4>2. f[Begin + 2 * Word] = CrcByte(CodeOf(file))
        BY <3>3, <4>1, Places DEF OfImage, IsImage
      <4>3. h[Begin + 2 * Word] = Junk
        BY <2>1, <4>2, Places, Different
      <4>4. QED
        BY <4>3, Places DEF HeaderOk
    <3>4. CASE OfImage(f, img)
      BY <3>3, <3>4 DEF Made, OfImage
    <3>5. CASE OfImage(f, Old)
      BY <3>3, <3>5 DEF Old
    <3>6. QED
      BY <3>1, <3>2, <3>4, <3>5 DEF FlashOk, HeaderOk
  <2>3. QED
    BY <1>1, <1>3, <2>2 DEF FlashOk, h
<1>6. QED
  BY <1>4, <1>5, ErasedRegion

(***************************************************************************)
(* Writing a line, up to any place a write may end.                        *)
(***************************************************************************)
LEMMA RecordKeeps ==
  ASSUME NEW f, NEW img, FlashOk(f, img), NEW file \in LinkerFiles, img = SrecCrc(file, Name),
         img # <<>>, NEW l, IsLine(l, img), l.t = 3, NEW stop,
         HasSecond(l.addr, Len(l.data)) => Apart(stop)
  PROVE  FlashOk(WriteUpTo(f, l.data, l.addr, stop), img)
<1> DEFINE h == WriteUpTo(f, l.data, l.addr, stop)
           within(a) == a \in l.addr .. l.addr + Len(l.data) - 1 /\ a < stop
<1>1. /\ DOMAIN h = Addresses
      /\ \A a \in Addresses : h[a] = IF within(a) THEN Program(f, a, l.data[a - l.addr + 1]) ELSE f[a]
  BY DEF WriteUpTo
<1>2. /\ l.addr \in Nat /\ l.addr >= Begin /\ Len(l.data) \in Nat
      /\ \A a \in l.addr .. l.addr + Len(l.data) - 1 : l.data[a - l.addr + 1] = Loaded(img)[a]
      /\ \/ l.addr <= Begin + 2 * Word /\ l.addr + Len(l.data) >= Begin + 4 * Word
         \/ l.addr + Len(l.data) <= Begin + 2 * Word
         \/ l.addr >= Begin + 4 * Word
  BY DEF IsLine, Cover
<1>3. ~within(FlashBase)
  BY <1>2, Layout
<1> HIDE DEF h
<1>4. h[FlashBase] = <<"bootloader">>
  BY <1>1, <1>3, Places DEF FlashOk
<1>5. CASE \A a \in Second : ~within(a)
  <2>1. \A a \in Second : h[a] = f[a]
    BY <1>1, <1>5, Places
  <2>2. HeaderOk(h, img)
    BY <2>1, Places DEF FlashOk, HeaderOk, OfImage
  <2>3. QED
    BY <1>1, <1>4, <2>2 DEF FlashOk, h
<1>6. CASE \A a \in Second : within(a)
  <2>1. \A a \in Second : h[a] = Program(f, a, Loaded(img)[a])
    BY <1>1, <1>2, <1>6, Places
  <2>2. IsImage(img, file)
    BY ImageFacts
  <2>3. HeaderOk(h, img)
    <3>1. CASE \A a \in Second : f[a] = Erased
      <4>1. \A a \in Second : h[a] = Loaded(img)[a]
        BY <2>1, <3>1 DEF Program
      <4>2. QED
        BY <4>1 DEF HeaderOk, OfImage
    <3>2. CASE \E a \in CrcField(Begin) : f[a] = Junk
      <4>1. PICK a \in CrcField(Begin) : f[a] = Junk
        BY <3>2
      <4>2. h[a] = Junk
        BY <2>1, <4>1, Places, Different DEF Program
      <4>3. QED
        BY <4>1, <4>2 DEF HeaderOk
    <3>3. ASSUME NEW m, NEW other \in LinkerFiles \cup {OldFile}, m = SrecCrc(other, Name), OfImage(f, m)
          PROVE  HeaderOk(h, img)
      <4>1. IsImage(m, other)
        BY <3>3, ImageFacts DEF OfImage
      <4>2. \A a \in CrcField(Begin) : f[a] = CrcByte(CodeOf(other)) /\ Loaded(img)[a] = CrcByte(CodeOf(file))
        BY <3>3, <4>1, <2>2, Places DEF OfImage, IsImage
      <4>3. CASE CodeOf(other) = CodeOf(file)
        <5>1. \A a \in Begin + 2 * Word + (Word \div 2) .. Begin + 4 * Word - 1 :
                Buffer(other)[a] = Buffer(file)[a]
          BY <4>1, <4>3, <2>2, HeaderAssumption, Layout DEF IsImage, Begin
        <5>2. \A a \in Begin + 2 * Word + (Word \div 2) .. Begin + 4 * Word - 1 :
                a \in Second /\ Loaded(m)[a] = Buffer(other)[a] /\ Loaded(img)[a] = Buffer(file)[a]
          <6>1. TAKE a \in Begin + 2 * Word + (Word \div 2) .. Begin + 4 * Word - 1
          <6>2. /\ a \in Begin + 2 * Word + (Word \div 2) .. Begin + Length(other) - 1
                /\ a \in Begin + 2 * Word + (Word \div 2) .. Begin + Length(file) - 1
                /\ a \in Second
            BY <4>1, <2>2, Layout DEF IsImage, Second
          <6>3. QED
            BY <6>2, <4>1, <2>2 DEF IsImage
        <5>3. \A a \in Second : f[a] = Loaded(img)[a]
          <6>1. TAKE a \in Second
          <6>2. CASE a \in CrcField(Begin)
            BY <4>2, <4>3, <6>2
          <6>3. CASE a \in Begin + 2 * Word + (Word \div 2) .. Begin + 4 * Word - 1
            BY <5>1, <5>2, <6>3, <3>3 DEF OfImage
          <6>4. QED
            BY <6>2, <6>3, Places
        <5>4. \A a \in Second : h[a] = Loaded(img)[a]
          BY <2>1, <5>3 DEF Program
        <5>5. QED
          BY <5>4 DEF HeaderOk, OfImage
      <4>4. CASE CodeOf(other) # CodeOf(file)
        <5> DEFINE c == Begin + 2 * Word
        <5>1. /\ f[c] = CrcByte(CodeOf(other)) /\ Loaded(img)[c] = CrcByte(CodeOf(file))
              /\ h[c] = Program(f, c, Loaded(img)[c])
          BY <4>2, <2>1, Places
        <5>2. f[c] # Loaded(img)[c] /\ f[c] # Erased
          BY <4>4, <5>1, CrcInjective, Different
        <5>3. h[c] = Junk
          BY <5>1, <5>2 DEF Program
        <5>4. QED
          BY <5>3, Places DEF HeaderOk
      <4>5. QED
        BY <4>3, <4>4
    <3>4. CASE OfImage(f, img)
      BY <3>3, <3>4
    <3>5. CASE OfImage(f, Old)
      BY <3>3, <3>5 DEF Old
    <3>6. QED
      BY <3>1, <3>2, <3>4, <3>5 DEF FlashOk, HeaderOk
  <2>4. QED
    BY <1>1, <1>4, <2>3 DEF FlashOk, h
<1>7. (\A a \in Second : ~within(a)) \/ (\A a \in Second : within(a))
  <2>1. CASE l.addr <= Begin + 2 * Word /\ l.addr + Len(l.data) >= Begin + 4 * Word
    <3>1. Apart(stop)
      BY <1>2, <2>1 DEF HasSecond
    <3>2. QED
      BY <1>2, <2>1, <3>1, Layout DEF Apart, Second
  <2>2. CASE l.addr + Len(l.data) <= Begin + 2 * Word
    BY <1>2, <2>2, Layout DEF Second
  <2>3. CASE l.addr >= Begin + 4 * Word
    BY <1>2, <2>3, Layout DEF Second
  <2>4. QED
    BY <1>2, <2>1, <2>2, <2>3
<1>8. QED
  BY <1>5, <1>6, <1>7

(***************************************************************************)
(* What bootKRNL finds to be a firmware is one, from beginning to end.     *)
(***************************************************************************)
LEMMA SegmentsEqual ==
  ASSUME NEW f, NEW g, NEW b \in Nat, NEW m \in Nat, NEW n \in Nat, b <= m, b <= n,
         Segment(f, b, m) = Segment(g, b, n)
  PROVE  m = n /\ \A a \in b .. m - 1 : f[a] = g[a]
<1>1. Len(Segment(f, b, m)) = m - b /\ Len(Segment(g, b, n)) = n - b
  BY SegmentIs
<1>2. m = n
  BY <1>1
<1>3. ASSUME NEW a \in b .. m - 1
      PROVE  f[a] = g[a]
  <2>1. Segment(f, b, m)[a - b + 1] = f[a]
    BY SegmentIs
  <2>2. Segment(g, b, n)[a - b + 1] = g[a]
    BY <1>2, SegmentIs
  <2>3. QED
    BY <2>1, <2>2
<1>4. QED
  BY <1>2, <1>3

LEMMA WholeImage ==
  ASSUME NEW f, NEW file \in LinkerFiles \cup {OldFile}, NEW m, m = SrecCrc(file, Name),
         OfImage(f, m), KrnlPresent(f)
  PROVE  Holds(f, m)
<1> DEFINE c == Begin + 2 * Word
           mem == Loaded(m)
           len == Length(file)
<1>1. IsImage(m, file) /\ m # <<>>
  BY ImageFacts DEF OfImage
<1>2. PICK n \in HdrSize .. FlashSize :
        /\ \A a \in CodeLenField(Begin) : f[a] = LenByte(n)
        /\ \A a \in CrcField(Begin) : f[a] = CrcByte(Segment(f, Begin + HdrSize, Begin + n))
  BY DEF KrnlPresent, Begin
<1>3. HasMagic(f, Begin)
  BY DEF KrnlPresent, Begin
<1>4. CrcByte(Segment(f, Begin + HdrSize, Begin + n)) = CrcByte(CodeOf(file))
  BY <1>1, <1>2, Places DEF OfImage, IsImage
<1>5. Segment(f, Begin + HdrSize, Begin + n) = Segment(Buffer(file), Begin + HdrSize, Begin + len)
  BY <1>4, CrcInjective DEF CodeOf, Begin
<1>6. len \in Nat /\ len >= 4 * Word /\ n \in Nat /\ n >= 4 * Word
  BY <1>1, <1>2, Layout DEF IsImage
<1>7. /\ Begin + n = Begin + len
      /\ \A a \in Begin + HdrSize .. Begin + n - 1 : f[a] = Buffer(file)[a]
  <2> DEFINE b == Begin + HdrSize
             x == Begin + n
             y == Begin + len
  <2>1. b \in Nat /\ x \in Nat /\ y \in Nat /\ b <= x /\ b <= y
    BY <1>6, Layout
  <2>2. Segment(f, b, x) = Segment(Buffer(file), b, y)
    BY <1>5
  <2>3. b = Begin + HdrSize /\ x = Begin + n /\ y = Begin + len
    OBVIOUS
  <2> HIDE DEF b, x, y
  <2>4. x = y /\ \A a \in b .. x - 1 : f[a] = Buffer(file)[a]
    BY <2>1, <2>2, SegmentsEqual
  <2>5. Begin + n - 1 = x - 1
    BY <2>3, <1>6, Layout
  <2>6. \A a \in Begin + HdrSize .. Begin + n - 1 : f[a] = Buffer(file)[a]
    BY <2>3, <2>4, <2>5
  <2>7. QED
    BY <2>3, <2>4, <2>6
<1>8. n = len
  BY <1>6, <1>7, Layout
<1> HIDE DEF len
<1>9. ASSUME NEW a \in Begin .. Begin + len - 1
      PROVE  f[a] = mem[a]
  <2>1. CASE a \in Begin .. Begin + Word - 1
    BY <1>1, <1>3, <2>1 DEF HasMagic, IsImage
  <2>2. CASE a \in CodeLenField(Begin)
    BY <1>1, <1>2, <1>8, <2>2 DEF IsImage, len
  <2>3. CASE a \in Second
    BY <2>3 DEF OfImage
  <2>4. CASE a \in Begin + HdrSize .. Begin + n - 1
    <3>1. a \in Begin + 2 * Word + (Word \div 2) .. Begin + len - 1
      BY <2>4, <1>6, <1>8, Layout
    <3>2. mem[a] = Buffer(file)[a]
      BY <3>1, <1>1 DEF IsImage, len
    <3>3. QED
      BY <2>4, <3>2, <1>7
  <2>5. QED
    BY <2>1, <2>2, <2>3, <2>4, <1>6, <1>8, Layout DEF CodeLenField, Second
<1>10. DOMAIN mem = Begin .. Begin + len - 1
  BY <1>1 DEF IsImage, len
<1>11. QED
  BY <1>1, <1>9, <1>10 DEF Holds

LEMMA BootsWhole ==
  ASSUME NEW f, NEW img, FlashOk(f, img), Made(img), KrnlPresent(f)
  PROVE  Holds(f, img) \/ Holds(f, Old)
<1>1. \E n : \A a \in CrcField(Begin) : f[a] = CrcByte(Segment(f, Begin + HdrSize, Begin + n))
  BY DEF KrnlPresent, Begin
<1>2. PICK n : \A a \in CrcField(Begin) : f[a] = CrcByte(Segment(f, Begin + HdrSize, Begin + n))
  BY <1>1
<1>3. ~(\A a \in Second : f[a] = Erased)
  BY <1>2, Places, Different
<1>4. ~(\E a \in CrcField(Begin) : f[a] = Junk)
  BY <1>2, Different
<1>5. CASE OfImage(f, img)
  BY <1>5, WholeImage DEF Made, OfImage
<1>6. CASE OfImage(f, Old)
  BY <1>6, WholeImage DEF Old
<1>7. QED
  BY <1>3, <1>4, <1>5, <1>6 DEF FlashOk, HeaderOk

(***************************************************************************)
(* The invariant.  A record that comes in undamaged and complete is a line *)
(* of the image, which is made before anything is sent and never again.    *)
(***************************************************************************)
Empty        == Line(0, 0, <<>>)
LinesOf(img) == {img[i] : i \in DOMAIN img} \cup {Empty}
Arriving(img) ==
  [kind : {"probe", "command", "record"}, whole : BOOLEAN,
   line : {[l EXCEPT !.defect = d] : l \in LinesOf(img), d \in Defects}]

SenderInv ==
  /\ nLines \in Nat /\ nLines >= 1
  /\ pc # "idle" => image # <<>>
  /\ sender = "tool" /\ pc # "idle" => nLines <= Len(image)

UpgradeInv ==
  /\ FlashOk(flash, image) /\ Made(image)
  /\ device = "firmware" => Holds(flash, image) \/ Holds(flash, Old)
  /\ rx \in Seq(Arriving(image))
  /\ SenderInv

LEMMA UpgradeStarts == UpgradeInit => UpgradeInv
<1>1. SUFFICES ASSUME UpgradeInit PROVE UpgradeInv
  OBVIOUS
<1>2. rx \in Seq(Arriving(image)) /\ SenderInv /\ Made(image) /\ device # "firmware"
  BY <1>1 DEF UpgradeInit, SenderInv, Made
<1>3. CASE flash = BlankFlash
  <2>1. \A a \in Second : flash[a] = Erased
    BY <1>3, Places DEF BlankFlash
  <2>2. DOMAIN flash = Addresses /\ flash[FlashBase] = <<"bootloader">>
    BY <1>3, Places DEF BlankFlash
  <2>3. QED
    BY <1>2, <2>1, <2>2 DEF UpgradeInv, FlashOk, HeaderOk
<1>4. CASE flash = OldFlash
  <2> DEFINE mem == Loaded(Old)
  <2>1. /\ DOMAIN flash = Addresses
        /\ \A a \in Addresses : flash[a] = IF a = FlashBase THEN <<"bootloader">>
                                           ELSE IF a \in DOMAIN mem THEN mem[a] ELSE Erased
    BY <1>4 DEF OldFlash, Old
  <2> HIDE DEF mem
  <2>2. flash[FlashBase] = <<"bootloader">>
    BY <2>1, Places
  <2>3. \A a \in Second : flash[a] = IF a \in DOMAIN mem THEN mem[a] ELSE Erased
    BY <2>1, Places
  <2>4. CASE Old = <<>>
    <3>1. DOMAIN mem = {}
      BY <2>4 DEF mem, Loaded, DataLines
    <3>2. QED
      BY <1>2, <2>1, <2>2, <2>3, <3>1 DEF UpgradeInv, FlashOk, HeaderOk
  <2>5. CASE Old # <<>>
    <3>1. IsImage(Old, OldFile)
      BY <2>5, ImageFacts DEF Old
    <3>2. /\ DOMAIN mem = Begin .. Begin + Length(OldFile) - 1
          /\ Length(OldFile) \in Nat /\ Length(OldFile) >= 4 * Word
      BY <3>1 DEF IsImage, mem
    <3>3. Second \subseteq DOMAIN mem
      BY <3>2, Layout DEF Second
    <3>4. OfImage(flash, Old)
      BY <2>3, <2>5, <3>3 DEF OfImage, mem
    <3>5. QED
      BY <1>2, <2>1, <2>2, <3>4 DEF UpgradeInv, FlashOk, HeaderOk
  <2>6. QED
    BY <2>4, <2>5
<1>5. QED
  BY <1>1, <1>3, <1>4 DEF UpgradeInit

\* A line that has come in whole is one of the image, and so is a damaged one
\* but for its defect.
LEMMA ArrivingFacts ==
  ASSUME NEW img, Made(img)
  PROVE  /\ Probe \in Arriving(img) /\ Command \in Arriving(img)
         /\ \A i \in DOMAIN img : ARecord(img[i]) \in Arriving(img)
         /\ \A m \in Arriving(img) :
              /\ [m EXCEPT !.whole = FALSE] \in Arriving(img)
              /\ \A d \in Defects : [m EXCEPT !.line.defect = d] \in Arriving(img)
              /\ m.line.defect = "none" =>
                   m.line.t = 0 \/ (IsLine(m.line, img) /\ img # <<>>)
<1>1. \A l \in LinesOf(img) :
        l = Line(l.t, l.addr, l.data) /\ (l = Empty \/ (IsLine(l, img) /\ img # <<>>))
  <2>1. Empty = Line(Empty.t, Empty.addr, Empty.data)
    BY DEF Empty, Line
  <2>2. \A i \in DOMAIN img : IsLine(img[i], img)
    <3>1. CASE img = <<>>
      BY <3>1
    <3>2. CASE img # <<>>
      BY <3>2, ImageFacts DEF Made
    <3>3. QED
      BY <3>1, <3>2
  <2>3. QED
    BY <2>1, <2>2 DEF LinesOf, IsLine
<1> DEFINE Damaged == {[l EXCEPT !.defect = d] : l \in LinesOf(img), d \in Defects}
<1>2. \A l \in LinesOf(img), d \in Defects :
        [l EXCEPT !.defect = d] = [t |-> l.t, addr |-> l.addr, data |-> l.data, defect |-> d]
  BY <1>1 DEF Line
<1>3. \A l \in LinesOf(img) : l \in Damaged
  <2>1. TAKE l \in LinesOf(img)
  <2>2. [l EXCEPT !.defect = "none"] = l
    BY <1>1, <1>2 DEF Line, Defects
  <2>3. "none" \in Defects
    BY DEF Defects
  <2>4. QED
    BY <2>2, <2>3
<1>4. ASSUME NEW x \in Damaged, NEW d \in Defects
      PROVE  [x EXCEPT !.defect = d] \in Damaged /\ (x.defect = "none" => x \in LinesOf(img))
  <2>1. PICK l \in LinesOf(img), c \in Defects : x = [l EXCEPT !.defect = c]
    OBVIOUS
  <2>2. x = [t |-> l.t, addr |-> l.addr, data |-> l.data, defect |-> c]
    BY <2>1, <1>2
  <2>3. [x EXCEPT !.defect = d] = [l EXCEPT !.defect = d]
    BY <2>2, <1>2
  <2>4. c = "none" => x = l
    BY <2>2, <1>1 DEF Line
  <2>5. QED
    BY <2>2, <2>3, <2>4
<1>5. Arriving(img) = [kind : {"probe", "command", "record"}, whole : BOOLEAN, line : Damaged]
  BY DEF Arriving
<1> HIDE DEF Damaged
<1>6. Empty \in LinesOf(img) /\ \A i \in DOMAIN img : img[i] \in LinesOf(img)
  BY DEF LinesOf
<1>7. Probe \in Arriving(img) /\ Command \in Arriving(img)
  BY <1>3, <1>5, <1>6 DEF Probe, Command, Sent, Empty
<1>8. \A i \in DOMAIN img : ARecord(img[i]) \in Arriving(img)
  BY <1>3, <1>5, <1>6 DEF ARecord, Sent
<1>9. ASSUME NEW m \in Arriving(img)
      PROVE  /\ [m EXCEPT !.whole = FALSE] \in Arriving(img)
             /\ \A d \in Defects : [m EXCEPT !.line.defect = d] \in Arriving(img)
             /\ m.line.defect = "none" => m.line.t = 0 \/ (IsLine(m.line, img) /\ img # <<>>)
  <2>1. [m EXCEPT !.whole = FALSE] \in Arriving(img)
    <3>1. \A b \in BOOLEAN : [m EXCEPT !.whole = b] \in Arriving(img)
      BY <1>5
    <3>2. QED
      BY <3>1
  <2>2. \A d \in Defects : [m.line EXCEPT !.defect = d] \in Damaged
    BY <1>4, <1>5
  <2>3. \A d \in Defects : [m EXCEPT !.line.defect = d] \in Arriving(img)
    BY <1>5, <2>2
  <2>4. m.line.defect = "none" => m.line \in LinesOf(img)
    <3>1. m.line \in Damaged /\ "none" \in Defects
      BY <1>5 DEF Defects
    <3>2. QED
      BY <3>1, <1>4
  <2>5. QED
    BY <2>1, <2>3, <2>4, <1>1 DEF Empty, Line
<1>10. QED
  BY <1>7, <1>8, <1>9

LEMMA ImageLen ==
  ASSUME NEW img, Made(img), img # <<>>
  PROVE  Len(img) \in Nat /\ Len(img) >= 1 /\ DOMAIN img = 1 .. Len(img)
BY ImageFacts DEF Made

\* What is left of a queue, and what is added to it.
LEMMA Queues ==
  ASSUME NEW S, NEW q \in Seq(S), NEW x \in S
  PROVE  /\ Append(q, x) \in Seq(S) /\ q \o <<x>> \in Seq(S) /\ q \o <<>> \in Seq(S)
         /\ q # <<>> => Tail(q) \in Seq(S)
         /\ \A k \in DOMAIN q : SubSeq(q, k + 1, Len(q)) \in Seq(S)
         /\ \A k \in 1 .. Len(q) - 1 : SubSeq(q, k + 2, Len(q)) \in Seq(S)
<1>1. <<x>> \in Seq(S) /\ <<>> \in Seq(S)
  OBVIOUS
<1>2. Append(q, x) \in Seq(S) /\ q \o <<x>> \in Seq(S) /\ q \o <<>> \in Seq(S)
  BY <1>1
<1>3. ASSUME NEW j \in Nat, j >= 1
      PROVE  SubSeq(q, j, Len(q)) \in Seq(S)
  <2>1. \A i \in j .. Len(q) : q[i] \in S
    BY <1>3
  <2>2. QED
    BY <2>1, <1>3, SubSeqProperties
<1>4. QED
  BY <1>2, <1>3

LEMMA Arrival ==
  ASSUME Made(image), rx \in Seq(Arriving(image)), NEW m \in Arriving(image), Arrives(m)
  PROVE  rx' \in Seq(Arriving(image))
<1> DEFINE S == Arriving(image)
           damaged == {[m EXCEPT !.line.defect = "checksum"], [m EXCEPT !.whole = FALSE]}
<1>1. "checksum" \in Defects
  BY DEF Defects
<1>2. [m EXCEPT !.whole = FALSE] \in S /\ [m EXCEPT !.line.defect = "checksum"] \in S
  BY <1>1, ArrivingFacts
<1>3. damaged \subseteq S
  BY <1>2
<1>4. \/ rx' \in {rx \o q : q \in {<<>>, <<m>>} \cup {<<d>> : d \in damaged}}
      \/ rx' = Append(rx, m)
      \/ rx' \in {rx} \cup {Append(rx, d) : d \in damaged}
  BY Zenon DEF Arrives
<1> HIDE DEF S, damaged
<1>5. \A x \in S : Append(rx, x) \in Seq(S) /\ rx \o <<x>> \in Seq(S) /\ rx \o <<>> \in Seq(S)
  BY Queues DEF S
<1>6. m \in S /\ rx \in Seq(S)
  BY DEF S
<1>7. rx' \in Seq(S)
  BY <1>3, <1>4, <1>5, <1>6
<1>8. QED
  BY <1>7 DEF S

\* The only records the bootloader takes are lines of the image.
LEMMA TakenRecord ==
  ASSUME UpgradeInv, NEW k \in DOMAIN rx, CheckSRecord(Lines(k))
  PROVE  \/ rx[1].line.t = 0
         \/ rx[1].line.t \in {3, 7} /\ IsLine(rx[1].line, image) /\ image # <<>>
<1>1. rx \in Seq(Arriving(image)) /\ Made(image)
  BY DEF UpgradeInv
<1>2. Lines(k)[1] = rx[1] /\ 1 \in DOMAIN rx
  <2>1. k \in Nat /\ k >= 1 /\ k <= Len(rx) /\ Len(rx) \in Nat
    BY <1>1
  <2>2. QED
    BY <1>1, <2>1 DEF Lines
<1>3. rx[1] \in Arriving(image)
  BY <1>1, <1>2
<1>4. rx[1].line.defect = "none"
  BY <1>2 DEF CheckSRecord
<1>5. rx[1].line.t = 0 \/ (IsLine(rx[1].line, image) /\ image # <<>>)
  BY <1>1, <1>3, <1>4, ArrivingFacts
<1>6. QED
  BY <1>5 DEF IsLine

(***************************************************************************)
(* The steps that touch flash.                                             *)
(***************************************************************************)
LEMMA RecordWritten ==
  ASSUME UpgradeInv, NEW l, l.t = 3, IsLine(l, image), image # <<>>
  PROVE  /\ FlashOk(WriteUpTo(flash, l.data, l.addr, WriteStop(flash, l.data, l.addr)), image)
         /\ \A s \in UnitStarts(l.addr, Len(l.data)) :
              FlashOk(WriteUpTo(flash, l.data, l.addr, s), image)
<1>1. PICK file \in LinkerFiles : image = SrecCrc(file, Name)
  BY DEF UpgradeInv, Made
<1>2. FlashOk(flash, image)
  BY DEF UpgradeInv
<1>3. FlashOk(WriteUpTo(flash, l.data, l.addr, WriteStop(flash, l.data, l.addr)), image)
  <2> DEFINE stop == WriteStop(flash, l.data, l.addr)
  <2>1. HasSecond(l.addr, Len(l.data)) => Apart(stop)
    BY StopApart
  <2> HIDE DEF stop
  <2>2. FlashOk(WriteUpTo(flash, l.data, l.addr, stop), image)
    BY <1>1, <1>2, <2>1, RecordKeeps
  <2>3. QED
    BY <2>2 DEF stop
<1>4. ASSUME NEW s \in UnitStarts(l.addr, Len(l.data))
      PROVE  FlashOk(WriteUpTo(flash, l.data, l.addr, s), image)
  <2>1. HasSecond(l.addr, Len(l.data)) => Apart(s)
    BY StartsApart
  <2>2. QED
    BY <1>1, <1>2, <2>1, RecordKeeps
<1>5. QED
  BY <1>3, <1>4

LEMMA LineTaken ==
  ASSUME UpgradeInv, BootloaderLine
  PROVE  /\ FlashOk(flash', image) /\ rx' \in Seq(Arriving(image))
         /\ device' = "firmware" => Holds(flash', image) \/ Holds(flash', Old)
<1>1. FlashOk(flash, image) /\ Made(image) /\ rx \in Seq(Arriving(image)) /\ device = "bootloader"
  BY DEF UpgradeInv, BootloaderLine
<1>2. PICK k \in DOMAIN rx :
        /\ rx' = SubSeq(rx, k + 1, Len(rx))
        /\ IF CheckSRecord(Lines(k))
           THEN /\ flash' = ProcessSRecord(rx[1].line).flash
                /\ device' = IF ProcessSRecord(rx[1].line).boots THEN "firmware" ELSE device
           ELSE flash' = flash /\ device' = device
  BY Zenon DEF BootloaderLine
<1>3. rx' \in Seq(Arriving(image))
  BY <1>1, <1>2, ArrivingFacts, Queues
<1> DEFINE l == rx[1].line
           p == ProcessSRecord(l)
<1>4. CASE ~CheckSRecord(Lines(k))
  BY <1>1, <1>2, <1>3, <1>4
<1>5. CASE CheckSRecord(Lines(k))
  <2>1. flash' = p.flash /\ (device' = "firmware" => p.boots = TRUE)
    BY <1>1, <1>2, <1>5
  <2>2. l.t = 0 \/ (l.t \in {3, 7} /\ IsLine(l, image) /\ image # <<>>)
    BY <1>5, TakenRecord
  <2>3. CASE l.t = 0
    <3>1. /\ ~p.boots
          /\ p.flash = FlashEraseRegion(flash, FirmwareStartAddr, RegionSize) \/ p.flash = flash
      BY <2>3 DEF ProcessSRecord
    <3>2. FlashOk(p.flash, image)
      BY <3>1, <1>1, EraseKeeps
    <3>3. QED
      BY <1>3, <2>1, <3>1, <3>2
  <2>4. CASE l.t = 3 /\ IsLine(l, image) /\ image # <<>>
    <3>1. ~p.boots /\ p.flash = FlashWriteBuffer(flash, l.data, l.addr).flash
      BY <2>4 DEF ProcessSRecord
    <3>2. FlashWriteBuffer(flash, l.data, l.addr).flash
            = WriteUpTo(flash, l.data, l.addr, WriteStop(flash, l.data, l.addr))
      BY DEF FlashWriteBuffer
    <3>3. FlashOk(WriteUpTo(flash, l.data, l.addr, WriteStop(flash, l.data, l.addr)), image)
      BY <2>4, RecordWritten
    <3>4. QED
      BY <1>3, <2>1, <3>1, <3>2, <3>3
  <2>5. CASE l.t = 7
    <3>1. p.flash = flash /\ (p.boots = TRUE => KrnlPresent(flash))
      BY <2>5 DEF ProcessSRecord
    <3>2. KrnlPresent(flash) => Holds(flash, image) \/ Holds(flash, Old)
      BY <1>1, BootsWhole
    <3>3. QED
      BY <1>1, <1>3, <2>1, <3>1, <3>2
  <2>6. QED
    BY <2>2, <2>3, <2>4, <2>5
<1>6. QED
  BY <1>4, <1>5

LEMMA PowerCut ==
  ASSUME UpgradeInv, flash' \in HalfDone
  PROVE  FlashOk(flash', image)
<1>1. FlashOk(flash, image) /\ Made(image) /\ rx \in Seq(Arriving(image))
  BY DEF UpgradeInv
<1> DEFINE l == rx[1].line
           g == ProcessSRecord(l).flash
           Taken == rx # <<>> /\ CheckSRecord(Lines(1))
<1>2. \/ flash' = flash
      \/ Taken /\ l.t = 0 /\ flash' = [a \in Addresses |-> IF g[a] # flash[a] THEN Junk ELSE flash[a]]
      \/ /\ Taken /\ l.t = 3
         /\ \E s \in UnitStarts(l.addr, Len(l.data)) : flash' = WriteUpTo(flash, l.data, l.addr, s)
  BY DEF HalfDone
<1>3. CASE Taken /\ l.t = 0 /\ flash' = [a \in Addresses |-> IF g[a] # flash[a] THEN Junk ELSE flash[a]]
  <2>1. g = FlashEraseRegion(flash, FirmwareStartAddr, RegionSize) \/ g = flash
    BY <1>3 DEF ProcessSRecord
  <2> HIDE DEF g
  <2>2. FlashOk([a \in Addresses |-> IF g[a] # flash[a] THEN Junk ELSE flash[a]], image)
    BY <1>1, <2>1, HalfEraseKeeps
  <2>3. QED
    BY <2>2, <1>3
<1>4. CASE /\ Taken /\ l.t = 3
           /\ \E s \in UnitStarts(l.addr, Len(l.data)) : flash' = WriteUpTo(flash, l.data, l.addr, s)
  <2>1. 1 \in DOMAIN rx
    BY <1>1, <1>4
  <2>2. IsLine(l, image) /\ image # <<>>
    BY <1>4, <2>1, TakenRecord
  <2>3. QED
    BY <1>4, <2>2, RecordWritten
<1>5. QED
  BY <1>1, <1>2, <1>3, <1>4

(***************************************************************************)
(* Every step keeps the invariant.                                         *)
(***************************************************************************)
LEMMA FilesSame ==
  ASSUME UpgradeInv, UNCHANGED <<flash, image>>, rx' \in Seq(Arriving(image)), SenderInv',
         device' # "firmware" \/ device' = device
  PROVE  UpgradeInv'
BY DEF UpgradeInv, FlashOk, HeaderOk, OfImage, Made, Holds, Arriving, LinesOf

LEMMA BuildKeeps == UpgradeInv /\ Build => UpgradeInv'
<1>1. SUFFICES ASSUME UpgradeInv, Build PROVE UpgradeInv'
  OBVIOUS
<1>2. /\ image = <<>> /\ Made(image') /\ image' # <<>>
      /\ UNCHANGED <<flash, device, sender, pc, nLines, rx>>
  BY <1>1 DEF Build, Made, deviceVars, senderVars
<1>3. FlashOk(flash', image')
  BY <1>1, <1>2 DEF UpgradeInv, FlashOk, HeaderOk, OfImage
<1>4. device' = "firmware" => Holds(flash', image') \/ Holds(flash', Old)
  BY <1>1, <1>2 DEF UpgradeInv, Holds
<1>5. Arriving(image) \subseteq Arriving(image')
  <2>1. LinesOf(image) \subseteq LinesOf(image')
    BY <1>2 DEF LinesOf
  <2>2. QED
    BY <2>1 DEF Arriving
<1>6. rx' \in Seq(Arriving(image'))
  BY <1>1, <1>2, <1>5 DEF UpgradeInv
<1>7. SenderInv'
  BY <1>1, <1>2 DEF UpgradeInv, SenderInv
<1>8. QED
  BY <1>2, <1>3, <1>4, <1>6, <1>7 DEF UpgradeInv, Made

LEMMA DeviceKeeps == UpgradeInv /\ DeviceStep => UpgradeInv'
<1>1. SUFFICES ASSUME UpgradeInv, DeviceStep PROVE UpgradeInv'
  OBVIOUS
<1>2. /\ FlashOk(flash, image) /\ Made(image) /\ rx \in Seq(Arriving(image))
      /\ device = "firmware" => Holds(flash, image) \/ Holds(flash, Old)
  BY <1>1 DEF UpgradeInv
<1>3. UNCHANGED <<image, sender, pc, nLines>> /\ SenderInv'
  BY <1>1 DEF DeviceStep, Boot, BootloaderLine, BootloaderSplits, FirmwareReads, fileVars, senderVars,
              UpgradeInv, SenderInv
<1>4. CASE Boot
  <2>1. flash' = flash /\ rx' \in Seq(Arriving(image)) /\ (device' = "firmware" => KrnlPresent(flash))
    BY <1>4 DEF Boot
  <2>2. KrnlPresent(flash) => Holds(flash, image) \/ Holds(flash, Old)
    BY <1>2, BootsWhole
  <2>3. QED
    BY <1>2, <1>3, <2>1, <2>2 DEF UpgradeInv, FlashOk, HeaderOk, OfImage, Made, Holds, Arriving, LinesOf
<1>5. CASE BootloaderLine
  <2>1. /\ FlashOk(flash', image) /\ rx' \in Seq(Arriving(image))
        /\ device' = "firmware" => Holds(flash', image) \/ Holds(flash', Old)
    BY <1>1, <1>5, LineTaken
  <2>2. QED
    BY <1>2, <1>3, <2>1 DEF UpgradeInv, Made
<1>6. CASE BootloaderSplits
  <2>1. PICK k \in 1 .. Len(rx) - 1 :
          rx' = <<[rx[k + 1] EXCEPT !.line.defect = "char"]>> \o SubSeq(rx, k + 2, Len(rx))
    BY <1>6 DEF BootloaderSplits
  <2>2. "char" \in Defects /\ k + 1 \in DOMAIN rx
    BY <1>2 DEF Defects
  <2>3. [rx[k + 1] EXCEPT !.line.defect = "char"] \in Arriving(image)
    <3>1. rx[k + 1] \in Arriving(image)
      BY <1>2, <2>2
    <3>2. \A m \in Arriving(image) : [m EXCEPT !.line.defect = "char"] \in Arriving(image)
      BY <1>2, <2>2, ArrivingFacts
    <3>3. QED
      BY <3>1, <3>2
  <2>4. SubSeq(rx, k + 2, Len(rx)) \in Seq(Arriving(image))
    BY <1>2, <2>3, Queues
  <2>5. rx' \in Seq(Arriving(image))
    BY <2>1, <2>3, <2>4
  <2>6. QED
    BY <1>1, <1>3, <1>6, <2>5, FilesSame DEF BootloaderSplits, deviceVars
<1>7. CASE FirmwareReads
  <2>1. rx' \in Seq(Arriving(image))
    BY <1>2, <1>7, ArrivingFacts, Queues DEF FirmwareReads
  <2>2. flash' = flash /\ (device' # "firmware" \/ device' = device)
    BY <1>7 DEF FirmwareReads
  <2>3. QED
    BY <1>1, <1>3, <2>1, <2>2, FilesSame
<1>8. QED
  BY <1>1, <1>4, <1>5, <1>6, <1>7 DEF DeviceStep

LEMMA PowerKeeps == UpgradeInv /\ PowerFails => UpgradeInv'
<1>1. SUFFICES ASSUME UpgradeInv, PowerFails PROVE UpgradeInv'
  OBVIOUS
<1>2. /\ rx' \in Seq(Arriving(image)) /\ device' # "firmware" /\ flash' \in HalfDone
      /\ UNCHANGED <<image, sender, pc, nLines>>
  BY <1>1 DEF PowerFails, fileVars, senderVars
<1>3. FlashOk(flash', image)
  BY <1>1, <1>2, PowerCut
<1>4. SenderInv'
  BY <1>1, <1>2 DEF UpgradeInv, SenderInv
<1>5. QED
  BY <1>1, <1>2, <1>3, <1>4 DEF UpgradeInv, Made

\* A step of whoever sends: flash and the device are left alone, and only whole
\* lines of the image are added to what the device has not read.
LEMMA SenderKeeps ==
  UpgradeInv /\ (Start \/ Killed \/ ToolStep \/ DriverStep \/ DriverTimesOut \/ AnswerFails) => UpgradeInv'
<1>1. SUFFICES ASSUME UpgradeInv,
                      Start \/ Killed \/ ToolStep \/ DriverStep \/ DriverTimesOut \/ AnswerFails
               PROVE  UpgradeInv'
  OBVIOUS
<1>2. /\ Made(image) /\ rx \in Seq(Arriving(image)) /\ SenderInv
      /\ Probe \in Arriving(image) /\ Command \in Arriving(image)
      /\ \A i \in DOMAIN image : ARecord(image[i]) \in Arriving(image)
  BY <1>1, ArrivingFacts DEF UpgradeInv
<1>3. image # <<>> => Len(image) \in Nat /\ Len(image) >= 1 /\ DOMAIN image = 1 .. Len(image)
  BY <1>2, ImageLen
<1>4. UNCHANGED <<flash, device, image>>
  BY <1>1 DEF Start, Killed, ToolStep, ToolProbes, ToolListens, ToolSends, ToolReads, ReadsAnswer,
              DriverStep, DriverGreets, DriverParses, DriverTimesOut, AnswerFails, deviceVars, fileVars
<1>5. CASE Start
  <2>1. rx' \in Seq(Arriving(image))
    BY <1>2, <1>5, Queues DEF Start
  <2>2. SenderInv'
    BY <1>3, <1>4, <1>5 DEF Start, SenderInv
  <2>3. QED
    BY <1>1, <1>4, <2>1, <2>2, FilesSame
<1>6. CASE Killed \/ DriverTimesOut \/ AnswerFails \/ ToolListens
  <2>1. UNCHANGED <<rx, sender, nLines>> /\ (pc' # "idle" => pc # "idle")
    BY <1>6 DEF Killed, DriverTimesOut, AnswerFails, ToolListens, Ends, senderVars, boundVars
  <2>2. SenderInv'
    BY <1>2, <1>4, <2>1 DEF SenderInv
  <2>3. QED
    BY <1>1, <1>2, <1>4, <2>1, <2>2, FilesSame
<1>7. CASE ToolProbes
  <2>1. rx' \in Seq(Arriving(image))
    BY <1>2, <1>7, Arrival DEF ToolProbes
  <2>2. SenderInv'
    BY <1>2, <1>4, <1>7 DEF ToolProbes, SenderInv
  <2>3. QED
    BY <1>1, <1>4, <2>1, <2>2, FilesSame
<1>8. CASE ToolSends
  <2>1. nLines \in DOMAIN image
    BY <1>2, <1>3, <1>8 DEF ToolSends, SenderInv
  <2>2. rx' \in Seq(Arriving(image))
    BY <1>2, <1>8, <2>1, Arrival DEF ToolSends
  <2>3. SenderInv'
    BY <1>2, <1>4, <1>8 DEF ToolSends, SenderInv
  <2>4. QED
    BY <1>1, <1>4, <2>2, <2>3, FilesSame
<1>9. CASE ToolReads
  <2>1. /\ UNCHANGED <<rx, sender>> /\ sender = "tool" /\ pc = "wait"
        /\ \/ nLines' = nLines /\ pc' \in {"send", "idle"}
           \/ nLines' = nLines + 1 /\ (nLines = Len(image) => pc' = "idle")
    BY <1>9 DEF ToolReads, ReadsAnswer, Ends
  <2>2. /\ image # <<>> /\ nLines \in Nat /\ nLines >= 1 /\ nLines <= Len(image)
        /\ Len(image) \in Nat
    BY <1>2, <1>3, <2>1 DEF SenderInv
  <2>3. nLines' \in Nat /\ nLines' >= 1 /\ (pc' # "idle" => nLines' <= Len(image))
    BY <2>1, <2>2
  <2>4. SenderInv'
    BY <1>4, <2>2, <2>3 DEF SenderInv
  <2>5. QED
    BY <1>1, <1>2, <1>4, <2>1, <2>4, FilesSame
<1>10. CASE DriverGreets
  <2>1. rx' \in Seq(Arriving(image))
    BY <1>2, <1>10, Arrival DEF DriverGreets
  <2>2. SenderInv'
    BY <1>2, <1>4, <1>10 DEF DriverGreets, SenderInv
  <2>3. QED
    BY <1>1, <1>4, <2>1, <2>2, FilesSame
<1>11. CASE DriverParses
  <2>1. /\ sender' = sender /\ sender = "driver" /\ pc = "parse"
        /\ \/ UNCHANGED <<rx, nLines>>
           \/ ~(nLines > Len(image)) /\ Arrives(ARecord(image[nLines])) /\ nLines' = nLines + 1
    BY <1>11 DEF DriverParses
  <2>2. nLines' \in Nat /\ nLines' >= 1 /\ image # <<>>
    BY <1>2, <2>1 DEF SenderInv
  <2>3. SenderInv'
    BY <1>4, <2>1, <2>2 DEF SenderInv
  <2>4. ~(nLines > Len(image)) => nLines \in DOMAIN image
    BY <1>2, <1>3, <2>2 DEF SenderInv
  <2>5. rx' \in Seq(Arriving(image))
    BY <1>2, <2>1, <2>4, Arrival
  <2>6. QED
    BY <1>1, <1>4, <2>3, <2>5, FilesSame
<1>12. QED
  BY <1>1, <1>5, <1>6, <1>7, <1>8, <1>9, <1>10, <1>11 DEF ToolStep, DriverStep

LEMMA UpgradeStep == UpgradeInv /\ [UpgradeNext]_upgradeVars => UpgradeInv'
<1>1. SUFFICES ASSUME UpgradeInv, [UpgradeNext]_upgradeVars PROVE UpgradeInv'
  OBVIOUS
<1>2. CASE UNCHANGED upgradeVars
  BY <1>1, <1>2 DEF upgradeVars, deviceVars, fileVars, senderVars, UpgradeInv, SenderInv, FlashOk,
                    HeaderOk, OfImage, Made, Holds, Arriving, LinesOf
<1>3. CASE UpgradeNext
  BY <1>1, <1>3, BuildKeeps, DeviceKeeps, PowerKeeps, SenderKeeps DEF UpgradeNext
<1>4. QED
  BY <1>1, <1>2, <1>3

(***************************************************************************)
(* Whatever happens to the line, the power and the programs on either side *)
(* of it, whatever the linker made and however long its lines are, the     *)
(* firmware that runs is the old or the new one, whole, and the bootloader *)
(* is untouched.                                                           *)
(***************************************************************************)
THEOREM BootsWholeFirmware == UpgradeSpec => []BootsOnlyWhole
<1>1. UpgradeInv => BootsOnlyWhole
  BY DEF UpgradeInv, FlashOk, BootsOnlyWhole, Old
<1>2. QED
  BY <1>1, UpgradeStarts, UpgradeStep, PTL DEF UpgradeSpec
=============================================================================
