------------------------- MODULE HostCommands_proofs -------------------------
(***************************************************************************)
(* Proofs about HostCommands, for any commands, any bounds and any faults  *)
(* of the line: an overflow is reported once, commands are carried out in  *)
(* the order they were given, and what the host knows of the settings is   *)
(* so.                                                                     *)
(***************************************************************************)
EXTENDS HostCommands, SequenceTheorems, WellFoundedInduction, TLAPS

\* A report that was made is remembered until the host arms it again; what was
\* told is not told a second time.
ReportInv ==
  /\ report \in [Buses -> {0, 1, 2}] /\ told \in [Buses -> Nat]
  /\ \A b \in Buses : told[b] = 0 \/ (told[b] = 1 /\ report[b] = 2)

LEMMA InitReport == Init => ReportInv
  BY DEF Init, ReportInv, Zeros

\* A command reports what is due, and remembers it.
LEMMA DispatchReport ==
  ASSUME ReportInv, NEW cmd, NEW id, NEW data, NEW n, NEW code, NEW p,
         Dispatch(cmd, id, data, n, code, p)
  PROVE  ReportInv'
<1>1. CASE Rearms(cmd, data)
  <2>1. told' = [b \in Buses |-> 0] /\ report' = [b \in Buses |-> 0]
    BY <1>1 DEF Dispatch, Zeros
  <2> QED
    BY <2>1 DEF ReportInv
<1>2. CASE ~Rearms(cmd, data)
  <2>1. /\ report' = [b \in Buses |-> IF Due(b) THEN 2 ELSE report[b]]
        /\ told' = [b \in Buses |-> IF Due(b) /\ TxRoom - Len(txQueue) > 0
                                    THEN told[b] + 1 ELSE told[b]]
    BY <1>2 DEF Dispatch, AfterReport
  <2>2. report' \in [Buses -> {0, 1, 2}] /\ told' \in [Buses -> Nat]
    BY <2>1 DEF ReportInv
  <2>3. ASSUME NEW b \in Buses
        PROVE  told'[b] = 0 \/ (told'[b] = 1 /\ report'[b] = 2)
    <3>1. CASE Due(b)
      <4>1. told[b] = 0
        BY <3>1 DEF ReportInv, Due
      <4> QED
        BY <2>1, <3>1, <4>1
    <3>2. CASE ~Due(b)
      BY <2>1, <3>2 DEF ReportInv
    <3> QED
      BY <3>1, <3>2
  <2> QED
    BY <2>2, <2>3 DEF ReportInv, Buses
<1> QED
  BY <1>1, <1>2

LEMMA StepReport == ReportInv /\ [Next]_vars => ReportInv'
<1> SUFFICES ASSUME ReportInv, [Next]_vars PROVE ReportInv'
  OBVIOUS
<1>1. ASSUME UNCHANGED <<report, told>> PROVE ReportInv'
  BY <1>1 DEF ReportInv, Buses
<1>2. CASE Process232Packet
  <2>1. \/ UNCHANGED firmware
        \/ \E cmd, id, data, n, code, p : Dispatch(cmd, id, data, n, code, p)
    BY <1>2, Zenon DEF Process232Packet
  <2>2. CASE UNCHANGED firmware
    BY <1>1, <2>2 DEF firmware
  <2> QED
    BY <2>1, <2>2, DispatchReport
<1>3. CASE TakeTwo \/ Waits \/ Invalid
  BY <1>1, <1>3 DEF TakeTwo, Waits, Invalid, firmware
<1>4. CASE ByteArrives \/ ReceiveTimeout \/ LineFails
  BY <1>1, <1>4 DEF ByteArrives, ReceiveTimeout, LineFails, firmware
<1>5. CASE Traffic \/ \E b \in Buses : Overflow(b)
  BY <1>1, <1>5 DEF Traffic, Overflow, firmware
<1>6. CASE HostCommand \/ HostTimeout \/ HostReceives
  BY <1>1, <1>6 DEF HostCommand, HostTimeout, HostReceives, firmware
<1>7. CASE UNCHANGED vars
  BY <1>1, <1>7 DEF vars, firmware
<1> QED
  BY <1>2, <1>3, <1>4, <1>5, <1>6, <1>7 DEF Next, Parse

(***************************************************************************)
(* Whatever the line does, and however often queues overflow and commands  *)
(* are repeated, the overflow of a bus is reported at most once until the  *)
(* host arms the report again (can_overflow_report, j1708_overflow_report).*)
(***************************************************************************)
THEOREM OverflowReportedOnce == Spec => []OverflowToldOnce
<1>1. ReportInv => OverflowToldOnce
  BY DEF ReportInv, OverflowToldOnce
<1> QED
  BY <1>1, InitReport, StepReport, PTL DEF Spec

-------------------------------------------------------------------------------
\* Numbers and sequences.

\* The smaller and the larger of two numbers.
LEMMA MinMaxTwo ==
  ASSUME NEW a \in Int, NEW b \in Int
  PROVE  /\ Min({a, b}) = IF a <= b THEN a ELSE b
         /\ Max({a, b}) = IF a <= b THEN b ELSE a
<1> DEFINE m == IF a <= b THEN a ELSE b
           M == IF a <= b THEN b ELSE a
<1>1. \A x \in {a, b} : (\A y \in {a, b} : x <= y) <=> x = m  OBVIOUS
<1>2. \A x \in {a, b} : (\A y \in {a, b} : x >= y) <=> x = M  OBVIOUS
<1> QED BY <1>1, <1>2 DEF Min, Max

\* Some natural numbers have a smallest (the order of Nat is well-founded).
LEMMA MinNat ==
  ASSUME NEW T, T \subseteq Nat, T # {}
  PROVE  Min(T) \in T /\ \A y \in T : Min(T) <= y
<1> DEFINE R == OpToRel(<, Nat)
<1>1. IsWellFoundedOn(R, Nat)
  BY NatLessThanWellFounded
<1>2. \A i, j \in Nat : i < j => <<i, j>> \in R
  BY DEF OpToRel
<1> HIDE DEF R
<1>3. PICK x \in T : \A y \in T : ~(<<y, x>> \in R)
  BY <1>1, WFMin
<1>4. \A y \in T : ~(y < x)
  BY <1>2, <1>3
<1>5. \A y \in T : x <= y
  BY <1>4
<1> QED
  BY <1>5 DEF Min

\* The elements of a sequence.
LEMMA ToSetIs ==
  ASSUME NEW S, NEW s \in Seq(S)
  PROVE  ToSet(s) = {s[i] : i \in 1 .. Len(s)}
  BY DEF ToSet

\* Nothing behind a sequence.
LEMMA ConcatSimp == ASSUME NEW S, NEW s \in Seq(S) PROVE s \o <<>> = s
  OBVIOUS

-------------------------------------------------------------------------------
(***************************************************************************)
(* Commands are carried out in order.  What is on its way to the dispatcher*)
(* is in the parser's buffer, the port's queue and on the line; only the   *)
(* bytes of a checksum say which command they belong to, and these stay in *)
(* the order of the commands whatever is lost or damaged before them.  A   *)
(* packet is dispatched only behind its own checksum, and the id before it *)
(* is the one the checksum was taken over: an id that was seen is seen     *)
(* again as long as it is the last.                                        *)
(***************************************************************************)

\* Bytes: of numbers, of letters, and of checksums over such bytes.
Letters == {c.cmd : c \in Commands} \cup {"Init232", "ACK"}
Plain == ({"byte"} \X Int) \cup ({"letter"} \X Letters)
Bytes == Plain \cup ({"crc"} \X {1, 2} \X Seq(Plain) \X Nat)

\* A byte of the checksum of a command's packet, and what it was taken over.
OfCommand(x) == x[1] = "crc" /\ x[4] # 0
CmdOf(x) == x[3][3][2]
IdOf(x)  == x[3][4][2]

\* The last byte of a packet: a command waits in one place at most.
End(x) == OfCommand(x) /\ x[2] = 2

\* y, behind x, is of the same command or a later one.
Follows(keeps, x, y) ==
  OfCommand(x) /\ OfCommand(y) =>
    /\ x[4] <= y[4] /\ (keeps /\ x[4] = y[4] => IdOf(x) = IdOf(y))
    /\ ~(End(x) /\ End(y))
Before(keeps, S, T) == \A x \in S, y \in T : Follows(keeps, x, y)
InOrder(keeps, s) == \A i, j \in 1 .. Len(s) : i < j => Follows(keeps, s[i], s[j])

\* Buffer, queue and line are in order, each and one behind the other.
Order(keeps, b, r, l) ==
  /\ InOrder(keeps, b) /\ InOrder(keeps, r) /\ InOrder(keeps, l)
  /\ Before(keeps, ToSet(b), ToSet(r)) /\ Before(keeps, ToSet(b), ToSet(l))
  /\ Before(keeps, ToSet(r), ToSet(l))

\* The host keeps a command's id when it repeats it.
Keeps == ~host.newIds
\* Those that forget the last id when they are carried out.
Forgetful == {"Init232", "ResetQBridge"}
\* All bytes on their way to the dispatcher.
OnTheWay == ToSet(curPacketBuf) \cup ToSet(rxQueue) \cup ToSet(line)

\* A byte of a checksum was sent by the host; its command comes after those
\* carried out, or is seen to be the last of them.
Genuine(x) ==
  x[1] = "crc" =>
    /\ x[4] \in 0 .. host.n /\ CmdOf(x) \in Letters
    /\ x[4] = 0 => CmdOf(x) = "ACK"
    /\ x[4] # 0 /\ Keeps /\ x[4] = host.n => IdOf(x) = host.id
    /\ x[4] # 0 => \A i \in 1 .. Len(executed) :
         /\ executed[i].n <= x[4]
         /\ Keeps /\ executed[i].n = x[4] /\ executed[i].cmd \notin Forgetful
              => IdOf(x) = lastPacketID

\* What is carried out, and what the host starts with.
Executions == [n : Nat, cmd : Letters]
NoCommand == [cmd |-> "Init232", data |-> <<>>]
OrderType ==
  /\ line \in Seq(Bytes) /\ rxQueue \in Seq(Bytes) /\ curPacketBuf \in Seq(Bytes)
  /\ executed \in Seq(Executions)
  /\ host = [phase |-> host.phase, command |-> host.command, n |-> host.n, id |-> host.id,
             tries |-> host.tries, newIds |-> host.newIds, baud |-> host.baud]
  /\ host.n \in Nat /\ host.id \in Int /\ host.newIds \in BOOLEAN
  /\ host.command \in Commands \cup {NoCommand}
  /\ host.phase = "wait" => host.n # 0

\* What was carried out is not later than the host's command; if the host
\* repeats it, it is the one with the last id.
ExecutedInv ==
  \A i \in 1 .. Len(executed) :
    /\ executed[i].n <= host.n
    /\ Keeps /\ executed[i].n = host.n /\ executed[i].cmd \notin Forgetful
         => host.id = lastPacketID

OrderInv ==
  /\ OrderType
  /\ Order(Keeps, curPacketBuf, rxQueue, line)
  /\ \A x \in OnTheWay : Genuine(x)
  /\ ExecutedInv /\ ExecutedInOrder

-------------------------------------------------------------------------------
\* t stands in s.
Piece(t, s) ==
  \E k \in Nat : k + Len(t) <= Len(s) /\ \A i \in 1 .. Len(t) : t[i] = s[i + k]

\* What stands in a sequence has its elements, in its order.
LEMMA PieceFacts ==
  ASSUME NEW S, NEW s \in Seq(S), NEW t \in Seq(S), Piece(t, s), NEW keeps
  PROVE  ToSet(t) \subseteq ToSet(s) /\ (InOrder(keeps, s) => InOrder(keeps, t))
<1>1. PICK k \in Nat : k + Len(t) <= Len(s) /\ \A i \in 1 .. Len(t) : t[i] = s[i + k]
  BY DEF Piece
<1>2. Len(s) \in Nat /\ Len(t) \in Nat /\ DOMAIN s = 1 .. Len(s) /\ DOMAIN t = 1 .. Len(t)
  OBVIOUS
<1>3. \A i \in 1 .. Len(t) : i + k \in 1 .. Len(s)
  BY <1>1, <1>2
<1>4. ToSet(t) \subseteq ToSet(s)
  BY <1>1, <1>2, <1>3 DEF ToSet
<1>5. ASSUME InOrder(keeps, s), NEW i \in 1 .. Len(t), NEW j \in 1 .. Len(t), i < j
      PROVE  Follows(keeps, t[i], t[j])
  <2>1. i + k < j + k
    BY <1>1, <1>2, <1>5
  <2> QED
    BY <1>1, <1>3, <1>5, <2>1 DEF InOrder
<1> QED
  BY <1>4, <1>5 DEF InOrder

\* Pieces of a sequence: its beginning and its end; behind a cut comes what
\* was behind.
LEMMA CutFacts ==
  ASSUME NEW S, NEW s \in Seq(S), NEW n \in 0 .. Len(s), NEW keeps
  PROVE  /\ SubSeq(s, 1, n) \in Seq(S) /\ Piece(SubSeq(s, 1, n), s)
         /\ SubSeq(s, n + 1, Len(s)) \in Seq(S) /\ Piece(SubSeq(s, n + 1, Len(s)), s)
         /\ InOrder(keeps, s) =>
              Before(keeps, ToSet(SubSeq(s, 1, n)), ToSet(SubSeq(s, n + 1, Len(s))))
<1> DEFINE a == SubSeq(s, 1, n)
           b == SubSeq(s, n + 1, Len(s))
<1>1. Len(s) \in Nat
  OBVIOUS
<1>2. a \in Seq(S) /\ Len(a) = n /\ \A i \in 1 .. n : a[i] = s[i]
  BY <1>1, SubSeqProperties, LenProperties
<1>3. b \in Seq(S) /\ Len(b) = Len(s) - n /\ \A i \in 1 .. Len(s) - n : b[i] = s[n + i]
  <2>1. n + 1 \in Nat \ {0} /\ Len(s) \in 0 .. Len(s) /\ n + 1 <= Len(s) + 1
    BY <1>1
  <2>2. b \in Seq(S) /\ Len(b) = Len(s) - (n + 1) + 1
        /\ \A i \in 1 .. Len(s) - (n + 1) + 1 : b[i] = s[n + 1 + i - 1]
    BY <2>1, SubSeqProperties, LenProperties
  <2> QED
    BY <1>1, <2>2
<1> HIDE DEF a, b
<1>4. Piece(a, s)
  BY <1>1, <1>2 DEF Piece
<1>5. Piece(b, s)
  BY <1>1, <1>3 DEF Piece
<1>6. ASSUME InOrder(keeps, s), NEW x \in ToSet(a), NEW y \in ToSet(b)
      PROVE  Follows(keeps, x, y)
  <2>1. PICK i \in 1 .. n : x = s[i]
    BY <1>2 DEF ToSet
  <2>2. PICK j \in 1 .. Len(s) - n : y = s[n + j]
    BY <1>3 DEF ToSet
  <2>3. n + j \in 1 .. Len(s) /\ i \in 1 .. Len(s) /\ i < n + j
    BY <1>1
  <2> QED
    BY <1>6, <2>1, <2>2, <2>3 DEF InOrder
<1> QED
  BY <1>2, <1>3, <1>4, <1>5, <1>6 DEF a, b, Before

\* One sequence behind another.
LEMMA JoinFacts ==
  ASSUME NEW S, NEW s \in Seq(S), NEW t \in Seq(S), NEW keeps
  PROVE  /\ s \o t \in Seq(S) /\ ToSet(s \o t) = ToSet(s) \cup ToSet(t)
         /\ InOrder(keeps, s) /\ InOrder(keeps, t) /\ Before(keeps, ToSet(s), ToSet(t))
              => InOrder(keeps, s \o t)
<1>1. /\ s \o t \in Seq(S) /\ Len(s \o t) = Len(s) + Len(t)
      /\ Len(s) \in Nat /\ Len(t) \in Nat
      /\ \A i \in 1 .. Len(s) : (s \o t)[i] = s[i]
      /\ \A i \in 1 .. Len(t) : (s \o t)[Len(s) + i] = t[i]
  BY ConcatProperties, LenProperties
<1> DEFINE u == s \o t
<1> HIDE DEF u
<1>2. \A i \in 1 .. Len(u) : i \in 1 .. Len(s) \/ (i - Len(s) \in 1 .. Len(t) /\ Len(s) + (i - Len(s)) = i)
  BY <1>1 DEF u
<1>3. \A i \in 1 .. Len(u) : (i \in 1 .. Len(s) /\ u[i] = s[i])
                               \/ (i - Len(s) \in 1 .. Len(t) /\ u[i] = t[i - Len(s)])
  BY <1>1, <1>2 DEF u
<1>4. DOMAIN s = 1 .. Len(s) /\ DOMAIN t = 1 .. Len(t) /\ DOMAIN u = 1 .. Len(u)
  BY <1>1 DEF u
<1>5. ToSet(u) \subseteq ToSet(s) \cup ToSet(t)
  BY <1>3, <1>4 DEF ToSet
<1>6. ToSet(s) \subseteq ToSet(u)
  BY <1>1, <1>4 DEF ToSet, u
<1>7. \A i \in 1 .. Len(t) : Len(s) + i \in 1 .. Len(u) /\ u[Len(s) + i] = t[i]
  BY <1>1 DEF u
<1>8. ToSet(t) \subseteq ToSet(u)
  BY <1>4, <1>7 DEF ToSet
<1>9. ASSUME InOrder(keeps, s), InOrder(keeps, t), Before(keeps, ToSet(s), ToSet(t)),
             NEW i \in 1 .. Len(u), NEW j \in 1 .. Len(u), i < j
      PROVE  Follows(keeps, u[i], u[j])
  <2>1. CASE i \in 1 .. Len(s) /\ j \in 1 .. Len(s)
    BY <1>1, <1>9, <2>1 DEF InOrder, u
  <2>2. CASE i \in 1 .. Len(s) /\ j \notin 1 .. Len(s)
    <3>1. u[i] \in ToSet(s) /\ u[j] \in ToSet(t)
      BY <1>1, <1>3, <1>4, <2>2 DEF ToSet, u
    <3> QED
      BY <1>9, <3>1 DEF Before
  <2>3. CASE i \notin 1 .. Len(s)
    <3>1. i - Len(s) \in 1 .. Len(t) /\ j - Len(s) \in 1 .. Len(t) /\ i - Len(s) < j - Len(s)
      BY <1>1, <1>2, <1>9, <2>3
    <3>2. u[i] = t[i - Len(s)] /\ u[j] = t[j - Len(s)]
      BY <1>1, <1>2, <1>9, <2>3, <3>1 DEF u
    <3> QED
      BY <1>9, <3>1, <3>2 DEF InOrder
  <2> QED
    BY <2>1, <2>2, <2>3
<1> QED
  BY <1>1, <1>5, <1>6, <1>8, <1>9 DEF u, InOrder

\* Every parser step keeps a piece of the buffer and puts a part of the queue behind it.
LEMMA Moves ==
  ASSUME NEW S, NEW b \in Seq(S), NEW r \in Seq(S), NEW l, NEW keeps, Order(keeps, b, r, l),
         NEW c \in Seq(S), Piece(c, b), NEW n \in 0 .. Len(r)
  PROVE  /\ c \o SubSeq(r, 1, n) \in Seq(S) /\ SubSeq(r, n + 1, Len(r)) \in Seq(S)
         /\ Order(keeps, c \o SubSeq(r, 1, n), SubSeq(r, n + 1, Len(r)), l)
         /\ ToSet(c \o SubSeq(r, 1, n)) \cup ToSet(SubSeq(r, n + 1, Len(r)))
              \subseteq ToSet(b) \cup ToSet(r)
<1> DEFINE r1 == SubSeq(r, 1, n)
           r2 == SubSeq(r, n + 1, Len(r))
<1>1. /\ r1 \in Seq(S) /\ Piece(r1, r) /\ r2 \in Seq(S) /\ Piece(r2, r)
      /\ Before(keeps, ToSet(r1), ToSet(r2))
  BY CutFacts DEF Order
<1> HIDE DEF r1, r2
<1>2. /\ ToSet(r1) \subseteq ToSet(r) /\ InOrder(keeps, r1)
      /\ ToSet(r2) \subseteq ToSet(r) /\ InOrder(keeps, r2)
  BY <1>1, PieceFacts DEF Order
<1>3. ToSet(c) \subseteq ToSet(b) /\ InOrder(keeps, c)
  BY PieceFacts DEF Order
<1>4. Before(keeps, ToSet(c), ToSet(r1))
  BY <1>2, <1>3 DEF Order, Before
<1>5. /\ c \o r1 \in Seq(S) /\ ToSet(c \o r1) = ToSet(c) \cup ToSet(r1)
      /\ InOrder(keeps, c \o r1)
  BY <1>1, <1>2, <1>3, <1>4, JoinFacts
<1>6. /\ Before(keeps, ToSet(c \o r1), ToSet(r2)) /\ Before(keeps, ToSet(c \o r1), ToSet(l))
      /\ Before(keeps, ToSet(r2), ToSet(l))
  BY <1>1, <1>2, <1>3, <1>5 DEF Order, Before
<1> QED
  BY <1>1, <1>2, <1>3, <1>5, <1>6 DEF Order, r1, r2

\* All of a sequence, and nothing of it, stand in it.
LEMMA WholePiece ==
  ASSUME NEW S, NEW s \in Seq(S)
  PROVE  Piece(s, s) /\ Piece(<<>>, s) /\ <<>> \in Seq(S)
<1>1. Len(s) \in Nat /\ \A i \in 1 .. Len(s) : i + 0 = i
  OBVIOUS
<1>2. <<>> \in Seq(S) /\ Len(<<>>) = 0 /\ 1 .. 0 = {}
  OBVIOUS
<1>3. 0 \in Nat /\ 0 + Len(s) <= Len(s) /\ \A i \in 1 .. Len(s) : s[i] = s[i + 0]
  BY <1>1
<1>4. Piece(s, s)
  BY <1>3 DEF Piece
<1>5. 0 \in Nat /\ 0 + Len(<<>>) <= Len(s) /\ \A i \in 1 .. Len(<<>>) : <<>>[i] = s[i + 0]
  BY <1>1, <1>2
<1>6. Piece(<<>>, s)
  BY <1>5 DEF Piece
<1> QED
  BY <1>2, <1>4, <1>6

\* What is dropped in front.
LEMMA TailPiece ==
  ASSUME NEW S, NEW s \in Seq(S), s # <<>>
  PROVE  Tail(s) \in Seq(S) /\ Piece(Tail(s), s)
<1>1. /\ Len(s) \in Nat /\ Tail(s) \in Seq(S) /\ Len(Tail(s)) = Len(s) - 1
      /\ \A i \in 1 .. Len(Tail(s)) : Tail(s)[i] = s[i + 1]
  BY HeadTailProperties, LenProperties
<1> QED
  BY <1>1 DEF Piece

\* The search for STX drops bytes in front.
LEMMA FromStxPiece ==
  ASSUME NEW S, NEW s \in Seq(S)
  PROVE  FromStx(s) \in Seq(S) /\ Piece(FromStx(s), s)
<1> DEFINE at == {i \in DOMAIN s : s[i] = Stx}
<1>1. CASE at = {}
  BY <1>1, WholePiece DEF FromStx
<1>2. CASE at # {}
  <2>1. at \subseteq Nat /\ at \subseteq 1 .. Len(s)
    OBVIOUS
  <2>2. Min(at) \in 1 .. Len(s)
    BY <1>2, <2>1, MinNat
  <2>3. PICK n \in 0 .. Len(s) : Min(at) = n + 1
    <3>1. Min(at) - 1 \in 0 .. Len(s) /\ Min(at) = (Min(at) - 1) + 1
      BY <2>2
    <3> QED
      BY <3>1
  <2>4. FromStx(s) = SubSeq(s, n + 1, Len(s))
    BY <1>2, <2>3 DEF FromStx
  <2> QED
    BY <2>4, CutFacts
<1> QED
  BY <1>1, <1>2

\* The length a buffer claims to be is a number.
LEMMA SizeInt ==
  ASSUME NEW s \in Seq(Bytes), Len(s) >= 2
  PROVE  CurPacketSize(s) \in Int
<1>1. s[2] \in Bytes
  OBVIOUS
<1>2. s[2][1] = "byte" => s[2][2] \in Int
  BY <1>1 DEF Bytes, Plain
<1> QED
  BY <1>2 DEF CurPacketSize

\* What is taken of the queue is there.
LEMMA MissingFacts ==
  ASSUME NEW s \in Seq(Bytes), Len(s) >= 2, rxQueue \in Seq(Bytes)
  PROVE  /\ Missing(s) \in 0 .. Len(rxQueue)
         /\ Len(s) + Missing(s) >= CurPacketSize(s) \/ Missing(s) = Len(rxQueue)
<1>1. CurPacketSize(s) \in Int /\ Len(s) \in Nat /\ Len(rxQueue) \in Nat
  BY SizeInt
<1> DEFINE d == CurPacketSize(s) - Len(s)
<1>5. 0 \in Int /\ d \in Int
  BY <1>1
<1> HIDE DEF d
<1>2. Max({0, d}) = IF 0 <= d THEN d ELSE 0
  BY <1>5, MinMaxTwo
<1>3. Max({0, d}) \in Nat
  BY <1>2, <1>5
<1>4. Missing(s) = IF Len(rxQueue) <= Max({0, d}) THEN Len(rxQueue) ELSE Max({0, d})
  <2>1. Missing(s) = Min({Len(rxQueue), Max({0, d})})
    BY DEF Missing, d
  <2>2. Max({0, d}) \in Int /\ Len(rxQueue) \in Int
    BY <1>1, <1>3
  <2> QED
    BY <2>1, <2>2, MinMaxTwo
<1> QED
  BY <1>1, <1>2, <1>4, <1>5 DEF d

\* The bytes of a packet: those before the checksum are of no command's checksum.
LEMMA PacketFacts ==
  ASSUME NEW cmd \in Letters, NEW id \in Int, NEW data \in Seq(Octets), NEW n \in Nat
  PROVE  /\ Packet(cmd, id, data, n) \in Seq(Bytes)
         /\ \A x \in ToSet(Packet(cmd, id, data, n)) :
              x[1] = "crc" =>
                x[4] = n /\ CmdOf(x) = cmd /\ IdOf(x) = id /\ x[3] = PacketFront(cmd, id, data)
         /\ \A keeps : InOrder(keeps, Packet(cmd, id, data, n))
<1> DEFINE head == <<Stx, B(Len(data) + MinPacketSize), Letter(cmd), B(id)>>
           body == [i \in DOMAIN data |-> B(data[i])]
           front == head \o body
           crc == <<Crc(1, front, n), Crc(2, front, n)>>
<1>1. \A m \in Int : B(m) \in Plain
  BY DEF B, Plain
<1>2. Letter(cmd) \in Plain
  BY DEF Letter, Plain
<1>3. head \in Seq(Plain) /\ Len(head) = 4 /\ head[3] = Letter(cmd) /\ head[4] = B(id)
  <2>1. Len(data) + MinPacketSize \in Int
    BY DEF MinPacketSize
  <2>2. Stx \in Plain /\ B(Len(data) + MinPacketSize) \in Plain /\ B(id) \in Plain
    BY <1>1, <2>1 DEF Stx
  <2>3. \A a, b, c, d \in Plain : <<a, b, c, d>> \in Seq(Plain) /\ Len(<<a, b, c, d>>) = 4
                                /\ <<a, b, c, d>>[3] = c /\ <<a, b, c, d>>[4] = d
    <3> HIDE DEF Plain
    <3> QED OBVIOUS
  <2> HIDE DEF Plain
  <2> QED
    BY <1>2, <2>2, <2>3
<1>4. body \in Seq(Plain)
  <2>1. DOMAIN data = 1 .. Len(data) /\ Len(data) \in Nat
    OBVIOUS
  <2>2. \A i \in 1 .. Len(data) : B(data[i]) \in Plain
    <3>1. \A i \in 1 .. Len(data) : data[i] \in Octets
      OBVIOUS
    <3>2. \A o \in Octets : o \in Int
      BY DEF Octets
    <3> QED
      BY <1>1, <3>1, <3>2
  <2> HIDE DEF Plain
  <2> QED
    BY <2>1, <2>2
<1> HIDE DEF head, body
<1>5. /\ front \in Seq(Plain) /\ front[3] = Letter(cmd) /\ front[4] = B(id)
  <2>1. front \in Seq(Plain) /\ \A i \in 1 .. Len(head) : front[i] = head[i]
    <3>1. /\ front \in Seq(Plain)
          /\ \A i \in 1 .. Len(head) + Len(body) :
               front[i] = IF i <= Len(head) THEN head[i] ELSE body[i - Len(head)]
      BY <1>3, <1>4, ConcatProperties
    <3>2. Len(head) \in Nat /\ Len(body) \in Nat
      BY <1>3, <1>4, LenProperties
    <3> QED
      BY <3>1, <3>2
  <2> HIDE DEF front
  <2>3. 3 \in 1 .. Len(head) /\ 4 \in 1 .. Len(head)
    BY <1>3
  <2>2. front[3] = head[3] /\ front[4] = head[4]
    BY <2>3, <1>3, <2>1
  <2> QED
    BY <1>3, <2>1, <2>2
<1>6. Packet(cmd, id, data, n) = front \o crc /\ front = PacketFront(cmd, id, data)
  BY DEF Packet, PacketFront, head, body
<1> HIDE DEF front
<1>7. /\ Crc(1, front, n) \in Bytes /\ Crc(2, front, n) \in Bytes
  BY <1>5 DEF Crc, Bytes
<1>8. /\ crc \in Seq(Bytes) /\ ToSet(crc) = {Crc(1, front, n), Crc(2, front, n)}
      /\ Len(crc) = 2 /\ crc[1] = Crc(1, front, n) /\ crc[2] = Crc(2, front, n)
  <2>1. crc \in Seq(Bytes) /\ DOMAIN crc = {1, 2} /\ Len(crc) = 2
    BY <1>7
  <2> QED
    BY <2>1 DEF ToSet
<1>9. front \in Seq(Bytes) /\ ToSet(front) \subseteq Plain
  BY <1>5 DEF ToSet, Bytes
<1> HIDE DEF crc
<1>10. Packet(cmd, id, data, n) \in Seq(Bytes)
       /\ ToSet(Packet(cmd, id, data, n)) = ToSet(front) \cup ToSet(crc)
  <2>1. crc \in Seq(Bytes) /\ front \in Seq(Bytes)
    BY <1>8, <1>9
  <2>2. front \o crc \in Seq(Bytes) /\ ToSet(front \o crc) = ToSet(front) \cup ToSet(crc)
    BY <2>1, JoinFacts
  <2> QED
    BY <1>6, <2>2
<1>11. \A x \in Plain : x[1] # "crc"
  BY DEF Plain
<1>12. \A k \in {1, 2} : Crc(k, front, n)[4] = n /\ CmdOf(Crc(k, front, n)) = cmd
                         /\ IdOf(Crc(k, front, n)) = id /\ Crc(k, front, n)[3] = front
                         /\ Crc(k, front, n)[2] = k
  BY <1>5 DEF Crc, CmdOf, IdOf, Letter, B
<1>13. ASSUME NEW keeps PROVE InOrder(keeps, Packet(cmd, id, data, n))
  <2>1. \A x \in Plain : \A y : Follows(keeps, x, y)
    BY <1>11 DEF Follows, OfCommand
  <2>2. InOrder(keeps, front) /\ Before(keeps, ToSet(front), ToSet(crc))
    <3>1. \A i \in 1 .. Len(front) : front[i] \in Plain
      BY <1>5
    <3> QED
      BY <1>9, <2>1, <3>1 DEF InOrder, Before
  <2>3. Follows(keeps, Crc(1, front, n), Crc(2, front, n))
    BY <1>12 DEF Follows, End
  <2>4. InOrder(keeps, crc)
    <3>1. \A i, j \in 1 .. Len(crc) : i < j => i = 1 /\ j = 2
      BY <1>8
    <3> QED
      BY <1>8, <2>3, <3>1 DEF InOrder
  <2>5. crc \in Seq(Bytes) /\ front \in Seq(Bytes)
    BY <1>8, <1>9
  <2>6. InOrder(keeps, front \o crc)
    BY <2>2, <2>4, <2>5, JoinFacts
  <2> QED
    BY <1>6, <2>6
<1> QED
  BY <1>6, <1>8, <1>9, <1>10, <1>11, <1>12, <1>13

\* At the start nothing is on its way.
LEMMA InitOrder == Init => OrderInv
<1> SUFFICES ASSUME Init PROVE OrderInv
  OBVIOUS
<1>1. /\ line = <<>> /\ rxQueue = <<>> /\ curPacketBuf = <<>> /\ executed = <<>>
      /\ \E new \in BOOLEAN :
           host = [phase |-> "idle", command |-> NoCommand, n |-> 0, id |-> MaxID, tries |-> 0,
                   newIds |-> new, baud |-> CoolRate]
  BY DEF Init, NoCommand
<1>2. /\ <<>> \in Seq(Bytes) /\ <<>> \in Seq(Executions)
      /\ Len(<<>>) = 0 /\ DOMAIN <<>> = {} /\ 1 .. 0 = {} /\ ToSet(<<>>) = {}
  BY DEF ToSet
<1>3. OrderType
  BY <1>1, <1>2, CommandsAssumption DEF OrderType
<1>4. Order(Keeps, curPacketBuf, rxQueue, line) /\ OnTheWay = {}
  BY <1>1, <1>2 DEF Order, InOrder, Before, OnTheWay
<1>5. ExecutedInv /\ ExecutedInOrder
  BY <1>1, <1>2 DEF ExecutedInv, ExecutedInOrder
<1> QED
  BY <1>3, <1>4, <1>5 DEF OrderInv

\* What the host and the dispatcher know of the command is the same.
SameCommand ==
  /\ UNCHANGED <<executed, lastPacketID>>
  /\ host'.n = host.n /\ host'.id = host.id /\ host'.newIds = host.newIds

\* A byte that is of no command's checksum.
Harmless(x) == x[1] = "crc" => x[4] = 0 /\ CmdOf(x) = "ACK"

\* No byte of a command's checksum comes on its way.
Fewer == \A x \in OnTheWay' : x \in OnTheWay \/ Harmless(x)

\* Then what was carried out stays in order, and what was genuine is so.
LEMMA Unmoved ==
  ASSUME OrderInv, SameCommand
  PROVE  /\ Keeps' = Keeps /\ ExecutedInv' /\ ExecutedInOrder'
         /\ \A x \in OnTheWay : Genuine(x)'
         /\ \A x : Harmless(x) => Genuine(x)'
<1>1. Keeps' = Keeps
  BY DEF SameCommand, Keeps
<1>2. ExecutedInv'
  BY <1>1 DEF OrderInv, ExecutedInv, SameCommand
<1>3. ExecutedInOrder'
  BY DEF OrderInv, ExecutedInOrder, SameCommand
<1>4. \A x : Genuine(x) => Genuine(x)'
  BY <1>1 DEF Genuine, SameCommand
<1>5. \A x : Harmless(x) => Genuine(x)'
  BY DEF Harmless, Genuine, SameCommand, OrderInv, OrderType, Letters
<1> QED
  BY <1>1, <1>2, <1>3, <1>4, <1>5 DEF OrderInv

\* A step that only moves bytes.
LEMMA MovesKeep ==
  ASSUME OrderInv, SameCommand, OrderType',
         Fewer,
         Order(Keeps, curPacketBuf', rxQueue', line')
  PROVE  OrderInv' /\ Fewer
<1>1. /\ Keeps' = Keeps /\ ExecutedInv' /\ ExecutedInOrder'
      /\ \A x \in OnTheWay : Genuine(x)'
      /\ \A x : Harmless(x) => Genuine(x)'
  BY Unmoved
<1>2. \A x \in OnTheWay' : Genuine(x)'
  BY <1>1 DEF Fewer
<1>3. Order(Keeps, curPacketBuf, rxQueue, line)'
  BY <1>1
<1> QED
  BY <1>1, <1>2, <1>3 DEF OrderInv

\* A byte goes from the line to the queue, or is thrown away.
LEMMA ArriveOrder == OrderInv /\ ByteArrives => OrderInv' /\ Fewer
<1> SUFFICES ASSUME OrderInv, ByteArrives PROVE OrderInv' /\ Fewer
  OBVIOUS
<1> USE DEF OrderInv, OrderType
<1>1. SameCommand
  BY DEF ByteArrives, firmware, SameCommand
<1>2. line \in Seq(Bytes) /\ line # <<>> /\ line' = Tail(line) /\ curPacketBuf' = curPacketBuf
  BY DEF ByteArrives
<1>3. /\ Head(line) \in Bytes /\ Head(line) = line[1] /\ Len(line) \in Nat \ {0}
      /\ line' \in Seq(Bytes) /\ Piece(line', line)
      /\ Len(line') = Len(line) - 1
      /\ \A i \in 1 .. Len(line') : line'[i] = line[i + 1]
  BY <1>2, HeadTailProperties, LenProperties, TailPiece
<1>4. ToSet(line') \subseteq ToSet(line) /\ InOrder(Keeps, line')
  BY <1>3, PieceFacts DEF Order
<1>5. Head(line) \in ToSet(line) /\ Before(Keeps, {Head(line)}, ToSet(line'))
  <2>1. Head(line) \in ToSet(line)
    <3>1. 1 \in 1 .. Len(line)
      BY <1>3
    <3> QED
      BY <1>2, <1>3, <3>1, ToSetIs
  <2>2. ASSUME NEW y \in ToSet(line') PROVE Follows(Keeps, Head(line), y)
    <3>1. PICK i \in 1 .. Len(line') : y = line'[i]
      BY <1>3, ToSetIs
    <3>2. y = line[i + 1] /\ i + 1 \in 1 .. Len(line) /\ 1 \in 1 .. Len(line) /\ 1 < i + 1
      BY <1>3, <3>1
    <3> QED
      BY <1>3, <3>2 DEF Order, InOrder
  <2> QED
    BY <2>1, <2>2 DEF Before
<1>6. CASE rxQueue' = rxQueue
  <2>1. Order(Keeps, curPacketBuf', rxQueue', line')
    BY <1>2, <1>4, <1>6 DEF Order, Before
  <2>2. Fewer
    BY <1>2, <1>4, <1>6 DEF OnTheWay, Fewer
  <2>3. OrderType'
    BY <1>1, <1>2, <1>3, <1>6 DEF SameCommand, ByteArrives
  <2> HIDE DEF OrderInv
  <2> QED
    BY <1>1, <2>1, <2>2, <2>3, MovesKeep
<1>7. CASE rxQueue' = Append(rxQueue, Head(line))
  <2>1. rxQueue' = rxQueue \o <<Head(line)>> /\ <<Head(line)>> \in Seq(Bytes)
        /\ ToSet(<<Head(line)>>) = {Head(line)} /\ InOrder(Keeps, <<Head(line)>>)
    <3> DEFINE h == Head(line)
    <3> HIDE DEF h
    <3>1. \A s \in Seq(Bytes) : Append(s, h) = s \o <<h>>
      OBVIOUS
    <3>2. <<h>> \in Seq(Bytes) /\ DOMAIN <<h>> = {1} /\ <<h>>[1] = h /\ Len(<<h>>) = 1
      BY <1>3 DEF h
    <3>3. ToSet(<<h>>) = {h} /\ InOrder(Keeps, <<h>>)
      BY <3>2 DEF ToSet, InOrder
    <3> QED
      BY <1>7, <3>1, <3>2, <3>3 DEF h
  <2>2. Before(Keeps, ToSet(rxQueue), {Head(line)})
    BY <1>5 DEF Order, Before
  <2>3. /\ rxQueue' \in Seq(Bytes) /\ ToSet(rxQueue') = ToSet(rxQueue) \cup {Head(line)}
        /\ InOrder(Keeps, rxQueue')
    <3> DEFINE t == <<Head(line)>>
    <3>1. rxQueue \in Seq(Bytes) /\ InOrder(Keeps, rxQueue)
      BY DEF Order
    <3> HIDE DEF OrderInv, OrderType
    <3>2. /\ t \in Seq(Bytes) /\ InOrder(Keeps, t) /\ Before(Keeps, ToSet(rxQueue), ToSet(t))
          /\ rxQueue' = rxQueue \o t /\ ToSet(t) = {Head(line)}
      BY <2>1, <2>2
    <3> HIDE DEF t
    <3>3. /\ rxQueue \o t \in Seq(Bytes) /\ ToSet(rxQueue \o t) = ToSet(rxQueue) \cup ToSet(t)
          /\ InOrder(Keeps, rxQueue \o t)
      BY <3>1, <3>2, JoinFacts
    <3> QED
      BY <3>2, <3>3
  <2>4. Order(Keeps, curPacketBuf', rxQueue', line')
    BY <1>2, <1>4, <1>5, <2>3 DEF Order, Before
  <2>5. Fewer
    BY <1>2, <1>4, <1>5, <2>3 DEF OnTheWay, Fewer
  <2>6. OrderType'
    BY <1>1, <1>2, <1>3, <2>3 DEF SameCommand, ByteArrives
  <2> HIDE DEF OrderInv
  <2> QED
    BY <1>1, <2>4, <2>5, <2>6, MovesKeep
<1> QED
  BY <1>6, <1>7 DEF ByteArrives

\* The parser's steps: a piece of the buffer stays, with the beginning of the
\* queue behind it; something may be cut off in front.
LEMMA ParserMoves ==
  ASSUME OrderInv, SameCommand, host' = host, line' = line,
         NEW c \in Seq(Bytes), Piece(c, curPacketBuf), NEW k \in 0 .. Len(rxQueue),
         curPacketBuf' \in Seq(Bytes), Piece(curPacketBuf', c \o SubSeq(rxQueue, 1, k)),
         rxQueue' = SubSeq(rxQueue, k + 1, Len(rxQueue))
  PROVE  OrderInv' /\ Fewer
<1> USE DEF OrderInv, OrderType
<1>1. /\ c \o SubSeq(rxQueue, 1, k) \in Seq(Bytes) /\ rxQueue' \in Seq(Bytes)
      /\ Order(Keeps, c \o SubSeq(rxQueue, 1, k), rxQueue', line)
      /\ ToSet(c \o SubSeq(rxQueue, 1, k)) \cup ToSet(rxQueue')
           \subseteq ToSet(curPacketBuf) \cup ToSet(rxQueue)
  BY Moves
<1>2. /\ ToSet(curPacketBuf') \subseteq ToSet(c \o SubSeq(rxQueue, 1, k))
      /\ InOrder(Keeps, curPacketBuf')
  BY <1>1, PieceFacts DEF Order
<1>3. Order(Keeps, curPacketBuf', rxQueue', line')
  BY <1>1, <1>2 DEF Order, Before
<1>4. Fewer
  BY <1>1, <1>2 DEF OnTheWay, Fewer
<1>5. OrderType'
  BY <1>1 DEF SameCommand
<1> HIDE DEF OrderInv
<1> QED
  BY <1>3, <1>4, <1>5, MovesKeep

\* Two bytes go from the queue to the buffer.
LEMMA TakeOrder == OrderInv /\ TakeTwo => OrderInv' /\ Fewer
<1> SUFFICES ASSUME OrderInv, TakeTwo PROVE OrderInv' /\ Fewer
  OBVIOUS
<1>1. SameCommand /\ host' = host /\ line' = line
  BY DEF TakeTwo, SameCommand, firmware
<1>2. curPacketBuf \in Seq(Bytes) /\ rxQueue \in Seq(Bytes) /\ Len(rxQueue) \in Nat
  BY DEF OrderInv, OrderType
<1> DEFINE k == Min({2, Len(rxQueue)})
<1>3. k \in 0 .. Len(rxQueue)
  BY <1>2, MinMaxTwo
<1>4. /\ curPacketBuf' = curPacketBuf \o SubSeq(rxQueue, 1, k)
      /\ rxQueue' = SubSeq(rxQueue, k + 1, Len(rxQueue))
  BY DEF TakeTwo
<1> HIDE DEF k
<1>5. curPacketBuf' \in Seq(Bytes)
  BY <1>2, <1>3, <1>4, CutFacts, ConcatProperties, LenProperties
<1> QED
  BY <1>1, <1>2, <1>3, <1>4, <1>5, WholePiece, ParserMoves

\* The buffer is thrown away.
LEMMA TimeoutOrder == OrderInv /\ ReceiveTimeout => OrderInv' /\ Fewer
<1> SUFFICES ASSUME OrderInv, ReceiveTimeout PROVE OrderInv' /\ Fewer
  OBVIOUS
<1>1. /\ SameCommand /\ host' = host /\ line' = line /\ curPacketBuf' = <<>>
      /\ rxQueue' = rxQueue
  BY DEF ReceiveTimeout, SameCommand, firmware
<1>2. /\ OrderType' /\ ToSet(<<>>) = {} /\ InOrder(Keeps, <<>>)
  BY <1>1, WholePiece DEF OrderInv, OrderType, ToSet, InOrder, SameCommand
<1>3. Order(Keeps, curPacketBuf', rxQueue', line')
  BY <1>1, <1>2 DEF OrderInv, Order, Before
<1>4. Fewer
  BY <1>1, <1>2 DEF OnTheWay, Fewer
<1> QED
  BY <1>1, <1>2, <1>3, <1>4, MovesKeep

\* The buffer from its STX on, with what has come in of the rest.
LEMMA FilledFacts ==
  ASSUME OrderType
  PROVE  LET buf == FromStx(curPacketBuf)
         IN  /\ buf \in Seq(Bytes) /\ Piece(buf, curPacketBuf)
             /\ Len(buf) >= 2 =>
                  /\ Missing(buf) \in 0 .. Len(rxQueue)
                  /\ Filled(buf) = buf \o SubSeq(rxQueue, 1, Missing(buf))
                  /\ Filled(buf) \in Seq(Bytes)
<1> DEFINE buf == FromStx(curPacketBuf)
<1>1. buf \in Seq(Bytes) /\ Piece(buf, curPacketBuf)
  BY FromStxPiece DEF OrderType
<1> HIDE DEF buf
<1>2. ASSUME Len(buf) >= 2
      PROVE  /\ Missing(buf) \in 0 .. Len(rxQueue)
             /\ Filled(buf) = buf \o SubSeq(rxQueue, 1, Missing(buf))
             /\ Filled(buf) \in Seq(Bytes)
  <2>1. Missing(buf) \in 0 .. Len(rxQueue)
    BY <1>1, <1>2, MissingFacts DEF OrderType
  <2>2. Filled(buf) = buf \o SubSeq(rxQueue, 1, Missing(buf))
    BY DEF Filled
  <2>3. SubSeq(rxQueue, 1, Missing(buf)) \in Seq(Bytes)
    BY <2>1, CutFacts DEF OrderType
  <2> QED
    BY <1>1, <2>1, <2>2, <2>3, ConcatProperties, LenProperties
<1> QED
  BY <1>1, <1>2 DEF buf

\* The parser waits for the rest of a packet.
LEMMA WaitsOrder == OrderInv /\ Waits => OrderInv' /\ Fewer
<1> SUFFICES ASSUME OrderInv, Waits PROVE OrderInv' /\ Fewer
  OBVIOUS
<1> DEFINE buf == FromStx(curPacketBuf)
<1>1. SameCommand /\ host' = host /\ line' = line
  BY DEF Waits, SameCommand, firmware
<1>2. /\ IF Len(buf) < 2 THEN curPacketBuf' = buf /\ rxQueue' = rxQueue
         ELSE /\ curPacketBuf' = Filled(buf)
              /\ rxQueue' = SubSeq(rxQueue, Missing(buf) + 1, Len(rxQueue))
  BY DEF Waits
<1>3. /\ buf \in Seq(Bytes) /\ Piece(buf, curPacketBuf)
      /\ Len(buf) >= 2 =>
           /\ Missing(buf) \in 0 .. Len(rxQueue)
           /\ Filled(buf) = buf \o SubSeq(rxQueue, 1, Missing(buf))
           /\ Filled(buf) \in Seq(Bytes)
  BY FilledFacts DEF OrderInv
<1>4. rxQueue \in Seq(Bytes) /\ curPacketBuf \in Seq(Bytes)
  BY DEF OrderInv, OrderType
<1> HIDE DEF buf
<1>5. CASE Len(buf) < 2
  <2>1. /\ 0 \in 0 .. Len(rxQueue) /\ SubSeq(rxQueue, 1, 0) = <<>>
        /\ SubSeq(rxQueue, 0 + 1, Len(rxQueue)) = rxQueue /\ buf \o <<>> = buf
    BY <1>3, <1>4
  <2> QED
    BY <1>1, <1>2, <1>3, <1>5, <2>1, WholePiece, ParserMoves
<1>6. CASE Len(buf) >= 2
  <2>1. ~(Len(buf) < 2)
    BY <1>3, <1>6
  <2> QED
    BY <1>1, <1>2, <1>3, <1>6, <2>1, WholePiece, ParserMoves
<1> QED
  BY <1>3, <1>5, <1>6

\* A byte of no checksum in front disturbs no order.
LEMMA PlainInFront ==
  ASSUME NEW s \in Seq(Bytes), NEW x \in Bytes, x[1] # "crc", NEW keeps, InOrder(keeps, s)
  PROVE  /\ <<x>> \o s \in Seq(Bytes) /\ ToSet(<<x>> \o s) = {x} \cup ToSet(s)
         /\ InOrder(keeps, <<x>> \o s) /\ Harmless(x)
         /\ \A y : Follows(keeps, x, y) /\ Follows(keeps, y, x)
<1> DEFINE t == <<x>>
<1>1. t \in Seq(Bytes) /\ Len(t) = 1 /\ t[1] = x
  OBVIOUS
<1> HIDE DEF t
<1>2. ToSet(t) = {x} /\ InOrder(keeps, t)
  BY <1>1, ToSetIs DEF InOrder
<1>3. \A y : Follows(keeps, x, y) /\ Follows(keeps, y, x)
  BY DEF Follows, OfCommand
<1>4. Before(keeps, ToSet(t), ToSet(s))
  BY <1>2, <1>3 DEF Before
<1>5. t \o s \in Seq(Bytes) /\ ToSet(t \o s) = ToSet(t) \cup ToSet(s) /\ InOrder(keeps, t \o s)
  BY <1>1, <1>2, <1>4, JoinFacts
<1> QED
  BY <1>2, <1>3, <1>5 DEF t, Harmless

\* What looked like a packet is none: its first byte goes.
LEMMA InvalidOrder == OrderInv /\ Invalid => OrderInv' /\ Fewer
<1> SUFFICES ASSUME OrderInv, Invalid PROVE OrderInv' /\ Fewer
  OBVIOUS
<1> DEFINE buf  == FromStx(curPacketBuf)
           keep == SubSeq(rxQueue, 1, Missing(buf))
           rest == SubSeq(rxQueue, Missing(buf) + 1, Len(rxQueue))
<1>1. SameCommand /\ host' = host /\ line' = line
  BY DEF Invalid, SameCommand, firmware
<1>2. /\ Len(buf) >= 2 /\ curPacketBuf' = <<B(0)>> \o Tail(Filled(buf)) /\ rxQueue' = rest
  BY DEF Invalid, Complete
<1>3. /\ buf \in Seq(Bytes) /\ Piece(buf, curPacketBuf) /\ Missing(buf) \in 0 .. Len(rxQueue)
      /\ Filled(buf) = buf \o keep
  BY <1>2, FilledFacts DEF OrderInv
<1>4. rxQueue \in Seq(Bytes) /\ curPacketBuf \in Seq(Bytes)
      /\ Order(Keeps, curPacketBuf, rxQueue, line)
  BY DEF OrderInv, OrderType
<1> HIDE DEF buf
<1>5. /\ buf \o keep \in Seq(Bytes) /\ rest \in Seq(Bytes)
      /\ Order(Keeps, buf \o keep, rest, line)
      /\ ToSet(buf \o keep) \cup ToSet(rest) \subseteq ToSet(curPacketBuf) \cup ToSet(rxQueue)
  BY <1>3, <1>4, Moves
<1>6. keep \in Seq(Bytes)
  BY <1>3, <1>4, CutFacts
<1> HIDE DEF keep, rest
<1>7. buf \o keep # <<>>
  BY <1>2, <1>3, <1>6, ConcatProperties, LenProperties
<1> DEFINE tail == Tail(buf \o keep)
<1>8. tail \in Seq(Bytes) /\ Piece(tail, buf \o keep)
  BY <1>5, <1>7, TailPiece
<1> HIDE DEF tail
<1>9. ToSet(tail) \subseteq ToSet(buf \o keep) /\ InOrder(Keeps, tail)
  BY <1>5, <1>8, PieceFacts DEF Order
<1>10. B(0) \in Bytes /\ B(0)[1] # "crc"
  BY DEF B, Bytes, Plain
<1>11. /\ curPacketBuf' \in Seq(Bytes) /\ ToSet(curPacketBuf') = {B(0)} \cup ToSet(tail)
       /\ InOrder(Keeps, curPacketBuf') /\ Harmless(B(0))
       /\ \A y : Follows(Keeps, B(0), y)
  <2>1. curPacketBuf' = <<B(0)>> \o tail
    BY <1>2, <1>3 DEF tail
  <2> QED
    BY <1>8, <1>9, <1>10, <2>1, PlainInFront
<1>12. Order(Keeps, curPacketBuf', rxQueue', line')
  BY <1>1, <1>2, <1>5, <1>9, <1>11 DEF Order, Before
<1>13. Fewer
  BY <1>1, <1>2, <1>5, <1>9, <1>11 DEF OnTheWay, Fewer
<1>14. OrderType'
  BY <1>1, <1>2, <1>5, <1>11 DEF OrderInv, OrderType, SameCommand
<1> QED
  BY <1>1, <1>12, <1>13, <1>14, MovesKeep

\* The line loses a byte or changes it to one of no checksum.
LEMMA FailsOrder == OrderInv /\ LineFails => OrderInv' /\ Fewer
<1> SUFFICES ASSUME OrderInv, LineFails PROVE OrderInv' /\ Fewer
  OBVIOUS
<1>1. /\ SameCommand /\ host' = host /\ rxQueue' = rxQueue /\ curPacketBuf' = curPacketBuf
      /\ line \in Seq(Bytes) /\ Order(Keeps, curPacketBuf, rxQueue, line)
  BY DEF LineFails, SameCommand, firmware, parser, OrderInv, OrderType
<1>2. /\ line' \in Seq(Bytes) /\ InOrder(Keeps, line')
      /\ \A x \in ToSet(line') :
           x \in ToSet(line) \/ (Harmless(x) /\ \A y : Follows(Keeps, y, x))
  <2>1. CASE line # <<>> /\ line' \in {Tail(line)} \cup {<<x>> \o Tail(line) : x \in {Stx, B(100)}}
    <3> DEFINE tail == Tail(line)
    <3>1. tail \in Seq(Bytes) /\ Piece(tail, line)
      BY <1>1, <2>1, TailPiece
    <3> HIDE DEF tail
    <3>2. ToSet(tail) \subseteq ToSet(line) /\ InOrder(Keeps, tail)
      BY <1>1, <3>1, PieceFacts DEF Order
    <3>3. \A x \in {Stx, B(100)} : x \in Bytes /\ x[1] # "crc"
      BY DEF Stx, B, Bytes, Plain
    <3>4. CASE line' = tail
      BY <3>1, <3>2, <3>4
    <3>5. ASSUME NEW x \in {Stx, B(100)}, line' = <<x>> \o tail
          PROVE  /\ line' \in Seq(Bytes) /\ InOrder(Keeps, line')
                 /\ \A y \in ToSet(line') :
                      y \in ToSet(line) \/ (Harmless(y) /\ \A z : Follows(Keeps, z, y))
      <4>1. /\ <<x>> \o tail \in Seq(Bytes) /\ ToSet(<<x>> \o tail) = {x} \cup ToSet(tail)
            /\ InOrder(Keeps, <<x>> \o tail) /\ Harmless(x)
            /\ \A y : Follows(Keeps, y, x)
        BY <3>1, <3>2, <3>3, PlainInFront
      <4> QED
        BY <3>2, <3>5, <4>1
    <3> QED
      BY <2>1, <3>4, <3>5 DEF tail
  <2>2. CASE line' = line
    BY <1>1, <2>2 DEF Order
  <2> QED
    BY <2>1, <2>2 DEF LineFails
<1>3. Order(Keeps, curPacketBuf', rxQueue', line')
  BY <1>1, <1>2 DEF Order, Before
<1>4. Fewer
  BY <1>1, <1>2 DEF OnTheWay, Fewer
<1>5. OrderType'
  BY <1>1, <1>2 DEF OrderInv, OrderType, SameCommand
<1> QED
  BY <1>1, <1>3, <1>4, <1>5, MovesKeep

\* What the buses do, and what they send to the host, concerns no byte here.
LEMMA BusesOrder ==
  ASSUME OrderInv, UNCHANGED <<line, rxQueue, curPacketBuf, executed, lastPacketID, host>>
  PROVE  OrderInv' /\ Fewer
<1>1. OrderType' /\ OnTheWay' = OnTheWay /\ Fewer /\ SameCommand
  BY DEF OrderInv, OrderType, OnTheWay, Fewer, SameCommand
<1>2. Order(Keeps, curPacketBuf', rxQueue', line')
  BY DEF OrderInv
<1> QED
  BY <1>1, <1>2, MovesKeep

\* A packet is put on the line.
LEMMA SendsOrder ==
  ASSUME OrderInv, NEW cmd \in Letters, NEW id \in Int, NEW data \in Seq(Octets), NEW n \in Nat,
         rxQueue' = rxQueue, curPacketBuf' = curPacketBuf,
         line' = line \o Packet(cmd, id, data, n),
         \A x \in OnTheWay : OfCommand(x) => n = 0 \/ (x[4] \in Nat /\ x[4] < n /\ ~End(x))
  PROVE  /\ line' \in Seq(Bytes) /\ Order(Keeps, curPacketBuf', rxQueue', line')
         /\ \A x \in OnTheWay' :
              \/ x \in OnTheWay
              \/ x[1] # "crc"
              \/ /\ x[1] = "crc" /\ x[4] = n /\ CmdOf(x) = cmd /\ IdOf(x) = id
                 /\ x[3] = PacketFront(cmd, id, data)
<1> DEFINE packet == Packet(cmd, id, data, n)
<1>1. /\ packet \in Seq(Bytes)
      /\ \A x \in ToSet(packet) :
           x[1] = "crc" =>
             x[4] = n /\ CmdOf(x) = cmd /\ IdOf(x) = id /\ x[3] = PacketFront(cmd, id, data)
      /\ InOrder(Keeps, packet)
  <2>1. /\ Packet(cmd, id, data, n) \in Seq(Bytes)
        /\ \A x \in ToSet(Packet(cmd, id, data, n)) :
             x[1] = "crc" =>
               x[4] = n /\ CmdOf(x) = cmd /\ IdOf(x) = id /\ x[3] = PacketFront(cmd, id, data)
        /\ \A keeps : InOrder(keeps, Packet(cmd, id, data, n))
    BY PacketFacts, ZenonT(60)
  <2> QED
    BY <2>1
<1> HIDE DEF packet
<1>4. \A x \in OnTheWay, y \in ToSet(packet) : Follows(Keeps, x, y)
  BY <1>1 DEF Follows, OfCommand, End
<1>5. /\ line \in Seq(Bytes) /\ Order(Keeps, curPacketBuf, rxQueue, line)
  BY DEF OrderInv, OrderType
<1>6. Before(Keeps, ToSet(line), ToSet(packet))
  BY <1>4 DEF Before, OnTheWay
<1>7. /\ line \o packet \in Seq(Bytes) /\ ToSet(line \o packet) = ToSet(line) \cup ToSet(packet)
      /\ InOrder(Keeps, line \o packet)
  BY <1>1, <1>5, <1>6, JoinFacts DEF Order
<1>8. line' = line \o packet
  BY DEF packet
<1>9. Order(Keeps, curPacketBuf', rxQueue', line')
  BY <1>4, <1>5, <1>7, <1>8 DEF Order, Before, OnTheWay
<1>10. OnTheWay' = OnTheWay \cup ToSet(packet)
  BY <1>7, <1>8 DEF OnTheWay
<1> QED
  BY <1>1, <1>7, <1>8, <1>9, <1>10

\* A packet on its way that is there to its last byte is what the host waits for.
EndsAsked ==
  \A x \in OnTheWay : End(x) =>
    host.phase = "wait" /\ x[3] = PacketFront(host.command.cmd, host.id, host.command.data)

\* What the host knows of its commands.
LEMMA CommandTyped ==
  ASSUME NEW c \in Commands \cup {NoCommand}
  PROVE  c.cmd \in Letters /\ c.data \in Seq(Octets)
<1>1. CASE c \in Commands
  BY <1>1, CommandsAssumption DEF Letters
<1>2. CASE c = NoCommand
  <2>1. c.cmd = "Init232" /\ c.data = <<>>
    BY <1>2 DEF NoCommand
  <2>2. <<>> \in Seq(Octets)
    OBVIOUS
  <2> QED
    BY <2>1, <2>2 DEF Letters
<1> QED
  BY <1>1, <1>2

\* Ids are numbers.
LEMMA NextIDInt == ASSUME NEW id \in Int PROVE NextID(id) \in Int
  BY CommandsAssumption DEF NextID

\* The host gives a command: its number is larger than any before.
LEMMA CommandOrder ==
  ASSUME OrderInv, EndsAsked, HostCommand
  PROVE  OrderInv' /\ EndsAsked'
<1>1. PICK c \in Commands :
        /\ host' = [host EXCEPT !.phase = "wait", !.command = c, !.n = host.n + 1,
                                !.id = NextID(host.id), !.tries = 1]
        /\ line' = line \o Packet(c.cmd, NextID(host.id), c.data, host.n + 1)
  BY DEF HostCommand, Sends
<1>2. UNCHANGED <<rxQueue, curPacketBuf, executed, lastPacketID>>
  BY DEF HostCommand, parser, firmware
<1> DEFINE n == host.n + 1
           id == NextID(host.id)
<1>3. OrderType
  BY DEF OrderInv
<1>4. /\ host.n \in Nat /\ n \in Nat /\ n # 0 /\ host.n < n /\ id \in Int
      /\ c.cmd \in Letters /\ c.data \in Seq(Octets)
  BY <1>3, CommandTyped, NextIDInt DEF OrderType
<1>5. /\ host'.n = n /\ host'.id = id /\ host'.newIds = host.newIds /\ host'.phase = "wait"
      /\ host'.command = c /\ host'.tries = 1 /\ host'.baud = host.baud
      /\ host' = [phase |-> host'.phase, command |-> host'.command, n |-> host'.n,
                  id |-> host'.id, tries |-> host'.tries, newIds |-> host'.newIds,
                  baud |-> host'.baud]
  BY <1>1, <1>3 DEF OrderType
<1> HIDE DEF n, id
<1>6. \A x \in OnTheWay : x[1] = "crc" => x[4] \in Nat /\ x[4] < n
  BY <1>4 DEF OrderInv, Genuine
<1>7. line' = line \o Packet(c.cmd, id, c.data, n)
  BY <1>1 DEF n, id
<1>8. /\ line' \in Seq(Bytes) /\ Order(Keeps, curPacketBuf', rxQueue', line')
      /\ \A x \in OnTheWay' :
           \/ x \in OnTheWay
           \/ x[1] # "crc"
           \/ /\ x[1] = "crc" /\ x[4] = n /\ CmdOf(x) \in Letters /\ IdOf(x) = id
              /\ x[3] = PacketFront(c.cmd, id, c.data)
  <2> DEFINE cmd == c.cmd
             data == c.data
  <2>1. cmd \in Letters /\ id \in Int /\ data \in Seq(Octets) /\ n \in Nat
    BY <1>4
  <2>2. rxQueue' = rxQueue /\ curPacketBuf' = curPacketBuf
    BY <1>2
  <2>3. line' = line \o Packet(cmd, id, data, n)
    BY <1>7
  <2>4. \A x \in OnTheWay : OfCommand(x) => n = 0 \/ (x[4] \in Nat /\ x[4] < n /\ ~End(x))
    <3>1. host.phase = "idle"
      BY DEF HostCommand
    <3> QED
      BY <1>6, <3>1 DEF OfCommand, EndsAsked
  <2> HIDE DEF cmd, data
  <2>5. /\ line' \in Seq(Bytes) /\ Order(Keeps, curPacketBuf', rxQueue', line')
        /\ \A x \in OnTheWay' :
             \/ x \in OnTheWay
             \/ x[1] # "crc"
             \/ /\ x[1] = "crc" /\ x[4] = n /\ CmdOf(x) = cmd /\ IdOf(x) = id
                /\ x[3] = PacketFront(cmd, id, data)
    BY <2>1, <2>2, <2>3, <2>4, SendsOrder
  <2> QED
    BY <2>1, <2>5 DEF cmd, data
<1>9. Keeps' = Keeps
  BY <1>5 DEF Keeps
<1>10. OrderType'
  BY <1>2, <1>3, <1>4, <1>5, <1>8 DEF OrderType
<1>11. ExecutedInOrder'
  BY <1>2, <1>5 DEF OrderInv, ExecutedInOrder
<1>12. \A i \in 1 .. Len(executed) : executed[i].n \in Nat /\ executed[i].n < n
  <2>1. \A i \in 1 .. Len(executed) : executed[i] \in Executions
    BY <1>3 DEF OrderType
  <2>2. \A i \in 1 .. Len(executed) : executed[i].n \in Nat /\ executed[i].n <= host.n
    BY <2>1 DEF OrderInv, ExecutedInv, Executions
  <2> QED
    BY <1>4, <2>2
<1>13. ExecutedInv'
  BY <1>2, <1>4, <1>5, <1>12 DEF ExecutedInv
<1>14. ASSUME NEW x \in OnTheWay' PROVE Genuine(x)'
  <2>1. CASE x[1] # "crc"
    BY <2>1 DEF Genuine
  <2>2. CASE x[1] = "crc" /\ x[4] = n /\ CmdOf(x) \in Letters /\ IdOf(x) = id
    BY <1>2, <1>4, <1>5, <1>12, <2>2 DEF Genuine
  <2>3. CASE x \in OnTheWay /\ x[1] = "crc"
    <3>1. x[4] \in Nat /\ x[4] < n /\ Genuine(x)
      BY <1>6, <2>3 DEF OrderInv
    <3> QED
      BY <1>2, <1>4, <1>5, <1>9, <2>3, <3>1 DEF Genuine
  <2> QED
    BY <1>8, <2>1, <2>2, <2>3
<1>15. Order(Keeps, curPacketBuf, rxQueue, line)'
  BY <1>8, <1>9
<1>16. EndsAsked'
  <2>1. \A x \in OnTheWay : ~End(x)
    BY DEF EndsAsked, HostCommand
  <2> QED
    BY <1>5, <1>8, <2>1 DEF EndsAsked, End, OfCommand
<1> QED
  BY <1>10, <1>11, <1>13, <1>14, <1>15, <1>16 DEF OrderInv

\* It repeats one into silence: nothing else is on its way.
LEMMA RepeatOrder == OrderInv /\ HostTimeout => OrderInv' /\ EndsAsked'
<1> SUFFICES ASSUME OrderInv, HostTimeout PROVE OrderInv' /\ EndsAsked'
  OBVIOUS
<1>1. UNCHANGED <<rxQueue, curPacketBuf, executed, lastPacketID>> /\ host.phase = "wait"
  BY DEF HostTimeout, parser, firmware
<1>2. OrderType
  BY DEF OrderInv
<1>3. CASE host.tries < MaxTries
  <2> DEFINE id == IF host.newIds THEN NextID(host.id) ELSE host.id
             n == host.n
             cmd == host.command.cmd
             data == host.command.data
  <2>1. /\ host' = [host EXCEPT !.tries = host.tries + 1, !.id = id]
        /\ line' = line \o Packet(cmd, id, data, n)
    BY <1>3 DEF HostTimeout, Sends
  <2>2. /\ host.n = n /\ n \in Nat /\ n # 0 /\ id \in Int /\ (Keeps => id = host.id)
        /\ cmd \in Letters /\ data \in Seq(Octets)
    BY <1>1, <1>2, CommandTyped, NextIDInt DEF OrderType, Keeps
  <2>3. /\ host'.n = host.n /\ host'.id = id /\ host'.newIds = host.newIds
        /\ host'.phase = host.phase /\ host'.command = host.command
        /\ host' = [phase |-> host'.phase, command |-> host'.command, n |-> host'.n,
                    id |-> host'.id, tries |-> host'.tries, newIds |-> host'.newIds,
                    baud |-> host'.baud]
    BY <1>2, <2>1 DEF OrderType
  <2> HIDE DEF id, cmd, data, n
  <2>4. OnTheWay = {}
    <3>1. line = <<>> /\ rxQueue = <<>> /\ curPacketBuf = <<>>
      BY DEF HostTimeout, Silence
    <3> QED
      BY <3>1 DEF OnTheWay, ToSet
  <2>5. /\ line' \in Seq(Bytes) /\ Order(Keeps, curPacketBuf', rxQueue', line')
        /\ \A x \in OnTheWay' :
             \/ x[1] # "crc"
             \/ /\ x[1] = "crc" /\ x[4] = n /\ CmdOf(x) \in Letters /\ IdOf(x) = id
                /\ x[3] = PacketFront(cmd, id, data)
    <3>1. line' = line \o Packet(cmd, id, data, n)
      BY <2>1
    <3>2. \A x \in OnTheWay : OfCommand(x) => n = 0 \/ (x[4] \in Nat /\ x[4] < n /\ ~End(x))
      BY <2>4
    <3>3. /\ line' \in Seq(Bytes) /\ Order(Keeps, curPacketBuf', rxQueue', line')
          /\ \A x \in OnTheWay' :
               \/ x \in OnTheWay
               \/ x[1] # "crc"
               \/ /\ x[1] = "crc" /\ x[4] = n /\ CmdOf(x) = cmd /\ IdOf(x) = id
                  /\ x[3] = PacketFront(cmd, id, data)
      <4>1. cmd \in Letters /\ id \in Int /\ data \in Seq(Octets) /\ n \in Nat
        BY <2>2
      <4>2. rxQueue' = rxQueue /\ curPacketBuf' = curPacketBuf
        BY <1>1
      <4> QED
        BY <4>1, <4>2, <3>1, <3>2, SendsOrder
    <3> QED
      BY <2>2, <2>4, <3>3
  <2>6. Keeps' = Keeps
    BY <2>3 DEF Keeps
  <2>7. OrderType'
    BY <1>1, <1>2, <2>2, <2>3, <2>5 DEF OrderType
  <2>8. ExecutedInOrder'
    BY <1>1, <2>3 DEF OrderInv, ExecutedInOrder
  <2>9. ExecutedInv'
    BY <1>1, <2>2, <2>3, <2>6 DEF OrderInv, ExecutedInv
  <2>10. ASSUME NEW x \in OnTheWay' PROVE Genuine(x)'
    <3>1. CASE x[1] # "crc"
      BY <3>1 DEF Genuine
    <3>2. CASE x[1] = "crc" /\ x[4] = n /\ CmdOf(x) \in Letters /\ IdOf(x) = id
      BY <1>1, <2>2, <2>3, <2>6, <3>2 DEF OrderInv, ExecutedInv, Genuine
    <3> QED
      BY <2>5, <3>1, <3>2
  <2>11. Order(Keeps, curPacketBuf, rxQueue, line)'
    BY <2>5, <2>6
  <2>12. EndsAsked'
    BY <1>1, <2>3, <2>5 DEF EndsAsked, End, OfCommand, cmd, data
  <2> QED
    BY <2>7, <2>8, <2>9, <2>10, <2>11, <2>12 DEF OrderInv
<1>4. CASE ~(host.tries < MaxTries)
  <2>1. host' = [host EXCEPT !.phase = "idle"] /\ line' = line
    BY <1>4 DEF HostTimeout
  <2>2. /\ host'.n = host.n /\ host'.id = host.id /\ host'.newIds = host.newIds
        /\ host'.phase = "idle" /\ host'.command = host.command
        /\ host' = [phase |-> host'.phase, command |-> host'.command, n |-> host'.n,
                    id |-> host'.id, tries |-> host'.tries, newIds |-> host'.newIds,
                    baud |-> host'.baud]
    BY <1>2, <2>1 DEF OrderType
  <2>3. OrderType' /\ OnTheWay' = OnTheWay /\ SameCommand
    BY <1>1, <1>2, <2>1, <2>2 DEF OrderType, OnTheWay, SameCommand
  <2>4. Order(Keeps, curPacketBuf', rxQueue', line')
    BY <1>1, <2>1 DEF OrderInv
  <2>5. OnTheWay = {}
    <3>1. line = <<>> /\ rxQueue = <<>> /\ curPacketBuf = <<>>
      BY DEF HostTimeout, Silence
    <3> QED
      BY <3>1 DEF OnTheWay, ToSet
  <2>6. Fewer
    BY <2>3 DEF Fewer
  <2> QED
    BY <2>3, <2>4, <2>5, <2>6, MovesKeep DEF EndsAsked
<1> QED
  BY <1>3, <1>4

\* It receives an answer, and acknowledges a packet of the buses.
LEMMA ReceivesOrder == OrderInv /\ HostReceives => OrderInv' /\ Fewer
<1> SUFFICES ASSUME OrderInv, HostReceives PROVE OrderInv' /\ Fewer
  OBVIOUS
<1>1. /\ UNCHANGED <<rxQueue, curPacketBuf, executed, lastPacketID>>
      /\ line' = line \o IF Head(txQueue).code = "packet" THEN Packet("ACK", 1, <<48>>, 0) ELSE <<>>
  BY DEF HostReceives, parser, firmware
<1>2. OrderType
  BY DEF OrderInv
<1>3. /\ host'.n = host.n /\ host'.id = host.id /\ host'.newIds = host.newIds
      /\ host'.phase \in {host.phase, "idle"} /\ host'.command = host.command
      /\ host' = [phase |-> host'.phase, command |-> host'.command, n |-> host'.n,
                  id |-> host'.id, tries |-> host'.tries, newIds |-> host'.newIds,
                  baud |-> host'.baud]
  <2>1. \/ host' = host
        \/ \E b : host' = [host EXCEPT !.phase = "idle", !.baud = b]
    BY Zenon DEF HostReceives
  <2> QED
    BY <1>2, <2>1 DEF OrderType
<1>4. SameCommand
  BY <1>1, <1>3 DEF SameCommand
<1>5. /\ line' \in Seq(Bytes) /\ Order(Keeps, curPacketBuf', rxQueue', line')
      /\ Fewer
  <2>1. CASE Head(txQueue).code = "packet"
    <3> DEFINE cmd == "ACK"
               id == 1
               data == <<48>>
               n == 0
    <3>1. /\ cmd \in Letters /\ id \in Int /\ n \in Nat /\ n = 0 /\ cmd = "ACK"
      BY DEF Letters
    <3>2. data \in Seq(Octets)
      BY DEF Octets
    <3>3. line' = line \o Packet(cmd, id, data, n)
      BY <1>1, <2>1
    <3> HIDE DEF cmd, id, data, n
    <3>4. /\ line' \in Seq(Bytes) /\ Order(Keeps, curPacketBuf', rxQueue', line')
          /\ \A x \in OnTheWay' :
               \/ x \in OnTheWay
               \/ x[1] # "crc"
               \/ x[1] = "crc" /\ x[4] = n /\ CmdOf(x) = cmd
      <4>1. \A x \in OnTheWay : OfCommand(x) => n = 0 \/ (x[4] \in Nat /\ x[4] < n /\ ~End(x))
        BY <3>1
      <4>2. rxQueue' = rxQueue /\ curPacketBuf' = curPacketBuf
        BY <1>1
      <4>3. /\ line' \in Seq(Bytes) /\ Order(Keeps, curPacketBuf', rxQueue', line')
            /\ \A x \in OnTheWay' :
                 \/ x \in OnTheWay
                 \/ x[1] # "crc"
                 \/ /\ x[1] = "crc" /\ x[4] = n /\ CmdOf(x) = cmd /\ IdOf(x) = id
                    /\ x[3] = PacketFront(cmd, id, data)
        <5>1. cmd \in Letters /\ id \in Int /\ data \in Seq(Octets) /\ n \in Nat
          BY <3>1, <3>2
        <5>2. line' = line \o Packet(cmd, id, data, n)
          BY <3>3
        <5> QED
          BY <5>1, <5>2, <4>1, <4>2, SendsOrder
      <4> QED
        BY <4>3
    <3> QED
      BY <3>1, <3>4 DEF Harmless, Fewer
  <2>2. CASE Head(txQueue).code # "packet"
    <3>1. line' = line
      BY <1>1, <1>2, <2>2, ConcatSimp DEF OrderType
    <3> QED
      BY <1>1, <1>2, <3>1 DEF OrderInv, OrderType, OnTheWay, Fewer
  <2> QED
    BY <2>1, <2>2
<1>6. OrderType'
  BY <1>1, <1>2, <1>3, <1>5 DEF OrderType
<1> QED
  BY <1>4, <1>5, <1>6, MovesKeep

\* What was carried out is not later than a byte on its way.
LEMMA NotLater ==
  ASSUME OrderInv, NEW x \in OnTheWay, x[1] = "crc", x[4] # 0, IdOf(x) # lastPacketID
  PROVE  /\ x[4] \in Nat /\ x[4] <= host.n /\ host.n \in Nat
         /\ \A i \in 1 .. Len(executed) :
              /\ executed[i].n \in Nat /\ executed[i].n <= x[4]
              /\ Keeps /\ executed[i].n = x[4] => executed[i].cmd \in Forgetful
<1>1. Genuine(x) /\ OrderType
  BY DEF OrderInv
<1>2. \A i \in 1 .. Len(executed) : executed[i] \in Executions
  BY <1>1 DEF OrderType
<1> QED
  BY <1>1, <1>2 DEF Genuine, OrderType, Executions

\* A command is dispatched whose checksum ends with x.
LEMMA Dispatched ==
  ASSUME OrderInv, host' = host,
         NEW x \in OnTheWay, x[1] = "crc", CmdOf(x) # "ACK", IdOf(x) # lastPacketID, NEW code,
         executed' = IF code = "OK" THEN Append(executed, [n |-> x[4], cmd |-> CmdOf(x)])
                     ELSE executed,
         lastPacketID' = IF CmdOf(x) \in Forgetful THEN -1 ELSE IdOf(x)
  PROVE  /\ executed' \in Seq(Executions) /\ Keeps' = Keeps
         /\ ExecutedInv' /\ ExecutedInOrder'
         /\ \A y \in OnTheWay : Follows(Keeps, x, y) => Genuine(y)'
<1> DEFINE e == [n |-> x[4], cmd |-> CmdOf(x)]
           len == Len(executed)
<1>1. Genuine(x) /\ OrderType /\ Keeps' = Keeps
  BY DEF OrderInv, Keeps
<1>2. x[4] # 0
  BY <1>1 DEF Genuine
<1>3. /\ x[4] \in Nat /\ x[4] <= host.n /\ host.n \in Nat
      /\ \A i \in 1 .. len :
           /\ executed[i].n \in Nat /\ executed[i].n <= x[4]
           /\ Keeps /\ executed[i].n = x[4] => executed[i].cmd \in Forgetful
  BY <1>2, NotLater
<1>4. e \in Executions /\ e.n = x[4] /\ e.cmd = CmdOf(x)
  BY <1>1, <1>3 DEF Genuine, Executions
<1>5. executed \in Seq(Executions) /\ len \in Nat
  BY <1>1 DEF OrderType
<1>6. /\ executed' \in Seq(Executions) /\ Len(executed') \in {len, len + 1}
      /\ \A i \in 1 .. len : executed'[i] = executed[i]
      /\ \A i \in 1 .. Len(executed') : i \in 1 .. len \/ (i = len + 1 /\ executed'[i] = e)
  <2>1. executed' = Append(executed, e) \/ executed' = executed
    OBVIOUS
  <2> HIDE DEF e
  <2>2. CASE executed' = executed
    BY <1>5, <2>2
  <2>3. CASE executed' = Append(executed, e)
    <3>1. /\ Append(executed, e) \in Seq(Executions) /\ Len(Append(executed, e)) = len + 1
          /\ \A i \in 1 .. len : Append(executed, e)[i] = executed[i]
          /\ Append(executed, e)[len + 1] = e
      BY <1>4, <1>5, AppendProperties, LenProperties
    <3> QED
      BY <1>5, <2>3, <3>1
  <2> QED
    BY <2>1, <2>2, <2>3
<1> HIDE DEF e, len
<1>7. DOMAIN executed = 1 .. len /\ DOMAIN executed' = 1 .. Len(executed')
  BY <1>5, <1>6 DEF len
<1>8. ExecutedInOrder'
  <2> SUFFICES ASSUME NEW i \in 1 .. Len(executed'), NEW j \in 1 .. Len(executed'), i < j
               PROVE  /\ executed'[i].n <= executed'[j].n
                      /\ Keeps /\ executed'[i].n = executed'[j].n
                           => executed'[i].cmd \in Forgetful
    BY <1>1, <1>7 DEF ExecutedInOrder, Forgetful, Keeps
  <2>1. i \in 1 .. len
    BY <1>5, <1>6
  <2>2. CASE j \in 1 .. len
    <3>1. i \in DOMAIN executed /\ j \in DOMAIN executed
      BY <1>7, <2>1, <2>2
    <3> QED
      BY <1>6, <2>1, <2>2, <3>1 DEF OrderInv, ExecutedInOrder, Forgetful, Keeps
  <2>3. CASE executed'[j] = e
    BY <1>3, <1>4, <1>6, <2>1, <2>3
  <2> QED
    BY <1>6, <2>2, <2>3
<1>9. ExecutedInv'
  <2> SUFFICES ASSUME NEW i \in 1 .. Len(executed')
               PROVE  /\ executed'[i].n <= host.n
                      /\ Keeps /\ executed'[i].n = host.n /\ executed'[i].cmd \notin Forgetful
                           => host.id = lastPacketID'
    BY <1>1 DEF ExecutedInv
  <2>1. CASE i \in 1 .. len
    BY <1>3, <1>6, <2>1
  <2>2. CASE executed'[i] = e
    BY <1>1, <1>2, <1>3, <1>4, <2>2 DEF Genuine
  <2> QED
    BY <1>6, <2>1, <2>2
<1>10. ASSUME NEW y \in OnTheWay, Follows(Keeps, x, y) PROVE Genuine(y)'
  <2>1. Genuine(y)
    BY DEF OrderInv
  <2>2. CASE y[1] # "crc" \/ y[4] = 0
    BY <1>1, <2>1, <2>2 DEF Genuine
  <2>3. CASE y[1] = "crc" /\ y[4] # 0
    <3>1. x[4] <= y[4] /\ (Keeps /\ x[4] = y[4] => IdOf(x) = IdOf(y)) /\ y[4] \in Nat
      BY <1>2, <1>3, <1>10, <2>1, <2>3 DEF Follows, OfCommand, Genuine
    <3>2. ASSUME NEW i \in 1 .. Len(executed')
          PROVE  /\ executed'[i].n <= y[4]
                 /\ Keeps /\ executed'[i].n = y[4] /\ executed'[i].cmd \notin Forgetful
                      => IdOf(y) = lastPacketID'
      <4>1. CASE i \in 1 .. len
        BY <1>3, <1>6, <3>1, <4>1
      <4>2. CASE executed'[i] = e
        BY <1>3, <1>4, <3>1, <4>2
      <4> QED
        BY <1>6, <4>1, <4>2
    <3> QED
      BY <1>1, <2>1, <2>3, <3>2 DEF Genuine
  <2> QED
    BY <2>2, <2>3
<1> QED
  BY <1>1, <1>6, <1>8, <1>9, <1>10

\* The data a checksum was taken over.
DataOf(x) == [i \in 1 .. Len(x[3]) - 4 |-> x[3][i + 4][2]]

\* A packet ends with the checksum of the bytes before it.
LEMMA PacketEnds ==
  ASSUME NEW packet \in Seq(Bytes), Len(packet) >= MinPacketSize, VerifyCITTCRC(packet)
  PROVE  LET x == packet[Len(packet)]
         IN  /\ x \in ToSet(packet) /\ x[1] = "crc" /\ x[2] = 2
             /\ CmdOf(x) = packet[3][2] /\ IdOf(x) = packet[4][2]
             /\ DataOf(x) = [i \in 1 .. Len(packet) - MinPacketSize |-> packet[i + 4][2]]
<1> DEFINE size == Len(packet)
           x == packet[size]
<1>1. size \in Nat /\ size >= 6
  BY DEF MinPacketSize
<1>2. size - 2 \in 0 .. size /\ 1 <= size - 2 + 1 /\ size \in 1 .. size
      /\ 3 \in 1 .. (size - 2) - 1 + 1 /\ 4 \in 1 .. (size - 2) - 1 + 1
  BY <1>1
<1>3. /\ Len(SubSeq(packet, 1, size - 2)) = (size - 2) - 1 + 1
      /\ \A i \in 1 .. (size - 2) - 1 + 1 : SubSeq(packet, 1, size - 2)[i] = packet[1 + i - 1]
  BY <1>2, SubSeqProperties, LenProperties
<1>4. x[1] = "crc" /\ x[2] = 2 /\ x[3] = SubSeq(packet, 1, size - 2)
  BY DEF VerifyCITTCRC, CRCSize
<1>5. x[3][3] = packet[3] /\ x[3][4] = packet[4]
  BY <1>2, <1>3, <1>4
<1>6. x \in ToSet(packet)
  BY <1>2, ToSetIs
<1>7. DataOf(x) = [i \in 1 .. size - 6 |-> packet[i + 4][2]]
  <2>1. Len(x[3]) - 4 = size - 6
    BY <1>1, <1>3, <1>4
  <2>2. \A i \in 1 .. size - 6 : i + 4 \in 1 .. (size - 2) - 1 + 1 /\ 1 + (i + 4) - 1 = i + 4
    BY <1>1
  <2>3. \A i \in 1 .. size - 6 : x[3][i + 4] = packet[i + 4]
    BY <1>3, <1>4, <2>2
  <2> HIDE DEF x, size
  <2> QED
    BY <2>1, <2>3 DEF DataOf
<1> QED
  BY <1>4, <1>5, <1>6, <1>7 DEF CmdOf, IdOf, MinPacketSize

\* What the packet with the checksum x does.
Said(x) == Process(CmdOf(x), DataOf(x), prefs)
NoCommandCarriedOut == UNCHANGED <<firmware, txQueue>>
SaidDuplicate(x) ==
  /\ CmdOf(x) # "ACK" /\ UNCHANGED firmware
  /\ txQueue' = Transmitted(txQueue, <<Ack("DUPLICATE_PACKET", IdOf(x))>>)
CarriedOut(x, code) ==
  /\ CmdOf(x) # "ACK" /\ IdOf(x) # lastPacketID
  /\ code \in {Said(x).code, "UNABLE_TO_PROCESS", "INVALID_DATA", "BUS_FAULT"}
  /\ prefs' = Said(x).prefs
  /\ txQueue' = Transmitted(txQueue, Reports(IdOf(x)) \o <<Ack(code, IdOf(x))>>)
  /\ executed' = IF code = "OK" THEN Append(executed, [n |-> x[4], cmd |-> CmdOf(x)]) ELSE executed
  /\ lastPacketID' = IF CmdOf(x) \in Forgetful THEN -1 ELSE IdOf(x)

TakenOut(x) ==
  /\ x \in OnTheWay /\ x[1] = "crc" /\ x[2] = 2
  /\ curPacketBuf' \in Seq(Bytes) /\ rxQueue' \in Seq(Bytes) /\ line' \in Seq(Bytes)
  /\ Order(Keeps, curPacketBuf', rxQueue', line')
  /\ \A y \in OnTheWay' : y \in OnTheWay /\ Follows(Keeps, x, y)
  /\ UNCHANGED <<host, mirror>>
  /\ NoCommandCarriedOut \/ SaidDuplicate(x) \/ \E code : CarriedOut(x, code)

\* A packet is taken out, and nothing of it or before it stays.
LEMMA PacketTaken ==
  ASSUME OrderInv, Process232Packet
  PROVE  \E x : TakenOut(x)
<1> DEFINE buf    == FromStx(curPacketBuf)
           size   == CurPacketSize(buf)
           filled == Filled(buf)
           keep   == SubSeq(rxQueue, 1, Missing(buf))
           rest   == SubSeq(rxQueue, Missing(buf) + 1, Len(rxQueue))
           packet == SubSeq(filled, 1, size)
           behind == SubSeq(filled, size + 1, Len(filled))
           x      == packet[Len(packet)]
           data   == [i \in 1 .. Len(packet) - MinPacketSize |-> packet[i + 4][2]]
           reset  == packet[3][2] = "ResetQBridge" /\ ~Duplicate(packet[4][2])
<1>1. /\ Len(buf) >= 2 /\ size <= Len(filled) /\ size >= MinPacketSize /\ VerifyCITTCRC(packet)
      /\ UNCHANGED <<host, mirror>>
      /\ IF reset THEN curPacketBuf' = <<>> /\ rxQueue' = <<>> /\ line' = <<>>
         ELSE curPacketBuf' = behind /\ rxQueue' = rest /\ line' = line
  BY DEF Process232Packet, Complete, Valid, Behind
<1>2. \/ UNCHANGED <<firmware, txQueue>>
      \/ /\ packet[3][2] # "ACK" /\ UNCHANGED firmware
         /\ txQueue' = Transmitted(txQueue, <<Ack("DUPLICATE_PACKET", packet[4][2])>>)
      \/ /\ packet[3][2] # "ACK" /\ packet[4][2] # lastPacketID
         /\ \E code :
              /\ code \in {Process(packet[3][2], data, prefs).code, "UNABLE_TO_PROCESS", "INVALID_DATA", "BUS_FAULT"}
              /\ Dispatch(packet[3][2], packet[4][2], data, x[4], code,
                          Process(packet[3][2], data, prefs).prefs)
  BY DEF Process232Packet, Refusals, firmware, Duplicate
<1>3. /\ buf \in Seq(Bytes) /\ Piece(buf, curPacketBuf) /\ Missing(buf) \in 0 .. Len(rxQueue)
      /\ filled = buf \o keep /\ filled \in Seq(Bytes)
  BY <1>1, FilledFacts DEF OrderInv
<1>4. rxQueue \in Seq(Bytes) /\ curPacketBuf \in Seq(Bytes) /\ line \in Seq(Bytes)
      /\ Order(Keeps, curPacketBuf, rxQueue, line) /\ OrderType
  BY DEF OrderInv, OrderType
<1>5. size \in Int
  BY <1>1, <1>3, SizeInt
<1> HIDE DEF buf, size
<1>6. size \in 0 .. Len(filled) /\ size >= MinPacketSize
  BY <1>1, <1>3, <1>5 DEF MinPacketSize
<1>7. /\ filled \in Seq(Bytes) /\ rest \in Seq(Bytes) /\ Order(Keeps, filled, rest, line)
      /\ ToSet(filled) \cup ToSet(rest) \subseteq ToSet(curPacketBuf) \cup ToSet(rxQueue)
  BY <1>3, <1>4, Moves
<1> HIDE DEF filled, keep, rest
<1>8. /\ packet \in Seq(Bytes) /\ Piece(packet, filled)
      /\ behind \in Seq(Bytes) /\ Piece(behind, filled)
      /\ Before(Keeps, ToSet(packet), ToSet(behind))
  BY <1>6, <1>7, CutFacts DEF Order
<1>9. Len(packet) = size
  <2>1. /\ 1 \in Nat \ {0} /\ 1 <= size + 1 /\ size - 1 + 1 = size
    BY <1>6 DEF MinPacketSize
  <2> QED
    BY <1>6, <1>7, <2>1, SubSeqProperties, LenProperties
<1> HIDE DEF packet, behind
<1>10. /\ x \in ToSet(packet) /\ x[1] = "crc" /\ x[2] = 2
       /\ CmdOf(x) = packet[3][2] /\ IdOf(x) = packet[4][2] /\ DataOf(x) = data
  BY <1>1, <1>6, <1>8, <1>9, PacketEnds
<1>11. /\ ToSet(packet) \subseteq ToSet(filled)
       /\ ToSet(behind) \subseteq ToSet(filled) /\ InOrder(Keeps, behind)
  BY <1>7, <1>8, PieceFacts DEF Order
<1>12. x \in OnTheWay
  BY <1>7, <1>10, <1>11 DEF OnTheWay
<1>13. /\ curPacketBuf' \in Seq(Bytes) /\ rxQueue' \in Seq(Bytes) /\ line' \in Seq(Bytes)
       /\ Order(Keeps, curPacketBuf', rxQueue', line')
       /\ \A y \in OnTheWay' : y \in OnTheWay /\ Follows(Keeps, x, y)
  <2>1. CASE reset
    <3>1. curPacketBuf' = <<>> /\ rxQueue' = <<>> /\ line' = <<>>
      BY <1>1, <2>1
    <3>2. <<>> \in Seq(Bytes) /\ ToSet(<<>>) = {} /\ InOrder(Keeps, <<>>)
      BY DEF ToSet, InOrder
    <3> QED
      BY <3>1, <3>2 DEF Order, Before, OnTheWay
  <2>2. CASE ~reset
    <3>1. curPacketBuf' = behind /\ rxQueue' = rest /\ line' = line
      BY <1>1, <2>2
    <3>2. Order(Keeps, behind, rest, line)
      BY <1>7, <1>11 DEF Order, Before
    <3>3. OnTheWay' = ToSet(behind) \cup ToSet(rest) \cup ToSet(line)
      BY <3>1 DEF OnTheWay
    <3>4. ASSUME NEW y \in OnTheWay' PROVE y \in OnTheWay /\ Follows(Keeps, x, y)
      <4>1. y \in OnTheWay
        BY <1>7, <1>11, <3>3 DEF OnTheWay
      <4>2. Follows(Keeps, x, y)
        BY <1>7, <1>8, <1>10, <1>11, <3>3 DEF Order, Before
      <4> QED
        BY <4>1, <4>2
    <3> QED
      BY <1>4, <1>7, <1>8, <3>1, <3>2, <3>4
  <2> QED
    BY <2>1, <2>2
<1> HIDE DEF x, data
<1>14. CASE UNCHANGED <<firmware, txQueue>>
  BY <1>1, <1>10, <1>12, <1>13, <1>14 DEF TakenOut, NoCommandCarriedOut
<1>15. CASE /\ packet[3][2] # "ACK" /\ UNCHANGED firmware
            /\ txQueue' = Transmitted(txQueue, <<Ack("DUPLICATE_PACKET", packet[4][2])>>)
  <2>1. SaidDuplicate(x)
    BY <1>10, <1>15 DEF SaidDuplicate
  <2> QED
    BY <1>1, <1>10, <1>12, <1>13, <2>1 DEF TakenOut
<1>16. CASE /\ packet[3][2] # "ACK" /\ packet[4][2] # lastPacketID
            /\ \E code :
                 /\ code \in {Process(packet[3][2], data, prefs).code, "UNABLE_TO_PROCESS", "INVALID_DATA", "BUS_FAULT"}
                 /\ Dispatch(packet[3][2], packet[4][2], data, x[4], code,
                             Process(packet[3][2], data, prefs).prefs)
  <2>1. PICK code :
          /\ code \in {Said(x).code, "UNABLE_TO_PROCESS", "INVALID_DATA", "BUS_FAULT"}
          /\ Dispatch(CmdOf(x), IdOf(x), DataOf(x), x[4], code, Said(x).prefs)
    BY <1>10, <1>16 DEF Said
  <2>2. CarriedOut(x, code)
    BY <1>10, <1>16, <2>1 DEF CarriedOut, Dispatch, Forgetful
  <2> QED
    BY <1>1, <1>10, <1>12, <1>13, <2>2 DEF TakenOut
<1> QED
  BY <1>2, <1>14, <1>15, <1>16 DEF x, data

\* Unless it is an acknowledgement or a duplicate, it is dispatched.
LEMMA ProcessOrder ==
  ASSUME OrderInv, NEW x, TakenOut(x)
  PROVE  OrderInv' /\ Fewer
<1> USE DEF TakenOut
<1>1. Fewer /\ OrderType
  BY DEF Fewer, OrderInv
<1>2. CASE UNCHANGED <<executed, lastPacketID>>
  <2>1. SameCommand
    BY <1>2 DEF SameCommand
  <2>2. OrderType'
    BY <1>1, <1>2 DEF OrderType
  <2> QED
    BY <1>1, <2>1, <2>2, MovesKeep
<1>3. ASSUME NEW code, CarriedOut(x, code) PROVE OrderInv'
  <2>1. /\ executed' = IF code = "OK" THEN Append(executed, [n |-> x[4], cmd |-> CmdOf(x)])
                       ELSE executed
        /\ CmdOf(x) # "ACK" /\ IdOf(x) # lastPacketID
        /\ lastPacketID' = IF CmdOf(x) \in Forgetful THEN -1 ELSE IdOf(x)
    BY <1>3 DEF CarriedOut
  <2>2. /\ executed' \in Seq(Executions) /\ Keeps' = Keeps
        /\ ExecutedInv' /\ ExecutedInOrder'
        /\ \A y \in OnTheWay : Follows(Keeps, x, y) => Genuine(y)'
    BY <2>1, Dispatched
  <2>3. OrderType'
    BY <1>1, <2>2 DEF OrderType
  <2>4. \A y \in OnTheWay' : Genuine(y)'
    BY <2>2
  <2>5. Order(Keeps, curPacketBuf, rxQueue, line)'
    BY <2>2
  <2> QED
    BY <2>2, <2>3, <2>4, <2>5 DEF OrderInv
<1> QED
  BY <1>1, <1>2, <1>3 DEF NoCommandCarriedOut, SaidDuplicate, firmware

-------------------------------------------------------------------------------
(***************************************************************************)
(* The host's picture of the settings is right.  A command is on its way   *)
(* at one place at most (End), and while it is no answer to it is; it is   *)
(* answered once it is carried out.  Answers left over from an earlier     *)
(* command come before those to the last one, under another id.            *)
(***************************************************************************)
Fields == {"midFilter", "mids", "j1708Confirm", "canConfirm", "notify", "auto", "adv", "baud"}
Codes == {"OK", "INVALID_DATA", "INVALID_COMMAND", "INVALID_PACKET", "UNABLE_TO_PROCESS", "BUS_FAULT",
          "DUPLICATE_PACKET", "OVERFLOW_OCCURRED", "packet"}
Answers == [code : Codes, id : Int, baud : BaudRateTable]

OnFields(p) == p = [f \in Fields |-> p[f]]
AgreeType ==
  /\ host.id \in 1 .. MaxID
  /\ OnFields(prefs) /\ prefs.baud \in BaudRateTable
  /\ OnFields(mirror) /\ \A f \in Fields : mirror[f] = Unknown \/ mirror[f] = Known(mirror[f].v)
  /\ txQueue \in Seq(Answers) /\ Len(txQueue) <= TxRoom

\* What the host believes when it is told that its command was carried out is so.
BeliefIsTrue ==
  \A f \in Fields : Believed(host.command)[f].k = "known"
                      => Believed(host.command)[f].v = prefs[f]

\* Which answers may be under way.
AnswersInv ==
  /\ \A i, j \in 1 .. Len(txQueue) :
       i < j /\ txQueue[i].id = host.id => txQueue[j].id \in {0, host.id}
  /\ \A i \in 1 .. Len(txQueue) :
       /\ host.phase = "idle" => txQueue[i].id \in {0, host.id}
       /\ host.phase = "wait" /\ txQueue[i].id = host.id /\ txQueue[i].code = "OK" => BeliefIsTrue

\* A command on its way is the last one, and not answered yet.
NotAnswered ==
  /\ EndsAsked
  /\ \A x \in OnTheWay : End(x) => \A i \in 1 .. Len(txQueue) : txQueue[i].id # host.id

\* A list of MIDs that was set, or a part of it, is as if it were set once more.
Those(data) == IF ListedMIDs(data).all THEN MIDs ELSE ListedMIDs(data).mids
MidsAfter(data, mids) == IF data[1] = 1 THEN mids \cup Those(data) ELSE mids \ Those(data)

\* What the host knows is so, but for what its command touches.
KnownInv ==
  \A f \in Fields : mirror[f].k = "known" =>
    \/ prefs[f] = mirror[f].v
    \/ /\ host.phase = "wait" /\ f \in Touched(host.command.cmd, host.command.data)
       /\ host.command.cmd = "SetMIDState" => prefs[f] = MidsAfter(host.command.data, mirror[f].v)

AgreeInv == OrderInv /\ AgreeType /\ AnswersInv /\ NotAnswered /\ KnownInv

\* What a command does to the settings p, and to others, q.
Effect(cmd, data, p) ==
  LET r == Process(cmd, data, p)
  IN  /\ OnFields(r.prefs) /\ r.code \in Codes
      /\ \A f \in Fields \ Touched(cmd, data) : r.prefs[f] = p[f]
      /\ p.baud \in BaudRateTable => r.prefs.baud \in BaudRateTable
Alike(cmd, data, p, q) ==
  LET r == Process(cmd, data, p)
      s == Process(cmd, data, q)
  IN  /\ r.code = s.code
      /\ r.code = "OK" => \A f \in Touched(cmd, data) : r.prefs[f] = s.prefs[f]

-------------------------------------------------------------------------------
\* What the settings are at the start.
LEMMA DefaultsFacts == OnFields(Defaults) /\ DOMAIN Defaults = Fields /\ Defaults.baud = CoolRate
  BY DEF OnFields, Fields, Defaults

\* Those a host sets back.
LEMMA ResetFacts ==
  ASSUME NEW p, OnFields(p)
  PROVE  LET r == ResetDefaultPrefs(p)
         IN  /\ OnFields(r)
             /\ \A f \in Fields : r[f] = IF f \in {"adv", "baud"} THEN p[f] ELSE Defaults[f]
<1>1. "adv" \in Fields /\ "baud" \in Fields 
  BY DEF Fields
<1> QED 
  BY <1>1, DefaultsFacts DEF OnFields, ResetDefaultPrefs

\* What a CAN control command does.
LEMMA ControlFacts ==
  ASSUME NEW data, NEW p, OnFields(p), NEW q, OnFields(q)
  PROVE  Effect("CANcontrol", data, p) /\ Alike("CANcontrol", data, p, q)
<1>0. /\ "canConfirm" \in Fields /\ "notify" \in Fields /\ "auto" \in Fields /\ "baud" \in Fields /\ "OK" \in Codes /\ "INVALID_DATA" \in Codes
  BY DEF Fields, Codes
<1> DEFINE T == Touched("CANcontrol", data)
<1>1. Process("CANcontrol", data, p) = CANcontrol(data, p) /\ Process("CANcontrol", data, q) = CANcontrol(data, q)
  BY DEF Process
<1>2. T = {f \in {"canConfirm", "notify", "auto"} :
       \/ f = "notify" /\ SetsNotify(data)
       \/ f = "auto" /\ SetsAuto(data)
       \/ Restores(data)}
  BY DEF Touched
<1>3. /\ ~(SetsNotify(data) /\ SetsAuto(data)) /\ ~(SetsNotify(data) /\ Restores(data))
      /\ ~(SetsAuto(data) /\ Restores(data))
  BY DEF SetsNotify, SetsAuto, Restores
<1> HIDE DEF T
<1>4. CASE SetsNotify(data) /\ Len(data) = 2
  <2>1. T = {"notify"}
    BY <1>2, <1>3, <1>4
  <2>2. /\ CANcontrol(data, p) = [code |-> "OK", prefs |-> [p EXCEPT !.notify = (data[2] # 0)]]
        /\ CANcontrol(data, q) = [code |-> "OK", prefs |-> [q EXCEPT !.notify = (data[2] # 0)]]
    BY <1>4 DEF CANcontrol, Says
  <2> QED
    BY <1>0, <1>1, <2>1, <2>2 DEF T, Effect, Alike, OnFields
<1>5. CASE SetsAuto(data) /\ Len(data) = 2
  <2>1. T = {"auto"}
    BY <1>2, <1>3, <1>5
  <2>2. /\ CANcontrol(data, p) = [code |-> "OK", prefs |-> [p EXCEPT !.auto = (data[2] # 0)]]
        /\ CANcontrol(data, q) = [code |-> "OK", prefs |-> [q EXCEPT !.auto = (data[2] # 0)]]
    BY <1>3, <1>5 DEF CANcontrol, Says
  <2> QED
    BY <1>0, <1>1, <2>1, <2>2 DEF T, Effect, Alike, OnFields
<1>6. CASE Restores(data)
  <2>1. T = {"canConfirm", "notify", "auto"}
    BY <1>2, <1>3, <1>6
  <2>2. \A s : CANcontrol(data, s) = [code |-> "OK", prefs |-> CANResetDefaultPrefs(s)]
    BY <1>3, <1>6 DEF CANcontrol, Says
  <2>3. ASSUME NEW s, OnFields(s)
        PROVE  LET r == CANResetDefaultPrefs(s)
               IN  /\ OnFields(r) /\ r.canConfirm = FALSE /\ r.notify = FALSE /\ r.auto = TRUE
                   /\ \A f \in Fields \ T : r[f] = s[f]
    BY <1>0, <2>1, <2>3 DEF CANResetDefaultPrefs, OnFields
  <2>4. "baud" \in Fields \ T
    BY <1>0, <2>1
  <2> DEFINE r == CANResetDefaultPrefs(p)
             s == CANResetDefaultPrefs(q)
  <2>5. /\ Process("CANcontrol", data, p) = [code |-> "OK", prefs |-> r]
        /\ Process("CANcontrol", data, q) = [code |-> "OK", prefs |-> s]
    BY <1>1, <2>2
  <2>6. /\ OnFields(r) /\ r.baud = p.baud /\ \A f \in Fields \ T : r[f] = p[f]
        /\ \A f \in T : r[f] = s[f]
    BY <2>1, <2>3, <2>4
  <2> HIDE DEF r, s
  <2> QED
    BY <1>0, <2>5, <2>6 DEF T, Effect, Alike
<1>7. CASE ~(SetsNotify(data) /\ Len(data) = 2) /\ ~(SetsAuto(data) /\ Len(data) = 2) /\ ~Restores(data)
  <2>1. \A s : CANcontrol(data, s) =
           Says(IF Recovers(data) \/ Unrelated(data) \/ SetsFilters(data) THEN "OK" ELSE "INVALID_DATA", s)
    BY <1>7 DEF CANcontrol
  <2>2. Recovers(data) \/ Unrelated(data) \/ SetsFilters(data) => T = {}
    BY <1>2, <1>7 DEF SetsNotify, SetsAuto, Recovers, Unrelated, SetsFilters
  <2> QED
    BY <1>0, <1>1, <2>1, <2>2 DEF T, Effect, Alike, OnFields, Says
<1> QED
  BY <1>4, <1>5, <1>6, <1>7

\* What any command does: it leaves alone what it does not touch, and if it is
\* accepted then what it touches does not depend on what was there, MIDs apart.
LEMMA ProcessFacts ==
  ASSUME NEW cmd, NEW data, NEW p, OnFields(p), NEW q, OnFields(q)
  PROVE  Effect(cmd, data, p) /\ (cmd # "SetMIDState" => Alike(cmd, data, p, q))
<1>0. /\ \A f \in {"midFilter", "mids", "j1708Confirm", "canConfirm", "notify", "auto", "adv", "baud"} : f \in Fields
      /\ \A c \in {"OK", "INVALID_DATA", "INVALID_COMMAND"} : c \in Codes
  BY DEF Fields, Codes
<1> USE DEF Effect, Alike
<1>1. CASE cmd = "Init232"
  <2>1. Touched(cmd, data) = Fields \ {"adv", "baud"}
    BY <1>1, DefaultsFacts DEF Touched
  <2>2. \A s : Process(cmd, data, s) = 
           [code |-> IF data = <<>> THEN "OK" ELSE "INVALID_DATA", prefs |-> ResetDefaultPrefs(s)]
    BY <1>1 DEF Process, Says
  <2> QED
    BY <1>0, <2>1, <2>2, ResetFacts
<1>2. CASE cmd = "MIDFilterEnable"
  <2>1. Touched(cmd, data) = {"midFilter"}
    BY <1>2 DEF Touched
  <2> QED
    BY <1>0, <1>2, <2>1 DEF Process, Says, OnFields
<1>3. CASE cmd = "SetMIDState"
  <2>1. Touched(cmd, data) = {"mids"}
    BY <1>3 DEF Touched
  <2> QED
    BY <1>0, <1>3, <2>1 DEF Process, Says, OnFields, SetMIDs
<1>4. CASE cmd = "EnableJ1708TxConfirm"
  <2>1. Touched(cmd, data) = {"j1708Confirm", "canConfirm"}
    BY <1>4 DEF Touched
  <2> QED
    BY <1>0, <1>4, <2>1 DEF Process, Says, OnFields
<1>5. CASE cmd \in {"GetInfo", "InfoReq", "MdmReset", "RawJ1708", "SendJ1708Packet", "SendCANPacket"}
  <2>1. Touched(cmd, data) = {}
    BY <1>5 DEF Touched
  <2> QED
    BY <1>0, <1>5, <2>1 DEF Process, Says, OnFields
<1>6. CASE cmd = "CANcontrol"
  BY <1>6, ControlFacts
<1>7. CASE cmd = "ResetQBridge"
  <2>1. Touched(cmd, data) = Fields
    BY <1>7, DefaultsFacts DEF Touched
  <2> QED
    BY <1>0, <1>7, <2>1, DefaultsFacts, CommandsAssumption DEF Process, Says
<1>8. CASE cmd = "Change232BaudRate"
  <2>1. Touched(cmd, data) = {"baud"}
    BY <1>8 DEF Touched
  <2> QED
    BY <1>0, <1>8, <2>1 DEF Process, Says, OnFields, IsBaudSupported
<1>9. CASE cmd = "AdvRecvMode"
  <2>1. Touched(cmd, data) = {"adv"}
    BY <1>9 DEF Touched
  <2> QED
    BY <1>0, <1>9, <2>1 DEF Process, Says, OnFields
<1>10. CASE cmd \notin {"Init232", "MIDFilterEnable", "SetMIDState", "EnableJ1708TxConfirm", "GetInfo", "InfoReq", "MdmReset", "RawJ1708", "SendJ1708Packet",
                  "SendCANPacket", "CANcontrol", "ResetQBridge", "Change232BaudRate", "AdvRecvMode"}
  <2>1. Touched(cmd, data) = {} /\ \A s : Process(cmd, data, s) = [code |-> "INVALID_COMMAND", prefs |-> s]
    BY <1>10 DEF Touched, Process, Says
  <2> QED
    BY <1>0, <2>1 DEF OnFields
<1> QED
  BY <1>1, <1>2, <1>3, <1>4, <1>5, <1>6, <1>7, <1>8, <1>9, <1>10

\* A list of MIDs is added or taken away, or nothing happens.
LEMMA MidsFacts ==
  ASSUME NEW data, NEW p, OnFields(p)
  PROVE  LET r == Process("SetMIDState", data, p)
         IN  /\ r.prefs.mids \in {p.mids, MidsAfter(data, p.mids)}
             /\ r.code = "OK" => \A q : OnFields(q) => Process("SetMIDState", data, q).prefs.mids = MidsAfter(data, q.mids)
<1>1. "mids" \in Fields
  BY DEF Fields
<1>2. \A q : OnFields(q) => 
        \A on \in BOOLEAN : SetMIDs(q, on, ListedMIDs(data)).mids = IF on THEN q.mids \cup Those(data) ELSE q.mids \ Those(data)
  BY <1>1 DEF SetMIDs, Those, OnFields
<1>3. \A q : OnFields(q) => SetMIDs(q, data[1] = 1, ListedMIDs(data)).mids = MidsAfter(data, q.mids)
  BY <1>2 DEF MidsAfter
<1>4. \A q : Process("SetMIDState", data, q) = IF Len(data) < 3 \/ data[1] > 1 THEN Says("INVALID_DATA", q)
         ELSE LET list == ListedMIDs(data)
              IN  Says(IF list.wrong THEN "INVALID_DATA" ELSE "OK", SetMIDs(q, data[1] = 1, list))
  BY DEF Process
<1> QED
  BY <1>3, <1>4 DEF Says

\* Once more is the same.
LEMMA MidsTwice == ASSUME NEW data, NEW mids PROVE MidsAfter(data, MidsAfter(data, mids)) = MidsAfter(data, mids)
  BY DEF MidsAfter

-------------------------------------------------------------------------------
\* Answers are queued behind the others, as far as there is room.
LEMMA TransmittedFacts ==
  ASSUME NEW q \in Seq(Answers), Len(q) <= TxRoom, NEW ps \in Seq(Answers)
  PROVE  LET t == Transmitted(q, ps)
         IN  /\ t \in Seq(Answers) /\ Len(t) <= TxRoom
             /\ \A i \in 1 .. Len(t) :
                  \/ i <= Len(q) /\ t[i] = q[i]
                  \/ i > Len(q) /\ \E j \in 1 .. Len(ps) : t[i] = ps[j]
<1> DEFINE room == TxRoom - Len(q)
           n == Min({Len(ps), room})
           s == SubSeq(ps, 1, n)
<1>1. Len(ps) \in Nat /\ Len(q) \in Nat /\ TxRoom \in Nat /\ room \in Nat
  BY CommandsAssumption
<1>2. n = IF Len(ps) <= room THEN Len(ps) ELSE room
  <2> HIDE DEF room
  <2> QED
    BY <1>1, MinMaxTwo
<1>3. n \in 0 .. Len(ps) /\ n <= room /\ n - 1 + 1 = n /\ 1 <= n + 1
  BY <1>1, <1>2
<1> HIDE DEF n
<1>4. s \in Seq(Answers) /\ Len(s) = n /\ \A i \in 1 .. n : s[i] = ps[1 + i - 1]
  BY <1>3, SubSeqProperties, LenProperties
<1> HIDE DEF s
<1>5. /\ q \o s \in Seq(Answers) /\ Len(q \o s) = Len(q) + n
      /\ \A i \in 1 .. Len(q) : (q \o s)[i] = q[i]
      /\ \A i \in 1 .. n : (q \o s)[Len(q) + i] = s[i]
  <2>1. /\ q \o s \in Seq(Answers) /\ Len(q \o s) = Len(q) + Len(s)
        /\ \A i \in 1 .. Len(q) + Len(s) :
             (q \o s)[i] = IF i <= Len(q) THEN q[i] ELSE s[i - Len(q)]
    BY <1>4, ConcatProperties
  <2> QED
    BY <1>1, <1>3, <1>4, <2>1
<1>6. ASSUME NEW i \in 1 .. Len(q \o s), i > Len(q)
      PROVE  \E j \in 1 .. Len(ps) : (q \o s)[i] = ps[j]
  <2> DEFINE j == i - Len(q)
  <2>1. j \in 1 .. n /\ i = Len(q) + j /\ j \in 1 .. Len(ps) /\ 1 + j - 1 = j
    BY <1>1, <1>3, <1>5, <1>6
  <2> QED
    BY <1>4, <1>5, <2>1
<1>7. Len(q \o s) <= TxRoom /\ \A i \in 1 .. Len(q \o s) : i <= Len(q) => i \in 1 .. Len(q)
  BY <1>1, <1>3, <1>5
<1>8. Transmitted(q, ps) = q \o s
  BY DEF Transmitted, n, s
<1> QED
  BY <1>1, <1>5, <1>6, <1>7, <1>8

\* The host's picture after a command, and after one it knows nothing of.
LEMMA PictureFacts ==
  ASSUME AgreeType, NEW c
  PROVE  /\ OnFields(Believed(c)) /\ OnFields(Forget(c))
         /\ \A f \in Fields :
              /\ Believed(c)[f] = Unknown \/ Believed(c)[f] = Known(Believed(c)[f].v)
              /\ Forget(c)[f] = Unknown \/ Forget(c)[f] = Known(Forget(c)[f].v)
              /\ Forget(c)[f] = Unknown \/ (f \notin Touched(c.cmd, c.data) /\ Forget(c)[f] = mirror[f])
<1>1. DOMAIN mirror = Fields
  BY DEF AgreeType, OnFields
<1>2. OnFields(Believed(c)) /\ OnFields(Forget(c))
  BY <1>1 DEF OnFields, Believed, Forget
<1>3. \A v : Known(v) = Known(Known(v).v)
  BY DEF Known
<1>4. \A f \in Fields : Forget(c)[f] = IF f \in Touched(c.cmd, c.data) THEN Unknown ELSE mirror[f]
  BY <1>1 DEF Forget
<1>5. \A f \in Fields : \/ Believed(c)[f] = Unknown \/ Believed(c)[f] = mirror[f]
                        \/ \E v : Believed(c)[f] = Known(v)
  BY <1>1, Zenon DEF Believed
<1> QED
  BY <1>2, <1>3, <1>4, <1>5 DEF AgreeType

\* A step that carries out no command and leaves the host as it is; of the
\* answers under way the first may be taken, and others put behind them.
Quiet == UNCHANGED <<host, prefs, mirror>>
LEMMA QuietAgree ==
  ASSUME AgreeInv, OrderInv', Fewer, Quiet,
         txQueue' \in Seq(Answers), Len(txQueue') <= TxRoom,
         NEW d \in Nat,
         \A i \in 1 .. Len(txQueue') :
           txQueue'[i].id = 0 \/ (i + d \in 1 .. Len(txQueue) /\ txQueue'[i] = txQueue[i + d])
  PROVE  AgreeInv'
<1> USE DEF Quiet
<1>1. AgreeType' /\ host.id # 0
  BY DEF AgreeInv, AgreeType
<1>2. BeliefIsTrue' = BeliefIsTrue
  BY DEF BeliefIsTrue, Believed
<1>3. AnswersInv'
  <2>1. ASSUME NEW i \in 1 .. Len(txQueue'), NEW j \in 1 .. Len(txQueue'),
               i < j, txQueue'[i].id = host.id
        PROVE  txQueue'[j].id \in {0, host.id}
    <3>1. CASE txQueue'[j].id = 0
      BY <3>1
    <3>2. CASE txQueue'[j].id # 0
      <4>1. /\ i + d \in 1 .. Len(txQueue) /\ txQueue'[i] = txQueue[i + d]
            /\ j + d \in 1 .. Len(txQueue) /\ txQueue'[j] = txQueue[j + d]
        BY <1>1, <2>1, <3>2
      <4>2. i + d < j + d
        BY <2>1
      <4> QED
        BY <2>1, <4>1, <4>2 DEF AgreeInv, AnswersInv
    <3> QED
      BY <3>1, <3>2
  <2>2. ASSUME NEW i \in 1 .. Len(txQueue')
        PROVE  /\ host.phase = "idle" => txQueue'[i].id \in {0, host.id}
               /\ host.phase = "wait" /\ txQueue'[i].id = host.id /\ txQueue'[i].code = "OK"
                    => BeliefIsTrue
    BY <1>1, <2>2 DEF AgreeInv, AnswersInv
  <2> QED
    BY <1>2, <2>1, <2>2 DEF AnswersInv
<1>4. \A x : Harmless(x) => ~End(x)
  BY DEF Harmless, End, OfCommand
<1>5. NotAnswered'
  BY <1>1, <1>4 DEF AgreeInv, NotAnswered, EndsAsked, Fewer
<1>6. KnownInv'
  BY DEF AgreeInv, KnownInv
<1> QED
  BY <1>1, <1>3, <1>5, <1>6 DEF AgreeInv

\* A step that leaves the answers alone as well.
LEMMA SameAnswers ==
  ASSUME AgreeInv, OrderInv', Fewer, Quiet, txQueue' = txQueue
  PROVE  AgreeInv'
<1>1. /\ txQueue' \in Seq(Answers) /\ Len(txQueue') <= TxRoom
      /\ \A i \in 1 .. Len(txQueue') : i + 0 \in 1 .. Len(txQueue) /\ txQueue'[i] = txQueue[i + 0]
  BY DEF AgreeInv, AgreeType
<1> QED
  BY <1>1, QuietAgree

\* A step that puts an answer to no command behind the others.
LEMMA OneMoreAnswer ==
  ASSUME AgreeInv, OrderInv', Fewer, Quiet, NEW code \in Codes,
         txQueue' = Transmitted(txQueue, <<Ack(code, 0)>>)
  PROVE  AgreeInv'
<1> DEFINE ps == <<Ack(code, 0)>>
<1>1. txQueue \in Seq(Answers) /\ Len(txQueue) <= TxRoom /\ prefs.baud \in BaudRateTable
  BY DEF AgreeInv, AgreeType
<1>2. Ack(code, 0) \in Answers
  BY <1>1 DEF Ack, Answers
<1>3. ps \in Seq(Answers) /\ Len(ps) = 1 /\ ps[1] = Ack(code, 0)
  BY <1>2
<1>4. Ack(code, 0).id = 0
  BY DEF Ack
<1> HIDE DEF ps
<1>5. /\ txQueue' \in Seq(Answers) /\ Len(txQueue') <= TxRoom
      /\ \A i \in 1 .. Len(txQueue') :
           \/ i <= Len(txQueue) /\ txQueue'[i] = txQueue[i]
           \/ i > Len(txQueue) /\ \E j \in 1 .. Len(ps) : txQueue'[i] = ps[j]
  BY <1>1, <1>3, TransmittedFacts DEF ps
<1>6. \A i \in 1 .. Len(txQueue') :
        txQueue'[i].id = 0 \/ (i + 0 \in 1 .. Len(txQueue) /\ txQueue'[i] = txQueue[i + 0])
  <2>1. \A j \in 1 .. Len(ps) : ps[j].id = 0
    BY <1>3, <1>4
  <2> QED
    BY <1>1, <1>5, <2>1
<1> QED
  BY <1>5, <1>6, QuietAgree

\* The steps that move bytes, or take or put answers that concern no command.
LEMMA BytesAgree ==
  ASSUME AgreeInv, ByteArrives \/ ReceiveTimeout \/ TakeTwo \/ Waits
  PROVE  AgreeInv'
<1>1. OrderInv' /\ Fewer
  BY ArriveOrder, TimeoutOrder, TakeOrder, WaitsOrder DEF AgreeInv
<1>2. Quiet /\ txQueue' = txQueue
  BY DEF Quiet, ByteArrives, ReceiveTimeout, TakeTwo, Waits, firmware
<1> QED
  BY <1>1, <1>2, SameAnswers

LEMMA InvalidAgree == ASSUME AgreeInv, Invalid PROVE AgreeInv'
<1>1. OrderInv' /\ Fewer
  BY InvalidOrder DEF AgreeInv
<1>2. Quiet /\ txQueue' = Transmitted(txQueue, <<Ack("INVALID_PACKET", 0)>>)
  BY DEF Quiet, Invalid, firmware
<1>3. "INVALID_PACKET" \in Codes
  BY DEF Codes
<1> QED
  BY <1>1, <1>2, <1>3, OneMoreAnswer

LEMMA BusesAgree ==
  ASSUME AgreeInv, Traffic \/ \E b \in Buses : Overflow(b)
  PROVE  AgreeInv'
<1>1. UNCHANGED <<line, rxQueue, curPacketBuf, executed, lastPacketID, host>>
  BY DEF Traffic, Overflow, parser, firmware
<1>2. OrderInv' /\ Fewer
  BY <1>1, BusesOrder DEF AgreeInv
<1>3. /\ Quiet
      /\ txQueue' = txQueue \/ txQueue' = Transmitted(txQueue, <<Ack("packet", 0)>>)
  BY DEF Quiet, Traffic, Overflow, firmware
<1>4. "packet" \in Codes
  BY DEF Codes
<1> QED
  BY <1>2, <1>3, <1>4, OneMoreAnswer, SameAnswers

\* An answer is taken from those under way.
LEMMA TailAnswers ==
  ASSUME AgreeInv, txQueue # <<>>, txQueue' = Tail(txQueue)
  PROVE  /\ txQueue' \in Seq(Answers) /\ Len(txQueue') <= TxRoom
         /\ Len(txQueue) \in Nat \ {0} /\ Head(txQueue) = txQueue[1]
         /\ \A i \in 1 .. Len(txQueue') :
              i + 1 \in 1 .. Len(txQueue) /\ txQueue'[i] = txQueue[i + 1]
<1>1. txQueue \in Seq(Answers) /\ Len(txQueue) <= TxRoom
  BY DEF AgreeInv, AgreeType
<1>2. /\ Len(txQueue) \in Nat \ {0} /\ Head(txQueue) = txQueue[1]
      /\ Tail(txQueue) \in Seq(Answers) /\ Len(Tail(txQueue)) = Len(txQueue) - 1
      /\ \A i \in 1 .. Len(Tail(txQueue)) : Tail(txQueue)[i] = txQueue[i + 1]
  BY <1>1, HeadTailProperties, LenProperties
<1> QED
  BY <1>1, <1>2, CommandsAssumption

LEMMA FailsAgree == ASSUME AgreeInv, LineFails PROVE AgreeInv'
<1>1. OrderInv' /\ Fewer
  BY FailsOrder DEF AgreeInv
<1>2. Quiet
  BY DEF Quiet, LineFails, firmware
<1>3. CASE txQueue' = txQueue
  BY <1>1, <1>2, <1>3, SameAnswers
<1>4. CASE txQueue # <<>> /\ txQueue' = Tail(txQueue)
  <2>1. /\ txQueue' \in Seq(Answers) /\ Len(txQueue') <= TxRoom
        /\ \A i \in 1 .. Len(txQueue') :
             i + 1 \in 1 .. Len(txQueue) /\ txQueue'[i] = txQueue[i + 1]
    BY <1>4, TailAnswers
  <2> QED
    BY <1>1, <1>2, <2>1, QuietAgree
<1> QED
  BY <1>3, <1>4 DEF LineFails

\* The host gives a command: answers left over have another id.
LEMMA CommandAgree == ASSUME AgreeInv, HostCommand PROVE AgreeInv'
<1>1. OrderInv' /\ EndsAsked'
  BY CommandOrder DEF AgreeInv, NotAnswered
<1>2. /\ UNCHANGED <<prefs, mirror, txQueue>> /\ host.phase = "idle"
      /\ host'.id = NextID(host.id) /\ host'.phase = "wait"
  <2>1. \E c \in Commands :
          host' = [host EXCEPT !.phase = "wait", !.command = c, !.n = host.n + 1,
                               !.id = NextID(host.id), !.tries = 1]
    BY DEF HostCommand
  <2> QED
    BY <2>1 DEF HostCommand, firmware, AgreeInv, OrderInv, OrderType
<1>3. host.id \in 1 .. MaxID /\ MaxID \in Nat /\ MaxID >= 2
  BY CommandsAssumption DEF AgreeInv, AgreeType
<1>4. NextID(host.id) \in 1 .. MaxID /\ NextID(host.id) # host.id
  BY <1>3 DEF NextID
<1>5. AgreeType'
  BY <1>2, <1>4 DEF AgreeInv, AgreeType
<1>6. \A i \in 1 .. Len(txQueue) : txQueue[i].id # host'.id
  BY <1>2, <1>3, <1>4 DEF AgreeInv, AnswersInv
<1>7. AnswersInv' /\ NotAnswered'
  BY <1>1, <1>2, <1>6 DEF AnswersInv, NotAnswered
<1>8. KnownInv'
  BY <1>2 DEF AgreeInv, KnownInv
<1> QED
  BY <1>1, <1>5, <1>7, <1>8 DEF AgreeInv

\* It repeats one, or gives it up, into silence: no answer is under way.
LEMMA RepeatAgree == ASSUME AgreeInv, HostTimeout PROVE AgreeInv'
<1>1. OrderInv' /\ EndsAsked'
  BY RepeatOrder DEF AgreeInv
<1>2. UNCHANGED <<prefs, txQueue>> /\ txQueue = <<>> /\ host.phase = "wait"
  BY DEF HostTimeout, Silence, firmware
<1>3. 1 .. Len(txQueue') = {}
  BY <1>2
<1>4. AnswersInv' /\ NotAnswered'
  BY <1>1, <1>3 DEF AnswersInv, NotAnswered
<1>5. host.id \in 1 .. MaxID /\ MaxID \in Nat /\ NextID(host.id) \in 1 .. MaxID
  BY CommandsAssumption DEF AgreeInv, AgreeType, NextID
<1>6. OrderType
  BY DEF AgreeInv, OrderInv
<1>7. CASE host.tries < MaxTries
  <2>1. /\ mirror' = mirror
        /\ \E id \in {host.id, NextID(host.id)} :
             host' = [host EXCEPT !.tries = host.tries + 1, !.id = id]
    BY <1>7 DEF HostTimeout
  <2>2. /\ host'.id \in {host.id, NextID(host.id)} /\ host'.phase = host.phase
        /\ host'.command = host.command
    BY <1>6, <2>1 DEF OrderType
  <2>3. AgreeType'
    BY <1>2, <1>5, <2>1, <2>2 DEF AgreeInv, AgreeType
  <2>4. KnownInv'
    BY <1>2, <2>1, <2>2 DEF AgreeInv, KnownInv
  <2> QED
    BY <1>1, <1>4, <2>3, <2>4 DEF AgreeInv
<1>8. CASE ~(host.tries < MaxTries)
  <2>1. mirror' = Forget(host.command) /\ host' = [host EXCEPT !.phase = "idle"]
    BY <1>8 DEF HostTimeout
  <2>2. host'.id = host.id /\ host'.phase = "idle"
    BY <1>6, <2>1 DEF OrderType
  <2>3. /\ OnFields(mirror')
        /\ \A f \in Fields :
             /\ mirror'[f] = Unknown \/ mirror'[f] = Known(mirror'[f].v)
             /\ \/ mirror'[f] = Unknown
                \/ /\ f \notin Touched(host.command.cmd, host.command.data)
                   /\ mirror'[f] = mirror[f]
    BY <2>1, PictureFacts DEF AgreeInv
  <2>4. AgreeType'
    BY <1>2, <2>2, <2>3 DEF AgreeInv, AgreeType
  <2>5. Unknown.k # "known"
    BY DEF Unknown
  <2>6. KnownInv'
    BY <1>2, <2>2, <2>3, <2>5 DEF AgreeInv, KnownInv
  <2> QED
    BY <1>1, <1>4, <2>4, <2>6 DEF AgreeInv
<1> QED
  BY <1>7, <1>8

\* The host receives an answer.  One that ends its command finds no command on
\* its way, and what the host believes from then on is so.
LEMMA ReceivesAgree == ASSUME AgreeInv, HostReceives PROVE AgreeInv'
<1>1. OrderInv' /\ Fewer
  BY ReceivesOrder DEF AgreeInv
<1>2. /\ txQueue # <<>> /\ txQueue' = Tail(txQueue) /\ prefs' = prefs
  BY DEF HostReceives, firmware
<1>3. /\ txQueue' \in Seq(Answers) /\ Len(txQueue') <= TxRoom
      /\ Len(txQueue) \in Nat \ {0} /\ Head(txQueue) = txQueue[1]
      /\ \A i \in 1 .. Len(txQueue') :
           i + 1 \in 1 .. Len(txQueue) /\ txQueue'[i] = txQueue[i + 1]
  BY <1>2, TailAnswers
<1>4. CASE UNCHANGED <<host, mirror>>
  BY <1>1, <1>2, <1>3, <1>4, QuietAgree DEF Quiet
<1>5. CASE /\ host.phase = "wait" /\ txQueue[1].id = host.id
           /\ \E b : host' = [host EXCEPT !.phase = "idle", !.baud = b]
           /\ mirror' = IF txQueue[1].code = "OK" THEN Believed(host.command)
                                                   ELSE Forget(host.command)
  <2>1. host'.id = host.id /\ host'.phase = "idle"
    BY <1>5 DEF AgreeInv, OrderInv, OrderType
  <2>2. 1 \in 1 .. Len(txQueue) /\ \A i \in 1 .. Len(txQueue') : 1 < i + 1
    BY <1>3
  <2>3. \A x \in OnTheWay : ~End(x)
    BY <1>5, <2>2 DEF AgreeInv, NotAnswered
  <2>4. \A x \in OnTheWay' : ~End(x)
    BY <1>1, <2>3 DEF Fewer, Harmless, End, OfCommand
  <2>5. NotAnswered'
    BY <2>4 DEF NotAnswered, EndsAsked
  <2>6. \A i \in 1 .. Len(txQueue') : txQueue'[i].id \in {0, host.id}
    BY <1>3, <1>5, <2>2 DEF AgreeInv, AnswersInv
  <2>7. AnswersInv'
    BY <2>1, <2>6 DEF AnswersInv
  <2>8. /\ OnFields(mirror')
        /\ \A f \in Fields :
             /\ mirror'[f] = Unknown \/ mirror'[f] = Known(mirror'[f].v)
    BY <1>5, PictureFacts DEF AgreeInv
  <2>9. AgreeType'
    BY <1>2, <1>3, <2>1, <2>8 DEF AgreeInv, AgreeType
  <2>10. ASSUME NEW f \in Fields, mirror'[f].k = "known" PROVE prefs[f] = mirror'[f].v
    <3>1. CASE txQueue[1].code = "OK"
      <4>1. BeliefIsTrue
        BY <1>5, <2>2, <3>1 DEF AgreeInv, AnswersInv
      <4> QED
        BY <1>5, <2>10, <3>1, <4>1 DEF BeliefIsTrue
    <3>2. CASE txQueue[1].code # "OK"
      <4>1. \/ mirror'[f] = Unknown
            \/ /\ f \notin Touched(host.command.cmd, host.command.data)
               /\ mirror'[f] = mirror[f]
        BY <1>5, <3>2, PictureFacts DEF AgreeInv
      <4>2. Unknown.k # "known"
        BY DEF Unknown
      <4> QED
        BY <2>10, <4>1, <4>2 DEF AgreeInv, KnownInv
    <3> QED
      BY <3>1, <3>2
  <2>11. KnownInv'
    BY <1>2, <2>10 DEF KnownInv
  <2> QED
    BY <1>1, <2>5, <2>7, <2>9, <2>11 DEF AgreeInv
<1> QED
  BY <1>3, <1>4, <1>5 DEF HostReceives

-------------------------------------------------------------------------------
\* What stands in front of a packet's checksum.
LEMMA FrontFacts ==
  ASSUME NEW cmd \in Letters, NEW id \in Int, NEW data \in Seq(Octets)
  PROVE  LET front == PacketFront(cmd, id, data)
         IN  /\ front[3][2] = cmd /\ front[4][2] = id
             /\ [i \in 1 .. Len(front) - 4 |-> front[i + 4][2]] = data
<1> DEFINE head == <<Stx, B(Len(data) + MinPacketSize), Letter(cmd), B(id)>>
           body == [i \in DOMAIN data |-> B(data[i])]
           S == {Stx, B(Len(data) + MinPacketSize), Letter(cmd), B(id)} \cup {B(o) : o \in Octets}
<1>1. head \in Seq(S) /\ Len(head) = 4 /\ head[3] = Letter(cmd) /\ head[4] = B(id)
  <2>1. \A a, b, c, d \in S : <<a, b, c, d>> \in Seq(S) /\ Len(<<a, b, c, d>>) = 4
                                /\ <<a, b, c, d>>[3] = c /\ <<a, b, c, d>>[4] = d
    <3> HIDE DEF S
    <3> QED OBVIOUS
  <2>2. Stx \in S /\ B(Len(data) + MinPacketSize) \in S /\ Letter(cmd) \in S /\ B(id) \in S
    OBVIOUS
  <2> HIDE DEF S
  <2> QED
    BY <2>1, <2>2
<1>2. DOMAIN data = 1 .. Len(data) /\ Len(data) \in Nat /\ \A i \in 1 .. Len(data) : data[i] \in Octets
  <2>1. \A T : data \in Seq(T) => /\ DOMAIN data = 1 .. Len(data) /\ Len(data) \in Nat
                                  /\ \A i \in 1 .. Len(data) : data[i] \in T
    OBVIOUS
  <2> QED
    BY <2>1
<1>3. body \in Seq(S) /\ Len(body) = Len(data) /\ \A i \in 1 .. Len(data) : body[i] = B(data[i])
  <2>1. \A i \in 1 .. Len(data) : B(data[i]) \in S
    BY <1>2
  <2>2. body = [i \in 1 .. Len(data) |-> B(data[i])]
    BY <1>2
  <2> HIDE DEF S
  <2> QED
    BY <1>2, <2>1, <2>2
<1> HIDE DEF head, body, S
<1>4. /\ Len(head \o body) = 4 + Len(data)
      /\ \A i \in 1 .. 4 : (head \o body)[i] = head[i]
      /\ \A i \in 1 .. Len(data) : (head \o body)[4 + i] = B(data[i])
  <2>1. /\ Len(head \o body) = Len(head) + Len(body)
        /\ \A i \in 1 .. Len(head) : (head \o body)[i] = head[i]
        /\ \A i \in 1 .. Len(body) : (head \o body)[Len(head) + i] = body[i]
    <3>1. head \in Seq(S) /\ body \in Seq(S)
      BY <1>1, <1>3
    <3> QED
      BY <3>1, ConcatProperties, LenProperties
  <2> QED
    BY <1>1, <1>3, <2>1
<1>5. PacketFront(cmd, id, data) = head \o body
  BY DEF PacketFront, head, body
<1> DEFINE front == head \o body
<1> HIDE DEF front
<1>6. /\ Len(front) = 4 + Len(data) /\ front[3] = Letter(cmd) /\ front[4] = B(id)
      /\ \A i \in 1 .. Len(data) : front[i + 4] = B(data[i])
  <2>1. 3 \in 1 .. 4 /\ 4 \in 1 .. 4 /\ \A i \in 1 .. Len(data) : 4 + i = i + 4
    BY <1>2
  <2> QED
    BY <1>1, <1>4, <2>1 DEF front
<1>7. \A m : B(m)[2] = m /\ Letter(m)[2] = m
  BY DEF B, Letter
<1>8. [i \in 1 .. Len(front) - 4 |-> front[i + 4][2]] = [i \in 1 .. Len(data) |-> data[i]]
  <2>1. Len(front) - 4 = Len(data)
    BY <1>2, <1>6
  <2>2. \A i \in 1 .. Len(data) : front[i + 4][2] = data[i]
    BY <1>6, <1>7
  <2> QED
    BY <2>1, <2>2
<1>9. [i \in 1 .. Len(data) |-> data[i]] = data
  <2>1. \A T : data \in Seq(T) => [i \in 1 .. Len(data) |-> data[i]] = data
    OBVIOUS
  <2> QED
    BY <2>1
<1> QED
  BY <1>5, <1>6, <1>7, <1>8, <1>9 DEF front

\* A command carried out touches only what the host knows it to touch, and does
\* to it what the host believes if it is told so.
LEMMA BeliefFacts ==
  ASSUME AgreeType, KnownInv, NEW c, host.command = c, host.phase = "wait", UNCHANGED <<host, mirror>>,
         prefs' = Process(c.cmd, c.data, prefs).prefs
  PROVE  /\ OnFields(prefs') /\ prefs'.baud \in BaudRateTable
         /\ KnownInv'
         /\ Process(c.cmd, c.data, prefs).code = "OK" => BeliefIsTrue'
<1> DEFINE r == Process(c.cmd, c.data, prefs)
           T == Touched(c.cmd, c.data)
<1>1. OnFields(prefs) /\ prefs.baud \in BaudRateTable /\ DOMAIN mirror = Fields
  BY DEF AgreeType, OnFields
<1>2. Effect(c.cmd, c.data, prefs)
      /\ (c.cmd # "SetMIDState" => Alike(c.cmd, c.data, prefs, Defaults))
  BY <1>1, DefaultsFacts, ProcessFacts
<1>3. /\ OnFields(r.prefs) /\ r.prefs.baud \in BaudRateTable
      /\ \A f \in Fields \ T : r.prefs[f] = prefs[f]
      /\ c.cmd # "SetMIDState" /\ r.code = "OK" =>
           \A f \in T : r.prefs[f] = Process(c.cmd, c.data, Defaults).prefs[f]
  BY <1>1, <1>2 DEF Effect, Alike
<1>4. c.cmd = "SetMIDState" =>
        /\ T = {"mids"}
        /\ r.prefs.mids \in {prefs.mids, MidsAfter(c.data, prefs.mids)}
        /\ r.code = "OK" => \A q : OnFields(q) =>
             Process(c.cmd, c.data, q).prefs.mids = MidsAfter(c.data, q.mids)
  <2> SUFFICES ASSUME c.cmd = "SetMIDState"
               PROVE  /\ T = {"mids"}
                      /\ r.prefs.mids \in {prefs.mids, MidsAfter(c.data, prefs.mids)}
                      /\ r.code = "OK" => \A q : OnFields(q) =>
                           Process(c.cmd, c.data, q).prefs.mids = MidsAfter(c.data, q.mids)
    OBVIOUS
  <2>1. T = {"mids"}
    BY DEF Touched
  <2> QED
    BY <1>1, <2>1, MidsFacts
<1>5. prefs' = r.prefs
  OBVIOUS
<1> HIDE DEF r, T
<1>6. c.cmd = "SetMIDState" /\ mirror["mids"].k = "known" =>
        prefs["mids"] \in {mirror["mids"].v, MidsAfter(c.data, mirror["mids"].v)}
  <2>1. "mids" \in Fields
    BY DEF Fields
  <2> QED
    BY <2>1 DEF KnownInv
<1>7. ASSUME NEW f \in Fields, mirror[f].k = "known"
      PROVE  \/ prefs'[f] = mirror[f].v
             \/ f \in T /\ (c.cmd = "SetMIDState" => prefs'[f] = MidsAfter(c.data, mirror[f].v))
  <2>1. CASE f \notin T
    <3>1. prefs[f] = mirror[f].v
      BY <1>7, <2>1 DEF KnownInv, T
    <3> QED
      BY <1>3, <1>5, <2>1, <3>1
  <2>2. CASE f \in T /\ c.cmd # "SetMIDState"
    BY <2>2
  <2>3. CASE f \in T /\ c.cmd = "SetMIDState"
    <3>1. f = "mids"
      BY <1>4, <2>3
    <3>2. prefs'["mids"] \in {prefs["mids"], MidsAfter(c.data, prefs["mids"])}
      BY <1>4, <1>5, <2>3
    <3>3. prefs["mids"] \in {mirror["mids"].v, MidsAfter(c.data, mirror["mids"].v)}
      BY <1>6, <1>7, <2>3, <3>1
    <3>4. \A m : MidsAfter(c.data, MidsAfter(c.data, m)) = MidsAfter(c.data, m)
      BY MidsTwice
    <3> QED
      BY <2>3, <3>1, <3>2, <3>3, <3>4
  <2> QED
    BY <2>1, <2>2, <2>3
<1>8. KnownInv'
  BY <1>7 DEF KnownInv, T
<1>9. ASSUME r.code = "OK", NEW f \in Fields, Believed(c)[f].k = "known"
      PROVE  Believed(c)[f].v = prefs'[f]
  <2>1. Unknown.k # "known" /\ \A v : Known(v).v = v
    BY DEF Unknown, Known
  <2>2. CASE f \notin T
    <3>1. Believed(c)[f] = mirror[f]
      BY <1>1, <2>2 DEF Believed, T
    <3>2. prefs[f] = mirror[f].v
      BY <1>9, <2>2, <3>1 DEF KnownInv, T
    <3> QED
      BY <1>3, <1>5, <2>2, <3>1, <3>2
  <2>3. CASE f \in T /\ c.cmd # "SetMIDState"
    <3>1. Believed(c)[f] = Known(Process(c.cmd, c.data, Defaults).prefs[f])
      BY <1>1, <2>3 DEF Believed, T
    <3> QED
      BY <1>3, <1>5, <1>9, <2>1, <2>3, <3>1
  <2>4. CASE f \in T /\ c.cmd = "SetMIDState"
    <3>1. f = "mids"
      BY <1>4, <2>4
    <3> DEFINE q == [Defaults EXCEPT !.mids = mirror.mids.v]
    <3>2. Believed(c)[f] = IF mirror.mids = Unknown THEN Unknown
                           ELSE Known(Process(c.cmd, c.data, q).prefs.mids)
      BY <1>1, <2>4 DEF Believed, T
    <3>3. OnFields(q) /\ q.mids = mirror.mids.v
      <4>1. "mids" \in Fields
        BY DEF Fields
      <4> QED
        BY <4>1, DefaultsFacts DEF OnFields
    <3> HIDE DEF q
    <3>4. Believed(c)[f].v = MidsAfter(c.data, mirror.mids.v) /\ mirror.mids # Unknown
      BY <1>4, <1>9, <2>1, <2>4, <3>2, <3>3
    <3>5. mirror["mids"].k = "known"
      <4>1. mirror["mids"] = Known(mirror["mids"].v)
        BY <3>1, <3>4 DEF AgreeType
      <4> QED
        BY <4>1 DEF Known
    <3>6. prefs["mids"] \in {mirror["mids"].v, MidsAfter(c.data, mirror["mids"].v)}
      BY <1>6, <2>4, <3>5
    <3>7. prefs'["mids"] = MidsAfter(c.data, prefs["mids"])
      BY <1>1, <1>4, <1>5, <1>9, <2>4 DEF r
    <3>8. \A m : MidsAfter(c.data, MidsAfter(c.data, m)) = MidsAfter(c.data, m)
      BY MidsTwice
    <3> QED
      BY <3>1, <3>4, <3>6, <3>7, <3>8
  <2> QED
    BY <2>2, <2>3, <2>4
<1>10. Believed(host.command)' = Believed(c)
  BY DEF Believed
<1>11. r.code = "OK" => BeliefIsTrue'
  BY <1>9, <1>10 DEF BeliefIsTrue
<1> QED
  BY <1>3, <1>5, <1>8, <1>11 DEF r

\* One answer behind another, or alone.
LEMMA OneOrTwo ==
  ASSUME NEW S, NEW o \in S, NEW a \in S, NEW rs, rs = <<o>> \/ rs = <<>>
  PROVE  LET ps == rs \o <<a>> IN ps \in Seq(S) /\ \A j \in 1 .. Len(ps) : ps[j] \in {o, a}
<1>1. CASE rs = <<>>
  <2>1. <<a>> \in Seq(S) /\ \A j \in 1 .. Len(<<a>>) : <<a>>[j] \in {o, a}
    OBVIOUS
  <2>2. <<>> \o <<a>> = <<a>>
    BY <2>1, ConcatEmptySeq
  <2> QED
    BY <1>1, <2>1, <2>2
<1>2. CASE rs = <<o>>
  <2> DEFINE s == <<o>>
             t == <<a>>
  <2>1. s \in Seq(S) /\ t \in Seq(S) /\ Len(s) = 1 /\ Len(t) = 1 /\ s[1] = o /\ t[1] = a
    OBVIOUS
  <2> HIDE DEF s, t
  <2>2. /\ s \o t \in Seq(S) /\ Len(s \o t) = Len(s) + Len(t)
        /\ \A i \in 1 .. Len(s) : (s \o t)[i] = s[i]
        /\ \A i \in 1 .. Len(t) : (s \o t)[Len(s) + i] = t[i]
    <3>1. s \in Seq(S) /\ t \in Seq(S)
      BY <2>1
    <3> QED
      BY <3>1, ConcatProperties, LenProperties
  <2>3. \A j \in 1 .. Len(s \o t) : (s \o t)[j] \in {o, a}
    <3>1. Len(s \o t) = 2 /\ (s \o t)[1] = o /\ (s \o t)[2] = a
      BY <2>1, <2>2
    <3> QED
      BY <3>1
  <2> QED
    BY <1>2, <2>2, <2>3 DEF s, t
<1> QED
  BY <1>1, <1>2

\* The answers to the command on its way are the first ones under its id; one
\* that accepts it is true.
LEMMA AnswersGrow ==
  ASSUME AgreeInv, UNCHANGED host, host.phase = "wait",
         \A i \in 1 .. Len(txQueue) : txQueue[i].id # host.id,
         NEW ps \in Seq(Answers), \A j \in 1 .. Len(ps) : ps[j].id = host.id,
         (\E j \in 1 .. Len(ps) : ps[j].code = "OK") => BeliefIsTrue',
         txQueue' = Transmitted(txQueue, ps)
  PROVE  AnswersInv' /\ txQueue' \in Seq(Answers) /\ Len(txQueue') <= TxRoom
<1>1. txQueue \in Seq(Answers) /\ Len(txQueue) <= TxRoom /\ Len(txQueue) \in Nat
  BY DEF AgreeInv, AgreeType
<1>2. /\ txQueue' \in Seq(Answers) /\ Len(txQueue') <= TxRoom
      /\ \A i \in 1 .. Len(txQueue') :
           \/ i <= Len(txQueue) /\ txQueue'[i] = txQueue[i]
           \/ i > Len(txQueue) /\ \E j \in 1 .. Len(ps) : txQueue'[i] = ps[j]
  BY <1>1, TransmittedFacts
<1>3. \A i \in 1 .. Len(txQueue') :
        \/ i <= Len(txQueue) /\ txQueue'[i].id # host.id
        \/ /\ i > Len(txQueue) /\ txQueue'[i].id = host.id
           /\ txQueue'[i].code = "OK" => BeliefIsTrue'
  <2>1. \A i \in 1 .. Len(txQueue') : i <= Len(txQueue) => i \in 1 .. Len(txQueue)
    BY <1>1
  <2> QED
    BY <1>2, <2>1
<1>4. \A i, j \in 1 .. Len(txQueue') :
        i < j /\ txQueue'[i].id = host.id => txQueue'[j].id = host.id
  BY <1>1, <1>3
<1>5. \A i \in 1 .. Len(txQueue') :
        txQueue'[i].id = host.id /\ txQueue'[i].code = "OK" => BeliefIsTrue'
  BY <1>3
<1>6. AnswersInv'
  BY <1>4, <1>5 DEF AnswersInv
<1> QED
  BY <1>2, <1>6

\* A packet is taken out of the parser.  If it is a command then it is the one
\* the host waits for, no other is on its way, and it is answered now.
LEMMA TakenAgree == ASSUME AgreeInv, NEW x, TakenOut(x) PROVE AgreeInv'
<1>1. OrderInv' /\ Fewer
  BY ProcessOrder DEF AgreeInv
<1>2. UNCHANGED <<host, mirror>> /\ x \in OnTheWay /\ x[1] = "crc" /\ x[2] = 2
      /\ \A y \in OnTheWay' : y \in OnTheWay /\ Follows(Keeps, x, y)
  BY DEF TakenOut
<1>3. Genuine(x) /\ OrderType
  BY <1>2 DEF AgreeInv, OrderInv
<1>4. CASE NoCommandCarriedOut
  BY <1>1, <1>2, <1>4, SameAnswers DEF NoCommandCarriedOut, Quiet, firmware
<1>5. CASE CmdOf(x) # "ACK"
  <2>1. End(x)
    BY <1>2, <1>3, <1>5 DEF End, OfCommand, Genuine
  <2>2. /\ host.phase = "wait"
        /\ x[3] = PacketFront(host.command.cmd, host.id, host.command.data)
        /\ \A i \in 1 .. Len(txQueue) : txQueue[i].id # host.id
    BY <1>2, <2>1 DEF AgreeInv, NotAnswered, EndsAsked
  <2> DEFINE c == host.command
             cmd == c.cmd
             data == c.data
  <2>3. IdOf(x) = host.id /\ CmdOf(x) = cmd /\ DataOf(x) = data
    <3>1. cmd \in Letters /\ data \in Seq(Octets)
      BY <1>3, CommandTyped DEF OrderType
    <3>2. host.id \in Int
      BY <1>3 DEF OrderType
    <3> HIDE DEF cmd, data
    <3>3. LET front == PacketFront(cmd, host.id, data)
          IN  /\ front[3][2] = cmd /\ front[4][2] = host.id
              /\ [i \in 1 .. Len(front) - 4 |-> front[i + 4][2]] = data
      BY <3>1, <3>2, FrontFacts
    <3>4. x[3] = PacketFront(cmd, host.id, data)
      BY <2>2 DEF cmd, data
    <3> QED
      BY <3>3, <3>4 DEF IdOf, CmdOf, DataOf
  <2>4. \A y \in OnTheWay' : ~End(y)
    BY <1>2, <2>1 DEF Follows, End
  <2>5. NotAnswered'
    BY <2>4 DEF NotAnswered, EndsAsked
  <2>6. /\ AgreeType /\ KnownInv /\ prefs.baud \in BaudRateTable /\ host.id \in Int
        /\ \A code \in Codes : Ack(code, host.id) \in Answers /\ Ack(code, host.id).id = host.id
                               /\ Ack(code, host.id).code = code
    BY <1>3 DEF AgreeInv, AgreeType, OrderType, Ack, Answers
  <2>7. CASE SaidDuplicate(x)
    <3> DEFINE a == Ack("DUPLICATE_PACKET", host.id)
               ps == <<a>>
    <3>1. "DUPLICATE_PACKET" \in Codes
      BY DEF Codes
    <3>2. a \in Answers /\ a.id = host.id /\ a.code # "OK"
      BY <2>6, <3>1
    <3>3. txQueue' = Transmitted(txQueue, ps) /\ prefs' = prefs
      BY <2>3, <2>7 DEF SaidDuplicate, firmware
    <3> HIDE DEF a
    <3>4. ps \in Seq(Answers) /\ Len(ps) = 1 /\ \A j \in 1 .. Len(ps) : ps[j] = a
      BY <3>2
    <3> HIDE DEF ps
    <3>5. AnswersInv' /\ txQueue' \in Seq(Answers) /\ Len(txQueue') <= TxRoom
      BY <1>2, <2>2, <3>2, <3>3, <3>4, AnswersGrow
    <3>6. AgreeType'
      BY <1>2, <2>6, <3>3, <3>5 DEF AgreeType
    <3>7. KnownInv'
      BY <1>2, <2>6, <3>3 DEF KnownInv
    <3> QED
      BY <1>1, <2>5, <3>5, <3>6, <3>7 DEF AgreeInv
  <2>8. ASSUME NEW code, CarriedOut(x, code) PROVE AgreeInv'
    <3> DEFINE r == Process(c.cmd, c.data, prefs)
               ps == Reports(host.id) \o <<Ack(code, host.id)>>
    <3>1. /\ code \in {r.code, "UNABLE_TO_PROCESS", "INVALID_DATA", "BUS_FAULT"} /\ prefs' = r.prefs
          /\ txQueue' = Transmitted(txQueue, ps)
      BY <2>3, <2>8 DEF CarriedOut, Said
    <3>2. /\ OnFields(prefs') /\ prefs'.baud \in BaudRateTable /\ KnownInv'
          /\ r.code = "OK" => BeliefIsTrue'
      BY <1>2, <2>2, <2>6, <3>1, BeliefFacts
    <3>3. r.code \in Codes
      BY <2>6, DefaultsFacts, ProcessFacts DEF AgreeType, Effect
    <3>4. code \in Codes /\ (code = "OK" => BeliefIsTrue') /\ "OVERFLOW_OCCURRED" \in Codes
      BY <3>1, <3>2, <3>3 DEF Codes
    <3> DEFINE a == Ack(code, host.id)
               o == Ack("OVERFLOW_OCCURRED", host.id)
    <3>5. /\ a \in Answers /\ a.id = host.id /\ (a.code = "OK" => BeliefIsTrue')
          /\ o \in Answers /\ o.id = host.id /\ o.code # "OK"
      BY <2>6, <3>4
    <3>6. ps \in Seq(Answers) /\ \A j \in 1 .. Len(ps) : ps[j] \in {o, a}
      <4>1. Reports(host.id) = <<o>> \/ Reports(host.id) = <<>>
        BY DEF Reports
      <4> HIDE DEF a, o
      <4>2. o \in Answers /\ a \in Answers
        BY <3>5
      <4>3. ps = Reports(host.id) \o <<a>>
        BY DEF a
      <4> QED
        BY <4>1, <4>2, <4>3, OneOrTwo
    <3> HIDE DEF a, o, ps
    <3>7. /\ \A j \in 1 .. Len(ps) : ps[j].id = host.id
          /\ (\E j \in 1 .. Len(ps) : ps[j].code = "OK") => BeliefIsTrue'
      BY <3>5, <3>6
    <3>8. AnswersInv' /\ txQueue' \in Seq(Answers) /\ Len(txQueue') <= TxRoom
      BY <1>2, <2>2, <3>1, <3>6, <3>7, AnswersGrow
    <3>9. AgreeType'
      BY <1>2, <2>6, <3>2, <3>8 DEF AgreeType
    <3> QED
      BY <1>1, <2>5, <3>2, <3>8, <3>9 DEF AgreeInv
  <2> QED
    BY <1>4, <2>7, <2>8 DEF TakenOut
<1> QED
  BY <1>4, <1>5 DEF TakenOut, SaidDuplicate, CarriedOut

\* At the start the host knows nothing.
LEMMA InitAgree == Init => AgreeInv
<1> SUFFICES ASSUME Init PROVE AgreeInv
  OBVIOUS
<1>1. OrderInv
  BY InitOrder
<1>2. /\ txQueue = <<>> /\ mirror = NothingKnown /\ prefs = Defaults
      /\ line = <<>> /\ rxQueue = <<>> /\ curPacketBuf = <<>> /\ host.id = MaxID
  BY DEF Init
<1>3. OnTheWay = {} /\ Len(txQueue) = 0 /\ 1 .. 0 = {}
  BY <1>2 DEF OnTheWay, ToSet
<1>4. mirror = [f \in Fields |-> Unknown]
  BY <1>2, DefaultsFacts DEF NothingKnown
<1>5. AgreeType
  <2>1. <<>> \in Seq(Answers)
    OBVIOUS
  <2> QED
    BY <1>2, <1>3, <1>4, <2>1, DefaultsFacts, CommandsAssumption DEF AgreeType, OnFields
<1>6. AnswersInv /\ NotAnswered
  BY <1>3 DEF AnswersInv, NotAnswered, EndsAsked
<1>7. KnownInv
  BY <1>4 DEF KnownInv, Unknown
<1> QED
  BY <1>1, <1>5, <1>6, <1>7 DEF AgreeInv

\* No step disturbs the order, nor the host's picture.
LEMMA StepAgree == AgreeInv /\ [Next]_vars => AgreeInv'
<1> SUFFICES ASSUME AgreeInv, [Next]_vars PROVE AgreeInv'
  OBVIOUS
<1>1. CASE ByteArrives \/ ReceiveTimeout \/ TakeTwo \/ Waits
  BY <1>1, BytesAgree
<1>2. CASE Invalid
  BY <1>2, InvalidAgree
<1>3. CASE Process232Packet
  <2>1. PICK x : TakenOut(x)
    BY <1>3, PacketTaken DEF AgreeInv
  <2> QED
    BY <2>1, TakenAgree
<1>4. CASE Traffic \/ \E b \in Buses : Overflow(b)
  BY <1>4, BusesAgree
<1>5. CASE LineFails
  BY <1>5, FailsAgree
<1>6. CASE HostCommand
  BY <1>6, CommandAgree
<1>7. CASE HostTimeout
  BY <1>7, RepeatAgree
<1>8. CASE HostReceives
  BY <1>8, ReceivesAgree
<1>9. CASE UNCHANGED vars
  <2>1. /\ UNCHANGED <<line, rxQueue, curPacketBuf, executed, lastPacketID, host>>
        /\ Quiet /\ txQueue' = txQueue
    BY <1>9 DEF vars, parser, firmware, Quiet
  <2> QED
    BY <2>1, BusesOrder, SameAnswers DEF AgreeInv
<1> QED
  BY <1>1, <1>2, <1>3, <1>4, <1>5, <1>6, <1>7, <1>8, <1>9 DEF Next, Parse

(***************************************************************************)
(* Whatever the line loses, changes or cuts off, commands are carried out  *)
(* in the order the host gave them, and a command repeated under its id is *)
(* carried out once, except those that make the firmware forget the last id*)
(* (the search for STX, the checksum, lastPacketID).                       *)
(***************************************************************************)
THEOREM CarriedOutInOrder == Spec => []ExecutedInOrder
<1>1. AgreeInv => ExecutedInOrder
  BY DEF AgreeInv, OrderInv
<1> QED
  BY <1>1, InitAgree, StepAgree, PTL DEF Spec

(***************************************************************************)
(* What the host was told is so: while it waits for nothing, a setting     *)
(* whose last command was acknowledged has the value the host gave it,     *)
(* whatever was damaged, repeated, cut short or refused in between (the    *)
(* settings behind Process232Packet, and the acknowledgements).            *)
(***************************************************************************)
THEOREM HostKnowsSettings == Spec => []SettingsAgree
<1>1. AgreeInv => SettingsAgree
  <2> SUFFICES ASSUME AgreeInv, host.phase = "idle", NEW f \in DOMAIN mirror,
                      mirror[f].k = "known"
               PROVE  mirror[f].v = prefs[f]
    BY DEF SettingsAgree
  <2>1. f \in Fields
    BY DEF AgreeInv, AgreeType, OnFields
  <2> QED
    BY <2>1 DEF AgreeInv, KnownInv
<1> QED
  BY <1>1, InitAgree, StepAgree, PTL DEF Spec
===============================================================================
