------------------------ MODULE RP1210Library_proofs ------------------------
(***************************************************************************)
(* Theorems about the RP1210 library, for any threads, clients and ids.    *)
(*                                                                         *)
(* The ids of notified sends: none is in two places because a query is     *)
(* answered once, to the call that sent it (OwnQueries), and because a     *)
(* connection that ends gives back each id it held, in one datagram        *)
(* (ClearOnce).                                                            *)
(*                                                                         *)
(* The readers: for each message in the queue of a client on which         *)
(* somebody sleeps a reader is awake, and the handles that are listed are  *)
(* no more than the other readers on their events (Due).                   *)
(*                                                                         *)
(* What the application is told of its sends: each is in one place, with a *)
(* thread, in a list or answered for (WhereInv), what the driver says of   *)
(* an id is meant for the transaction that has it (Matching), and a thread *)
(* finds its own transaction when it returns (CleanOK).                    *)
(***************************************************************************)
EXTENDS RP1210Library, SequenceTheorems, FiniteSetTheorems, WellFoundedInduction, TLAPS

\* Some natural numbers have a smallest (the order of Nat is well-founded).
LEMMA Smallest ==
  ASSUME NEW T, T \subseteq Nat, T # {}
  PROVE  \E x \in T : \A y \in T : x <= y
<1> DEFINE R == OpToRel(<, Nat)
<1>1. IsWellFoundedOn(R, Nat)
  BY NatLessThanWellFounded
<1>2. \A i, j \in Nat : i < j => <<i, j>> \in R
  BY DEF OpToRel
<1> HIDE DEF R
<1>3. PICK x \in T : \A y \in T : ~(<<y, x>> \in R)
  BY <1>1, WFMin
<1>4. \A y \in T : ~(y < x)
  BY <1>2, <1>3
<1> QED
  BY <1>4

(***************************************************************************)
(* The types.                                                              *)
(***************************************************************************)
Sending == Blocking \cup {"notify"}
Calls == {"connect", "disconnect", "status"} \cup Sending
Transactions == [notify : BOOLEAN, id : Nat, m : Nat, code : {"uninitialised", "failed", "ok"}]
Handles == [by : Threads, ev : Nat]
Connection ==
  [valid : BOOLEAN, recvMsgQueue : Nat, recvMsgEvents : Seq(Handles), transactions : Seq(Transactions)]
Thread ==
  [at : {"idle", "query", "window", "named", "waiting", "woken"}, op : Calls \cup {"none", "read"},
   c : Clients, m : Nat, id : Nat, tries : Nat, missed : BOOLEAN]
Promises == [c : Clients, notify : BOOLEAN, id : Nat, m : Nat]
Driver ==
  [up : BOOLEAN, taken : SUBSET Clients, pending : SUBSET Promises, avail : SUBSET Nat,
   idx : MsgIds, block : Nat]
Queries == [q : Calls, c : Clients, m : Nat, own : BOOLEAN]
Freeing == [q : {"freeMsgId"}, id : Nat]
Datagrams == Queries \cup Freeing
Outcomes == [kind : {"outcome"}, c : Clients, notify : BOOLEAN, id : Nat, m : Nat, ok : BOOLEAN]
News == Outcomes \cup [kind : {"readmessage"}, c : Clients]
Limited == {"connect", "disconnect", "send", "read", "status", "forward", "fault"}

LibraryTypeOK ==
  /\ connections \in [Clients -> Connection]
  /\ th \in [Threads -> Thread]
  /\ readEventId \in Nat /\ linked \in BOOLEAN
  /\ driver \in Driver /\ IsFiniteSet(driver.pending)
  /\ toDriver \in Seq(Datagrams) /\ toListener \in Seq(News)
  /\ allowance \in [Limited -> Nat]

(***************************************************************************)
(* Where an id is.                                                         *)
(***************************************************************************)
AtMostOne(S) == \A x, y \in S : x = y
Notes(k, id) == {i \in DOMAIN k.transactions : k.transactions[i].notify /\ k.transactions[i].id = id}
Frees(d, id) == {i \in DOMAIN d : ~IsQuery(d[i]) /\ d[i].id = id}
HeldIn(con, id) == \E c \in Clients : Notes(con[c], id) # {}

\* With the connections con and the datagrams d, the ids that are free and lost.
Once(con, d, free, gone, id) ==
  /\ \A c \in Clients : AtMostOne(Notes(con[c], id))
  /\ \A b, c \in Clients : Notes(con[b], id) # {} /\ Notes(con[c], id) # {} => b = c
  /\ AtMostOne(Frees(d, id))
  /\ \/ HeldIn(con, id) /\ Frees(d, id) = {} /\ id \notin free /\ id \notin gone
     \/ ~HeldIn(con, id) /\ Frees(d, id) # {} /\ id \notin free /\ id \notin gone
     \/ ~HeldIn(con, id) /\ Frees(d, id) = {} /\ id \in free /\ id \notin gone
     \/ ~HeldIn(con, id) /\ Frees(d, id) = {} /\ id \notin free /\ id \in gone

\* The queries that are the current call's.
OwnQueries ==
  /\ \A t, u \in At("query") : t = u
  /\ \A t \in At("query") : th[t].op \in Calls
  /\ \A i \in DOMAIN toDriver : IsQuery(toDriver[i]) /\ toDriver[i].own =>
       \E t \in At("query") : th[t].op = toDriver[i].q

\* What is there when the driver is not, or was not found.
WithoutDriver ==
  /\ ~driver.up => toDriver = <<>> /\ lost = {}
  /\ ~linked => ~driver.up /\ \A c \in Clients : Notifications(c) = {}

IdsInv ==
  /\ LibraryTypeOK /\ OwnQueries /\ WithoutDriver
  /\ driver.up /\ ~Confused =>
       \A id \in MsgIds : Once(connections, toDriver, driver.avail, lost, id)

LEMMA ProductFacts ==
  ASSUME NEW a
  PROVE  {a} \X {} = {} /\ \A x : {a} \X {x} = {<<a, x>>}
  OBVIOUS

LEMMA OnceIsAccounted ==
  ASSUME NEW id, Once(connections, toDriver, driver.avail, lost, id)
  PROVE  Cardinality(Uses(id)) = 1
<1> DEFINE held == {"held"} \X Held(id)  back == {"back"} \X Back(id)
           free == {"avail"} \X ({id} \cap driver.avail)  gone == {"lost"} \X ({id} \cap lost)
<1>0. Uses(id) = ((held \cup back) \cup free) \cup gone
  BY DEF Uses
<1>1. \E p : Uses(id) = {p}
  <2>1. Held(id) = UNION {{c} \X Notes(connections[c], id) : c \in Clients} /\ Back(id) = Frees(toDriver, id)
    BY DEF Held, Back, Notes, Frees, Notifications
  <2>2. CASE HeldIn(connections, id)
    <3>1. PICK c \in Clients : \E i : i \in Notes(connections[c], id)
      BY <2>2 DEF HeldIn
    <3>0. PICK i : i \in Notes(connections[c], id)
      BY <3>1
    <3>2. Held(id) = {<<c, i>>}
      <4>1. \A b \in Clients : Notes(connections[b], id) # {} => b = c
        BY <3>1 DEF Once
      <4>2. Notes(connections[c], id) = {i}
        BY <3>0 DEF Once, AtMostOne
      <4> QED
        BY <2>1, <4>1, <4>2
    <3>3. Back(id) = {} /\ id \notin driver.avail /\ id \notin lost
      BY <2>1, <2>2 DEF Once
    <3>4. {id} \cap driver.avail = {} /\ {id} \cap lost = {}
      BY <3>3
    <3>5. held = {<<"held", <<c, i>>>>} /\ back = {} /\ free = {} /\ gone = {}
      BY <3>2, <3>3, <3>4, ProductFacts
    <3> HIDE DEF held, back, free, gone
    <3> QED
      BY <1>0, <3>5
  <2>3. CASE ~HeldIn(connections, id)
    <3>1. Held(id) = {}
      BY <2>1, <2>3 DEF HeldIn
    <3>2. CASE Back(id) # {}
      <4>1. \A x, y \in Back(id) : x = y
        BY <2>1 DEF Once, AtMostOne
      <4>2. PICK i : i \in Back(id)
        BY <3>2
      <4>3. Back(id) = {i}
        BY <4>1, <4>2
      <4>4. {id} \cap driver.avail = {} /\ {id} \cap lost = {}
        BY <2>1, <2>3, <3>2 DEF Once
      <4>5. held = {} /\ back = {<<"back", i>>} /\ free = {} /\ gone = {}
        BY <3>1, <4>3, <4>4, ProductFacts
      <4> HIDE DEF held, back, free, gone
      <4> QED
        BY <1>0, <4>5
    <3>3. CASE Back(id) = {} /\ id \in driver.avail
      <4>1. {id} \cap lost = {} /\ {id} \cap driver.avail = {id}
        BY <3>3 DEF Once
      <4>2. held = {} /\ back = {} /\ free = {<<"avail", id>>} /\ gone = {}
        BY <3>1, <3>3, <4>1, ProductFacts
      <4> HIDE DEF held, back, free, gone
      <4> QED
        BY <1>0, <4>2
    <3>4. CASE Back(id) = {} /\ id \notin driver.avail
      <4>1. {id} \cap lost = {id} /\ {id} \cap driver.avail = {}
        BY <2>1, <2>3, <3>4 DEF Once
      <4>2. held = {} /\ back = {} /\ free = {} /\ gone = {<<"lost", id>>}
        BY <3>1, <3>4, <4>1, ProductFacts
      <4> HIDE DEF held, back, free, gone
      <4> QED
        BY <1>0, <4>2
    <3> QED
      BY <3>2, <3>3, <3>4
  <2> QED
    BY <2>2, <2>3
<1> QED
  BY <1>1, FS_Singleton

(***************************************************************************)
(* The places of ids in lists that change.                                 *)
(***************************************************************************)
LEMMA TakenOut ==
  ASSUME NEW n \in Nat, NEW i \in 1 .. n, NEW A, A \subseteq 1 .. n, NEW B,
         B = {j \in 1 .. n - 1 : (IF j < i THEN j ELSE j + 1) \in A}
  PROVE  /\ AtMostOne(A) => AtMostOne(B)
         /\ i \in A /\ AtMostOne(A) => B = {}
         /\ i \notin A => (B = {} <=> A = {})
<1>1. \A j, k \in 1 .. n - 1 :
        (IF j < i THEN j ELSE j + 1) = (IF k < i THEN k ELSE k + 1) => j = k
  OBVIOUS
<1>2. \A j \in 1 .. n - 1 : (IF j < i THEN j ELSE j + 1) # i
  OBVIOUS
<1>3. AtMostOne(A) => AtMostOne(B)
  BY <1>1 DEF AtMostOne
<1>4. i \in A /\ AtMostOne(A) => B = {}
  BY <1>2 DEF AtMostOne
<1>5. ASSUME i \notin A, NEW a \in A PROVE B # {}
  <2>1. CASE a < i
    <3>1. a \in 1 .. n - 1
      BY <2>1
    <3> QED
      BY <2>1, <3>1
  <2>2. CASE a > i
    <3>1. a - 1 \in 1 .. n - 1 /\ ~(a - 1 < i) /\ (a - 1) + 1 = a
      BY <2>2
    <3> QED
      BY <3>1
  <2> QED
    BY <1>5, <2>1, <2>2
<1> QED
  BY <1>3, <1>4, <1>5

LEMMA RemoveAtFacts ==
  ASSUME NEW X, NEW s \in Seq(X), NEW i \in 1 .. Len(s)
  PROVE  /\ RemoveAt(s, i) \in Seq(X) /\ Len(RemoveAt(s, i)) = Len(s) - 1
         /\ \A j \in 1 .. Len(s) - 1 : RemoveAt(s, i)[j] = s[IF j < i THEN j ELSE j + 1]
<1>1. Len(s) \in Nat /\ \A j \in 1 .. Len(s) : s[j] \in X
  BY LenProperties, ElementOfSeq
<1> DEFINE a == SubSeq(s, 1, i - 1)  b == SubSeq(s, i + 1, Len(s))
<1>2. /\ a \in Seq(X) /\ Len(a) = i - 1 /\ \A j \in 1 .. i - 1 : a[j] = s[j]
      /\ b \in Seq(X) /\ Len(b) = Len(s) - i /\ \A j \in 1 .. Len(s) - i : b[j] = s[i + j]
  <2>1. /\ a \in Seq(X) /\ Len(a) = i - 1 /\ \A j \in 1 .. i - 1 : a[j] = s[j]
    BY <1>1
  <2>2. /\ b \in Seq(X) /\ Len(b) = Len(s) - i /\ \A j \in 1 .. Len(s) - i : b[j] = s[i + j]
    BY <1>1
  <2> QED
    BY <2>1, <2>2
<1>3. RemoveAt(s, i) = a \o b
  BY DEF RemoveAt
<1> HIDE DEF a, b
<1>4. /\ a \o b \in Seq(X) /\ Len(a \o b) = Len(s) - 1
      /\ \A j \in 1 .. Len(s) - 1 :
           (a \o b)[j] = IF j <= i - 1 THEN a[j] ELSE b[j - (i - 1)]
  <2>1. /\ a \o b \in Seq(X) /\ Len(a \o b) = Len(a) + Len(b)
        /\ \A j \in 1 .. Len(a) + Len(b) :
             (a \o b)[j] = IF j <= Len(a) THEN a[j] ELSE b[j - Len(a)]
    BY <1>2, ConcatProperties
  <2>2. Len(a) + Len(b) = Len(s) - 1
    BY <1>1, <1>2
  <2> QED
    BY <1>2, <2>1, <2>2
<1>5. ASSUME NEW j \in 1 .. Len(s) - 1
      PROVE  (a \o b)[j] = s[IF j < i THEN j ELSE j + 1]
  <2>1. CASE j < i
    BY <1>1, <1>2, <1>4, <2>1
  <2>2. CASE ~(j < i)
    <3>1. j - (i - 1) \in 1 .. Len(s) - i /\ i + (j - (i - 1)) = j + 1 /\ ~(j <= i - 1)
      BY <1>1, <2>2
    <3> QED
      BY <1>2, <1>4, <2>2, <3>1
  <2> QED
    BY <2>1, <2>2
<1> QED
  BY <1>3, <1>4, <1>5

\* A transaction is taken out of a list, or put at its end.
LEMMA NotesRemoved ==
  ASSUME NEW k, k.transactions \in Seq(Transactions), NEW i \in DOMAIN k.transactions, NEW id,
         NEW new, new.transactions = RemoveAt(k.transactions, i)
  PROVE  /\ new.transactions \in Seq(Transactions)
         /\ AtMostOne(Notes(k, id)) => AtMostOne(Notes(new, id))
         /\ i \in Notes(k, id) /\ AtMostOne(Notes(k, id)) => Notes(new, id) = {}
         /\ i \notin Notes(k, id) => (Notes(new, id) = {} <=> Notes(k, id) = {})
<1> DEFINE s == k.transactions  r == RemoveAt(s, i)
<1>1. Len(s) \in Nat /\ DOMAIN s = 1 .. Len(s) /\ i \in 1 .. Len(s)
  BY LenProperties
<1>2. /\ r \in Seq(Transactions) /\ Len(r) = Len(s) - 1
      /\ \A j \in 1 .. Len(s) - 1 : r[j] = s[IF j < i THEN j ELSE j + 1]
  BY <1>1, RemoveAtFacts
<1>3. DOMAIN r = 1 .. Len(s) - 1
  BY <1>2, LenProperties
<1>4. Notes(k, id) = {j \in 1 .. Len(s) : s[j].notify /\ s[j].id = id}
  BY <1>1 DEF Notes
<1>5. Notes(new, id) = {j \in 1 .. Len(s) - 1 : r[j].notify /\ r[j].id = id}
  BY <1>3 DEF Notes
<1>6. \A j \in 1 .. Len(s) - 1 : (IF j < i THEN j ELSE j + 1) \in 1 .. Len(s)
  BY <1>1
<1> HIDE DEF s, r
<1>7. Notes(new, id) = {j \in 1 .. Len(s) - 1 : (IF j < i THEN j ELSE j + 1) \in Notes(k, id)}
  BY <1>2, <1>4, <1>5, <1>6
<1>8. Notes(k, id) \subseteq 1 .. Len(s)
  BY <1>4
<1> QED
  BY <1>1, <1>2, <1>7, <1>8, TakenOut DEF r, s

LEMMA NotesAppended ==
  ASSUME NEW k, k.transactions \in Seq(Transactions), NEW x \in Transactions, NEW id,
         NEW new, new.transactions = Append(k.transactions, x)
  PROVE  /\ new.transactions \in Seq(Transactions)
         /\ ~(x.notify /\ x.id = id) => Notes(new, id) = Notes(k, id)
         /\ x.notify /\ x.id = id => Notes(new, id) = Notes(k, id) \cup {Len(k.transactions) + 1}
<1> DEFINE s == k.transactions  r == Append(s, x)
<1>1. Len(s) \in Nat /\ DOMAIN s = 1 .. Len(s)
  BY LenProperties
<1>2. /\ r \in Seq(Transactions) /\ Len(r) = Len(s) + 1 /\ DOMAIN r = 1 .. Len(s) + 1
      /\ \A j \in 1 .. Len(s) : r[j] = s[j]
      /\ r[Len(s) + 1] = x
  BY <1>1, AppendProperties, LenProperties
<1>3. Notes(k, id) = {j \in 1 .. Len(s) : s[j].notify /\ s[j].id = id}
  BY <1>1 DEF Notes
<1>4. Notes(new, id) = {j \in 1 .. Len(s) + 1 : r[j].notify /\ r[j].id = id}
  BY <1>2 DEF Notes
<1>5. \A j : j \in 1 .. Len(s) + 1 <=> j \in 1 .. Len(s) \/ j = Len(s) + 1
  BY <1>1
<1>6. Len(s) + 1 \notin 1 .. Len(s)
  BY <1>1
<1>7. new.transactions = r
  OBVIOUS
<1> HIDE DEF r
<1>8. \A j : j \in Notes(new, id) <=> j \in Notes(k, id) \/ (j = Len(s) + 1 /\ x.notify /\ x.id = id)
  BY <1>2, <1>3, <1>4, <1>5, <1>6
<1> HIDE DEF s
<1>9. ~(x.notify /\ x.id = id) => Notes(new, id) = Notes(k, id)
  BY <1>8
<1>10. x.notify /\ x.id = id => Notes(new, id) = Notes(k, id) \cup {Len(s) + 1}
  BY <1>8
<1> QED
  BY <1>2, <1>7, <1>9, <1>10 DEF s

\* A datagram is taken from the front of the queue, or put at its end.
LEMMA FreesOfTail ==
  ASSUME NEW d \in Seq(Datagrams), d # <<>>, NEW id
  PROVE  /\ Tail(d) \in Seq(Datagrams) /\ Head(d) \in Datagrams
         /\ AtMostOne(Frees(d, id)) => AtMostOne(Frees(Tail(d), id))
         /\ ~IsQuery(Head(d)) /\ Head(d).id = id /\ AtMostOne(Frees(d, id)) => Frees(Tail(d), id) = {}
         /\ IsQuery(Head(d)) \/ Head(d).id # id => (Frees(Tail(d), id) = {} <=> Frees(d, id) = {})
<1>1. Len(d) \in Nat /\ Len(d) >= 1 /\ DOMAIN d = 1 .. Len(d)
  BY LenProperties, EmptySeq
<1>2. /\ Tail(d) \in Seq(Datagrams) /\ Len(Tail(d)) = Len(d) - 1
      /\ \A j \in 1 .. Len(d) - 1 : Tail(d)[j] = d[j + 1]
      /\ Head(d) = d[1] /\ Head(d) \in Datagrams
  BY <1>1, HeadTailProperties, ElementOfSeq
<1>3. DOMAIN Tail(d) = 1 .. Len(d) - 1
  BY <1>2, LenProperties
<1>4. Frees(d, id) = {j \in 1 .. Len(d) : ~IsQuery(d[j]) /\ d[j].id = id}
  BY <1>1 DEF Frees
<1>5. Frees(Tail(d), id) = {j \in 1 .. Len(d) - 1 : ~IsQuery(d[j + 1]) /\ d[j + 1].id = id}
  BY <1>2, <1>3 DEF Frees
<1>6. \A j \in 1 .. Len(d) - 1 : ~(j < 1) /\ j + 1 \in 1 .. Len(d)
  BY <1>1
<1>7. Frees(Tail(d), id) = {j \in 1 .. Len(d) - 1 : (IF j < 1 THEN j ELSE j + 1) \in Frees(d, id)}
  BY <1>4, <1>5, <1>6
<1>8. Frees(d, id) \subseteq 1 .. Len(d) /\ 1 \in 1 .. Len(d)
  BY <1>1, <1>4
<1>9. 1 \in Frees(d, id) <=> ~IsQuery(Head(d)) /\ Head(d).id = id
  BY <1>2, <1>4, <1>8
<1> QED
  BY <1>1, <1>2, <1>7, <1>8, <1>9, TakenOut

LEMMA TailIsPart ==
  ASSUME NEW X, NEW d \in Seq(X), d # <<>>
  PROVE  \A i \in DOMAIN Tail(d) : \E j \in DOMAIN d : Tail(d)[i] = d[j]
<1>1. Len(d) \in Nat /\ Len(d) >= 1 /\ DOMAIN d = 1 .. Len(d)
  BY LenProperties, EmptySeq
<1>2. /\ Tail(d) \in Seq(X) /\ Len(Tail(d)) = Len(d) - 1
      /\ \A j \in 1 .. Len(d) - 1 : Tail(d)[j] = d[j + 1]
  BY <1>1, HeadTailProperties
<1>3. DOMAIN Tail(d) = 1 .. Len(d) - 1
  BY <1>2, LenProperties
<1>4. \A j \in 1 .. Len(d) - 1 : j + 1 \in 1 .. Len(d)
  BY <1>1
<1> QED
  BY <1>1, <1>2, <1>3, <1>4

LEMMA FreesOfConcat ==
  ASSUME NEW d \in Seq(Datagrams), NEW e \in Seq(Datagrams), NEW id
  PROVE  /\ d \o e \in Seq(Datagrams)
         /\ Frees(d \o e, id) = {} <=> Frees(d, id) = {} /\ Frees(e, id) = {}
         /\ AtMostOne(Frees(d, id)) /\ AtMostOne(Frees(e, id))
              /\ (Frees(d, id) = {} \/ Frees(e, id) = {}) => AtMostOne(Frees(d \o e, id))
<1>1. /\ Len(d) \in Nat /\ DOMAIN d = 1 .. Len(d)
      /\ Len(e) \in Nat /\ DOMAIN e = 1 .. Len(e)
  BY LenProperties
<1>2. /\ d \o e \in Seq(Datagrams) /\ Len(d \o e) = Len(d) + Len(e)
      /\ \A j \in 1 .. Len(d) + Len(e) : (d \o e)[j] = IF j <= Len(d) THEN d[j] ELSE e[j - Len(d)]
  BY ConcatProperties
<1>3. DOMAIN (d \o e) = 1 .. Len(d) + Len(e)
  BY <1>2, LenProperties
<1>4. /\ \A j : j \in Frees(d, id) <=> j \in 1 .. Len(d) /\ ~IsQuery(d[j]) /\ d[j].id = id
      /\ \A j : j \in Frees(e, id) <=> j \in 1 .. Len(e) /\ ~IsQuery(e[j]) /\ e[j].id = id
  BY <1>1 DEF Frees
<1>5. \A j : j \in Frees(d \o e, id)
               <=> j \in 1 .. Len(d) + Len(e) /\ ~IsQuery((d \o e)[j]) /\ (d \o e)[j].id = id
  BY <1>3 DEF Frees
<1>6. \A j \in 1 .. Len(d) : j \in 1 .. Len(d) + Len(e) /\ (d \o e)[j] = d[j]
  BY <1>1, <1>2
<1>7. \A j \in 1 .. Len(e) : Len(d) + j \in 1 .. Len(d) + Len(e) /\ (d \o e)[Len(d) + j] = e[j]
  <2>1. TAKE j \in 1 .. Len(e)
  <2>2. Len(d) + j \in 1 .. Len(d) + Len(e) /\ ~(Len(d) + j <= Len(d)) /\ (Len(d) + j) - Len(d) = j
    BY <1>1
  <2> QED
    BY <1>2, <2>2
<1>8. \A j \in 1 .. Len(d) + Len(e) : j \in 1 .. Len(d) \/ \E n \in 1 .. Len(e) : j = Len(d) + n
  <2>1. TAKE j \in 1 .. Len(d) + Len(e)
  <2>2. j <= Len(d) => j \in 1 .. Len(d)
    BY <1>1
  <2>3. ~(j <= Len(d)) => j - Len(d) \in 1 .. Len(e) /\ j = Len(d) + (j - Len(d))
    BY <1>1
  <2> QED
    BY <2>2, <2>3
<1>9. /\ \A j \in Frees(d, id) : j \in Frees(d \o e, id)
      /\ \A j \in Frees(e, id) : Len(d) + j \in Frees(d \o e, id)
  BY <1>4, <1>5, <1>6, <1>7
<1>10. \A j \in Frees(d \o e, id) : j \in Frees(d, id) \/ \E n \in Frees(e, id) : j = Len(d) + n
  <2>1. TAKE j \in Frees(d \o e, id)
  <2>2. j \in 1 .. Len(d) + Len(e) /\ ~IsQuery((d \o e)[j]) /\ (d \o e)[j].id = id
    BY <1>5
  <2>3. CASE j \in 1 .. Len(d)
    BY <1>4, <1>6, <2>2, <2>3
  <2>4. CASE \E n \in 1 .. Len(e) : j = Len(d) + n
    <3>1. PICK n \in 1 .. Len(e) : j = Len(d) + n
      BY <2>4
    <3>2. (d \o e)[j] = e[n]
      BY <1>7, <3>1
    <3>3. n \in Frees(e, id)
      BY <1>4, <2>2, <3>2
    <3> QED
      BY <3>1, <3>3
  <2> QED
    BY <1>8, <2>2, <2>3, <2>4
<1>11. Frees(d \o e, id) = {} <=> Frees(d, id) = {} /\ Frees(e, id) = {}
  BY <1>9, <1>10
<1>12. AtMostOne(Frees(d, id)) /\ AtMostOne(Frees(e, id))
         /\ (Frees(d, id) = {} \/ Frees(e, id) = {}) => AtMostOne(Frees(d \o e, id))
  BY <1>10 DEF AtMostOne
<1> QED
  BY <1>2, <1>11, <1>12

LEMMA FreesOfAppend ==
  ASSUME NEW d \in Seq(Datagrams), NEW x \in Datagrams, NEW id
  PROVE  /\ Append(d, x) \in Seq(Datagrams)
         /\ IsQuery(x) \/ x.id # id =>
              /\ Frees(Append(d, x), id) = {} <=> Frees(d, id) = {}
              /\ AtMostOne(Frees(d, id)) => AtMostOne(Frees(Append(d, x), id))
         /\ ~IsQuery(x) /\ x.id = id /\ Frees(d, id) = {} =>
              Frees(Append(d, x), id) # {} /\ AtMostOne(Frees(Append(d, x), id))
<1>1. <<x>> \in Seq(Datagrams) /\ Append(d, x) = d \o <<x>>
  BY AppendIsConcat
<1>2. Frees(<<x>>, id) = IF ~IsQuery(x) /\ x.id = id THEN {1} ELSE {}
  <2>1. DOMAIN <<x>> = {1} /\ <<x>>[1] = x
    OBVIOUS
  <2> QED
    BY <2>1 DEF Frees
<1>3. AtMostOne(Frees(<<x>>, id))
  BY <1>2 DEF AtMostOne
<1>4. AtMostOne(Frees(d, id)) \/ Frees(d, id) # {}
  BY DEF AtMostOne
<1> QED
  BY <1>1, <1>2, <1>3, <1>4, FreesOfConcat

\* What was sent before is forgotten; nothing else changes.
LEMMA FreesOfForget ==
  ASSUME NEW d \in Seq(Datagrams)
  PROVE  /\ Forget(d) \in Seq(Datagrams) /\ Len(Forget(d)) = Len(d)
         /\ \A i \in DOMAIN Forget(d) : IsQuery(Forget(d)[i]) => ~Forget(d)[i].own
         /\ \A id : Frees(Forget(d), id) = Frees(d, id)
<1>1. Len(d) \in Nat /\ DOMAIN d = 1 .. Len(d) /\ DOMAIN Forget(d) = 1 .. Len(d)
  BY LenProperties DEF Forget
<1>2. \A i \in 1 .. Len(d) :
        /\ IsQuery(d[i]) => /\ Forget(d)[i] \in Queries /\ IsQuery(Forget(d)[i]) /\ ~Forget(d)[i].own
        /\ ~IsQuery(d[i]) => Forget(d)[i] = d[i] /\ d[i] \in Freeing
  <2>1. TAKE i \in 1 .. Len(d)
  <2>2. d[i] \in Datagrams
    BY ElementOfSeq
  <2>3. CASE IsQuery(d[i])
    <3>1. d[i] \in Queries
      BY <2>2, <2>3 DEF Datagrams, Freeing, IsQuery
    <3>2. Forget(d)[i] = [d[i] EXCEPT !.own = FALSE]
      BY <1>1, <2>3 DEF Forget
    <3> QED
      BY <2>3, <3>1, <3>2 DEF Queries, IsQuery
  <2>4. CASE ~IsQuery(d[i])
    <3>1. d[i] \in Freeing
      BY <2>2, <2>4 DEF Datagrams, Queries, Calls, Sending, Blocking, IsQuery
    <3> QED
      BY <1>1, <2>4, <3>1 DEF Forget
  <2> QED
    BY <2>3, <2>4
<1>3. Forget(d) \in Seq(Datagrams) /\ Len(Forget(d)) = Len(d)
  <2>1. \A i \in 1 .. Len(d) : Forget(d)[i] \in Datagrams
    BY <1>2 DEF Datagrams
  <2>2. Forget(d) = [i \in 1 .. Len(d) |-> Forget(d)[i]]
    BY <1>1 DEF Forget
  <2> QED
    BY <1>1, <2>1, <2>2, IsASeq
<1>4. ASSUME NEW id PROVE Frees(Forget(d), id) = Frees(d, id)
  BY <1>1, <1>2 DEF Frees
<1> QED
  BY <1>1, <1>2, <1>3, <1>4

(***************************************************************************)
(* What Clear leaves, and what it frees.                                   *)
(***************************************************************************)
Ended == {x \in Transactions : ~x.notify}
FailedStep(s, f, i) ==
  IF s[i].notify THEN f[i - 1] ELSE Append(f[i - 1], [s[i] EXCEPT !.code = "failed"])

\* There is a function as Failed defines one.
LEMMA FailedExists ==
  ASSUME NEW s \in Seq(Transactions), NEW n \in 0 .. Len(s)
  PROVE  \E f \in [0 .. n -> Seq(Ended)] :
            f[0] = <<>> /\ \A i \in 1 .. n : f[i] = FailedStep(s, f, i)
<1> DEFINE Is(f, m) == f[0] = <<>> /\ \A i \in 1 .. m : f[i] = FailedStep(s, f, i)
           Bad == {m \in 0 .. Len(s) : ~\E f \in [0 .. m -> Seq(Ended)] : Is(f, m)}
<1>1. Len(s) \in Nat /\ \A i \in 1 .. Len(s) : s[i] \in Transactions
  BY LenProperties, ElementOfSeq
<1>2. SUFFICES ASSUME Bad # {} PROVE FALSE
  BY <1>2
<1>3. PICK m \in Bad : \A o \in Bad : m <= o
  <2>1. Bad \subseteq Nat
    BY <1>1
  <2> HIDE DEF Bad
  <2> QED
    BY <1>2, <2>1, Smallest
<1>4. m # 0
  <2> DEFINE g == [i \in 0 .. 0 |-> <<>>]
  <2>1. g \in [0 .. 0 -> Seq(Ended)] /\ g[0] = <<>> /\ 1 .. 0 = {}
    OBVIOUS
  <2> HIDE DEF g
  <2> QED
    BY <2>1
<1>5. m - 1 \in 0 .. Len(s) /\ m - 1 \notin Bad /\ m \in 1 .. Len(s) /\ m - 1 \in 0 .. m - 1
  <2>1. m \in 0 .. Len(s) /\ \A o \in Bad : m <= o
    BY <1>3
  <2> HIDE DEF Bad
  <2>2. m - 1 \in 0 .. Len(s) /\ m \in 1 .. Len(s) /\ m - 1 \in 0 .. m - 1 /\ ~(m <= m - 1)
    BY <1>1, <1>4, <2>1
  <2> QED
    BY <2>1, <2>2
<1>6. PICK g \in [0 .. m - 1 -> Seq(Ended)] : Is(g, m - 1)
  BY <1>5
<1> DEFINE new == FailedStep(s, g, m)
           f == [i \in 0 .. m |-> IF i = m THEN new ELSE g[i]]
<1>7. new \in Seq(Ended)
  <2>1. s[m] \in Transactions /\ g[m - 1] \in Seq(Ended)
    BY <1>1, <1>5, <1>6
  <2>2. CASE s[m].notify
    BY <2>1, <2>2 DEF FailedStep
  <2>3. CASE ~s[m].notify
    <3>1. [s[m] EXCEPT !.code = "failed"] \in Ended
      BY <2>1, <2>3 DEF Transactions, Ended
    <3>2. Append(g[m - 1], [s[m] EXCEPT !.code = "failed"]) \in Seq(Ended)
      BY <2>1, <3>1, AppendProperties
    <3> QED
      BY <2>3, <3>2 DEF FailedStep
  <2> QED
    BY <2>2, <2>3
<1> HIDE DEF new
<1>8. \A i \in 0 .. m : i # m => i \in 0 .. m - 1
  BY <1>5
<1>9. f \in [0 .. m -> Seq(Ended)]
  BY <1>6, <1>7, <1>8
<1> HIDE DEF Is, Bad
<1>10. /\ f[m] = new /\ \A i \in 0 .. m - 1 : f[i] = g[i]
       /\ \A i \in 1 .. m : i - 1 \in 0 .. m - 1 /\ (i = m \/ (i \in 1 .. m - 1 /\ i \in 0 .. m - 1))
       /\ 0 \in 0 .. m - 1
  <2>1. m \in Nat /\ m >= 1 /\ 0 \in 0 .. m - 1
    BY <1>5
  <2>2. \A i \in 1 .. m : i - 1 \in 0 .. m - 1 /\ (i = m \/ (i \in 1 .. m - 1 /\ i \in 0 .. m - 1))
    BY <2>1
  <2>3. f[m] = new
    BY <2>1
  <2>4. \A i \in 0 .. m - 1 : i \in 0 .. m /\ i # m
    BY <2>1
  <2>5. \A i \in 0 .. m - 1 : f[i] = g[i]
    BY <2>4
  <2> QED
    BY <2>1, <2>2, <2>3, <2>5
<1> USE DEF Is
<1> HIDE DEF f
<1>11. \A i \in 1 .. m : f[i] = FailedStep(s, f, i)
  <2>1. TAKE i \in 1 .. m
  <2>2. FailedStep(s, f, i) = FailedStep(s, g, i)
    BY <1>10 DEF FailedStep
  <2>3. CASE i = m
    BY <1>10, <2>2, <2>3 DEF new
  <2>4. CASE i \in 1 .. m - 1
    BY <1>6, <1>10, <2>2, <2>4
  <2> QED
    BY <1>10, <2>3, <2>4
<1>12. f[0] = <<>>
  BY <1>6, <1>10
<1>13. Is(f, m)
  BY <1>11, <1>12
<1> HIDE DEF Is
<1>14. m \notin Bad
  BY <1>9, <1>13 DEF Bad
<1> QED
  BY <1>3, <1>14

LEMMA FailedFacts ==
  ASSUME NEW s \in Seq(Transactions)
  PROVE  Failed(s) \in Seq(Ended)
<1> DEFINE F(k) == [i \in 0 .. Len(s) |->
                      IF i = 0 THEN <<>>
                      ELSE IF s[i].notify THEN k[i - 1]
                      ELSE Append(k[i - 1], [s[i] EXCEPT !.code = "failed"])]
           kept == CHOOSE k : k = F(k)
<1>1. Len(s) \in Nat /\ Len(s) \in 0 .. Len(s) /\ \A i \in 1 .. Len(s) : s[i] \in Transactions
  BY LenProperties, ElementOfSeq
<1>2. PICK f \in [0 .. Len(s) -> Seq(Ended)] :
        f[0] = <<>> /\ \A i \in 1 .. Len(s) : f[i] = FailedStep(s, f, i)
  BY <1>1, FailedExists
<1>3. f = F(f)
  <2>1. \A i \in 0 .. Len(s) : i = 0 \/ i \in 1 .. Len(s)
    BY <1>1
  <2>2. \A i \in 0 .. Len(s) : f[i] = F(f)[i]
    BY <1>2, <2>1 DEF FailedStep
  <2> QED
    BY <1>2, <2>2
<1>4. kept = F(kept)
  BY <1>3
<1> HIDE DEF kept
<1>5. kept[0] = <<>> /\ \A i \in 1 .. Len(s) : kept[i] = FailedStep(s, kept, i)
  <2>1. \A i \in 0 .. Len(s) : kept[i] = F(kept)[i]
    BY <1>4
  <2>2. 0 \in 0 .. Len(s) /\ \A i \in 1 .. Len(s) : i \in 0 .. Len(s) /\ i # 0
    BY <1>1
  <2> QED
    BY <2>1, <2>2 DEF FailedStep
<1>6. kept[Len(s)] \in Seq(Ended)
  <2> DEFINE Bad == {n \in 0 .. Len(s) : kept[n] \notin Seq(Ended)}
  <2>1. SUFFICES ASSUME Bad # {} PROVE FALSE
    BY <1>1, <2>1
  <2>2. PICK n \in Bad : \A m \in Bad : n <= m
    <3>1. Bad \subseteq Nat
      BY <1>1
    <3> HIDE DEF Bad
    <3> QED
      BY <2>1, <3>1, Smallest
  <2>3. n # 0
    <3>1. <<>> \in Seq(Ended) /\ kept[n] \notin Seq(Ended)
      BY <2>2
    <3> QED
      BY <1>5, <3>1
  <2>4. n - 1 \in 0 .. Len(s) /\ n - 1 \notin Bad /\ n \in 1 .. Len(s)
    BY <1>1, <2>2, <2>3
  <2>5. kept[n - 1] \in Seq(Ended) /\ s[n] \in Transactions
    BY <1>1, <2>4
  <2>6. ~s[n].notify => Append(kept[n - 1], [s[n] EXCEPT !.code = "failed"]) \in Seq(Ended)
    <3>1. HAVE ~s[n].notify
    <3>2. [s[n] EXCEPT !.code = "failed"] \in Ended
      BY <2>5, <3>1 DEF Transactions, Ended
    <3> QED
      BY <2>5, <3>2, AppendProperties
  <2>7. kept[n] \in Seq(Ended)
    BY <1>5, <2>4, <2>5, <2>6 DEF FailedStep
  <2> QED
    BY <2>2, <2>7
<1>7. Failed(s) = kept[Len(s)]
  BY DEF Failed, kept
<1> QED
  BY <1>6, <1>7

LEMMA NothingNoted ==
  ASSUME NEW k, k.transactions \in Seq(Ended)
  PROVE  k.transactions \in Seq(Transactions) /\ \A id : Notes(k, id) = {}
<1>1. \A i \in DOMAIN k.transactions : k.transactions[i] \in Ended
  BY LenProperties, ElementOfSeq
<1>2. k.transactions \in Seq(Transactions)
  BY SeqMonotonic DEF Ended
<1> QED
  BY <1>1, <1>2 DEF Notes, Ended

\* SetToSeq lists every element once.
LEMMA SetToSeqFacts ==
  ASSUME NEW S, IsFiniteSet(S)
  PROVE  /\ SetToSeq(S) \in Seq(S) /\ DOMAIN SetToSeq(S) = 1 .. Cardinality(S)
         /\ \A i, j \in DOMAIN SetToSeq(S) : SetToSeq(S)[i] = SetToSeq(S)[j] => i = j
         /\ \A x \in S : \E i \in DOMAIN SetToSeq(S) : SetToSeq(S)[i] = x
<1> DEFINE n == Cardinality(S)
<1>1. n \in Nat /\ ExistsBijection(1 .. n, S)
  BY FS_CardinalityType
<1>2. PICK g : g \in Bijection(1 .. n, S)
  BY <1>1 DEF ExistsBijection
<1>3. g \in [1 .. n -> S] /\ IsInjective(g)
  BY <1>2 DEF Bijection, Injection
<1>4. SetToSeq(S) \in [1 .. n -> S] /\ IsInjective(SetToSeq(S))
  BY <1>3 DEF SetToSeq
<1> DEFINE q == SetToSeq(S)
<1> HIDE DEF q
<1>5. q \in Injection(1 .. n, S)
  BY <1>4 DEF Injection, q
<1>6. q \in Surjection(1 .. n, S)
  <2>1. IsFiniteSet(1 .. n) /\ Cardinality(1 .. n) = n
    BY <1>1, FS_Interval
  <2> QED
    BY <1>5, <2>1, FS_Injection
<1>7. q \in [1 .. n -> S] /\ DOMAIN q = 1 .. n
  BY <1>4 DEF q
<1>8. \A x \in S : \E i \in 1 .. n : q[i] = x
  BY <1>6 DEF Surjection
<1>9. \A i, j \in 1 .. n : q[i] = q[j] => i = j
  BY <1>4, <1>7 DEF IsInjective, q
<1>10. q \in Seq(S)
  BY <1>1, <1>7, SeqDef
<1> QED
  BY <1>7, <1>8, <1>9, <1>10 DEF q

LEMMA ClientTypes ==
  ASSUME LibraryTypeOK, NEW c \in Clients
  PROVE  /\ connections[c] \in Connection /\ connections[c].transactions \in Seq(Transactions)
         /\ connections[c].recvMsgEvents \in Seq(Handles) /\ connections[c].recvMsgQueue \in Nat
         /\ connections[c].valid \in BOOLEAN
         /\ Notifications(c) \subseteq 1 .. Len(connections[c].transactions)
         /\ Len(connections[c].transactions) \in Nat
         /\ \A i \in DOMAIN connections[c].transactions : connections[c].transactions[i] \in Transactions
         /\ \A id : Notes(connections[c], id) =
              {i \in Notifications(c) : connections[c].transactions[i].id = id}
<1>1. connections[c] \in Connection
  BY DEF LibraryTypeOK
<1>2. /\ connections[c].transactions \in Seq(Transactions)
      /\ connections[c].recvMsgEvents \in Seq(Handles) /\ connections[c].recvMsgQueue \in Nat
      /\ connections[c].valid \in BOOLEAN
  BY <1>1 DEF Connection
<1>3. /\ DOMAIN connections[c].transactions = 1 .. Len(connections[c].transactions)
      /\ Len(connections[c].transactions) \in Nat
      /\ \A i \in 1 .. Len(connections[c].transactions) : connections[c].transactions[i] \in Transactions
  BY <1>2, LenProperties, ElementOfSeq
<1> QED
  BY <1>1, <1>2, <1>3 DEF Notifications, Notes

LEMMA FreedFacts ==
  ASSUME LibraryTypeOK, NEW C, C \subseteq Clients
  PROVE  /\ Freed(C) \in Seq(Datagrams) /\ \A i \in DOMAIN Freed(C) : ~IsQuery(Freed(C)[i])
         /\ \A id : Frees(Freed(C), id) # {} <=> \E c \in C : Notes(connections[c], id) # {}
         /\ \A id : /\ \A c \in C : AtMostOne(Notes(connections[c], id))
                    /\ \A b, c \in C : Notes(connections[b], id) # {} /\ Notes(connections[c], id) # {} => b = c
                    => AtMostOne(Frees(Freed(C), id))
<1> DEFINE of(c) == {c} \X Notifications(c)
           T == {of(c) : c \in C}
           S == UNION T
           q == SetToSeq(S)
<1>1. IsFiniteSet(S)
  <2>1. IsFiniteSet(C)
    BY LibraryAssumption, FS_Subset
  <2> DEFINE f == [c \in C |-> of(c)]
  <2>2. f \in Surjection(C, T)
    BY DEF Surjection
  <2>3. IsFiniteSet(T)
    BY <2>1, <2>2, FS_Surjection
  <2>4. \A c \in C : IsFiniteSet(of(c))
    <3>1. TAKE c \in C
    <3>2. c \in Clients
      OBVIOUS
    <3>3. Notifications(c) \subseteq 1 .. Len(connections[c].transactions) /\ Len(connections[c].transactions) \in Nat
      BY <3>2, ClientTypes
    <3>4. IsFiniteSet(1 .. Len(connections[c].transactions))
      BY <3>3, FS_Interval
    <3>5. IsFiniteSet(Notifications(c)) /\ IsFiniteSet({c})
      BY <3>3, <3>4, FS_Subset, FS_Singleton
    <3> QED
      BY <3>5, FS_Product
  <2>5. \A x \in T : IsFiniteSet(x)
    BY <2>4
  <2> HIDE DEF T, of
  <2> QED
    BY <2>3, <2>5, FS_UNION
<1>2. /\ \A p \in S : p[1] \in C /\ p[2] \in Notifications(p[1]) /\ p = <<p[1], p[2]>>
      /\ \A c \in C : \A i \in Notifications(c) : <<c, i>> \in S
  OBVIOUS
<1>3. Freed(C) = [n \in DOMAIN q |-> FreeMsgId(connections[q[n][1]].transactions[q[n][2]].id)]
  BY DEF Freed
<1> HIDE DEF S
<1>4. /\ q \in Seq(S) /\ DOMAIN q = 1 .. Cardinality(S) /\ Cardinality(S) \in Nat
      /\ \A i, j \in DOMAIN q : q[i] = q[j] => i = j
      /\ \A x \in S : \E i \in DOMAIN q : q[i] = x
  BY <1>1, SetToSeqFacts, FS_CardinalityType
<1> HIDE DEF q
<1>5. \A n \in DOMAIN q : q[n] \in S
  BY <1>4, LenProperties, ElementOfSeq
<1>6. DOMAIN Freed(C) = DOMAIN q /\ \A n \in DOMAIN q :
        /\ Freed(C)[n] = FreeMsgId(connections[q[n][1]].transactions[q[n][2]].id)
        /\ Freed(C)[n] \in Freeing
        /\ q[n][1] \in C /\ q[n][2] \in Notifications(q[n][1])
  <2>1. SUFFICES ASSUME NEW n \in DOMAIN q
                 PROVE  /\ Freed(C)[n] = FreeMsgId(connections[q[n][1]].transactions[q[n][2]].id)
                        /\ Freed(C)[n] \in Freeing
                        /\ q[n][1] \in C /\ q[n][2] \in Notifications(q[n][1])
    BY <1>3
  <2>2. q[n][1] \in C /\ q[n][2] \in Notifications(q[n][1]) /\ q[n][1] \in Clients
    BY <1>2, <1>5
  <2>3. connections[q[n][1]].transactions[q[n][2]] \in Transactions
    BY <2>2, ClientTypes DEF Notifications
  <2>4. connections[q[n][1]].transactions[q[n][2]].id \in Nat
    BY <2>3 DEF Transactions
  <2>5. Freed(C)[n] = FreeMsgId(connections[q[n][1]].transactions[q[n][2]].id)
    BY <1>3
  <2> QED
    BY <1>3, <2>2, <2>4, <2>5 DEF FreeMsgId, Freeing
<1>7. Freed(C) \in Seq(Datagrams) /\ \A i \in DOMAIN Freed(C) : ~IsQuery(Freed(C)[i])
  <2>1. \A n \in DOMAIN q : Freed(C)[n] \in Datagrams /\ ~IsQuery(Freed(C)[n])
    BY <1>6 DEF Datagrams, Freeing, IsQuery
  <2>2. Freed(C) = [n \in 1 .. Cardinality(S) |-> Freed(C)[n]]
    BY <1>3, <1>4, <1>6
  <2>3. Freed(C) \in Seq(Datagrams)
    BY <1>4, <2>1, <2>2, IsASeq
  <2> QED
    BY <1>6, <2>1, <2>3
<1>8. ASSUME NEW id
      PROVE  \A n : n \in Frees(Freed(C), id)
               <=> n \in DOMAIN q /\ q[n][2] \in Notes(connections[q[n][1]], id)
  <2>1. \A n : n \in Frees(Freed(C), id) <=> n \in DOMAIN q /\ Freed(C)[n].id = id
    BY <1>6, <1>7 DEF Frees
  <2>2. \A n \in DOMAIN q : Freed(C)[n].id = connections[q[n][1]].transactions[q[n][2]].id
    BY <1>6 DEF FreeMsgId
  <2>3. ASSUME NEW n \in DOMAIN q
        PROVE  q[n][2] \in Notes(connections[q[n][1]], id) <=> connections[q[n][1]].transactions[q[n][2]].id = id
    BY <1>6 DEF Notes, Notifications
  <2> QED
    BY <2>1, <2>2, <2>3
<1>9. ASSUME NEW id
      PROVE  Frees(Freed(C), id) # {} <=> \E c \in C : Notes(connections[c], id) # {}
  <2>1. ASSUME NEW c \in C, NEW i \in Notes(connections[c], id) PROVE Frees(Freed(C), id) # {}
    <3>1. i \in Notifications(c)
      BY <2>1 DEF Notes, Notifications
    <3>2. PICK n \in DOMAIN q : q[n] = <<c, i>>
      BY <1>2, <1>4, <3>1
    <3> QED
      BY <1>8, <2>1, <3>2
  <2>2. ASSUME NEW n \in Frees(Freed(C), id) PROVE \E c \in C : Notes(connections[c], id) # {}
    BY <1>6, <1>8, <2>2
  <2> QED
    BY <2>1, <2>2
<1>10. ASSUME NEW id, \A c \in C : AtMostOne(Notes(connections[c], id)),
              \A b, c \in C : Notes(connections[b], id) # {} /\ Notes(connections[c], id) # {} => b = c
       PROVE  AtMostOne(Frees(Freed(C), id))
  <2>1. SUFFICES ASSUME NEW n \in Frees(Freed(C), id), NEW m \in Frees(Freed(C), id) PROVE n = m
    BY DEF AtMostOne
  <2>2. /\ n \in DOMAIN q /\ q[n][1] \in C /\ q[n][2] \in Notes(connections[q[n][1]], id)
        /\ m \in DOMAIN q /\ q[m][1] \in C /\ q[m][2] \in Notes(connections[q[m][1]], id)
    BY <1>6, <1>8
  <2>3. q[n][1] = q[m][1]
    BY <1>10, <2>2
  <2>4. q[n][2] = q[m][2]
    BY <1>10, <2>2, <2>3 DEF AtMostOne
  <2>5. q[n] = q[m]
    BY <1>2, <1>5, <2>2, <2>3, <2>4
  <2> QED
    BY <1>4, <2>2, <2>5
<1> QED
  BY <1>7, <1>9, <1>10

(***************************************************************************)
(* What After and Clear do to the threads and to the ids.                  *)
(***************************************************************************)
LEMMA ThreadTypes ==
  ASSUME LibraryTypeOK, NEW t \in Threads
  PROVE  /\ th[t] \in Thread /\ th[t].op \in Calls \cup {"none", "read"} /\ th[t].c \in Clients
         /\ th[t].m \in Nat /\ th[t].id \in Nat /\ th[t].tries \in Nat /\ th[t].missed \in BOOLEAN
         /\ th[t].at \in {"idle", "query", "window", "named", "waiting", "woken"}
  BY DEF LibraryTypeOK, Thread

LEMMA IdleIsThread == Idle \in Thread
<1>1. 0 \in Clients
  <2>1. Cardinality(Clients) \in Nat
    BY LibraryAssumption, FS_CardinalityType
  <2> QED
    BY LibraryAssumption, <2>1
<1> QED
  BY <1>1 DEF Idle, Thread, NoMessage

LEMMA AfterFacts ==
  ASSUME LibraryTypeOK, NEW W, W \subseteq At("waiting"), NEW done, NEW missed,
         th' = After(W, done, missed)
  PROVE  /\ th' \in [Threads -> Thread]
         /\ \A t \in Threads : th'[t].at = "query" <=> t \notin done /\ th[t].at = "query"
         /\ \A t \in Threads : t \notin done => th'[t].op = th[t].op
<1>1. th' \in [Threads -> Thread]
  <2>1. SUFFICES ASSUME NEW t \in Threads PROVE After(W, done, missed)[t] \in Thread
    BY DEF After
  <2>2. th[t] \in Thread
    BY ThreadTypes
  <2>3. [th[t] EXCEPT !.at = "woken"] \in Thread
    BY <2>2 DEF Thread
  <2>4. \A b \in BOOLEAN : [th[t] EXCEPT !.missed = b] \in Thread
    BY <2>2 DEF Thread
  <2>5. (th[t].missed \/ t \in missed) \in BOOLEAN
    BY <2>2, Zenon DEF Thread
  <2>6. [th[t] EXCEPT !.missed = @ \/ t \in missed] \in Thread
    BY <2>4, <2>5
  <2> QED
    BY <2>3, <2>6, IdleIsThread DEF After
<1>2. ASSUME NEW t \in Threads
      PROVE  /\ th'[t].at = "query" <=> t \notin done /\ th[t].at = "query"
             /\ t \notin done => th'[t].op = th[t].op
  <2>1. th[t] \in Thread
    BY ThreadTypes
  <2>2. CASE t \in done
    <3>1. th'[t] = Idle
      BY <2>2 DEF After
    <3> QED
      BY <2>2, <3>1 DEF Idle
  <2>3. CASE t \in W \ done
    <3>1. th'[t] = [th[t] EXCEPT !.at = "woken"]
      BY <2>3 DEF After
    <3>2. th[t].at = "waiting"
      BY <2>3 DEF At
    <3>3. th'[t].at = "woken" /\ th'[t].op = th[t].op
      BY <2>1, <3>1 DEF Thread
    <3> QED
      BY <3>2, <3>3
  <2>4. CASE t \notin done /\ t \notin W
    <3>1. th'[t] = [th[t] EXCEPT !.missed = @ \/ t \in missed]
      BY <2>4 DEF After
    <3>2. th'[t].at = th[t].at /\ th'[t].op = th[t].op
      BY <2>1, <3>1 DEF Thread
    <3> QED
      BY <2>4, <3>2
  <2> QED
    BY <2>2, <2>3, <2>4
<1> QED
  BY <1>1, <1>2

LEMMA Woken ==
  /\ \A handles : \A W \in SetEvents(handles) : W \subseteq Readers
  /\ Readers \subseteq At("waiting")
  /\ \A c : Watchers(c) \subseteq At("waiting") /\ ClearWakes(c) \subseteq At("waiting")
  /\ \A C, anew : ConnectionStatusChanged(C, anew) \subseteq At("waiting")
  /\ \A c, id : Senders(c, id) \subseteq At("waiting")
<1>1. \A handles : \A W \in SetEvents(handles) : W \subseteq Readers
  BY DEF SetEvents
<1>2. /\ Readers \subseteq At("waiting") /\ \A c : Watchers(c) \subseteq At("waiting")
      /\ \A c, id : Senders(c, id) \subseteq At("waiting")
  BY DEF Readers, Watchers, Senders
<1>3. \A c : ClearWakes(c) \subseteq At("waiting")
  BY <1>2 DEF ClearWakes
<1>4. \A C, anew : ConnectionStatusChanged(C, anew) \subseteq At("waiting")
  BY <1>2 DEF ConnectionStatusChanged
<1> QED
  BY <1>1, <1>2, <1>3, <1>4

\* The queries among datagrams to which others are appended.
LEMMA QueriesOfConcat ==
  ASSUME NEW d \in Seq(Datagrams), NEW e \in Seq(Datagrams), \A i \in DOMAIN e : ~IsQuery(e[i])
  PROVE  /\ d \o e \in Seq(Datagrams)
         /\ \A i \in DOMAIN (d \o e) : IsQuery((d \o e)[i]) => \E j \in DOMAIN d : (d \o e)[i] = d[j]
<1> DEFINE f == d \o e
<1>2. /\ f \in Seq(Datagrams) /\ Len(f) = Len(d) + Len(e)
      /\ \A i \in 1 .. Len(d) + Len(e) :
           f[i] = IF i <= Len(d) THEN d[i] ELSE e[i - Len(d)]
  BY ConcatProperties
<1> HIDE DEF f
<1>3. /\ DOMAIN f = 1 .. Len(d) + Len(e) /\ DOMAIN d = 1 .. Len(d) /\ DOMAIN e = 1 .. Len(e)
      /\ Len(d) \in Nat /\ Len(e) \in Nat
  BY <1>2, LenProperties
<1>4. ASSUME NEW i \in DOMAIN f, IsQuery(f[i])
      PROVE  \E j \in DOMAIN d : f[i] = d[j]
  <2>1. i \in 1 .. Len(d) + Len(e)
    BY <1>3
  <2>2. CASE i <= Len(d)
    <3>1. i \in DOMAIN d
      BY <1>3, <2>1, <2>2
    <3> QED
      BY <1>2, <2>1, <2>2, <3>1
  <2>3. CASE ~(i <= Len(d))
    <3>1. i - Len(d) \in DOMAIN e
      BY <1>3, <2>1, <2>3
    <3>2. ~IsQuery(e[i - Len(d)])
      BY <3>1
    <3> QED
      BY <1>2, <1>4, <2>1, <2>3, <3>2
  <2> QED
    BY <2>2, <2>3
<1> QED
  BY <1>2, <1>4 DEF f

LEMMA ClearFacts ==
  ASSUME LibraryTypeOK, NEW C, C \subseteq Clients, NEW anew, anew \subseteq C, NEW done,
         NEW d \in Seq(Datagrams), NEW defects, Clear(C, anew, done, d, defects)
  PROVE  /\ connections' \in [Clients -> Connection] /\ th' \in [Threads -> Thread]
         /\ toDriver' \in Seq(Datagrams)
         /\ \A t \in Threads : th'[t].at = "query" <=> t \notin done /\ th[t].at = "query"
         /\ \A t \in Threads : t \notin done => th'[t].op = th[t].op
         /\ \A i \in DOMAIN toDriver' : IsQuery(toDriver'[i]) => \E j \in DOMAIN d : toDriver'[i] = d[j]
         /\ ~driver.up => toDriver' = d
         /\ \A c \in C : \A id : Notes(connections'[c], id) = {}
         /\ \A c \in Clients \ C : connections'[c] = connections[c]
         /\ spoilt' = spoilt \cup defects
<1> DEFINE W0 == (UNION {ClearWakes(c) : c \in C}) \cup ConnectionStatusChanged(C, anew)
           missed == UNION {Asleep(c) \cup Early(c) : c \in C}
           cleared(c) == [NoConnection EXCEPT !.transactions = Failed(connections[c].transactions)]
<1>1. \E W \in SetEvents(UNION {ToSet(connections[c].recvMsgEvents) : c \in C}) : th' = After(W \cup W0, done, missed)
  BY DEF Clear
<1>2. \A c \in Clients : connections'[c] = CASE c \in anew -> [NoConnection EXCEPT !.valid = TRUE]
                                  [] c \in C \ anew -> cleared(c)
                                  [] OTHER -> connections[c]
  BY DEF Clear
<1>3. connections' = [c \in Clients |-> connections'[c]]
  BY DEF Clear
<1>4. toDriver' = (IF driver.up THEN d \o Freed(C) ELSE d) /\ spoilt' = spoilt \cup defects
  BY DEF Clear
<1>5. /\ th' \in [Threads -> Thread]
      /\ \A t \in Threads : th'[t].at = "query" <=> t \notin done /\ th[t].at = "query"
      /\ \A t \in Threads : t \notin done => th'[t].op = th[t].op
  <2>1. W0 \subseteq At("waiting")
    BY Woken
  <2> HIDE DEF W0, missed
  <2>2. PICK W \in SetEvents(UNION {ToSet(connections[c].recvMsgEvents) : c \in C}) : th' = After(W \cup W0, done, missed)
    BY <1>1
  <2>3. W \cup W0 \subseteq At("waiting")
    BY <2>1, Woken
  <2> QED
    BY <2>2, <2>3, AfterFacts
<1>6. ASSUME NEW c \in C
      PROVE  /\ connections'[c] \in Connection /\ connections'[c].transactions \in Seq(Ended)
             /\ \A id : Notes(connections'[c], id) = {}
  <2>1. connections[c].transactions \in Seq(Transactions)
    BY ClientTypes
  <2>2. Failed(connections[c].transactions) \in Seq(Ended)
    BY <2>1, FailedFacts
  <2>3. \/ connections'[c] = [NoConnection EXCEPT !.valid = TRUE]
        \/ connections'[c] = cleared(c)
    BY <1>2
  <2>4. <<>> \in Seq(Ended) /\ <<>> \in Seq(Transactions) /\ <<>> \in Seq(Handles)
    BY EmptySeq
  <2>5. connections'[c].transactions \in Seq(Ended)
    BY <2>2, <2>3, <2>4 DEF NoConnection
  <2>6. connections'[c].transactions \in Seq(Transactions)
    BY <2>5, NothingNoted
  <2>7. connections'[c] \in Connection
    <3>1. NoConnection \in Connection
      BY <2>4 DEF NoConnection, Connection
    <3>2. [NoConnection EXCEPT !.valid = TRUE] \in Connection
      BY <3>1 DEF Connection
    <3>3. \A s \in Seq(Transactions) : [NoConnection EXCEPT !.transactions = s] \in Connection
      BY <3>1 DEF Connection
    <3>4. connections'[c] = cleared(c) => cleared(c).transactions = Failed(connections[c].transactions)
      BY DEF NoConnection
    <3>5. Failed(connections[c].transactions) \in Seq(Transactions)
      BY <2>2, SeqMonotonic DEF Ended
    <3> QED
      BY <2>3, <3>2, <3>3, <3>5
  <2> QED
    BY <2>5, <2>7, NothingNoted
<1>7. \A c \in Clients \ C : connections'[c] = connections[c]
  BY <1>2
<1>8. connections' \in [Clients -> Connection]
  <2>1. \A c \in Clients : connections'[c] \in Connection
    BY <1>6, <1>7, ClientTypes
  <2> QED
    BY <1>3, <2>1
<1>9. /\ toDriver' \in Seq(Datagrams)
      /\ \A i \in DOMAIN toDriver' : IsQuery(toDriver'[i]) => \E j \in DOMAIN d : toDriver'[i] = d[j]
  <2>1. CASE ~driver.up
    BY <1>4, <2>1
  <2>2. CASE driver.up
    <3>1. toDriver' = d \o Freed(C) /\ Freed(C) \in Seq(Datagrams)
          /\ \A i \in DOMAIN Freed(C) : ~IsQuery(Freed(C)[i])
      BY <1>4, <2>2, FreedFacts
    <3> QED
      BY <3>1, QueriesOfConcat
  <2> QED
    BY <2>1, <2>2
<1> QED
  BY <1>4, <1>5, <1>6, <1>7, <1>8, <1>9

LEMMA ClearOnce ==
  ASSUME LibraryTypeOK, NEW C, C \subseteq Clients, NEW anew, anew \subseteq C, NEW done,
         NEW d \in Seq(Datagrams), NEW defects, Clear(C, anew, done, d, defects), driver.up,
         NEW free, NEW gone, NEW id, Once(connections, d, free, gone, id)
  PROVE  Once(connections', toDriver', free, gone, id)
<1> DEFINE e == Freed(C)
<1>1. /\ e \in Seq(Datagrams)
      /\ Frees(e, id) # {} <=> \E c \in C : Notes(connections[c], id) # {}
      /\ AtMostOne(Frees(e, id))
  <2>1. /\ \A c \in C : AtMostOne(Notes(connections[c], id))
        /\ \A b, c \in C : Notes(connections[b], id) # {} /\ Notes(connections[c], id) # {} => b = c
    BY DEF Once
  <2>2. AtMostOne(Frees(Freed(C), id))
    BY <2>1, FreedFacts
  <2>3. /\ Freed(C) \in Seq(Datagrams)
        /\ Frees(Freed(C), id) # {} <=> \E c \in C : Notes(connections[c], id) # {}
    BY FreedFacts
  <2> QED
    BY <2>2, <2>3
<1>2. toDriver' = d \o e
  BY DEF Clear
<1> HIDE DEF e
<1>3. /\ Frees(toDriver', id) = {} <=> Frees(d, id) = {} /\ Frees(e, id) = {}
      /\ AtMostOne(Frees(d, id)) /\ AtMostOne(Frees(e, id))
           /\ (Frees(d, id) = {} \/ Frees(e, id) = {}) => AtMostOne(Frees(toDriver', id))
  BY <1>1, <1>2, FreesOfConcat
<1>4. /\ \A c \in C : Notes(connections'[c], id) = {}
      /\ \A c \in Clients \ C : connections'[c] = connections[c]
  BY ClearFacts
<1>5. \A c \in Clients : Notes(connections'[c], id) = {}
                           \/ (c \notin C /\ Notes(connections'[c], id) = Notes(connections[c], id))
  BY <1>4
<1>6. \A c \in Clients : AtMostOne(Notes(connections'[c], id))
  BY <1>5 DEF Once, AtMostOne
<1>7. \A b, c \in Clients : Notes(connections'[b], id) # {} /\ Notes(connections'[c], id) # {} => b = c
  BY <1>5 DEF Once
<1>8. HeldIn(connections', id) <=> HeldIn(connections, id) /\ Frees(e, id) = {}
  <2>1. ASSUME NEW c \in Clients, Notes(connections'[c], id) # {}
        PROVE  HeldIn(connections, id) /\ Frees(e, id) = {}
    <3>1. c \notin C /\ Notes(connections[c], id) # {}
      BY <1>5, <2>1
    <3>2. \A b \in C : Notes(connections[b], id) = {}
      BY <3>1 DEF Once
    <3> QED
      BY <1>1, <3>1, <3>2 DEF HeldIn
  <2>2. ASSUME NEW c \in Clients, Notes(connections[c], id) # {}, Frees(e, id) = {}
        PROVE  HeldIn(connections', id)
    <3>1. c \notin C
      BY <1>1, <2>2
    <3>2. Notes(connections'[c], id) # {}
      BY <1>4, <2>2, <3>1
    <3> QED
      BY <3>2 DEF HeldIn
  <2> QED
    BY <2>1, <2>2 DEF HeldIn
<1>9. Frees(e, id) # {} => HeldIn(connections, id)
  BY <1>1 DEF HeldIn
<1>10. AtMostOne(Frees(toDriver', id))
  BY <1>1, <1>3, <1>9 DEF Once
<1> QED
  BY <1>3, <1>6, <1>7, <1>8, <1>9, <1>10 DEF Once

\* Nothing happens to an id.
LEMMA OnceKept ==
  ASSUME NEW con, NEW con2, NEW d, NEW d2, NEW free, NEW free2, NEW gone, NEW gone2, NEW id,
         Once(con, d, free, gone, id),
         \A c \in Clients : /\ Notes(con2[c], id) = {} <=> Notes(con[c], id) = {}
                            /\ AtMostOne(Notes(con[c], id)) => AtMostOne(Notes(con2[c], id)),
         Frees(d2, id) = {} <=> Frees(d, id) = {},
         AtMostOne(Frees(d, id)) => AtMostOne(Frees(d2, id)),
         id \in free2 <=> id \in free, id \in gone2 <=> id \in gone
  PROVE  Once(con2, d2, free2, gone2, id)
<1>1. HeldIn(con2, id) <=> HeldIn(con, id)
  BY DEF HeldIn
<1> QED
  BY <1>1 DEF Once

\* Steps that leave the ids, the datagrams and the queries alone.
LEMMA NoQuery ==
  ASSUME IdsInv, LibraryTypeOK', spoilt \subseteq spoilt', toDriver' = toDriver, lost' = lost,
         driver'.up = driver.up, driver'.avail = driver.avail, linked' = linked,
         \A t \in Threads : th'[t].at = "query" <=> th[t].at = "query",
         \A t \in Threads : th[t].at = "query" => th'[t].op = th[t].op,
         \A c \in Clients : connections'[c].transactions = connections[c].transactions
  PROVE  IdsInv'
<1>1. OwnQueries'
  BY DEF IdsInv, OwnQueries, At
<1>2. \A c \in Clients : Notifications(c)' = Notifications(c)
  BY DEF Notifications
<1>3. WithoutDriver'
  BY <1>2 DEF IdsInv, WithoutDriver
<1>4. ASSUME driver'.up, ~Confused', NEW id \in MsgIds
      PROVE  Once(connections', toDriver', driver'.avail, lost', id)
  <2>1. ~Confused /\ driver.up
    BY <1>4 DEF Confused
  <2>2. Once(connections, toDriver, driver.avail, lost, id)
    BY <2>1 DEF IdsInv
  <2>3. \A c \in Clients : Notes(connections'[c], id) = Notes(connections[c], id)
    BY DEF Notes
  <2> QED
    BY <2>2, <2>3, OnceKept
<1> QED
  BY <1>1, <1>3, <1>4 DEF IdsInv

(***************************************************************************)
(* The steps, one by one.                                                  *)
(***************************************************************************)
LEMMA Spends ==
  ASSUME LibraryTypeOK, NEW what \in Limited, Spend(what)
  PROVE  allowance' \in [Limited -> Nat]
<1>1. allowance \in [Limited -> Nat] /\ allowance[what] > 0 /\ allowance' = [allowance EXCEPT ![what] = @ - 1]
  BY DEF LibraryTypeOK, Spend
<1>2. allowance[what] - 1 \in Nat
  BY <1>1
<1> QED
  BY <1>1, <1>2

LEMMA ThreadStep ==
  ASSUME LibraryTypeOK, NEW t \in Threads, NEW x \in Thread, th' = [th EXCEPT ![t] = x]
  PROVE  /\ th' \in [Threads -> Thread] /\ th'[t] = x
         /\ \A u \in Threads \ {t} : th'[u] = th[u]
  BY DEF LibraryTypeOK

\* Connections change only in what has nothing to do with ids.
LEMMA ConnectionStep ==
  ASSUME LibraryTypeOK, NEW c \in Clients, NEW k \in Connection,
         connections' = [connections EXCEPT ![c] = k]
  PROVE  /\ connections' \in [Clients -> Connection] /\ connections'[c] = k
         /\ \A b \in Clients \ {c} : connections'[b] = connections[b]
  BY DEF LibraryTypeOK

LEMMA Asks ==
  ASSUME IdsInv, NEW t \in Threads, th[t].at # "query", NEW op \in Calls, NEW c \in Clients, NEW m \in Nat,
         QueryDriverApp(t, op, c, m), driver' \in Driver, IsFiniteSet(driver'.pending),
         driver.up => driver' = driver, linked' \in BOOLEAN, allowance' \in [Limited -> Nat],
         driver'.up /\ ~driver.up => ~linked /\ driver'.avail = MsgIds,
         linked => linked', driver'.up /\ ~driver.up => linked'
  PROVE  IdsInv'
<1> USE DEF IdsInv
<1> DEFINE x == [th[t] EXCEPT !.at = "query", !.op = op, !.c = c, !.m = m, !.tries = 1]
           y == [q |-> op, c |-> c, m |-> m, own |-> TRUE]
<1>1. /\ th' = [th EXCEPT ![t] = x]
      /\ toDriver' = (IF driver'.up THEN Append(toDriver, y) ELSE toDriver)
      /\ UNCHANGED <<connections, readEventId, toListener, told, bus, lost, spoilt>>
      /\ At("query") = {}
  BY DEF QueryDriverApp, CsFree
<1>2. x \in Thread /\ x.at = "query" /\ x.op = op
  BY ThreadTypes DEF Thread
<1>3. th' \in [Threads -> Thread] /\ th'[t] = x /\ \A u \in Threads \ {t} : th'[u] = th[u]
  <2> HIDE DEF x
  <2> QED
    BY <1>1, <1>2, ThreadStep
<1>4. y \in Datagrams /\ IsQuery(y) /\ y.q = op
  BY DEF Datagrams, Queries, IsQuery, Calls, Sending, Blocking
<1>5. Append(toDriver, y) \in Seq(Datagrams)
  <2> HIDE DEF y
  <2> QED
    BY <1>4, AppendProperties DEF LibraryTypeOK
<1>6. LibraryTypeOK'
  BY <1>1, <1>3, <1>5 DEF LibraryTypeOK
<1>7. OwnQueries'
  <2>1. \A u \in Threads : th'[u].at = "query" <=> u = t
    BY <1>1, <1>2, <1>3 DEF At
  <2>2. t \in At("query")' /\ \A u \in At("query")' : u = t
    BY <2>1 DEF At
  <2>3. ASSUME NEW i \in DOMAIN toDriver', IsQuery(toDriver'[i]), toDriver'[i].own
        PROVE  th'[t].op = toDriver'[i].q
    <3>1. /\ Len(toDriver) \in Nat /\ DOMAIN toDriver = 1 .. Len(toDriver) /\ toDriver \in Seq(Datagrams)
      BY LenProperties DEF LibraryTypeOK
    <3>2. ~(i \in DOMAIN toDriver /\ toDriver'[i] = toDriver[i])
      BY <1>1, <2>3 DEF OwnQueries
    <3>3. toDriver' = Append(toDriver, y)
      BY <1>1, <2>3, <3>2
    <3> HIDE DEF y
    <3>4. /\ Len(toDriver') = Len(toDriver) + 1 /\ toDriver'[Len(toDriver) + 1] = y
          /\ \A j \in 1 .. Len(toDriver) : toDriver'[j] = toDriver[j]
          /\ DOMAIN toDriver' = 1 .. Len(toDriver) + 1
      BY <1>5, <3>1, <3>3, <1>4, AppendProperties, LenProperties
    <3>5. i = Len(toDriver) + 1
      BY <3>1, <3>2, <3>4
    <3> QED
      BY <1>2, <1>3, <1>4, <3>4, <3>5
  <2>4. th'[t].op \in Calls
    BY <1>2, <1>3
  <2> QED
    BY <2>2, <2>3, <2>4 DEF OwnQueries
<1>8. WithoutDriver'
  <2>2. ~driver'.up => ~driver.up /\ toDriver' = toDriver
    BY <1>1
  <2>3. ~linked' => ~linked /\ ~driver'.up
    BY DEF WithoutDriver
  <2>4. \A b \in Clients : Notifications(b)' = Notifications(b)
    BY <1>1 DEF Notifications
  <2> QED
    BY <1>1, <2>2, <2>3, <2>4 DEF WithoutDriver
<1>9. ASSUME driver'.up, ~Confused', NEW id \in MsgIds
      PROVE  Once(connections', toDriver', driver'.avail, lost', id)
  <2>1. ~Confused
    BY <1>1, <1>9 DEF Confused
  <2>2. /\ Frees(toDriver', id) = {} <=> Frees(toDriver, id) = {}
        /\ AtMostOne(Frees(toDriver, id)) => AtMostOne(Frees(toDriver', id))
    <3> HIDE DEF y
    <3> QED
      BY <1>1, <1>4, <1>9, FreesOfAppend DEF LibraryTypeOK
  <2>3. CASE driver.up
    <3>1. Once(connections, toDriver, driver.avail, lost, id) /\ driver' = driver
      BY <2>1, <2>3
    <3>2. connections' = connections /\ lost' = lost
      BY <1>1
    <3> HIDE DEF x, y
    <3> QED
      BY <2>2, <3>1, <3>2, OnceKept
  <2>4. CASE ~driver.up
    <3>1. ~linked /\ driver'.avail = MsgIds
      BY <1>9, <2>4
    <3>2. toDriver = <<>> /\ lost = {} /\ \A b \in Clients : Notifications(b) = {}
      BY <2>4, <3>1 DEF WithoutDriver
    <3>3. \A b \in Clients : Notes(connections'[b], id) = {}
      BY <1>1, <3>2 DEF Notes, Notifications
    <3>4. Frees(toDriver, id) = {}
      BY <3>2 DEF Frees
    <3>5. Frees(toDriver', id) = {}
      BY <2>2, <3>4
    <3> QED
      BY <1>1, <3>1, <3>2, <3>3, <3>5 DEF Once, AtMostOne, HeldIn
  <2> QED
    BY <2>3, <2>4
<1> QED
  BY <1>6, <1>7, <1>8, <1>9

LEMMA StartedFacts == Started \in Driver /\ Started.up /\ Started.avail = MsgIds /\ IsFiniteSet(Started.pending)
<1>1. Cardinality(MsgIds) \in Nat
  BY LibraryAssumption, FS_CardinalityType
<1>2. 1 \in MsgIds /\ MsgIds \subseteq Nat
  BY <1>1, LibraryAssumption
<1> QED
  BY <1>2, FS_EmptySet DEF Started, Driver

LEMMA StartsQuery ==
  ASSUME IdsInv, NEW t \in Threads, NEW c \in Clients,
         ClientConnect(t) \/ ClientDisconnect(t, c) \/ GetHardwareStatus(t, c) \/ StatusResumes(t)
           \/ \E op \in Sending : SendMessage(t, c, op)
  PROVE  IdsInv'
<1> USE DEF IdsInv
<1>0. /\ NoMessage \in Nat /\ {"connect", "disconnect", "send", "read", "status", "forward", "fault"} = Limited
      /\ {"connect", "disconnect", "status"} \cup Sending = Calls /\ 0 \in Clients
      /\ linked \in BOOLEAN /\ driver \in Driver /\ IsFiniteSet(driver.pending)
      /\ allowance \in [Limited -> Nat]
  BY IdleIsThread DEF NoMessage, Limited, Calls, LibraryTypeOK, Idle, Thread
<1>1. CASE ClientConnect(t)
  <2>1. /\ driver' = (IF linked THEN driver ELSE OpenDriverApp) /\ linked' = TRUE
        /\ StartQuery(t, "connect", 0, NoMessage) /\ Spend("connect")
    BY <1>1 DEF ClientConnect
  <2>2. th[t].at # "query" /\ QueryDriverApp(t, "connect", 0, NoMessage)
    BY <2>1 DEF StartQuery
  <2>3. driver' = driver \/ (driver' = Started /\ ~linked /\ ~driver.up)
    BY <2>1 DEF OpenDriverApp
  <2>4. driver' \in Driver /\ IsFiniteSet(driver'.pending) /\ (driver.up => driver' = driver)
        /\ (driver'.up /\ ~driver.up => ~linked /\ driver'.avail = MsgIds)
    BY <1>0, <2>3, StartedFacts
  <2>5. (linked => linked') /\ (driver'.up /\ ~driver.up => linked') /\ linked' \in BOOLEAN
    BY <2>1
  <2>6. allowance' \in [Limited -> Nat]
    BY <1>0, <2>1, Spends
  <2>7. "connect" \in Calls
    BY <1>0
  <2> QED
    BY <1>0, <2>1, <2>2, <2>4, <2>5, <2>6, <2>7, Asks
<1>2. CASE ClientDisconnect(t, c)
  <2>1. th[t].at # "query" /\ QueryDriverApp(t, "disconnect", c, NoMessage) /\ UNCHANGED <<driver, linked>>
    BY <1>2 DEF ClientDisconnect, StartQuery
  <2>2. allowance' \in [Limited -> Nat]
    BY <1>0, <1>2, Spends DEF ClientDisconnect
  <2> QED
    BY <1>0, <2>1, <2>2, Asks
<1>3. CASE GetHardwareStatus(t, c)
  <2>1. th[t].at # "query" /\ QueryDriverApp(t, "status", c, NoMessage) /\ UNCHANGED <<driver, linked>>
    BY <1>3 DEF GetHardwareStatus, StartQuery
  <2>2. allowance' \in [Limited -> Nat]
    BY <1>0, <1>3, Spends DEF GetHardwareStatus
  <2> QED
    BY <1>0, <2>1, <2>2, Asks
<1>4. CASE StatusResumes(t)
  <2>1. /\ th[t].at # "query" /\ QueryDriverApp(t, "status", th[t].c, NoMessage)
        /\ UNCHANGED <<driver, linked, allowance>>
    BY <1>4 DEF StatusResumes
  <2>2. th[t].c \in Clients
    BY ThreadTypes
  <2> QED
    BY <1>0, <2>1, <2>2, Asks
<1>5. ASSUME NEW op \in Sending, SendMessage(t, c, op) PROVE IdsInv'
  <2>1. /\ th[t].at # "query" /\ QueryDriverApp(t, op, c, allowance["send"]) /\ UNCHANGED <<driver, linked>>
    BY <1>5 DEF SendMessage, StartQuery
  <2>2. allowance' \in [Limited -> Nat]
    BY <1>0, <1>5, Spends DEF SendMessage
  <2>3. allowance["send"] \in Nat
    BY <1>0
  <2> QED
    BY <1>0, <2>1, <2>2, <2>3, Asks
<1> QED
  BY <1>1, <1>2, <1>3, <1>4, <1>5

LEMMA SendAgainKeeps ==
  ASSUME IdsInv, NEW t \in Threads, SendAgain(t)
  PROVE  IdsInv'
<1> USE DEF IdsInv
<1> DEFINE x == [th[t] EXCEPT !.tries = @ + 1]
           y == [q |-> th[t].op, c |-> th[t].c, m |-> th[t].m, own |-> TRUE]
<1>1. /\ th[t].at = "query" /\ driver.up /\ th' = [th EXCEPT ![t] = x]
      /\ toDriver' = Append(toDriver, y)
      /\ UNCHANGED <<connections, readEventId, linked, driver, toListener, told, bus, lost, spoilt>>
      /\ (IF Outstanding THEN Spend("fault") ELSE UNCHANGED allowance)
  BY DEF SendAgain
<1>2. x \in Thread /\ x.at = "query" /\ x.op = th[t].op
  BY <1>1, ThreadTypes DEF Thread
<1>3. th' \in [Threads -> Thread] /\ th'[t] = x /\ \A u \in Threads \ {t} : th'[u] = th[u]
  <2> HIDE DEF x
  <2> QED
    BY <1>1, <1>2, ThreadStep
<1>4. y \in Datagrams /\ IsQuery(y) /\ y.q = th[t].op /\ th[t].op \in Calls
  <2>1. th[t].op \in Calls
    BY <1>1 DEF OwnQueries, At
  <2>2. th[t].c \in Clients /\ th[t].m \in Nat
    BY ThreadTypes
  <2> QED
    BY <2>1, <2>2 DEF Datagrams, Queries, IsQuery, Calls, Sending, Blocking
<1>5. Append(toDriver, y) \in Seq(Datagrams)
  <2> HIDE DEF y
  <2> QED
    BY <1>4, AppendProperties DEF LibraryTypeOK
<1>6. allowance' \in [Limited -> Nat]
  <2>1. "fault" \in Limited
    BY DEF Limited
  <2> QED
    BY <1>1, <2>1, Spends DEF LibraryTypeOK
<1>7. LibraryTypeOK'
  BY <1>1, <1>3, <1>5, <1>6 DEF LibraryTypeOK
<1>8. OwnQueries'
  <2>1. /\ \A u \in Threads : th'[u].at = "query" <=> th[u].at = "query"
        /\ \A u \in Threads : th'[u].op = th[u].op
    BY <1>1, <1>2, <1>3
  <2>2. t \in At("query") /\ At("query")' = At("query")
    BY <1>1, <2>1 DEF At
  <2>3. ASSUME NEW i \in DOMAIN toDriver', IsQuery(toDriver'[i]), toDriver'[i].own
        PROVE  \E u \in At("query") : th[u].op = toDriver'[i].q
    <3>1. CASE i \in DOMAIN toDriver /\ toDriver'[i] = toDriver[i]
      BY <2>3, <3>1 DEF OwnQueries
    <3>2. CASE ~(i \in DOMAIN toDriver /\ toDriver'[i] = toDriver[i])
      <4>1. /\ Len(toDriver) \in Nat /\ DOMAIN toDriver = 1 .. Len(toDriver) /\ toDriver \in Seq(Datagrams)
        BY LenProperties DEF LibraryTypeOK
      <4> HIDE DEF y
      <4>2. /\ Len(toDriver') = Len(toDriver) + 1 /\ toDriver'[Len(toDriver) + 1] = y
            /\ \A j \in 1 .. Len(toDriver) : toDriver'[j] = toDriver[j]
            /\ DOMAIN toDriver' = 1 .. Len(toDriver) + 1
        BY <1>1, <1>4, <1>5, <4>1, AppendProperties, LenProperties
      <4>3. i = Len(toDriver) + 1
        BY <2>3, <3>2, <4>1, <4>2
      <4> QED
        BY <1>4, <2>2, <4>2, <4>3
    <3> QED
      BY <3>1, <3>2
  <2>4. At("query")' \subseteq Threads
    BY DEF At
  <2>5. \A u, v \in At("query")' : u = v
    BY <2>2 DEF OwnQueries
  <2>6. \A u \in At("query")' : th'[u].op \in Calls
    BY <2>1, <2>2, <2>4 DEF OwnQueries
  <2>7. \A i \in DOMAIN toDriver' : IsQuery(toDriver'[i]) /\ toDriver'[i].own =>
          \E u \in At("query")' : th'[u].op = toDriver'[i].q
    BY <2>1, <2>2, <2>3, <2>4
  <2> QED
    BY <2>5, <2>6, <2>7 DEF OwnQueries
<1>9. WithoutDriver'
  <2>1. \A b \in Clients : Notifications(b)' = Notifications(b)
    BY <1>1 DEF Notifications
  <2> QED
    BY <1>1, <2>1 DEF WithoutDriver
<1>10. ASSUME ~Confused', NEW id \in MsgIds
       PROVE  Once(connections', toDriver', driver'.avail, lost', id)
  <2>1. ~Confused
    BY <1>1, <1>10 DEF Confused
  <2>2. /\ Frees(toDriver', id) = {} <=> Frees(toDriver, id) = {}
        /\ AtMostOne(Frees(toDriver, id)) => AtMostOne(Frees(toDriver', id))
    <3> HIDE DEF y
    <3> QED
      BY <1>1, <1>4, FreesOfAppend DEF LibraryTypeOK
  <2>3. Once(connections, toDriver, driver.avail, lost, id)
    BY <1>1, <2>1
  <2>4. connections' = connections /\ driver' = driver /\ lost' = lost
    BY <1>1
  <2> HIDE DEF x, y
  <2> QED
    BY <2>2, <2>3, <2>4, OnceKept
<1> QED
  BY <1>7, <1>8, <1>9, <1>10

LEMMA QueryFailsKeeps ==
  ASSUME IdsInv, NEW t \in Threads, QueryFails(t)
  PROVE  IdsInv'
<1> USE DEF IdsInv
<1>1. /\ th[t].at = "query" /\ ~Outstanding /\ th' = [th EXCEPT ![t] = Idle]
      /\ UNCHANGED <<connections, readEventId, linked, driver, toDriver, toListener, told, bus, lost,
                     allowance, spoilt>>
  BY DEF QueryFails
<1>2. th' \in [Threads -> Thread] /\ th'[t] = Idle /\ \A u \in Threads \ {t} : th'[u] = th[u]
  BY <1>1, IdleIsThread, ThreadStep
<1>3. LibraryTypeOK'
  BY <1>1, <1>2 DEF LibraryTypeOK
<1>4. At("query")' = {}
  <2>1. \A u \in At("query") : u = t
    BY <1>1 DEF OwnQueries, At
  <2> QED
    BY <1>2, <2>1 DEF At, Idle
<1>5. OwnQueries'
  BY <1>1, <1>4 DEF OwnQueries, Outstanding
<1>6. WithoutDriver'
  <2>1. \A b \in Clients : Notifications(b)' = Notifications(b)
    BY <1>1 DEF Notifications
  <2> QED
    BY <1>1, <2>1 DEF WithoutDriver
<1>7. Confused' <=> Confused
  BY <1>1 DEF Confused
<1>8. driver'.up /\ ~Confused' =>
        \A id \in MsgIds : Once(connections', toDriver', driver'.avail, lost', id)
  BY <1>1, <1>7
<1> QED
  BY <1>3, <1>5, <1>6, <1>8

\* The steps of reading, of waiting and of the listener that have nothing to
\* do with ids.
LEMMA WaitsKeep ==
  ASSUME IdsInv, NEW t \in Threads, NEW c \in Clients,
         AddGetHWStatusNotify(t, c) \/ ReadMessage(t, c) \/ GetReadEvent(t) \/ WaitForMessage(t)
           \/ WaitTimesOut(t)
  PROVE  IdsInv'
<1> USE DEF IdsInv
<1>0. /\ {"connect", "disconnect", "send", "read", "status", "forward", "fault"} = Limited
      /\ allowance \in [Limited -> Nat] /\ connections \in [Clients -> Connection] /\ readEventId \in Nat
      /\ th[t] \in Thread
  BY ThreadTypes DEF Limited, LibraryTypeOK
<1>1. CASE AddGetHWStatusNotify(t, c)
  <2> DEFINE x == [th[t] EXCEPT !.at = "waiting", !.op = "status", !.c = c,
                                !.id = IF connections[c].valid THEN 1 ELSE 0]
  <2>1. /\ th[t].at = "idle" /\ th' = [th EXCEPT ![t] = x]
        /\ UNCHANGED <<connections, readEventId, linked, driver, toDriver, toListener, told, bus, lost,
                       spoilt>>
    BY <1>1 DEF AddGetHWStatusNotify
  <2>2. x \in Thread /\ x.at = "waiting"
    BY <1>0 DEF Thread, Calls
  <2> HIDE DEF x
  <2>3. th' \in [Threads -> Thread] /\ th'[t] = x /\ \A u \in Threads \ {t} : th'[u] = th[u]
    BY <2>1, <2>2, ThreadStep
  <2>4. allowance' \in [Limited -> Nat]
    BY <1>0, <1>1, Spends DEF AddGetHWStatusNotify
  <2>5. LibraryTypeOK'
    BY <2>1, <2>3, <2>4 DEF LibraryTypeOK
  <2>6. /\ \A u \in Threads : th'[u].at = "query" <=> th[u].at = "query"
        /\ \A u \in Threads : th[u].at = "query" => th'[u].op = th[u].op
    BY <2>1, <2>2, <2>3
  <2> QED
    BY <2>1, <2>5, <2>6, NoQuery
<1>2. CASE ReadMessage(t, c)
  <2> DEFINE x == [th[t] EXCEPT !.at = "window", !.op = "read", !.c = c]
             k == [connections[c] EXCEPT !.recvMsgQueue = @ - 1]
  <2>1. /\ th[t].at = "idle"
        /\ \/ connections[c].recvMsgQueue > 0 /\ connections' = [connections EXCEPT ![c] = k] /\ th' = th
           \/ th' = [th EXCEPT ![t] = x] /\ connections' = connections
        /\ UNCHANGED <<readEventId, linked, driver, toDriver, toListener, told, bus, lost, spoilt>>
    BY <1>2 DEF ReadMessage, OnlyReading
  <2>2. allowance' \in [Limited -> Nat]
    BY <1>0, <1>2, Spends DEF ReadMessage
  <2>3. x \in Thread /\ x.at = "window"
    BY <1>0 DEF Thread, Calls
  <2> HIDE DEF x
  <2>4. /\ th' \in [Threads -> Thread]
        /\ \A u \in Threads : th'[u].at = "query" <=> th[u].at = "query"
        /\ \A u \in Threads : th[u].at = "query" => th'[u].op = th[u].op
    <3>1. CASE th' = th
      BY <3>1 DEF LibraryTypeOK
    <3>2. CASE th' = [th EXCEPT ![t] = x]
      <4>1. th' \in [Threads -> Thread] /\ th'[t] = x /\ \A u \in Threads \ {t} : th'[u] = th[u]
        BY <2>3, <3>2, ThreadStep
      <4> QED
        BY <2>1, <2>3, <4>1
    <3> QED
      BY <2>1, <3>1, <3>2
  <2>5. /\ connections' \in [Clients -> Connection]
        /\ \A b \in Clients : connections'[b].transactions = connections[b].transactions
    <3>1. CASE connections' = connections
      BY <1>0, <3>1
    <3>2. CASE connections[c].recvMsgQueue > 0 /\ connections' = [connections EXCEPT ![c] = k]
      <4>1. connections[c] \in Connection
        BY <1>0
      <4>2. connections[c].recvMsgQueue - 1 \in Nat
        BY <4>1, <3>2 DEF Connection
      <4>3. k \in Connection /\ k.transactions = connections[c].transactions
        BY <4>1, <4>2 DEF Connection
      <4> HIDE DEF k
      <4>4. /\ connections' \in [Clients -> Connection] /\ connections'[c] = k
            /\ \A b \in Clients \ {c} : connections'[b] = connections[b]
        BY <3>2, <4>3, ConnectionStep
      <4> QED
        BY <4>3, <4>4
    <3> QED
      BY <2>1, <3>1, <3>2
  <2>6. LibraryTypeOK'
    BY <2>1, <2>2, <2>4, <2>5 DEF LibraryTypeOK
  <2> QED
    BY <2>1, <2>4, <2>5, <2>6, NoQuery
<1>3. CASE GetReadEvent(t)
  <2> DEFINE x == [th[t] EXCEPT !.at = "named"]
  <2>1. /\ th[t].at = "window" /\ th' = [th EXCEPT ![t] = x] /\ readEventId' = readEventId + 1
        /\ UNCHANGED <<connections, linked, driver, toDriver, toListener, told, bus, lost, allowance, spoilt>>
    BY <1>3 DEF GetReadEvent, Reader, OnlyReading
  <2>2. x \in Thread /\ x.at = "named"
    BY <1>0 DEF Thread
  <2> HIDE DEF x
  <2>3. th' \in [Threads -> Thread] /\ th'[t] = x /\ \A u \in Threads \ {t} : th'[u] = th[u]
    BY <2>1, <2>2, ThreadStep
  <2>4. LibraryTypeOK'
    BY <1>0, <2>1, <2>3 DEF LibraryTypeOK
  <2>5. /\ \A u \in Threads : th'[u].at = "query" <=> th[u].at = "query"
        /\ \A u \in Threads : th[u].at = "query" => th'[u].op = th[u].op
    BY <2>1, <2>2, <2>3
  <2> QED
    BY <2>1, <2>4, <2>5, NoQuery
<1>4. CASE WaitForMessage(t)
  <2>1. th[t].at = "named" /\ UNCHANGED <<readEventId, allowance, spoilt>> /\ OnlyReading
    BY <1>4 DEF WaitForMessage
  <2>2. PICK alone \in BOOLEAN :
       /\ connections' = IF ~alone THEN connections
                         ELSE [connections EXCEPT ![th[t].c].recvMsgEvents =
                                 Append(@, [by |-> t, ev |-> readEventId])]
       /\ th' = [th EXCEPT ![t] = [th[t] EXCEPT !.at = "waiting", !.id = readEventId,
                                                 !.missed = th[t].missed \/ ~alone]]
    BY <1>4 DEF WaitForMessage
  <2> DEFINE x == [th[t] EXCEPT !.at = "waiting", !.id = readEventId, !.missed = th[t].missed \/ ~alone]
             h == [by |-> t, ev |-> readEventId]
             s == connections[th[t].c].recvMsgEvents
             k == [connections[th[t].c] EXCEPT !.recvMsgEvents = Append(@, h)]
  <2>3. x \in Thread /\ x.at = "waiting"
    <3>1. \A b \in BOOLEAN : [th[t] EXCEPT !.at = "waiting", !.id = readEventId, !.missed = b] \in Thread
      BY <1>0 DEF Thread
    <3>2. (th[t].missed \/ ~alone) \in BOOLEAN
      BY <1>0, Zenon DEF Thread
    <3>3. x \in Thread
      BY <3>1, <3>2
    <3> QED
      BY <1>0, <3>3 DEF Thread
  <2>4. th' = [th EXCEPT ![t] = x]
    BY <2>2
  <2> HIDE DEF x
  <2>5. th' \in [Threads -> Thread] /\ th'[t] = x /\ \A u \in Threads \ {t} : th'[u] = th[u]
    BY <2>3, <2>4, ThreadStep
  <2>6. /\ \A u \in Threads : th'[u].at = "query" <=> th[u].at = "query"
        /\ \A u \in Threads : th[u].at = "query" => th'[u].op = th[u].op
    BY <2>1, <2>3, <2>5
  <2>7. /\ connections' \in [Clients -> Connection]
        /\ \A b \in Clients : connections'[b].transactions = connections[b].transactions
    <3>1. CASE ~alone
      BY <1>0, <2>2, <3>1
    <3>2. CASE alone
      <4>1. th[t].c \in Clients /\ connections[th[t].c] \in Connection /\ s \in Seq(Handles)
        BY <1>0, ThreadTypes, ClientTypes
      <4>2. h \in Handles
        BY <1>0 DEF Handles
      <4>3. connections' = [connections EXCEPT ![th[t].c] = k]
        BY <2>2, <3>2
      <4>4. Append(s, h) \in Seq(Handles)
        BY <4>1, <4>2, AppendProperties
      <4>5. k \in Connection /\ k.transactions = connections[th[t].c].transactions
        BY <4>1, <4>4 DEF Connection
      <4> HIDE DEF k
      <4>6. /\ connections' \in [Clients -> Connection] /\ connections'[th[t].c] = k
            /\ \A b \in Clients \ {th[t].c} : connections'[b] = connections[b]
        BY <4>1, <4>3, <4>5, ConnectionStep
      <4> QED
        BY <4>5, <4>6
    <3> QED
      BY <3>1, <3>2
  <2>8. LibraryTypeOK'
    BY <2>1, <2>5, <2>7 DEF LibraryTypeOK, OnlyReading
  <2> QED
    BY <2>1, <2>6, <2>7, <2>8, NoQuery DEF OnlyReading
<1>5. CASE WaitTimesOut(t)
  <2> DEFINE x == [th[t] EXCEPT !.at = "woken"]
  <2>1. /\ th[t].at = "waiting" /\ th' = [th EXCEPT ![t] = x]
        /\ UNCHANGED <<connections, readEventId, linked, driver, toDriver, toListener, told, bus, lost>>
        /\ spoilt \subseteq spoilt'
    BY <1>5 DEF WaitTimesOut, Reader, OnlyReading
  <2>2. x \in Thread /\ x.at = "woken"
    BY <1>0 DEF Thread
  <2> HIDE DEF x
  <2>3. th' \in [Threads -> Thread] /\ th'[t] = x /\ \A u \in Threads \ {t} : th'[u] = th[u]
    BY <2>1, <2>2, ThreadStep
  <2>4. allowance' \in [Limited -> Nat]
    BY <1>0, <1>5, Spends DEF WaitTimesOut
  <2>5. LibraryTypeOK'
    BY <2>1, <2>3, <2>4 DEF LibraryTypeOK
  <2>6. /\ \A u \in Threads : th'[u].at = "query" <=> th[u].at = "query"
        /\ \A u \in Threads : th[u].at = "query" => th'[u].op = th[u].op
    BY <2>1, <2>2, <2>3
  <2> QED
    BY <2>1, <2>5, <2>6, NoQuery
<1> QED
  BY <1>1, <1>2, <1>3, <1>4, <1>5

LEMMA FirstFacts ==
  ASSUME NEW k \in Connection, NEW n, NEW id, Found(k, n, id) # {}
  PROVE  /\ First(k, n, id) \in DOMAIN k.transactions
         /\ k.transactions[First(k, n, id)].notify = n /\ k.transactions[First(k, n, id)].id = id
         /\ k.transactions[First(k, n, id)] \in Transactions
         /\ k.transactions \in Seq(Transactions)
<1>1. /\ k.transactions \in Seq(Transactions) /\ DOMAIN k.transactions = 1 .. Len(k.transactions)
      /\ Len(k.transactions) \in Nat
      /\ \A i \in DOMAIN k.transactions : k.transactions[i] \in Transactions
  <2>1. k.transactions \in Seq(Transactions)
    BY DEF Connection
  <2> QED
    BY <2>1, LenProperties, ElementOfSeq
<1>2. Found(k, n, id) \subseteq DOMAIN k.transactions /\ Found(k, n, id) \subseteq Nat
  BY <1>1 DEF Found
<1>3. \E i \in Found(k, n, id) : \A j \in Found(k, n, id) : i <= j
  BY <1>2, Smallest
<1>4. First(k, n, id) \in Found(k, n, id)
  BY <1>3 DEF First
<1> QED
  BY <1>1, <1>2, <1>4 DEF Found

LEMMA PopFacts ==
  ASSUME NEW k \in Connection
  PROVE  /\ PopEvent(k) \in Connection /\ PopEvent(k).transactions = k.transactions
         /\ PopEvent(k).valid = k.valid /\ PopEvent(k).recvMsgQueue = k.recvMsgQueue
         /\ PopEvent(k).recvMsgEvents =
              IF k.recvMsgEvents = <<>> THEN k.recvMsgEvents ELSE Tail(k.recvMsgEvents)
         /\ FrontEvent(k) \subseteq Handles
<1>1. k.recvMsgEvents \in Seq(Handles)
  BY DEF Connection
<1>2. k.recvMsgEvents # <<>> => Tail(k.recvMsgEvents) \in Seq(Handles) /\ Head(k.recvMsgEvents) \in Handles
  BY <1>1, HeadTailProperties, EmptySeq
<1> DEFINE s == IF k.recvMsgEvents = <<>> THEN k.recvMsgEvents ELSE Tail(k.recvMsgEvents)
<1>3. s \in Seq(Handles) /\ PopEvent(k) = [k EXCEPT !.recvMsgEvents = s]
  BY <1>1, <1>2 DEF PopEvent
<1> HIDE DEF s
<1>4. PopEvent(k) \in Connection /\ PopEvent(k).transactions = k.transactions
      /\ PopEvent(k).valid = k.valid /\ PopEvent(k).recvMsgQueue = k.recvMsgQueue
      /\ PopEvent(k).recvMsgEvents = s
  BY <1>3 DEF Connection
<1>5. FrontEvent(k) \subseteq Handles
  BY <1>2 DEF FrontEvent
<1> QED
  BY <1>4, <1>5 DEF s

LEMMA ListenerQueue ==
  ASSUME LibraryTypeOK
  PROVE  /\ toListener # <<>> => Tail(toListener) \in Seq(News) /\ Head(toListener) \in News
                                   /\ Head(toListener).c \in Clients
         /\ \A x \in News : Append(toListener, x) \in Seq(News)
<1>1. toListener \in Seq(News)
  BY DEF LibraryTypeOK
<1>2. toListener # <<>> => Tail(toListener) \in Seq(News) /\ Head(toListener) \in News
  BY <1>1, HeadTailProperties, EmptySeq
<1>3. \A x \in News : x.c \in Clients
  BY DEF News, Outcomes
<1> QED
  BY <1>1, <1>2, <1>3, AppendProperties

LEMMA NewsKeeps ==
  ASSUME IdsInv, NEW c \in Clients,
         DriverForwards(c) \/ MisreadOutcome \/ HearMessage
           \/ \E p \in driver.pending, ok \in BOOLEAN : DriverReports(p, ok)
  PROVE  IdsInv'
<1> USE DEF IdsInv
<1>0. {"connect", "disconnect", "send", "read", "status", "forward", "fault"} = Limited
  BY DEF Limited
<1>1. CASE DriverForwards(c)
  <2>1. /\ toListener' = Append(toListener, [kind |-> "readmessage", c |-> c])
        /\ UNCHANGED <<connections, th, readEventId, linked, driver, toDriver, told, bus, lost, spoilt>>
    BY <1>1 DEF DriverForwards
  <2>2. allowance' \in [Limited -> Nat]
    BY <1>0, <1>1, Spends DEF DriverForwards
  <2>3. toListener' \in Seq(News)
    BY <2>1, ListenerQueue DEF News
  <2>4. LibraryTypeOK'
    BY <2>1, <2>2, <2>3 DEF LibraryTypeOK
  <2> QED
    BY <2>1, <2>4, NoQuery
<1>2. CASE MisreadOutcome
  <2>1. /\ toListener # <<>> /\ toListener' = Tail(toListener) /\ spoilt \subseteq spoilt'
        /\ UNCHANGED <<connections, th, readEventId, linked, driver, toDriver, told, bus, lost>>
    BY <1>2 DEF MisreadOutcome, Listening
  <2>2. allowance' \in [Limited -> Nat]
    BY <1>0, <1>2, Spends DEF MisreadOutcome
  <2>3. toListener' \in Seq(News)
    BY <2>1, ListenerQueue
  <2>4. LibraryTypeOK'
    BY <2>1, <2>2, <2>3 DEF LibraryTypeOK
  <2> QED
    BY <2>1, <2>4, NoQuery
<1>3. CASE HearMessage
  <2> DEFINE b == Head(toListener).c
             k == [PopEvent(connections[b]) EXCEPT !.recvMsgQueue = @ + 1]
  <2>1. /\ toListener # <<>> /\ toListener' = Tail(toListener) /\ connections' = [connections EXCEPT ![b] = k]
        /\ UNCHANGED <<readEventId, linked, driver, toDriver, told, bus, lost, allowance, spoilt>>
        /\ \E W, missed : W \subseteq At("waiting") /\ th' = After(W, {}, missed)
    BY <1>3, Woken DEF HearMessage, Listening
  <2>2. toListener' \in Seq(News) /\ b \in Clients
    BY <2>1, ListenerQueue
  <2>3. connections[b] \in Connection
    BY <2>2, ClientTypes
  <2>4. k \in Connection /\ k.transactions = connections[b].transactions
    <3>1. PopEvent(connections[b]) \in Connection /\ PopEvent(connections[b]).transactions = connections[b].transactions
      BY <2>3, PopFacts
    <3> QED
      BY <3>1 DEF Connection
  <2> HIDE DEF k, b
  <2>5. /\ connections' \in [Clients -> Connection]
        /\ \A a \in Clients : connections'[a].transactions = connections[a].transactions
    BY <2>1, <2>2, <2>4, ConnectionStep
  <2>6. /\ th' \in [Threads -> Thread]
        /\ \A t \in Threads : th'[t].at = "query" <=> th[t].at = "query"
        /\ \A t \in Threads : th'[t].op = th[t].op
    <3>1. PICK W, missed : W \subseteq At("waiting") /\ th' = After(W, {}, missed)
      BY <2>1
    <3> DEFINE done == {}
    <3>2. W \subseteq At("waiting") /\ th' = After(W, done, missed)
      BY <3>1
    <3>3. \A t : t \notin done
      OBVIOUS
    <3> HIDE DEF done
    <3>4. /\ th' \in [Threads -> Thread]
          /\ \A t \in Threads : th'[t].at = "query" <=> t \notin done /\ th[t].at = "query"
          /\ \A t \in Threads : t \notin done => th'[t].op = th[t].op
      BY <3>2, AfterFacts
    <3> QED
      BY <3>3, <3>4
  <2>7. LibraryTypeOK'
    BY <2>1, <2>2, <2>5, <2>6 DEF LibraryTypeOK
  <2> QED
    BY <2>1, <2>5, <2>6, <2>7, NoQuery
<1>4. ASSUME NEW p \in driver.pending, NEW ok \in BOOLEAN, DriverReports(p, ok) PROVE IdsInv'
  <2>1. /\ driver' = [driver EXCEPT !.pending = @ \ {p}] /\ toListener' = Append(toListener, Outcome(p, ok))
        /\ UNCHANGED <<connections, th, readEventId, linked, toDriver, told, lost, allowance, spoilt>>
    BY <1>4 DEF DriverReports
  <2>2. driver \in Driver /\ p \in Promises /\ IsFiniteSet(driver.pending)
    BY DEF LibraryTypeOK, Driver
  <2>3. driver' \in Driver /\ driver'.up = driver.up /\ driver'.avail = driver.avail
        /\ driver'.pending = driver.pending \ {p}
    BY <2>1, <2>2 DEF Driver
  <2>4. Outcome(p, ok) \in News
    BY <2>2 DEF Outcome, Promises, News, Outcomes
  <2>5. toListener' \in Seq(News)
    BY <2>1, <2>4, ListenerQueue
  <2>6. IsFiniteSet(driver'.pending)
    BY <2>2, <2>3, FS_RemoveElement
  <2>7. LibraryTypeOK'
    BY <2>1, <2>3, <2>5, <2>6 DEF LibraryTypeOK
  <2> QED
    BY <2>1, <2>3, <2>7, NoQuery
<1> QED
  BY <1>1, <1>2, <1>3, <1>4

LEMMA ReadReturnsKeeps ==
  ASSUME IdsInv, NEW t \in Threads, ReadReturns(t)
  PROVE  IdsInv'
<1> USE DEF IdsInv
<1> DEFINE c == th[t].c  k == connections[c]
<1>1. /\ th[t].at = "woken" /\ CsFree
      /\ UNCHANGED <<readEventId, allowance, spoilt, linked, driver, toDriver, toListener, told, bus, lost>>
  BY DEF ReadReturns, OnlyReading
<1>2. c \in Clients /\ k \in Connection
  BY ThreadTypes, ClientTypes
<1>3. /\ th' \in [Threads -> Thread]
      /\ \A u \in Threads : th'[u].at = "query" <=> th[u].at = "query"
      /\ \A u \in Threads : th[u].at = "query" => th'[u].op = th[u].op
  <2>1. \E W, missed : W \subseteq At("waiting") /\ th' = After(W, {t}, missed)
    <3>1. \/ th' = After({}, {t}, {})
          \/ \E W \in SetEvents({h \in FrontEvent(k) : h.by # t}) : th' = After(W, {t}, Robbed(FrontEvent(k), W))
      BY DEF ReadReturns
    <3>2. {} \subseteq At("waiting") /\ \A W \in SetEvents({h \in FrontEvent(k) : h.by # t}) : W \subseteq At("waiting")
      BY Woken
    <3> QED
      BY <3>1, <3>2, Zenon
  <2>2. PICK W, missed : W \subseteq At("waiting") /\ th' = After(W, {t}, missed)
    BY <2>1
  <2>3. /\ th' \in [Threads -> Thread]
        /\ \A u \in Threads : th'[u].at = "query" <=> u \notin {t} /\ th[u].at = "query"
        /\ \A u \in Threads : u \notin {t} => th'[u].op = th[u].op
    BY <2>2, AfterFacts
  <2> QED
    BY <1>1, <2>3
<1>4. \/ connections' = connections
      \/ connections' = [connections EXCEPT ![c] = PopEvent(k)]
      \/ k.recvMsgQueue > 0 /\ connections' = [connections EXCEPT ![c] = [k EXCEPT !.recvMsgQueue = @ - 1]]
  BY DEF ReadReturns
<1>5. /\ connections' \in [Clients -> Connection]
      /\ \A b \in Clients : connections'[b].transactions = connections[b].transactions
  <2>1. CASE connections' = connections
    BY <2>1 DEF LibraryTypeOK
  <2>2. CASE connections' = [connections EXCEPT ![c] = PopEvent(k)]
    <3>1. PopEvent(k) \in Connection /\ PopEvent(k).transactions = k.transactions
      BY <1>2, PopFacts
    <3> QED
      BY <1>2, <2>2, <3>1, ConnectionStep
  <2>3. CASE k.recvMsgQueue > 0 /\ connections' = [connections EXCEPT ![c] = [k EXCEPT !.recvMsgQueue = @ - 1]]
    <3> DEFINE j == [k EXCEPT !.recvMsgQueue = @ - 1]
    <3>1. j \in Connection /\ j.transactions = k.transactions
      BY <1>2, <2>3 DEF Connection
    <3>2. connections' = [connections EXCEPT ![c] = j]
      BY <2>3
    <3> HIDE DEF j
    <3> QED
      BY <1>2, <3>1, <3>2, ConnectionStep
  <2> QED
    BY <1>4, <2>1, <2>2, <2>3
<1>6. LibraryTypeOK'
  BY <1>1, <1>3, <1>5 DEF LibraryTypeOK
<1> QED
  BY <1>1, <1>3, <1>5, <1>6, NoQuery

LEMMA SendReturnsKeeps ==
  ASSUME IdsInv, NEW t \in Threads, SendReturns(t)
  PROVE  IdsInv'
<1> USE DEF IdsInv
<1> DEFINE c == th[t].c  k == connections[c]  j == RemoveTransaction(k, FALSE, th[t].id)
<1>1. /\ th[t].at = "woken" /\ CsFree /\ th' = [th EXCEPT ![t] = Idle]
      /\ connections' = [connections EXCEPT ![c] = j]
      /\ UNCHANGED <<readEventId, linked, driver, toDriver, toListener, bus, lost, allowance, spoilt>>
  BY DEF SendReturns
<1>2. c \in Clients /\ k \in Connection
  BY ThreadTypes, ClientTypes
<1>3. /\ j \in Connection
      /\ \A id : /\ Notes(j, id) = {} <=> Notes(k, id) = {}
                 /\ AtMostOne(Notes(k, id)) => AtMostOne(Notes(j, id))
  <2>1. CASE Found(k, FALSE, th[t].id) = {}
    <3>1. j = k
      BY <2>1 DEF RemoveTransaction
    <3> HIDE DEF j
    <3> QED
      BY <1>2, <3>1
  <2>2. CASE Found(k, FALSE, th[t].id) # {}
    <3> DEFINE i == First(k, FALSE, th[t].id)  s == RemoveAt(k.transactions, i)
    <3>1. i \in DOMAIN k.transactions /\ ~k.transactions[i].notify /\ k.transactions \in Seq(Transactions)
      <4> DEFINE n == FALSE
      <4>1. Found(k, n, th[t].id) # {} /\ i = First(k, n, th[t].id)
        BY <2>2
      <4>2. ~n
        OBVIOUS
      <4> HIDE DEF n, k, i
      <4>3. /\ i \in DOMAIN k.transactions /\ k.transactions[i].notify = n
            /\ k.transactions \in Seq(Transactions)
        BY <1>2, <4>1, FirstFacts
      <4> QED
        BY <4>2, <4>3
    <3>2. j = [k EXCEPT !.transactions = s]
      BY <2>2 DEF RemoveTransaction
    <3>3. j.transactions = s
      BY <1>2, <3>2 DEF Connection
    <3> HIDE DEF j, i
    <3>4. \A id : i \notin Notes(k, id)
      BY <3>1 DEF Notes
    <3>5. s \in Seq(Transactions)
      BY <3>1, <3>3, NotesRemoved
    <3>6. \A id : /\ Notes(j, id) = {} <=> Notes(k, id) = {}
                  /\ AtMostOne(Notes(k, id)) => AtMostOne(Notes(j, id))
      BY <3>1, <3>3, <3>4, NotesRemoved
    <3>7. j \in Connection
      <4> HIDE DEF s
      <4> QED
        BY <1>2, <3>2, <3>5 DEF Connection
    <3> QED
      BY <3>6, <3>7
  <2> QED
    BY <2>1, <2>2
<1> HIDE DEF j
<1>4. /\ connections' \in [Clients -> Connection] /\ connections'[c] = j
      /\ \A b \in Clients \ {c} : connections'[b] = connections[b]
  BY <1>1, <1>2, <1>3, ConnectionStep
<1>5. th' \in [Threads -> Thread] /\ th'[t] = Idle /\ \A u \in Threads \ {t} : th'[u] = th[u]
  BY <1>1, IdleIsThread, ThreadStep
<1>6. LibraryTypeOK'
  BY <1>1, <1>4, <1>5 DEF LibraryTypeOK
<1>7. OwnQueries'
  <2>1. At("query") = {} /\ At("query")' = {}
    BY <1>1, <1>5 DEF CsFree, At, Idle
  <2> QED
    BY <1>1, <2>1 DEF OwnQueries
<1>8. \A id : \A b \in Clients : /\ Notes(connections'[b], id) = {} <=> Notes(connections[b], id) = {}
                                 /\ AtMostOne(Notes(connections[b], id)) => AtMostOne(Notes(connections'[b], id))
  BY <1>3, <1>4
<1>9. WithoutDriver'
  <2>1. ASSUME ~linked', NEW b \in Clients PROVE Notifications(b)' = {}
    <3>1. Notifications(b) = {}
      BY <1>1, <2>1 DEF WithoutDriver
    <3>2. \A id : Notes(connections[b], id) = {}
      BY <3>1 DEF Notes, Notifications
    <3>3. \A id : Notes(connections'[b], id) = {}
      BY <1>8, <3>2
    <3> QED
      BY <3>3 DEF Notes, Notifications
  <2> QED
    BY <1>1, <2>1 DEF WithoutDriver
<1>10. ASSUME driver'.up, ~Confused', NEW id \in MsgIds
       PROVE  Once(connections', toDriver', driver'.avail, lost', id)
  <2>1. ~Confused
    BY <1>1, <1>10 DEF Confused
  <2>2. Once(connections, toDriver, driver.avail, lost, id)
    BY <1>1, <1>10, <2>1
  <2>3. driver' = driver /\ lost' = lost /\ toDriver' = toDriver
    BY <1>1
  <2> QED
    BY <1>8, <2>2, <2>3, OnceKept
<1> QED
  BY <1>6, <1>7, <1>9, <1>10

LEMMA HearOutcomeKeeps ==
  ASSUME IdsInv, HearOutcome
  PROVE  IdsInv'
<1> USE DEF IdsInv
<1> DEFINE x == Head(toListener)  c == x.c  k == connections[c]  i == First(k, x.notify, x.id)
           j == UpdateTransaction(k, i, x.ok)  y == FreeMsgId(x.id)
<1>1. /\ linked /\ CsFree /\ toListener # <<>> /\ x.kind = "outcome" /\ toListener' = Tail(toListener)
      /\ UNCHANGED <<readEventId, linked, driver, bus, lost, allowance, spoilt>>
  BY DEF HearOutcome, Listening
<1>2. x \in Outcomes /\ toListener' \in Seq(News)
  <2>1. x \in News
    BY <1>1, ListenerQueue
  <2> QED
    BY <1>1, <2>1, ListenerQueue DEF News
<1>3. c \in Clients /\ x.notify \in BOOLEAN /\ x.id \in Nat /\ k \in Connection
  BY <1>2, ClientTypes DEF Outcomes
<1>4. CASE Found(k, x.notify, x.id) = {}
  <2>1. UNCHANGED <<connections, th, told, toDriver>>
    BY <1>4 DEF HearOutcome
  <2>2. LibraryTypeOK'
    BY <1>1, <1>2, <2>1 DEF LibraryTypeOK
  <2> HIDE DEF x, c, k, i, j, y
  <2> QED
    BY <1>1, <2>1, <2>2, NoQuery
<1>5. CASE Found(k, x.notify, x.id) # {}
  <2>1. /\ connections' = [connections EXCEPT ![c] = j]
        /\ th' = After(IF x.notify THEN {} ELSE Senders(c, x.id), {}, {})
        /\ toDriver' = IF x.notify /\ driver.up THEN Append(toDriver, y) ELSE toDriver
    BY <1>5 DEF HearOutcome
  <2>2. /\ i \in DOMAIN k.transactions /\ k.transactions[i].notify = x.notify
        /\ k.transactions[i].id = x.id /\ k.transactions \in Seq(Transactions)
        /\ k.transactions[i] \in Transactions
    BY <1>3, <1>5, FirstFacts
  <2>3. /\ th' \in [Threads -> Thread]
        /\ \A t \in Threads : th'[t].at = "query" <=> th[t].at = "query"
        /\ \A t \in Threads : th'[t].op = th[t].op
    <3> DEFINE W == IF x.notify THEN {} ELSE Senders(c, x.id)
               done == {}
    <3>1. th' = After(W, done, {}) /\ W \subseteq At("waiting")
      BY <2>1, Woken
    <3>2. \A t : t \notin done
      OBVIOUS
    <3> HIDE DEF W, done
    <3>3. /\ th' \in [Threads -> Thread]
          /\ \A t \in Threads : th'[t].at = "query" <=> t \notin done /\ th[t].at = "query"
          /\ \A t \in Threads : t \notin done => th'[t].op = th[t].op
      BY <3>1, AfterFacts
    <3> QED
      BY <3>2, <3>3
  <2>4. At("query") = {} /\ At("query")' = {}
    BY <1>1, <2>3 DEF CsFree, At
  <2>5. ~\E n \in DOMAIN toDriver : IsQuery(toDriver[n]) /\ toDriver[n].own
    BY <2>4 DEF OwnQueries
  <2>6. CASE x.notify
    <3> DEFINE s == RemoveAt(k.transactions, i)
    <3>1. j = [k EXCEPT !.transactions = s] /\ i \in Notes(k, x.id)
      BY <2>2, <2>6 DEF UpdateTransaction, Notes
    <3>2. j.transactions = s
      BY <1>3, <3>1 DEF Connection
    <3>3. y \in Datagrams /\ ~IsQuery(y) /\ y.id = x.id
      BY <1>3 DEF FreeMsgId, Datagrams, Freeing, IsQuery
    <3>4. toDriver' = IF driver.up THEN Append(toDriver, y) ELSE toDriver
      BY <2>1, <2>6
    <3>5. connections' = [connections EXCEPT ![c] = j]
      BY <2>1
    <3>6. \A id : id # x.id => i \notin Notes(k, id)
      BY <2>2 DEF Notes
    <3> DEFINE v == x.id
    <3> HIDE DEF j, y, x, i, v
    <3>7. s \in Seq(Transactions)
      BY <2>2, <3>2, NotesRemoved
    <3>8. j \in Connection
      <4> HIDE DEF s
      <4> QED
        BY <1>3, <3>1, <3>7 DEF Connection
    <3>9. \A id : /\ AtMostOne(Notes(k, id)) => AtMostOne(Notes(j, id))
                  /\ id # v => (Notes(j, id) = {} <=> Notes(k, id) = {})
                  /\ id = v /\ AtMostOne(Notes(k, id)) => Notes(j, id) = {} /\ Notes(k, id) # {}
      <4>1. SUFFICES ASSUME NEW id
                     PROVE  /\ AtMostOne(Notes(k, id)) => AtMostOne(Notes(j, id))
                            /\ id # v => (Notes(j, id) = {} <=> Notes(k, id) = {})
                            /\ id = v /\ AtMostOne(Notes(k, id)) => Notes(j, id) = {} /\ Notes(k, id) # {}
        OBVIOUS
      <4>2. /\ AtMostOne(Notes(k, id)) => AtMostOne(Notes(j, id))
            /\ i \in Notes(k, id) /\ AtMostOne(Notes(k, id)) => Notes(j, id) = {}
            /\ i \notin Notes(k, id) => (Notes(j, id) = {} <=> Notes(k, id) = {})
        BY <2>2, <3>2, NotesRemoved
      <4>3. id # v => i \notin Notes(k, id)
        BY <3>6 DEF v
      <4>4. i \in Notes(k, v)
        BY <3>1 DEF v
      <4> QED
        BY <4>2, <4>3, <4>4
    <3> HIDE DEF s, k, c
    <3>10. /\ connections' \in [Clients -> Connection] /\ connections'[c] = j
           /\ \A b \in Clients \ {c} : connections'[b] = connections[b]
      BY <1>3, <3>5, <3>8, ConnectionStep
    <3>11. toDriver' \in Seq(Datagrams)
      BY <3>3, <3>4, AppendProperties DEF LibraryTypeOK
    <3>12. LibraryTypeOK'
      BY <1>1, <1>2, <2>3, <3>10, <3>11 DEF LibraryTypeOK
    <3>13. OwnQueries'
      <4>1. ASSUME NEW n \in DOMAIN toDriver', IsQuery(toDriver'[n]) PROVE ~toDriver'[n].own
        <5>1. /\ Len(toDriver) \in Nat /\ DOMAIN toDriver = 1 .. Len(toDriver) /\ toDriver \in Seq(Datagrams)
          BY LenProperties DEF LibraryTypeOK
        <5>2. CASE toDriver' = toDriver
          BY <2>5, <4>1, <5>2
        <5>3. CASE toDriver' = Append(toDriver, y)
          <6>1. /\ Len(toDriver') = Len(toDriver) + 1 /\ toDriver'[Len(toDriver) + 1] = y
                /\ \A m \in 1 .. Len(toDriver) : toDriver'[m] = toDriver[m]
                /\ DOMAIN toDriver' = 1 .. Len(toDriver) + 1
            BY <3>3, <3>11, <5>1, <5>3, AppendProperties, LenProperties
          <6>2. n \in 1 .. Len(toDriver) \/ n = Len(toDriver) + 1
            BY <4>1, <5>1, <6>1
          <6> QED
            BY <2>5, <3>3, <4>1, <5>1, <6>1, <6>2
        <5> QED
          BY <3>4, <5>2, <5>3
      <4> QED
        BY <2>4, <4>1 DEF OwnQueries
    <3>14. WithoutDriver'
      BY <1>1, <3>4 DEF WithoutDriver
    <3>15. ASSUME driver'.up, ~Confused', NEW id \in MsgIds
           PROVE  Once(connections', toDriver', driver'.avail, lost', id)
      <4>1. ~Confused /\ driver.up
        BY <1>1, <3>15 DEF Confused
      <4>2. Once(connections, toDriver, driver.avail, lost, id)
        BY <4>1
      <4>3. driver' = driver /\ lost' = lost /\ toDriver' = Append(toDriver, y)
        BY <1>1, <3>4, <4>1
      <4>4. AtMostOne(Notes(k, id))
        BY <1>3, <4>2 DEF Once, k
      <4>5. CASE id # v
        <5>1. \A b \in Clients : /\ Notes(connections'[b], id) = {} <=> Notes(connections[b], id) = {}
                                 /\ AtMostOne(Notes(connections[b], id)) => AtMostOne(Notes(connections'[b], id))
          BY <3>9, <3>10, <4>5 DEF k
        <5>2. /\ Frees(toDriver', id) = {} <=> Frees(toDriver, id) = {}
              /\ AtMostOne(Frees(toDriver, id)) => AtMostOne(Frees(toDriver', id))
          BY <3>3, <4>3, <4>5, FreesOfAppend DEF v, LibraryTypeOK
        <5>3. (id \in driver'.avail <=> id \in driver.avail) /\ (id \in lost' <=> id \in lost)
          BY <4>3
        <5> QED
          BY <4>2, <5>1, <5>2, <5>3, OnceKept
      <4>6. CASE id = v
        <5>1. Notes(connections[c], id) # {} /\ Notes(connections'[c], id) = {}
          BY <3>9, <3>10, <4>4, <4>6 DEF k
        <5>2. \A b \in Clients : Notes(connections'[b], id) = {}
          BY <1>3, <3>10, <4>2, <5>1 DEF Once
        <5>3. Frees(toDriver, id) = {} /\ id \notin driver.avail /\ id \notin lost
          BY <1>3, <4>2, <5>1 DEF Once, HeldIn
        <5>4. Frees(toDriver', id) # {} /\ AtMostOne(Frees(toDriver', id))
          BY <3>3, <4>3, <4>6, <5>3, FreesOfAppend DEF v, LibraryTypeOK
        <5> QED
          BY <4>3, <5>2, <5>3, <5>4 DEF Once, AtMostOne, HeldIn
      <4> QED
        BY <4>5, <4>6
    <3> QED
      BY <3>12, <3>13, <3>14, <3>15
  <2>7. CASE ~x.notify
    <3> DEFINE z == [k.transactions[i] EXCEPT !.code = IF x.ok THEN "ok" ELSE "failed"]
               s == [k.transactions EXCEPT ![i] = z]
    <3>1. j = [k EXCEPT !.transactions = s]
      BY <2>2, <2>7 DEF UpdateTransaction
    <3>2. j.transactions = s
      BY <1>3, <3>1 DEF Connection
    <3>3. z \in Transactions /\ z.notify = k.transactions[i].notify /\ z.id = k.transactions[i].id
      BY <2>2 DEF Transactions
    <3>4. connections' = [connections EXCEPT ![c] = j] /\ toDriver' = toDriver
      BY <2>1, <2>7
    <3> HIDE DEF z, x, i, j
    <3>5. s \in Seq(Transactions) /\ DOMAIN s = DOMAIN k.transactions
          /\ \A n \in DOMAIN s : s[n].notify = k.transactions[n].notify /\ s[n].id = k.transactions[n].id
      BY <2>2, <3>3, ExceptSeq
    <3> HIDE DEF s
    <3>6. j \in Connection
      BY <1>3, <3>1, <3>5 DEF Connection
    <3>7. \A id : Notes(j, id) = Notes(k, id)
      BY <3>2, <3>5 DEF Notes
    <3> HIDE DEF k, c
    <3>8. /\ connections' \in [Clients -> Connection] /\ connections'[c] = j
          /\ \A b \in Clients \ {c} : connections'[b] = connections[b]
      BY <1>3, <3>4, <3>6, ConnectionStep
    <3>9. LibraryTypeOK'
      BY <1>1, <1>2, <2>3, <3>4, <3>8 DEF LibraryTypeOK
    <3>10. OwnQueries'
      BY <2>4, <2>5, <3>4 DEF OwnQueries
    <3>11. WithoutDriver'
      BY <1>1, <3>4 DEF WithoutDriver
    <3>12. ASSUME driver'.up, ~Confused', NEW id \in MsgIds
           PROVE  Once(connections', toDriver', driver'.avail, lost', id)
      <4>1. ~Confused /\ driver.up
        BY <1>1, <3>12 DEF Confused
      <4>2. Once(connections, toDriver, driver.avail, lost, id)
        BY <4>1
      <4>3. driver' = driver /\ lost' = lost /\ toDriver' = toDriver
        BY <1>1, <3>4
      <4>4. \A b \in Clients : Notes(connections'[b], id) = Notes(connections[b], id)
        BY <3>7, <3>8 DEF k
      <4> QED
        BY <4>2, <4>3, <4>4, OnceKept
    <3> QED
      BY <3>9, <3>10, <3>11, <3>12
  <2> QED
    BY <1>3, <2>6, <2>7
<1> QED
  BY <1>4, <1>5

LEMMA ListenerGivesUpKeeps ==
  ASSUME IdsInv, ListenerGivesUp
  PROVE  IdsInv'
<1> USE DEF IdsInv
<1>1. /\ linked /\ CsFree /\ ~driver.up /\ toListener = <<>> /\ linked' = FALSE
      /\ Clear(Clients, {}, {}, toDriver, {})
      /\ UNCHANGED <<readEventId, driver, toListener, bus, lost, allowance>>
  BY DEF ListenerGivesUp
<1>2. toDriver \in Seq(Datagrams)
  BY DEF LibraryTypeOK
<1>3. PICK C, anew, done, defects, d :
           /\ C = Clients /\ anew = {} /\ done = {} /\ d = toDriver
           /\ Clear(C, anew, done, d, defects)
  BY <1>1
<1>9. C \subseteq Clients /\ anew \subseteq C /\ d \in Seq(Datagrams)
  BY <1>2, <1>3
<1>10. /\ connections' \in [Clients -> Connection] /\ th' \in [Threads -> Thread]
       /\ toDriver' \in Seq(Datagrams)
       /\ \A t \in Threads : th'[t].at = "query" <=> t \notin done /\ th[t].at = "query"
       /\ ~driver.up => toDriver' = d
       /\ \A c \in C : \A id : Notes(connections'[c], id) = {}
  <2> HIDE DEF IdsInv
  <2>0. LibraryTypeOK
    BY DEF IdsInv
  <2>1. connections' \in [Clients -> Connection] /\ th' \in [Threads -> Thread] /\ toDriver' \in Seq(Datagrams)
    BY <1>3, <1>9, <2>0, ClearFacts
  <2>2. \A t \in Threads : th'[t].at = "query" <=> t \notin done /\ th[t].at = "query"
    BY <1>3, <1>9, <2>0, ClearFacts
  <2>3. ~driver.up => toDriver' = d
    BY <1>3 DEF Clear
  <2>4. \A c \in C : \A id : Notes(connections'[c], id) = {}
    BY <1>3, <1>9, <2>0, ClearFacts
  <2> QED
    BY <2>1, <2>2, <2>3, <2>4
<1>4. /\ connections' \in [Clients -> Connection] /\ th' \in [Threads -> Thread]
      /\ toDriver' \in Seq(Datagrams)
      /\ \A t \in Threads : th'[t].at = "query" <=> th[t].at = "query"
      /\ toDriver' = toDriver
      /\ \A c \in Clients : \A id : Notes(connections'[c], id) = {}
  BY <1>1, <1>3, <1>10
<1>5. LibraryTypeOK'
  BY <1>1, <1>4 DEF LibraryTypeOK
<1>6. OwnQueries'
  <2>1. At("query") = {} /\ At("query")' = {}
    BY <1>1, <1>4 DEF CsFree, At
  <2> QED
    BY <1>1, <1>4, <2>1 DEF OwnQueries
<1>7. WithoutDriver'
  <2>1. \A c \in Clients : Notifications(c)' = {}
    BY <1>4 DEF Notes, Notifications
  <2> QED
    BY <1>1, <1>4, <2>1 DEF WithoutDriver
<1> QED
  BY <1>1, <1>5, <1>6, <1>7

LEMMA DriverEndsKeeps ==
  ASSUME IdsInv, DriverEnds
  PROVE  IdsInv'
<1> USE DEF IdsInv
<1>1. /\ driver' = [Started EXCEPT !.up = FALSE] /\ toDriver' = <<>> /\ lost' = {} /\ Spend("fault")
      /\ driver.up
      /\ UNCHANGED <<connections, th, readEventId, linked, toListener, told, bus, spoilt>>
  BY DEF DriverEnds
<1>2. /\ driver' \in Driver /\ ~driver'.up /\ IsFiniteSet(driver'.pending)
  BY <1>1, StartedFacts DEF Driver
<1>3. allowance' \in [Limited -> Nat] /\ toDriver' \in Seq(Datagrams)
  BY <1>1, Spends DEF Limited
<1>4. LibraryTypeOK'
  BY <1>1, <1>2, <1>3 DEF LibraryTypeOK
<1>5. OwnQueries'
  BY <1>1 DEF OwnQueries, At
<1>6. WithoutDriver'
  <2>1. \A c \in Clients : Notifications(c)' = Notifications(c)
    BY <1>1 DEF Notifications
  <2> QED
    BY <1>1, <1>2, <2>1 DEF WithoutDriver
<1> QED
  BY <1>2, <1>4, <1>5, <1>6

LEMMA DriverFreesIdKeeps ==
  ASSUME IdsInv, DriverFreesId
  PROVE  IdsInv'
<1> USE DEF IdsInv
<1> DEFINE x == Head(toDriver)  v == x.id
<1>1. /\ driver.up /\ toDriver # <<>> /\ ~IsQuery(x)
      /\ driver' = [driver EXCEPT !.avail = @ \cup {v}] /\ toDriver' = Tail(toDriver)
      /\ UNCHANGED <<connections, th, readEventId, linked, toListener, told, bus, lost, allowance, spoilt>>
  BY DEF DriverFreesId
<1>2. toDriver \in Seq(Datagrams) /\ driver \in Driver
  BY DEF LibraryTypeOK
<1>3. toDriver' \in Seq(Datagrams) /\ x \in Datagrams
  BY <1>1, <1>2, FreesOfTail
<1>4. v \in Nat
  BY <1>1, <1>3 DEF Datagrams, Queries, Freeing, IsQuery, Calls, Sending, Blocking
<1>5. /\ driver' \in Driver /\ driver'.up = driver.up /\ driver'.pending = driver.pending
      /\ driver'.avail = driver.avail \cup {v}
  BY <1>1, <1>2, <1>4 DEF Driver
<1>6. LibraryTypeOK'
  BY <1>1, <1>3, <1>5 DEF LibraryTypeOK
<1>7. OwnQueries'
  <2>1. \A i \in DOMAIN toDriver' : \E j \in DOMAIN toDriver : toDriver'[i] = toDriver[j]
    BY <1>1, <1>2, TailIsPart
  <2>2. At("query")' = At("query")
    BY <1>1 DEF At
  <2> QED
    BY <1>1, <2>1, <2>2 DEF OwnQueries
<1>8. WithoutDriver'
  <2>1. \A c \in Clients : Notifications(c)' = Notifications(c)
    BY <1>1 DEF Notifications
  <2> QED
    BY <1>1, <1>5, <2>1 DEF WithoutDriver
<1>9. ASSUME ~Confused', NEW id \in MsgIds
      PROVE  Once(connections', toDriver', driver'.avail, lost', id)
  <2>1. ~Confused
    BY <1>1, <1>9 DEF Confused
  <2>2. Once(connections, toDriver, driver.avail, lost, id)
    BY <1>1, <2>1
  <2>3. connections' = connections /\ lost' = lost
    BY <1>1
  <2>4. CASE id # v
    <3>1. /\ Frees(toDriver', id) = {} <=> Frees(toDriver, id) = {}
          /\ AtMostOne(Frees(toDriver, id)) => AtMostOne(Frees(toDriver', id))
      BY <1>1, <1>2, <2>4, FreesOfTail
    <3>2. id \in driver'.avail <=> id \in driver.avail
      BY <1>5, <2>4
    <3> HIDE DEF v, x
    <3> QED
      BY <2>2, <2>3, <3>1, <3>2, OnceKept
  <2>5. CASE id = v
    <3>1. Frees(toDriver, id) # {} /\ Frees(toDriver', id) = {}
      <4>1. 1 \in DOMAIN toDriver /\ x = toDriver[1]
        BY <1>1, <1>2, EmptySeq, LenProperties
      <4>2. 1 \in Frees(toDriver, id)
        BY <1>1, <2>5, <4>1 DEF Frees
      <4>3. AtMostOne(Frees(toDriver, id))
        BY <2>2 DEF Once
      <4> QED
        BY <1>1, <1>2, <2>5, <4>2, <4>3, FreesOfTail
    <3>2. ~HeldIn(connections, id) /\ id \notin lost /\ id \in driver'.avail
      BY <1>5, <2>2, <2>5, <3>1 DEF Once
    <3> HIDE DEF v, x
    <3> QED
      BY <2>2, <2>3, <3>1, <3>2 DEF Once, AtMostOne
  <2> QED
    BY <2>4, <2>5
<1> QED
  BY <1>6, <1>7, <1>8, <1>9

(***************************************************************************)
(* The driver serves a query and the call that waits takes the answer.     *)
(***************************************************************************)
\* A call has got its answer: d was left to the driver, and the id `new` (0 if
\* none) is taken from those that are free.
Settles(d, s, new) ==
  /\ connections' \in [Clients -> Connection] /\ th' \in [Threads -> Thread]
  /\ toDriver' \in Seq(Datagrams)
  /\ \A u \in Threads : th'[u].at # "query"
  /\ \A i \in DOMAIN toDriver' : IsQuery(toDriver'[i]) => \E j \in DOMAIN d : toDriver'[i] = d[j]
  /\ spoilt \cup s \subseteq spoilt'
  /\ \A id, free, gone :
       id # new /\ Once(connections, d, free, gone, id) => Once(connections', toDriver', free, gone, id)
  /\ \A free, gone :
       new # 0 /\ new \in free /\ Once(connections, d, free, gone, new) =>
         Once(connections', toDriver', free \ {new}, gone, new)

\* A call that returns leaves everything where it is.
LEMMA ReturnsSettles ==
  ASSUME LibraryTypeOK, NEW t \in Threads, \A u \in Threads : th[u].at = "query" => u = t,
         NEW d \in Seq(Datagrams), NEW s, Returns(t, d, s), NEW new, new = 0
  PROVE  Settles(d, s, new)
<1>1. /\ th' = [th EXCEPT ![t] = Idle] /\ toDriver' = d /\ spoilt' = spoilt \cup s
      /\ connections' = connections
  BY DEF Returns
<1>2. th' \in [Threads -> Thread] /\ th'[t] = Idle /\ \A u \in Threads \ {t} : th'[u] = th[u]
  BY <1>1, IdleIsThread, ThreadStep
<1>3. \A u \in Threads : th'[u].at # "query"
  <2>1. Idle.at = "idle"
    BY DEF Idle
  <2> QED
    BY <1>2, <2>1
<1>4. connections \in [Clients -> Connection]
  BY DEF LibraryTypeOK
<1> QED
  BY <1>1, <1>2, <1>3, <1>4 DEF Settles

\* So does one whose answer has connections cleared.
LEMMA ClearSettles ==
  ASSUME LibraryTypeOK, driver.up,
         NEW t \in Threads, \A u \in Threads : th[u].at = "query" => u = t,
         NEW C, C \subseteq Clients, NEW anew, anew \subseteq C, NEW done, t \in done,
         NEW d \in Seq(Datagrams), NEW defects, Clear(C, anew, done, d, defects),
         NEW s, s \subseteq defects, NEW new, new = 0
  PROVE  Settles(d, s, new)
<1>1. connections' \in [Clients -> Connection] /\ th' \in [Threads -> Thread] /\ toDriver' \in Seq(Datagrams)
  BY ClearFacts
<1>2. \A u \in Threads : th'[u].at # "query"
  <2>1. \A u \in Threads : th'[u].at = "query" <=> u \notin done /\ th[u].at = "query"
    BY ClearFacts
  <2> QED
    BY <2>1
<1>4. \A i \in DOMAIN toDriver' : IsQuery(toDriver'[i]) => \E j \in DOMAIN d : toDriver'[i] = d[j]
  <2>1. toDriver' = d \o Freed(C)
    BY DEF Clear
  <2>2. Freed(C) \in Seq(Datagrams) /\ \A i \in DOMAIN Freed(C) : ~IsQuery(Freed(C)[i])
    BY FreedFacts
  <2> QED
    BY <2>1, <2>2, QueriesOfConcat
<1>5. spoilt' = spoilt \cup defects
  BY DEF Clear
<1>3. ASSUME NEW id, NEW free, NEW gone, Once(connections, d, free, gone, id)
      PROVE  Once(connections', toDriver', free, gone, id)
  BY <1>3, ClearOnce
<1> QED
  BY <1>1, <1>2, <1>3, <1>4, <1>5 DEF Settles

\* One whose message is accepted has a transaction for it: that of a notified
\* send holds the id it was given.
LEMMA AcceptedSettles ==
  ASSUME LibraryTypeOK, NEW t \in Threads, \A u \in Threads : th[u].at = "query" => u = t,
         th[t].op \in Sending, NEW v \in Nat, th[t].op = "notify" => v # 0,
         NEW d \in Seq(Datagrams), NEW s, Accepted(t, v, d, s),
         NEW new, new = (IF th[t].op = "notify" THEN v ELSE 0)
  PROVE  Settles(d, s, new)
<1> DEFINE c == th[t].c  k == connections[c]  x == Transaction(th[t].op, v, th[t].m)
           j == [k EXCEPT !.transactions = Append(k.transactions, x)]
           y == IF th[t].op = "notify" THEN Idle ELSE [th[t] EXCEPT !.at = "waiting", !.id = v]
<1>1. /\ connections' = [connections EXCEPT ![c] = j]
      /\ th' = [th EXCEPT ![t] = y]
      /\ toDriver' = d /\ spoilt \cup s \subseteq spoilt'
  <2>1. connections' = [connections EXCEPT ![c].transactions = Append(@, x)]
    BY DEF Accepted
  <2>2. connections' = [connections EXCEPT ![c] = j]
    BY <2>1
  <2>3. th' = [th EXCEPT ![t] = y]
    BY DEF Accepted
  <2>4. toDriver' = d /\ spoilt \cup s \subseteq spoilt'
    BY DEF Accepted
  <2> QED
    BY <2>2, <2>3, <2>4
<1>2. c \in Clients /\ th[t].m \in Nat /\ th[t] \in Thread
  BY ThreadTypes
<1>3. k \in Connection /\ k.transactions \in Seq(Transactions)
  BY <1>2, ClientTypes
<1>4. x \in Transactions /\ x.notify = (th[t].op = "notify") /\ x.id = v
  BY <1>2 DEF Transaction, Transactions
<1>5. y \in Thread /\ y.at # "query"
  <2>1. Idle \in Thread /\ Idle.at = "idle"
    BY IdleIsThread DEF Idle
  <2> QED
    BY <1>2, <2>1 DEF Thread
<1>6. Append(k.transactions, x) \in Seq(Transactions)
  <2> HIDE DEF k, x
  <2> QED
    BY <1>3, <1>4, AppendProperties
<1>7. j \in Connection /\ j.transactions = Append(k.transactions, x)
  <2> HIDE DEF x
  <2> QED
    BY <1>3, <1>6 DEF Connection
<1>8. th' \in [Threads -> Thread] /\ th'[t] = y /\ \A u \in Threads \ {t} : th'[u] = th[u]
  <2> HIDE DEF y
  <2> QED
    BY <1>1, <1>5, ThreadStep
<1>9. /\ connections' \in [Clients -> Connection] /\ connections'[c] = j
      /\ \A b \in Clients \ {c} : connections'[b] = connections[b]
  <2> HIDE DEF c, j
  <2> QED
    BY <1>1, <1>2, <1>7, ConnectionStep
<1>10. \A u \in Threads : th'[u].at # "query"
  <2> HIDE DEF y
  <2> QED
    BY <1>5, <1>8
<1>11. ASSUME NEW id PROVE /\ id # new => Notes(j, id) = Notes(k, id)
                           /\ id = new /\ new # 0 => Notes(j, id) = Notes(k, id) \cup {Len(k.transactions) + 1}
  <2>1. x.notify <=> th[t].op = "notify"
    BY <1>4
  <2>2. new # 0 => x.notify /\ x.id = new
    BY <1>4, <2>1
  <2>3. id # new => ~(x.notify /\ x.id = id)
    BY <1>4, <2>1
  <2> HIDE DEF k, x, j
  <2> QED
    BY <1>3, <1>4, <1>7, <2>2, <2>3, NotesAppended
<1>12. ASSUME NEW id, NEW free, NEW gone, id # new, Once(connections, d, free, gone, id)
       PROVE  Once(connections', toDriver', free, gone, id)
  <2>1. \A b \in Clients : Notes(connections'[b], id) = Notes(connections[b], id)
    <3>1. Notes(j, id) = Notes(k, id)
      BY <1>11, <1>12
    <3> HIDE DEF j
    <3> QED
      BY <1>2, <1>9, <3>1
  <2>2. toDriver' = d
    BY <1>1
  <2> HIDE DEF j, x, y
  <2> QED
    BY <1>12, <2>1, <2>2, OnceKept
<1>13. ASSUME NEW free, NEW gone, new # 0, new \in free, Once(connections, d, free, gone, new)
       PROVE  Once(connections', toDriver', free \ {new}, gone, new)
  <2>1. ~HeldIn(connections, new) /\ Frees(d, new) = {} /\ new \notin gone
    BY <1>13 DEF Once
  <2>2. Notes(k, new) = {} /\ Notes(j, new) = Notes(k, new) \cup {Len(k.transactions) + 1}
    BY <1>2, <1>11, <1>13, <2>1 DEF HeldIn
  <2>3. Notes(j, new) # {} /\ AtMostOne(Notes(j, new))
    <3> HIDE DEF j, k
    <3> QED
      BY <2>2 DEF AtMostOne
  <2>4. \A b \in Clients \ {c} : Notes(connections'[b], new) = {}
    BY <1>9, <2>1 DEF HeldIn
  <2>5. Notes(connections'[c], new) = Notes(j, new)
    BY <1>9
  <2> HIDE DEF j, c, k, x, y
  <2>6. /\ \A b \in Clients : AtMostOne(Notes(connections'[b], new))
        /\ \A a, b \in Clients : Notes(connections'[a], new) # {} /\ Notes(connections'[b], new) # {} => a = b
        /\ HeldIn(connections', new)
    BY <1>2, <2>3, <2>4, <2>5 DEF HeldIn, AtMostOne
  <2>7. toDriver' = d /\ AtMostOne(Frees(d, new))
    BY <1>1, <1>13 DEF Once
  <2> QED
    BY <2>1, <2>6, <2>7 DEF Once
<1> HIDE DEF c, k, x, j, y
<1> QED
  BY <1>1, <1>8, <1>9, <1>10, <1>12, <1>13 DEF Settles

LEMMA AnswerSettles ==
  ASSUME LibraryTypeOK, driver.up, NEW t \in Threads, \A u \in Threads : th[u].at = "query" => u = t,
         th[t].op \in Calls, NEW v \in Int, NEW isOk, NEW d \in Seq(Datagrams), NEW s,
         TakesAnswer(t, v, isOk, d, s)
  PROVE  \/ Settles(d, s, 0) /\ (th[t].op = "notify" => v <= 0)
         \/ Settles(d, s, v) /\ th[t].op = "notify" /\ v > 0
<1>1. th[t].op \in {"connect", "disconnect", "notify", "block", "claim", "status"}
  BY DEF Calls, Sending, Blocking
<1>2. th[t].c \in Clients
  BY ThreadTypes
<1>3. PICK none : none = 0
  OBVIOUS
<1>4. ASSUME Returns(t, d, s) PROVE Settles(d, s, 0)
  <2>1. Settles(d, s, none)
    BY <1>3, <1>4, ReturnsSettles
  <2> QED
    BY <1>3, <2>1
<1>5. ASSUME Connected(t, v, d, s), v \in Clients PROVE Settles(d, s, 0)
  <2>1. PICK C, done, defects : C = {v} /\ done = {t} /\ s \subseteq defects /\ Clear(C, C, done, d, defects)
    BY <1>5 DEF Connected
  <2>2. C \subseteq Clients /\ t \in done
    BY <1>5, <2>1
  <2>3. Settles(d, s, none)
    BY <1>3, <2>1, <2>2, ClearSettles
  <2> QED
    BY <1>3, <2>3
<1>6. ASSUME Clear({th[t].c}, {}, {t}, d, s) PROVE Settles(d, s, 0)
  <2>1. PICK C, anew, done : C = {th[t].c} /\ anew = {} /\ done = {t} /\ Clear(C, anew, done, d, s)
    BY <1>6
  <2>2. C \subseteq Clients /\ anew \subseteq C /\ t \in done /\ s \subseteq s
    BY <1>2, <2>1
  <2>3. Settles(d, s, none)
    BY <1>3, <2>1, <2>2, ClearSettles
  <2> QED
    BY <1>3, <2>3
<1>7. ASSUME Accepted(t, v, d, s), v \in Nat, th[t].op \in Sending, th[t].op = "notify" => v # 0
      PROVE  Settles(d, s, IF th[t].op = "notify" THEN v ELSE 0)
  <2>1. PICK new : new = IF th[t].op = "notify" THEN v ELSE 0
    OBVIOUS
  <2>2. Settles(d, s, new)
    BY <1>7, <2>1, AcceptedSettles
  <2> QED
    BY <2>1, <2>2
<1>8. CASE th[t].op = "connect"
  <2>1. (v \in Clients /\ Connected(t, v, d, s)) \/ Returns(t, d, s)
    BY <1>8 DEF TakesAnswer, Blocking
  <2> QED
    BY <1>4, <1>5, <1>8, <2>1
<1>9. CASE th[t].op = "disconnect"
  <2>1. IF isOk THEN Clear({th[t].c}, {}, {t}, d, s) ELSE Returns(t, d, s)
    BY <1>9 DEF TakesAnswer, Blocking
  <2> QED
    BY <1>4, <1>6, <1>9, <2>1
<1>10. CASE th[t].op = "notify"
  <2>1. IF v > 0 THEN Accepted(t, v, d, s) ELSE Returns(t, d, s)
    BY <1>10 DEF TakesAnswer, Blocking
  <2>2. th[t].op \in Sending
    BY <1>10 DEF Sending
  <2>3. CASE v > 0
    <3>1. v \in Nat /\ v # 0
      BY <2>3
    <3>2. Settles(d, s, IF th[t].op = "notify" THEN v ELSE 0)
      BY <1>7, <2>1, <2>2, <2>3, <3>1
    <3> QED
      BY <1>10, <2>3, <3>2
  <2>4. CASE ~(v > 0)
    BY <1>4, <2>1, <2>4
  <2> QED
    BY <2>3, <2>4
<1>11. CASE th[t].op \in Blocking
  <2>1. IF v >= 0 THEN Accepted(t, v, d, s) ELSE Returns(t, d, s)
    BY <1>11 DEF TakesAnswer, Blocking
  <2>2. th[t].op \in Sending /\ th[t].op # "notify"
    BY <1>11 DEF Sending, Blocking
  <2>3. CASE v >= 0
    <3>1. v \in Nat
      BY <2>3
    <3>2. Settles(d, s, IF th[t].op = "notify" THEN v ELSE 0)
      BY <1>7, <2>1, <2>2, <2>3, <3>1
    <3> QED
      BY <2>2, <3>2
  <2>4. CASE ~(v >= 0)
    BY <1>4, <2>1, <2>2, <2>4
  <2> QED
    BY <2>3, <2>4
<1>12. CASE th[t].op = "status"
  BY <1>4, <1>12 DEF TakesAnswer, Blocking
<1> QED
  BY <1>1, <1>8, <1>9, <1>10, <1>11, <1>12 DEF Blocking

LEMMA HeadQuery ==
  ASSUME toDriver \in Seq(Datagrams), toDriver # <<>>, NEW x, x = Head(toDriver), IsQuery(x)
  PROVE  x \in Queries
<1>1. x \in Datagrams
  BY FreesOfTail
<1> QED
  BY <1>1 DEF Datagrams, Freeing, IsQuery

LEMMA NextIsAnId ==
  ASSUME NEW i \in MsgIds
  PROVE  NextIdx(i) \in MsgIds
<1>1. MsgIds = 1 .. Cardinality(MsgIds) /\ Cardinality(MsgIds) \in Nat /\ MsgIds # {}
  BY LibraryAssumption, FS_CardinalityType
<1> DEFINE n == Cardinality(MsgIds)
<1>2. n \in Nat \ {0} /\ i \in Nat
  BY <1>1
<1> HIDE DEF n
<1>3. i % n \in 0 .. n - 1
  BY <1>2
<1>4. (i % n) + 1 \in 1 .. n
  BY <1>2, <1>3
<1> QED
  BY <1>1, <1>4 DEF NextIdx, n

\* What the driver becomes and answers.
LEMMA ServedFacts ==
  ASSUME LibraryTypeOK, NEW x \in Queries
  PROVE  /\ Served(x)[1] \in Driver /\ IsFiniteSet(Served(x)[1].pending) /\ Served(x)[1].up = driver.up
         /\ Served(x)[2] \in Int
         /\ x.q # "notify" => Served(x)[1].avail = driver.avail
         /\ x.q = "notify" =>
              /\ Served(x)[2] = 0 => Served(x)[1].avail = driver.avail
              /\ Served(x)[2] # 0 => Served(x)[2] \in driver.avail
                                       /\ Served(x)[1].avail = driver.avail \ {Served(x)[2]}
<1>1. /\ driver \in Driver /\ driver.taken \in SUBSET Clients /\ driver.pending \in SUBSET Promises
      /\ driver.avail \in SUBSET Nat /\ driver.idx \in MsgIds /\ driver.block \in Nat
      /\ IsFiniteSet(driver.pending)
  BY DEF LibraryTypeOK, Driver
<1>2. x.q \in {"connect", "disconnect", "status", "notify", "block", "claim"} /\ x.c \in Clients /\ x.m \in Nat
  BY DEF Queries, Calls, Sending, Blocking
<1>3. CASE x.q = "connect"
  <2> DEFINE free == Clients \ driver.taken
             new == IF free = {} THEN -1 ELSE CHOOSE c \in free : \A o \in free : c <= o
             y == [driver EXCEPT !.taken = @ \cup (free \cap {new})]
  <2>1. Served(x) = <<y, new, FALSE>>
    BY <1>3 DEF Served, AddNewClientID, Blocking
  <2>2. Clients \subseteq Nat
    BY LibraryAssumption, FS_CardinalityType
  <2>3. new \in Int
    <3>1. CASE free = {}
      BY <3>1
    <3>2. CASE free # {}
      <4>1. \E c \in free : \A o \in free : c <= o
        <5> HIDE DEF free
        <5>1. free \subseteq Nat
          BY <2>2 DEF free
        <5> QED
          BY <3>2, <5>1, Smallest
      <4>2. (CHOOSE c \in free : \A o \in free : c <= o) \in free
        <5> HIDE DEF free
        <5> QED
          BY <4>1
      <4>3. new = CHOOSE c \in free : \A o \in free : c <= o
        BY <3>2
      <4> HIDE DEF new
      <4>4. new \in free
        BY <4>2, <4>3
      <4> QED
        BY <2>2, <4>4
    <3> QED
      BY <3>1, <3>2
  <2> HIDE DEF new
  <2>4. y \in Driver /\ y.pending = driver.pending /\ y.up = driver.up /\ y.avail = driver.avail
    BY <1>1 DEF Driver
  <2> HIDE DEF y, free
  <2>5. Served(x)[1] = y /\ Served(x)[2] = new
    BY <2>1
  <2> QED
    BY <1>1, <1>3, <2>3, <2>4, <2>5
<1>4. CASE x.q = "disconnect"
  <2> DEFINE y == [driver EXCEPT !.taken = @ \ {x.c}, !.pending = @ \ OfClient(x.c)]
  <2>1. Served(x) = <<y, 0, TRUE>>
    BY <1>4 DEF Served, RemoveClientID, Blocking
  <2>2. y \in Driver /\ y.pending = driver.pending \ OfClient(x.c) /\ y.up = driver.up /\ y.avail = driver.avail
    BY <1>1 DEF Driver
  <2> HIDE DEF y
  <2>3. IsFiniteSet(y.pending)
    BY <1>1, <2>2, FS_Difference
  <2>4. Served(x)[1] = y /\ Served(x)[2] = 0
    BY <2>1
  <2> QED
    BY <1>4, <2>2, <2>3, <2>4
<1>5. CASE x.q = "status"
  <2> DEFINE n == IF x.c \in driver.taken THEN Cardinality(driver.taken) ELSE 0
  <2>1. Served(x) = <<driver, n, FALSE>>
    BY <1>5 DEF Served, Blocking
  <2>2. n \in Int
    BY <1>1, LibraryAssumption, FS_Subset, FS_CardinalityType
  <2> HIDE DEF n
  <2>3. Served(x)[1] = driver /\ Served(x)[2] = n
    BY <2>1
  <2> QED
    BY <1>1, <1>5, <2>2, <2>3
<1>6. ASSUME NEW d \in Driver, d.pending = driver.pending, NEW id \in Nat, NEW r, r = AddSendMsg(x, d, id)
      PROVE  /\ r[1] \in Driver /\ IsFiniteSet(r[1].pending) /\ r[1].up = d.up /\ r[1].avail = d.avail
             /\ r[2] = id
  <2> DEFINE p == [c |-> x.c, notify |-> x.q = "notify", id |-> id, m |-> x.m]
             pending == IF id # 0 /\ x.c \in driver.taken THEN driver.pending \cup {p} ELSE driver.pending
             y == [d EXCEPT !.pending = pending]
  <2>1. r = <<y, id, FALSE>>
    BY <1>6 DEF AddSendMsg
  <2>2. p \in Promises
    BY <1>2, <1>6 DEF Promises
  <2> HIDE DEF p
  <2>3. pending \in SUBSET Promises /\ IsFiniteSet(pending)
    BY <1>1, <2>2, FS_AddElement
  <2> HIDE DEF pending
  <2>4. y \in Driver /\ y.pending = pending /\ y.up = d.up /\ y.avail = d.avail
    BY <1>6, <2>3 DEF Driver
  <2> HIDE DEF y
  <2>5. r[1] = y /\ r[2] = id
    BY <2>1
  <2> QED
    BY <2>3, <2>4, <2>5
<1>7. CASE x.q = "notify"
  <2> DEFINE id == GetMsgId  d == Taking(driver, id)
  <2>1. id = 0 \/ (id \in driver.avail /\ id = NextIdx(driver.idx))
    BY DEF GetMsgId
  <2>2. NextIdx(driver.idx) \in MsgIds
    BY <1>1, NextIsAnId
  <2>3. id \in Nat
    BY <1>1, <2>1
  <2> HIDE DEF id
  <2>4. /\ d \in Driver /\ d.pending = driver.pending /\ d.up = driver.up
        /\ id = 0 => d.avail = driver.avail
        /\ id # 0 => d.avail = driver.avail \ {id}
    <3>1. CASE id = 0
      BY <1>1, <3>1 DEF Taking
    <3>2. CASE id # 0
      <4>1. id \in MsgIds /\ d = [driver EXCEPT !.idx = id, !.avail = driver.avail \ {id}]
        BY <2>1, <2>2, <3>2 DEF Taking
      <4> QED
        BY <1>1, <3>2, <4>1 DEF Driver
    <3> QED
      BY <3>1, <3>2
  <2> HIDE DEF d
  <2>5. Served(x) = AddSendMsg(x, d, id)
    BY <1>7 DEF Served, Blocking, d, id
  <2>6. /\ Served(x)[1] \in Driver /\ IsFiniteSet(Served(x)[1].pending) /\ Served(x)[1].up = d.up
        /\ Served(x)[1].avail = d.avail /\ Served(x)[2] = id
    BY <1>6, <2>3, <2>4, <2>5
  <2> QED
    BY <1>7, <2>1, <2>3, <2>4, <2>6
<1>8. CASE x.q \in Blocking
  <2> DEFINE id == driver.block + 1  d == [driver EXCEPT !.block = @ + 1]
  <2>1. Served(x) = AddSendMsg(x, d, id)
    BY <1>8 DEF Served, Blocking
  <2>2. id \in Nat /\ d \in Driver /\ d.pending = driver.pending /\ d.up = driver.up /\ d.avail = driver.avail
    BY <1>1 DEF Driver
  <2>3. x.q # "notify"
    BY <1>8 DEF Blocking
  <2> HIDE DEF id, d
  <2>4. /\ Served(x)[1] \in Driver /\ IsFiniteSet(Served(x)[1].pending) /\ Served(x)[1].up = d.up
        /\ Served(x)[1].avail = d.avail /\ Served(x)[2] = id
    BY <1>6, <2>1, <2>2
  <2> QED
    BY <2>2, <2>3, <2>4
<1> QED
  BY <1>2, <1>3, <1>4, <1>5, <1>7, <1>8 DEF Blocking

\* What the driver becomes, and loses, when it refuses x.
Refusal(x) ==
  /\ x \in Queries /\ driver.up /\ toDriver # <<>> /\ IsQuery(x)
  /\ driver' \in Driver /\ driver'.up /\ driver'.pending = driver.pending
  /\ driver'.block \in Nat /\ driver.block <= driver'.block
  /\ \/ driver'.avail = driver.avail /\ lost' = lost
     \/ \E id \in driver.avail : driver'.avail = driver.avail \ {id} /\ lost' = lost \cup {id}
  /\ UNCHANGED <<readEventId, linked, toListener, bus, allowance>>
  /\ \/ toDriver' = Tail(toDriver) /\ UNCHANGED <<connections, th, told, spoilt>>
     \/ \E t \in At("query") :
          Returns(t, Forget(Tail(toDriver)), IF x.own THEN {} ELSE {<<th[t].m, "stale">>})

LEMMA RefusesFacts ==
  ASSUME LibraryTypeOK, DriverRefuses, NEW x, x = Head(toDriver)
  PROVE  Refusal(x)
<1>1. /\ driver \in Driver /\ driver.taken \in SUBSET Clients /\ driver.idx \in MsgIds
      /\ driver.avail \in SUBSET Nat /\ driver.block \in Nat /\ toDriver \in Seq(Datagrams)
  BY DEF LibraryTypeOK, Driver
<1>2. driver.up /\ toDriver # <<>> /\ IsQuery(x)
  BY DEF DriverRefuses
<1>3. x \in Queries
  BY <1>1, <1>2, HeadQuery
<1>4. /\ UNCHANGED <<readEventId, linked, toListener, bus, allowance>>
      /\ \/ toDriver' = Tail(toDriver) /\ UNCHANGED <<connections, th, told, spoilt>>
         \/ \E t \in At("query") :
              Returns(t, Forget(Tail(toDriver)), IF x.own THEN {} ELSE {<<th[t].m, "stale">>})
  BY DEF DriverRefuses
<1>5. /\ driver' \in Driver /\ driver'.up /\ driver'.pending = driver.pending
      /\ driver'.block \in Nat /\ driver.block <= driver'.block
      /\ \/ driver'.avail = driver.avail /\ lost' = lost
         \/ \E id \in driver.avail : driver'.avail = driver.avail \ {id} /\ lost' = lost \cup {id}
  <2>1. CASE driver' = driver /\ lost' = lost
    BY <1>1, <1>2, <2>1
  <2>2. CASE driver' = AddNewClientID[1] /\ lost' = lost
    <3>1. PICK new : driver' = [driver EXCEPT !.taken = @ \cup ((Clients \ driver.taken) \cap {new})]
      BY <2>2 DEF AddNewClientID
    <3> QED
      BY <1>1, <1>2, <2>2, <3>1 DEF Driver
  <2>3. CASE driver' = [driver EXCEPT !.block = @ + 1] /\ lost' = lost
    BY <1>1, <1>2, <2>3 DEF Driver
  <2>4. CASE GetMsgId # 0 /\ driver' = Taking(driver, GetMsgId) /\ lost' = lost \cup {GetMsgId}
    <3>1. PICK id : id = GetMsgId
      OBVIOUS
    <3>2. id \in driver.avail /\ id = NextIdx(driver.idx)
      BY <2>4, <3>1 DEF GetMsgId
    <3>3. driver' = [driver EXCEPT !.idx = id, !.avail = driver.avail \ {id}]
      BY <2>4, <3>1 DEF Taking
    <3>4. id \in MsgIds
      BY <1>1, <3>2, NextIsAnId
    <3>5. /\ driver' \in Driver /\ driver'.up /\ driver'.pending = driver.pending
          /\ driver'.block = driver.block /\ driver'.avail = driver.avail \ {id}
      BY <1>1, <1>2, <3>3, <3>4 DEF Driver
    <3>6. \E i \in driver.avail : driver'.avail = driver.avail \ {i} /\ lost' = lost \cup {i}
      BY <2>4, <3>1, <3>2, <3>5
    <3> QED
      BY <1>1, <3>5, <3>6
  <2> QED
    BY <2>1, <2>2, <2>3, <2>4 DEF DriverRefuses
<1> QED
  BY <1>2, <1>3, <1>4, <1>5 DEF Refusal

LEMMA IdsArePositive == \A id \in MsgIds : id \in Nat /\ id > 0 /\ id # 0
<1>1. MsgIds = 1 .. Cardinality(MsgIds) /\ Cardinality(MsgIds) \in Nat
  BY LibraryAssumption, FS_CardinalityType
<1> QED
  BY <1>1

LEMMA DriverServesKeeps ==
  ASSUME IdsInv, DriverServes
  PROVE  IdsInv'
<1> USE DEF IdsInv
<1> DEFINE x == Head(toDriver)  new == Served(x)  v == new[2]  d == Forget(Tail(toDriver))
           failed == IF x.q = "disconnect" THEN OfClient(x.c) ELSE {}
           news == [i \in 1 .. Cardinality(failed) |-> Outcome(SetToSeq(failed)[i], FALSE)]
           answered == x.q \in {"connect", "disconnect", "status"} \/ x.c \in driver.taken
                         \/ (x.q = "notify" /\ v = 0)
           s(t) == IF x.own THEN {} ELSE {<<th[t].m, "stale">>}
<1>1. /\ driver.up /\ toDriver # <<>> /\ IsQuery(x)
      /\ driver' = new[1] /\ toListener' = toListener \o news
      /\ UNCHANGED <<readEventId, linked, bus, allowance>>
  BY DEF DriverServes
<1>2. \/ /\ answered /\ ~CsFree /\ lost' = lost
         /\ \E t \in At("query") : TakesAnswer(t, v, new[3], d, s(t))
      \/ /\ ~(answered /\ ~CsFree)
         /\ lost' = IF x.q = "notify" THEN lost \cup ({v} \ {0}) ELSE lost
         /\ toDriver' = Tail(toDriver)
         /\ UNCHANGED <<connections, th, told, spoilt>>
  BY DEF DriverServes
<1>3. toDriver \in Seq(Datagrams) /\ driver \in Driver /\ toListener \in Seq(News)
      /\ readEventId \in Nat /\ linked \in BOOLEAN /\ allowance \in [Limited -> Nat]
  BY DEF LibraryTypeOK
<1>4. x \in Queries
  BY <1>1, <1>3, HeadQuery
<1>5. /\ new[1] \in Driver /\ IsFiniteSet(new[1].pending) /\ new[1].up = driver.up
      /\ v \in Int
      /\ x.q # "notify" => new[1].avail = driver.avail
      /\ x.q = "notify" =>
           /\ v = 0 => new[1].avail = driver.avail
           /\ v # 0 => v \in driver.avail /\ new[1].avail = driver.avail \ {v}
  BY <1>4, ServedFacts
<1>6. toListener' \in Seq(News)
  <2>1. failed \subseteq driver.pending /\ IsFiniteSet(failed)
    <3>1. failed \subseteq driver.pending
      BY DEF OfClient
    <3> HIDE DEF failed
    <3> QED
      BY <3>1, FS_Subset DEF LibraryTypeOK
  <2> HIDE DEF failed
  <2>2. SetToSeq(failed) \in Seq(failed) /\ DOMAIN SetToSeq(failed) = 1 .. Cardinality(failed)
    BY <2>1, SetToSeqFacts
  <2>3. Cardinality(failed) \in Nat
    BY <2>1, FS_CardinalityType
  <2>4. failed \subseteq Promises
    BY <1>3, <2>1 DEF Driver
  <2>5. \A p \in Promises : Outcome(p, FALSE) \in News
    BY DEF Promises, Outcome, News, Outcomes
  <2>6. \A i \in 1 .. Cardinality(failed) : SetToSeq(failed)[i] \in failed
    BY <2>2, ElementOfSeq, LenProperties
  <2>7. news \in Seq(News)
    <3>1. \A i \in 1 .. Cardinality(failed) : news[i] \in News
      BY <2>4, <2>5, <2>6
    <3>2. news \in [1 .. Cardinality(failed) -> News]
      BY <3>1
    <3> HIDE DEF news
    <3> QED
      BY <2>3, <3>2, IsASeq
  <2> HIDE DEF news
  <2> QED
    BY <1>1, <1>3, <2>7, ConcatProperties
<1> HIDE DEF new, failed, news, IdsInv
<1>7. /\ Tail(toDriver) \in Seq(Datagrams)
      /\ \A i \in DOMAIN Tail(toDriver) : \E j \in DOMAIN toDriver : Tail(toDriver)[i] = toDriver[j]
      /\ \A id : /\ AtMostOne(Frees(toDriver, id)) => AtMostOne(Frees(Tail(toDriver), id))
                 /\ Frees(Tail(toDriver), id) = {} <=> Frees(toDriver, id) = {}
  BY <1>1, <1>3, FreesOfTail, TailIsPart
<1>8. /\ driver' \in Driver /\ IsFiniteSet(driver'.pending) /\ driver'.up /\ driver'.avail = new[1].avail
  BY <1>1, <1>5
<1>9. LibraryTypeOK /\ OwnQueries /\ WithoutDriver /\ linked
  BY <1>1 DEF IdsInv, WithoutDriver
<1>10. ASSUME NEW t \in At("query"), TakesAnswer(t, v, new[3], d, s(t)), lost' = lost
       PROVE  IdsInv'
  <2>1. t \in Threads /\ th[t].at = "query" /\ th[t].op \in Calls
    BY <1>9, <1>10 DEF At, OwnQueries
  <2>2. \A u \in Threads : th[u].at = "query" => u = t
    BY <1>9, <1>10 DEF At, OwnQueries
  <2>3. /\ d \in Seq(Datagrams)
        /\ \A i \in DOMAIN d : IsQuery(d[i]) => ~d[i].own
        /\ \A id : Frees(d, id) = Frees(Tail(toDriver), id)
    BY <1>7, FreesOfForget
  <2> DEFINE z == s(t)
  <2>4. z = IF x.own THEN {} ELSE {<<th[t].m, "stale">>}
    OBVIOUS
  <2>5. TakesAnswer(t, v, new[3], d, z)
    BY <1>10
  <2> HIDE DEF d, s, v, z, x
  <2>6. \/ Settles(d, z, 0) /\ (th[t].op = "notify" => v <= 0)
        \/ Settles(d, z, v) /\ th[t].op = "notify" /\ v > 0
    BY <1>1, <1>5, <1>9, <2>1, <2>2, <2>3, <2>5, AnswerSettles
  <2>7. PICK e : Settles(d, z, e) /\ (th[t].op = "notify" => (e = 0 /\ v <= 0) \/ (e = v /\ v > 0))
                   /\ (th[t].op # "notify" => e = 0)
    BY <2>6
  <2>8. /\ connections' \in [Clients -> Connection] /\ th' \in [Threads -> Thread]
        /\ toDriver' \in Seq(Datagrams)
        /\ \A u \in Threads : th'[u].at # "query"
        /\ \A i \in DOMAIN toDriver' : IsQuery(toDriver'[i]) => \E j \in DOMAIN d : toDriver'[i] = d[j]
        /\ spoilt \cup z \subseteq spoilt'
    BY <2>7 DEF Settles
  <2>9. LibraryTypeOK'
    BY <1>1, <1>3, <1>6, <1>8, <2>8 DEF LibraryTypeOK
  <2>10. OwnQueries'
    <3>1. At("query")' = {}
      BY <2>8 DEF At
    <3>2. \A i \in DOMAIN toDriver' : ~(IsQuery(toDriver'[i]) /\ toDriver'[i].own)
      BY <2>3, <2>8
    <3> QED
      BY <3>1, <3>2 DEF OwnQueries
  <2>11. WithoutDriver'
    BY <1>1, <1>8, <1>9 DEF WithoutDriver
  <2>12. ASSUME ~Confused', NEW id \in MsgIds
         PROVE  Once(connections', toDriver', driver'.avail, lost', id)
    <3>1. x.own
      <4>1. CASE ~x.own
        <5>1. <<th[t].m, "stale">> \in spoilt'
          BY <2>4, <2>8, <4>1
        <5> QED
          BY <2>12, <5>1 DEF Confused
      <4> QED
        BY <4>1
    <3>2. th[t].op = x.q
      <4>1. x = toDriver[1] /\ 1 \in DOMAIN toDriver
        BY <1>1, <1>3, EmptySeq, LenProperties DEF x
      <4>2. \E u \in At("query") : th[u].op = x.q
        BY <1>1, <1>9, <3>1, <4>1 DEF OwnQueries
      <4> QED
        BY <2>2, <4>2 DEF At
    <3>3. Once(connections, toDriver, driver.avail, lost, id)
      BY <1>1, <2>8, <2>12 DEF IdsInv, Confused
    <3>4. Once(connections, d, driver.avail, lost, id)
      <4>1. /\ AtMostOne(Frees(toDriver, id)) => AtMostOne(Frees(d, id))
            /\ Frees(d, id) = {} <=> Frees(toDriver, id) = {}
        BY <1>7, <2>3
      <4> QED
        BY <3>3, <4>1, OnceKept
    <3>5. id # 0 /\ id > 0 /\ id \in Nat
      BY IdsArePositive
    <3>6. CASE id # e
      <4>1. Once(connections', toDriver', driver.avail, lost, id)
        BY <2>7, <3>4, <3>6 DEF Settles
      <4>2. id \in driver'.avail <=> id \in driver.avail
        <5>1. x.q = "notify" /\ v # 0 => v = e \/ v < 0
          BY <1>5, <2>7, <3>2
        <5>2. v < 0 => id # v
          BY <1>5, <3>5
        <5> QED
          BY <1>5, <1>8, <3>6, <5>1, <5>2
      <4> QED
        BY <1>10, <4>1, <4>2, OnceKept
    <3>7. CASE id = e
      <4>1. th[t].op = "notify" /\ e = v /\ v > 0 /\ x.q = "notify"
        BY <2>7, <3>2, <3>5, <3>7
      <4>2. id \in driver.avail /\ driver'.avail = driver.avail \ {id}
        BY <1>5, <1>8, <3>7, <4>1
      <4>3. Once(connections', toDriver', driver.avail \ {id}, lost, id)
        BY <2>7, <3>4, <3>5, <3>7, <4>2 DEF Settles
      <4> QED
        BY <1>10, <4>2, <4>3
    <3> QED
      BY <3>6, <3>7
  <2> QED
    BY <2>9, <2>10, <2>11, <2>12 DEF IdsInv
<1>11. ASSUME ~(answered /\ ~CsFree), toDriver' = Tail(toDriver),
              lost' = IF x.q = "notify" THEN lost \cup ({v} \ {0}) ELSE lost,
              UNCHANGED <<connections, th, told, spoilt>>
       PROVE  IdsInv'
  <2>1. LibraryTypeOK'
    BY <1>1, <1>3, <1>6, <1>7, <1>8, <1>9, <1>11 DEF LibraryTypeOK
  <2>2. OwnQueries'
    <3>1. At("query")' = At("query")
      BY <1>11 DEF At
    <3> QED
      BY <1>7, <1>9, <1>11, <3>1 DEF OwnQueries
  <2>3. WithoutDriver'
    BY <1>1, <1>8, <1>9 DEF WithoutDriver
  <2>4. ASSUME ~Confused', NEW id \in MsgIds
        PROVE  Once(connections', toDriver', driver'.avail, lost', id)
    <3>1. Once(connections, toDriver, driver.avail, lost, id)
      BY <1>1, <1>11, <2>4 DEF IdsInv, Confused
    <3>2. connections' = connections
      BY <1>11
    <3>3. /\ AtMostOne(Frees(toDriver, id)) => AtMostOne(Frees(toDriver', id))
          /\ Frees(toDriver', id) = {} <=> Frees(toDriver, id) = {}
      BY <1>7, <1>11
    <3>4. id # 0
      BY <2>4, IdsArePositive
    <3>5. CASE x.q = "notify" /\ v = id
      <4>1. id \in driver.avail /\ id \notin driver'.avail /\ id \in lost'
        BY <1>5, <1>8, <1>11, <3>4, <3>5
      <4> QED
        BY <3>1, <3>2, <3>3, <4>1 DEF Once
    <3>6. CASE ~(x.q = "notify" /\ v = id)
      <4>1. (id \in driver'.avail <=> id \in driver.avail) /\ (id \in lost' <=> id \in lost)
        BY <1>5, <1>8, <1>11, <3>6
      <4> QED
        BY <3>1, <3>2, <3>3, <4>1, OnceKept
    <3> QED
      BY <3>5, <3>6
  <2> QED
    BY <2>1, <2>2, <2>3, <2>4 DEF IdsInv
<1> QED
  BY <1>2, <1>10, <1>11

LEMMA DriverRefusesKeeps ==
  ASSUME IdsInv, DriverRefuses
  PROVE  IdsInv'
<1>1. PICK x : x = Head(toDriver)
  OBVIOUS
<1>2. LibraryTypeOK /\ OwnQueries /\ WithoutDriver /\ toDriver \in Seq(Datagrams)
  BY DEF IdsInv, LibraryTypeOK
<1>3. Refusal(x)
  BY <1>1, <1>2, RefusesFacts
<1>4. /\ Tail(toDriver) \in Seq(Datagrams)
      /\ \A i \in DOMAIN Tail(toDriver) : \E j \in DOMAIN toDriver : Tail(toDriver)[i] = toDriver[j]
      /\ \A id : /\ AtMostOne(Frees(toDriver, id)) => AtMostOne(Frees(Tail(toDriver), id))
                 /\ Frees(Tail(toDriver), id) = {} <=> Frees(toDriver, id) = {}
  BY <1>1, <1>2, <1>3, FreesOfTail, TailIsPart DEF Refusal
<1>5. WithoutDriver'
  BY <1>2, <1>3 DEF WithoutDriver, Refusal
<1>6. /\ driver' \in Driver /\ IsFiniteSet(driver'.pending) /\ toListener' \in Seq(News)
      /\ readEventId' \in Nat /\ linked' \in BOOLEAN /\ allowance' \in [Limited -> Nat]
  BY <1>2, <1>3 DEF Refusal, LibraryTypeOK
<1>7. ASSUME ~Confused, NEW id \in MsgIds, NEW d, AtMostOne(Frees(toDriver, id)) => AtMostOne(Frees(d, id)),
             Frees(d, id) = {} <=> Frees(toDriver, id) = {}
      PROVE  Once(connections, d, driver'.avail, lost', id)
  <2>1. Once(connections, toDriver, driver.avail, lost, id)
    BY <1>3, <1>7 DEF IdsInv, Refusal
  <2>2. \/ (id \in driver'.avail <=> id \in driver.avail) /\ (id \in lost' <=> id \in lost)
        \/ id \in driver.avail /\ id \notin driver'.avail /\ id \in lost'
    BY <1>3 DEF Refusal
  <2> QED
    BY <1>7, <2>1, <2>2 DEF Once
<1>8. CASE toDriver' = Tail(toDriver) /\ UNCHANGED <<connections, th, told, spoilt>>
  <2>1. LibraryTypeOK'
    BY <1>2, <1>4, <1>6, <1>8 DEF LibraryTypeOK
  <2>2. OwnQueries'
    <3>1. At("query")' = At("query")
      BY <1>8 DEF At
    <3> QED
      BY <1>2, <1>4, <1>8, <3>1 DEF OwnQueries
  <2>3. ASSUME ~Confused', NEW id \in MsgIds
        PROVE  Once(connections', toDriver', driver'.avail, lost', id)
    BY <1>4, <1>7, <1>8, <2>3 DEF Confused
  <2> QED
    BY <1>5, <2>1, <2>2, <2>3 DEF IdsInv
<1>9. ASSUME NEW t \in At("query"), NEW d, d = Forget(Tail(toDriver)), NEW s, Returns(t, d, s)
      PROVE  IdsInv'
  <2>1. t \in Threads /\ \A u \in Threads : th[u].at = "query" => u = t
    BY <1>2, <1>9 DEF At, OwnQueries
  <2>2. /\ d \in Seq(Datagrams)
        /\ \A i \in DOMAIN d : IsQuery(d[i]) => ~d[i].own
        /\ \A id : Frees(d, id) = Frees(Tail(toDriver), id)
    BY <1>4, <1>9, FreesOfForget
  <2>3. PICK none : none = 0 /\ Settles(d, s, none)
    BY <1>2, <1>9, <2>1, <2>2, ReturnsSettles
  <2>4. /\ connections' \in [Clients -> Connection] /\ th' \in [Threads -> Thread]
        /\ toDriver' \in Seq(Datagrams)
        /\ \A u \in Threads : th'[u].at # "query"
        /\ \A i \in DOMAIN toDriver' : IsQuery(toDriver'[i]) => \E j \in DOMAIN d : toDriver'[i] = d[j]
        /\ spoilt \subseteq spoilt'
    BY <2>3 DEF Settles
  <2>5. LibraryTypeOK'
    BY <1>6, <2>4 DEF LibraryTypeOK
  <2>6. OwnQueries'
    <3>1. At("query")' = {}
      BY <2>4 DEF At
    <3>2. \A i \in DOMAIN toDriver' : ~(IsQuery(toDriver'[i]) /\ toDriver'[i].own)
      BY <2>2, <2>4
    <3> QED
      BY <3>1, <3>2 DEF OwnQueries
  <2>7. ASSUME ~Confused', NEW id \in MsgIds
        PROVE  Once(connections', toDriver', driver'.avail, lost', id)
    <3>1. ~Confused /\ id # none
      BY <2>3, <2>4, <2>7, IdsArePositive DEF Confused
    <3>2. Once(connections, d, driver'.avail, lost', id)
      BY <1>4, <1>7, <2>2, <3>1
    <3> QED
      BY <2>3, <3>1, <3>2 DEF Settles
  <2> QED
    BY <1>5, <2>5, <2>6, <2>7 DEF IdsInv
<1> QED
  BY <1>3, <1>8, <1>9 DEF Refusal

LEMMA IdsAtFirst == LibraryInit => IdsInv
<1> SUFFICES ASSUME LibraryInit PROVE IdsInv
  OBVIOUS
<1>1. /\ connections = [c \in Clients |-> NoConnection] /\ th = [t \in Threads |-> Idle]
      /\ driver = [Started EXCEPT !.up = FALSE] /\ toDriver = <<>> /\ toListener = <<>>
      /\ lost = {} /\ allowance \in Bounds /\ linked = FALSE /\ readEventId = 0
  BY DEF LibraryInit, InitializeDLL
<1>2. <<>> \in Seq(Datagrams) /\ <<>> \in Seq(News) /\ <<>> \in Seq(Handles) /\ <<>> \in Seq(Transactions)
  BY EmptySeq
<1>3. NoConnection \in Connection
  BY <1>2 DEF NoConnection, Connection
<1>4. /\ driver \in Driver /\ ~driver.up /\ IsFiniteSet(driver.pending)
  BY <1>1, StartedFacts DEF Driver
<1>5. allowance \in [Limited -> Nat]
  BY <1>1, LibraryAssumption DEF Limited
<1>6. LibraryTypeOK
  BY <1>1, <1>2, <1>3, <1>4, <1>5, IdleIsThread DEF LibraryTypeOK
<1>7. OwnQueries
  <2>1. At("query") = {}
    BY <1>1 DEF At, Idle
  <2>2. DOMAIN toDriver = {}
    BY <1>1
  <2> QED
    BY <2>1, <2>2 DEF OwnQueries
<1>8. WithoutDriver
  <2>1. \A c \in Clients : Notifications(c) = {}
    BY <1>1 DEF Notifications, NoConnection
  <2> QED
    BY <1>1, <1>4, <2>1 DEF WithoutDriver
<1> QED
  BY <1>4, <1>6, <1>7, <1>8 DEF IdsInv

LEMMA IdsStay == IdsInv /\ [LibraryNext]_libraryVars => IdsInv'
<1> SUFFICES ASSUME IdsInv, [LibraryNext]_libraryVars PROVE IdsInv'
  OBVIOUS
<1>1. CASE UNCHANGED libraryVars
  <2>1. /\ connections' = connections /\ th' = th /\ readEventId' = readEventId /\ linked' = linked
        /\ driver' = driver /\ toDriver' = toDriver /\ toListener' = toListener /\ lost' = lost
        /\ allowance' = allowance /\ spoilt' = spoilt
    BY <1>1 DEF libraryVars
  <2>2. LibraryTypeOK'
    BY <2>1 DEF IdsInv, LibraryTypeOK
  <2> QED
    BY <2>1, <2>2, NoQuery
<1>2. PICK c0 : c0 \in Clients
  BY LibraryAssumption
<1>3. CASE LibraryNext
  <2>1. CASE \E t \in Threads : ClientConnect(t) \/ Goes(t) \/ WaitTimesOut(t)
    <3>1. PICK t \in Threads : ClientConnect(t) \/ Goes(t) \/ WaitTimesOut(t)
      BY <2>1
    <3>2. \/ ClientConnect(t) \/ StatusResumes(t)
          \/ SendAgain(t) \/ QueryFails(t) \/ ReadReturns(t) \/ SendReturns(t)
          \/ GetReadEvent(t) \/ WaitForMessage(t) \/ WaitTimesOut(t)
      BY <3>1 DEF Goes
    <3>3. CASE ClientConnect(t) \/ StatusResumes(t)
      BY <1>2, <3>3, StartsQuery
    <3>4. CASE SendAgain(t)
      BY <3>4, SendAgainKeeps
    <3>5. CASE QueryFails(t)
      BY <3>5, QueryFailsKeeps
    <3>6. CASE ReadReturns(t)
      BY <3>6, ReadReturnsKeeps
    <3>7. CASE SendReturns(t)
      BY <3>7, SendReturnsKeeps
    <3>8. CASE GetReadEvent(t) \/ WaitForMessage(t) \/ WaitTimesOut(t)
      BY <1>2, <3>8, WaitsKeep
    <3> QED
      BY <3>2, <3>3, <3>4, <3>5, <3>6, <3>7, <3>8
  <2>2. CASE \E t \in Threads, c \in Clients :
               \/ ClientDisconnect(t, c) \/ ReadMessage(t, c)
               \/ GetHardwareStatus(t, c) \/ AddGetHWStatusNotify(t, c)
               \/ \E op \in Blocking \cup {"notify"} : SendMessage(t, c, op)
    <3>1. PICK t \in Threads, c \in Clients :
               \/ ClientDisconnect(t, c) \/ ReadMessage(t, c)
               \/ GetHardwareStatus(t, c) \/ AddGetHWStatusNotify(t, c)
               \/ \E op \in Blocking \cup {"notify"} : SendMessage(t, c, op)
      BY <2>2
    <3>2. CASE ClientDisconnect(t, c) \/ GetHardwareStatus(t, c)
                 \/ \E op \in Blocking \cup {"notify"} : SendMessage(t, c, op)
      BY <3>2, StartsQuery DEF Sending
    <3>3. CASE ReadMessage(t, c) \/ AddGetHWStatusNotify(t, c)
      BY <3>3, WaitsKeep
    <3> QED
      BY <3>1, <3>2, <3>3
  <2>3. CASE DriverServes
    BY <2>3, DriverServesKeeps
  <2>10. CASE DriverRefuses
    BY <2>10, DriverRefusesKeeps
  <2>4. CASE DriverFreesId
    BY <2>4, DriverFreesIdKeeps
  <2>5. CASE DriverEnds
    BY <2>5, DriverEndsKeeps
  <2>6. CASE \E p \in driver.pending, ok \in BOOLEAN : DriverReports(p, ok)
    BY <1>2, <2>6, NewsKeeps
  <2>7. CASE \E c \in driver.taken : DriverForwards(c)
    <3>1. driver.taken \subseteq Clients
      BY DEF IdsInv, LibraryTypeOK, Driver
    <3>2. PICK c \in Clients : DriverForwards(c)
      BY <2>7, <3>1
    <3> QED
      BY <3>2, NewsKeeps
  <2>8. CASE Listener
    <3>1. HearOutcome \/ HearMessage \/ ListenerGivesUp
      BY <2>8 DEF Listener
    <3>2. CASE HearOutcome
      BY <3>2, HearOutcomeKeeps
    <3>3. CASE HearMessage
      BY <1>2, <3>3, NewsKeeps
    <3>4. CASE ListenerGivesUp
      BY <3>4, ListenerGivesUpKeeps
    <3> QED
      BY <3>1, <3>2, <3>3, <3>4
  <2>9. CASE MisreadOutcome
    BY <1>2, <2>9, NewsKeeps
  <2> QED
    BY <1>3, <2>1, <2>2, <2>3, <2>4, <2>5, <2>6, <2>7, <2>8, <2>9, <2>10 DEF LibraryNext
<1> QED
  BY <1>1, <1>3

\* IdsAccounted: as long as no answer was taken for another query's, every id
\* of a running driver is free, held by one notified send, on its way back or
\* lost, and only one of these: GetMsgId never gives an id a second time while
\* its first user has it.  Ids are lost in two ways only: in an answer that
\* nobody took, and in a send that AddSendJ1939Msg refuses once it has its id.
THEOREM IdsAreAccounted == LibrarySpec => []IdsAccounted
<1>1. IdsInv => IdsAccounted
  <2> SUFFICES ASSUME IdsInv, driver.up, ~Confused, NEW id \in MsgIds
               PROVE  Cardinality(Uses(id)) = 1
    BY DEF IdsAccounted
  <2>1. Once(connections, toDriver, driver.avail, lost, id)
    BY DEF IdsInv
  <2> QED
    BY <2>1, OnceIsAccounted
<1> QED
  BY <1>1, IdsAtFirst, IdsStay, PTL DEF LibrarySpec


(***************************************************************************)
(* Readers.                                                                *)
(***************************************************************************)
\* Readers of c that wait on an event or were woken, those whose handles are in
\* c's list, and those that are on their way to c's queue.
OnEvent(c, ev) ==
  {t \in Threads : th[t].at \in {"waiting", "woken"} /\ th[t].op = "read" /\ th[t].c = c /\ th[t].id = ev}
Listing(c) == ToSet(connections[c].recvMsgEvents)
Enlisted(c, ev) == {t \in OnEvent(c, ev) : [by |-> t, ev |-> ev] \in Listing(c)}
Roused(c) == {t \in Threads : th[t].at = "woken" /\ th[t].op = "read" /\ th[t].c = c}

\* Every message in c's queue has a reader on its way to it, and the handles that
\* are listed are no more than the other readers on their events.
Due(c) ==
  \E D \in SUBSET Roused(c) :
    /\ Cardinality(D) = connections[c].recvMsgQueue
    /\ \A ev \in Nat : Cardinality(Enlisted(c, ev)) <= Cardinality(OnEvent(c, ev) \ D)

\* Some reader of c sleeps that has missed nothing.
Counted(c) == \E t \in Threads : th[t].at = "waiting" /\ th[t].op = "read" /\ th[t].c = c /\ ~th[t].missed

ReaderOK(t) ==
  /\ th[t].at = "idle" => th[t].op = "none" /\ th[t].id = 0
  /\ th[t].at = "query" => th[t].op # "read"
  /\ th[t].at \in {"window", "named"} => th[t].op = "read" /\ th[t].id = 0
  /\ th[t].at = "named" => readEventId > 0
  /\ th[t].at \in {"window", "named"} /\ ~th[t].missed =>
       connections[th[t].c].valid /\ connections[th[t].c].recvMsgQueue = 0
  /\ th[t].at = "waiting" /\ th[t].op = "read" /\ ~th[t].missed =>
       connections[th[t].c].valid /\ [by |-> t, ev |-> th[t].id] \in Listing(th[t].c)
  /\ th[t].at = "waiting" /\ th[t].op = "status" => (th[t].id = 1 <=> connections[th[t].c].valid)

Single(s) == \A i, j \in DOMAIN s : s[i] = s[j] => i = j
HandlesOK(c) ==
  /\ Single(connections[c].recvMsgEvents)
  /\ \A h \in Listing(c) : /\ h.ev > 0 /\ h.ev <= readEventId
                           /\ th[h.by].at = "named" => h.ev < readEventId
                           /\ IsOpen(h) => th[h.by].c = c

AwakeInv ==
  /\ \A t \in Threads : ReaderOK(t)
  /\ \A c \in Clients : HandlesOK(c) /\ (Counted(c) => Due(c))

LEMMA EventTypes ==
  ASSUME LibraryTypeOK, NEW c \in Clients
  PROVE  /\ Listing(c) \subseteq Handles
         /\ \A ev : IsFiniteSet(OnEvent(c, ev)) /\ IsFiniteSet(Enlisted(c, ev)) /\ Enlisted(c, ev) \subseteq OnEvent(c, ev)
         /\ IsFiniteSet(Roused(c))
<1>1. Listing(c) \subseteq Handles
  <2>1. connections[c].recvMsgEvents \in Seq(Handles)
    BY ClientTypes
  <2> QED
    BY <2>1, ElementOfSeq, LenProperties DEF Listing, ToSet
<1>2. IsFiniteSet(Threads)
  BY LibraryAssumption
<1>3. ASSUME NEW ev
      PROVE  IsFiniteSet(OnEvent(c, ev)) /\ IsFiniteSet(Enlisted(c, ev)) /\ Enlisted(c, ev) \subseteq OnEvent(c, ev)
  <2>1. OnEvent(c, ev) \in SUBSET Threads
    BY DEF OnEvent
  <2>2. Enlisted(c, ev) \subseteq OnEvent(c, ev)
    BY DEF Enlisted
  <2> QED
    BY <1>2, <2>1, <2>2, FS_Subset
<1>4. Roused(c) \in SUBSET Threads
  BY DEF Roused
<1> QED
  BY <1>1, <1>2, <1>3, <1>4, FS_Subset

LEMMA DueEmpty ==
  ASSUME NEW c \in Clients, connections'[c].recvMsgQueue = 0
  PROVE  Due(c)'
<1> DEFINE D == {}
<1>1. D \in SUBSET (Roused(c)') /\ Cardinality(D) = 0
  BY FS_EmptySet
<1>2. ASSUME NEW ev \in Nat PROVE Cardinality(Enlisted(c, ev)') <= Cardinality(OnEvent(c, ev)' \ D)
  <2> DEFINE A == Enlisted(c, ev)'  E == OnEvent(c, ev)'
  <2>1. A \in SUBSET E /\ E \in SUBSET Threads
    BY DEF Enlisted, OnEvent
  <2>2. OnEvent(c, ev)' \ D = E
    OBVIOUS
  <2> HIDE DEF A, E, D
  <2>3. IsFiniteSet(E)
    BY <2>1, FS_Subset, LibraryAssumption
  <2>4. Cardinality(A) <= Cardinality(E)
    BY <2>1, <2>3, FS_Subset
  <2> QED
    BY <2>2, <2>4 DEF A
<1> HIDE DEF D
<1> QED
  BY <1>1, <1>2 DEF Due

LEMMA DueKept ==
  ASSUME NEW c \in Clients, Due(c), Roused(c) \subseteq Roused(c)',
         connections'[c].recvMsgQueue = connections[c].recvMsgQueue,
         \A ev \in Nat : OnEvent(c, ev)' = OnEvent(c, ev) /\ Enlisted(c, ev)' \subseteq Enlisted(c, ev),
         LibraryTypeOK
  PROVE  Due(c)'
<1>1. PICK D \in SUBSET Roused(c) :
          /\ Cardinality(D) = connections[c].recvMsgQueue
          /\ \A ev \in Nat : Cardinality(Enlisted(c, ev)) <= Cardinality(OnEvent(c, ev) \ D)
  BY DEF Due
<1>2. D \in SUBSET (Roused(c)') /\ Cardinality(D) = connections'[c].recvMsgQueue
  BY <1>1
<1>3. ASSUME NEW ev \in Nat PROVE Cardinality(Enlisted(c, ev)') <= Cardinality(OnEvent(c, ev)' \ D)
  <2> DEFINE A == Enlisted(c, ev)  B == Enlisted(c, ev)'  E == OnEvent(c, ev) \ D
  <2>1. B \in SUBSET A /\ IsFiniteSet(A) /\ IsFiniteSet(OnEvent(c, ev))
    BY EventTypes
  <2>2. Cardinality(A) <= Cardinality(E)
    BY <1>1
  <2>3. IsFiniteSet(E)
    BY <2>1, FS_Difference
  <2>4. OnEvent(c, ev)' \ D = E
    OBVIOUS
  <2> HIDE DEF A, B, E
  <2>5. IsFiniteSet(B) /\ Cardinality(B) <= Cardinality(A)
    BY <2>1, FS_Subset
  <2>6. Cardinality(A) \in Nat /\ Cardinality(B) \in Nat /\ Cardinality(E) \in Nat
    BY <2>1, <2>3, <2>5, FS_CardinalityType
  <2>7. Cardinality(B) <= Cardinality(E)
    BY <2>2, <2>5, <2>6
  <2> QED
    BY <2>4, <2>7 DEF B
<1> QED
  BY <1>2, <1>3 DEF Due

(***************************************************************************)
(* Steps that do to readers no more than wake them.                        *)
(***************************************************************************)
Woke(t) ==
  /\ th'[t].op = th[t].op /\ th'[t].c = th[t].c /\ th'[t].id = th[t].id
  /\ th'[t].at = th[t].at \/ (th[t].at = "waiting" /\ th'[t].at = "woken")
  /\ th[t].missed => th'[t].missed
\* A thread that is not a reader of c, and is no reader then.
Apart(t, c) == (th[t].op # "read" \/ th[t].c # c) /\ th'[t].op # "read"

LEMMA WokeReader ==
  ASSUME LibraryTypeOK, NEW t \in Threads, ReaderOK(t), Woke(t), readEventId' \in Nat, readEventId' >= readEventId,
         NEW c \in Clients, c = th[t].c,
         connections'[c].valid = connections[c].valid,
         connections'[c].recvMsgQueue = connections[c].recvMsgQueue
           \/ (th[t].at \in {"window", "named"} => th'[t].missed),
         \/ [by |-> t, ev |-> th[t].id] \in Listing(c) => [by |-> t, ev |-> th[t].id] \in Listing(c)'
         \/ th'[t].at = "waiting" /\ th[t].op = "read" => th'[t].missed
  PROVE  ReaderOK(t)'
<1>0. /\ th'[t].at \in {"window", "named"} => th[t].at = th'[t].at
      /\ th'[t].at = "waiting" => th[t].at = "waiting"
      /\ th'[t].at \in {"idle", "query"} => th[t].at = th'[t].at
      /\ ~th'[t].missed => ~th[t].missed
      /\ th'[t].op = th[t].op /\ th'[t].c = c /\ th'[t].id = th[t].id
  BY DEF Woke
<1>1. /\ th'[t].at = "idle" => th'[t].op = "none" /\ th'[t].id = 0
      /\ th'[t].at = "query" => th'[t].op # "read"
      /\ th'[t].at \in {"window", "named"} => th'[t].op = "read" /\ th'[t].id = 0
  BY <1>0 DEF ReaderOK
<1>2. th'[t].at = "named" => readEventId' > 0
  BY <1>0 DEF ReaderOK, LibraryTypeOK
<1>3. th'[t].at \in {"window", "named"} /\ ~th'[t].missed =>
        connections'[c].valid /\ connections'[c].recvMsgQueue = 0
  BY <1>0 DEF ReaderOK
<1>4. th'[t].at = "waiting" /\ th'[t].op = "read" /\ ~th'[t].missed =>
        connections'[c].valid /\ [by |-> t, ev |-> th'[t].id] \in Listing(c)'
  BY <1>0 DEF ReaderOK
<1>5. th'[t].at = "waiting" /\ th'[t].op = "status" => (th'[t].id = 1 <=> connections'[c].valid)
  BY <1>0 DEF ReaderOK
<1>6. \A b : Listing(b)' = ToSet(connections'[b].recvMsgEvents)
  BY DEF Listing
<1> QED
  BY <1>0, <1>1, <1>2, <1>3, <1>4, <1>5, <1>6 DEF ReaderOK, Listing

LEMMA HandlesKept ==
  ASSUME LibraryTypeOK, NEW c \in Clients, HandlesOK(c), readEventId' \in Nat, readEventId' >= readEventId,
         Single(connections'[c].recvMsgEvents), Listing(c)' \subseteq Listing(c),
         \A t \in Threads : ReaderOK(t)' /\ (Woke(t) \/ Apart(t, c) \/ th'[t].at \in {"window", "idle"})
  PROVE  HandlesOK(c)'
<1>1. Listing(c) \subseteq Handles
  BY EventTypes
<1>2. ASSUME NEW h \in Listing(c)
      PROVE  /\ h.ev > 0 /\ h.ev <= readEventId'
             /\ th'[h.by].at = "named" => h.ev < readEventId'
             /\ IsOpen(h)' => th'[h.by].c = c
  <2>1. h.by \in Threads /\ h.ev \in Nat
    BY <1>1 DEF Handles
  <2>2. /\ h.ev > 0 /\ h.ev <= readEventId /\ readEventId \in Nat
        /\ th[h.by].at = "named" => h.ev < readEventId
        /\ IsOpen(h) => th[h.by].c = c
    BY DEF HandlesOK, LibraryTypeOK
  <2>3. ReaderOK(h.by)' /\ (Woke(h.by) \/ Apart(h.by, c) \/ th'[h.by].at \in {"window", "idle"})
    BY <2>1
  <2>4. th'[h.by].at = "named" => th[h.by].at = "named"
    BY <2>3 DEF ReaderOK, Woke, Apart
  <2>5. IsOpen(h)' => IsOpen(h) /\ th'[h.by].c = th[h.by].c
    <3>1. th'[h.by].at \in {"window", "idle"} => th'[h.by].id = 0
      BY <2>3 DEF ReaderOK
    <3> QED
      BY <2>1, <2>2, <2>3, <3>1 DEF IsOpen, Woke, Apart
  <2> QED
    BY <2>1, <2>2, <2>4, <2>5
<1> QED
  BY <1>2 DEF HandlesOK, Listing

LEMMA SleepersKept ==
  ASSUME LibraryTypeOK, NEW c \in Clients, Counted(c) => Due(c),
         connections'[c].recvMsgQueue = connections[c].recvMsgQueue, Listing(c)' \subseteq Listing(c),
         \A t \in Threads : \/ Woke(t) \/ Apart(t, c) \/ (th[t].c # c /\ th'[t].c # c)
                            \/ th[t].at \notin {"waiting", "woken"} /\ th'[t].at \notin {"waiting", "woken"}
  PROVE  Counted(c)' => Due(c)'
<1> SUFFICES ASSUME Counted(c)' PROVE Due(c)'
  OBVIOUS
<1>1. Counted(c)
  BY DEF Counted, Woke, Apart
<1>2. Roused(c) \subseteq Roused(c)'
  BY DEF Roused, Woke, Apart
<1>3. ASSUME NEW ev \in Nat PROVE OnEvent(c, ev)' = OnEvent(c, ev) /\ Enlisted(c, ev)' \subseteq Enlisted(c, ev)
  <2>1. OnEvent(c, ev)' = OnEvent(c, ev)
    BY DEF OnEvent, Woke, Apart
  <2> QED
    BY <2>1 DEF Enlisted
<1> QED
  BY <1>1, <1>2, <1>3, DueKept

\* A step that touches neither readers nor what they look at.
LEMMA AwakeQuiet ==
  ASSUME LibraryTypeOK, AwakeInv, readEventId' = readEventId,
         \A c \in Clients : /\ connections'[c].valid = connections[c].valid
                            /\ connections'[c].recvMsgQueue = connections[c].recvMsgQueue
                            /\ connections'[c].recvMsgEvents = connections[c].recvMsgEvents,
         \A t \in Threads : Woke(t) \/ (th[t].op # "read" /\ th'[t].op # "read" /\ ReaderOK(t)')
  PROVE  AwakeInv'
<1>0. readEventId \in Nat /\ readEventId' >= readEventId
  BY DEF LibraryTypeOK
<1>1. \A c \in Clients : Listing(c)' = Listing(c)
  BY DEF Listing
<1>2. ASSUME NEW t \in Threads PROVE ReaderOK(t)'
  <2>1. CASE Woke(t)
    <3>1. ReaderOK(t)
      BY DEF AwakeInv
    <3>2. PICK c \in Clients : c = th[t].c
      BY ThreadTypes
    <3>3. /\ connections'[c].valid = connections[c].valid
          /\ connections'[c].recvMsgQueue = connections[c].recvMsgQueue
          /\ Listing(c)' = Listing(c)
      BY <1>1
    <3> QED
      BY <1>0, <2>1, <3>1, <3>2, <3>3, WokeReader
  <2> QED
    BY <2>1
<1>3. ASSUME NEW c \in Clients PROVE HandlesOK(c)' /\ (Counted(c)' => Due(c)')
  <2>1. HandlesOK(c) /\ (Counted(c) => Due(c))
    BY DEF AwakeInv
  <2>2. \A t \in Threads : ReaderOK(t)' /\ (Woke(t) \/ Apart(t, c))
    BY <1>2 DEF Apart
  <2>3. Single(connections'[c].recvMsgEvents)
    BY <2>1 DEF HandlesOK
  <2>4. HandlesOK(c)'
    BY <1>0, <1>1, <2>1, <2>2, <2>3, HandlesKept
  <2>5. Counted(c)' => Due(c)'
    BY <1>1, <2>1, <2>2, SleepersKept
  <2> QED
    BY <2>4, <2>5
<1> QED
  BY <1>2, <1>3 DEF AwakeInv

\* Threads that are idle, ask, or wait for the outcome of a send are no readers.
LEMMA NoReader ==
  ASSUME NEW t \in Threads,
         \/ th'[t] = Idle
         \/ th'[t].at = "query" /\ th'[t].op # "read"
         \/ th'[t].at \in {"waiting", "woken"} /\ th'[t].op \in Blocking
         \/ th'[t].at = "waiting" /\ th'[t].op = "status" /\ (th'[t].id = 1 <=> connections'[th'[t].c].valid)
  PROVE  ReaderOK(t)' /\ th'[t].op # "read"
  BY DEF ReaderOK, Idle, Blocking

\* What setting events does to each thread.
LEMMA AfterEffect ==
  ASSUME LibraryTypeOK, NEW W, W \subseteq At("waiting"), NEW done, NEW missed,
         th' = After(W, done, missed), NEW t \in Threads
  PROVE  /\ t \in done => th'[t] = Idle
         /\ t \notin done => Woke(t)
         /\ t \in W \ done => th'[t].at = "woken"
         /\ t \notin W \cup done => th'[t].at = th[t].at /\ (th'[t].missed <=> th[t].missed \/ t \in missed)
<1>1. th[t] \in Thread /\ th[t].missed \in BOOLEAN
  BY ThreadTypes
<1>2. CASE t \in done
  BY <1>2 DEF After
<1>3. CASE t \in W \ done
  <2>1. th'[t] = [th[t] EXCEPT !.at = "woken"]
    BY <1>3 DEF After
  <2>2. th[t].at = "waiting"
    BY <1>3 DEF At
  <2>3. /\ th'[t].at = "woken" /\ th'[t].op = th[t].op /\ th'[t].c = th[t].c /\ th'[t].id = th[t].id
        /\ th'[t].missed = th[t].missed
    BY <1>1, <2>1 DEF Thread
  <2> QED
    BY <1>3, <2>2, <2>3 DEF Woke
<1>4. CASE t \notin done /\ t \notin W
  <2>1. th'[t] = [th[t] EXCEPT !.missed = @ \/ t \in missed]
    BY <1>4 DEF After
  <2>2. /\ th'[t].at = th[t].at /\ th'[t].op = th[t].op /\ th'[t].c = th[t].c /\ th'[t].id = th[t].id
        /\ th'[t].missed = (th[t].missed \/ t \in missed)
    BY <1>1, <2>1 DEF Thread
  <2>3. th'[t].missed <=> th[t].missed \/ t \in missed
    BY <1>1, <2>2
  <2> QED
    BY <1>4, <2>2, <2>3 DEF Woke
<1> QED
  BY <1>2, <1>3, <1>4

\* One thread, that is no reader, goes on.
LEMMA AwakeOne ==
  ASSUME LibraryTypeOK, AwakeInv, readEventId' = readEventId, NEW t \in Threads, th[t].op # "read",
         \A c \in Clients : /\ connections'[c].valid = connections[c].valid
                            /\ connections'[c].recvMsgQueue = connections[c].recvMsgQueue
                            /\ connections'[c].recvMsgEvents = connections[c].recvMsgEvents,
         \A u \in Threads \ {t} : th'[u] = th[u],
         \/ th'[t] = Idle
         \/ th'[t].at = "query" /\ th'[t].op # "read"
         \/ th'[t].at \in {"waiting", "woken"} /\ th'[t].op \in Blocking
         \/ th'[t].at = "waiting" /\ th'[t].op = "status" /\ (th'[t].id = 1 <=> connections'[th'[t].c].valid)
  PROVE  AwakeInv'
<1>1. ReaderOK(t)' /\ th'[t].op # "read"
  BY NoReader
<1>2. \A u \in Threads \ {t} : Woke(u)
  BY DEF Woke
<1> QED
  BY <1>1, <1>2, AwakeQuiet

LEMMA AsksAwake ==
  ASSUME LibraryTypeOK, AwakeInv, NEW t \in Threads, th[t].op # "read", NEW op, op # "read", NEW c, NEW m,
         QueryDriverApp(t, op, c, m)
  PROVE  AwakeInv'
<1>1. /\ th' = [th EXCEPT ![t] = [@ EXCEPT !.at = "query", !.op = op, !.c = c, !.m = m, !.tries = 1]]
      /\ connections' = connections /\ readEventId' = readEventId
  BY DEF QueryDriverApp
<1>2. th[t] \in Thread /\ th \in [Threads -> Thread]
  BY ThreadTypes DEF LibraryTypeOK
<1>3. th'[t].at = "query" /\ th'[t].op = op
  BY <1>1, <1>2 DEF Thread
<1>4. \A u \in Threads \ {t} : th'[u] = th[u]
  BY <1>1, <1>2
<1> QED
  BY <1>1, <1>3, <1>4, AwakeOne

LEMMA QueriesAwake ==
  ASSUME LibraryTypeOK, AwakeInv, NEW t \in Threads, NEW c \in Clients,
         ClientConnect(t) \/ ClientDisconnect(t, c) \/ GetHardwareStatus(t, c) \/ StatusResumes(t)
           \/ \E op \in Sending : SendMessage(t, c, op)
  PROVE  AwakeInv'
<1>1. ReaderOK(t) /\ "read" \notin Sending
  BY DEF AwakeInv, Sending, Blocking
<1>2. CASE ClientConnect(t)
  <2>1. th[t].at = "idle" /\ QueryDriverApp(t, "connect", 0, NoMessage)
    BY <1>2 DEF ClientConnect, StartQuery
  <2> QED
    BY <1>1, <2>1, AsksAwake DEF ReaderOK
<1>3. CASE ClientDisconnect(t, c)
  <2>1. th[t].at = "idle" /\ QueryDriverApp(t, "disconnect", c, NoMessage)
    BY <1>3 DEF ClientDisconnect, StartQuery
  <2> QED
    BY <1>1, <2>1, AsksAwake DEF ReaderOK
<1>4. CASE GetHardwareStatus(t, c)
  <2>1. th[t].at = "idle" /\ QueryDriverApp(t, "status", c, NoMessage)
    BY <1>4 DEF GetHardwareStatus, StartQuery
  <2> QED
    BY <1>1, <2>1, AsksAwake DEF ReaderOK
<1>5. CASE StatusResumes(t)
  <2>1. th[t].op = "status" /\ QueryDriverApp(t, "status", th[t].c, NoMessage)
    BY <1>5 DEF StatusResumes
  <2> QED
    BY <2>1, AsksAwake
<1>6. ASSUME NEW op \in Sending, SendMessage(t, c, op) PROVE AwakeInv'
  <2>1. th[t].at = "idle" /\ QueryDriverApp(t, op, c, allowance["send"])
    BY <1>6 DEF SendMessage, StartQuery
  <2>2. op # "read" /\ th[t].op # "read"
    BY <1>1, <2>1 DEF ReaderOK
  <2> QED
    BY <2>1, <2>2, AsksAwake
<1> QED
  BY <1>2, <1>3, <1>4, <1>5, <1>6

LEMMA WaitersAwake ==
  ASSUME LibraryTypeOK, AwakeInv, NEW t \in Threads, NEW c \in Clients,
         SendAgain(t) \/ QueryFails(t) \/ AddGetHWStatusNotify(t, c) \/ WaitTimesOut(t) \/ SendReturns(t)
  PROVE  AwakeInv'
<1>1. ReaderOK(t) /\ th[t] \in Thread /\ th \in [Threads -> Thread]
  BY ThreadTypes DEF AwakeInv, LibraryTypeOK
<1>2. CASE SendAgain(t)
  <2>1. /\ th[t].at = "query" /\ th' = [th EXCEPT ![t].tries = @ + 1]
        /\ connections' = connections /\ readEventId' = readEventId
    BY <1>2 DEF SendAgain
  <2>2. th'[t].at = "query" /\ th'[t].op = th[t].op /\ th[t].op # "read"
    BY <1>1, <2>1 DEF Thread, ReaderOK
  <2>3. \A u \in Threads \ {t} : th'[u] = th[u]
    BY <1>1, <2>1
  <2> QED
    BY <2>1, <2>2, <2>3, AwakeOne
<1>3. CASE QueryFails(t)
  <2>1. /\ th[t].at = "query" /\ th' = [th EXCEPT ![t] = Idle]
        /\ connections' = connections /\ readEventId' = readEventId
    BY <1>3 DEF QueryFails
  <2>2. th'[t] = Idle /\ th[t].op # "read"
    BY <1>1, <2>1 DEF ReaderOK
  <2>3. \A u \in Threads \ {t} : th'[u] = th[u]
    BY <1>1, <2>1
  <2> QED
    BY <2>1, <2>2, <2>3, AwakeOne
<1>4. CASE AddGetHWStatusNotify(t, c)
  <2> DEFINE n == IF connections[c].valid THEN 1 ELSE 0
  <2>1. /\ th[t].at = "idle"
        /\ th' = [th EXCEPT ![t] = [@ EXCEPT !.at = "waiting", !.op = "status", !.c = c, !.id = n]]
        /\ connections' = connections /\ readEventId' = readEventId
    BY <1>4 DEF AddGetHWStatusNotify
  <2>2. n = 1 <=> connections'[c].valid
    BY <2>1
  <2> HIDE DEF n
  <2>3. th'[t].at = "waiting" /\ th'[t].op = "status" /\ th'[t].c = c /\ th'[t].id = n
    BY <1>1, <2>1 DEF Thread
  <2>4. (\A u \in Threads \ {t} : th'[u] = th[u]) /\ th[t].op # "read"
    BY <1>1, <2>1 DEF ReaderOK
  <2>5. \A b \in Clients : /\ connections'[b].valid = connections[b].valid
                           /\ connections'[b].recvMsgQueue = connections[b].recvMsgQueue
                           /\ connections'[b].recvMsgEvents = connections[b].recvMsgEvents
    BY <2>1
  <2>6. th'[t].id = 1 <=> connections'[th'[t].c].valid
    BY <2>2, <2>3
  <2> QED
    BY <2>1, <2>3, <2>4, <2>5, <2>6, AwakeOne
<1>5. CASE WaitTimesOut(t)
  <2>1. /\ th[t].at = "waiting" /\ th' = [th EXCEPT ![t] = [@ EXCEPT !.at = "woken"]]
        /\ connections' = connections /\ readEventId' = readEventId
    BY <1>5 DEF WaitTimesOut, Reader
  <2>2. Woke(t)
    BY <1>1, <2>1 DEF Thread, Woke
  <2>3. \A u \in Threads \ {t} : Woke(u)
    BY <1>1, <2>1 DEF Woke
  <2>4. \A b \in Clients : /\ connections'[b].valid = connections[b].valid
                           /\ connections'[b].recvMsgQueue = connections[b].recvMsgQueue
                           /\ connections'[b].recvMsgEvents = connections[b].recvMsgEvents
    BY <2>1
  <2> QED
    BY <2>1, <2>2, <2>3, <2>4, AwakeQuiet
<1>6. CASE SendReturns(t)
  <2>1. PICK b \in Clients : b = th[t].c
    BY ThreadTypes
  <2> DEFINE j == RemoveTransaction(connections[b], FALSE, th[t].id)
  <2>2. /\ th[t].op \in Blocking /\ th' = [th EXCEPT ![t] = Idle]
        /\ connections' = [connections EXCEPT ![b] = j] /\ readEventId' = readEventId
    BY <1>6, <2>1 DEF SendReturns
  <2>3. connections[b] \in Connection /\ connections \in [Clients -> Connection]
    BY ClientTypes DEF LibraryTypeOK
  <2>4. /\ j.valid = connections[b].valid /\ j.recvMsgQueue = connections[b].recvMsgQueue
        /\ j.recvMsgEvents = connections[b].recvMsgEvents
    BY <2>3 DEF RemoveTransaction, Connection
  <2> HIDE DEF j
  <2>5. \A e \in Clients : /\ connections'[e].valid = connections[e].valid
                           /\ connections'[e].recvMsgQueue = connections[e].recvMsgQueue
                           /\ connections'[e].recvMsgEvents = connections[e].recvMsgEvents
    BY <2>2, <2>3, <2>4
  <2>6. th'[t] = Idle /\ th[t].op # "read" /\ \A u \in Threads \ {t} : th'[u] = th[u]
    BY <1>1, <2>2 DEF Blocking
  <2> QED
    BY <2>2, <2>5, <2>6, AwakeOne
<1> QED
  BY <1>2, <1>3, <1>4, <1>5, <1>6

\* The driver's own steps, and outcomes of sends.
LEMMA OutcomesAwake ==
  ASSUME LibraryTypeOK, AwakeInv,
         \/ DriverFreesId \/ DriverEnds \/ MisreadOutcome \/ HearOutcome
         \/ \E p \in driver.pending, ok \in BOOLEAN : DriverReports(p, ok)
         \/ \E c \in driver.taken : DriverForwards(c)
         \/ UNCHANGED libraryVars
  PROVE  AwakeInv'
<1>1. CASE UNCHANGED <<connections, th, readEventId>>
  <2>1. connections' = connections /\ th' = th /\ readEventId' = readEventId
    BY <1>1
  <2>2. \A t \in Threads : Woke(t)
    BY <2>1 DEF Woke
  <2> QED
    BY <2>1, <2>2, AwakeQuiet
<1>2. CASE HearOutcome /\ ~UNCHANGED <<connections, th, readEventId>>
  <2> DEFINE x == Head(toListener)  k == connections[x.c]  i == First(k, x.notify, x.id)
             j == UpdateTransaction(k, i, x.ok)  W == IF x.notify THEN {} ELSE Senders(x.c, x.id)
  <2>1. toListener # <<>> /\ x.c \in Clients
    BY <1>2, ListenerQueue DEF HearOutcome, Listening
  <2>2. /\ connections' = [connections EXCEPT ![x.c] = j] /\ th' = After(W, {}, {})
        /\ readEventId' = readEventId
    BY <1>2 DEF HearOutcome
  <2>3. k \in Connection /\ connections \in [Clients -> Connection]
    BY <2>1, ClientTypes DEF LibraryTypeOK
  <2>4. /\ j.valid = k.valid /\ j.recvMsgQueue = k.recvMsgQueue /\ j.recvMsgEvents = k.recvMsgEvents
    BY <2>3 DEF UpdateTransaction, Connection
  <2>5. W \subseteq At("waiting")
    BY Woken
  <2> HIDE DEF j, W
  <2>6. \A e \in Clients : /\ connections'[e].valid = connections[e].valid
                           /\ connections'[e].recvMsgQueue = connections[e].recvMsgQueue
                           /\ connections'[e].recvMsgEvents = connections[e].recvMsgEvents
    BY <2>1, <2>2, <2>3, <2>4
  <2>7. PICK none : none = {} /\ th' = After(W, none, none)
    BY <2>2
  <2>8. \A t \in Threads : Woke(t)
    BY <2>5, <2>7, AfterEffect
  <2> QED
    BY <2>2, <2>6, <2>8, AwakeQuiet
<1> QED
  BY <1>1, <1>2 DEF DriverFreesId, DriverEnds, MisreadOutcome, DriverReports, DriverForwards, libraryVars

\* Clear: its clients have nothing queued, and who slept on them was told or is
\* known to have missed it.
LEMMA ClearAwake ==
  ASSUME LibraryTypeOK, AwakeInv, NEW C, C \subseteq Clients, NEW anew, anew \subseteq C, NEW done,
         \A t \in Threads : t \in done => th[t].at = "query",
         NEW d, NEW defects, Clear(C, anew, done, d, defects), readEventId' = readEventId
  PROVE  AwakeInv'
<1> DEFINE W0 == (UNION {ClearWakes(c) : c \in C}) \cup ConnectionStatusChanged(C, anew)
           missed == UNION {Asleep(c) \cup Early(c) : c \in C}
<1>1. \E V \in SetEvents(UNION {ToSet(connections[c].recvMsgEvents) : c \in C}) : th' = After(V \cup W0, done, missed)
  BY DEF Clear
<1>2. ASSUME NEW c \in C
      PROVE  /\ connections'[c].valid <=> c \in anew
             /\ connections'[c].recvMsgQueue = 0 /\ connections'[c].recvMsgEvents = <<>>
  <2>1. connections'[c] = CASE c \in anew -> [NoConnection EXCEPT !.valid = TRUE]
                            [] c \in C \ anew -> [NoConnection EXCEPT !.transactions = Failed(connections[c].transactions)]
                            [] OTHER -> connections[c]
    BY DEF Clear
  <2>2. CASE c \in anew
    <3>1. connections'[c] = [NoConnection EXCEPT !.valid = TRUE]
      BY <2>1, <2>2
    <3> QED
      BY <2>2, <3>1 DEF NoConnection
  <2>3. CASE c \notin anew
    <3>1. connections'[c] = [NoConnection EXCEPT !.transactions = Failed(connections[c].transactions)]
      BY <2>1, <2>3
    <3> QED
      BY <2>3, <3>1 DEF NoConnection
  <2> QED
    BY <2>2, <2>3
<1>3. \A c \in Clients \ C : connections'[c] = connections[c]
  BY DEF Clear
<1>4. /\ W0 \subseteq At("waiting")
      /\ \A c \in anew \cup {b \in C : connections[b].valid} : Watchers(c) \subseteq W0
      /\ \A c \in C : Asleep(c) \cup Early(c) \subseteq missed
  BY Woken DEF ConnectionStatusChanged
<1> HIDE DEF W0, missed
<1>5. PICK W : W \subseteq At("waiting") /\ W0 \subseteq W /\ th' = After(W, done, missed)
  BY <1>1, <1>4, Woken
<1>6. ASSUME NEW t \in Threads
      PROVE  /\ t \in done => th'[t] = Idle
             /\ t \notin done => Woke(t)
             /\ t \in W \ done => th'[t].at = "woken"
             /\ t \notin W \cup done => th'[t].at = th[t].at /\ (th'[t].missed <=> th[t].missed \/ t \in missed)
  BY <1>5, AfterEffect
<1>7. readEventId \in Nat /\ readEventId' >= readEventId /\ readEventId' \in Nat
  BY DEF LibraryTypeOK
<1>8. ASSUME NEW t \in Threads PROVE ReaderOK(t)'
  <2>1. CASE t \in done
    BY <1>6, <2>1, NoReader
  <2>2. PICK c \in Clients : c = th[t].c
    BY ThreadTypes
  <2>3. ReaderOK(t)
    BY DEF AwakeInv
  <2>4. CASE t \notin done /\ c \notin C
    <3>1. connections'[c] = connections[c]
      BY <1>3, <2>4
    <3>2. Listing(c)' = Listing(c)
      BY <3>1 DEF Listing
    <3> QED
      BY <1>6, <1>7, <2>2, <2>3, <2>4, <3>1, <3>2, WokeReader
  <2>5. CASE t \notin done /\ c \in C
    <3>1. /\ th'[t].op = th[t].op /\ th'[t].c = c /\ th'[t].id = th[t].id
          /\ th'[t].at = th[t].at \/ (th[t].at = "waiting" /\ th'[t].at = "woken")
      BY <1>6, <2>2, <2>5 DEF Woke
    <3>2. /\ th'[t].at \in {"window", "named"} => th[t].at = th'[t].at /\ t \in Early(c)
          /\ th'[t].at = "waiting" => th[t].at = "waiting" /\ t \notin W
      BY <1>6, <2>2, <2>5, <3>1 DEF Early, At
    <3>3. th'[t].at \in {"window", "named"} => th'[t].missed
      <4>1. th'[t].at \in {"window", "named"} => t \notin W /\ t \in missed
        BY <1>4, <1>5, <2>5, <3>2 DEF At
      <4> QED
        BY <1>6, <2>5, <4>1
    <3>4. th'[t].at = "waiting" /\ th'[t].op = "read" => th'[t].missed
      <4>1. th'[t].at = "waiting" /\ th'[t].op = "read" => t \in Asleep(c)
        BY <2>2, <3>1, <3>2 DEF Asleep, Readers, At
      <4> QED
        BY <1>4, <1>6, <2>5, <3>2, <4>1
    <3>5. th'[t].at = "waiting" /\ th'[t].op = "status" => (th'[t].id = 1 <=> connections'[c].valid)
      <4>1. th'[t].at = "waiting" /\ th'[t].op = "status" => t \in Watchers(c)
        BY <2>2, <3>1, <3>2 DEF Watchers, At
      <4>2. th'[t].at = "waiting" /\ th'[t].op = "status" => c \notin anew /\ ~connections[c].valid
        BY <1>4, <1>5, <2>5, <3>2, <4>1
      <4> QED
        BY <1>2, <2>2, <2>3, <2>5, <3>1, <3>2, <4>2 DEF ReaderOK
    <3>6. /\ th'[t].at = "idle" => th'[t].op = "none" /\ th'[t].id = 0
          /\ th'[t].at = "query" => th'[t].op # "read"
          /\ th'[t].at \in {"window", "named"} => th'[t].op = "read" /\ th'[t].id = 0
          /\ th'[t].at = "named" => readEventId' > 0
      BY <2>3, <3>1 DEF ReaderOK
    <3> QED
      BY <3>1, <3>3, <3>4, <3>5, <3>6 DEF ReaderOK
  <2> QED
    BY <2>1, <2>4, <2>5
<1>9. ASSUME NEW c \in Clients PROVE HandlesOK(c)' /\ (Counted(c)' => Due(c)')
  <2>1. HandlesOK(c) /\ (Counted(c) => Due(c))
    BY DEF AwakeInv
  <2>2. CASE c \in C
    <3>1. connections'[c].recvMsgEvents = <<>> /\ connections'[c].recvMsgQueue = 0
      BY <1>2, <2>2
    <3>2. Listing(c)' = {} /\ DOMAIN connections'[c].recvMsgEvents = {}
      BY <3>1 DEF Listing, ToSet
    <3>3. HandlesOK(c)'
      BY <3>2 DEF HandlesOK, Single
    <3> QED
      BY <3>1, <3>3, DueEmpty
  <2>3. CASE c \notin C
    <3>1. connections'[c] = connections[c]
      BY <1>3, <2>3
    <3>2. Listing(c)' = Listing(c) /\ Single(connections'[c].recvMsgEvents)
      BY <2>1, <3>1 DEF Listing, HandlesOK
    <3>3. ASSUME NEW t \in Threads PROVE ReaderOK(t)' /\ (Woke(t) \/ Apart(t, c))
      <4>1. t \in done => th[t].op # "read" /\ th'[t].op # "read"
        <5>1. ReaderOK(t)
          BY DEF AwakeInv
        <5>2. t \in done => th[t].op # "read"
          BY <5>1 DEF ReaderOK
        <5>3. t \in done => th'[t].op # "read"
          BY <1>6 DEF Idle
        <5> QED
          BY <5>2, <5>3
      <4> QED
        BY <1>6, <1>8, <4>1 DEF Apart
    <3>4. HandlesOK(c)'
      BY <1>7, <2>1, <3>2, <3>3, HandlesKept
    <3>5. Counted(c)' => Due(c)'
      BY <2>1, <3>1, <3>2, <3>3, SleepersKept
    <3> QED
      BY <3>4, <3>5
  <2> QED
    BY <2>2, <2>3
<1> QED
  BY <1>8, <1>9 DEF AwakeInv

\* The answer to a call: it returns, waits for the outcome of its message, or
\* connections are set up or cleared.
LEMMA AnswerAwake ==
  ASSUME LibraryTypeOK, AwakeInv, readEventId' = readEventId, NEW t \in Threads, th[t].at = "query",
         th[t].op \in Calls, NEW v, NEW isOk, NEW d, NEW s, TakesAnswer(t, v, isOk, d, s)
  PROVE  AwakeInv'
<1>1. th[t].op \in {"connect", "disconnect", "notify", "block", "claim", "status"} /\ th[t].op # "read"
  BY DEF Calls, Sending, Blocking
<1>2. th[t].c \in Clients /\ th[t] \in Thread /\ th \in [Threads -> Thread]
  BY ThreadTypes DEF LibraryTypeOK
<1>3. ASSUME Returns(t, d, s) PROVE AwakeInv'
  <2>1. th' = [th EXCEPT ![t] = Idle] /\ connections' = connections
    BY <1>3 DEF Returns
  <2>2. th'[t] = Idle /\ \A u \in Threads \ {t} : th'[u] = th[u]
    BY <1>2, <2>1
  <2> QED
    BY <1>1, <2>1, <2>2, AwakeOne
<1>4. ASSUME Connected(t, v, d, s), v \in Clients PROVE AwakeInv'
  <2>1. PICK C, done, defects : C = {v} /\ done = {t} /\ Clear(C, C, done, d, defects)
    BY <1>4 DEF Connected
  <2>2. C \subseteq Clients /\ \A u \in Threads : u \in done => th[u].at = "query"
    BY <1>4, <2>1
  <2> QED
    BY <2>1, <2>2, ClearAwake
<1>5. ASSUME Clear({th[t].c}, {}, {t}, d, s) PROVE AwakeInv'
  <2>1. PICK C, anew, done : C = {th[t].c} /\ anew = {} /\ done = {t} /\ Clear(C, anew, done, d, s)
    BY <1>5
  <2>2. C \subseteq Clients /\ anew \subseteq C /\ \A u \in Threads : u \in done => th[u].at = "query"
    BY <1>2, <2>1
  <2> QED
    BY <2>1, <2>2, ClearAwake
<1>6. ASSUME Accepted(t, v, d, s), th[t].op \in Sending PROVE AwakeInv'
  <2>1. PICK c \in Clients : c = th[t].c
    BY <1>2
  <2> DEFINE k == [connections[c] EXCEPT !.transactions = Append(@, Transaction(th[t].op, v, th[t].m))]
             w == [th[t] EXCEPT !.at = "waiting", !.id = v]
  <2>2. connections' = [connections EXCEPT ![c] = k]
    BY <1>6, <2>1 DEF Accepted
  <2>3. th' = [th EXCEPT ![t] = IF th[t].op = "notify" THEN Idle ELSE w]
    BY <1>6 DEF Accepted
  <2>4. connections[c] \in Connection /\ connections \in [Clients -> Connection]
    BY ClientTypes DEF LibraryTypeOK
  <2>5. k.valid = connections[c].valid /\ k.recvMsgQueue = connections[c].recvMsgQueue
        /\ k.recvMsgEvents = connections[c].recvMsgEvents
    BY <2>4 DEF Connection
  <2>6. w.at = "waiting" /\ w.op = th[t].op
    BY <1>2 DEF Thread
  <2> HIDE DEF k, w
  <2>7. \A b \in Clients : /\ connections'[b].valid = connections[b].valid
                           /\ connections'[b].recvMsgQueue = connections[b].recvMsgQueue
                           /\ connections'[b].recvMsgEvents = connections[b].recvMsgEvents
    BY <2>2, <2>4, <2>5
  <2>8. \A u \in Threads \ {t} : th'[u] = th[u]
    BY <1>2, <2>3
  <2>9. th'[t] = Idle \/ (th'[t].at \in {"waiting", "woken"} /\ th'[t].op \in Blocking)
    BY <1>2, <1>6, <2>3, <2>6 DEF Sending
  <2> QED
    BY <1>1, <2>7, <2>8, <2>9, AwakeOne
<1>8. CASE th[t].op = "connect"
  <2>1. (v \in Clients /\ Connected(t, v, d, s)) \/ Returns(t, d, s)
    BY <1>8 DEF TakesAnswer, Blocking
  <2> QED
    BY <1>3, <1>4, <2>1
<1>9. CASE th[t].op = "disconnect"
  <2>1. IF isOk THEN Clear({th[t].c}, {}, {t}, d, s) ELSE Returns(t, d, s)
    BY <1>9 DEF TakesAnswer, Blocking
  <2> QED
    BY <1>3, <1>5, <2>1
<1>10. CASE th[t].op = "notify"
  <2>1. IF v > 0 THEN Accepted(t, v, d, s) ELSE Returns(t, d, s)
    BY <1>10 DEF TakesAnswer, Blocking
  <2> QED
    BY <1>3, <1>6, <1>10, <2>1 DEF Sending
<1>11. CASE th[t].op \in Blocking
  <2>1. IF v >= 0 THEN Accepted(t, v, d, s) ELSE Returns(t, d, s)
    BY <1>11 DEF TakesAnswer, Blocking
  <2> QED
    BY <1>3, <1>6, <1>11, <2>1 DEF Sending
<1>12. CASE th[t].op = "status"
  BY <1>3, <1>12 DEF TakesAnswer, Blocking
<1> QED
  BY <1>1, <1>8, <1>9, <1>10, <1>11, <1>12 DEF Blocking

LEMMA ServesAwake ==
  ASSUME LibraryTypeOK, OwnQueries, AwakeInv, DriverServes
  PROVE  AwakeInv'
<1> DEFINE x == Head(toDriver)  new == Served(x)  d == Forget(Tail(toDriver))
           s(t) == IF x.own THEN {} ELSE {<<th[t].m, "stale">>}
<1>1. readEventId' = readEventId
  BY DEF DriverServes
<1>2. \/ \E t \in At("query") : TakesAnswer(t, new[2], new[3], d, s(t))
      \/ UNCHANGED <<connections, th, told, spoilt>>
  BY DEF DriverServes
<1>3. ASSUME NEW t \in At("query"), TakesAnswer(t, new[2], new[3], d, s(t)) PROVE AwakeInv'
  <2>1. t \in Threads /\ th[t].at = "query" /\ th[t].op \in Calls
    BY <1>3 DEF At, OwnQueries
  <2>2. PICK v, isOk, e, z : v = new[2] /\ isOk = new[3] /\ e = d /\ z = s(t) /\ TakesAnswer(t, v, isOk, e, z)
    BY <1>3
  <2> QED
    BY <1>1, <2>1, <2>2, AnswerAwake
<1>4. CASE UNCHANGED <<connections, th, told, spoilt>>
  <2>1. connections' = connections /\ th' = th
    BY <1>4
  <2>2. \A t \in Threads : Woke(t)
    BY <2>1 DEF Woke
  <2> QED
    BY <1>1, <2>1, <2>2, AwakeQuiet
<1> QED
  BY <1>2, <1>3, <1>4

LEMMA RefusesAwake ==
  ASSUME LibraryTypeOK, OwnQueries, AwakeInv, DriverRefuses
  PROVE  AwakeInv'
<1>1. PICK x : x = Head(toDriver) /\ Refusal(x)
  BY RefusesFacts
<1>2. ASSUME NEW t \in At("query"), NEW d, NEW s, Returns(t, d, s) PROVE AwakeInv'
  <2>1. t \in Threads /\ th[t].op # "read"
    BY <1>2 DEF At, OwnQueries, Calls, Sending, Blocking
  <2>2. /\ th' = [th EXCEPT ![t] = Idle] /\ connections' = connections /\ readEventId' = readEventId
    BY <1>1, <1>2 DEF Returns, Refusal
  <2>3. th'[t] = Idle /\ \A u \in Threads \ {t} : th'[u] = th[u]
    BY <2>1, <2>2, IdleIsThread, ThreadStep
  <2> QED
    BY <2>1, <2>2, <2>3, AwakeOne
<1>3. CASE UNCHANGED <<connections, th, told, spoilt>>
  <2>1. connections' = connections /\ th' = th /\ readEventId' = readEventId
    BY <1>1, <1>3 DEF Refusal
  <2>2. \A t \in Threads : Woke(t)
    BY <2>1 DEF Woke
  <2> QED
    BY <2>1, <2>2, AwakeQuiet
<1> QED
  BY <1>1, <1>2, <1>3 DEF Refusal

\* The driver is gone: every connection is cleared.
LEMMA GivesUpAwake ==
  ASSUME LibraryTypeOK, AwakeInv, ListenerGivesUp
  PROVE  AwakeInv'
<1>1. /\ Clear(Clients, {}, {}, toDriver, {})
      /\ readEventId' = readEventId
  BY DEF ListenerGivesUp
<1>2. PICK C, none, d, defects : C = Clients /\ none = {} /\ d = toDriver /\ Clear(C, none, none, d, defects)
  BY <1>1
<1>3. C \subseteq Clients /\ none \subseteq C /\ \A t \in Threads : t \in none => th[t].at = "query"
  BY <1>2
<1> QED
  BY <1>1, <1>2, <1>3, ClearAwake

(***************************************************************************)
(* The list of handles, and setting one of them.                           *)
(***************************************************************************)
LEMMA PopSingle ==
  ASSUME NEW k \in Connection, Single(k.recvMsgEvents)
  PROVE  /\ Single(PopEvent(k).recvMsgEvents)
         /\ ToSet(PopEvent(k).recvMsgEvents) = ToSet(k.recvMsgEvents) \ FrontEvent(k)
         /\ FrontEvent(k) \subseteq ToSet(k.recvMsgEvents)
<1> DEFINE s == k.recvMsgEvents  q == PopEvent(k).recvMsgEvents
<1>1. s \in Seq(Handles) /\ q = IF s = <<>> THEN s ELSE Tail(s)
  BY PopFacts DEF Connection
<1>2. FrontEvent(k) = IF s = <<>> THEN {} ELSE {Head(s)}
  BY DEF FrontEvent
<1>3. Single(s)
  OBVIOUS
<1> HIDE DEF s, q
<1>4. CASE s = <<>>
  <2>1. q = s /\ ToSet(s) = {} /\ FrontEvent(k) = {}
    BY <1>1, <1>2, <1>4 DEF ToSet
  <2> QED
    BY <1>3, <2>1 DEF s, q
<1>5. CASE s # <<>>
  <2>1. /\ Len(s) \in Nat /\ DOMAIN s = 1 .. Len(s) /\ Len(s) > 0
        /\ q = Tail(s) /\ Len(q) = Len(s) - 1 /\ DOMAIN q = 1 .. (Len(s) - 1)
        /\ \A i \in 1 .. (Len(s) - 1) : q[i] = s[i + 1]
        /\ FrontEvent(k) = {s[1]}
    <3>1. /\ Tail(s) \in Seq(Handles) /\ Head(s) = s[1] /\ Len(Tail(s)) = Len(s) - 1
          /\ \A i \in 1 .. Len(Tail(s)) : Tail(s)[i] = s[i + 1]
      BY <1>1, <1>5, HeadTailProperties
    <3>2. /\ Len(s) \in Nat /\ DOMAIN s = 1 .. Len(s) /\ Len(s) > 0
      BY <1>1, <1>5, LenProperties, EmptySeq
    <3>3. DOMAIN Tail(s) = 1 .. Len(Tail(s))
      BY <3>1, LenProperties
    <3> QED
      BY <1>1, <1>2, <1>5, <3>1, <3>2, <3>3
  <2>2. Single(q)
    BY <1>3, <2>1 DEF Single
  <2>3. ToSet(q) = ToSet(s) \ {s[1]}
    <3>1. ASSUME NEW i \in DOMAIN q PROVE q[i] \in ToSet(s) /\ q[i] # s[1]
      BY <1>3, <2>1, <3>1 DEF Single, ToSet
    <3>2. ASSUME NEW i \in DOMAIN s, s[i] # s[1] PROVE s[i] \in ToSet(q)
      <4>1. i \in 2 .. Len(s)
        BY <2>1, <3>2
      <4>2. i - 1 \in DOMAIN q /\ q[i - 1] = s[i]
        BY <2>1, <4>1
      <4> QED
        BY <4>2 DEF ToSet
    <3> QED
      BY <3>1, <3>2 DEF ToSet
  <2>4. {s[1]} \subseteq ToSet(s)
    BY <2>1 DEF ToSet
  <2> QED
    BY <2>1, <2>2, <2>3, <2>4 DEF s, q
<1> QED
  BY <1>4, <1>5

LEMMA AppendSingle ==
  ASSUME NEW s \in Seq(Handles), Single(s), NEW h \in Handles, h \notin ToSet(s)
  PROVE  /\ Append(s, h) \in Seq(Handles) /\ Single(Append(s, h))
         /\ ToSet(Append(s, h)) = ToSet(s) \cup {h}
<1> DEFINE q == Append(s, h)
<1>1. /\ q \in Seq(Handles) /\ Len(q) = Len(s) + 1 /\ q[Len(s) + 1] = h
      /\ \A i \in 1 .. Len(s) : q[i] = s[i]
  BY AppendProperties
<1> HIDE DEF q
<1>2. /\ DOMAIN q = 1 .. (Len(s) + 1) /\ DOMAIN s = 1 .. Len(s) /\ Len(s) \in Nat
  BY <1>1, LenProperties
<1>3. \A i \in DOMAIN s : s[i] # h
  BY DEF ToSet
<1>4. Single(q)
  <2>1. SUFFICES ASSUME NEW i \in DOMAIN q, NEW j \in DOMAIN q, q[i] = q[j] PROVE i = j
    BY DEF Single
  <2>2. i \in DOMAIN s \/ i = Len(s) + 1
    BY <1>2
  <2>3. j \in DOMAIN s \/ j = Len(s) + 1
    BY <1>2
  <2> QED
    BY <1>1, <1>2, <1>3, <2>1, <2>2, <2>3 DEF Single
<1>5. ToSet(q) = ToSet(s) \cup {h}
  <2>1. \A i \in DOMAIN q : i \in DOMAIN s \/ i = Len(s) + 1
    BY <1>2
  <2>2. \A i \in DOMAIN s : i \in DOMAIN q /\ q[i] = s[i]
    BY <1>1, <1>2
  <2>3. Len(s) + 1 \in DOMAIN q
    BY <1>2
  <2> QED
    BY <1>1, <2>1, <2>2, <2>3 DEF ToSet
<1> QED
  BY <1>1, <1>4, <1>5 DEF q

\* Of the readers on the event of a handle that is set one wakes, if any is there.
LEMMA WakesOne ==
  ASSUME LibraryTypeOK, NEW h \in Handles, NEW H, H \subseteq {h}, NEW W \in SetEvents(H)
  PROVE  \/ W = {} /\ (H = {} \/ ~IsOpen(h) \/ ReadersOn(h.ev) = {})
         \/ H = {h} /\ IsOpen(h) /\ \E w \in ReadersOn(h.ev) : W = {w}
<1> DEFINE set(ev)    == Cardinality({g \in H : IsOpen(g) /\ g.ev = ev})
           asleep(ev) == Cardinality(ReadersOn(ev))
<1>1. W \subseteq Readers
  BY Woken
<1>2. \A t \in Readers : Cardinality(W \cap ReadersOn(th[t].id)) =
                           IF set(th[t].id) < asleep(th[t].id) THEN set(th[t].id) ELSE asleep(th[t].id)
  BY DEF SetEvents
<1>3. ASSUME NEW ev
      PROVE  /\ IsFiniteSet(ReadersOn(ev)) /\ asleep(ev) \in Nat
             /\ IsFiniteSet(W \cap ReadersOn(ev))
             /\ W \cap ReadersOn(ev) = {} <=> Cardinality(W \cap ReadersOn(ev)) = 0
             /\ ReadersOn(ev) = {} <=> asleep(ev) = 0
  <2>1. ReadersOn(ev) \in SUBSET Threads /\ W \cap ReadersOn(ev) \in SUBSET Threads
    BY DEF ReadersOn, Readers, At
  <2>2. IsFiniteSet(ReadersOn(ev)) /\ IsFiniteSet(W \cap ReadersOn(ev))
    BY <2>1, FS_Subset, LibraryAssumption
  <2> QED
    BY <2>2, FS_EmptySet, FS_CardinalityType
<1>4. \A t \in Readers : t \in ReadersOn(th[t].id)
  BY DEF ReadersOn
<1>5. ASSUME NEW ev, {g \in H : IsOpen(g) /\ g.ev = ev} = {} PROVE set(ev) = 0
  BY <1>5, FS_EmptySet
<1>6. ASSUME NEW ev, {g \in H : IsOpen(g) /\ g.ev = ev} = {h} PROVE set(ev) = 1
  BY <1>6, FS_Singleton
<1> HIDE DEF set, asleep
<1>7. ASSUME NEW ev, set(ev) = 0 PROVE W \cap ReadersOn(ev) = {}
  <2>1. CASE ReadersOn(ev) = {}
    BY <2>1
  <2>2. CASE ReadersOn(ev) # {}
    <3>1. PICK t \in Readers : th[t].id = ev
      BY <2>2 DEF ReadersOn
    <3>2. Cardinality(W \cap ReadersOn(ev)) = IF set(ev) < asleep(ev) THEN set(ev) ELSE asleep(ev)
      BY <1>2, <3>1
    <3>3. asleep(ev) \in Nat
      BY <1>3
    <3>4. Cardinality(W \cap ReadersOn(ev)) = 0
      BY <1>7, <3>2, <3>3
    <3> QED
      BY <1>3, <3>4
  <2> QED
    BY <2>1, <2>2
<1>8. CASE H = {} \/ ~IsOpen(h)
  <2>1. \A ev : {g \in H : IsOpen(g) /\ g.ev = ev} = {}
    BY <1>8
  <2>2. \A ev : W \cap ReadersOn(ev) = {}
    BY <1>5, <1>7, <2>1
  <2>3. W = {}
    BY <1>1, <1>4, <2>2
  <2> QED
    BY <1>8, <2>3
<1>9. CASE H = {h} /\ IsOpen(h)
  <2>1. \A ev : ev # h.ev => {g \in H : IsOpen(g) /\ g.ev = ev} = {}
    BY <1>9
  <2>2. {g \in H : IsOpen(g) /\ g.ev = h.ev} = {h}
    BY <1>9
  <2>3. \A ev : ev # h.ev => W \cap ReadersOn(ev) = {}
    BY <1>5, <1>7, <2>1
  <2>4. W \subseteq ReadersOn(h.ev)
    <3>1. ASSUME NEW t \in W PROVE t \in ReadersOn(h.ev)
      <4>1. t \in Readers /\ t \in ReadersOn(th[t].id)
        BY <1>1, <1>4
      <4>2. th[t].id = h.ev
        BY <2>3, <4>1
      <4> QED
        BY <4>1, <4>2
    <3> QED
      BY <3>1
  <2>5. CASE ReadersOn(h.ev) = {}
    BY <2>4, <2>5
  <2>6. CASE ReadersOn(h.ev) # {}
    <3>1. PICK t \in Readers : th[t].id = h.ev
      BY <2>6 DEF ReadersOn
    <3>2. set(h.ev) = 1 /\ asleep(h.ev) \in Nat /\ asleep(h.ev) # 0
      BY <1>3, <1>6, <2>2, <2>6
    <3>3. Cardinality(W \cap ReadersOn(h.ev)) = 1
      BY <1>2, <3>1, <3>2
    <3>4. W \cap ReadersOn(h.ev) = W
      BY <2>4
    <3>5. Cardinality(W) = 1 /\ IsFiniteSet(W)
      BY <1>3, <3>3, <3>4
    <3>6. \E w \in ReadersOn(h.ev) : W = {w}
      BY <2>4, <3>5, FS_Singleton
    <3> QED
      BY <1>9, <3>6
  <2> QED
    BY <2>5, <2>6
<1> QED
  BY <1>8, <1>9

(***************************************************************************)
(* Counting the readers that are due.                                      *)
(***************************************************************************)
LEMMA CountMono ==
  ASSUME NEW A, NEW B, NEW E, NEW F, IsFiniteSet(A), IsFiniteSet(F), B \subseteq A, E \subseteq F,
         Cardinality(A) <= Cardinality(E)
  PROVE  Cardinality(B) <= Cardinality(F)
<1>1. B \in SUBSET A /\ E \in SUBSET F
  OBVIOUS
<1>2. IsFiniteSet(B) /\ IsFiniteSet(E) /\ Cardinality(B) <= Cardinality(A) /\ Cardinality(E) <= Cardinality(F)
  BY <1>1, FS_Subset
<1>3. Cardinality(A) \in Nat /\ Cardinality(B) \in Nat /\ Cardinality(E) \in Nat /\ Cardinality(F) \in Nat
  BY <1>2, FS_CardinalityType
<1> QED
  BY <1>2, <1>3

\* One element less in each of two sets, ...
LEMMA CountLess ==
  ASSUME NEW A, NEW E, IsFiniteSet(A), IsFiniteSet(E), Cardinality(A) <= Cardinality(E), NEW a \in A
  PROVE  E # {} /\ \A w \in E, B \in SUBSET (A \ {a}) : Cardinality(B) <= Cardinality(E \ {w})
<1>1. Cardinality(A) \in Nat /\ Cardinality(E) \in Nat /\ Cardinality(A) # 0
  BY FS_CardinalityType, FS_EmptySet
<1>2. E # {}
  BY <1>1, FS_EmptySet
<1>3. ASSUME NEW w \in E, NEW B \in SUBSET (A \ {a}) PROVE Cardinality(B) <= Cardinality(E \ {w})
  <2>1. IsFiniteSet(A \ {a}) /\ Cardinality(A \ {a}) = Cardinality(A) - 1
    BY FS_RemoveElement
  <2>2. IsFiniteSet(E \ {w}) /\ Cardinality(E \ {w}) = Cardinality(E) - 1
    BY <1>3, FS_RemoveElement
  <2>3. Cardinality(A \ {a}) <= Cardinality(E \ {w})
    BY <1>1, <2>1, <2>2
  <2>4. B \subseteq A \ {a} /\ E \ {w} \subseteq E \ {w}
    OBVIOUS
  <2> QED
    BY <2>1, <2>2, <2>3, <2>4, CountMono
<1> QED
  BY <1>2, <1>3

\* ... and one more.
LEMMA CountMore ==
  ASSUME NEW A, NEW E, IsFiniteSet(A), IsFiniteSet(E), Cardinality(A) <= Cardinality(E),
         NEW a, NEW w, w \notin E, NEW B \in SUBSET (A \cup {a})
  PROVE  Cardinality(B) <= Cardinality(E \cup {w})
<1>1. Cardinality(A) \in Nat /\ Cardinality(E) \in Nat
  BY FS_CardinalityType
<1>2. IsFiniteSet(A \cup {a}) /\ Cardinality(A \cup {a}) <= Cardinality(A) + 1
  BY <1>1, FS_AddElement
<1>3. IsFiniteSet(E \cup {w}) /\ Cardinality(E \cup {w}) = Cardinality(E) + 1
  BY FS_AddElement
<1>4. IsFiniteSet(B) /\ Cardinality(B) <= Cardinality(A \cup {a})
  BY <1>2, FS_Subset
<1>5. Cardinality(B) \in Nat /\ Cardinality(A \cup {a}) \in Nat
  BY <1>2, <1>4, FS_CardinalityType
<1> QED
  BY <1>1, <1>2, <1>3, <1>4, <1>5

LEMMA DueBy ==
  ASSUME NEW c \in Clients, NEW D, D \subseteq Roused(c)', Cardinality(D) = connections'[c].recvMsgQueue,
         \A ev \in Nat : Cardinality(Enlisted(c, ev)') <= Cardinality(OnEvent(c, ev)' \ D)
  PROVE  Due(c)'
  BY DEF Due

\* The handle of a reader that has not returned, wherever it is listed.
LEMMA HeldByReader ==
  ASSUME LibraryTypeOK, AwakeInv, NEW c \in Clients, NEW h \in Listing(c), IsOpen(h)
  PROVE  h.by \in Enlisted(c, h.ev) /\ h.ev \in Nat
<1>1. h \in Handles
  BY EventTypes
<1>2. h.by \in Threads /\ h.ev \in Nat /\ h = [by |-> h.by, ev |-> h.ev]
  BY <1>1 DEF Handles
<1>3. h.ev > 0 /\ th[h.by].c = c /\ th[h.by].op = "read" /\ th[h.by].id = h.ev
  BY DEF AwakeInv, HandlesOK, IsOpen
<1>4. th[h.by].at \in {"waiting", "woken"}
  BY <1>2, <1>3, ThreadTypes DEF AwakeInv, ReaderOK
<1>5. h.by \in OnEvent(c, h.ev)
  BY <1>2, <1>3, <1>4 DEF OnEvent
<1> QED
  BY <1>2, <1>5 DEF Enlisted

\* A message came, and one of the readers on the event that was set, which is not
\* on its way to another message, is on its way to this one.
LEMMA HeardDue ==
  ASSUME LibraryTypeOK, NEW c \in Clients, Due(c), NEW h \in Handles, h.by \in Enlisted(c, h.ev),
         Listing(c)' = Listing(c) \ {h}, connections'[c].recvMsgQueue = connections[c].recvMsgQueue + 1,
         \A t \in Threads : Woke(t),
         \A D \in SUBSET Roused(c) : OnEvent(c, h.ev) \ D # {} =>
           \E w \in OnEvent(c, h.ev) \ D : th'[w].at = "woken"
  PROVE  Due(c)'
<1>1. PICK D \in SUBSET Roused(c) :
          /\ Cardinality(D) = connections[c].recvMsgQueue
          /\ \A ev \in Nat : Cardinality(Enlisted(c, ev)) <= Cardinality(OnEvent(c, ev) \ D)
  BY DEF Due
<1>2. \A ev : /\ IsFiniteSet(OnEvent(c, ev)) /\ IsFiniteSet(Enlisted(c, ev)) /\ IsFiniteSet(OnEvent(c, ev) \ D)
              /\ OnEvent(c, ev)' = OnEvent(c, ev)
  <2>1. TAKE ev
  <2>2. IsFiniteSet(OnEvent(c, ev)) /\ IsFiniteSet(Enlisted(c, ev))
    BY EventTypes
  <2>3. IsFiniteSet(OnEvent(c, ev) \ D)
    BY <2>2, FS_Difference
  <2>4. OnEvent(c, ev)' = OnEvent(c, ev)
    BY DEF OnEvent, Woke
  <2> QED
    BY <2>2, <2>3, <2>4
<1>3. h.by \in Threads /\ h.ev \in Nat /\ h = [by |-> h.by, ev |-> h.ev]
  BY DEF Handles
<1>4. /\ OnEvent(c, h.ev) \ D # {}
      /\ \A w \in OnEvent(c, h.ev) \ D, B \in SUBSET (Enlisted(c, h.ev) \ {h.by}) :
           Cardinality(B) <= Cardinality((OnEvent(c, h.ev) \ D) \ {w})
  <2>1. PICK A, E, a : A = Enlisted(c, h.ev) /\ E = OnEvent(c, h.ev) \ D /\ a = h.by
    OBVIOUS
  <2>2. IsFiniteSet(A) /\ IsFiniteSet(E) /\ Cardinality(A) <= Cardinality(E) /\ a \in A
    BY <1>1, <1>2, <1>3, <2>1
  <2>3. E # {} /\ \A w \in E, B \in SUBSET (A \ {a}) : Cardinality(B) <= Cardinality(E \ {w})
    BY <2>2, CountLess
  <2> QED
    BY <2>1, <2>3
<1>5. PICK w \in OnEvent(c, h.ev) \ D : th'[w].at = "woken"
  BY <1>4
<1>6. D \cup {w} \subseteq Roused(c)'
  <2>1. w \in Roused(c)'
    BY <1>5 DEF OnEvent, Roused, Woke
  <2>2. Roused(c) \subseteq Roused(c)'
    BY DEF Roused, Woke
  <2> QED
    BY <2>1, <2>2
<1>7. Cardinality(D \cup {w}) = connections'[c].recvMsgQueue
  <2>1. IsFiniteSet(D)
    <3>1. IsFiniteSet(Roused(c))
      BY EventTypes
    <3> QED
      BY <3>1, FS_Subset
  <2> QED
    BY <1>1, <1>5, <2>1, FS_AddElement
<1>8. ASSUME NEW ev \in Nat PROVE Cardinality(Enlisted(c, ev)') <= Cardinality(OnEvent(c, ev)' \ (D \cup {w}))
  <2>1. Enlisted(c, ev)' \subseteq Enlisted(c, ev)
    BY <1>2 DEF Enlisted
  <2>2. CASE ev = h.ev
    <3>1. Enlisted(c, ev)' \in SUBSET (Enlisted(c, h.ev) \ {h.by})
      BY <1>3, <2>1, <2>2 DEF Enlisted
    <3>2. OnEvent(c, ev)' \ (D \cup {w}) = (OnEvent(c, h.ev) \ D) \ {w}
      BY <1>2, <2>2
    <3> QED
      BY <1>4, <3>1, <3>2
  <2>3. CASE ev # h.ev
    <3>1. w \notin OnEvent(c, ev)
      BY <1>5, <2>3 DEF OnEvent
    <3>2. OnEvent(c, ev)' \ (D \cup {w}) = OnEvent(c, ev) \ D
      BY <1>2, <3>1
    <3>3. PICK A, B, E : A = Enlisted(c, ev) /\ B = Enlisted(c, ev)' /\ E = OnEvent(c, ev) \ D
      OBVIOUS
    <3>4. IsFiniteSet(A) /\ IsFiniteSet(E) /\ B \subseteq A /\ E \subseteq E /\ Cardinality(A) <= Cardinality(E)
      BY <1>1, <1>2, <2>1, <3>3
    <3>5. Cardinality(B) <= Cardinality(E)
      BY <3>4, CountMono
    <3> QED
      BY <3>2, <3>3, <3>5
  <2> QED
    BY <2>2, <2>3
<1>9. PICK E : E = D \cup {w}
  OBVIOUS
<1> QED
  BY <1>6, <1>7, <1>8, <1>9, DueBy

\* AddReadMsg: one reader wakes for the message, or those that sleep have missed it.
LEMMA HearsAwake ==
  ASSUME LibraryTypeOK, AwakeInv, HearMessage
  PROVE  AwakeInv'
<1>1. toListener # <<>> /\ readEventId' = readEventId
  BY DEF HearMessage, Listening
<1>2. PICK c \in Clients : c = Head(toListener).c
  BY <1>1, ListenerQueue
<1> DEFINE k == connections[c]  F == FrontEvent(k)
           j == [PopEvent(k) EXCEPT !.recvMsgQueue = @ + 1]
           astray(W) == (\E h \in F : ~IsOpen(h)) \/ (\E t \in W : th[t].c # c)
           late(W) == IF astray(W) THEN Asleep(c) ELSE Robbed(F, W)
<1>3. PICK W \in SetEvents(F) : connections' = [connections EXCEPT ![c] = j] /\ th' = After(W, {}, Early(c) \cup late(W))
  BY <1>2 DEF HearMessage, ReadersToWake
<1>4. PICK none, missed : /\ none = {} /\ th' = After(W, none, missed) /\ Early(c) \subseteq missed
                          /\ astray(W) => Asleep(c) \subseteq missed
                          /\ ~astray(W) => Robbed(F, W) \subseteq missed
  BY <1>3
<1>5. W \subseteq At("waiting") /\ W \subseteq Readers
  BY Woken
<1>6. ASSUME NEW t \in Threads
      PROVE  /\ Woke(t)
             /\ t \in W => th'[t].at = "woken"
             /\ t \notin W => th'[t].at = th[t].at /\ (th'[t].missed <=> th[t].missed \/ t \in missed)
  BY <1>4, <1>5, AfterEffect
<1>7. k \in Connection /\ connections \in [Clients -> Connection] /\ Single(k.recvMsgEvents)
  BY ClientTypes DEF LibraryTypeOK, AwakeInv, HandlesOK
<1>8. /\ j.valid = k.valid /\ j.recvMsgQueue = k.recvMsgQueue + 1
      /\ Single(j.recvMsgEvents) /\ ToSet(j.recvMsgEvents) = ToSet(k.recvMsgEvents) \ F
      /\ F \subseteq ToSet(k.recvMsgEvents)
  <2>1. /\ PopEvent(k) \in Connection /\ PopEvent(k).valid = k.valid /\ PopEvent(k).recvMsgQueue = k.recvMsgQueue
        /\ Single(PopEvent(k).recvMsgEvents) /\ ToSet(PopEvent(k).recvMsgEvents) = ToSet(k.recvMsgEvents) \ F
        /\ F \subseteq ToSet(k.recvMsgEvents)
    BY <1>7, PopFacts, PopSingle
  <2> HIDE DEF k, F
  <2>2. j.valid = PopEvent(k).valid /\ j.recvMsgQueue = PopEvent(k).recvMsgQueue + 1
        /\ j.recvMsgEvents = PopEvent(k).recvMsgEvents
    BY <2>1 DEF Connection
  <2> QED
    BY <2>1, <2>2
<1> HIDE DEF j
<1>9. /\ connections'[c] = j /\ \A b \in Clients \ {c} : connections'[b] = connections[b]
      /\ Listing(c)' = Listing(c) \ F /\ F \subseteq Listing(c)
  BY <1>3, <1>7, <1>8 DEF Listing
<1>10. readEventId \in Nat /\ readEventId' >= readEventId /\ readEventId' \in Nat
  BY <1>1 DEF LibraryTypeOK
<1>11. F = {} \/ \E h \in Handles : F = {h} /\ h \in Listing(c)
  <2>1. F = {} \/ \E h : F = {h}
    BY DEF FrontEvent
  <2>2. F \subseteq Handles
    BY <1>9, EventTypes
  <2> QED
    BY <1>9, <2>1, <2>2
<1>12. ASSUME NEW t \in Threads PROVE ReaderOK(t)'
  <2>1. PICK b \in Clients : b = th[t].c
    BY ThreadTypes
  <2>2. ReaderOK(t)
    BY DEF AwakeInv
  <2>3. CASE b # c
    <3>1. connections'[b] = connections[b] /\ Listing(b)' = Listing(b)
      BY <1>9, <2>3 DEF Listing
    <3> QED
      BY <1>6, <1>10, <2>1, <2>2, <3>1, WokeReader
  <2>4. CASE b = c
    <3>1. connections'[b].valid = connections[b].valid
      BY <1>8, <1>9, <2>4
    <3>2. th[t].at \in {"window", "named"} => th'[t].missed
      <4>1. th[t].at \in {"window", "named"} => t \in Early(c) /\ t \notin W
        BY <1>5, <2>1, <2>4 DEF Early, At
      <4> QED
        BY <1>4, <1>6, <4>1
    <3>3. \/ [by |-> t, ev |-> th[t].id] \in Listing(b) => [by |-> t, ev |-> th[t].id] \in Listing(b)'
          \/ th'[t].at = "waiting" /\ th[t].op = "read" => th'[t].missed
      <4> DEFINE g == [by |-> t, ev |-> th[t].id]
      <4>1. CASE g \notin F
        BY <1>9, <2>4, <4>1
      <4>2. CASE g \in F /\ th'[t].at = "waiting" /\ th[t].op = "read"
        <5>1. th[t].at = "waiting" /\ t \notin W
          BY <1>6, <4>2 DEF Woke
        <5>2. t \in Asleep(c) /\ IsOpen(g) /\ g.by = t
          BY <2>1, <2>4, <4>2, <5>1 DEF Asleep, Readers, At, IsOpen
        <5>3. t \in Robbed(F, W)
          BY <4>2, <5>1, <5>2 DEF Robbed, Asleep
        <5>4. t \in missed
          BY <1>4, <5>2, <5>3
        <5> QED
          BY <1>6, <5>1, <5>4
      <4> QED
        BY <4>1, <4>2
    <3> QED
      BY <1>6, <1>10, <2>1, <2>2, <3>1, <3>2, <3>3, WokeReader
  <2> QED
    BY <2>3, <2>4
<1>13. ASSUME NEW b \in Clients PROVE HandlesOK(b)'
  <2>1. HandlesOK(b)
    BY DEF AwakeInv
  <2>2. Single(connections'[b].recvMsgEvents) /\ Listing(b)' \subseteq Listing(b)
    BY <1>8, <1>9, <2>1 DEF HandlesOK, Listing
  <2> QED
    BY <1>6, <1>10, <1>12, <2>1, <2>2, HandlesKept
<1>14. ASSUME NEW b \in Clients \ {c}, Counted(b)' PROVE Due(b)'
  <2>1. connections'[b] = connections[b] /\ Listing(b)' = Listing(b)
    BY <1>9 DEF Listing
  <2>2. Counted(b) => Due(b)
    BY DEF AwakeInv
  <2> QED
    BY <1>6, <1>14, <2>1, <2>2, SleepersKept
<1>15. ASSUME Counted(c)' PROVE Due(c)'
  <2>1. PICK t \in Threads : th'[t].at = "waiting" /\ th'[t].op = "read" /\ th'[t].c = c /\ ~th'[t].missed
    BY <1>15 DEF Counted
  <2>2. th[t].at = "waiting" /\ th[t].op = "read" /\ th[t].c = c /\ ~th[t].missed /\ t \notin W /\ t \notin missed
    BY <1>6, <2>1 DEF Woke
  <2>3. t \in Asleep(c) /\ ~astray(W)
    BY <1>4, <2>2 DEF Asleep, Readers, At
  <2>4. Due(c) /\ Listing(c) # {}
    BY <2>2 DEF AwakeInv, Counted, ReaderOK
  <2>5. F # {}
    <3>1. k.recvMsgEvents # <<>>
      BY <2>4 DEF Listing, ToSet
    <3> QED
      BY <3>1 DEF FrontEvent
  <2>6. PICK h \in Handles : F = {h} /\ h \in Listing(c)
    BY <1>11, <2>5
  <2>7. IsOpen(h) /\ \A w \in W : th[w].c = c
    BY <2>3, <2>6
  <2>8. h.by \in Enlisted(c, h.ev)
    BY <2>6, <2>7, HeldByReader
  <2>9. ASSUME NEW D \in SUBSET Roused(c), OnEvent(c, h.ev) \ D # {}
        PROVE  \E w \in OnEvent(c, h.ev) \ D : th'[w].at = "woken"
    <3>1. \/ ReadersOn(h.ev) = {}
          \/ \E w \in ReadersOn(h.ev) : W = {w}
      <4>1. F \subseteq {h}
        BY <2>6
      <4> HIDE DEF F
      <4> QED
        BY <2>6, <2>7, <4>1, WakesOne
    <3>2. CASE ReadersOn(h.ev) = {}
      <4>1. PICK w : w \in OnEvent(c, h.ev) \ D
        BY <2>9
      <4>2. th[w].at = "woken" /\ w \in Threads
        BY <3>2, <4>1 DEF OnEvent, ReadersOn, Readers, At
      <4>3. th'[w].at = "woken"
        BY <1>6, <4>2 DEF Woke
      <4> QED
        BY <4>1, <4>3
    <3>3. CASE \E w \in ReadersOn(h.ev) : W = {w}
      <4>1. PICK w \in ReadersOn(h.ev) : W = {w}
        BY <3>3
      <4>2. w \in Threads /\ th[w].at = "waiting" /\ th[w].op = "read" /\ th[w].id = h.ev /\ th[w].c = c
        BY <2>7, <4>1 DEF ReadersOn, Readers, At
      <4>3. w \in OnEvent(c, h.ev) \ D
        BY <4>2 DEF OnEvent, Roused
      <4>4. th'[w].at = "woken"
        BY <1>6, <4>1, <4>2
      <4> QED
        BY <4>3, <4>4
    <3> QED
      BY <3>1, <3>2, <3>3
  <2>10. Listing(c)' = Listing(c) \ {h} /\ connections'[c].recvMsgQueue = connections[c].recvMsgQueue + 1
    BY <1>8, <1>9, <2>6
  <2> QED
    BY <1>6, <2>4, <2>6, <2>8, <2>9, <2>10, HeardDue
<1> QED
  BY <1>12, <1>13, <1>14, <1>15 DEF AwakeInv

\* A call to read takes a message, or leaves the critical section to wait for one.
LEMMA ReadsAwake ==
  ASSUME LibraryTypeOK, AwakeInv, NEW t \in Threads, NEW c \in Clients, ReadMessage(t, c)
  PROVE  AwakeInv'
<1>1. /\ th[t].at = "idle" /\ connections[c].valid /\ readEventId' = readEventId
      /\ connections[c] \in Connection /\ connections \in [Clients -> Connection]
      /\ th \in [Threads -> Thread]
  BY ClientTypes DEF ReadMessage, LibraryTypeOK
<1>2. readEventId \in Nat /\ readEventId' >= readEventId /\ readEventId' \in Nat
  BY <1>1 DEF LibraryTypeOK
<1>3. CASE connections[c].recvMsgQueue > 0
  <2> DEFINE j == [connections[c] EXCEPT !.recvMsgQueue = @ - 1]
  <2>1. connections' = [connections EXCEPT ![c] = j] /\ th' = th
    BY <1>3 DEF ReadMessage
  <2>2. j.valid = connections[c].valid /\ j.recvMsgQueue = connections[c].recvMsgQueue - 1
        /\ j.recvMsgEvents = connections[c].recvMsgEvents
    BY <1>1 DEF Connection
  <2> HIDE DEF j
  <2>3. /\ \A b \in Clients : /\ connections'[b].valid = connections[b].valid
                              /\ connections'[b].recvMsgEvents = connections[b].recvMsgEvents
                              /\ Listing(b)' = Listing(b)
        /\ \A b \in Clients \ {c} : connections'[b].recvMsgQueue = connections[b].recvMsgQueue
        /\ connections'[c].recvMsgQueue = connections[c].recvMsgQueue - 1
    BY <1>1, <2>1, <2>2 DEF Listing
  <2>4. \A u \in Threads : Woke(u)
    BY <2>1 DEF Woke
  <2>5. ASSUME NEW u \in Threads PROVE ReaderOK(u)'
    <3>1. PICK b \in Clients : b = th[u].c
      BY ThreadTypes
    <3>2. ReaderOK(u)
      BY DEF AwakeInv
    <3>3. \/ connections'[b].recvMsgQueue = connections[b].recvMsgQueue
          \/ th[u].at \in {"window", "named"} => th'[u].missed
      <4>1. CASE b = c /\ th[u].at \in {"window", "named"} /\ ~th[u].missed
        <5>1. connections[c].recvMsgQueue = 0
          BY <3>1, <3>2, <4>1 DEF ReaderOK
        <5> QED
          BY <1>3, <5>1
      <4> QED
        BY <2>1, <2>3, <4>1
    <3> QED
      BY <1>2, <2>3, <2>4, <3>1, <3>2, <3>3, WokeReader
  <2>6. ASSUME NEW b \in Clients PROVE HandlesOK(b)'
    <3>1. HandlesOK(b)
      BY DEF AwakeInv
    <3>2. Single(connections'[b].recvMsgEvents) /\ Listing(b)' \subseteq Listing(b)
      BY <2>3, <3>1 DEF HandlesOK
    <3> QED
      BY <1>2, <2>4, <2>5, <3>1, <3>2, HandlesKept
  <2>7. ASSUME NEW b \in Clients \ {c}, Counted(b)' PROVE Due(b)'
    <3>1. Counted(b) => Due(b)
      BY DEF AwakeInv
    <3> QED
      BY <2>3, <2>4, <2>7, <3>1, SleepersKept
  <2>8. ASSUME Counted(c)' PROVE Due(c)'
    <3>1. Due(c)
      BY <2>1, <2>8 DEF Counted, AwakeInv
    <3>2. PICK D \in SUBSET Roused(c) :
              /\ Cardinality(D) = connections[c].recvMsgQueue
              /\ \A ev \in Nat : Cardinality(Enlisted(c, ev)) <= Cardinality(OnEvent(c, ev) \ D)
      BY <3>1 DEF Due
    <3>3. IsFiniteSet(D)
      <4>1. IsFiniteSet(Roused(c))
        BY EventTypes
      <4> QED
        BY <4>1, FS_Subset
    <3>4. PICK d : d \in D
      BY <1>3, <3>2, <3>3, FS_EmptySet
    <3>5. PICK E : E = D \ {d}
      OBVIOUS
    <3>6. E \subseteq Roused(c)' /\ Cardinality(E) = connections'[c].recvMsgQueue
      <4>1. Cardinality(D \ {d}) = Cardinality(D) - 1
        BY <3>3, <3>4, FS_RemoveElement
      <4>2. Roused(c)' = Roused(c)
        BY <2>1 DEF Roused
      <4> QED
        BY <2>3, <3>2, <3>5, <4>1, <4>2
    <3>7. ASSUME NEW ev \in Nat PROVE Cardinality(Enlisted(c, ev)') <= Cardinality(OnEvent(c, ev)' \ E)
      <4>1. OnEvent(c, ev)' = OnEvent(c, ev) /\ Enlisted(c, ev)' = Enlisted(c, ev)
        BY <2>1, <2>3 DEF OnEvent, Enlisted
      <4>2. PICK A, F, G : A = Enlisted(c, ev) /\ F = OnEvent(c, ev) \ D /\ G = OnEvent(c, ev) \ E
        OBVIOUS
      <4>3. IsFiniteSet(A) /\ IsFiniteSet(G)
        BY <4>2, EventTypes, FS_Difference
      <4>4. A \subseteq A /\ F \subseteq G /\ Cardinality(A) <= Cardinality(F)
        BY <3>2, <3>5, <4>2
      <4>5. Cardinality(A) <= Cardinality(G)
        BY <4>3, <4>4, CountMono
      <4> QED
        BY <4>1, <4>2, <4>5
    <3> QED
      BY <3>6, <3>7, DueBy
  <2> QED
    BY <2>5, <2>6, <2>7, <2>8 DEF AwakeInv
<1>4. CASE ~(connections[c].recvMsgQueue > 0)
  <2> DEFINE w == [th[t] EXCEPT !.at = "window", !.op = "read", !.c = c]
  <2>1. connections' = connections /\ th' = [th EXCEPT ![t] = w]
    BY <1>4 DEF ReadMessage
  <2>2. w.at = "window" /\ w.op = "read" /\ w.c = c /\ w.id = th[t].id
    BY <1>1 DEF Thread
  <2> HIDE DEF w
  <2>3. th'[t] = w /\ \A u \in Threads \ {t} : th'[u] = th[u] /\ Woke(u)
    BY <1>1, <2>1 DEF Woke
  <2>4. \A b \in Clients : Listing(b)' = Listing(b)
    BY <2>1 DEF Listing
  <2>5. connections[c].recvMsgQueue = 0
    BY <1>4, ClientTypes
  <2>6. ASSUME NEW u \in Threads PROVE ReaderOK(u)'
    <3>1. ReaderOK(u)
      BY DEF AwakeInv
    <3>2. CASE u = t
      BY <1>1, <2>1, <2>2, <2>3, <2>5, <3>1, <3>2 DEF ReaderOK
    <3>3. CASE u # t
      <4>1. PICK b \in Clients : b = th[u].c
        BY ThreadTypes
      <4> QED
        BY <1>2, <2>1, <2>3, <2>4, <3>1, <3>3, <4>1, WokeReader
    <3> QED
      BY <3>2, <3>3
  <2>7. ASSUME NEW b \in Clients PROVE HandlesOK(b)' /\ (Counted(b)' => Due(b)')
    <3>1. HandlesOK(b) /\ (Counted(b) => Due(b))
      BY DEF AwakeInv
    <3>2. Single(connections'[b].recvMsgEvents) /\ Listing(b)' \subseteq Listing(b)
      BY <2>1, <2>4, <3>1 DEF HandlesOK
    <3>3. \A u \in Threads : Woke(u) \/ th'[u].at \in {"window", "idle"}
      BY <2>2, <2>3
    <3>4. HandlesOK(b)'
      BY <1>2, <2>6, <3>1, <3>2, <3>3, HandlesKept
    <3>5. \A u \in Threads : Woke(u) \/ (th[u].at \notin {"waiting", "woken"} /\ th'[u].at \notin {"waiting", "woken"})
      BY <1>1, <2>2, <2>3
    <3>6. Counted(b)' => Due(b)'
      BY <2>1, <3>1, <3>2, <3>5, SleepersKept
    <3> QED
      BY <3>4, <3>6
  <2> QED
    BY <2>6, <2>7 DEF AwakeInv
<1> QED
  BY <1>3, <1>4

\* A reader outside the critical section counts.
LEMMA NamesAwake ==
  ASSUME LibraryTypeOK, AwakeInv, NEW t \in Threads, GetReadEvent(t)
  PROVE  AwakeInv'
<1> DEFINE w == [th[t] EXCEPT !.at = "named"]
<1>1. /\ th[t].at = "window" /\ readEventId' = readEventId + 1 /\ connections' = connections
      /\ th' = [th EXCEPT ![t] = w]
  BY DEF GetReadEvent, Reader
<1>2. th[t] \in Thread /\ th \in [Threads -> Thread] /\ ReaderOK(t)
  BY ThreadTypes DEF LibraryTypeOK, AwakeInv
<1>3. w.at = "named" /\ w.op = th[t].op /\ w.c = th[t].c /\ w.id = th[t].id /\ w.missed = th[t].missed
  BY <1>2 DEF Thread
<1> HIDE DEF w
<1>4. th'[t] = w /\ \A u \in Threads \ {t} : th'[u] = th[u] /\ Woke(u)
  BY <1>1, <1>2 DEF Woke
<1>5. readEventId \in Nat /\ readEventId' >= readEventId /\ readEventId' \in Nat /\ readEventId' > readEventId
  BY <1>1 DEF LibraryTypeOK
<1>6. \A b \in Clients : Listing(b)' = Listing(b)
  BY <1>1 DEF Listing
<1>7. ASSUME NEW u \in Threads PROVE ReaderOK(u)'
  <2>1. CASE u = t
    BY <1>1, <1>2, <1>3, <1>4, <1>5, <2>1 DEF ReaderOK
  <2>2. CASE u # t
    <3>1. PICK b \in Clients : b = th[u].c
      BY ThreadTypes
    <3>2. ReaderOK(u)
      BY DEF AwakeInv
    <3> QED
      BY <1>1, <1>4, <1>5, <1>6, <2>2, <3>1, <3>2, WokeReader
  <2> QED
    BY <2>1, <2>2
<1>8. ASSUME NEW b \in Clients PROVE HandlesOK(b)'
  <2>1. HandlesOK(b) /\ Listing(b) \subseteq Handles
    BY EventTypes DEF AwakeInv
  <2>2. ASSUME NEW h \in Listing(b)
        PROVE  /\ h.ev > 0 /\ h.ev <= readEventId' /\ (th'[h.by].at = "named" => h.ev < readEventId')
               /\ IsOpen(h)' => th'[h.by].c = b
    <3>1. /\ h.ev \in Nat /\ h.by \in Threads
          /\ h.ev > 0 /\ h.ev <= readEventId /\ (IsOpen(h) => th[h.by].c = b)
      BY <2>1 DEF HandlesOK, Handles
    <3>2. h.ev < readEventId' /\ h.ev <= readEventId'
      BY <1>5, <3>1
    <3>3. IsOpen(h)' => th'[h.by].c = b
      <4>1. IsOpen(h)' <=> th'[h.by].op = "read" /\ th'[h.by].id = h.ev
        BY DEF IsOpen
      <4>2. CASE h.by = t
        <5>1. w.id = 0
          BY <1>1, <1>2, <1>3 DEF ReaderOK
        <5> QED
          BY <1>4, <3>1, <4>1, <4>2, <5>1
      <4>3. CASE h.by # t
        BY <1>4, <3>1, <4>1, <4>3 DEF IsOpen
      <4> QED
        BY <4>2, <4>3
    <3> QED
      BY <3>1, <3>2, <3>3
  <2>3. Single(connections'[b].recvMsgEvents)
    BY <1>1, <2>1 DEF HandlesOK
  <2> QED
    BY <1>6, <2>2, <2>3 DEF HandlesOK
<1>9. ASSUME NEW b \in Clients PROVE Counted(b)' => Due(b)'
  <2>1. Counted(b) => Due(b)
    BY DEF AwakeInv
  <2>2. \A u \in Threads : Woke(u) \/ (th[u].at \notin {"waiting", "woken"} /\ th'[u].at \notin {"waiting", "woken"})
    BY <1>1, <1>3, <1>4
  <2> QED
    BY <1>1, <1>6, <2>1, <2>2, SleepersKept
<1> QED
  BY <1>7, <1>8, <1>9 DEF AwakeInv

\* The reader waits; its handle is listed unless another's took its place.
LEMMA WaitsAwake ==
  ASSUME LibraryTypeOK, AwakeInv, NEW t \in Threads, WaitForMessage(t)
  PROVE  AwakeInv'
<1>1. th[t].at = "named" /\ readEventId' = readEventId
  BY DEF WaitForMessage
<1>2. PICK c \in Clients : c = th[t].c
  BY ThreadTypes
<1>3. PICK e : e = readEventId
  OBVIOUS
<1> DEFINE h == [by |-> t, ev |-> e]
           s == connections[c].recvMsgEvents
           j == [connections[c] EXCEPT !.recvMsgEvents = Append(@, h)]
<1>4. PICK alone \in BOOLEAN :
        /\ connections' = IF ~alone THEN connections ELSE [connections EXCEPT ![c] = j]
        /\ th' = [th EXCEPT ![t] = [@ EXCEPT !.at = "waiting", !.id = e, !.missed = th[t].missed \/ ~alone]]
  <2>1. \E alone \in BOOLEAN :
        /\ connections' = IF ~alone THEN connections
                          ELSE [connections EXCEPT ![c].recvMsgEvents = Append(@, [by |-> t, ev |-> e])]
        /\ th' = [th EXCEPT ![t] = [@ EXCEPT !.at = "waiting", !.id = e, !.missed = th[t].missed \/ ~alone]]
    BY <1>2, <1>3 DEF WaitForMessage
  <2> QED
    BY <2>1
<1>5. /\ th[t] \in Thread /\ th \in [Threads -> Thread] /\ ReaderOK(t)
      /\ connections[c] \in Connection /\ connections \in [Clients -> Connection] /\ s \in Seq(Handles)
      /\ HandlesOK(c) /\ th[t].missed \in BOOLEAN
  BY ThreadTypes, ClientTypes DEF LibraryTypeOK, AwakeInv
<1>6. /\ e \in Nat /\ e > 0 /\ readEventId' = e /\ readEventId = e /\ h \in Handles
      /\ readEventId' \in Nat /\ readEventId' >= readEventId
  BY <1>1, <1>3, <1>5 DEF LibraryTypeOK, ReaderOK, Handles
<1>7. /\ th'[t].at = "waiting" /\ th'[t].op = "read" /\ th'[t].c = c /\ th'[t].id = e
      /\ th'[t].missed <=> th[t].missed \/ ~alone
      /\ \A u \in Threads \ {t} : th'[u] = th[u] /\ Woke(u)
  <2>1. PICK b \in BOOLEAN : b = (th[t].missed \/ ~alone)
    BY <1>5
  <2> DEFINE w == [th[t] EXCEPT !.at = "waiting", !.id = e, !.missed = b]
  <2>2. th' = [th EXCEPT ![t] = w]
    BY <1>4, <2>1
  <2>3. w.at = "waiting" /\ w.op = th[t].op /\ w.c = th[t].c /\ w.id = e /\ w.missed = b
    BY <1>5 DEF Thread
  <2>4. th[t].op = "read"
    BY <1>1, <1>5 DEF ReaderOK
  <2> HIDE DEF w
  <2>5. th'[t] = w /\ \A u \in Threads \ {t} : th'[u] = th[u]
    BY <1>5, <2>2
  <2>6. \A u \in Threads \ {t} : Woke(u)
    BY <2>5 DEF Woke
  <2> QED
    BY <1>2, <2>1, <2>3, <2>4, <2>5, <2>6
<1>8. h \notin ToSet(s)
  BY <1>1, <1>3, <1>5, <1>6 DEF HandlesOK, Listing
<1>9. /\ \A b \in Clients : /\ connections'[b].valid = connections[b].valid
                            /\ connections'[b].recvMsgQueue = connections[b].recvMsgQueue
      /\ \A b \in Clients \ {c} : connections'[b] = connections[b]
      /\ Single(connections'[c].recvMsgEvents)
      /\ alone => ToSet(connections'[c].recvMsgEvents) = ToSet(s) \cup {h}
      /\ ~alone => ToSet(connections'[c].recvMsgEvents) = ToSet(s)
  <2>1. Single(s)
    BY <1>5 DEF HandlesOK
  <2>2. j.valid = connections[c].valid /\ j.recvMsgQueue = connections[c].recvMsgQueue
        /\ j.recvMsgEvents = Append(s, h)
    BY <1>5 DEF Connection
  <2>3. Single(Append(s, h)) /\ ToSet(Append(s, h)) = ToSet(s) \cup {h}
    <3> HIDE DEF h, s
    <3> QED
      BY <1>5, <1>6, <1>8, <2>1, AppendSingle
  <2> HIDE DEF j, h
  <2>4. CASE alone
    <3>1. connections'[c] = j /\ \A b \in Clients \ {c} : connections'[b] = connections[b]
      BY <1>4, <1>5, <2>4
    <3> QED
      BY <2>2, <2>3, <2>4, <3>1
  <2>5. CASE ~alone
    BY <1>4, <2>1, <2>5
  <2> QED
    BY <2>4, <2>5
<1>10. /\ \A b \in Clients \ {c} : Listing(b)' = Listing(b)
       /\ Listing(c) \subseteq Listing(c)' /\ Listing(c)' \subseteq Listing(c) \cup {h}
       /\ alone => h \in Listing(c)'
  BY <1>9 DEF Listing
<1> HIDE DEF j, s
<1>11. ASSUME NEW u \in Threads PROVE ReaderOK(u)'
  <2>1. CASE u = t
    <3>1. ~th'[t].missed => connections'[c].valid /\ h \in Listing(c)'
      BY <1>1, <1>2, <1>5, <1>7, <1>9, <1>10 DEF ReaderOK
    <3>2. Listing(c)' = ToSet(connections'[c].recvMsgEvents)
      BY DEF Listing
    <3> QED
      BY <1>7, <2>1, <3>1, <3>2 DEF ReaderOK, Listing
  <2>2. CASE u # t
    <3>1. PICK b \in Clients : b = th[u].c
      BY ThreadTypes
    <3>2. ReaderOK(u)
      BY DEF AwakeInv
    <3>3. [by |-> u, ev |-> th[u].id] \in Listing(b) => [by |-> u, ev |-> th[u].id] \in Listing(b)'
      BY <1>10
    <3> QED
      BY <1>6, <1>7, <1>9, <2>2, <3>1, <3>2, <3>3, WokeReader
  <2> QED
    BY <2>1, <2>2
<1>12. ASSUME NEW b \in Clients PROVE HandlesOK(b)'
  <2>1. HandlesOK(b) /\ Listing(b) \subseteq Handles
    BY EventTypes DEF AwakeInv
  <2>2. ASSUME NEW g \in Listing(b)
        PROVE  /\ g.ev > 0 /\ g.ev <= readEventId' /\ (th'[g.by].at = "named" => g.ev < readEventId')
               /\ IsOpen(g)' => th'[g.by].c = b
    <3>1. /\ g.ev \in Nat /\ g.by \in Threads
          /\ g.ev > 0 /\ g.ev <= readEventId /\ (IsOpen(g) => th[g.by].c = b)
          /\ th[g.by].at = "named" => g.ev < readEventId
      BY <2>1 DEF HandlesOK, Handles
    <3>2. IsOpen(g)' <=> th'[g.by].op = "read" /\ th'[g.by].id = g.ev
      BY DEF IsOpen
    <3>3. CASE g.by = t
      <4>1. g.ev # e
        BY <1>1, <1>6, <3>1, <3>3
      <4> QED
        BY <1>6, <1>7, <3>1, <3>2, <3>3, <4>1
    <3>4. CASE g.by # t
      BY <1>6, <1>7, <3>1, <3>2, <3>4 DEF IsOpen
    <3> QED
      BY <3>3, <3>4
  <2>3. /\ h.ev > 0 /\ h.ev <= readEventId' /\ (th'[h.by].at = "named" => h.ev < readEventId')
        /\ th'[h.by].c = c
    BY <1>6, <1>7
  <2>4. Single(connections'[b].recvMsgEvents)
    BY <1>9, <2>1 DEF HandlesOK
  <2> HIDE DEF h
  <2>5. \A g \in Listing(b)' : g \in Listing(b) \/ (g = h /\ b = c)
    BY <1>10
  <2> QED
    BY <2>2, <2>3, <2>4, <2>5 DEF HandlesOK
<1>13. ASSUME NEW b \in Clients \ {c} PROVE Counted(b)' => Due(b)'
  <2>1. Counted(b) => Due(b)
    BY DEF AwakeInv
  <2>2. \A u \in Threads : Woke(u) \/ (th[u].c # b /\ th'[u].c # b)
    BY <1>2, <1>7
  <2> QED
    BY <1>9, <1>10, <2>1, <2>2, SleepersKept
<1>14. ASSUME Counted(c)' PROVE Due(c)'
  <2>1. CASE connections[c].recvMsgQueue = 0
    BY <1>9, <2>1, DueEmpty
  <2>2. CASE connections[c].recvMsgQueue # 0
    <3>1. th[t].missed /\ th'[t].missed
      BY <1>1, <1>2, <1>5, <1>7, <2>2 DEF ReaderOK
    <3>2. Counted(c)
      BY <1>7, <1>14, <3>1 DEF Counted
    <3>3. PICK D \in SUBSET Roused(c) :
              /\ Cardinality(D) = connections[c].recvMsgQueue
              /\ \A ev \in Nat : Cardinality(Enlisted(c, ev)) <= Cardinality(OnEvent(c, ev) \ D)
      BY <3>2 DEF AwakeInv, Due
    <3>4. t \notin D /\ D \subseteq Roused(c)' /\ Cardinality(D) = connections'[c].recvMsgQueue
      BY <1>1, <1>7, <1>9, <3>3 DEF Roused
    <3>5. ASSUME NEW ev \in Nat PROVE Cardinality(Enlisted(c, ev)') <= Cardinality(OnEvent(c, ev)' \ D)
      <4>1. PICK A, B, E, F : /\ A = Enlisted(c, ev) /\ B = Enlisted(c, ev)'
                              /\ E = OnEvent(c, ev) \ D /\ F = OnEvent(c, ev)' \ D
        OBVIOUS
      <4>2. IsFiniteSet(A) /\ IsFiniteSet(E) /\ Cardinality(A) <= Cardinality(E)
        BY <3>3, <4>1, EventTypes, FS_Difference
      <4>3. CASE ev = e
        <5>1. OnEvent(c, ev)' = OnEvent(c, ev) \cup {t} /\ t \notin OnEvent(c, ev)
          BY <1>1, <1>7, <4>3 DEF OnEvent
        <5>2. F = E \cup {t} /\ t \notin E
          BY <3>4, <4>1, <5>1
        <5>3. B \in SUBSET (A \cup {t})
          <6>1. ASSUME NEW u \in B, u # t PROVE u \in A
            <7>1. u \in OnEvent(c, ev) /\ [by |-> u, ev |-> ev] \in Listing(c)'
              BY <4>1, <5>1, <6>1 DEF Enlisted
            <7>2. [by |-> u, ev |-> ev] # h
              BY <6>1
            <7> QED
              BY <1>10, <4>1, <7>1, <7>2 DEF Enlisted
          <6> QED
            BY <6>1
        <5>4. Cardinality(B) <= Cardinality(E \cup {t})
          BY <4>2, <5>2, <5>3, CountMore
        <5> QED
          BY <4>1, <5>2, <5>4
      <4>4. CASE ev # e
        <5>1. OnEvent(c, ev)' = OnEvent(c, ev)
          BY <1>1, <1>7, <4>4 DEF OnEvent
        <5>2. \A u : [by |-> u, ev |-> ev] # h
          BY <4>4
        <5>3. B \subseteq A /\ E = F
          BY <1>10, <4>1, <5>1, <5>2 DEF Enlisted
        <5>4. Cardinality(B) <= Cardinality(F)
          BY <4>2, <5>3, CountMono
        <5> QED
          BY <4>1, <5>4
      <4> QED
        BY <4>3, <4>4
    <3> QED
      BY <3>4, <3>5, DueBy
  <2> QED
    BY <2>1, <2>2
<1> QED
  BY <1>11, <1>12, <1>13, <1>14 DEF AwakeInv

\* A reader of c that takes a message is one of those that were due, or stands in
\* for one of them.
LEMMA TakesDue ==
  ASSUME LibraryTypeOK, NEW c \in Clients, Due(c), NEW t \in Threads, NEW e \in Nat,
         t \in OnEvent(c, e), th[t].at = "woken", th'[t].at = "idle",
         \A u \in Threads \ {t} : th'[u].at = th[u].at /\ th'[u].op = th[u].op /\ th'[u].c = th[u].c /\ th'[u].id = th[u].id,
         Listing(c)' = Listing(c), connections[c].recvMsgQueue > 0,
         connections'[c].recvMsgQueue = connections[c].recvMsgQueue - 1
  PROVE  Due(c)'
<1>1. PICK D \in SUBSET Roused(c) :
          /\ Cardinality(D) = connections[c].recvMsgQueue
          /\ \A ev \in Nat : Cardinality(Enlisted(c, ev)) <= Cardinality(OnEvent(c, ev) \ D)
  BY DEF Due
<1>2. IsFiniteSet(D) /\ D # {} /\ Cardinality(D) \in Nat
  <2>1. IsFiniteSet(Roused(c))
    BY EventTypes
  <2>2. IsFiniteSet(D)
    BY <2>1, FS_Subset
  <2> QED
    BY <1>1, <2>2, FS_EmptySet, FS_CardinalityType
<1>3. /\ Roused(c)' = Roused(c) \ {t}
      /\ \A ev : OnEvent(c, ev)' = OnEvent(c, ev) \ {t}
      /\ \A ev : Enlisted(c, ev)' \subseteq Enlisted(c, ev) \ {t}
      /\ \A ev \in Nat : ev # e => t \notin OnEvent(c, ev)
  <2>1. Roused(c)' = Roused(c) \ {t}
    BY DEF Roused
  <2>2. \A ev : OnEvent(c, ev)' = OnEvent(c, ev) \ {t}
    BY DEF OnEvent
  <2>3. \A ev : Enlisted(c, ev)' \subseteq Enlisted(c, ev) \ {t}
    BY <2>2 DEF Enlisted
  <2>4. \A ev \in Nat : ev # e => t \notin OnEvent(c, ev)
    BY DEF OnEvent
  <2> QED
    BY <2>1, <2>2, <2>3, <2>4
\* d is the one whose place is free.
<1>4. PICK d \in D : /\ t \in D => d = t
                     /\ D \cap OnEvent(c, e) # {} /\ t \notin D => d \in OnEvent(c, e)
  BY <1>2
<1>5. PICK E : E = D \ {d}
  OBVIOUS
<1>6. E \subseteq Roused(c)' /\ Cardinality(E) = connections'[c].recvMsgQueue
  <2>1. E \subseteq Roused(c)'
    BY <1>1, <1>3, <1>4, <1>5
  <2>2. Cardinality(D \ {d}) = Cardinality(D) - 1
    BY <1>2, <1>4, FS_RemoveElement
  <2> QED
    BY <1>1, <1>5, <2>1, <2>2
<1>7. ASSUME NEW ev \in Nat PROVE Cardinality(Enlisted(c, ev)') <= Cardinality(OnEvent(c, ev)' \ E)
  <2>1. PICK A, B, F, G : /\ A = Enlisted(c, ev) /\ B = Enlisted(c, ev)'
                          /\ F = OnEvent(c, ev) \ D /\ G = OnEvent(c, ev)' \ E
    OBVIOUS
  <2>2. /\ IsFiniteSet(OnEvent(c, ev)) /\ IsFiniteSet(A) /\ IsFiniteSet(F) /\ Cardinality(A) <= Cardinality(F)
        /\ A \subseteq OnEvent(c, ev) /\ B \subseteq A \ {t}
    BY <1>1, <1>3, <2>1, EventTypes, FS_Difference
  <2>3. IsFiniteSet(G)
    <3>1. G \in SUBSET OnEvent(c, ev)
      BY <1>3, <2>1
    <3> QED
      BY <2>2, <3>1, FS_Subset
  <2>4. CASE t \in D \/ ev # e
    <3>1. F \subseteq G
      BY <1>3, <1>4, <1>5, <2>1, <2>4
    <3>2. B \subseteq A
      BY <2>2
    <3>3. Cardinality(B) <= Cardinality(G)
      BY <2>2, <2>3, <3>1, <3>2, CountMono
    <3> QED
      BY <2>1, <3>3
  <2>5. CASE t \notin D /\ ev = e /\ d \in OnEvent(c, e)
    <3>1. G = (F \ {t}) \cup {d} /\ t \in F /\ d \notin F /\ d # t
      BY <1>3, <1>4, <1>5, <2>1, <2>5
    <3>2. IsFiniteSet(F \ {t}) /\ Cardinality(F \ {t}) = Cardinality(F) - 1
      BY <2>2, <3>1, FS_RemoveElement
    <3>3. Cardinality((F \ {t}) \cup {d}) = Cardinality(F \ {t}) + 1
      BY <3>1, <3>2, FS_AddElement
    <3>4. Cardinality(G) = Cardinality(F) /\ Cardinality(F) \in Nat
      BY <2>2, <3>1, <3>2, <3>3, FS_CardinalityType
    <3>5. Cardinality(A) <= Cardinality(G) /\ B \subseteq A /\ G \subseteq G
      BY <2>2, <3>4
    <3>6. Cardinality(B) <= Cardinality(G)
      BY <2>2, <2>3, <3>5, CountMono
    <3> QED
      BY <2>1, <3>6
  <2>6. CASE t \notin D /\ ev = e /\ d \notin OnEvent(c, e)
    <3>1. D \cap OnEvent(c, e) = {}
      BY <1>4, <2>6
    <3>2. G = OnEvent(c, e) \ {t}
      BY <1>3, <1>5, <2>1, <2>6, <3>1
    <3>3. B \in SUBSET G
      BY <2>2, <2>6, <3>2
    <3>4. Cardinality(B) <= Cardinality(G)
      BY <2>3, <3>3, FS_Subset
    <3> QED
      BY <2>1, <3>4
  <2> QED
    BY <2>4, <2>5, <2>6
<1> QED
  BY <1>6, <1>7, DueBy

\* A reader that was woken returns: its connection is gone, it takes a message, or
\* it sets another's event.
LEMMA ReturnsAwake ==
  ASSUME LibraryTypeOK, AwakeInv, NEW t \in Threads, ReadReturns(t)
  PROVE  AwakeInv'
<1>1. th[t].at = "woken" /\ th[t].op = "read" /\ readEventId' = readEventId
  BY DEF ReadReturns
<1>2. PICK c \in Clients : c = th[t].c
  BY ThreadTypes
<1> DEFINE k == connections[c]  F == FrontEvent(k)  H == {h \in F : h.by # t}
           j == [k EXCEPT !.recvMsgQueue = @ - 1]
<1>3. \/ ~k.valid /\ th' = After({}, {t}, {}) /\ connections' = connections
      \/ /\ k.valid /\ k.recvMsgQueue > 0
         /\ th' = After({}, {t}, {}) /\ connections' = [connections EXCEPT ![c] = j]
      \/ /\ k.valid /\ k.recvMsgQueue = 0 /\ connections' = [connections EXCEPT ![c] = PopEvent(k)]
         /\ \E W \in SetEvents(H) : th' = After(W, {t}, Robbed(F, W))
  BY <1>2 DEF ReadReturns
<1>4. k \in Connection /\ connections \in [Clients -> Connection] /\ Single(k.recvMsgEvents) /\ k.recvMsgQueue \in Nat
  BY ClientTypes DEF LibraryTypeOK, AwakeInv, HandlesOK
<1>5. /\ j.valid = k.valid /\ j.recvMsgQueue = k.recvMsgQueue - 1 /\ j.recvMsgEvents = k.recvMsgEvents
  BY <1>4 DEF Connection
<1>6. /\ PopEvent(k).valid = k.valid /\ PopEvent(k).recvMsgQueue = k.recvMsgQueue
      /\ Single(PopEvent(k).recvMsgEvents) /\ ToSet(PopEvent(k).recvMsgEvents) = ToSet(k.recvMsgEvents) \ F
  BY <1>4, PopFacts, PopSingle
<1>7. readEventId \in Nat /\ readEventId' >= readEventId /\ readEventId' \in Nat
  BY <1>1 DEF LibraryTypeOK
<1> HIDE DEF j
<1>8. PICK W, done, missed :
        /\ W \subseteq At("waiting") /\ done = {t} /\ th' = After(W, done, missed)
        /\ k.recvMsgQueue = 0 /\ k.valid => Robbed(F, W) \subseteq missed
        /\ ~k.valid \/ k.recvMsgQueue > 0 => W = {} /\ missed = {}
  <2>1. CASE th' = After({}, {t}, {}) /\ (~k.valid \/ k.recvMsgQueue > 0)
    BY <1>4, <2>1
  <2>2. CASE k.valid /\ k.recvMsgQueue = 0
    <3>3. ~(k.recvMsgQueue > 0)
      BY <2>2
    <3>4. \E W \in SetEvents(H) : th' = After(W, {t}, Robbed(F, W))
      BY <1>3, <2>2, <3>3, Zenon
    <3>1. PICK W \in SetEvents(H) : th' = After(W, {t}, Robbed(F, W))
      BY <3>4
    <3>2. W \subseteq At("waiting")
      BY Woken
    <3> QED
      BY <2>2, <3>1, <3>2
  <2> QED
    BY <1>3, <1>4, <2>1, <2>2
<1>9. ASSUME NEW u \in Threads
      PROVE  /\ u = t => th'[u] = Idle
             /\ u # t => Woke(u)
             /\ u \in W \ {t} => th'[u].at = "woken"
             /\ u \notin W \cup {t} => th'[u].at = th[u].at /\ (th'[u].missed <=> th[u].missed \/ u \in missed)
  <2>1. /\ u \in done => th'[u] = Idle
        /\ u \notin done => Woke(u)
        /\ u \in W \ done => th'[u].at = "woken"
        /\ u \notin W \cup done => th'[u].at = th[u].at /\ (th'[u].missed <=> th[u].missed \/ u \in missed)
    <3>1. W \subseteq At("waiting") /\ th' = After(W, done, missed)
      BY <1>8
    <3> QED
      BY <3>1, AfterEffect
  <2>2. done = {t}
    BY <1>8
  <2> QED
    BY <2>1, <2>2
<1>10. /\ \A b \in Clients \ {c} : connections'[b] = connections[b]
       /\ connections'[c].valid = k.valid /\ Single(connections'[c].recvMsgEvents)
       /\ k.valid /\ k.recvMsgQueue = 0 => /\ connections'[c].recvMsgQueue = 0
                                           /\ ToSet(connections'[c].recvMsgEvents) = ToSet(k.recvMsgEvents) \ F
       /\ k.valid /\ k.recvMsgQueue > 0 => /\ connections'[c].recvMsgQueue = k.recvMsgQueue - 1
                                           /\ ToSet(connections'[c].recvMsgEvents) = ToSet(k.recvMsgEvents)
       /\ ~k.valid => connections'[c] = k
  BY <1>3, <1>4, <1>5, <1>6
<1>11. /\ \A b \in Clients : Listing(b)' \subseteq Listing(b)
       /\ \A b \in Clients \ {c} : Listing(b)' = Listing(b)
       /\ Listing(c)' = Listing(c) \/ (k.valid /\ k.recvMsgQueue = 0 /\ Listing(c)' = Listing(c) \ F)
  <2>1. Listing(c)' = Listing(c) \/ (k.valid /\ k.recvMsgQueue = 0 /\ Listing(c)' = Listing(c) \ F)
    BY <1>4, <1>10 DEF Listing
  <2>2. \A b \in Clients \ {c} : Listing(b)' = Listing(b)
    BY <1>10 DEF Listing
  <2> QED
    BY <2>1, <2>2
<1>12. ASSUME NEW u \in Threads PROVE ReaderOK(u)'
  <2>1. CASE u = t
    BY <1>9, <2>1, NoReader
  <2>2. CASE u # t
    <3>1. PICK b \in Clients : b = th[u].c
      BY ThreadTypes
    <3>2. ReaderOK(u)
      BY DEF AwakeInv
    <3>3. connections'[b].valid = connections[b].valid
      BY <1>10
    <3>4. \/ connections'[b].recvMsgQueue = connections[b].recvMsgQueue
          \/ th[u].at \in {"window", "named"} => th'[u].missed
      <4>1. CASE b = c /\ k.valid /\ k.recvMsgQueue > 0 /\ th[u].at \in {"window", "named"}
        <5>1. th[u].missed
          BY <3>1, <3>2, <4>1 DEF ReaderOK
        <5> QED
          BY <1>9, <2>2, <5>1 DEF Woke
      <4> QED
        BY <1>4, <1>10, <4>1
    <3>5. \/ [by |-> u, ev |-> th[u].id] \in Listing(b) => [by |-> u, ev |-> th[u].id] \in Listing(b)'
          \/ th'[u].at = "waiting" /\ th[u].op = "read" => th'[u].missed
      <4> DEFINE g == [by |-> u, ev |-> th[u].id]
      <4>1. CASE b # c \/ Listing(c)' = Listing(c) \/ g \notin F
        BY <1>11, <4>1
      <4>2. CASE /\ b = c /\ k.valid /\ k.recvMsgQueue = 0 /\ g \in F
                 /\ th'[u].at = "waiting" /\ th[u].op = "read"
        <5>1. th[u].at = "waiting" /\ u \notin W
          BY <1>9, <2>2, <4>2 DEF Woke
        <5>2. u \in Readers /\ IsOpen(g) /\ g.by = u
          BY <4>2, <5>1 DEF Readers, At, IsOpen
        <5>3. u \in missed
          BY <1>8, <4>2, <5>1, <5>2 DEF Robbed
        <5> QED
          BY <1>9, <2>2, <5>1, <5>3
      <4> QED
        BY <1>11, <4>1, <4>2
    <3> QED
      BY <1>7, <1>9, <2>2, <3>1, <3>2, <3>3, <3>4, <3>5, WokeReader
  <2> QED
    BY <2>1, <2>2
<1>13. th'[t].at = "idle" /\ th'[t].op # "read"
  BY <1>9 DEF Idle
<1>14. ASSUME NEW b \in Clients PROVE HandlesOK(b)'
  <2>1. HandlesOK(b)
    BY DEF AwakeInv
  <2>2. Single(connections'[b].recvMsgEvents)
    BY <1>10, <2>1 DEF HandlesOK
  <2> QED
    BY <1>7, <1>9, <1>11, <1>12, <1>13, <2>1, <2>2, HandlesKept
<1>15. ASSUME NEW b \in Clients \ {c} PROVE Counted(b)' => Due(b)'
  <2>1. Counted(b) => Due(b)
    BY DEF AwakeInv
  <2>2. \A u \in Threads : Woke(u) \/ Apart(u, b)
    BY <1>2, <1>9, <1>13 DEF Apart
  <2> QED
    BY <1>10, <1>11, <2>1, <2>2, SleepersKept
<1>16. ASSUME Counted(c)' PROVE Due(c)'
  <2>1. PICK u \in Threads : th'[u].at = "waiting" /\ th'[u].op = "read" /\ th'[u].c = c /\ ~th'[u].missed
    BY <1>16 DEF Counted
  <2>2. th[u].at = "waiting" /\ th[u].op = "read" /\ th[u].c = c /\ ~th[u].missed
    BY <1>9, <1>13, <2>1 DEF Woke
  <2>3. k.valid /\ Due(c)
    BY <2>2 DEF AwakeInv, ReaderOK, Counted
  <2>4. CASE k.recvMsgQueue = 0
    BY <1>10, <2>3, <2>4, DueEmpty
  <2>5. CASE k.recvMsgQueue > 0
    <3>1. PICK e \in Nat : e = th[t].id
      BY ThreadTypes
    <3>2. t \in OnEvent(c, e)
      BY <1>1, <1>2, <3>1 DEF OnEvent
    <3>3. \A v \in Threads \ {t} : th'[v].at = th[v].at /\ th'[v].op = th[v].op /\ th'[v].c = th[v].c
                                     /\ th'[v].id = th[v].id
      BY <1>8, <1>9, <2>5 DEF Woke
    <3>4. Listing(c)' = Listing(c) /\ connections'[c].recvMsgQueue = connections[c].recvMsgQueue - 1
      BY <1>10, <1>11, <2>3, <2>5
    <3> QED
      BY <1>1, <1>13, <2>3, <2>5, <3>2, <3>3, <3>4, TakesDue
  <2> QED
    BY <1>4, <2>4, <2>5
<1> QED
  BY <1>12, <1>14, <1>15, <1>16 DEF AwakeInv

LEMMA AwakeAtFirst == LibraryInit => AwakeInv
<1> SUFFICES ASSUME LibraryInit PROVE AwakeInv
  OBVIOUS
<1>1. connections = [c \in Clients |-> NoConnection] /\ th = [t \in Threads |-> Idle]
  BY DEF LibraryInit
<1>2. \A t \in Threads : ReaderOK(t)
  BY <1>1 DEF ReaderOK, Idle
<1>3. ASSUME NEW c \in Clients PROVE HandlesOK(c) /\ ~Counted(c)
  <2>1. connections[c].recvMsgEvents = <<>>
    BY <1>1 DEF NoConnection
  <2>2. Listing(c) = {} /\ DOMAIN connections[c].recvMsgEvents = {}
    BY <2>1 DEF Listing, ToSet
  <2>3. HandlesOK(c)
    BY <2>2 DEF HandlesOK, Single
  <2>4. ~Counted(c)
    BY <1>1 DEF Counted, Idle
  <2> QED
    BY <2>3, <2>4
<1> QED
  BY <1>2, <1>3 DEF AwakeInv

LEMMA AwakeStays == IdsInv /\ AwakeInv /\ [LibraryNext]_libraryVars => AwakeInv'
<1> SUFFICES ASSUME IdsInv, AwakeInv, [LibraryNext]_libraryVars PROVE AwakeInv'
  OBVIOUS
<1>1. LibraryTypeOK /\ OwnQueries
  BY DEF IdsInv
<1>2. CASE UNCHANGED libraryVars
  BY <1>1, <1>2, OutcomesAwake
<1>3. PICK c0 : c0 \in Clients
  BY LibraryAssumption
<1>4. CASE LibraryNext
  <2>1. CASE \E t \in Threads : ClientConnect(t) \/ Goes(t) \/ WaitTimesOut(t)
    <3>1. PICK t \in Threads : ClientConnect(t) \/ Goes(t) \/ WaitTimesOut(t)
      BY <2>1
    <3>2. \/ ClientConnect(t) \/ StatusResumes(t)
          \/ SendAgain(t) \/ QueryFails(t) \/ ReadReturns(t) \/ SendReturns(t)
          \/ GetReadEvent(t) \/ WaitForMessage(t) \/ WaitTimesOut(t)
      BY <3>1 DEF Goes
    <3>3. CASE ClientConnect(t) \/ StatusResumes(t)
      BY <1>1, <1>3, <3>3, QueriesAwake
    <3>4. CASE SendAgain(t) \/ QueryFails(t) \/ WaitTimesOut(t) \/ SendReturns(t)
      BY <1>1, <1>3, <3>4, WaitersAwake
    <3>5. CASE ReadReturns(t)
      BY <1>1, <3>5, ReturnsAwake
    <3>6. CASE GetReadEvent(t)
      BY <1>1, <3>6, NamesAwake
    <3>7. CASE WaitForMessage(t)
      BY <1>1, <3>7, WaitsAwake
    <3> QED
      BY <3>2, <3>3, <3>4, <3>5, <3>6, <3>7
  <2>2. CASE \E t \in Threads, c \in Clients :
               \/ ClientDisconnect(t, c) \/ ReadMessage(t, c)
               \/ GetHardwareStatus(t, c) \/ AddGetHWStatusNotify(t, c)
               \/ \E op \in Blocking \cup {"notify"} : SendMessage(t, c, op)
    <3>1. PICK t \in Threads, c \in Clients :
               \/ ClientDisconnect(t, c) \/ ReadMessage(t, c)
               \/ GetHardwareStatus(t, c) \/ AddGetHWStatusNotify(t, c)
               \/ \E op \in Blocking \cup {"notify"} : SendMessage(t, c, op)
      BY <2>2
    <3>2. CASE ClientDisconnect(t, c) \/ GetHardwareStatus(t, c)
                 \/ \E op \in Blocking \cup {"notify"} : SendMessage(t, c, op)
      BY <1>1, <3>2, QueriesAwake DEF Sending
    <3>3. CASE ReadMessage(t, c)
      BY <1>1, <3>3, ReadsAwake
    <3>4. CASE AddGetHWStatusNotify(t, c)
      BY <1>1, <3>4, WaitersAwake
    <3> QED
      BY <3>1, <3>2, <3>3, <3>4
  <2>3. CASE DriverServes
    BY <1>1, <2>3, ServesAwake
  <2>6. CASE DriverRefuses
    BY <1>1, <2>6, RefusesAwake
  <2>4. CASE \/ DriverFreesId \/ DriverEnds \/ MisreadOutcome
             \/ \E p \in driver.pending, ok \in BOOLEAN : DriverReports(p, ok)
             \/ \E c \in driver.taken : DriverForwards(c)
    BY <1>1, <2>4, OutcomesAwake
  <2>5. CASE Listener
    <3>1. HearOutcome \/ HearMessage \/ ListenerGivesUp
      BY <2>5 DEF Listener
    <3>2. CASE HearOutcome
      BY <1>1, <3>2, OutcomesAwake
    <3>3. CASE HearMessage
      BY <1>1, <3>3, HearsAwake
    <3>4. CASE ListenerGivesUp
      BY <1>1, <3>4, GivesUpAwake
    <3> QED
      BY <3>1, <3>2, <3>3, <3>4
  <2> QED
    BY <1>4, <2>1, <2>2, <2>3, <2>4, <2>5, <2>6 DEF LibraryNext
<1> QED
  BY <1>2, <1>4

\* ReaderAwake: a reader that sleeps, and has not lost its wakeup to one of the
\* code's defects, never sleeps while more messages lie in its client's queue than
\* other readers are on their way to take: AddReadMsg, Clear and the readers that
\* return together wake enough of them.  Nor does a request for a connection's
\* status sleep once that has changed.
THEOREM ReadersAreWoken == LibrarySpec => []ReaderAwake
<1>1. IdsInv /\ AwakeInv => ReaderAwake
  <2> SUFFICES ASSUME IdsInv, AwakeInv, NEW t \in At("waiting")
               PROVE  /\ th[t].op = "read" /\ ~th[t].missed =>
                           connections[th[t].c].recvMsgQueue <=
                             Cardinality({u \in At("woken") : th[u].op = "read" /\ th[u].c = th[t].c})
                      /\ th[t].op = "status" => (th[t].id = 1 <=> connections[th[t].c].valid)
    BY DEF ReaderAwake
  <2>1. t \in Threads /\ th[t].at = "waiting" /\ ReaderOK(t) /\ LibraryTypeOK
    BY DEF At, AwakeInv, IdsInv
  <2>2. PICK c \in Clients : c = th[t].c
    BY <2>1, ThreadTypes
  <2>3. th[t].op = "status" => (th[t].id = 1 <=> connections[th[t].c].valid)
    BY <2>1 DEF ReaderOK
  <2>4. ASSUME th[t].op = "read", ~th[t].missed
        PROVE  connections[c].recvMsgQueue <= Cardinality(Roused(c))
    <3>1. Due(c)
      BY <2>1, <2>2, <2>4 DEF Counted, AwakeInv
    <3>2. PICK D \in SUBSET Roused(c) : Cardinality(D) = connections[c].recvMsgQueue
      BY <3>1 DEF Due
    <3>3. IsFiniteSet(Roused(c))
      BY <2>1, EventTypes
    <3> QED
      BY <3>2, <3>3, FS_Subset
  <2>5. Roused(c) = {u \in At("woken") : th[u].op = "read" /\ th[u].c = th[t].c}
    BY <2>2 DEF Roused, At
  <2> QED
    BY <2>2, <2>3, <2>4, <2>5
<1>2. LibraryInit => IdsInv /\ AwakeInv
  BY IdsAtFirst, AwakeAtFirst
<1>3. IdsInv /\ AwakeInv /\ [LibraryNext]_libraryVars => (IdsInv /\ AwakeInv)'
  BY IdsStay, AwakeStays
<1> QED
  BY <1>1, <1>2, <1>3, PTL DEF LibrarySpec

(***************************************************************************)
(* What the application is told of its sends.                              *)
(***************************************************************************)
\* A thread that sends; the send m with which a thread or a transaction still is.
Sender(t) == th[t].op \in Sending
Awaits(t) == th[t].at \in {"waiting", "woken"} /\ th[t].op \in Blocking
Txs(c) == connections[c].transactions
Unanswered(m) == m \in Sends /\ m > allowance["send"] /\ told[m] = <<>>

\* A send is in one place at most, and in none once it was answered for.
WhereInv ==
  /\ told \in [Sends -> Seq(BOOLEAN)]
  /\ \A m \in Sends : Len(told[m]) <= 1
  /\ \A m \in 1 .. allowance["send"] : m \in Sends /\ told[m] = <<>>
  /\ \A t \in Threads : Sender(t) => Unanswered(th[t].m)
  /\ \A t, u \in Threads : Sender(t) /\ Sender(u) /\ th[t].m = th[u].m => t = u
  /\ \A c \in Clients : \A i \in Notifications(c) : Unanswered(Txs(c)[i].m)
  /\ \A c \in Clients : \A i \in Notifications(c) : \A t \in Threads :
       Sender(t) => th[t].m # Txs(c)[i].m
  /\ \A b, c \in Clients : \A i \in Notifications(b), j \in Notifications(c) :
       Txs(b)[i].m = Txs(c)[j].m => b = c /\ i = j

\* What the driver will say of sends, or has said and was not heard.
Promise(x) == [c |-> x.c, notify |-> x.notify, id |-> x.id, m |-> x.m]
Announced(l) == {Promise(l[i]) : i \in {j \in DOMAIN l : l[j].kind = "outcome"}}
Coming == Announced(toListener) \cup driver.pending

\* Connections of which there is no more, or no more than a query.
LifeInv ==
  /\ ~driver.up => driver.pending = {} /\ driver.taken = {}
  /\ ~linked => toListener = <<>> /\ \A c \in Clients : ~connections[c].valid
  /\ \A c \in Clients : ~connections[c].valid => Notifications(c) = {}
  /\ \A t \in At("query") : Sender(t) => connections[th[t].c].valid
  /\ \A t \in At("query") : \A i \in DOMAIN toDriver :
       IsQuery(toDriver[i]) /\ toDriver[i].own => toDriver[i].c = th[t].c /\ toDriver[i].m = th[t].m

\* The transactions s of client c, with these promises, defects and messages on
\* the bus: a promise for a transaction's id is for its message.
Matching(s, c, promises, defects) ==
  \A i \in DOMAIN s : \A p \in promises :
    p.c = c /\ p.notify = s[i].notify /\ p.id = s[i].id =>
      p.m = s[i].m \/ (s[i].notify /\ <<s[i].m, "reused">> \in defects)
Distinct(s) == \A i, j \in DOMAIN s : ~s[i].notify /\ ~s[j].notify /\ s[i].id = s[j].id => i = j
Transmitted(s, sent) == \A i \in DOMAIN s : ~s[i].notify /\ s[i].code = "ok" => s[i].m \in sent
UpTo(s, n) == \A i \in DOMAIN s : ~s[i].notify => s[i].id <= n

ListOK(c) ==
  connections[c].valid =>
    /\ Matching(Txs(c), c, Coming, spoilt) /\ Distinct(Txs(c)) /\ Transmitted(Txs(c), bus)
    /\ driver.up => UpTo(Txs(c), driver.block)

Excused(m) == Met(m, {"timeout", "reconnect", "reused"})

\* Where thread t, whose send met no defect, finds its transaction.
Mine(t, s) ==
  {i \in DOMAIN s : /\ ~s[i].notify /\ s[i].id = th[t].id /\ s[i].m = th[t].m
                    /\ th[t].at = "woken" \/ th[t].op = "claim" => s[i].code # "uninitialised"}
Clean(t) == Awaits(t) /\ connections[th[t].c].valid /\ ~Excused(th[t].m)
CleanOK(t) ==
  Clean(t) =>
    /\ Mine(t, Txs(th[t].c)) # {}
    /\ \A u \in Threads : Awaits(u) /\ th[u].c = th[t].c /\ th[u].id = th[t].id => u = t

HeardTrue ==
  \A i \in DOMAIN toListener : toListener[i].kind = "outcome" /\ toListener[i].ok => toListener[i].m \in bus

TrueInv ==
  /\ HeardTrue
  /\ \A m \in Sends : TRUE \in ToSet(told[m]) => m \in bus \/ Excused(m)
  /\ driver.up => \A p \in Coming : ~p.notify => p.id <= driver.block
  /\ \A c \in Clients : ListOK(c)
  /\ \A t \in Threads : CleanOK(t)
ToldInv == WhereInv /\ LifeInv /\ (Confused \/ TrueInv)

(***************************************************************************)
(* Lists of transactions, and what was announced.                          *)
(***************************************************************************)
\* The transactions r are some of s, but for their codes.
Within(r, s) ==
  \E f \in [DOMAIN r -> DOMAIN s] :
    /\ \A i, j \in DOMAIN r : f[i] = f[j] => i = j
    /\ \A i \in DOMAIN r : r[i].notify = s[f[i]].notify /\ r[i].id = s[f[i]].id /\ r[i].m = s[f[i]].m

LEMMA WithinSame ==
  ASSUME NEW s
  PROVE  Within(s, s)
<1> DEFINE f == [i \in DOMAIN s |-> i]
<1>1. f \in [DOMAIN s -> DOMAIN s] /\ \A i \in DOMAIN s : f[i] = i
  OBVIOUS
<1> HIDE DEF f
<1>2. \A i, j \in DOMAIN s : f[i] = f[j] => i = j
  BY <1>1
<1>3. \A i \in DOMAIN s : s[i].notify = s[f[i]].notify /\ s[i].id = s[f[i]].id /\ s[i].m = s[f[i]].m
  BY <1>1
<1> QED
  BY <1>1, <1>2, <1>3 DEF Within

LEMMA WithinRemoved ==
  ASSUME NEW s \in Seq(Transactions), NEW i \in DOMAIN s
  PROVE  /\ Within(RemoveAt(s, i), s)
         /\ \A j \in DOMAIN RemoveAt(s, i) : \E k \in DOMAIN s \ {i} : RemoveAt(s, i)[j] = s[k]
         /\ \A k \in DOMAIN s \ {i} : \E j \in DOMAIN RemoveAt(s, i) : RemoveAt(s, i)[j] = s[k]
<1> DEFINE r == RemoveAt(s, i)
           f == [j \in DOMAIN r |-> IF j < i THEN j ELSE j + 1]
<1>1. Len(s) \in Nat /\ DOMAIN s = 1 .. Len(s) /\ i \in 1 .. Len(s)
  BY LenProperties
<1>2. /\ r \in Seq(Transactions) /\ Len(r) = Len(s) - 1
      /\ \A j \in 1 .. Len(s) - 1 : r[j] = s[IF j < i THEN j ELSE j + 1]
  BY <1>1, RemoveAtFacts
<1>3. DOMAIN r = 1 .. Len(s) - 1
  BY <1>2, LenProperties
<1> HIDE DEF r
<1>4. ASSUME NEW j \in DOMAIN r PROVE f[j] \in DOMAIN s \ {i} /\ r[j] = s[f[j]]
  <2>1. f[j] = IF j < i THEN j ELSE j + 1
    OBVIOUS
  <2>2. r[j] = s[f[j]]
    BY <1>2, <1>3, <2>1
  <2> QED
    BY <1>1, <1>3, <2>1, <2>2
<1>5. \A j, k \in DOMAIN r : f[j] = f[k] => j = k
  BY <1>1, <1>3
<1>6. ASSUME NEW k \in DOMAIN s \ {i} PROVE \E j \in DOMAIN r : f[j] = k
  <2>1. CASE k < i
    <3>1. k \in DOMAIN r
      BY <1>1, <1>3, <2>1
    <3> QED
      BY <2>1, <3>1
  <2>2. CASE k > i
    <3>1. k - 1 \in DOMAIN r /\ ~(k - 1 < i) /\ (k - 1) + 1 = k
      BY <1>1, <1>3, <2>2
    <3> QED
      BY <3>1
  <2> QED
    BY <1>1, <2>1, <2>2
<1>7. f \in [DOMAIN r -> DOMAIN s]
  BY <1>4
<1> HIDE DEF f
<1>8. Within(r, s)
  BY <1>4, <1>5, <1>7 DEF Within
<1>9. \A j \in DOMAIN r : \E k \in DOMAIN s \ {i} : r[j] = s[k]
  BY <1>4
<1>10. \A k \in DOMAIN s \ {i} : \E j \in DOMAIN r : r[j] = s[k]
  BY <1>4, <1>6
<1> QED
  BY <1>8, <1>9, <1>10 DEF r

LEMMA ListWithin ==
  ASSUME NEW r, NEW s, Within(r, s), NEW c, NEW P, NEW D
  PROVE  /\ Matching(s, c, P, D) => Matching(r, c, P, D)
         /\ Distinct(s) => Distinct(r)
         /\ \A n : UpTo(s, n) => UpTo(r, n)
<1>1. PICK f \in [DOMAIN r -> DOMAIN s] :
         /\ \A i, j \in DOMAIN r : f[i] = f[j] => i = j
         /\ \A i \in DOMAIN r : r[i].notify = s[f[i]].notify /\ r[i].id = s[f[i]].id /\ r[i].m = s[f[i]].m
  BY DEF Within
<1>2. \A i \in DOMAIN r : f[i] \in DOMAIN s
  BY <1>1
<1>3. Matching(s, c, P, D) => Matching(r, c, P, D)
  BY <1>1, <1>2 DEF Matching
<1>4. Distinct(s) => Distinct(r)
  BY <1>1, <1>2 DEF Distinct
<1>5. \A n : UpTo(s, n) => UpTo(r, n)
  BY <1>1, <1>2 DEF UpTo
<1> QED
  BY <1>3, <1>4, <1>5

LEMMA MatchingFewer ==
  ASSUME NEW s, NEW c, NEW P, NEW D, Matching(s, c, P, D), NEW Q, Q \subseteq P, NEW E, D \subseteq E
  PROVE  Matching(s, c, Q, E)
BY DEF Matching

LEMMA AnnouncedFacts ==
  ASSUME NEW l \in Seq(News)
  PROVE  /\ Announced(l) \subseteq Promises
         /\ l # <<>> => Announced(Tail(l)) \subseteq Announced(l)
         /\ \A x \in News : Announced(Append(l, x)) =
              Announced(l) \cup (IF x.kind = "outcome" THEN {Promise(x)} ELSE {})
         /\ l # <<>> /\ Head(l).kind = "outcome" => Promise(Head(l)) \in Announced(l)
<1>1. Len(l) \in Nat /\ DOMAIN l = 1 .. Len(l) /\ \A i \in DOMAIN l : l[i] \in News
  BY LenProperties, ElementOfSeq
<1>2. \A x \in News : x.kind = "outcome" => Promise(x) \in Promises
  BY DEF News, Outcomes, Promise, Promises
<1>3. Announced(l) \subseteq Promises
  BY <1>1, <1>2 DEF Announced
<1>4. l # <<>> => Announced(Tail(l)) \subseteq Announced(l)
  <2>1. l # <<>> => \A i \in DOMAIN Tail(l) : \E j \in DOMAIN l : Tail(l)[i] = l[j]
    BY TailIsPart
  <2> QED
    BY <2>1 DEF Announced
<1>5. ASSUME NEW x \in News
      PROVE  Announced(Append(l, x)) = Announced(l) \cup (IF x.kind = "outcome" THEN {Promise(x)} ELSE {})
  <2> DEFINE a == Append(l, x)
  <2>1. /\ a \in Seq(News) /\ Len(a) = Len(l) + 1 /\ a[Len(l) + 1] = x
        /\ \A i \in 1 .. Len(l) : a[i] = l[i]
    BY AppendProperties
  <2>2. DOMAIN a = 1 .. Len(l) + 1
    BY <2>1, LenProperties
  <2> HIDE DEF a
  <2>3. \A i : i \in DOMAIN a <=> i \in DOMAIN l \/ i = Len(l) + 1
    BY <1>1, <2>2
  <2>4. \A i \in DOMAIN l : a[i] = l[i]
    BY <1>1, <2>1
  <2>5. \A y : y \in Announced(a) <=> y \in Announced(l) \/ (x.kind = "outcome" /\ y = Promise(x))
    BY <2>1, <2>3, <2>4 DEF Announced
  <2> QED
    BY <2>5 DEF a
<1>6. l # <<>> /\ Head(l).kind = "outcome" => Promise(Head(l)) \in Announced(l)
  <2>1. l # <<>> => 1 \in DOMAIN l /\ Head(l) = l[1]
    BY <1>1, EmptySeq
  <2> QED
    BY <2>1 DEF Announced
<1> QED
  BY <1>3, <1>4, <1>5, <1>6

\* As TailIsPart, for a list that is appended to another.
LEMMA AnnouncedConcat ==
  ASSUME NEW l \in Seq(News), NEW e \in Seq(News)
  PROVE  /\ Announced(l \o e) \subseteq Announced(l) \cup Announced(e)
         /\ \A i \in DOMAIN (l \o e) :
              (\E j \in DOMAIN l : (l \o e)[i] = l[j]) \/ (\E j \in DOMAIN e : (l \o e)[i] = e[j])
<1> DEFINE a == l \o e
<1>1. /\ a \in Seq(News) /\ Len(a) = Len(l) + Len(e)
      /\ \A i \in 1 .. Len(l) + Len(e) : a[i] = IF i <= Len(l) THEN l[i] ELSE e[i - Len(l)]
  BY ConcatProperties
<1> HIDE DEF a
<1>2. /\ DOMAIN a = 1 .. Len(l) + Len(e) /\ DOMAIN l = 1 .. Len(l) /\ DOMAIN e = 1 .. Len(e)
      /\ Len(l) \in Nat /\ Len(e) \in Nat
  BY <1>1, LenProperties
<1>3. ASSUME NEW i \in DOMAIN a
      PROVE  (\E j \in DOMAIN l : a[i] = l[j]) \/ (\E j \in DOMAIN e : a[i] = e[j])
  <2>1. CASE i <= Len(l)
    <3>1. i \in DOMAIN l /\ a[i] = l[i]
      BY <1>1, <1>2, <2>1
    <3> QED
      BY <3>1
  <2>2. CASE ~(i <= Len(l))
    <3>1. i - Len(l) \in DOMAIN e /\ a[i] = e[i - Len(l)]
      BY <1>1, <1>2, <2>2
    <3> QED
      BY <3>1
  <2> QED
    BY <2>1, <2>2
<1>4. Announced(a) \subseteq Announced(l) \cup Announced(e)
  BY <1>3 DEF Announced
<1> QED
  BY <1>3, <1>4 DEF a

(***************************************************************************)
(* Where a send is.                                                        *)
(***************************************************************************)
\* Notifications of a connection whose transactions are some of those it had.
LEMMA NotesWithin ==
  ASSUME NEW c \in Clients, Within(Txs(c)', Txs(c))
  PROVE  \E f \in [Notifications(c)' -> Notifications(c)] :
           /\ \A i, j \in Notifications(c)' : f[i] = f[j] => i = j
           /\ \A i \in Notifications(c)' : Txs(c)'[i].m = Txs(c)[f[i]].m
<1>1. PICK g \in [DOMAIN Txs(c)' -> DOMAIN Txs(c)] :
         /\ \A i, j \in DOMAIN Txs(c)' : g[i] = g[j] => i = j
         /\ \A i \in DOMAIN Txs(c)' : /\ Txs(c)'[i].notify = Txs(c)[g[i]].notify
                                      /\ Txs(c)'[i].id = Txs(c)[g[i]].id /\ Txs(c)'[i].m = Txs(c)[g[i]].m
  BY DEF Within
<1>2. \A i : i \in Notifications(c)' <=> i \in DOMAIN Txs(c)' /\ Txs(c)'[i].notify
  BY DEF Notifications, Txs
<1>3. \A i : i \in Notifications(c) <=> i \in DOMAIN Txs(c) /\ Txs(c)[i].notify
  BY DEF Notifications, Txs
<1> DEFINE f == [i \in Notifications(c)' |-> g[i]]
<1>4. \A i \in Notifications(c)' : f[i] = g[i] /\ g[i] \in Notifications(c)
  BY <1>1, <1>2, <1>3
<1>5. f \in [Notifications(c)' -> Notifications(c)]
  BY <1>4
<1> HIDE DEF f
<1>6. \A i, j \in Notifications(c)' : f[i] = f[j] => i = j
  BY <1>1, <1>2, <1>4
<1>7. \A i \in Notifications(c)' : Txs(c)'[i].m = Txs(c)[f[i]].m
  BY <1>1, <1>2, <1>4
<1> QED
  BY <1>5, <1>6, <1>7

\* The application is told of the sends ms, which are nowhere any more; the
\* others stay where they are, or their thread gives up.
LEMMA WhereStep ==
  ASSUME LibraryTypeOK, WhereInv, allowance'["send"] = allowance["send"],
         NEW ms, NEW ok \in BOOLEAN, \A m \in ms : Unanswered(m),
         Tell(ms, ok) \/ (ms = {} /\ told' = told),
         \A t \in Threads : Sender(t)' => Sender(t) /\ th'[t].m = th[t].m /\ th'[t].m \notin ms,
         \A c \in Clients : Notifications(c)' = {} \/ Within(Txs(c)', Txs(c)),
         \A c \in Clients : \A i \in Notifications(c)' : Txs(c)'[i].m \notin ms
  PROVE  WhereInv'
<1>1. told \in [Sends -> Seq(BOOLEAN)]
  BY DEF WhereInv
<1>2. \A m \in Sends : told'[m] = IF m \in ms THEN Append(told[m], ok) ELSE told[m]
  BY <1>1 DEF Tell
<1>3. told' \in [Sends -> Seq(BOOLEAN)]
  <2>1. CASE Tell(ms, ok)
    <3>1. \A m \in Sends : Append(told[m], ok) \in Seq(BOOLEAN)
      BY <1>1, AppendProperties
    <3> QED
      BY <1>1, <2>1, <3>1 DEF Tell
  <2> QED
    BY <1>1, <2>1
<1>4. \A m \in Sends : Len(told'[m]) <= 1
  <2>1. TAKE m \in Sends
  <2>2. CASE m \in ms
    <3>1. told[m] = <<>> /\ told'[m] = Append(told[m], ok)
      BY <1>2, <2>2 DEF Unanswered
    <3>2. Len(Append(told[m], ok)) = Len(told[m]) + 1 /\ Len(told[m]) = 0
      BY <1>1, <3>1, AppendProperties
    <3> QED
      BY <3>1, <3>2
  <2> QED
    BY <1>2, <2>2 DEF WhereInv
<1>5. \A m : m \notin ms => (Unanswered(m)' <=> Unanswered(m))
  BY <1>2 DEF Unanswered
<1>6. \A m \in 1 .. allowance'["send"] : m \in Sends /\ told'[m] = <<>>
  <2>1. ASSUME NEW m \in 1 .. allowance'["send"] PROVE m \in Sends /\ told'[m] = <<>>
    <3>1. m \in 1 .. allowance["send"] /\ m \in Sends /\ told[m] = <<>>
      BY <2>1 DEF WhereInv
    <3>2. allowance["send"] \in Nat
      BY DEF LibraryTypeOK, Limited
    <3>3. ~Unanswered(m)
      BY <3>1, <3>2 DEF Unanswered
    <3> QED
      BY <1>2, <3>1, <3>3
  <2> QED
    BY <2>1
<1>7. ASSUME NEW c \in Clients
      PROVE  \E f \in [Notifications(c)' -> Notifications(c)] :
               /\ \A i, j \in Notifications(c)' : f[i] = f[j] => i = j
               /\ \A i \in Notifications(c)' : Txs(c)'[i].m = Txs(c)[f[i]].m
  <2>1. CASE Notifications(c)' = {}
    <3> DEFINE f == [i \in Notifications(c)' |-> i]
    <3>1. f \in [Notifications(c)' -> Notifications(c)]
      BY <2>1
    <3> HIDE DEF f
    <3> QED
      BY <2>1, <3>1
  <2>2. CASE Within(Txs(c)', Txs(c))
    BY <2>2, NotesWithin
  <2> QED
    BY <2>1, <2>2
<1>8. \A c \in Clients : \A i \in Notifications(c)' :
        /\ \A m : m = Txs(c)'[i].m => Unanswered(m)'
        /\ \E j \in Notifications(c) : Txs(c)'[i].m = Txs(c)[j].m
  <2>1. ASSUME NEW c \in Clients, NEW i \in Notifications(c)'
        PROVE  /\ \A m : m = Txs(c)'[i].m => Unanswered(m)'
               /\ \E j \in Notifications(c) : Txs(c)'[i].m = Txs(c)[j].m
    <3>1. \E j \in Notifications(c) : Txs(c)'[i].m = Txs(c)[j].m
      BY <1>7, <2>1
    <3>2. Unanswered(Txs(c)'[i].m)
      BY <3>1 DEF WhereInv
    <3>3. PICK m : m = Txs(c)'[i].m
      OBVIOUS
    <3> QED
      BY <1>5, <2>1, <3>1, <3>2, <3>3
  <2> QED
    BY <2>1
<1>9. \A t \in Threads : Sender(t)' => \A m : m = th'[t].m => Unanswered(m)'
  <2>1. ASSUME NEW t \in Threads, Sender(t)' PROVE \A m : m = th'[t].m => Unanswered(m)'
    <3>1. PICK m : m = th'[t].m
      OBVIOUS
    <3>2. Unanswered(m) /\ m \notin ms
      BY <2>1, <3>1 DEF WhereInv
    <3> QED
      BY <1>5, <3>1, <3>2
  <2> QED
    BY <2>1
<1>10. \A t, u \in Threads : Sender(t)' /\ Sender(u)' /\ th'[t].m = th'[u].m => t = u
  BY DEF WhereInv
<1>11. \A c \in Clients : \A i \in Notifications(c)' : \A t \in Threads :
         Sender(t)' => th'[t].m # Txs(c)'[i].m
  BY <1>8 DEF WhereInv
<1>12. ASSUME NEW b \in Clients, NEW c \in Clients, NEW i \in Notifications(b)', NEW j \in Notifications(c)',
              Txs(b)'[i].m = Txs(c)'[j].m
       PROVE  b = c /\ i = j
  <2>1. b = c
    BY <1>8, <1>12 DEF WhereInv
  <2>2. PICK f \in [Notifications(c)' -> Notifications(c)] :
               /\ \A k, l \in Notifications(c)' : f[k] = f[l] => k = l
               /\ \A k \in Notifications(c)' : Txs(c)'[k].m = Txs(c)[f[k]].m
    BY <1>7
  <2>3. i \in Notifications(c)' /\ f[i] \in Notifications(c) /\ f[j] \in Notifications(c)
        /\ Txs(c)[f[i]].m = Txs(c)[f[j]].m
    BY <1>12, <2>1, <2>2
  <2>4. f[i] = f[j]
    BY <2>3 DEF WhereInv
  <2> QED
    BY <2>1, <2>2, <2>3, <2>4
<1> QED
  BY <1>3, <1>4, <1>6, <1>8, <1>9, <1>10, <1>11, <1>12 DEF WhereInv

LEMMA WhereQuiet ==
  ASSUME LibraryTypeOK, WhereInv, allowance'["send"] = allowance["send"], told' = told,
         \A t \in Threads : Sender(t)' => Sender(t) /\ th'[t].m = th[t].m,
         \A c \in Clients : Txs(c)' = Txs(c)
  PROVE  WhereInv'
<1>1. PICK ms, ok : ms = {} /\ ok \in BOOLEAN
  OBVIOUS
<1>2. \A c \in Clients : Within(Txs(c)', Txs(c))
  BY WithinSame
<1>3. /\ \A m \in ms : Unanswered(m)
      /\ \A t \in Threads : Sender(t)' => Sender(t) /\ th'[t].m = th[t].m /\ th'[t].m \notin ms
      /\ \A c \in Clients : \A i \in Notifications(c)' : Txs(c)'[i].m \notin ms
  BY <1>1
<1> QED
  BY <1>1, <1>2, <1>3, WhereStep

(***************************************************************************)
(* What is said of a send is true.                                         *)
(***************************************************************************)
\* A thread waits as it did, or not any more.
AwaitsStill(t) ==
  Awaits(t)' => /\ Awaits(t) /\ th'[t].op = th[t].op /\ th'[t].c = th[t].c
                /\ th'[t].m = th[t].m /\ th'[t].id = th[t].id

LEMMA ListStays ==
  ASSUME NEW c \in Clients, ListOK(c), Coming' \subseteq Coming, spoilt \subseteq spoilt',
         driver'.up => driver.up /\ driver'.block = driver.block,
         connections'[c].valid =>
           Txs(c)' = <<>> \/ (/\ connections[c].valid /\ Within(Txs(c)', Txs(c))
                              /\ Transmitted(Txs(c)', bus'))
  PROVE  ListOK(c)'
<1> SUFFICES ASSUME connections'[c].valid
             PROVE  /\ Matching(Txs(c)', c, Coming', spoilt') /\ Distinct(Txs(c)')
                    /\ Transmitted(Txs(c)', bus')
                    /\ driver'.up => UpTo(Txs(c)', driver'.block)
  BY DEF ListOK
<1>1. CASE Txs(c)' = <<>>
  <2>1. DOMAIN Txs(c)' = {}
    BY <1>1
  <2> QED
    BY <2>1 DEF Matching, Distinct, Transmitted, UpTo
<1>2. CASE connections[c].valid /\ Within(Txs(c)', Txs(c)) /\ Transmitted(Txs(c)', bus')
  <2>1. /\ Matching(Txs(c), c, Coming, spoilt) /\ Distinct(Txs(c))
        /\ driver.up => UpTo(Txs(c), driver.block)
    BY <1>2 DEF ListOK
  <2>2. /\ Matching(Txs(c)', c, Coming, spoilt) /\ Distinct(Txs(c)')
        /\ driver.up => UpTo(Txs(c)', driver.block)
    BY <1>2, <2>1, ListWithin
  <2>3. Matching(Txs(c)', c, Coming', spoilt')
    BY <2>2, MatchingFewer
  <2> QED
    BY <1>2, <2>2, <2>3
<1> QED
  BY <1>1, <1>2

LEMMA CleanStays ==
  ASSUME NEW t \in Threads, CleanOK(t), spoilt \subseteq spoilt', AwaitsStill(t),
         \A u \in Threads : Awaits(u)' /\ u # t /\ th'[u].c = th[t].c /\ th'[u].id = th[t].id =>
           Awaits(u) /\ th'[u].c = th[u].c /\ th'[u].id = th[u].id,
         NEW c, c = th[t].c,
         Awaits(t) /\ connections'[c].valid /\ ~Excused(th[t].m)' =>
           connections[c].valid /\ (Mine(t, Txs(c)) # {} => Mine(t, Txs(c))' # {})
  PROVE  CleanOK(t)'
<1> SUFFICES ASSUME Clean(t)'
             PROVE  /\ Mine(t, Txs(th[t].c))' # {}
                    /\ \A u \in Threads : Awaits(u)' /\ th'[u].c = th'[t].c /\ th'[u].id = th'[t].id => u = t
  BY DEF CleanOK
<1>1. Awaits(t)' /\ connections'[th'[t].c].valid /\ (\A m : m = th'[t].m => ~Excused(m)')
  BY DEF Clean, Excused, Met
<1>2. Awaits(t) /\ th'[t].op = th[t].op /\ th'[t].c = c /\ th'[t].m = th[t].m /\ th'[t].id = th[t].id
  BY <1>1 DEF AwaitsStill
<1>3. connections'[c].valid
  BY <1>1, <1>2
<1>4. ~Excused(th[t].m)' /\ ~Excused(th[t].m)
  <2>1. PICK m : m = th[t].m
    OBVIOUS
  <2>2. ~Excused(m)'
    BY <1>1, <1>2, <2>1
  <2>3. ~Excused(m)
    BY <2>2 DEF Excused, Met
  <2> QED
    BY <1>2, <2>1, <2>2, <2>3
<1>5. connections[c].valid /\ (Mine(t, Txs(c)) # {} => Mine(t, Txs(c))' # {})
  BY <1>2, <1>3, <1>4
<1>6. Clean(t)
  BY <1>2, <1>4, <1>5 DEF Clean
<1>7. /\ Mine(t, Txs(c)) # {}
      /\ \A u \in Threads : Awaits(u) /\ th[u].c = th[t].c /\ th[u].id = th[t].id => u = t
  BY <1>6 DEF CleanOK
<1>8. Mine(t, Txs(th[t].c))' = Mine(t, Txs(c))'
  BY <1>2 DEF Mine, Txs
<1> QED
  BY <1>2, <1>5, <1>7, <1>8

\* A thread that was woken by what leaves its transaction alone: its wait was
\* over, and the code of a claim is one that the outcome left or the default.
WokenSafely(t) ==
  th'[t].at = "woken" => th[t].at = "woken" \/ th[t].op = "claim" \/ Excused(th[t].m)'

LEMMA UpToMore ==
  ASSUME LibraryTypeOK, NEW c \in Clients, UpTo(Txs(c), driver.block), NEW n \in Nat, driver.block <= n
  PROVE  UpTo(Txs(c), n)
<1>1. \A i \in DOMAIN Txs(c) : Txs(c)[i] \in Transactions
  <2>1. connections[c] \in Connection
    BY DEF LibraryTypeOK
  <2>2. Txs(c) \in Seq(Transactions)
    BY <2>1 DEF Txs, Connection
  <2> QED
    BY <2>2, LenProperties, ElementOfSeq
<1>2. driver.block \in Nat /\ \A i \in DOMAIN Txs(c) : Txs(c)[i].id \in Nat
  BY <1>1 DEF Transactions, LibraryTypeOK, Driver
<1> QED
  BY <1>2 DEF UpTo

\* Steps that leave transactions and what was told alone.
LEMMA TrueQuiet ==
  ASSUME TrueInv, bus \subseteq bus', spoilt \subseteq spoilt', told' = told,
         Coming' \subseteq Coming, HeardTrue',
         \/ driver'.up => driver.up /\ driver'.block = driver.block
         \/ Coming' = {} /\ \A c \in Clients : ~connections'[c].valid
         \/ driver.up /\ driver'.block \in Nat /\ driver.block <= driver'.block,
         \A c \in Clients : connections'[c].valid = connections[c].valid /\ Txs(c)' = Txs(c),
         \A t \in Threads : AwaitsStill(t) /\ (Awaits(t)' => WokenSafely(t)),
         LibraryTypeOK
  PROVE  TrueInv'
<1>1. \A m \in Sends : TRUE \in ToSet(told'[m]) => m \in bus' \/ Excused(m)'
  <2>1. \A m : Excused(m) => Excused(m)'
    BY DEF Excused, Met
  <2> QED
    BY <2>1 DEF TrueInv
<1>2. driver'.up => \A p \in Coming' : ~p.notify => p.id <= driver'.block
  <2>1. \A p \in Coming : p.id \in Nat
    <3>1. Coming \subseteq Promises
      BY AnnouncedFacts DEF Coming, LibraryTypeOK, Driver
    <3> QED
      BY <3>1 DEF Promises
  <2>2. driver.block \in Nat
    BY DEF LibraryTypeOK, Driver
  <2> QED
    BY <2>1, <2>2 DEF TrueInv
<1>3. ASSUME NEW c \in Clients PROVE ListOK(c)'
  <2>1. CASE ~connections'[c].valid
    BY <2>1 DEF ListOK
  <2>3. CASE connections'[c].valid /\ driver.up /\ driver'.block \in Nat /\ driver.block <= driver'.block
    <3>1. connections[c].valid /\ Txs(c)' = Txs(c) /\ ListOK(c)
      BY <2>3 DEF TrueInv
    <3>2. UpTo(Txs(c), driver'.block)
      BY <2>3, <3>1, UpToMore DEF ListOK
    <3>3. Matching(Txs(c), c, Coming', spoilt')
      BY <3>1, MatchingFewer DEF ListOK
    <3>4. Distinct(Txs(c)) /\ Transmitted(Txs(c), bus')
      BY <3>1 DEF ListOK, Transmitted
    <3> QED
      BY <3>1, <3>2, <3>3, <3>4 DEF ListOK
  <2>2. CASE connections'[c].valid /\ ~(driver.up /\ driver'.block \in Nat /\ driver.block <= driver'.block)
    <3>1. driver'.up => driver.up /\ driver'.block = driver.block
      BY <2>2
    <3>2. connections[c].valid /\ Txs(c)' = Txs(c) /\ ListOK(c)
      BY <2>2 DEF TrueInv
    <3>3. Within(Txs(c)', Txs(c))
      BY <3>2, WithinSame
    <3>4. Transmitted(Txs(c)', bus')
      BY <3>2 DEF ListOK, Transmitted
    <3> QED
      BY <3>1, <3>2, <3>3, <3>4, ListStays
  <2> QED
    BY <2>1, <2>2, <2>3
<1>4. ASSUME NEW t \in Threads PROVE CleanOK(t)'
  <2>1. PICK c \in Clients : c = th[t].c
    BY ThreadTypes
  <2>2. CleanOK(t) /\ AwaitsStill(t)
    BY DEF TrueInv
  <2>3. \A u \in Threads : Awaits(u)' /\ u # t /\ th'[u].c = th[t].c /\ th'[u].id = th[t].id =>
           Awaits(u) /\ th'[u].c = th[u].c /\ th'[u].id = th[u].id
    BY DEF AwaitsStill
  <2>4. CASE ~Awaits(t)'
    BY <2>4 DEF CleanOK, Clean
  <2>5. CASE Awaits(t)'
    <3>1. /\ th'[t].op = th[t].op /\ th'[t].c = th[t].c /\ th'[t].m = th[t].m /\ th'[t].id = th[t].id
          /\ WokenSafely(t)
      BY <2>5 DEF AwaitsStill
    <3>2. ~Excused(th[t].m)' => Mine(t, Txs(c)) \subseteq Mine(t, Txs(c))'
      <4>1. Txs(c)' = Txs(c)
        BY <2>1
      <4>2. ~Excused(th[t].m)' => (th'[t].at = "woken" \/ th'[t].op = "claim" => th[t].at = "woken" \/ th[t].op = "claim")
        BY <3>1 DEF WokenSafely
      <4> QED
        BY <3>1, <4>1, <4>2 DEF Mine
    <3>3. Awaits(t) /\ connections'[c].valid /\ ~Excused(th[t].m)' =>
            connections[c].valid /\ (Mine(t, Txs(c)) # {} => Mine(t, Txs(c))' # {})
      BY <3>2
    <3> QED
      BY <2>1, <2>2, <2>3, <3>3, CleanStays
  <2> QED
    BY <2>4, <2>5
<1> QED
  BY <1>1, <1>2, <1>3, <1>4 DEF TrueInv

(***************************************************************************)
(* Steps that leave transactions alone.                                    *)
(***************************************************************************)
\* Thread t's send is where it was, over, or its wait is; and it asks no more
\* than it did.
SendStays(t) ==
  /\ th'[t].op \in Sending =>
       /\ th'[t].op = th[t].op /\ th'[t].c = th[t].c /\ th'[t].m = th[t].m /\ th'[t].id = th[t].id
       /\ th'[t].at = th[t].at \/ (th[t].at = "waiting" /\ th'[t].at = "woken")
  /\ th'[t].at = "query" =>
       th[t].at = "query" /\ th'[t].op = th[t].op /\ th'[t].c = th[t].c /\ th'[t].m = th[t].m

LEMMA SendStaysFacts ==
  ASSUME NEW t \in Threads, SendStays(t)
  PROVE  AwaitsStill(t) /\ (Sender(t)' => Sender(t) /\ th'[t].m = th[t].m)
BY DEF SendStays, AwaitsStill, Awaits, Sender, Sending

LEMMA LifeQuiet ==
  ASSUME LifeInv, ~driver'.up => driver'.pending = {} /\ driver'.taken = {},
         ~linked' => toListener' = <<>> /\ \A c \in Clients : ~connections'[c].valid,
         \A c \in Clients : ~connections'[c].valid => Notifications(c)' = {},
         \A t \in Threads : SendStays(t),
         \A t \in At("query") : connections[th[t].c].valid => connections'[th[t].c].valid,
         \A i \in DOMAIN toDriver' : IsQuery(toDriver'[i]) /\ toDriver'[i].own =>
           \E j \in DOMAIN toDriver : toDriver'[i] = toDriver[j]
  PROVE  LifeInv'
<1>1. \A t \in Threads : th'[t].at = "query" =>
         /\ t \in At("query") /\ th'[t].op = th[t].op /\ th'[t].c = th[t].c /\ th'[t].m = th[t].m
  BY DEF SendStays, At
<1>2. \A t \in At("query")' : t \in Threads /\ th'[t].at = "query"
  BY DEF At
<1>3. \A t \in At("query")' : Sender(t)' => connections'[th'[t].c].valid
  <2>1. TAKE t \in At("query")'
  <2>2. PICK c : c = th[t].c
    OBVIOUS
  <2>3. t \in At("query") /\ th'[t].op = th[t].op /\ th'[t].c = c
    BY <1>1, <1>2, <2>2
  <2>4. Sender(t) => connections[c].valid
    BY <2>2, <2>3 DEF LifeInv
  <2>5. connections[c].valid => connections'[c].valid
    BY <2>2, <2>3
  <2> QED
    BY <2>3, <2>4, <2>5 DEF Sender
<1>4. \A t \in At("query")' : \A i \in DOMAIN toDriver' :
        IsQuery(toDriver'[i]) /\ toDriver'[i].own => toDriver'[i].c = th'[t].c /\ toDriver'[i].m = th'[t].m
  BY <1>1, <1>2 DEF LifeInv
<1> QED
  BY <1>3, <1>4 DEF LifeInv

LEMMA SpoiltGrows ==
  ASSUME spoilt \subseteq spoilt', ~Confused'
  PROVE  ~Confused
BY DEF Confused

LEMMA ToldQuiet ==
  ASSUME LibraryTypeOK, ToldInv, told' = told, allowance'["send"] = allowance["send"],
         bus \subseteq bus', spoilt \subseteq spoilt', Coming' \subseteq Coming,
         HeardTrue => HeardTrue', linked' = linked, ~linked => toListener' = <<>>,
         ~driver'.up => driver'.pending = {} /\ driver'.taken = {},
         driver'.up => driver.up /\ driver'.block = driver.block,
         \A c \in Clients : connections'[c].valid = connections[c].valid /\ Txs(c)' = Txs(c),
         \A t \in Threads : SendStays(t) /\ (Awaits(t)' => WokenSafely(t)),
         \A i \in DOMAIN toDriver' : IsQuery(toDriver'[i]) /\ toDriver'[i].own =>
           \E j \in DOMAIN toDriver : toDriver'[i] = toDriver[j]
  PROVE  ToldInv'
<1>1. WhereInv /\ LifeInv /\ (~Confused => TrueInv)
  BY DEF ToldInv
<1>2. WhereInv'
  BY <1>1, SendStaysFacts, WhereQuiet
<1>3. LifeInv'
  <2>1. \A c \in Clients : Notifications(c)' = Notifications(c)
    BY DEF Notifications, Txs
  <2>2. ~linked' => toListener' = <<>> /\ \A c \in Clients : ~connections'[c].valid
    BY <1>1 DEF LifeInv
  <2>3. \A c \in Clients : ~connections'[c].valid => Notifications(c)' = {}
    BY <1>1, <2>1 DEF LifeInv
  <2>4. \A t \in At("query") : connections[th[t].c].valid => connections'[th[t].c].valid
    <3>1. TAKE t \in At("query")
    <3>2. PICK c \in Clients : c = th[t].c
      BY ThreadTypes DEF At
    <3> QED
      BY <3>2
  <2> QED
    BY <1>1, <2>2, <2>3, <2>4, LifeQuiet
<1>4. ASSUME ~Confused' PROVE TrueInv'
  <2>1. TrueInv
    BY <1>1, <1>4, SpoiltGrows
  <2>2. HeardTrue'
    BY <2>1 DEF TrueInv
  <2> QED
    BY <2>1, <2>2, SendStaysFacts, TrueQuiet
<1> QED
  BY <1>2, <1>3, <1>4 DEF ToldInv

\* Threads that are woken, return or miss something, and one that goes on.
LEMMA AfterSends ==
  ASSUME LibraryTypeOK, NEW W, W \subseteq At("waiting"), NEW done, NEW missed,
         th' = After(W, done, missed), NEW t \in Threads
  PROVE  /\ SendStays(t) /\ (t \in done => th'[t] = Idle)
         /\ t \notin done => /\ th'[t].op = th[t].op /\ th'[t].c = th[t].c
                             /\ th'[t].m = th[t].m /\ th'[t].id = th[t].id
         /\ t \in W \ done => th'[t].at = "woken"
         /\ t \notin W \cup done => th'[t].at = th[t].at
<1>1. th[t] \in Thread
  BY ThreadTypes
<1>2. CASE t \in done
  <2>1. th'[t] = Idle
    BY <1>2 DEF After
  <2> QED
    BY <1>2, <2>1 DEF Idle, SendStays, Sending, Blocking
<1>3. CASE t \in W \ done
  <2>1. th'[t] = [th[t] EXCEPT !.at = "woken"] /\ th[t].at = "waiting"
    BY <1>3 DEF After, At
  <2>2. /\ th'[t].at = "woken" /\ th'[t].op = th[t].op /\ th'[t].c = th[t].c
        /\ th'[t].id = th[t].id /\ th'[t].m = th[t].m
    BY <1>1, <2>1 DEF Thread
  <2> QED
    BY <1>3, <2>1, <2>2 DEF SendStays
<1>4. CASE t \notin done /\ t \notin W
  <2>1. th'[t] = [th[t] EXCEPT !.missed = @ \/ t \in missed]
    BY <1>4 DEF After
  <2>2. /\ th'[t].at = th[t].at /\ th'[t].op = th[t].op /\ th'[t].c = th[t].c
        /\ th'[t].id = th[t].id /\ th'[t].m = th[t].m
    BY <1>1, <2>1 DEF Thread
  <2> QED
    BY <1>4, <2>2 DEF SendStays
<1> QED
  BY <1>2, <1>3, <1>4

LEMMA NothingHappens ==
  ASSUME NEW t, th'[t] = th[t]
  PROVE  SendStays(t) /\ WokenSafely(t)
BY DEF SendStays, WokenSafely

LEMMA SpendsOther ==
  ASSUME LibraryTypeOK, NEW what \in Limited \ {"send"}, Spend(what)
  PROVE  allowance'["send"] = allowance["send"]
BY DEF Spend, LibraryTypeOK, Limited

LEMMA QueryFailsTold ==
  ASSUME IdsInv, ToldInv, NEW t \in Threads, QueryFails(t)
  PROVE  ToldInv'
<1>1. LibraryTypeOK
  BY DEF IdsInv
<1>2. /\ th' = [th EXCEPT ![t] = Idle]
      /\ UNCHANGED <<connections, readEventId, linked, driver, toDriver, toListener, told, bus, lost,
                     allowance, spoilt>>
  BY DEF QueryFails
<1>3. th'[t] = Idle /\ \A u \in Threads \ {t} : th'[u] = th[u]
  BY <1>1, <1>2, IdleIsThread, ThreadStep
<1>4. \A u \in Threads : SendStays(u) /\ (Awaits(u)' => WokenSafely(u))
  <2>1. SendStays(t) /\ ~Awaits(t)'
    BY <1>3 DEF SendStays, Awaits, Idle, Sending, Blocking
  <2> QED
    BY <1>3, <2>1, NothingHappens
<1>5. Coming' = Coming /\ (HeardTrue => HeardTrue')
  BY <1>2 DEF Coming, HeardTrue
<1>6. \A c \in Clients : connections'[c].valid = connections[c].valid /\ Txs(c)' = Txs(c)
  BY <1>2 DEF Txs
<1>7. (~linked => toListener' = <<>>) /\ (~driver'.up => driver'.pending = {} /\ driver'.taken = {})
  BY <1>2 DEF ToldInv, LifeInv
<1> QED
  BY <1>1, <1>2, <1>4, <1>5, <1>6, <1>7, ToldQuiet

\* A thread that does not send goes on, or a send's wait is over.
LEMMA WaitsTold ==
  ASSUME IdsInv, AwakeInv, ToldInv, NEW t \in Threads, NEW c \in Clients,
         AddGetHWStatusNotify(t, c) \/ ReadMessage(t, c) \/ GetReadEvent(t) \/ WaitForMessage(t)
           \/ WaitTimesOut(t)
  PROVE  ToldInv'
<1>1. LibraryTypeOK /\ th[t] \in Thread /\ ReaderOK(t) /\ th \in [Threads -> Thread]
      /\ connections \in [Clients -> Connection]
  BY ThreadTypes DEF IdsInv, AwakeInv, LibraryTypeOK
<1>2. "status" \in Limited \ {"send"} /\ "read" \in Limited \ {"send"} /\ "fault" \in Limited \ {"send"}
  BY DEF Limited
<1>3. linked' = linked /\ driver' = driver /\ toDriver' = toDriver /\ toListener' = toListener
      /\ told' = told /\ bus' = bus /\ spoilt \subseteq spoilt' /\ allowance'["send"] = allowance["send"]
  <2>1. CASE AddGetHWStatusNotify(t, c)
    BY <1>1, <1>2, <2>1, SpendsOther DEF AddGetHWStatusNotify
  <2>2. CASE ReadMessage(t, c)
    BY <1>1, <1>2, <2>2, SpendsOther DEF ReadMessage, OnlyReading
  <2>3. CASE GetReadEvent(t) \/ WaitForMessage(t)
    BY <2>3 DEF GetReadEvent, WaitForMessage, OnlyReading
  <2>4. CASE WaitTimesOut(t)
    BY <1>1, <1>2, <2>4, SpendsOther DEF WaitTimesOut, OnlyReading
  <2> QED
    BY <2>1, <2>2, <2>3, <2>4
<1>4. \A b \in Clients : connections'[b].valid = connections[b].valid /\ Txs(b)' = Txs(b)
  <2>1. CASE AddGetHWStatusNotify(t, c) \/ GetReadEvent(t) \/ WaitTimesOut(t)
    BY <2>1 DEF AddGetHWStatusNotify, GetReadEvent, WaitTimesOut, Txs
  <2>2. CASE ReadMessage(t, c)
    <3>1. connections' = connections \/
            connections' = [connections EXCEPT ![c].recvMsgQueue = @ - 1]
      BY <2>2 DEF ReadMessage
    <3> QED
      BY <1>1, <3>1 DEF Txs, Connection
  <2>3. CASE WaitForMessage(t)
    <3>1. PICK x : connections' = connections \/
            connections' = [connections EXCEPT ![th[t].c].recvMsgEvents = x]
      BY <2>3 DEF WaitForMessage
    <3>2. ASSUME NEW b \in Clients PROVE connections'[b].valid = connections[b].valid /\ Txs(b)' = Txs(b)
      <4>1. connections[b] \in Connection
        BY <1>1
      <4>2. CASE connections' = connections
        BY <4>2 DEF Txs
      <4>3. CASE connections' = [connections EXCEPT ![th[t].c].recvMsgEvents = x]
        <5>1. connections'[b] = connections[b] \/ connections'[b] = [connections[b] EXCEPT !.recvMsgEvents = x]
          BY <1>1, <4>3
        <5>2. connections'[b].valid = connections[b].valid /\ connections'[b].transactions = connections[b].transactions
          BY <4>1, <5>1 DEF Connection
        <5> QED
          BY <5>2 DEF Txs
      <4> QED
        BY <3>1, <4>2, <4>3
    <3> QED
      BY <3>2
  <2> QED
    BY <2>1, <2>2, <2>3
<1>5. \A u \in Threads \ {t} : th'[u] = th[u]
  <2>1. \E x : th' = [th EXCEPT ![t] = x]
    <3>1. CASE AddGetHWStatusNotify(t, c)
      BY <3>1 DEF AddGetHWStatusNotify
    <3>2. CASE ReadMessage(t, c)
      <4>1. th' = [th EXCEPT ![t] = th[t]] \/ \E x : th' = [th EXCEPT ![t] = x]
        BY <1>1, <3>2 DEF ReadMessage
      <4> QED
        BY <4>1
    <3>3. CASE GetReadEvent(t)
      BY <3>3 DEF GetReadEvent, Reader
    <3>4. CASE WaitForMessage(t)
      BY <3>4 DEF WaitForMessage
    <3>5. CASE WaitTimesOut(t)
      BY <3>5 DEF WaitTimesOut, Reader
    <3> QED
      BY <3>1, <3>2, <3>3, <3>4, <3>5
  <2> QED
    BY <1>1, <2>1
<1>6. SendStays(t) /\ (Awaits(t)' => WokenSafely(t))
  <2>1. CASE AddGetHWStatusNotify(t, c)
    <3>1. th'[t].at = "waiting" /\ th'[t].op = "status"
      BY <1>1, <2>1 DEF AddGetHWStatusNotify, Thread
    <3> QED
      BY <3>1 DEF SendStays, Awaits, Sending, Blocking
  <2>2. CASE ReadMessage(t, c)
    <3>1. th' = th \/ (th'[t].at = "window" /\ th'[t].op = "read")
      <4>1. th' = th \/ th' = [th EXCEPT ![t] = [@ EXCEPT !.at = "window", !.op = "read", !.c = c]]
        BY <2>2 DEF ReadMessage
      <4>2. CASE th' = [th EXCEPT ![t] = [@ EXCEPT !.at = "window", !.op = "read", !.c = c]]
        BY <1>1, <4>2 DEF Thread
      <4> QED
        BY <4>1, <4>2
    <3>2. CASE th' = th
      BY <3>2, NothingHappens
    <3>3. CASE th'[t].at = "window" /\ th'[t].op = "read"
      BY <3>3 DEF SendStays, Awaits, Sending, Blocking
    <3> QED
      BY <3>1, <3>2, <3>3
  <2>3. CASE GetReadEvent(t) \/ WaitForMessage(t)
    <3>1. th'[t].at # "query" /\ th'[t].op = th[t].op /\ th[t].at \in {"window", "named"}
      <4>1. CASE GetReadEvent(t)
        BY <1>1, <4>1 DEF GetReadEvent, Reader, Thread
      <4>2. CASE WaitForMessage(t)
        <5>1. PICK x, y : th' = [th EXCEPT ![t] = [@ EXCEPT !.at = "waiting", !.id = x, !.missed = y]]
          BY <4>2 DEF WaitForMessage
        <5>2. th[t].at = "named"
          BY <4>2 DEF WaitForMessage
        <5> QED
          BY <1>1, <5>1, <5>2 DEF Thread
      <4> QED
        BY <2>3, <4>1, <4>2
    <3>2. th'[t].op = "read"
      BY <1>1, <3>1 DEF ReaderOK
    <3> QED
      BY <3>1, <3>2 DEF SendStays, Awaits, Sending, Blocking
  <2>4. CASE WaitTimesOut(t)
    <3>1. /\ th[t].at = "waiting" /\ th'[t].at = "woken" /\ th'[t].op = th[t].op /\ th'[t].c = th[t].c
          /\ th'[t].m = th[t].m /\ th'[t].id = th[t].id
      BY <1>1, <2>4 DEF WaitTimesOut, Reader, Thread
    <3>2. th[t].op = "block" => <<th[t].m, "timeout">> \in spoilt'
      BY <2>4 DEF WaitTimesOut
    <3>3. th[t].op = "block" => Excused(th[t].m)'
      BY <3>1, <3>2 DEF Excused, Met
    <3> QED
      BY <3>1, <3>3 DEF SendStays, WokenSafely, Awaits, Blocking
  <2> QED
    BY <2>1, <2>2, <2>3, <2>4
<1>7. \A u \in Threads : SendStays(u) /\ (Awaits(u)' => WokenSafely(u))
  BY <1>5, <1>6, NothingHappens
<1>8. Coming' = Coming /\ (HeardTrue => HeardTrue')
  BY <1>3 DEF Coming, HeardTrue
<1>9. (~linked => toListener' = <<>>) /\ (~driver'.up => driver'.pending = {} /\ driver'.taken = {})
  BY <1>3 DEF ToldInv, LifeInv
<1> QED
  BY <1>1, <1>3, <1>4, <1>7, <1>8, <1>9, ToldQuiet

\* What the driver, or the listener, has to do with neither outcome nor id.
LEMMA NewsTold ==
  ASSUME IdsInv, ToldInv, NEW c \in Clients,
         DriverFreesId \/ DriverEnds \/ (c \in driver.taken /\ DriverForwards(c)) \/ MisreadOutcome
           \/ \E p \in driver.pending, ok \in BOOLEAN : DriverReports(p, ok)
  PROVE  ToldInv'
<1>1. /\ LibraryTypeOK /\ OwnQueries /\ WithoutDriver /\ toListener \in Seq(News) /\ toDriver \in Seq(Datagrams)
      /\ driver \in Driver
  BY DEF IdsInv, LibraryTypeOK
<1>2. "forward" \in Limited \ {"send"} /\ "fault" \in Limited \ {"send"}
  BY DEF Limited
<1>3. /\ connections' = connections /\ th' = th /\ linked' = linked /\ told' = told
      /\ spoilt \subseteq spoilt' /\ allowance'["send"] = allowance["send"]
  <2>1. CASE DriverFreesId
    BY <2>1 DEF DriverFreesId
  <2>2. CASE DriverEnds
    BY <1>1, <1>2, <2>2, SpendsOther DEF DriverEnds
  <2>3. CASE c \in driver.taken /\ DriverForwards(c)
    BY <1>1, <1>2, <2>3, SpendsOther DEF DriverForwards
  <2>4. CASE MisreadOutcome
    BY <1>1, <1>2, <2>4, SpendsOther DEF MisreadOutcome
  <2>5. CASE \E p \in driver.pending, ok \in BOOLEAN : DriverReports(p, ok)
    BY <2>5 DEF DriverReports
  <2> QED
    BY <2>1, <2>2, <2>3, <2>4, <2>5
<1>4. /\ driver'.up => driver.up /\ driver'.block = driver.block
      /\ ~driver'.up => driver'.pending = {} /\ driver'.taken = {}
      /\ driver'.pending \subseteq driver.pending
  <2>1. CASE DriverFreesId
    <3>1. driver.up /\ driver' = [driver EXCEPT !.avail = @ \cup {Head(toDriver).id}]
      BY <2>1 DEF DriverFreesId
    <3>2. driver'.up = driver.up /\ driver'.block = driver.block /\ driver'.pending = driver.pending
      BY <1>1, <3>1 DEF Driver
    <3> QED
      BY <3>1, <3>2
  <2>2. CASE DriverEnds
    BY <2>2 DEF DriverEnds, Started
  <2>3. CASE DriverForwards(c) \/ MisreadOutcome
    <3>1. driver' = driver
      BY <2>3 DEF DriverForwards, MisreadOutcome
    <3> QED
      BY <3>1 DEF ToldInv, LifeInv
  <2>5. ASSUME NEW p \in driver.pending, NEW ok \in BOOLEAN, DriverReports(p, ok)
        PROVE  /\ driver'.up => driver.up /\ driver'.block = driver.block
               /\ ~driver'.up => driver'.pending = {} /\ driver'.taken = {}
               /\ driver'.pending \subseteq driver.pending
    <3>1. driver' = [driver EXCEPT !.pending = @ \ {p}]
      BY <2>5 DEF DriverReports
    <3>2. driver'.up = driver.up /\ driver'.block = driver.block /\ driver'.pending = driver.pending \ {p}
          /\ driver'.taken = driver.taken
      BY <1>1, <3>1 DEF Driver
    <3>3. ~driver.up => driver.pending = {} /\ driver.taken = {}
      BY DEF ToldInv, LifeInv
    <3> QED
      BY <3>2, <3>3
  <2> QED
    BY <2>1, <2>2, <2>3, <2>5
<1>5. \A i \in DOMAIN toDriver' : IsQuery(toDriver'[i]) /\ toDriver'[i].own =>
        \E j \in DOMAIN toDriver : toDriver'[i] = toDriver[j]
  <2>1. CASE DriverFreesId
    <3>1. toDriver # <<>> /\ toDriver' = Tail(toDriver)
      BY <2>1 DEF DriverFreesId
    <3> QED
      BY <1>1, <3>1, TailIsPart
  <2>2. CASE DriverEnds
    <3>1. DOMAIN toDriver' = {}
      BY <2>2 DEF DriverEnds
    <3> QED
      BY <3>1
  <2>3. CASE ~DriverFreesId /\ ~DriverEnds
    <3>1. toDriver' = toDriver
      BY <2>3 DEF DriverForwards, MisreadOutcome, DriverReports
    <3> QED
      BY <3>1
  <2> QED
    BY <2>1, <2>2, <2>3
<1>6. bus \subseteq bus' /\ Coming' \subseteq Coming /\ (HeardTrue => HeardTrue')
  <2>1. CASE DriverFreesId \/ DriverEnds
    <3>1. bus' = bus /\ toListener' = toListener
      BY <2>1 DEF DriverFreesId, DriverEnds
    <3> QED
      BY <1>4, <3>1 DEF Coming, HeardTrue
  <2>2. CASE DriverForwards(c)
    <3> DEFINE x == [kind |-> "readmessage", c |-> c]
    <3>1. bus' = bus /\ toListener' = Append(toListener, x)
      BY <2>2 DEF DriverForwards
    <3>2. x \in News /\ x.kind # "outcome"
      BY DEF News
    <3> HIDE DEF x
    <3>3. Announced(toListener') = Announced(toListener)
      BY <1>1, <3>1, <3>2, AnnouncedFacts
    <3>4. \A i \in DOMAIN toListener' : (i \in DOMAIN toListener /\ toListener'[i] = toListener[i]) \/ toListener'[i] = x
      BY <1>1, <3>1, <3>2, AppendProperties, LenProperties
    <3>5. HeardTrue => HeardTrue'
      BY <3>1, <3>2, <3>4 DEF HeardTrue
    <3> QED
      BY <1>4, <3>1, <3>3, <3>5 DEF Coming
  <2>3. CASE MisreadOutcome
    <3>1. bus' = bus /\ toListener # <<>> /\ toListener' = Tail(toListener)
      BY <2>3 DEF MisreadOutcome, Listening
    <3>2. Announced(toListener') \subseteq Announced(toListener)
      BY <1>1, <3>1, AnnouncedFacts
    <3>3. \A i \in DOMAIN toListener' : \E j \in DOMAIN toListener : toListener'[i] = toListener[j]
      BY <1>1, <3>1, TailIsPart
    <3>4. HeardTrue => HeardTrue'
      BY <3>1, <3>3 DEF HeardTrue
    <3> QED
      BY <1>4, <3>1, <3>2, <3>4 DEF Coming
  <2>4. ASSUME NEW p \in driver.pending, NEW ok \in BOOLEAN, DriverReports(p, ok)
        PROVE  bus \subseteq bus' /\ Coming' \subseteq Coming /\ (HeardTrue => HeardTrue')
    <3> DEFINE x == Outcome(p, ok)
    <3>1. bus' = (IF ok THEN bus \cup {p.m} ELSE bus) /\ toListener' = Append(toListener, x)
      BY <2>4 DEF DriverReports
    <3>2. p \in Promises
      BY <1>1 DEF Driver
    <3>3. x \in News /\ x.kind = "outcome" /\ Promise(x) = p /\ x.m = p.m /\ (x.ok <=> ok)
      BY <3>2 DEF News, Outcomes, Outcome, Promise, Promises
    <3> HIDE DEF x
    <3>4. Announced(toListener') = Announced(toListener) \cup {p}
      BY <1>1, <3>1, <3>3, AnnouncedFacts
    <3>5. \A i \in DOMAIN toListener' : (i \in DOMAIN toListener /\ toListener'[i] = toListener[i]) \/ toListener'[i] = x
      BY <1>1, <3>1, <3>3, AppendProperties, LenProperties
    <3>6. HeardTrue => HeardTrue'
      BY <3>1, <3>3, <3>5 DEF HeardTrue
    <3>7. bus \subseteq bus' /\ Coming' \subseteq Coming
      BY <1>4, <3>1, <3>4 DEF Coming
    <3> QED
      BY <3>6, <3>7
  <2> QED
    BY <2>1, <2>2, <2>3, <2>4
<1>7. ~linked => toListener' = <<>>
  <2>1. ~linked => toListener = <<>> /\ ~driver.up /\ driver.pending = {} /\ driver.taken = {}
    BY <1>1 DEF ToldInv, LifeInv, WithoutDriver
  <2>2. ASSUME ~linked PROVE DriverEnds
    <3>1. ~DriverFreesId /\ ~MisreadOutcome
      BY <2>1, <2>2 DEF DriverFreesId, MisreadOutcome, Listening
    <3>2. c \notin driver.taken /\ driver.pending = {}
      BY <2>1, <2>2
    <3> QED
      BY <3>1, <3>2
  <2>3. DriverEnds => toListener' = toListener
    BY DEF DriverEnds
  <2> QED
    BY <2>1, <2>2, <2>3
<1>8. \A t \in Threads : SendStays(t) /\ WokenSafely(t)
  BY <1>3, NothingHappens
<1>9. \A b \in Clients : connections'[b].valid = connections[b].valid /\ Txs(b)' = Txs(b)
  BY <1>3 DEF Txs
<1> QED
  BY <1>1, <1>3, <1>4, <1>5, <1>6, <1>7, <1>8, <1>9, ToldQuiet

LEMMA AfterReaders ==
  ASSUME LibraryTypeOK, NEW W, W \subseteq Readers, NEW done, NEW missed,
         th' = After(W, done, missed)
  PROVE  \A t \in Threads : SendStays(t) /\ (Awaits(t)' => WokenSafely(t))
<1>1. W \subseteq At("waiting")
  BY Woken
<1>2. ASSUME NEW t \in Threads, Awaits(t)' PROVE WokenSafely(t)
  <2>1. t \notin done
    <3>1. t \in done => th'[t] = Idle
      BY <1>1, AfterSends
    <3> QED
      BY <1>2, <3>1 DEF Awaits, Idle
  <2>2. th'[t].op = th[t].op /\ (t \notin W => th'[t].at = th[t].at)
    BY <1>1, <2>1, AfterSends
  <2>3. t \notin W
    BY <1>2, <2>2 DEF Readers, Awaits, Blocking
  <2> QED
    BY <2>2, <2>3 DEF WokenSafely
<1> QED
  BY <1>1, <1>2, AfterSends

\* A message is heard, or a reader returns.
LEMMA ReadersTold ==
  ASSUME IdsInv, ToldInv, NEW t, HearMessage \/ (t \in Threads /\ ReadReturns(t))
  PROVE  ToldInv'
<1>1. LibraryTypeOK /\ toListener \in Seq(News) /\ connections \in [Clients -> Connection]
  BY DEF IdsInv, LibraryTypeOK
<1>2. UNCHANGED <<readEventId, linked, driver, toDriver, told, bus, lost, allowance, spoilt>>
  BY DEF HearMessage, ReadReturns, OnlyReading
<1>3. /\ toListener' = toListener \/ (toListener # <<>> /\ toListener' = Tail(toListener))
      /\ ~linked => toListener' = <<>>
  <2>1. CASE HearMessage
    BY <2>1 DEF HearMessage, Listening
  <2>2. CASE ReadReturns(t)
    <3>1. toListener' = toListener
      BY <2>2 DEF ReadReturns, OnlyReading
    <3> QED
      BY <3>1 DEF ToldInv, LifeInv
  <2> QED
    BY <2>1, <2>2
<1>4. PICK W, done, missed : W \subseteq Readers /\ th' = After(W, done, missed)
  <2>1. CASE HearMessage
    <3>1. \E W, missed : W \in SetEvents(ReadersToWake(connections[Head(toListener).c])) /\ th' = After(W, {}, missed)
      BY <2>1 DEF HearMessage
    <3> QED
      BY <3>1, Woken
  <2>2. CASE ReadReturns(t)
    <3> DEFINE first == FrontEvent(connections[th[t].c])
    <3>1. \/ th' = After({}, {t}, {})
          \/ \E W \in SetEvents({h \in first : h.by # t}) : th' = After(W, {t}, Robbed(first, W))
      BY <2>2 DEF ReadReturns
    <3>2. {} \subseteq Readers /\ \A W \in SetEvents({h \in first : h.by # t}) : W \subseteq Readers
      BY Woken
    <3> QED
      BY <3>1, <3>2, Zenon
  <2> QED
    BY <2>1, <2>2
<1>5. \A u \in Threads : SendStays(u) /\ (Awaits(u)' => WokenSafely(u))
  BY <1>1, <1>4, AfterReaders
<1>6. ASSUME NEW b \in Clients PROVE connections'[b].valid = connections[b].valid /\ Txs(b)' = Txs(b)
  <2>1. PICK a \in Clients : (HearMessage => a = Head(toListener).c) /\ (~HearMessage => a = th[t].c)
    <3>1. HearMessage => toListener # <<>>
      BY DEF HearMessage, Listening
    <3>2. HearMessage => Head(toListener).c \in Clients
      BY <1>1, <3>1, ListenerQueue
    <3>3. ~HearMessage => th[t].c \in Clients
      BY <1>1, ThreadTypes
    <3> QED
      BY <1>1, <3>2, <3>3, LibraryAssumption
  <2>2. connections[a] \in Connection
    BY <1>1
  <2>3. PopEvent(connections[a]) \in Connection /\ PopEvent(connections[a]).transactions = connections[a].transactions
        /\ PopEvent(connections[a]).valid = connections[a].valid
    BY <2>2, PopFacts
  <2>4. \E k : /\ connections' = connections \/ connections' = [connections EXCEPT ![a] = k]
               /\ k.valid = connections[a].valid /\ k.transactions = connections[a].transactions
    <3>1. CASE HearMessage
      <4> DEFINE k == [PopEvent(connections[a]) EXCEPT !.recvMsgQueue = @ + 1]
      <4>1. connections' = [connections EXCEPT ![a] = k]
        BY <2>1, <3>1 DEF HearMessage
      <4>2. k.valid = connections[a].valid /\ k.transactions = connections[a].transactions
        BY <2>3 DEF Connection
      <4> QED
        BY <4>1, <4>2
    <3>2. CASE ~HearMessage
      <4>1. /\ a = th[t].c
            /\ \/ connections' = connections
               \/ connections' = [connections EXCEPT ![a] = PopEvent(connections[a])]
               \/ connections' = [connections EXCEPT ![a].recvMsgQueue = @ - 1]
        BY <2>1, <3>2 DEF ReadReturns
      <4>2. CASE connections' = connections
        BY <4>2
      <4>3. CASE connections' = [connections EXCEPT ![a] = PopEvent(connections[a])]
        BY <2>3, <4>3
      <4>4. CASE connections' = [connections EXCEPT ![a].recvMsgQueue = @ - 1]
        <5> DEFINE k == [connections[a] EXCEPT !.recvMsgQueue = @ - 1]
        <5>1. connections' = [connections EXCEPT ![a] = k]
          BY <4>4
        <5>2. k.valid = connections[a].valid /\ k.transactions = connections[a].transactions
          BY <2>2 DEF Connection
        <5> QED
          BY <5>1, <5>2
      <4> QED
        BY <4>1, <4>2, <4>3, <4>4
    <3> QED
      BY <3>1, <3>2
  <2> QED
    BY <1>1, <2>4 DEF Txs
<1>7. Coming' \subseteq Coming /\ (HeardTrue => HeardTrue')
  <2>1. Announced(toListener') \subseteq Announced(toListener)
    BY <1>1, <1>3, AnnouncedFacts
  <2>2. \A i \in DOMAIN toListener' : \E j \in DOMAIN toListener : toListener'[i] = toListener[j]
    BY <1>1, <1>3, TailIsPart
  <2>3. HeardTrue => HeardTrue'
    BY <1>2, <2>2 DEF HeardTrue
  <2> QED
    BY <1>2, <2>1, <2>3 DEF Coming
<1>8. ~driver'.up => driver'.pending = {} /\ driver'.taken = {}
  BY <1>2 DEF ToldInv, LifeInv
<1> QED
  BY <1>1, <1>2, <1>3, <1>5, <1>6, <1>7, <1>8, ToldQuiet

(***************************************************************************)
(* Queries are sent.                                                       *)
(***************************************************************************)
\* A message is sent that was not before.
LEMMA WhereSend ==
  ASSUME LibraryTypeOK, WhereInv, NEW t \in Threads, Spend("send"), told' = told, ~Sender(t),
         th'[t].m = allowance["send"], \A u \in Threads \ {t} : th'[u] = th[u],
         \A c \in Clients : Txs(c)' = Txs(c)
  PROVE  WhereInv'
<1> DEFINE n == allowance["send"]
<1>1. n \in Nat /\ n > 0 /\ allowance'["send"] = n - 1
  BY DEF Spend, LibraryTypeOK, Limited
<1> HIDE DEF n
<1>2. n \in Sends /\ told[n] = <<>>
  <2>1. n \in 1 .. n
    BY <1>1
  <2> QED
    BY <2>1 DEF WhereInv, n
<1>3. \A m : Unanswered(m) => Unanswered(m)' /\ m # n
  <2>1. \A m \in Sends : m \in Nat
    BY LibraryAssumption DEF Sends
  <2> QED
    BY <1>1, <2>1 DEF Unanswered, n
<1>4. \A m : m = n => Unanswered(m)'
  BY <1>1, <1>2 DEF Unanswered
<1>5. \A m \in 1 .. allowance'["send"] : m \in Sends /\ told'[m] = <<>>
  <2>1. \A m \in 1 .. n - 1 : m \in 1 .. n
    BY <1>1
  <2> QED
    BY <1>1, <2>1 DEF WhereInv, n
<1>6. ASSUME NEW u \in Threads, Sender(u)'
      PROVE  /\ \A m : m = th'[u].m => Unanswered(m)'
             /\ u # t => Sender(u) /\ th'[u].m = th[u].m /\ Unanswered(th[u].m)
             /\ u = t => th'[u].m = n
  <2>1. u # t => Sender(u) /\ th'[u].m = th[u].m /\ Unanswered(th[u].m)
    BY <1>6 DEF Sender, WhereInv
  <2>2. u = t => th'[u].m = n
    BY DEF n
  <2> QED
    BY <1>3, <1>4, <2>1, <2>2
<1>7. \A u, v \in Threads : Sender(u)' /\ Sender(v)' /\ th'[u].m = th'[v].m => u = v
  BY <1>3, <1>6 DEF WhereInv
<1>8. \A c \in Clients : Notifications(c)' = Notifications(c)
  BY DEF Notifications, Txs
<1>9. \A c \in Clients : \A i \in Notifications(c)' :
         (\A m : m = Txs(c)'[i].m => Unanswered(m)') /\ Unanswered(Txs(c)[i].m)
  BY <1>3, <1>8 DEF WhereInv
<1>10. \A c \in Clients : \A i \in Notifications(c)' : \A u \in Threads :
         Sender(u)' => th'[u].m # Txs(c)'[i].m
  <2>1. ASSUME NEW c \in Clients, NEW i \in Notifications(c)', NEW u \in Threads, Sender(u)'
        PROVE  th'[u].m # Txs(c)'[i].m
    <3>1. Txs(c)' = Txs(c) /\ i \in Notifications(c) /\ Unanswered(Txs(c)[i].m)
      BY <1>8, <1>9, <2>1
    <3>2. CASE u = t
      BY <1>3, <1>6, <2>1, <3>1, <3>2
    <3>3. CASE u # t
      BY <1>6, <2>1, <3>1, <3>3 DEF WhereInv
    <3> QED
      BY <3>2, <3>3
  <2> QED
    BY <2>1
<1>11. told' \in [Sends -> Seq(BOOLEAN)] /\ \A m \in Sends : Len(told'[m]) <= 1
  BY DEF WhereInv
<1>12. \A b, c \in Clients : \A i \in Notifications(b)', j \in Notifications(c)' :
         Txs(b)'[i].m = Txs(c)'[j].m => b = c /\ i = j
  BY <1>8 DEF WhereInv
<1> QED
  BY <1>5, <1>6, <1>7, <1>9, <1>10, <1>11, <1>12 DEF WhereInv

LEMMA AsksTold ==
  ASSUME IdsInv, ToldInv, NEW t \in Threads, ~Sender(t), th[t].at # "query", NEW op \in Calls, NEW c \in Clients,
         NEW m \in Nat, QueryDriverApp(t, op, c, m),
         \/ driver' = driver /\ linked' = linked
         \/ linked' /\ (driver' = driver \/ (driver' = Started /\ ~linked)),
         IF op \in Sending THEN m = allowance["send"] /\ Spend("send") /\ connections[c].valid
         ELSE allowance'["send"] = allowance["send"]
  PROVE  ToldInv'
<1>1. LibraryTypeOK /\ OwnQueries /\ WithoutDriver /\ WhereInv /\ LifeInv /\ (~Confused => TrueInv)
  BY DEF IdsInv, ToldInv
<1>2. /\ At("query") = {} /\ th' = [th EXCEPT ![t] = [@ EXCEPT !.at = "query", !.op = op, !.c = c, !.m = m, !.tries = 1]]
      /\ UNCHANGED <<connections, readEventId, toListener, told, bus, lost, spoilt>>
  BY DEF QueryDriverApp, CsFree
<1>3. /\ th'[t].at = "query" /\ th'[t].op = op /\ th'[t].c = c /\ th'[t].m = m
      /\ \A u \in Threads \ {t} : th'[u] = th[u]
  <2>1. th \in [Threads -> Thread] /\ th[t] \in Thread
    BY <1>1 DEF LibraryTypeOK
  <2> QED
    BY <1>2, <2>1 DEF Thread
<1>4. \A b \in Clients : connections'[b].valid = connections[b].valid /\ Txs(b)' = Txs(b)
                         /\ Notifications(b)' = Notifications(b)
  BY <1>2 DEF Txs, Notifications
<1>5. WhereInv'
  <2>1. CASE op \in Sending
    BY <1>1, <1>2, <1>3, <1>4, <2>1, WhereSend
  <2>2. CASE op \notin Sending
    <3>1. \A u \in Threads : Sender(u)' => Sender(u) /\ th'[u].m = th[u].m
      BY <1>3, <2>2 DEF Sender
    <3> QED
      BY <1>1, <1>2, <1>4, <2>2, <3>1, WhereQuiet
  <2> QED
    BY <2>1, <2>2
<1>6. LifeInv'
  <2>1. \A u \in At("query")' : u = t
    BY <1>2, <1>3 DEF At
  <2>2. ~driver'.up => driver'.pending = {} /\ driver'.taken = {}
    BY <1>1 DEF LifeInv, Started
  <2>3. ~linked' => toListener' = <<>> /\ \A b \in Clients : ~connections'[b].valid
    BY <1>1, <1>2 DEF LifeInv
  <2>4. Sender(t)' => connections'[c].valid
    BY <1>3, <1>4 DEF Sender
  <2>5. \A i \in DOMAIN toDriver : ~(IsQuery(toDriver[i]) /\ toDriver[i].own)
    BY <1>1, <1>2 DEF OwnQueries
  <2>6. ASSUME NEW i \in DOMAIN toDriver', IsQuery(toDriver'[i]), toDriver'[i].own
        PROVE  toDriver'[i].c = c /\ toDriver'[i].m = m
    <3> DEFINE y == [q |-> op, c |-> c, m |-> m, own |-> TRUE]
    <3>1. toDriver' = Append(toDriver, y) \/ toDriver' = toDriver
      BY DEF QueryDriverApp
    <3>2. y \in Datagrams /\ y.c = c /\ y.m = m
      BY DEF Datagrams, Queries
    <3> HIDE DEF y
    <3>3. toDriver \in Seq(Datagrams)
      BY <1>1 DEF LibraryTypeOK
    <3>4. toDriver'[i] = y \/ \E j \in DOMAIN toDriver : toDriver'[i] = toDriver[j]
      BY <3>1, <3>2, <3>3, AppendProperties, LenProperties
    <3> QED
      BY <2>5, <2>6, <3>2, <3>4
  <2> QED
    BY <1>1, <1>3, <1>4, <2>1, <2>2, <2>3, <2>4, <2>6 DEF LifeInv
<1>7. ASSUME ~Confused' PROVE TrueInv'
  <2>1. TrueInv
    BY <1>1, <1>2, <1>7, SpoiltGrows
  <2>2. \A u \in Threads : AwaitsStill(u) /\ (Awaits(u)' => WokenSafely(u))
    <3>1. ~Awaits(t)'
      BY <1>3 DEF Awaits
    <3>2. \A u \in Threads \ {t} : AwaitsStill(u) /\ WokenSafely(u)
      BY <1>3 DEF AwaitsStill, Awaits, WokenSafely
    <3> QED
      BY <3>1, <3>2 DEF AwaitsStill
  <2>3. HeardTrue'
    BY <1>2, <2>1 DEF TrueInv, HeardTrue
  <2>4. CASE driver' = driver
    <3>1. Coming' = Coming
      BY <1>2, <2>4 DEF Coming
    <3> QED
      BY <1>1, <1>2, <1>4, <2>1, <2>2, <2>3, <2>4, <3>1, TrueQuiet
  <2>5. CASE driver' = Started /\ ~linked
    <3>1. toListener = <<>> /\ driver'.pending = {} /\ \A b \in Clients : ~connections[b].valid
      BY <1>1, <2>5 DEF LifeInv, Started
    <3>2. Coming' = {}
      <4>1. DOMAIN toListener' = {}
        BY <1>2, <3>1
      <4> QED
        BY <3>1, <4>1 DEF Coming, Announced
    <3>3. \A b \in Clients : ~connections'[b].valid
      BY <1>4, <3>1
    <3> QED
      BY <1>1, <1>2, <1>4, <2>1, <2>2, <2>3, <3>2, <3>3, TrueQuiet
  <2> QED
    BY <2>4, <2>5
<1> QED
  BY <1>5, <1>6, <1>7 DEF ToldInv

LEMMA StartsTold ==
  ASSUME IdsInv, AwakeInv, ToldInv, NEW t \in Threads, NEW c \in Clients,
         ClientConnect(t) \/ ClientDisconnect(t, c) \/ GetHardwareStatus(t, c) \/ StatusResumes(t)
           \/ \E op \in Sending : SendMessage(t, c, op)
  PROVE  ToldInv'
<1>1. LibraryTypeOK /\ ReaderOK(t) /\ th[t].c \in Clients /\ 0 \in Clients /\ NoMessage \in Nat
  BY IdleIsThread, ThreadTypes DEF IdsInv, AwakeInv, NoMessage, Idle, Thread
<1>2. th[t].at = "idle" => ~Sender(t) /\ th[t].at # "query"
  BY <1>1 DEF ReaderOK, Sender, Sending, Blocking
<1>3. /\ "connect" \in Limited \ {"send"} /\ "disconnect" \in Limited \ {"send"} /\ "status" \in Limited \ {"send"}
      /\ "connect" \in Calls \ Sending /\ "disconnect" \in Calls \ Sending /\ "status" \in Calls \ Sending
  BY DEF Limited, Calls, Sending, Blocking
<1>4. CASE ClientConnect(t)
  <2>1. th[t].at = "idle" /\ QueryDriverApp(t, "connect", 0, NoMessage) /\ linked' /\ Spend("connect")
        /\ (driver' = driver \/ (driver' = Started /\ ~linked))
    BY <1>4 DEF ClientConnect, StartQuery, OpenDriverApp
  <2>2. PICK op, b, m : op = "connect" /\ b = 0 /\ m = NoMessage /\ QueryDriverApp(t, op, b, m)
    BY <2>1
  <2>3. op \in Calls /\ op \notin Sending /\ b \in Clients /\ m \in Nat /\ allowance'["send"] = allowance["send"]
    BY <1>1, <1>3, <2>1, <2>2, SpendsOther
  <2> QED
    BY <1>2, <2>1, <2>2, <2>3, AsksTold
<1>5. CASE ClientDisconnect(t, c)
  <2>1. th[t].at = "idle" /\ QueryDriverApp(t, "disconnect", c, NoMessage) /\ driver' = driver /\ linked' = linked
        /\ Spend("disconnect")
    BY <1>5 DEF ClientDisconnect, StartQuery
  <2>2. PICK op, m : op = "disconnect" /\ m = NoMessage /\ QueryDriverApp(t, op, c, m)
    BY <2>1
  <2>3. op \in Calls /\ op \notin Sending /\ m \in Nat /\ allowance'["send"] = allowance["send"]
    BY <1>1, <1>3, <2>1, <2>2, SpendsOther
  <2> QED
    BY <1>2, <2>1, <2>2, <2>3, AsksTold
<1>6. CASE GetHardwareStatus(t, c)
  <2>1. th[t].at = "idle" /\ QueryDriverApp(t, "status", c, NoMessage) /\ driver' = driver /\ linked' = linked
        /\ Spend("status")
    BY <1>6 DEF GetHardwareStatus, StartQuery
  <2>2. PICK op, m : op = "status" /\ m = NoMessage /\ QueryDriverApp(t, op, c, m)
    BY <2>1
  <2>3. op \in Calls /\ op \notin Sending /\ m \in Nat /\ allowance'["send"] = allowance["send"]
    BY <1>1, <1>3, <2>1, <2>2, SpendsOther
  <2> QED
    BY <1>2, <2>1, <2>2, <2>3, AsksTold
<1>7. CASE StatusResumes(t)
  <2>1. /\ th[t].at = "woken" /\ th[t].op = "status" /\ QueryDriverApp(t, "status", th[t].c, NoMessage)
        /\ driver' = driver /\ linked' = linked /\ allowance' = allowance
    BY <1>7 DEF StatusResumes
  <2>2. PICK op, b, m : op = "status" /\ b = th[t].c /\ m = NoMessage /\ QueryDriverApp(t, op, b, m)
    BY <2>1
  <2>3. op \in Calls /\ op \notin Sending /\ b \in Clients /\ m \in Nat /\ allowance'["send"] = allowance["send"]
    BY <1>1, <1>3, <2>1, <2>2
  <2>4. ~Sender(t) /\ th[t].at # "query"
    BY <2>1 DEF Sender, Sending, Blocking
  <2> QED
    BY <2>1, <2>2, <2>3, <2>4, AsksTold
<1>8. ASSUME NEW op \in Sending, SendMessage(t, c, op) PROVE ToldInv'
  <2>1. th[t].at = "idle" /\ QueryDriverApp(t, op, c, allowance["send"]) /\ driver' = driver /\ linked' = linked
        /\ Spend("send") /\ connections[c].valid
    BY <1>8 DEF SendMessage, StartQuery
  <2>2. PICK m \in Nat : m = allowance["send"]
    BY <1>1 DEF LibraryTypeOK, Limited
  <2>3. op \in Calls
    BY DEF Calls
  <2> QED
    BY <1>2, <2>1, <2>2, <2>3, AsksTold
<1> QED
  BY <1>4, <1>5, <1>6, <1>7, <1>8

LEMMA SendAgainTold ==
  ASSUME IdsInv, ToldInv, NEW t \in Threads, SendAgain(t)
  PROVE  ToldInv'
<1> DEFINE y == [q |-> th[t].op, c |-> th[t].c, m |-> th[t].m, own |-> TRUE]
<1>1. LibraryTypeOK /\ OwnQueries /\ WhereInv /\ LifeInv /\ (~Confused => TrueInv) /\ toDriver \in Seq(Datagrams)
      /\ th \in [Threads -> Thread] /\ th[t] \in Thread
  BY DEF IdsInv, ToldInv, LibraryTypeOK
<1>2. /\ th[t].at = "query" /\ th' = [th EXCEPT ![t].tries = @ + 1] /\ toDriver' = Append(toDriver, y)
      /\ UNCHANGED <<connections, readEventId, linked, driver, toListener, told, bus, lost, spoilt>>
      /\ Spend("fault") \/ UNCHANGED allowance
  BY DEF SendAgain
<1>3. allowance'["send"] = allowance["send"]
  <2>1. "fault" \in Limited \ {"send"}
    BY DEF Limited
  <2> QED
    BY <1>1, <1>2, <2>1, SpendsOther
<1>4. ASSUME NEW u \in Threads
      PROVE  /\ th'[u].at = th[u].at /\ th'[u].op = th[u].op /\ th'[u].c = th[u].c
             /\ th'[u].m = th[u].m /\ th'[u].id = th[u].id
  <2>1. CASE u = t
    BY <1>1, <1>2, <2>1 DEF Thread
  <2>2. CASE u # t
    BY <1>1, <1>2, <2>2
  <2> QED
    BY <2>1, <2>2
<1>5. \A b \in Clients : connections'[b].valid = connections[b].valid /\ Txs(b)' = Txs(b)
                         /\ Notifications(b)' = Notifications(b)
  BY <1>2 DEF Txs, Notifications
<1>6. WhereInv'
  <2>1. \A u \in Threads : Sender(u)' => Sender(u) /\ th'[u].m = th[u].m
    BY <1>4 DEF Sender
  <2> QED
    BY <1>1, <1>2, <1>3, <1>5, <2>1, WhereQuiet
<1>7. LifeInv'
  <2>1. /\ t \in At("query") /\ At("query")' = At("query")
        /\ \A u \in At("query") : u = t
    BY <1>1, <1>2, <1>4 DEF At, OwnQueries
  <2>2. Sender(t)' => connections'[th'[t].c].valid
    <3>1. Sender(t) => connections[th[t].c].valid
      BY <1>1, <2>1 DEF LifeInv
    <3> QED
      BY <1>2, <1>4, <3>1 DEF Sender
  <2>3. ASSUME NEW i \in DOMAIN toDriver', IsQuery(toDriver'[i]), toDriver'[i].own
        PROVE  toDriver'[i].c = th'[t].c /\ toDriver'[i].m = th'[t].m
    <3>1. y \in Datagrams /\ y.c = th[t].c /\ y.m = th[t].m
      <4>1. th[t].op \in Calls
        BY <1>1, <2>1 DEF OwnQueries
      <4>2. th[t].c \in Clients /\ th[t].m \in Nat
        BY <1>1, ThreadTypes
      <4> QED
        BY <4>1, <4>2 DEF Datagrams, Queries
    <3> HIDE DEF y
    <3>2. toDriver'[i] = y \/ \E j \in DOMAIN toDriver : toDriver'[i] = toDriver[j]
      BY <1>1, <1>2, <3>1, AppendProperties, LenProperties
    <3>3. \A j \in DOMAIN toDriver : IsQuery(toDriver[j]) /\ toDriver[j].own =>
            toDriver[j].c = th[t].c /\ toDriver[j].m = th[t].m
      BY <1>1, <2>1 DEF LifeInv
    <3> QED
      BY <1>4, <2>3, <3>1, <3>2, <3>3
  <2> QED
    BY <1>1, <1>2, <1>5, <2>1, <2>2, <2>3 DEF LifeInv
<1>8. ASSUME ~Confused' PROVE TrueInv'
  <2>1. TrueInv
    BY <1>1, <1>2, <1>8, SpoiltGrows
  <2>2. \A u \in Threads : AwaitsStill(u) /\ (Awaits(u)' => WokenSafely(u))
    BY <1>4 DEF AwaitsStill, Awaits, WokenSafely
  <2>3. HeardTrue' /\ Coming' = Coming
    BY <1>2, <2>1 DEF TrueInv, HeardTrue, Coming
  <2> QED
    BY <1>1, <1>2, <1>5, <2>1, <2>2, <2>3, TrueQuiet
<1> QED
  BY <1>6, <1>7, <1>8 DEF ToldInv

(***************************************************************************)
(* A blocked send returns.                                                 *)
(***************************************************************************)
LEMMA FoundFacts ==
  ASSUME NEW k \in Connection, NEW n \in BOOLEAN, NEW id
  PROVE  /\ Found(k, n, id) # {} =>
              /\ First(k, n, id) \in DOMAIN k.transactions
              /\ (k.transactions[First(k, n, id)].notify <=> n) /\ k.transactions[First(k, n, id)].id = id
         /\ \A i \in DOMAIN k.transactions :
              (k.transactions[i].notify <=> n) /\ k.transactions[i].id = id => Found(k, n, id) # {}
         /\ k.transactions \in Seq(Transactions)
<1>1. k.transactions \in Seq(Transactions)
  BY DEF Connection
<1>2. \A i \in DOMAIN k.transactions : k.transactions[i].notify \in BOOLEAN
  <2>1. \A i \in DOMAIN k.transactions : k.transactions[i] \in Transactions
    BY <1>1, LenProperties, ElementOfSeq
  <2> QED
    BY <2>1 DEF Transactions
<1>3. \A i \in DOMAIN k.transactions :
         (k.transactions[i].notify <=> n) /\ k.transactions[i].id = id => Found(k, n, id) # {}
  <2>1. \A i \in DOMAIN k.transactions : (k.transactions[i].notify <=> n) => k.transactions[i].notify = n
    BY <1>2
  <2> QED
    BY <2>1 DEF Found
<1> QED
  BY <1>1, <1>3, FirstFacts

\* What RemoveTransaction leaves of c's list: all but at most one transaction.
LEMMA RemovedFacts ==
  ASSUME LibraryTypeOK, NEW c \in Clients, NEW id, NEW n \in BOOLEAN, ~n,
         NEW r, r = RemoveTransaction(connections[c], n, id),
         connections' = [connections EXCEPT ![c] = r]
  PROVE  /\ \A b \in Clients : connections'[b].valid = connections[b].valid /\ Within(Txs(b)', Txs(b))
         /\ \A b \in Clients \ {c} : Txs(b)' = Txs(b)
         /\ \A i \in DOMAIN Txs(c)' : \E j \in DOMAIN Txs(c) : Txs(c)'[i] = Txs(c)[j]
         /\ \A j \in DOMAIN Txs(c) : Txs(c)[j].notify \/ Txs(c)[j].id # id =>
              \E i \in DOMAIN Txs(c)' : Txs(c)'[i] = Txs(c)[j]
<1> DEFINE k == connections[c]
<1>1. connections \in [Clients -> Connection] /\ k \in Connection
  BY DEF LibraryTypeOK
<1>2. \A b \in Clients \ {c} : connections'[b] = connections[b]
  BY <1>1
<1>3. connections'[c] = r
  BY <1>1
<1>0. k \in Connection /\ r = RemoveTransaction(k, n, id)
  BY <1>1
<1> HIDE DEF k
<1>4. \/ r = k
      \/ \E i \in DOMAIN k.transactions :
           /\ ~k.transactions[i].notify /\ k.transactions[i].id = id
           /\ r.valid = k.valid /\ r.transactions = RemoveAt(k.transactions, i)
  <2>1. CASE Found(k, n, id) = {}
    BY <1>0, <2>1 DEF RemoveTransaction
  <2>2. CASE Found(k, n, id) # {}
    <3>1. PICK i : i = First(k, n, id)
      OBVIOUS
    <3>2. i \in DOMAIN k.transactions /\ ~k.transactions[i].notify /\ k.transactions[i].id = id
      BY <1>0, <2>2, <3>1, FoundFacts
    <3>3. r = [k EXCEPT !.transactions = RemoveAt(k.transactions, i)]
      BY <1>0, <2>2, <3>1 DEF RemoveTransaction
    <3>4. r.valid = k.valid /\ r.transactions = RemoveAt(k.transactions, i)
      BY <1>0, <3>3 DEF Connection
    <3> QED
      BY <3>2, <3>4
  <2> QED
    BY <2>1, <2>2
<1>5. Txs(c) = k.transactions /\ Txs(c)' = r.transactions /\ connections'[c].valid = r.valid
  BY <1>3 DEF Txs, k
<1>6. connections'[c].valid = connections[c].valid /\ Within(Txs(c)', Txs(c))
  <2>1. CASE r = k
    BY <1>5, <2>1, WithinSame DEF k
  <2>2. CASE r # k
    <3>1. PICK i \in DOMAIN k.transactions : r.valid = k.valid /\ r.transactions = RemoveAt(k.transactions, i)
      BY <1>4, <2>2
    <3>2. PICK s \in Seq(Transactions) : s = k.transactions
      BY <1>0 DEF Connection
    <3>3. Within(RemoveAt(s, i), s)
      BY <3>1, <3>2, WithinRemoved
    <3>4. Txs(c) = s /\ Txs(c)' = RemoveAt(s, i)
      BY <1>5, <3>1, <3>2
    <3>5. Within(Txs(c)', Txs(c))
      BY <3>3, <3>4
    <3> QED
      BY <1>5, <3>1, <3>5 DEF k
  <2> QED
    BY <2>1, <2>2
<1>7. /\ \A i \in DOMAIN Txs(c)' : \E j \in DOMAIN Txs(c) : Txs(c)'[i] = Txs(c)[j]
      /\ \A j \in DOMAIN Txs(c) : Txs(c)[j].notify \/ Txs(c)[j].id # id =>
           \E i \in DOMAIN Txs(c)' : Txs(c)'[i] = Txs(c)[j]
  <2>1. CASE r = k
    BY <1>5, <2>1
  <2>2. CASE r # k
    <3>1. PICK i \in DOMAIN k.transactions :
            /\ ~k.transactions[i].notify /\ k.transactions[i].id = id
            /\ r.transactions = RemoveAt(k.transactions, i)
      BY <1>4, <2>2
    <3>2. PICK s \in Seq(Transactions) : s = k.transactions
      BY <1>0 DEF Connection
    <3>3. PICK q : q = RemoveAt(s, i)
      OBVIOUS
    <3>4. /\ \A j \in DOMAIN q : \E l \in DOMAIN s \ {i} : q[j] = s[l]
          /\ \A l \in DOMAIN s \ {i} : \E j \in DOMAIN q : q[j] = s[l]
      BY <3>1, <3>2, <3>3, WithinRemoved
    <3>5. Txs(c) = s /\ Txs(c)' = q /\ ~s[i].notify /\ s[i].id = id
      BY <1>5, <3>1, <3>2, <3>3
    <3> QED
      BY <3>4, <3>5
  <2> QED
    BY <2>1, <2>2
<1>8. \A b \in Clients \ {c} : connections'[b].valid = connections[b].valid /\ Txs(b)' = Txs(b) /\ Within(Txs(b)', Txs(b))
  BY <1>2, WithinSame DEF Txs
<1> QED
  BY <1>6, <1>7, <1>8

\* What is told then is true, or excused.
LEMMA ReturnIsTrue ==
  ASSUME LibraryTypeOK, TrueInv, NEW t \in Threads, th[t].at = "woken", th[t].op \in Blocking,
         TRUE \in ReturnCodes(connections[th[t].c], th[t].id), ~Excused(th[t].m)
  PROVE  th[t].m \in bus
<1>1. PICK c \in Clients : c = th[t].c
  BY ThreadTypes
<1>2. PICK k \in Connection : k = connections[c]
  BY DEF LibraryTypeOK
<1>3. k.valid
  BY <1>1, <1>2 DEF ReturnCodes
<1>4. Clean(t) /\ ListOK(c)
  BY <1>1, <1>2, <1>3 DEF Clean, Awaits, TrueInv
<1>5. Mine(t, k.transactions) # {}
  BY <1>1, <1>2, <1>4 DEF TrueInv, CleanOK, Txs
<1>6. PICK i \in DOMAIN k.transactions :
         /\ ~k.transactions[i].notify /\ k.transactions[i].id = th[t].id /\ k.transactions[i].m = th[t].m
         /\ k.transactions[i].code # "uninitialised"
  BY <1>5 DEF Mine
<1>7. PICK n \in BOOLEAN : n = FALSE
  OBVIOUS
<1>8. Found(k, n, th[t].id) # {}
  BY <1>2, <1>6, <1>7, FoundFacts
<1>9. First(k, n, th[t].id) = i
  <2>1. PICK j : j = First(k, n, th[t].id)
    OBVIOUS
  <2>2. j \in DOMAIN k.transactions /\ (k.transactions[j].notify <=> n) /\ k.transactions[j].id = th[t].id
    BY <1>2, <1>8, <2>1, FoundFacts
  <2>3. Distinct(k.transactions)
    BY <1>2, <1>3, <1>4 DEF ListOK, Txs
  <2> QED
    BY <1>6, <1>7, <2>1, <2>2, <2>3 DEF Distinct
<1>10. k.transactions[i].code = "ok"
  <2>1. TRUE \in ReturnCodes(k, th[t].id)
    BY <1>1, <1>2
  <2>2. Found(k, FALSE, th[t].id) # {} /\ First(k, FALSE, th[t].id) = i
    BY <1>7, <1>8, <1>9
  <2>3. TRUE \in {k.transactions[i].code = "ok"}
    BY <1>3, <1>6, <2>1, <2>2 DEF ReturnCodes
  <2> QED
    BY <2>3
<1>11. Transmitted(k.transactions, bus)
  BY <1>2, <1>3, <1>4 DEF ListOK, Txs
<1> QED
  BY <1>6, <1>10, <1>11 DEF Transmitted

LEMMA FewerNotes ==
  ASSUME NEW c \in Clients, Within(Txs(c)', Txs(c))
  PROVE  /\ \A i \in Notifications(c)' : \E j \in Notifications(c) : Txs(c)'[i].m = Txs(c)[j].m
         /\ Notifications(c) = {} => Notifications(c)' = {}
<1>1. \A i \in Notifications(c)' : \E j \in Notifications(c) : Txs(c)'[i].m = Txs(c)[j].m
  BY NotesWithin
<1> QED
  BY <1>1

\* What is said now is true, and so is what was said before.
LEMMA ToldTruly ==
  ASSUME WhereInv, \A m \in Sends : TRUE \in ToSet(told[m]) => m \in bus \/ Excused(m),
         NEW ms, NEW ok \in BOOLEAN, Tell(ms, ok), bus \subseteq bus', spoilt \subseteq spoilt',
         \A m \in ms : Unanswered(m) /\ (ok => m \in bus' \/ Excused(m)')
  PROVE  \A m \in Sends : TRUE \in ToSet(told'[m]) => m \in bus' \/ Excused(m)'
<1> SUFFICES ASSUME NEW m \in Sends, TRUE \in ToSet(told'[m]) PROVE m \in bus' \/ Excused(m)'
  OBVIOUS
<1>1. told'[m] = IF m \in ms THEN Append(told[m], ok) ELSE told[m]
  BY DEF Tell, WhereInv
<1>2. CASE m \in ms
  <2>1. told[m] = <<>>
    BY <1>2 DEF Unanswered
  <2>2. told'[m] = <<ok>>
    BY <1>1, <1>2, <2>1
  <2>3. ok
    <3>1. PICK i \in DOMAIN told'[m] : told'[m][i] = TRUE
      BY DEF ToSet
    <3>2. i = 1 /\ told'[m][1] = ok
      BY <2>2, <3>1
    <3> QED
      BY <3>1, <3>2
  <2> QED
    BY <1>2, <2>3
<1>3. CASE m \notin ms
  <2>1. m \in bus \/ Excused(m)
    BY <1>1, <1>3
  <2> QED
    BY <2>1 DEF Excused, Met
<1> QED
  BY <1>2, <1>3

\* A blocked send returns.
LEMMA SendReturnsTold ==
  ASSUME IdsInv, ToldInv, NEW t \in Threads, SendReturns(t)
  PROVE  ToldInv'
<1>1. /\ LibraryTypeOK /\ WhereInv /\ LifeInv /\ (~Confused => TrueInv) /\ th[t] \in Thread
      /\ connections \in [Clients -> Connection] /\ CsFree
  BY ThreadTypes DEF IdsInv, ToldInv, LibraryTypeOK, SendReturns
<1>2. PICK c, id, m : c \in Clients /\ c = th[t].c /\ id = th[t].id /\ m = th[t].m
  BY <1>1, ThreadTypes
<1>3. /\ th[t].at = "woken" /\ th[t].op \in Blocking /\ th' = [th EXCEPT ![t] = Idle]
      /\ connections' = [connections EXCEPT ![c] = RemoveTransaction(@, FALSE, id)]
      /\ UNCHANGED <<readEventId, linked, driver, toDriver, toListener, bus, lost, allowance, spoilt>>
  BY <1>2 DEF SendReturns
<1>4. PICK ms, ok : ms = {m} /\ ok \in ReturnCodes(connections[c], id) /\ Tell(ms, ok)
  BY <1>2 DEF SendReturns
<1>5. ok \in BOOLEAN
  BY <1>4 DEF ReturnCodes
<1>6. /\ \A b \in Clients : connections'[b].valid = connections[b].valid /\ Within(Txs(b)', Txs(b))
      /\ \A b \in Clients \ {c} : Txs(b)' = Txs(b)
      /\ \A i \in DOMAIN Txs(c)' : \E j \in DOMAIN Txs(c) : Txs(c)'[i] = Txs(c)[j]
      /\ \A j \in DOMAIN Txs(c) : Txs(c)[j].notify \/ Txs(c)[j].id # id =>
           \E i \in DOMAIN Txs(c)' : Txs(c)'[i] = Txs(c)[j]
  <2>0. PICK n \in BOOLEAN : n = FALSE
    OBVIOUS
  <2>1. PICK r : r = RemoveTransaction(connections[c], n, id)
    OBVIOUS
  <2>2. connections' = [connections EXCEPT ![c] = r]
    BY <1>3, <2>0, <2>1
  <2>3. LibraryTypeOK /\ c \in Clients /\ ~n
    BY <1>1, <1>2, <2>0
  <2> QED
    BY <2>1, <2>2, <2>3, RemovedFacts
<1>7. th'[t] = Idle /\ \A u \in Threads \ {t} : th'[u] = th[u]
  BY <1>1, <1>3, IdleIsThread, ThreadStep
<1>8. Sender(t) /\ Unanswered(m) /\ ~Sender(t)' /\ ~Awaits(t)'
  <2>1. Sender(t)
    BY <1>3 DEF Sender, Sending
  <2>2. Unanswered(m)
    BY <1>1, <1>2, <2>1 DEF WhereInv
  <2> QED
    BY <1>7, <2>1, <2>2 DEF Sender, Awaits, Sending, Blocking, Idle
<1>9. WhereInv'
  <2>1. \A n \in ms : Unanswered(n)
    BY <1>4, <1>8
  <2>2. \A u \in Threads : Sender(u)' => Sender(u) /\ th'[u].m = th[u].m /\ th'[u].m \notin ms
    <3>1. ASSUME NEW u \in Threads, Sender(u)' PROVE Sender(u) /\ th'[u].m = th[u].m /\ th'[u].m \notin ms
      <4>1. u # t
        BY <1>8, <3>1
      <4>2. th'[u] = th[u] /\ Sender(u)
        BY <1>7, <3>1, <4>1 DEF Sender
      <4>3. th[u].m # m
        BY <1>1, <1>2, <1>8, <4>1, <4>2 DEF WhereInv
      <4> QED
        BY <1>4, <4>2, <4>3
    <3> QED
      BY <3>1
  <2>3. \A b \in Clients : \A i \in Notifications(b)' : Txs(b)'[i].m \notin ms
    <3>1. \A b \in Clients : \A i \in Notifications(b) : Txs(b)[i].m # m
      BY <1>1, <1>2, <1>8 DEF WhereInv
    <3> QED
      BY <1>4, <1>6, <3>1, FewerNotes
  <2> QED
    BY <1>1, <1>3, <1>4, <1>5, <1>6, <2>1, <2>2, <2>3, WhereStep
<1>10. LifeInv'
  <2>1. \A b \in Clients : ~connections'[b].valid => Notifications(b)' = {}
    BY <1>1, <1>6, FewerNotes DEF LifeInv
  <2>2. ~linked' => toListener' = <<>> /\ \A b \in Clients : ~connections'[b].valid
    BY <1>1, <1>3, <1>6 DEF LifeInv
  <2>3. ~driver'.up => driver'.pending = {} /\ driver'.taken = {}
    BY <1>1, <1>3 DEF LifeInv
  <2>4. \A u \in Threads : SendStays(u)
    <3>1. SendStays(t)
      BY <1>7 DEF SendStays, Idle, Sending, Blocking
    <3> QED
      BY <1>7, <3>1, NothingHappens
  <2>5. At("query") = {}
    BY <1>1 DEF CsFree
  <2>6. \A i \in DOMAIN toDriver' : IsQuery(toDriver'[i]) /\ toDriver'[i].own =>
           \E j \in DOMAIN toDriver : toDriver'[i] = toDriver[j]
    BY <1>3
  <2> QED
    BY <1>1, <2>1, <2>2, <2>3, <2>4, <2>5, <2>6, LifeQuiet
<1>11. ASSUME ~Confused' PROVE TrueInv'
  <2>1. TrueInv /\ bus' = bus /\ spoilt' = spoilt /\ driver' = driver /\ toListener' = toListener
    BY <1>1, <1>3, <1>11 DEF Confused
  <2>2. \A n \in Sends : TRUE \in ToSet(told'[n]) => n \in bus' \/ Excused(n)'
    <3>1. \A n \in ms : Unanswered(n) /\ (ok => n \in bus' \/ Excused(n)')
      <4>1. ok => m \in bus \/ Excused(m)
        <5>1. CASE ok
          <6>1. ok = TRUE
            BY <1>5, <5>1
          <6>2. TRUE \in ReturnCodes(connections[th[t].c], th[t].id)
            BY <1>2, <1>4, <6>1
          <6> QED
            BY <1>1, <1>2, <1>3, <2>1, <6>2, ReturnIsTrue
        <5> QED
          BY <5>1
      <4>2. Excused(m) => Excused(m)'
        BY <2>1 DEF Excused, Met
      <4> QED
        BY <1>4, <1>8, <2>1, <4>1, <4>2
    <3>2. \A n \in Sends : TRUE \in ToSet(told[n]) => n \in bus \/ Excused(n)
      BY <2>1 DEF TrueInv
    <3> QED
      BY <1>1, <1>4, <1>5, <2>1, <3>1, <3>2, ToldTruly
  <2>3. Coming' = Coming
    BY <2>1 DEF Coming
  <2>4. HeardTrue' /\ (driver'.up => \A p \in Coming' : ~p.notify => p.id <= driver'.block)
    BY <2>1, <2>3 DEF TrueInv, HeardTrue
  <2>5. ASSUME NEW b \in Clients PROVE ListOK(b)'
    <3>1. ListOK(b) /\ connections'[b].valid = connections[b].valid /\ Within(Txs(b)', Txs(b))
      BY <1>6, <2>1 DEF TrueInv
    <3>2. \A i \in DOMAIN Txs(b)' : \E j \in DOMAIN Txs(b) : Txs(b)'[i] = Txs(b)[j]
      BY <1>6
    <3>3. connections'[b].valid => Transmitted(Txs(b)', bus')
      BY <2>1, <3>1, <3>2 DEF ListOK, Transmitted
    <3> QED
      BY <2>1, <2>3, <3>1, <3>3, ListStays
  <2>6. ASSUME NEW u \in Threads PROVE CleanOK(u)'
    <3>1. CASE u = t
      <4>1. ~Clean(t)'
        BY <1>8 DEF Clean
      <4> QED
        BY <3>1, <4>1 DEF CleanOK
    <3>2. CASE u # t
      <4>1. th'[u] = th[u] /\ CleanOK(u) /\ AwaitsStill(u)
        BY <1>7, <2>1, <3>2 DEF TrueInv, AwaitsStill, Awaits
      <4>2. PICK b \in Clients : b = th[u].c
        BY <1>1, ThreadTypes
      <4>3. \A w \in Threads : Awaits(w)' /\ w # u /\ th'[w].c = th[u].c /\ th'[w].id = th[u].id =>
              Awaits(w) /\ th'[w].c = th[w].c /\ th'[w].id = th[w].id
        BY <1>7, <1>8 DEF Awaits
      <4>4. ASSUME Awaits(u), connections'[b].valid, ~Excused(th[u].m)', Mine(u, Txs(b)) # {}
            PROVE  Mine(u, Txs(b))' # {}
        <5>1. PICK j \in DOMAIN Txs(b) :
                /\ ~Txs(b)[j].notify /\ Txs(b)[j].id = th[u].id /\ Txs(b)[j].m = th[u].m
                /\ th[u].at = "woken" \/ th[u].op = "claim" => Txs(b)[j].code # "uninitialised"
          BY <4>4 DEF Mine
        <5>2. b = c => th[u].id # id
          <6>1. ~Excused(th[u].m)
            BY <2>1, <4>1, <4>4 DEF Excused, Met
          <6>2. Clean(u)
            BY <1>6, <4>2, <4>4, <6>1 DEF Clean
          <6>3. Awaits(t)
            BY <1>3 DEF Awaits
          <6> QED
            BY <1>2, <3>2, <4>1, <4>2, <6>2, <6>3 DEF CleanOK
        <5>3. \E i \in DOMAIN Txs(b)' : Txs(b)'[i] = Txs(b)[j]
          BY <1>6, <5>1, <5>2
        <5> QED
          BY <4>1, <5>1, <5>3 DEF Mine
      <4>5. Awaits(u) /\ connections'[b].valid /\ ~Excused(th[u].m)' =>
              connections[b].valid /\ (Mine(u, Txs(b)) # {} => Mine(u, Txs(b))' # {})
        BY <1>6, <4>4
      <4> QED
        BY <2>1, <4>1, <4>2, <4>3, <4>5, CleanStays
    <3> QED
      BY <3>1, <3>2
  <2> QED
    BY <2>2, <2>4, <2>5, <2>6 DEF TrueInv
<1> QED
  BY <1>9, <1>10, <1>11 DEF ToldInv

(***************************************************************************)
(* The listener hears of an outcome.                                       *)
(***************************************************************************)
\* What it heard leaves all but lists and threads as TrueInv wants it.
Heard(x) ==
  /\ x \in Outcomes /\ Promise(x) \in Coming
  /\ linked /\ CsFree /\ UNCHANGED <<linked, driver, bus, allowance, spoilt>>
  /\ Coming' \subseteq Coming
  /\ HeardTrue => HeardTrue' /\ (x.ok => x.m \in bus)

LEMMA HeardFacts ==
  ASSUME IdsInv, HearOutcome, NEW x, x = Head(toListener)
  PROVE  Heard(x)
<1>1. /\ LibraryTypeOK /\ toListener \in Seq(News)
      /\ linked /\ CsFree /\ toListener # <<>> /\ x.kind = "outcome" /\ toListener' = Tail(toListener)
      /\ UNCHANGED <<linked, driver, bus, allowance, spoilt>>
  BY DEF HearOutcome, Listening, IdsInv, LibraryTypeOK
<1>2. x \in Outcomes
  <2>1. x \in News
    BY <1>1, ListenerQueue
  <2> QED
    BY <1>1, <2>1 DEF News
<1>3. Announced(toListener') \subseteq Announced(toListener) /\ Promise(x) \in Announced(toListener)
  BY <1>1, AnnouncedFacts
<1>4. HeardTrue => HeardTrue' /\ (x.ok => x.m \in bus)
  <2>1. 1 \in DOMAIN toListener /\ x = toListener[1]
    BY <1>1, LenProperties, EmptySeq
  <2>2. \A i \in DOMAIN toListener' : \E j \in DOMAIN toListener : toListener'[i] = toListener[j]
    BY <1>1, TailIsPart
  <2> QED
    BY <1>1, <2>1, <2>2 DEF HeardTrue
<1> QED
  BY <1>1, <1>2, <1>3, <1>4 DEF Coming, Heard

\* A transaction changes, or goes, and threads wake.
LEMMA HeardLife ==
  ASSUME IdsInv, ToldInv, NEW x, Heard(x),
         \A b \in Clients : connections'[b].valid = connections[b].valid /\ Within(Txs(b)', Txs(b)),
         \A u \in Threads : SendStays(u),
         toDriver' = toDriver \/ toDriver' = Append(toDriver, FreeMsgId(x.id))
  PROVE  LifeInv'
<1>1. LifeInv /\ toDriver \in Seq(Datagrams)
  BY DEF ToldInv, IdsInv, LibraryTypeOK
<1>2. \A b \in Clients : ~connections'[b].valid => Notifications(b)' = {}
  BY <1>1, FewerNotes DEF LifeInv
<1>3. linked' /\ (~driver'.up => driver'.pending = {} /\ driver'.taken = {})
  BY <1>1 DEF LifeInv, Heard
<1>4. At("query") = {}
  BY DEF CsFree, Heard
<1>5. \A i \in DOMAIN toDriver' : IsQuery(toDriver'[i]) /\ toDriver'[i].own =>
         \E j \in DOMAIN toDriver : toDriver'[i] = toDriver[j]
  <2>1. FreeMsgId(x.id) \in Datagrams /\ ~IsQuery(FreeMsgId(x.id))
    BY DEF Heard, Outcomes, FreeMsgId, Datagrams, Freeing, IsQuery
  <2>2. PICK y \in Datagrams : y = FreeMsgId(x.id) /\ ~IsQuery(y)
    BY <2>1
  <2>3. CASE toDriver' = Append(toDriver, y)
    <3>1. \A i \in DOMAIN toDriver' : toDriver'[i] = y \/ \E j \in DOMAIN toDriver : toDriver'[i] = toDriver[j]
      BY <1>1, <2>3, AppendProperties, LenProperties
    <3> QED
      BY <2>2, <3>1
  <2> QED
    BY <2>2, <2>3
<1> QED
  BY <1>1, <1>2, <1>3, <1>4, <1>5, LifeQuiet

\* The outcome of a notified send.
LEMMA NotifiedTold ==
  ASSUME IdsInv, ToldInv, NEW x, Heard(x), x.notify, NEW c \in Clients, c = x.c,
         NEW i \in DOMAIN Txs(c), Txs(c)[i].notify, Txs(c)[i].id = x.id,
         NEW m, m = Txs(c)[i].m, NEW ms, ms = {m}, NEW ok \in BOOLEAN, ok = x.ok, Tell(ms, ok),
         \A b \in Clients : connections'[b].valid = connections[b].valid,
         \A b \in Clients \ {c} : Txs(b)' = Txs(b), Txs(c)' = RemoveAt(Txs(c), i),
         \A u \in Threads : /\ SendStays(u) /\ th'[u].op = th[u].op /\ th'[u].c = th[u].c
                            /\ th'[u].m = th[u].m /\ th'[u].id = th[u].id /\ th'[u].at = th[u].at,
         toDriver' = toDriver \/ toDriver' = Append(toDriver, FreeMsgId(x.id))
  PROVE  ToldInv'
<1>1. /\ LibraryTypeOK /\ WhereInv /\ LifeInv /\ (~Confused => TrueInv)
      /\ Txs(c) \in Seq(Transactions) /\ i \in Notifications(c)
  <2>1. connections[c] \in Connection
    BY DEF IdsInv, LibraryTypeOK
  <2> QED
    BY <2>1 DEF IdsInv, ToldInv, Txs, Connection, Notifications
<1>2. /\ Within(Txs(c)', Txs(c))
      /\ \A j \in DOMAIN Txs(c)' : \E k \in DOMAIN Txs(c) \ {i} : Txs(c)'[j] = Txs(c)[k]
      /\ \A k \in DOMAIN Txs(c) \ {i} : \E j \in DOMAIN Txs(c)' : Txs(c)'[j] = Txs(c)[k]
  <2>1. PICK s \in Seq(Transactions) : s = Txs(c)
    BY <1>1
  <2>2. PICK r : r = RemoveAt(s, i)
    OBVIOUS
  <2>3. i \in DOMAIN s
    BY <2>1
  <2>4. /\ Within(r, s)
        /\ \A j \in DOMAIN r : \E k \in DOMAIN s \ {i} : r[j] = s[k]
        /\ \A k \in DOMAIN s \ {i} : \E j \in DOMAIN r : r[j] = s[k]
    BY <2>2, <2>3, WithinRemoved
  <2>5. Txs(c)' = r
    BY <2>1, <2>2
  <2> QED
    BY <2>1, <2>4, <2>5
<1>3. \A b \in Clients : connections'[b].valid = connections[b].valid /\ Within(Txs(b)', Txs(b))
  BY <1>2, WithinSame
<1>4. Unanswered(m)
  BY <1>1 DEF WhereInv
<1>5. WhereInv'
  <2>1. \A n \in ms : Unanswered(n)
    BY <1>4
  <2>2. \A u \in Threads : Sender(u)' => Sender(u) /\ th'[u].m = th[u].m /\ th'[u].m \notin ms
    BY <1>1 DEF Sender, WhereInv
  <2>3. \A b \in Clients : \A l \in Notifications(b)' : Txs(b)'[l].m \notin ms
    <3>1. ASSUME NEW b \in Clients, NEW l \in Notifications(b)' PROVE Txs(b)'[l].m # m
      <4>1. CASE b # c
        <5>1. Notifications(b)' = Notifications(b)
          BY <4>1 DEF Notifications, Txs
        <5> QED
          BY <1>1, <3>1, <4>1, <5>1 DEF WhereInv
      <4>2. CASE b = c
        <5>1. l \in DOMAIN Txs(c)' /\ Txs(c)'[l].notify
          BY <3>1, <4>2 DEF Notifications, Txs
        <5>2. PICK k \in DOMAIN Txs(c) \ {i} : Txs(c)'[l] = Txs(c)[k]
          BY <1>2, <5>1
        <5>3. k \in Notifications(c)
          BY <5>1, <5>2 DEF Notifications, Txs
        <5> QED
          BY <1>1, <4>2, <5>2, <5>3 DEF WhereInv
      <4> QED
        BY <4>1, <4>2
    <3> QED
      BY <3>1
  <2>4. allowance'["send"] = allowance["send"]
    BY DEF Heard
  <2> QED
    BY <1>1, <1>3, <2>1, <2>2, <2>3, <2>4, WhereStep
<1>6. LifeInv'
  BY <1>3, HeardLife
<1>7. ASSUME ~Confused' PROVE TrueInv'
  <2>1. TrueInv /\ bus' = bus /\ spoilt' = spoilt /\ driver' = driver /\ Coming' \subseteq Coming
    BY <1>1, <1>7 DEF Heard, Confused
  <2>2. \A n \in Sends : TRUE \in ToSet(told'[n]) => n \in bus' \/ Excused(n)'
    <3>1. ok => m \in bus \/ Excused(m)
      <4>1. connections[c].valid
        BY <1>1 DEF LifeInv
      <4>2. Matching(Txs(c), c, Coming, spoilt)
        BY <2>1, <4>1 DEF TrueInv, ListOK
      <4>3. /\ Promise(x) \in Coming /\ Promise(x).c = c /\ Promise(x).notify = Txs(c)[i].notify
            /\ Promise(x).id = Txs(c)[i].id /\ Promise(x).m = x.m
        <5>1. Txs(c)[i] \in Transactions /\ x \in Outcomes
          BY <1>1, LenProperties, ElementOfSeq DEF Heard
        <5>2. Txs(c)[i].notify \in BOOLEAN /\ x.notify \in BOOLEAN
          BY <5>1 DEF Transactions, Outcomes
        <5> QED
          BY <5>2 DEF Heard, Promise
      <4>4. x.m = m \/ <<m, "reused">> \in spoilt
        BY <4>2, <4>3 DEF Matching
      <4>5. ok => x.m \in bus
        BY <2>1 DEF Heard, TrueInv
      <4> QED
        BY <4>4, <4>5 DEF Excused, Met
    <3>2. Excused(m) => Excused(m)'
      BY <2>1 DEF Excused, Met
    <3>3. \A n \in ms : Unanswered(n) /\ (ok => n \in bus' \/ Excused(n)')
      BY <1>4, <2>1, <3>1, <3>2
    <3>4. \A n \in Sends : TRUE \in ToSet(told[n]) => n \in bus \/ Excused(n)
      BY <2>1 DEF TrueInv
    <3> QED
      BY <1>1, <2>1, <3>3, <3>4, ToldTruly
  <2>3. HeardTrue' /\ (driver'.up => \A p \in Coming' : ~p.notify => p.id <= driver'.block)
    BY <2>1 DEF TrueInv, Heard
  <2>4. ASSUME NEW b \in Clients PROVE ListOK(b)'
    <3>1. ListOK(b)
      BY <2>1 DEF TrueInv
    <3>2. \A l \in DOMAIN Txs(b)' : \E k \in DOMAIN Txs(b) : Txs(b)'[l] = Txs(b)[k]
      BY <1>2
    <3>3. connections'[b].valid => Transmitted(Txs(b)', bus')
      BY <2>1, <3>1, <3>2 DEF ListOK, Transmitted
    <3> QED
      BY <1>3, <2>1, <3>1, <3>3, ListStays
  <2>5. ASSUME NEW u \in Threads PROVE CleanOK(u)'
    <3>1. CleanOK(u) /\ AwaitsStill(u)
      BY <2>1 DEF TrueInv, AwaitsStill, Awaits
    <3>2. PICK b : b = th[u].c /\ b \in Clients
      BY <1>1, ThreadTypes
    <3>3. \A w \in Threads : Awaits(w)' /\ w # u /\ th'[w].c = th[u].c /\ th'[w].id = th[u].id =>
            Awaits(w) /\ th'[w].c = th[w].c /\ th'[w].id = th[w].id
      BY DEF Awaits
    <3>4. ASSUME Mine(u, Txs(b)) # {} PROVE Mine(u, Txs(b))' # {}
      <4>1. PICK j \in DOMAIN Txs(b) :
              /\ ~Txs(b)[j].notify /\ Txs(b)[j].id = th[u].id /\ Txs(b)[j].m = th[u].m
              /\ th[u].at = "woken" \/ th[u].op = "claim" => Txs(b)[j].code # "uninitialised"
        BY <3>4 DEF Mine
      <4>2. \E l \in DOMAIN Txs(b)' : Txs(b)'[l] = Txs(b)[j]
        <5>1. CASE b = c
          <6>1. j # i
            BY <4>1, <5>1
          <6> QED
            BY <1>2, <5>1, <6>1
        <5>2. CASE b # c
          <6>1. Txs(b)' = Txs(b)
            BY <3>2, <5>2
          <6> QED
            BY <6>1
        <5> QED
          BY <5>1, <5>2
      <4> QED
        BY <4>1, <4>2 DEF Mine
    <3> QED
      BY <2>1, <3>1, <3>2, <3>3, <3>4, CleanStays
  <2> QED
    BY <2>2, <2>3, <2>4, <2>5 DEF TrueInv
<1> QED
  BY <1>5, <1>6, <1>7 DEF ToldInv

\* A transaction with another code.
LEMMA CodeSet ==
  ASSUME NEW s \in Seq(Transactions), NEW i \in DOMAIN s, NEW z \in Transactions,
         z.notify = s[i].notify, z.id = s[i].id, z.m = s[i].m, NEW r, r = [s EXCEPT ![i] = z]
  PROVE  /\ DOMAIN r = DOMAIN s /\ Within(r, s) /\ r[i] = z
         /\ \A j \in DOMAIN s : r[j].notify = s[j].notify /\ r[j].id = s[j].id /\ r[j].m = s[j].m
         /\ \A j \in DOMAIN s \ {i} : r[j] = s[j]
<1>1. DOMAIN r = DOMAIN s /\ r[i] = z /\ \A j \in DOMAIN s \ {i} : r[j] = s[j]
  BY ExceptSeq
<1>2. \A j \in DOMAIN s : r[j].notify = s[j].notify /\ r[j].id = s[j].id /\ r[j].m = s[j].m
  BY <1>1
<1>3. Within(r, s)
  <2> DEFINE f == [j \in DOMAIN r |-> j]
  <2>1. f \in [DOMAIN r -> DOMAIN s] /\ \A j \in DOMAIN r : f[j] = j
    BY <1>1
  <2> HIDE DEF f
  <2>2. \A j, k \in DOMAIN r : f[j] = f[k] => j = k
    BY <2>1
  <2>3. \A j \in DOMAIN r : r[j].notify = s[f[j]].notify /\ r[j].id = s[f[j]].id /\ r[j].m = s[f[j]].m
    BY <1>1, <1>2, <2>1
  <2> QED
    BY <2>1, <2>2, <2>3 DEF Within
<1> QED
  BY <1>1, <1>2, <1>3

LEMMA CodeOf ==
  ASSUME NEW c \in Clients, Txs(c) \in Seq(Transactions), NEW i \in DOMAIN Txs(c),
         NEW code \in {"failed", "ok"}, Txs(c)' = [Txs(c) EXCEPT ![i].code = code]
  PROVE  /\ DOMAIN Txs(c)' = DOMAIN Txs(c) /\ Within(Txs(c)', Txs(c)) /\ Txs(c)'[i].code = code
         /\ \A j \in DOMAIN Txs(c) : /\ Txs(c)'[j].notify = Txs(c)[j].notify
                                     /\ Txs(c)'[j].id = Txs(c)[j].id /\ Txs(c)'[j].m = Txs(c)[j].m
         /\ \A j \in DOMAIN Txs(c) \ {i} : Txs(c)'[j] = Txs(c)[j]
<1>1. PICK s \in Seq(Transactions) : s = Txs(c)
  OBVIOUS
<1>2. PICK z : z = [s[i] EXCEPT !.code = code]
  OBVIOUS
<1>3. PICK r : r = [s EXCEPT ![i] = z]
  OBVIOUS
<1>4. i \in DOMAIN s
  BY <1>1
<1>7. s[i] \in Transactions
  BY <1>4, LenProperties, ElementOfSeq
<1>8. z \in Transactions /\ z.notify = s[i].notify /\ z.id = s[i].id /\ z.m = s[i].m /\ z.code = code
  BY <1>2, <1>7 DEF Transactions
<1>5. /\ DOMAIN r = DOMAIN s /\ Within(r, s) /\ r[i] = z
      /\ \A j \in DOMAIN s : r[j].notify = s[j].notify /\ r[j].id = s[j].id /\ r[j].m = s[j].m
      /\ \A j \in DOMAIN s \ {i} : r[j] = s[j]
  BY <1>3, <1>4, <1>8, CodeSet
<1>6. Txs(c)' = r
  BY <1>1, <1>2, <1>3
<1> QED
  BY <1>1, <1>5, <1>6, <1>8

\* The outcome of a blocked send.
LEMMA BlockedTold ==
  ASSUME IdsInv, ToldInv, NEW x, Heard(x), ~x.notify, NEW c \in Clients, c = x.c,
         NEW i \in DOMAIN Txs(c), ~Txs(c)[i].notify, Txs(c)[i].id = x.id,
         NEW code, code = IF x.ok THEN "ok" ELSE "failed", told' = told,
         \A b \in Clients : connections'[b].valid = connections[b].valid,
         \A b \in Clients \ {c} : Txs(b)' = Txs(b), Txs(c)' = [Txs(c) EXCEPT ![i].code = code],
         \A u \in Threads : /\ SendStays(u) /\ th'[u].op = th[u].op /\ th'[u].c = th[u].c
                            /\ th'[u].m = th[u].m /\ th'[u].id = th[u].id
                            /\ u \notin Senders(c, x.id) => th'[u].at = th[u].at,
         toDriver' = toDriver
  PROVE  ToldInv'
<1>1. /\ LibraryTypeOK /\ WhereInv /\ LifeInv /\ (~Confused => TrueInv) /\ Txs(c) \in Seq(Transactions)
  <2>1. connections[c] \in Connection
    BY DEF IdsInv, LibraryTypeOK
  <2> QED
    BY <2>1 DEF IdsInv, ToldInv, Txs, Connection
<1>2. /\ DOMAIN Txs(c)' = DOMAIN Txs(c) /\ Within(Txs(c)', Txs(c)) /\ Txs(c)'[i].code = code
      /\ \A j \in DOMAIN Txs(c) : /\ Txs(c)'[j].notify = Txs(c)[j].notify
                                  /\ Txs(c)'[j].id = Txs(c)[j].id /\ Txs(c)'[j].m = Txs(c)[j].m
      /\ \A j \in DOMAIN Txs(c) \ {i} : Txs(c)'[j] = Txs(c)[j]
  <2>1. code = "failed" \/ code = "ok"
    OBVIOUS
  <2> QED
    BY <1>1, <2>1, CodeOf
<1>3. \A b \in Clients : connections'[b].valid = connections[b].valid /\ Within(Txs(b)', Txs(b))
  BY <1>2, WithinSame
<1>4. WhereInv'
  <2>1. PICK ms, ok : ms = {} /\ ok \in BOOLEAN
    OBVIOUS
  <2>2. \A n \in ms : Unanswered(n)
    BY <2>1
  <2>3. \A u \in Threads : Sender(u)' => Sender(u) /\ th'[u].m = th[u].m /\ th'[u].m \notin ms
    BY <2>1 DEF Sender
  <2>4. \A b \in Clients : \A l \in Notifications(b)' : Txs(b)'[l].m \notin ms
    BY <2>1
  <2>5. allowance'["send"] = allowance["send"]
    BY DEF Heard
  <2> QED
    BY <1>1, <1>3, <2>1, <2>2, <2>3, <2>4, <2>5, WhereStep
<1>5. LifeInv'
  BY <1>3, HeardLife
<1>6. ASSUME ~Confused' PROVE TrueInv'
  <2>1. TrueInv /\ bus' = bus /\ spoilt' = spoilt /\ driver' = driver /\ Coming' \subseteq Coming
    BY <1>1, <1>6 DEF Heard, Confused
  <2>2. \A n \in Sends : TRUE \in ToSet(told'[n]) => n \in bus' \/ Excused(n)'
    <3>1. \A n : Excused(n) => Excused(n)'
      BY <2>1 DEF Excused, Met
    <3> QED
      BY <2>1, <3>1 DEF TrueInv
  <2>3. HeardTrue' /\ (driver'.up => \A p \in Coming' : ~p.notify => p.id <= driver'.block)
    BY <2>1 DEF TrueInv, Heard
  <2>4. connections[c].valid /\ x.ok => Txs(c)[i].m \in bus
    <3>1. SUFFICES ASSUME connections[c].valid, x.ok PROVE Txs(c)[i].m \in bus
      OBVIOUS
    <3>2. Matching(Txs(c), c, Coming, spoilt)
      BY <2>1, <3>1 DEF TrueInv, ListOK
    <3>3. /\ Promise(x) \in Coming /\ Promise(x).c = c /\ Promise(x).notify = Txs(c)[i].notify
          /\ Promise(x).id = Txs(c)[i].id /\ Promise(x).m = x.m
      <4>1. Txs(c)[i] \in Transactions /\ x \in Outcomes
        BY <1>1, LenProperties, ElementOfSeq DEF Heard
      <4>2. Txs(c)[i].notify \in BOOLEAN /\ x.notify \in BOOLEAN
        BY <4>1 DEF Transactions, Outcomes
      <4> QED
        BY <4>2 DEF Heard, Promise
    <3>4. x.m = Txs(c)[i].m
      BY <3>2, <3>3 DEF Matching
    <3> QED
      BY <2>1, <3>1, <3>4 DEF Heard, TrueInv
  <2>5. ASSUME NEW b \in Clients PROVE ListOK(b)'
    <3>1. ListOK(b)
      BY <2>1 DEF TrueInv
    <3>2. CASE b = c
      <4>1. connections'[c].valid => Transmitted(Txs(c), bus)
        BY <3>1, <3>2 DEF ListOK
      <4>2. code = "ok" => x.ok
        OBVIOUS
      <4>3. connections'[c].valid => Transmitted(Txs(c)', bus')
        BY <1>2, <2>1, <2>4, <4>1, <4>2 DEF Transmitted
      <4> QED
        BY <1>3, <2>1, <3>1, <3>2, <4>3, ListStays
    <3>3. CASE b # c
      <4>1. connections'[b].valid => Transmitted(Txs(b)', bus')
        BY <2>1, <3>1, <3>3 DEF ListOK
      <4> QED
        BY <1>3, <2>1, <3>1, <4>1, ListStays
    <3> QED
      BY <3>2, <3>3
  <2>6. ASSUME NEW u \in Threads PROVE CleanOK(u)'
    <3>1. CleanOK(u) /\ AwaitsStill(u)
      <4>1. Awaits(u)' => Awaits(u)
        <5>1. u \in Senders(c, x.id) => th[u].at = "waiting"
          BY DEF Senders, At
        <5> QED
          BY <5>1 DEF Awaits
      <4> QED
        BY <2>1, <4>1 DEF TrueInv, AwaitsStill
    <3>2. PICK b : b = th[u].c /\ b \in Clients
      BY <1>1, ThreadTypes
    <3>3. \A w \in Threads : Awaits(w)' /\ w # u /\ th'[w].c = th[u].c /\ th'[w].id = th[u].id =>
            Awaits(w) /\ th'[w].c = th[w].c /\ th'[w].id = th[w].id
      <4>1. \A w \in Senders(c, x.id) : th[w].at = "waiting"
        BY DEF Senders, At
      <4> QED
        BY <4>1 DEF Awaits
    <3>4. ASSUME Awaits(u), connections'[b].valid, Mine(u, Txs(b)) # {} PROVE Mine(u, Txs(b))' # {}
      <4>1. PICK j \in DOMAIN Txs(b) :
              /\ ~Txs(b)[j].notify /\ Txs(b)[j].id = th[u].id /\ Txs(b)[j].m = th[u].m
              /\ th[u].at = "woken" \/ th[u].op = "claim" => Txs(b)[j].code # "uninitialised"
        BY <3>4 DEF Mine
      <4>2. /\ j \in DOMAIN Txs(b)' /\ ~Txs(b)'[j].notify /\ Txs(b)'[j].id = th[u].id
            /\ Txs(b)'[j].m = th[u].m
            /\ Txs(b)'[j].code = Txs(b)[j].code \/ (b = c /\ j = i /\ Txs(b)'[j].code # "uninitialised")
        <5>1. CASE b = c
          BY <1>2, <4>1, <5>1
        <5>2. CASE b # c
          <6>1. Txs(b)' = Txs(b)
            BY <3>2, <5>2
          <6> QED
            BY <4>1, <6>1
        <5> QED
          BY <5>1, <5>2
      <4>3. u \in Senders(c, x.id) => Txs(b)'[j].code # "uninitialised"
        <5>1. SUFFICES ASSUME u \in Senders(c, x.id) PROVE b = c /\ j = i
          BY <1>2
        <5>2. b = c /\ th[u].id = x.id
          BY <3>2, <5>1 DEF Senders
        <5>3. Distinct(Txs(c))
          BY <2>1, <3>4, <5>2 DEF TrueInv, ListOK
        <5> QED
          BY <4>1, <5>2, <5>3 DEF Distinct
      <4>4. th'[u].at = "woken" \/ th'[u].op = "claim" => Txs(b)'[j].code # "uninitialised"
        BY <4>1, <4>2, <4>3
      <4> QED
        BY <4>2, <4>4 DEF Mine
    <3> QED
      BY <2>1, <3>1, <3>2, <3>3, <3>4, CleanStays
  <2> QED
    BY <2>2, <2>3, <2>5, <2>6 DEF TrueInv
<1> QED
  BY <1>4, <1>5, <1>6 DEF ToldInv

LEMMA HearOutcomeTold ==
  ASSUME IdsInv, ToldInv, HearOutcome
  PROVE  ToldInv'
<1>1. PICK x : x = Head(toListener)
  OBVIOUS
<1>2. /\ LibraryTypeOK /\ LifeInv /\ Heard(x) /\ connections \in [Clients -> Connection]
      /\ toListener' = Tail(toListener)
  BY <1>1, HeardFacts DEF IdsInv, ToldInv, LibraryTypeOK, HearOutcome
<1>3. PICK c, n, id : c = x.c /\ c \in Clients /\ n = x.notify /\ n \in BOOLEAN /\ id = x.id
  BY <1>2 DEF Heard, Outcomes
<1>4. PICK k \in Connection : k = connections[c]
  BY <1>2, <1>3
<1>5. linked' = linked /\ driver' = driver /\ bus' = bus /\ allowance' = allowance /\ spoilt' = spoilt
      /\ Coming' \subseteq Coming /\ (HeardTrue => HeardTrue') /\ linked
  BY <1>2 DEF Heard
<1>6. CASE Found(k, n, id) = {}
  <2>1. UNCHANGED <<connections, th, told, toDriver>>
    BY <1>1, <1>3, <1>4, <1>6 DEF HearOutcome
  <2>2. \A t \in Threads : SendStays(t) /\ (Awaits(t)' => WokenSafely(t))
    BY <2>1, NothingHappens
  <2>3. \A b \in Clients : connections'[b].valid = connections[b].valid /\ Txs(b)' = Txs(b)
    BY <2>1 DEF Txs
  <2>4. ~driver'.up => driver'.pending = {} /\ driver'.taken = {}
    BY <1>2, <1>5 DEF LifeInv
  <2> QED
    BY <1>2, <1>5, <2>1, <2>2, <2>3, <2>4, ToldQuiet
<1>7. CASE Found(k, n, id) # {}
  <2>1. PICK i : i = First(k, n, id)
    OBVIOUS
  <2>2. PICK j : j = UpdateTransaction(k, i, x.ok)
    OBVIOUS
  <2>3. /\ connections' = [connections EXCEPT ![c] = j]
        /\ th' = After(IF n THEN {} ELSE Senders(c, id), {}, {})
        /\ Tell(IF n THEN {k.transactions[i].m} ELSE {}, x.ok)
        /\ toDriver' = IF n /\ driver.up THEN Append(toDriver, FreeMsgId(id)) ELSE toDriver
    BY <1>1, <1>3, <1>4, <1>7, <2>1, <2>2 DEF HearOutcome
  <2>4. /\ i \in DOMAIN k.transactions /\ (k.transactions[i].notify <=> n) /\ k.transactions[i].id = id
        /\ k.transactions \in Seq(Transactions)
    BY <1>3, <1>7, <2>1, FoundFacts
  <2>5. /\ connections'[c] = j /\ \A b \in Clients \ {c} : connections'[b] = connections[b]
    BY <1>2, <1>3, <2>3
  <2>6. /\ Txs(c) = k.transactions /\ Txs(c)' = j.transactions
        /\ \A b \in Clients \ {c} : Txs(b)' = Txs(b)
    BY <1>4, <2>5 DEF Txs
  <2>7. PICK W, none : none = {} /\ W = (IF n THEN none ELSE Senders(c, id)) /\ th' = After(W, none, none)
    BY <2>3
  <2>8. W \subseteq At("waiting")
    BY <2>7, Woken
  <2>9. \A u \in Threads : /\ SendStays(u) /\ th'[u].op = th[u].op /\ th'[u].c = th[u].c
                           /\ th'[u].m = th[u].m /\ th'[u].id = th[u].id
                           /\ u \notin W => th'[u].at = th[u].at
    <3>1. TAKE u \in Threads
    <3>2. u \notin none /\ (u \notin W => u \notin W \cup none)
      BY <2>7
    <3>3. /\ SendStays(u)
          /\ u \notin none => /\ th'[u].op = th[u].op /\ th'[u].c = th[u].c
                              /\ th'[u].m = th[u].m /\ th'[u].id = th[u].id
          /\ u \notin W \cup none => th'[u].at = th[u].at
      BY <1>2, <2>7, <2>8, AfterSends
    <3> QED
      BY <3>2, <3>3
  <2>10. x.ok \in BOOLEAN
    BY <1>2 DEF Heard, Outcomes
  <2>11. CASE n
    <3>1. j = [k EXCEPT !.transactions = RemoveAt(k.transactions, i)]
      BY <2>2, <2>4, <2>11 DEF UpdateTransaction
    <3>2. j.transactions = RemoveAt(k.transactions, i) /\ j.valid = k.valid
      BY <3>1 DEF Connection
    <3>3. PICK m, ms, ok : m = k.transactions[i].m /\ ms = {m} /\ ok = x.ok /\ Tell(ms, ok)
      BY <2>3, <2>11
    <3>4. i \in DOMAIN Txs(c) /\ Txs(c)[i].notify /\ Txs(c)[i].id = x.id /\ m = Txs(c)[i].m
          /\ Txs(c)' = RemoveAt(Txs(c), i) /\ x.notify
      BY <1>3, <2>4, <2>6, <2>11, <3>2, <3>3
    <3>5. \A b \in Clients : connections'[b].valid = connections[b].valid
      BY <1>4, <2>5, <3>2
    <3>6. \A u \in Threads : /\ SendStays(u) /\ th'[u].op = th[u].op /\ th'[u].c = th[u].c
                             /\ th'[u].m = th[u].m /\ th'[u].id = th[u].id /\ th'[u].at = th[u].at
      BY <2>7, <2>9, <2>11
    <3>7. toDriver' = toDriver \/ toDriver' = Append(toDriver, FreeMsgId(x.id))
      BY <1>3, <2>3
    <3>8. ok \in BOOLEAN
      BY <2>10, <3>3
    <3> QED
      BY <1>2, <1>3, <2>6, <3>3, <3>4, <3>5, <3>6, <3>7, <3>8, NotifiedTold
  <2>12. CASE ~n
    <3>1. PICK code : code = IF x.ok THEN "ok" ELSE "failed"
      OBVIOUS
    <3>2. j = [k EXCEPT !.transactions[i].code = code]
      BY <2>2, <2>4, <2>12, <3>1 DEF UpdateTransaction
    <3>3. j.transactions = [k.transactions EXCEPT ![i].code = code] /\ j.valid = k.valid
      BY <3>2 DEF Connection
    <3>4. i \in DOMAIN Txs(c) /\ ~Txs(c)[i].notify /\ Txs(c)[i].id = x.id
          /\ Txs(c)' = [Txs(c) EXCEPT ![i].code = code] /\ ~x.notify /\ toDriver' = toDriver
      BY <1>3, <2>3, <2>4, <2>6, <2>12, <3>3
    <3>5. \A b \in Clients : connections'[b].valid = connections[b].valid
      BY <1>4, <2>5, <3>3
    <3>6. \A u \in Threads : /\ SendStays(u) /\ th'[u].op = th[u].op /\ th'[u].c = th[u].c
                             /\ th'[u].m = th[u].m /\ th'[u].id = th[u].id
                             /\ u \notin Senders(c, x.id) => th'[u].at = th[u].at
      BY <1>3, <2>7, <2>9, <2>12
    <3>7. told' = told
      <4>1. Tell({}, x.ok)
        BY <2>3, <2>12
      <4> QED
        BY <4>1 DEF Tell, ToldInv, WhereInv
    <3> QED
      BY <1>2, <1>3, <2>6, <3>1, <3>4, <3>5, <3>6, <3>7, BlockedTold
  <2> QED
    BY <1>3, <2>11, <2>12
<1> QED
  BY <1>6, <1>7

(***************************************************************************)
(* Connections are cleared.                                                *)
(***************************************************************************)
\* What is left of the connections C, and of the threads.
Cleared(C, anew, done, defects) ==
  /\ \E ms : /\ Tell(ms, FALSE)
             /\ \A m : m \in ms <=> \E c \in C : \E i \in Notifications(c) : m = Txs(c)[i].m
  /\ \A b \in C : Notifications(b)' = {}
  /\ \A b \in anew : connections'[b].valid /\ Txs(b)' = <<>>
  /\ \A b \in C \ anew : ~connections'[b].valid
  /\ \A b \in Clients \ C : connections'[b].valid = connections[b].valid /\ Txs(b)' = Txs(b)
  /\ \A u \in Threads : SendStays(u) /\ (u \in done => th'[u] = Idle)
  /\ \A u \in Threads : Awaits(u)' /\ th[u].c \notin C => th'[u].at = th[u].at
  /\ At("query")' = {u \in At("query") : u \notin done}
  /\ spoilt' = spoilt \cup defects

LEMMA ClearEffects ==
  ASSUME LibraryTypeOK, NEW C, C \subseteq Clients, NEW anew, anew \subseteq C, NEW done,
         NEW d \in Seq(Datagrams), NEW defects, Clear(C, anew, done, d, defects)
  PROVE  Cleared(C, anew, done, defects)
<1>1. \E ms : /\ Tell(ms, FALSE)
              /\ \A m : m \in ms <=> \E c \in C : \E i \in Notifications(c) : m = Txs(c)[i].m
  <2> DEFINE ms == UNION {{connections[c].transactions[i].m : i \in Notifications(c)} : c \in C}
  <2>1. Tell(ms, FALSE)
    BY DEF Clear
  <2>2. \A m : m \in ms <=> \E c \in C : \E i \in Notifications(c) : m = Txs(c)[i].m
    BY DEF Txs
  <2> HIDE DEF ms
  <2> QED
    BY <2>1, <2>2
<1>2. \A b \in C : Notifications(b)' = {}
  <2>1. \A c \in C : \A id : Notes(connections'[c], id) = {}
    BY ClearFacts
  <2> QED
    BY <2>1 DEF Notes, Notifications
<1>3. \A b \in Clients : connections'[b] = CASE b \in anew -> [NoConnection EXCEPT !.valid = TRUE]
                           [] b \in C \ anew -> [NoConnection EXCEPT !.transactions = Failed(connections[b].transactions)]
                           [] OTHER -> connections[b]
  BY DEF Clear
<1>4. \A b \in anew : connections'[b].valid /\ Txs(b)' = <<>>
  <2>1. \A b \in anew : connections'[b] = [NoConnection EXCEPT !.valid = TRUE]
    BY <1>3
  <2> QED
    BY <2>1 DEF NoConnection, Txs
<1>5. \A b \in C \ anew : ~connections'[b].valid
  <2>1. \A b \in C \ anew : connections'[b] = [NoConnection EXCEPT !.transactions = Failed(connections[b].transactions)]
    BY <1>3
  <2> QED
    BY <2>1 DEF NoConnection
<1>6. \A b \in Clients \ C : connections'[b].valid = connections[b].valid /\ Txs(b)' = Txs(b)
  <2>1. \A b \in Clients \ C : connections'[b] = connections[b]
    BY <1>3
  <2> QED
    BY <2>1 DEF Txs
<1>7. PICK W, missed : /\ W \subseteq At("waiting") /\ th' = After(W, done, missed)
                       /\ \A u \in W : th[u].op \in Blocking => th[u].c \in C
  <2> DEFINE handles == UNION {ToSet(connections[c].recvMsgEvents) : c \in C}
             woken   == (UNION {ClearWakes(c) : c \in C}) \cup ConnectionStatusChanged(C, anew)
             missed  == UNION {Asleep(c) \cup Early(c) : c \in C}
  <2>1. \E V \in SetEvents(handles) : th' = After(V \cup woken, done, missed)
    BY DEF Clear
  <2>2. PICK V \in SetEvents(handles) : th' = After(V \cup woken, done, missed)
    BY <2>1
  <2>3. V \subseteq Readers
    BY <2>2, Woken
  <2>4. woken \subseteq At("waiting")
    BY Woken
  <2>5. \A u \in woken : th[u].op \in Blocking => th[u].c \in C
    <3>1. \A c : \A u \in ClearWakes(c) : th[u].c = c
      BY DEF ClearWakes, Senders
    <3>2. \A u \in ConnectionStatusChanged(C, anew) : th[u].op = "status"
      BY DEF ConnectionStatusChanged, Watchers
    <3> QED
      BY <3>1, <3>2 DEF Blocking
  <2>6. \A u \in V : th[u].op \notin Blocking /\ u \in At("waiting")
    BY <2>3 DEF Readers, Blocking
  <2> HIDE DEF woken, missed, handles
  <2>7. V \cup woken \subseteq At("waiting") /\ \A u \in V \cup woken : th[u].op \in Blocking => th[u].c \in C
    BY <2>4, <2>5, <2>6
  <2> QED
    BY <2>2, <2>7
<1>8. \A u \in Threads : SendStays(u) /\ (u \in done => th'[u] = Idle)
  BY <1>7, AfterSends
<1>9. ASSUME NEW u \in Threads, Awaits(u)', th[u].c \notin C PROVE th'[u].at = th[u].at
  <2>1. u \notin done
    BY <1>8, <1>9 DEF Awaits, Idle
  <2>2. th'[u].op = th[u].op /\ (u \notin W \cup done => th'[u].at = th[u].at)
    BY <1>7, <2>1, AfterSends
  <2>3. u \notin W
    BY <1>7, <1>9, <2>2 DEF Awaits
  <2> QED
    BY <2>1, <2>2, <2>3
<1>10. At("query")' = {u \in At("query") : u \notin done}
  <2>1. \A t \in Threads : th'[t].at = "query" <=> t \notin done /\ th[t].at = "query"
    BY ClearFacts
  <2> QED
    BY <2>1 DEF At
<1>11. spoilt' = spoilt \cup defects
  BY DEF Clear
<1> QED
  BY <1>1, <1>2, <1>4, <1>5, <1>6, <1>8, <1>9, <1>10, <1>11 DEF Cleared

\* Sends that end are told so, and those that wait for a connection that is set
\* up anew are excused.
LEMMA ClearTold ==
  ASSUME LibraryTypeOK, WhereInv, LifeInv, ~Confused => TrueInv,
         NEW C, C \subseteq Clients, NEW anew, anew \subseteq C, NEW done,
         NEW d \in Seq(Datagrams), NEW defects, Clear(C, anew, done, d, defects),
         \A u \in At("query") : u \in done,
         \A u \in Threads : Awaits(u) /\ th[u].c \in anew => <<th[u].m, "reconnect">> \in defects,
         allowance' = allowance, bus' = bus,
         ~driver'.up => driver'.pending = {} /\ driver'.taken = {},
         ~linked' => toListener' = <<>> /\ C = Clients /\ anew = {},
         ~Confused' => /\ Coming' \subseteq Coming /\ (HeardTrue => HeardTrue')
                       /\ driver'.up => driver.up /\ driver'.block = driver.block
  PROVE  ToldInv'
<1>0. Cleared(C, anew, done, defects)
  BY ClearEffects
<1>1. PICK ms, no : /\ no = FALSE /\ Tell(ms, no)
                    /\ \A m : m \in ms <=> \E c \in C : \E i \in Notifications(c) : m = Txs(c)[i].m
  <2>1. PICK ms : /\ Tell(ms, FALSE)
                  /\ \A m : m \in ms <=> \E c \in C : \E i \in Notifications(c) : m = Txs(c)[i].m
    BY <1>0 DEF Cleared
  <2> QED
    BY <2>1
<1>2. /\ \A b \in C : Notifications(b)' = {}
      /\ \A b \in anew : connections'[b].valid /\ Txs(b)' = <<>>
      /\ \A b \in C \ anew : ~connections'[b].valid
      /\ \A b \in Clients \ C : connections'[b].valid = connections[b].valid /\ Txs(b)' = Txs(b)
  BY <1>0 DEF Cleared
<1>3. /\ \A u \in Threads : SendStays(u) /\ (u \in done => th'[u] = Idle)
      /\ \A u \in Threads : Awaits(u)' /\ th[u].c \notin C => th'[u].at = th[u].at
      /\ At("query")' = {} /\ spoilt' = spoilt \cup defects
  <2>1. /\ \A u \in Threads : SendStays(u) /\ (u \in done => th'[u] = Idle)
        /\ \A u \in Threads : Awaits(u)' /\ th[u].c \notin C => th'[u].at = th[u].at
        /\ At("query")' = {u \in At("query") : u \notin done}
        /\ spoilt' = spoilt \cup defects
    BY <1>0 DEF Cleared
  <2> QED
    BY <2>1
<1>4. \A b \in Clients \ C : Notifications(b)' = Notifications(b)
  BY <1>2 DEF Notifications, Txs
<1>5. \A m \in ms : Unanswered(m)
  BY <1>1 DEF WhereInv
<1>6. WhereInv'
  <2>1. \A u \in Threads : Sender(u)' => Sender(u) /\ th'[u].m = th[u].m /\ th'[u].m \notin ms
    <3>1. ASSUME NEW u \in Threads, Sender(u)' PROVE Sender(u) /\ th'[u].m = th[u].m
      BY <1>3, <3>1, SendStaysFacts
    <3>2. \A u \in Threads : Sender(u) => th[u].m \notin ms
      BY <1>1 DEF WhereInv
    <3> QED
      BY <3>1, <3>2
  <2>2. \A b \in Clients : Notifications(b)' = {} \/ Within(Txs(b)', Txs(b))
    BY <1>2, WithinSame
  <2>3. \A b \in Clients : \A l \in Notifications(b)' : Txs(b)'[l].m \notin ms
    <3>1. ASSUME NEW b \in Clients, NEW l \in Notifications(b)' PROVE Txs(b)'[l].m \notin ms
      <4>1. b \notin C /\ l \in Notifications(b) /\ Txs(b)' = Txs(b)
        BY <1>2, <1>4, <3>1
      <4> QED
        BY <1>1, <4>1 DEF WhereInv
    <3> QED
      BY <3>1
  <2>4. no \in BOOLEAN /\ Tell(ms, no) /\ allowance'["send"] = allowance["send"]
    BY <1>1
  <2> QED
    BY <1>5, <2>1, <2>2, <2>3, <2>4, WhereStep
<1>7. LifeInv'
  <2>1. \A b \in Clients : ~connections'[b].valid => Notifications(b)' = {}
    BY <1>2, <1>4 DEF LifeInv
  <2>2. ~linked' => toListener' = <<>> /\ \A b \in Clients : ~connections'[b].valid
    BY <1>2
  <2> QED
    BY <1>3, <2>1, <2>2 DEF LifeInv
<1>8. ASSUME ~Confused' PROVE TrueInv'
  <2>1. /\ TrueInv /\ spoilt \subseteq spoilt' /\ Coming' \subseteq Coming /\ HeardTrue'
        /\ driver'.up => driver.up /\ driver'.block = driver.block
    <3>1. spoilt \subseteq spoilt'
      BY <1>3
    <3>2. TrueInv
      BY <1>8, <3>1, SpoiltGrows
    <3> QED
      BY <1>8, <3>1, <3>2 DEF TrueInv
  <2>2. \A n \in Sends : TRUE \in ToSet(told'[n]) => n \in bus' \/ Excused(n)'
    <3>1. \A n \in Sends : TRUE \in ToSet(told[n]) => n \in bus \/ Excused(n)
      BY <2>1 DEF TrueInv
    <3>2. \A n \in ms : Unanswered(n) /\ (no => n \in bus' \/ Excused(n)')
      BY <1>1, <1>5
    <3>3. no \in BOOLEAN /\ Tell(ms, no) /\ bus \subseteq bus'
      BY <1>1
    <3> QED
      BY <2>1, <3>1, <3>2, <3>3, ToldTruly
  <2>3. driver'.up => \A p \in Coming' : ~p.notify => p.id <= driver'.block
    BY <2>1 DEF TrueInv
  <2>4. ASSUME NEW b \in Clients PROVE ListOK(b)'
    <3>1. ListOK(b)
      BY <2>1 DEF TrueInv
    <3>2. CASE b \in C
      <4>1. connections'[b].valid => Txs(b)' = <<>>
        BY <1>2, <3>2
      <4> QED
        BY <2>1, <3>1, <4>1, ListStays
    <3>3. CASE b \notin C
      <4>1. connections'[b].valid = connections[b].valid /\ Txs(b)' = Txs(b) /\ Within(Txs(b)', Txs(b))
        BY <1>2, <3>3, WithinSame
      <4>2. connections'[b].valid => Transmitted(Txs(b)', bus')
        BY <3>1, <4>1 DEF ListOK, Transmitted
      <4> QED
        BY <2>1, <3>1, <4>1, <4>2, ListStays
    <3> QED
      BY <3>2, <3>3
  <2>5. ASSUME NEW u \in Threads PROVE CleanOK(u)'
    <3>1. CleanOK(u) /\ SendStays(u)
      BY <1>3, <2>1 DEF TrueInv
    <3>2. PICK b : b = th[u].c /\ b \in Clients
      BY ThreadTypes
    <3>3. \A w \in Threads : Awaits(w)' /\ w # u /\ th'[w].c = th[u].c /\ th'[w].id = th[u].id =>
            Awaits(w) /\ th'[w].c = th[w].c /\ th'[w].id = th[w].id
      <4>1. \A w \in Threads : AwaitsStill(w)
        BY <1>3, SendStaysFacts
      <4> QED
        BY <4>1 DEF AwaitsStill
    <3>4. CASE ~Awaits(u)'
      BY <3>4 DEF CleanOK, Clean
    <3>5. CASE Awaits(u)'
      <4>0. /\ AwaitsStill(u) /\ Awaits(u) /\ th'[u].op = th[u].op /\ th'[u].c = th[u].c
            /\ th'[u].m = th[u].m /\ th'[u].id = th[u].id
        BY <3>1, <3>5, SendStaysFacts DEF AwaitsStill
      <4>1. ASSUME Awaits(u), connections'[b].valid, ~Excused(th[u].m)', Mine(u, Txs(b)) # {}
            PROVE  connections[b].valid /\ Mine(u, Txs(b))' # {}
        <5>1. b \notin C
          <6>1. b \notin C \ anew
            BY <1>2, <4>1
          <6>2. CASE b \in anew
            <7>1. <<th[u].m, "reconnect">> \in spoilt'
              BY <1>3, <3>2, <4>1, <6>2
            <7> QED
              BY <4>0, <4>1, <7>1 DEF Excused, Met
          <6> QED
            BY <6>1, <6>2
        <5>2. Txs(b)' = Txs(b) /\ connections[b].valid /\ th'[u].at = th[u].at
          BY <1>2, <1>3, <3>2, <3>5, <4>1, <5>1
        <5> QED
          BY <4>0, <4>1, <5>2 DEF Mine
      <4>2. Awaits(u) /\ connections'[b].valid /\ ~Excused(th[u].m)' =>
              connections[b].valid /\ (Mine(u, Txs(b)) # {} => Mine(u, Txs(b))' # {})
        <5>1. ASSUME Awaits(u), connections'[b].valid, ~Excused(th[u].m)' PROVE connections[b].valid
          <6>1. b \notin C \ anew
            BY <1>2, <5>1
          <6>2. CASE b \in anew
            <7>1. <<th[u].m, "reconnect">> \in spoilt'
              BY <1>3, <3>2, <5>1, <6>2
            <7> QED
              BY <4>0, <5>1, <7>1 DEF Excused, Met
          <6> QED
            BY <1>2, <3>2, <5>1, <6>1, <6>2
        <5> QED
          BY <4>1, <5>1
      <4> QED
        BY <2>1, <3>1, <3>2, <3>3, <4>0, <4>2, CleanStays
    <3> QED
      BY <3>4, <3>5
  <2> QED
    BY <2>1, <2>2, <2>3, <2>4, <2>5 DEF TrueInv
<1> QED
  BY <1>6, <1>7, <1>8 DEF ToldInv

(***************************************************************************)
(* The driver accepts a message.                                           *)
(***************************************************************************)
\* What the driver will say of message p it gave a new id.
New(p) ==
  /\ ~p.notify => driver.block < p.id
  /\ p.notify => \A i \in Notifications(p.c) : Txs(p.c)[i].id # p.id

\* The driver will say no more than it was going to, but for p.
Foreseen(p) ==
  \/ Coming' \subseteq Coming
  \/ New(p) /\ Coming' \subseteq Coming \cup {p} /\ (~p.notify => p.id <= driver'.block)

LEMMA MatchingServed ==
  ASSUME LibraryTypeOK, NEW c \in Clients, ListOK(c), connections[c].valid, driver.up,
         NEW p \in Promises, New(p), Coming' \subseteq Coming \cup {p}, spoilt \subseteq spoilt'
  PROVE  Matching(Txs(c), c, Coming', spoilt')
<1>1. /\ Matching(Txs(c), c, Coming, spoilt) /\ UpTo(Txs(c), driver.block)
      /\ \A i \in DOMAIN Txs(c) : Txs(c)[i] \in Transactions
  <2>1. connections[c] \in Connection
    BY DEF LibraryTypeOK
  <2>2. Txs(c) \in Seq(Transactions)
    BY <2>1 DEF Txs, Connection
  <2> QED
    BY <2>2, LenProperties, ElementOfSeq DEF ListOK
<1>2. SUFFICES ASSUME NEW i \in DOMAIN Txs(c), NEW q \in Coming',
                      q.c = c /\ q.notify = Txs(c)[i].notify /\ q.id = Txs(c)[i].id
               PROVE  q.m = Txs(c)[i].m \/ (Txs(c)[i].notify /\ <<Txs(c)[i].m, "reused">> \in spoilt')
  BY DEF Matching
<1>3. CASE q \in Coming
  BY <1>1, <1>2, <1>3 DEF Matching
<1>4. q # p
  <2>1. SUFFICES ASSUME q = p PROVE FALSE
    OBVIOUS
  <2>2. Txs(c)[i].id \in Nat /\ driver.block \in Nat /\ p.id \in Nat
    BY <1>1 DEF Transactions, LibraryTypeOK, Driver, Promises
  <2>3. CASE Txs(c)[i].notify
    <3>1. i \in Notifications(c)
      BY <2>3 DEF Notifications, Txs
    <3> QED
      BY <1>2, <2>1, <2>3, <3>1 DEF New
  <2>4. CASE ~Txs(c)[i].notify
    <3>1. Txs(c)[i].id <= driver.block /\ driver.block < p.id
      BY <1>1, <1>2, <2>1, <2>4 DEF UpTo, New
    <3> QED
      BY <1>2, <2>1, <2>2, <3>1
  <2> QED
    BY <2>3, <2>4
<1> QED
  BY <1>3, <1>4

\* Nobody asks any more, or the driver throws: lists stay as they are.
LEMMA DroppedTold ==
  ASSUME LibraryTypeOK, ToldInv, driver.up, driver'.up, NEW p \in Promises,
         ~Confused' => Foreseen(p), driver'.block \in Nat, driver.block <= driver'.block, HeardTrue => HeardTrue',
         linked, UNCHANGED <<connections, th, told, spoilt, linked, bus, allowance>>,
         \A i \in DOMAIN toDriver' : \E j \in DOMAIN toDriver : toDriver'[i] = toDriver[j]
  PROVE  ToldInv'
<1>1. WhereInv /\ LifeInv /\ (~Confused => TrueInv)
  BY DEF ToldInv
<1>2. \A b \in Clients : Txs(b)' = Txs(b) /\ Notifications(b)' = Notifications(b)
  BY DEF Txs, Notifications
<1>3. \A u \in Threads : SendStays(u)
  BY NothingHappens
<1>4. WhereInv'
  BY <1>1, <1>2, <1>3, SendStaysFacts, WhereQuiet
<1>5. LifeInv'
  BY <1>1, <1>2, <1>3, LifeQuiet DEF LifeInv
<1>6. ASSUME ~Confused' PROVE TrueInv'
  <2>1. TrueInv
    BY <1>1, <1>6 DEF Confused
  <2>2. \A m \in Sends : TRUE \in ToSet(told'[m]) => m \in bus' \/ Excused(m)'
    <3>1. \A m : Excused(m) => Excused(m)'
      BY DEF Excused, Met
    <3> QED
      BY <2>1, <3>1 DEF TrueInv
  <2>6. Foreseen(p)
    BY <1>6
  <2>3. \A q \in Coming' : ~q.notify => q.id <= driver'.block
    <3>1. \A q \in Coming : ~q.notify => q.id <= driver.block
      BY <2>1 DEF TrueInv
    <3>2. \A q \in Coming : q.id \in Nat
      <4>1. Coming \subseteq Promises
        BY AnnouncedFacts DEF Coming, LibraryTypeOK, Driver
      <4> QED
        BY <4>1 DEF Promises
    <3>3. driver.block \in Nat
      BY DEF LibraryTypeOK, Driver
    <3> QED
      BY <2>6, <3>1, <3>2, <3>3 DEF Foreseen
  <2>4. ASSUME NEW c \in Clients PROVE ListOK(c)'
    <3>1. CASE ~connections'[c].valid
      BY <3>1 DEF ListOK
    <3>2. CASE connections'[c].valid
      <4>1. ListOK(c) /\ connections[c].valid /\ Txs(c)' = Txs(c)
        BY <1>2, <2>1, <3>2 DEF TrueInv
      <4>2. Matching(Txs(c), c, Coming', spoilt')
        <5>1. CASE New(p) /\ Coming' \subseteq Coming \cup {p}
          BY <4>1, <5>1, MatchingServed
        <5>2. CASE Coming' \subseteq Coming
          <6>1. Coming' \subseteq Coming /\ Matching(Txs(c), c, Coming, spoilt) /\ spoilt \subseteq spoilt'
            BY <4>1, <5>2 DEF ListOK
          <6> QED
            BY <6>1, MatchingFewer
        <5> QED
          BY <2>6, <5>1, <5>2 DEF Foreseen
      <4>3. UpTo(Txs(c), driver'.block)
        BY <4>1, UpToMore DEF ListOK
      <4>4. Distinct(Txs(c)) /\ Transmitted(Txs(c), bus')
        BY <4>1 DEF ListOK
      <4> QED
        BY <4>1, <4>2, <4>3, <4>4 DEF ListOK
    <3> QED
      BY <3>1, <3>2
  <2>5. ASSUME NEW u \in Threads PROVE CleanOK(u)'
    <3>1. CleanOK(u)
      BY <2>1 DEF TrueInv
    <3>2. PICK b : b = th[u].c /\ b \in Clients
      BY ThreadTypes
    <3>3. Mine(u, Txs(b))' = Mine(u, Txs(b))
      BY <1>2, <3>2 DEF Mine
    <3>4. AwaitsStill(u)
      BY DEF AwaitsStill, Awaits
    <3>5. \A w \in Threads : Awaits(w)' /\ w # u /\ th'[w].c = th[u].c /\ th'[w].id = th[u].id =>
            Awaits(w) /\ th'[w].c = th[w].c /\ th'[w].id = th[w].id
      BY DEF Awaits
    <3> QED
      BY <3>1, <3>2, <3>3, <3>4, <3>5, CleanStays
  <2> QED
    BY <2>1, <2>2, <2>3, <2>4, <2>5 DEF TrueInv
<1> QED
  BY <1>4, <1>5, <1>6 DEF ToldInv

\* An answer is taken that changes no connection.
LEMMA ReturnsTold ==
  ASSUME LibraryTypeOK, ToldInv, NEW t \in Threads, \A u \in At("query") : u = t,
         NEW d, NEW s, Returns(t, d, s), driver.up, driver'.up, linked,
         UNCHANGED <<linked, bus, allowance>>, HeardTrue => HeardTrue',
         driver'.block \in Nat, driver.block <= driver'.block, ~Confused' => Coming' \subseteq Coming
  PROVE  ToldInv'
<1>1. WhereInv /\ LifeInv /\ (~Confused => TrueInv)
  BY DEF ToldInv
<1>2. /\ th' = [th EXCEPT ![t] = Idle] /\ spoilt \subseteq spoilt'
      /\ connections' = connections /\ told' = told
  BY DEF Returns
<1>3. th'[t] = Idle /\ \A u \in Threads \ {t} : th'[u] = th[u]
  BY <1>2, IdleIsThread, ThreadStep
<1>4. \A u \in Threads : SendStays(u) /\ (Awaits(u)' => WokenSafely(u))
  <2>1. SendStays(t) /\ ~Awaits(t)'
    BY <1>3 DEF SendStays, Awaits, Idle, Sending, Blocking
  <2> QED
    BY <1>3, <2>1, NothingHappens
<1>5. \A b \in Clients : /\ connections'[b].valid = connections[b].valid
                         /\ Txs(b)' = Txs(b) /\ Notifications(b)' = Notifications(b)
  BY <1>2 DEF Txs, Notifications
<1>6. WhereInv'
  BY <1>1, <1>2, <1>4, <1>5, SendStaysFacts, WhereQuiet
<1>7. LifeInv'
  <2>1. At("query")' = {}
    BY <1>3 DEF At, Idle
  <2> QED
    BY <1>1, <1>5, <2>1 DEF LifeInv
<1>8. ASSUME ~Confused' PROVE TrueInv'
  <2>1. TrueInv
    BY <1>1, <1>2, <1>8, SpoiltGrows
  <2>2. HeardTrue'
    BY <2>1 DEF TrueInv
  <2>3. Coming' \subseteq Coming
    BY <1>8
  <2> QED
    BY <1>2, <1>4, <1>5, <2>1, <2>2, <2>3, SendStaysFacts, TrueQuiet
<1> QED
  BY <1>6, <1>7, <1>8 DEF ToldInv

\* What Accepted does, in terms of the lists: thread t's send has a
\* transaction x at the end of the list of c.
AddsTransaction(t, c, n, v, x, defects) ==
  /\ c = th[t].c /\ n = (th[t].op = "notify") /\ th[t].op \in Sending
  /\ x \in Transactions /\ x.notify = n /\ x.id = v /\ x.m = th[t].m
  /\ x.code # "ok" /\ (th[t].op = "claim" => x.code # "uninitialised")
  /\ \A b \in Clients : connections'[b].valid = connections[b].valid
  /\ \A b \in Clients \ {c} : Txs(b)' = Txs(b)
  /\ Txs(c)' = Append(Txs(c), x)
  /\ \A u \in Threads \ {t} : th'[u] = th[u]
  /\ n => th'[t] = Idle
  /\ ~n => th'[t].at = "waiting" /\ th'[t].op = th[t].op /\ th'[t].c = c /\ th'[t].m = th[t].m /\ th'[t].id = v
  /\ spoilt' = spoilt \cup defects /\ told' = told
  /\ n /\ (\E q \in Coming : q.c = c /\ q.notify /\ q.id = v) => <<th[t].m, "reused">> \in defects
  /\ ~n /\ (\E u \in Threads : Awaits(u) /\ th[u].c = c /\ th[u].id = v) => <<th[t].m, "reused">> \in defects

LEMMA AcceptedFacts ==
  ASSUME LibraryTypeOK, NEW t \in At("query"), th[t].op \in Sending, NEW v \in Nat, NEW d, NEW s,
         Accepted(t, v, d, s)
  PROVE  \E c, n, x, defects : c \in Clients /\ n \in BOOLEAN /\ s \subseteq defects /\ AddsTransaction(t, c, n, v, x, defects)
<1>1. t \in Threads /\ th[t] \in Thread /\ th[t].at = "query" /\ th \in [Threads -> Thread]
      /\ connections \in [Clients -> Connection] /\ toListener \in Seq(News)
  BY ThreadTypes DEF At, LibraryTypeOK
<1>2. PICK c \in Clients : c = th[t].c
  BY <1>1, ThreadTypes
<1>3. PICK n \in BOOLEAN : n = (th[t].op = "notify")
  OBVIOUS
<1>4. PICK x : x = Transaction(th[t].op, v, th[t].m)
  OBVIOUS
<1>5. /\ x \in Transactions /\ x.notify = n /\ x.id = v /\ x.m = th[t].m
      /\ x.code # "ok" /\ (th[t].op = "claim" => x.code # "uninitialised")
  <2>1. th[t].m \in Nat
    BY <1>1 DEF Thread
  <2> QED
    BY <1>3, <1>4, <2>1 DEF Transaction, Transactions
<1>6. connections' = [connections EXCEPT ![c].transactions = Append(@, x)]
  BY <1>2, <1>4 DEF Accepted
<1>7. \A b \in Clients : connections'[b].valid = connections[b].valid
  BY <1>1, <1>2, <1>6 DEF Connection
<1>8. \A b \in Clients \ {c} : Txs(b)' = Txs(b)
  BY <1>1, <1>6 DEF Txs
<1>9. Txs(c)' = Append(Txs(c), x)
  <2>1. connections[c] \in Connection
    BY <1>1
  <2>2. connections'[c] = [connections[c] EXCEPT !.transactions = Append(@, x)]
    BY <1>1, <1>6
  <2> QED
    BY <2>1, <2>2 DEF Txs, Connection
<1>10. /\ \A u \in Threads \ {t} : th'[u] = th[u]
       /\ n => th'[t] = Idle
       /\ ~n => th'[t].at = "waiting" /\ th'[t].op = th[t].op /\ th'[t].c = c /\ th'[t].m = th[t].m /\ th'[t].id = v
  <2>1. th' = [th EXCEPT ![t] = IF n THEN Idle ELSE [@ EXCEPT !.at = "waiting", !.id = v]]
    BY <1>3 DEF Accepted
  <2>2. CASE n
    BY <1>1, <2>1, <2>2
  <2>3. CASE ~n
    <3>1. th' = [th EXCEPT ![t] = [@ EXCEPT !.at = "waiting", !.id = v]]
      BY <2>1, <2>3
    <3>2. /\ \A u \in Threads \ {t} : th'[u] = th[u]
          /\ th'[t] = [th[t] EXCEPT !.at = "waiting", !.id = v]
      BY <1>1, <3>1
    <3> QED
      BY <1>1, <1>2, <2>3, <3>2 DEF Thread
  <2> QED
    BY <2>2, <2>3
<1> DEFINE news == {y \in ToSet(toListener) : y.kind = "outcome"} \cup driver.pending
           old == {u \in At("waiting") \cup At("woken") : th[u].op \in Blocking /\ th[u].c = c /\ th[u].id = v}
           spoils == (n /\ \E y \in news : y.c = c /\ y.notify /\ y.id = v) \/ (~n /\ old # {})
           defects == s \cup (IF spoils THEN {<<th[t].m, "reused">>} ELSE {})
<1>11. spoilt' = spoilt \cup defects /\ told' = told
  BY <1>2, <1>3 DEF Accepted
<1>12. n /\ (\E q \in Coming : q.c = c /\ q.notify /\ q.id = v) => <<th[t].m, "reused">> \in defects
  <2>1. ASSUME NEW q \in Coming, q.c = c, q.notify, q.id = v PROVE \E y \in news : y.c = c /\ y.notify /\ y.id = v
    <3>1. CASE q \in driver.pending
      BY <2>1, <3>1
    <3>2. CASE q \in Announced(toListener)
      <4>1. PICK i \in DOMAIN toListener : toListener[i].kind = "outcome" /\ q = Promise(toListener[i])
        BY <3>2 DEF Announced
      <4>2. toListener[i] \in ToSet(toListener)
        BY DEF ToSet
      <4>3. toListener[i].c = c /\ toListener[i].notify /\ toListener[i].id = v
        BY <2>1, <4>1 DEF Promise
      <4> QED
        BY <4>1, <4>2, <4>3
    <3> QED
      BY <2>1, <3>1, <3>2 DEF Coming
  <2> HIDE DEF news, old
  <2> QED
    BY <2>1
<1>13. ~n /\ (\E u \in Threads : Awaits(u) /\ th[u].c = c /\ th[u].id = v) => <<th[t].m, "reused">> \in defects
  <2>1. ASSUME NEW u \in Threads, Awaits(u), th[u].c = c, th[u].id = v PROVE old # {}
    <3>1. u \in old
      BY <2>1 DEF Awaits, At
    <3> QED
      BY <3>1
  <2> HIDE DEF news, old
  <2> QED
    BY <2>1
<1> HIDE DEF defects
<1>14. AddsTransaction(t, c, n, v, x, defects)
  BY <1>2, <1>3, <1>5, <1>7, <1>8, <1>9, <1>10, <1>11, <1>12, <1>13 DEF AddsTransaction
<1>15. s \subseteq defects
  BY DEF defects
<1>16. PICK e : e = defects
  OBVIOUS
<1>17. s \subseteq e /\ AddsTransaction(t, c, n, v, x, e)
  BY <1>14, <1>15, <1>16
<1> QED
  BY <1>2, <1>3, <1>17

\* The driver's promise p is what was asked for thread t's send.
Granted(p, t, n, v) ==
  /\ p.c = th[t].c /\ (p.notify <=> n) /\ p.id = v /\ p.m = th[t].m
  /\ New(p) /\ Coming' \subseteq Coming \cup {p}
  /\ driver'.block = IF n THEN driver.block ELSE v

\* Transaction x is at the end of the list of c; if it is a notification, of m.
Appended(c, n, m, x) ==
  LET l == Len(Txs(c)) + 1 IN
  /\ Len(Txs(c)) \in Nat /\ DOMAIN Txs(c) = 1 .. Len(Txs(c))
  /\ DOMAIN Txs(c)' = DOMAIN Txs(c) \cup {l} /\ l \notin DOMAIN Txs(c)
  /\ \A i \in DOMAIN Txs(c) : Txs(c)'[i] = Txs(c)[i] /\ Txs(c)[i] \in Transactions
  /\ Txs(c)'[l] = x
  /\ \A b \in Clients : \A i \in Notifications(b)' :
       (i \in Notifications(b) /\ Txs(b)'[i] = Txs(b)[i]) \/ (b = c /\ n /\ i = l /\ Txs(b)'[i].m = m)

LEMMA AppendedFacts ==
  ASSUME LibraryTypeOK, NEW t \in At("query"), NEW c \in Clients, NEW n \in BOOLEAN, NEW v, NEW x, NEW defects,
         AddsTransaction(t, c, n, v, x, defects)
  PROVE  Appended(c, n, th[t].m, x)
<1>1. PICK s : s = Txs(c)
  OBVIOUS
<1>2. s \in Seq(Transactions)
  <2>1. connections[c] \in Connection
    BY DEF LibraryTypeOK
  <2> QED
    BY <1>1, <2>1 DEF Txs, Connection
<1>3. x \in Transactions /\ (x.notify <=> n) /\ x.m = th[t].m /\ Txs(c)' = Append(s, x)
      /\ \A b \in Clients \ {c} : Txs(b)' = Txs(b)
  BY <1>1 DEF AddsTransaction
<1>4. PICK r : r = Append(s, x)
  OBVIOUS
<1>5. /\ r \in Seq(Transactions) /\ Len(r) = Len(s) + 1 /\ r[Len(s) + 1] = x
      /\ \A i \in 1 .. Len(s) : r[i] = s[i]
  BY <1>2, <1>3, <1>4, AppendProperties
<1>6. Len(s) \in Nat /\ DOMAIN s = 1 .. Len(s) /\ DOMAIN r = 1 .. Len(s) + 1 /\ \A i \in DOMAIN s : s[i] \in Transactions
  BY <1>2, <1>5, LenProperties, ElementOfSeq
<1>7. DOMAIN r = DOMAIN s \cup {Len(s) + 1} /\ Len(s) + 1 \notin DOMAIN s
  BY <1>6
<1>8. \A i \in DOMAIN s : r[i] = s[i]
  BY <1>5, <1>6
<1>9. ASSUME NEW b \in Clients, NEW i \in Notifications(b)'
      PROVE  \/ i \in Notifications(b) /\ Txs(b)'[i] = Txs(b)[i]
             \/ b = c /\ n /\ i = Len(s) + 1 /\ Txs(b)'[i].m = th[t].m
  <2>1. i \in DOMAIN Txs(b)' /\ Txs(b)'[i].notify
    BY <1>9 DEF Notifications, Txs
  <2>2. CASE b # c
    <3>1. Txs(b)' = Txs(b)
      BY <1>3, <2>2
    <3> QED
      BY <2>1, <3>1 DEF Notifications, Txs
  <2>3. CASE b = c
    <3>1. Txs(b)' = r /\ Txs(b) = s
      BY <1>1, <1>3, <1>4, <2>3
    <3>2. CASE i \in DOMAIN s
      <4>1. Txs(b)'[i] = Txs(b)[i] /\ i \in DOMAIN Txs(b) /\ Txs(b)[i].notify
        BY <1>8, <2>1, <3>1, <3>2
      <4> QED
        BY <4>1 DEF Notifications, Txs
    <3>3. CASE i = Len(s) + 1
      BY <1>3, <1>5, <2>1, <2>3, <3>1, <3>3
    <3> QED
      BY <1>7, <2>1, <3>1, <3>2, <3>3
  <2> QED
    BY <2>2, <2>3
<1> QED
  BY <1>1, <1>3, <1>4, <1>5, <1>6, <1>7, <1>8, <1>9 DEF Appended

LEMMA AcceptedWhere ==
  ASSUME LibraryTypeOK, WhereInv, LifeInv, NEW t \in At("query"), \A u \in At("query") : u = t,
         NEW c \in Clients, NEW n \in BOOLEAN, NEW v, NEW x, NEW defects,
         AddsTransaction(t, c, n, v, x, defects), linked, UNCHANGED <<linked, allowance>>, driver'.up
  PROVE  WhereInv' /\ LifeInv'
<1>1. t \in Threads /\ th[t].at = "query" /\ Sender(t) /\ connections[c].valid
  <2>1. t \in Threads /\ th[t].at = "query" /\ Sender(t) /\ c = th[t].c
    BY DEF At, AddsTransaction, Sender
  <2> QED
    BY <2>1 DEF LifeInv
<1>2. /\ \A u \in Threads \ {t} : th'[u] = th[u]
      /\ n => th'[t] = Idle
      /\ ~n => th'[t].at = "waiting" /\ th'[t].op = th[t].op /\ th'[t].c = c /\ th'[t].m = th[t].m
      /\ told' = told /\ \A b \in Clients : connections'[b].valid = connections[b].valid
  BY DEF AddsTransaction
<1>3. ~(Idle.op \in Sending) /\ Idle.at # "query"
  BY DEF Idle, Sending, Blocking
<1>4. \A u \in Threads : Sender(u)' => Sender(u) /\ th'[u].m = th[u].m /\ (n => u # t)
  <2>1. Sender(t)' => th'[t].m = th[t].m /\ ~n
    BY <1>2, <1>3 DEF Sender
  <2> QED
    BY <1>1, <1>2, <2>1 DEF Sender
<1>5. PICK l : l = Len(Txs(c)) + 1
  OBVIOUS
<1>6. \A b \in Clients : \A i \in Notifications(b)' :
              \/ i \in Notifications(b) /\ Txs(b)'[i] = Txs(b)[i]
              \/ b = c /\ n /\ i = l /\ Txs(b)'[i].m = th[t].m
  <2>1. \A b \in Clients : \A i \in Notifications(b)' :
              \/ i \in Notifications(b) /\ Txs(b)'[i] = Txs(b)[i]
              \/ b = c /\ n /\ i = Len(Txs(c)) + 1 /\ Txs(b)'[i].m = th[t].m
    <3>1. PICK m : m = th[t].m
      OBVIOUS
    <3>2. Appended(c, n, th[t].m, x)
      BY AppendedFacts
    <3>3. Appended(c, n, m, x)
      BY <3>1, <3>2
    <3> QED
      BY <3>1, <3>3 DEF Appended
  <2> QED
    BY <1>5, <2>1
<1>7. \A m : Unanswered(m)' <=> Unanswered(m)
  BY <1>2 DEF Unanswered
<1>8. Unanswered(th[t].m)
  BY <1>1 DEF WhereInv
<1>9. WhereInv'
  <2>1. \A u \in Threads : Sender(u)' => \A m : m = th'[u].m => Unanswered(m)'
    BY <1>4, <1>7 DEF WhereInv
  <2>2. \A u, w \in Threads : Sender(u)' /\ Sender(w)' /\ th'[u].m = th'[w].m => u = w
    BY <1>4 DEF WhereInv
  <2>3. \A b \in Clients : \A i \in Notifications(b)' : \A m : m = Txs(b)'[i].m => Unanswered(m)'
    <3>1. \A b \in Clients : \A i \in Notifications(b)' : Unanswered(Txs(b)'[i].m)
      BY <1>6, <1>8 DEF WhereInv
    <3> QED
      BY <1>7, <3>1
  <2>4. ASSUME NEW b \in Clients, NEW i \in Notifications(b)', NEW u \in Threads, Sender(u)'
        PROVE  th'[u].m # Txs(b)'[i].m
    <3>1. Sender(u) /\ th'[u].m = th[u].m /\ (n => u # t)
      BY <1>4, <2>4
    <3>2. CASE i \in Notifications(b) /\ Txs(b)'[i] = Txs(b)[i]
      BY <3>1, <3>2 DEF WhereInv
    <3>3. CASE n /\ Txs(b)'[i].m = th[t].m
      BY <1>1, <3>1, <3>3 DEF WhereInv
    <3> QED
      BY <1>6, <3>2, <3>3
  <2>5. ASSUME NEW a \in Clients, NEW b \in Clients, NEW i \in Notifications(a)', NEW j \in Notifications(b)',
               Txs(a)'[i].m = Txs(b)'[j].m
        PROVE  a = b /\ i = j
    <3>1. \/ i \in Notifications(a) /\ Txs(a)'[i] = Txs(a)[i]
          \/ a = c /\ n /\ i = l /\ Txs(a)'[i].m = th[t].m
      BY <1>6
    <3>2. \/ j \in Notifications(b) /\ Txs(b)'[j] = Txs(b)[j]
          \/ b = c /\ n /\ j = l /\ Txs(b)'[j].m = th[t].m
      BY <1>6
    <3>3. \A e \in Clients : \A k \in Notifications(e) : Txs(e)[k].m # th[t].m
      BY <1>1 DEF WhereInv
    <3>4. CASE i \in Notifications(a) /\ Txs(a)'[i] = Txs(a)[i] /\ j \in Notifications(b) /\ Txs(b)'[j] = Txs(b)[j]
      BY <2>5, <3>4 DEF WhereInv
    <3> QED
      BY <2>5, <3>1, <3>2, <3>3, <3>4
  <2>6. /\ told' \in [Sends -> Seq(BOOLEAN)] /\ \A m \in Sends : Len(told'[m]) <= 1
        /\ \A m \in 1 .. allowance'["send"] : m \in Sends /\ told'[m] = <<>>
    BY <1>2 DEF WhereInv
  <2> QED
    BY <2>1, <2>2, <2>3, <2>4, <2>5, <2>6 DEF WhereInv
<1>10. LifeInv'
  <2>1. At("query")' = {}
    <3>1. th'[t].at # "query"
      BY <1>2, <1>3
    <3> QED
      BY <1>2, <3>1 DEF At
  <2>2. \A b \in Clients : ~connections'[b].valid => Notifications(b)' = {}
    <3>1. \A b \in Clients : ~connections[b].valid => Notifications(b) = {}
      BY DEF LifeInv
    <3> QED
      BY <1>1, <1>2, <1>6, <3>1
  <2> QED
    BY <2>1, <2>2 DEF LifeInv
<1> QED
  BY <1>9, <1>10

\* The list of the accepted send's client.
LEMMA AcceptedList ==
  ASSUME LibraryTypeOK, TrueInv, driver.up,
         NEW t \in At("query"), NEW c \in Clients, NEW n \in BOOLEAN, NEW v \in Nat, NEW x, NEW defects,
         AddsTransaction(t, c, n, v, x, defects), connections[c].valid,
         NEW p \in Promises, Granted(p, t, n, v), bus' = bus
  PROVE  ListOK(c)'
<1>1. PICK m, l : m = th[t].m /\ l = Len(Txs(c)) + 1
  OBVIOUS
<1>2. Appended(c, n, th[t].m, x)
  BY AppendedFacts
<1>3. /\ DOMAIN Txs(c)' = DOMAIN Txs(c) \cup {l} /\ l \notin DOMAIN Txs(c)
      /\ \A i \in DOMAIN Txs(c) : Txs(c)'[i] = Txs(c)[i] /\ Txs(c)[i] \in Transactions
      /\ Txs(c)'[l] = x
  BY <1>1, <1>2 DEF Appended
<1>4. /\ x \in Transactions /\ (x.notify <=> n) /\ x.id = v /\ x.m = m /\ x.code # "ok"
      /\ spoilt' = spoilt \cup defects /\ c = th[t].c
      /\ n /\ (\E q \in Coming : q.c = c /\ q.notify /\ q.id = v) => <<m, "reused">> \in defects
  BY <1>1 DEF AddsTransaction
<1>5. /\ p.c = c /\ (p.notify <=> n) /\ p.id = v /\ p.m = m
      /\ New(p) /\ Coming' \subseteq Coming \cup {p}
      /\ driver'.block = IF n THEN driver.block ELSE v
  BY <1>1, <1>4 DEF Granted
<1>6. /\ ListOK(c) /\ Matching(Txs(c), c, Coming, spoilt) /\ Distinct(Txs(c)) /\ Transmitted(Txs(c), bus)
      /\ UpTo(Txs(c), driver.block) /\ \A q \in Coming : ~q.notify => q.id <= driver.block
  BY DEF TrueInv, ListOK
<1>7. driver.block \in Nat /\ driver'.block \in Nat /\ driver.block <= driver'.block
      /\ (~n => driver.block < v /\ driver'.block = v)
  <2>1. driver.block \in Nat
    BY DEF LibraryTypeOK, Driver
  <2>2. ~n => driver.block < v /\ driver'.block = v
    BY <1>5 DEF New
  <2> QED
    BY <1>5, <2>1, <2>2
<1>8. /\ \A i \in DOMAIN Txs(c) : Txs(c)[i].id \in Nat
      /\ \A q \in Coming : q.id \in Nat /\ q.notify \in BOOLEAN
  <2>1. Coming \subseteq Promises
    BY AnnouncedFacts DEF Coming, LibraryTypeOK, Driver
  <2> QED
    BY <1>3, <2>1 DEF Transactions, Promises
<1>9. Matching(Txs(c)', c, Coming', spoilt')
  <2>1. Matching(Txs(c), c, Coming', spoilt')
    BY <1>4, <1>5, <1>6, MatchingServed
  <2>2. ASSUME NEW q \in Coming', q.c = c, q.notify = x.notify, q.id = v
        PROVE  q.m = m \/ (x.notify /\ <<m, "reused">> \in spoilt')
    <3>1. CASE q = p
      BY <1>5, <3>1
    <3>2. CASE q \in Coming
      <4>1. CASE n
        BY <1>4, <2>2, <3>2, <4>1
      <4>2. CASE ~n
        BY <1>4, <1>6, <1>7, <1>8, <2>2, <3>2, <4>2
      <4> QED
        BY <4>1, <4>2
    <3> QED
      BY <1>5, <2>2, <3>1, <3>2
  <2>3. SUFFICES ASSUME NEW i \in DOMAIN Txs(c)', NEW q \in Coming',
                        q.c = c, q.notify = Txs(c)'[i].notify, q.id = Txs(c)'[i].id
                 PROVE  q.m = Txs(c)'[i].m \/ (Txs(c)'[i].notify /\ <<Txs(c)'[i].m, "reused">> \in spoilt')
    BY DEF Matching
  <2>4. CASE i \in DOMAIN Txs(c)
    <3>1. Txs(c)'[i] = Txs(c)[i]
      BY <1>3, <2>4
    <3> QED
      BY <2>1, <2>3, <2>4, <3>1 DEF Matching
  <2>5. CASE i = l
    <3>1. Txs(c)'[i] = x
      BY <1>3, <2>5
    <3> QED
      BY <1>4, <2>2, <2>3, <3>1
  <2> QED
    BY <1>3, <2>3, <2>4, <2>5
<1>10. Distinct(Txs(c)')
  <2>1. SUFFICES ASSUME NEW i \in DOMAIN Txs(c)', NEW j \in DOMAIN Txs(c)',
                        ~Txs(c)'[i].notify, ~Txs(c)'[j].notify, Txs(c)'[i].id = Txs(c)'[j].id
                 PROVE  i = j
    BY DEF Distinct
  <2>2. ASSUME NEW k \in DOMAIN Txs(c), ~Txs(c)[k].notify, ~n PROVE Txs(c)[k].id # v
    <3>1. Txs(c)[k].id <= driver.block /\ driver.block < v
      BY <1>6, <1>7, <2>2 DEF UpTo
    <3> QED
      BY <1>7, <1>8, <2>2, <3>1
  <2>3. (i \in DOMAIN Txs(c) \/ i = l) /\ (j \in DOMAIN Txs(c) \/ j = l)
    BY <1>3
  <2>4. CASE i \in DOMAIN Txs(c) /\ j \in DOMAIN Txs(c)
    BY <1>3, <1>6, <2>1, <2>4 DEF Distinct
  <2>5. CASE i \in DOMAIN Txs(c) /\ j = l
    BY <1>3, <1>4, <2>1, <2>2, <2>5
  <2>6. CASE i = l /\ j \in DOMAIN Txs(c)
    BY <1>3, <1>4, <2>1, <2>2, <2>6
  <2> QED
    BY <2>3, <2>4, <2>5, <2>6
<1>11. Transmitted(Txs(c)', bus')
  BY <1>3, <1>4, <1>6 DEF Transmitted
<1>12. UpTo(Txs(c)', driver'.block)
  <2>1. UpTo(Txs(c), driver'.block)
    BY <1>6, <1>7, UpToMore
  <2>2. ~n => v <= driver'.block
    BY <1>7
  <2> QED
    BY <1>3, <1>4, <2>1, <2>2 DEF UpTo
<1> QED
  BY <1>9, <1>10, <1>11, <1>12 DEF ListOK

\* The other senders, and the one that waits now.
LEMMA AcceptedClean ==
  ASSUME LibraryTypeOK, TrueInv, driver.up,
         NEW t \in At("query"), NEW c \in Clients, NEW n \in BOOLEAN, NEW v \in Nat, NEW x, NEW defects,
         AddsTransaction(t, c, n, v, x, defects), connections[c].valid,
         NEW p \in Promises, Granted(p, t, n, v), NEW u \in Threads
  PROVE  CleanOK(u)'
<1>1. PICK m, l : m = th[t].m /\ l = Len(Txs(c)) + 1
  OBVIOUS
<1>2. Appended(c, n, th[t].m, x)
  BY AppendedFacts
<1>3. /\ DOMAIN Txs(c)' = DOMAIN Txs(c) \cup {l} /\ l \notin DOMAIN Txs(c)
      /\ \A i \in DOMAIN Txs(c) : Txs(c)'[i] = Txs(c)[i] /\ Txs(c)[i] \in Transactions
      /\ Txs(c)'[l] = x
  BY <1>1, <1>2 DEF Appended
<1>4. /\ (x.notify <=> n) /\ x.id = v /\ x.m = m
      /\ th[t].op = "claim" => x.code # "uninitialised"
      /\ \A b \in Clients : connections'[b].valid = connections[b].valid
      /\ \A b \in Clients \ {c} : Txs(b)' = Txs(b)
      /\ \A w \in Threads \ {t} : th'[w] = th[w]
      /\ n => th'[t] = Idle
      /\ ~n => /\ th'[t].at = "waiting" /\ th'[t].op = th[t].op /\ th'[t].c = c /\ th'[t].m = m /\ th'[t].id = v
      /\ spoilt' = spoilt \cup defects /\ c = th[t].c
      /\ ~n /\ (\E w \in Threads : Awaits(w) /\ th[w].c = c /\ th[w].id = v) => <<m, "reused">> \in defects
  BY <1>1 DEF AddsTransaction
<1>5. t \in Threads /\ th[t].at = "query" /\ ~Awaits(t)
  BY DEF At, Awaits
<1>6. n => ~Awaits(t)'
  BY <1>4 DEF Awaits, Idle
<1>7. CASE u # t
  <2>1. CleanOK(u) /\ th'[u] = th[u] /\ AwaitsStill(u) /\ spoilt \subseteq spoilt'
    BY <1>4, <1>7 DEF TrueInv, AwaitsStill, Awaits
  <2>2. PICK b \in Clients : b = th[u].c
    BY ThreadTypes
  <2>3. Mine(u, Txs(b)) # {} => Mine(u, Txs(b))' # {}
    <3>1. \A i \in DOMAIN Txs(b) : i \in DOMAIN Txs(b)' /\ Txs(b)'[i] = Txs(b)[i]
      BY <1>3, <1>4
    <3> QED
      BY <2>1, <3>1 DEF Mine
  <2>4. CASE Clean(u)'
    <3>1. /\ Awaits(u) /\ Awaits(u)' /\ connections[b].valid /\ ~Excused(th[u].m)
      BY <1>4, <2>1, <2>2, <2>4 DEF Clean, Awaits, Excused, Met
    <3>2. /\ Mine(u, Txs(b)) # {}
          /\ \A w \in Threads : Awaits(w) /\ th[w].c = b /\ th[w].id = th[u].id => w = u
      BY <2>1, <2>2, <3>1 DEF CleanOK, Clean
    <3>3. Awaits(t)' /\ th'[t].c = b => th'[t].id # th[u].id
      <4>1. SUFFICES ASSUME Awaits(t)', th'[t].c = b, th'[t].id = th[u].id PROVE FALSE
        OBVIOUS
      <4>2. ~n /\ b = c /\ th[u].id = v
        BY <1>4, <1>6, <4>1
      <4>3. PICK i \in DOMAIN Txs(c) : ~Txs(c)[i].notify /\ Txs(c)[i].id = v
        BY <3>2, <4>2 DEF Mine
      <4>4. Txs(c)[i].id <= driver.block
        BY <4>3 DEF TrueInv, ListOK, UpTo
      <4>5. driver.block < v /\ driver.block \in Nat
        BY <4>2 DEF Granted, New, LibraryTypeOK, Driver
      <4> QED
        BY <4>3, <4>4, <4>5
    <3>4. \A w \in Threads : Awaits(w)' /\ w # u /\ th'[w].c = th[u].c /\ th'[w].id = th[u].id =>
            Awaits(w) /\ th'[w].c = th[w].c /\ th'[w].id = th[w].id
      BY <1>4, <2>2, <3>3 DEF Awaits
    <3>5. Awaits(u) /\ connections'[b].valid /\ ~Excused(th[u].m)' =>
            connections[b].valid /\ (Mine(u, Txs(b)) # {} => Mine(u, Txs(b))' # {})
      BY <1>4, <2>3
    <3> QED
      BY <2>1, <2>2, <3>4, <3>5, CleanStays
  <2> QED
    BY <2>4 DEF CleanOK
<1>8. CASE u = t
  <2>1. CASE ~Clean(t)'
    BY <1>8, <2>1 DEF CleanOK
  <2>2. CASE Clean(t)'
    <3>1. Awaits(t)' /\ ~n /\ th'[t].c = c /\ th'[t].id = v /\ th'[t].m = m /\ th'[t].at = "waiting" /\ th'[t].op = th[t].op
      BY <1>4, <1>6, <2>2 DEF Clean
    <3>2. <<m, "reused">> \notin spoilt'
      BY <2>2, <3>1 DEF Clean, Excused, Met
    <3>3. \A w \in Threads : Awaits(w)' /\ th'[w].c = th'[t].c /\ th'[w].id = th'[t].id => w = t
      <4>1. \A w \in Threads : ~(Awaits(w) /\ th[w].c = c /\ th[w].id = v)
        BY <1>4, <3>1, <3>2
      <4> QED
        BY <1>4, <3>1, <4>1 DEF Awaits
    <3>4. l \in Mine(t, Txs(c))'
      BY <1>3, <1>4, <3>1 DEF Mine
    <3>5. Mine(t, Txs(th[t].c))' = Mine(t, Txs(c))'
      BY <3>1 DEF Mine, Txs
    <3>6. Mine(t, Txs(th[t].c))' # {}
      BY <3>4, <3>5
    <3> QED
      BY <1>8, <3>3, <3>6 DEF CleanOK
  <2> QED
    BY <2>1, <2>2
<1> QED
  BY <1>7, <1>8

\* An answer is taken for a send.
LEMMA AcceptedTold ==
  ASSUME LibraryTypeOK, ToldInv, driver.up, driver'.up, NEW t \in At("query"), \A u \in At("query") : u = t,
         NEW c \in Clients, NEW n \in BOOLEAN, NEW v \in Nat, NEW x, NEW defects,
         AddsTransaction(t, c, n, v, x, defects), linked, UNCHANGED <<linked, bus, allowance>>,
         HeardTrue => HeardTrue', NEW p \in Promises, ~Confused' => Granted(p, t, n, v)
  PROVE  ToldInv'
<1>1. WhereInv /\ LifeInv /\ (~Confused => TrueInv)
  BY DEF ToldInv
<1>2. WhereInv' /\ LifeInv'
  BY <1>1, AcceptedWhere
<1>3. /\ \A b \in Clients : connections'[b].valid = connections[b].valid
      /\ \A b \in Clients \ {c} : Txs(b)' = Txs(b)
      /\ spoilt \subseteq spoilt' /\ told' = told
      /\ c = th[t].c /\ th[t].op \in Sending
  BY DEF AddsTransaction
<1>4. connections[c].valid
  BY <1>1, <1>3 DEF LifeInv, Sender
<1>5. ASSUME ~Confused' PROVE TrueInv'
  <2>1. TrueInv /\ Granted(p, t, n, v)
    BY <1>1, <1>3, <1>5, SpoiltGrows
  <2>2. HeardTrue'
    BY <2>1 DEF TrueInv
  <2>3. \A m \in Sends : TRUE \in ToSet(told'[m]) => m \in bus' \/ Excused(m)'
    <3>1. \A m : Excused(m) => Excused(m)'
      BY <1>3 DEF Excused, Met
    <3> QED
      BY <1>3, <2>1, <3>1 DEF TrueInv
  <2>4. driver.block \in Nat /\ driver'.block \in Nat /\ driver.block <= driver'.block
        /\ (~n => driver'.block = v)
    <3>1. driver.block \in Nat
      BY DEF LibraryTypeOK, Driver
    <3>2. ~n => driver.block < v /\ driver'.block = v
      BY <2>1 DEF Granted, New
    <3>3. n => driver'.block = driver.block
      BY <2>1 DEF Granted
    <3> QED
      BY <3>1, <3>2, <3>3
  <2>5. \A q \in Coming' : ~q.notify => q.id <= driver'.block
    <3>1. \A q \in Coming : ~q.notify => q.id <= driver.block
      BY <2>1 DEF TrueInv
    <3>2. \A q \in Coming : q.id \in Nat
      <4>1. Coming \subseteq Promises
        BY AnnouncedFacts DEF Coming, LibraryTypeOK, Driver
      <4> QED
        BY <4>1 DEF Promises
    <3>3. ~p.notify => p.id <= driver'.block
      BY <2>1, <2>4 DEF Granted
    <3>4. \A q \in Coming' : q \in Coming \/ q = p
      BY <2>1 DEF Granted
    <3> QED
      BY <2>4, <3>1, <3>2, <3>3, <3>4
  <2>6. ASSUME NEW b \in Clients PROVE ListOK(b)'
    <3>1. CASE b = c
      <4>1. ListOK(c)'
        BY <1>4, <2>1, AcceptedList
      <4> QED
        BY <3>1, <4>1
    <3>2. CASE b # c /\ connections'[b].valid
      <4>1. ListOK(b) /\ connections[b].valid /\ Txs(b)' = Txs(b)
        BY <1>3, <2>1, <3>2 DEF TrueInv
      <4>2. Matching(Txs(b), b, Coming', spoilt')
        <5>1. New(p) /\ Coming' \subseteq Coming \cup {p}
          BY <2>1 DEF Granted
        <5> QED
          BY <1>3, <4>1, <5>1, MatchingServed
      <4>3. UpTo(Txs(b), driver'.block)
        BY <2>4, <4>1, UpToMore DEF ListOK
      <4>4. Distinct(Txs(b)) /\ Transmitted(Txs(b), bus')
        BY <4>1 DEF ListOK
      <4> QED
        BY <4>1, <4>2, <4>3, <4>4 DEF ListOK
    <3>3. CASE ~connections'[b].valid
      BY <3>3 DEF ListOK
    <3> QED
      BY <3>1, <3>2, <3>3
  <2>7. \A u \in Threads : CleanOK(u)'
    BY <1>4, <2>1, AcceptedClean
  <2> QED
    BY <2>2, <2>3, <2>5, <2>6, <2>7 DEF TrueInv
<1> QED
  BY <1>2, <1>5 DEF ToldInv

\* What the driver promises when it serves x.
Promised(x) ==
  LET y == Served(x)[1]  v == Served(x)[2] IN
  /\ x.q \notin Blocking => y.block = driver.block
  /\ x.q \in Blocking => v = driver.block + 1 /\ y.block = v
  /\ x.q = "notify" => v = 0 \/ v \in MsgIds
  /\ \A q \in y.pending : q \in driver.pending
       \/ (x.q \in Sending /\ x.c \in driver.taken /\ v # 0
             /\ q.c = x.c /\ (q.notify <=> x.q = "notify") /\ q.id = v /\ q.m = x.m)

LEMMA ServedPromises ==
  ASSUME LibraryTypeOK, NEW x \in Queries
  PROVE  Promised(x)
<1>1. /\ driver \in Driver /\ driver.pending \in SUBSET Promises
      /\ driver.idx \in MsgIds /\ driver.block \in Nat
  BY DEF LibraryTypeOK, Driver
<1>2. x.q \in {"connect", "disconnect", "status", "notify", "block", "claim"} /\ x.c \in Clients /\ x.m \in Nat
  BY DEF Queries, Calls, Sending, Blocking
<1>3. CASE x.q = "connect"
  <2>1. PICK new, z : Served(x) = <<[driver EXCEPT !.taken = z], new, FALSE>>
    BY <1>3 DEF Served, AddNewClientID, Blocking
  <2>2. Served(x)[1].pending = driver.pending /\ Served(x)[1].block = driver.block
    BY <1>1, <2>1 DEF Driver
  <2> QED
    BY <1>3, <2>2 DEF Promised, Blocking
<1>4. CASE x.q = "disconnect"
  <2> DEFINE y == [driver EXCEPT !.taken = @ \ {x.c}, !.pending = @ \ OfClient(x.c)]
  <2>1. Served(x) = <<y, 0, TRUE>>
    BY <1>4 DEF Served, RemoveClientID, Blocking
  <2>3. y.pending = driver.pending \ OfClient(x.c) /\ y.block = driver.block
    BY <1>1 DEF Driver
  <2> HIDE DEF y
  <2>2. Served(x)[1].pending = driver.pending \ OfClient(x.c) /\ Served(x)[1].block = driver.block
    BY <2>1, <2>3
  <2> QED
    BY <1>4, <2>2 DEF Promised, Blocking
<1>5. CASE x.q = "status"
  <2>1. PICK n : Served(x) = <<driver, n, FALSE>>
    BY <1>5 DEF Served, Blocking
  <2>2. Served(x)[1].pending = driver.pending /\ Served(x)[1].block = driver.block
    BY <2>1
  <2> QED
    BY <1>5, <2>2 DEF Promised, Blocking
<1>6. ASSUME NEW d \in Driver, d.pending = driver.pending, NEW id \in Nat, NEW r, r = AddSendMsg(x, d, id)
      PROVE  /\ r[1].block = d.block /\ r[2] = id
             /\ \A q \in r[1].pending : q \in driver.pending
                  \/ (x.c \in driver.taken /\ id # 0
                        /\ q.c = x.c /\ (q.notify <=> x.q = "notify") /\ q.id = id /\ q.m = x.m)
  <2> DEFINE p == [c |-> x.c, notify |-> x.q = "notify", id |-> id, m |-> x.m]
             pending == IF id # 0 /\ x.c \in driver.taken THEN driver.pending \cup {p} ELSE driver.pending
             y == [d EXCEPT !.pending = pending]
  <2>1. r = <<y, id, FALSE>>
    BY <1>6 DEF AddSendMsg
  <2>2. p.c = x.c /\ (p.notify <=> x.q = "notify") /\ p.id = id /\ p.m = x.m
    OBVIOUS
  <2> HIDE DEF p
  <2>3. \A q \in pending : q \in driver.pending \/ (q = p /\ id # 0 /\ x.c \in driver.taken)
    OBVIOUS
  <2> HIDE DEF pending
  <2>4. y.pending = pending /\ y.block = d.block
    BY <1>6 DEF Driver
  <2> HIDE DEF y
  <2>5. r[1] = y /\ r[2] = id
    BY <2>1
  <2> QED
    BY <2>2, <2>3, <2>4, <2>5
<1>7. CASE x.q = "notify"
  <2>1. PICK id : id = GetMsgId
    OBVIOUS
  <2>2. id = 0 \/ id = NextIdx(driver.idx)
    BY <2>1 DEF GetMsgId
  <2>3. NextIdx(driver.idx) \in MsgIds
    <3>1. MsgIds = 1 .. Cardinality(MsgIds) /\ Cardinality(MsgIds) \in Nat /\ MsgIds # {}
      BY LibraryAssumption, FS_CardinalityType
    <3> DEFINE n == Cardinality(MsgIds)
    <3>2. n \in Nat \ {0} /\ driver.idx \in Nat
      BY <1>1, <3>1
    <3> HIDE DEF n
    <3>3. driver.idx % n \in 0 .. n - 1
      BY <3>2
    <3>4. (driver.idx % n) + 1 \in 1 .. n
      BY <3>2, <3>3
    <3> QED
      BY <3>1, <3>4 DEF NextIdx, n
  <2>4. id \in Nat /\ (id = 0 \/ id \in MsgIds)
    BY <2>2, <2>3, IdsArePositive
  <2>5. PICK d : d = Taking(driver, id)
    OBVIOUS
  <2>6. d \in Driver /\ d.pending = driver.pending /\ d.block = driver.block
    <3>1. CASE id = 0
      BY <1>1, <2>5, <3>1 DEF Taking
    <3>2. CASE id # 0
      <4>1. id \in MsgIds /\ d = [driver EXCEPT !.idx = id, !.avail = driver.avail \ {id}]
        BY <2>4, <2>5, <3>2 DEF Taking
      <4> QED
        BY <1>1, <4>1 DEF Driver
    <3> QED
      BY <3>1, <3>2
  <2>7. PICK r : r = Served(x)
    OBVIOUS
  <2>8. r = AddSendMsg(x, d, id)
    BY <1>7, <2>1, <2>5, <2>7 DEF Served, Blocking
  <2>9. /\ r[1].block = driver.block /\ r[2] = id
        /\ \A q \in r[1].pending : q \in driver.pending
             \/ (x.c \in driver.taken /\ id # 0
                   /\ q.c = x.c /\ (q.notify <=> x.q = "notify") /\ q.id = id /\ q.m = x.m)
    BY <1>6, <2>4, <2>6, <2>8
  <2>10. x.q \in Sending /\ x.q \notin Blocking
    BY <1>7 DEF Sending, Blocking
  <2> QED
    BY <2>4, <2>7, <2>9, <2>10 DEF Promised
<1>8. CASE x.q \in Blocking
  <2>1. PICK id, d : id = driver.block + 1 /\ d = [driver EXCEPT !.block = @ + 1]
    OBVIOUS
  <2>2. id \in Nat /\ d \in Driver /\ d.pending = driver.pending /\ d.block = id
    BY <1>1, <2>1 DEF Driver
  <2>7. PICK r : r = Served(x)
    OBVIOUS
  <2>8. r = AddSendMsg(x, d, id)
    BY <1>8, <2>1, <2>7 DEF Served, Blocking
  <2>9. /\ r[1].block = id /\ r[2] = id
        /\ \A q \in r[1].pending : q \in driver.pending
             \/ (x.c \in driver.taken /\ id # 0
                   /\ q.c = x.c /\ (q.notify <=> x.q = "notify") /\ q.id = id /\ q.m = x.m)
    BY <1>6, <2>2, <2>8
  <2>10. x.q \in Sending /\ x.q # "notify"
    BY <1>8 DEF Sending, Blocking
  <2> QED
    BY <1>8, <2>1, <2>7, <2>9, <2>10 DEF Promised
<1> QED
  BY <1>2, <1>3, <1>4, <1>5, <1>7, <1>8 DEF Blocking

\* What is to come when x was served with the number v: what was, and p.
ServedTruly(x, p, v) ==
  /\ driver'.block \in Nat /\ driver.block <= driver'.block
  /\ HeardTrue => HeardTrue'
  /\ Coming' \subseteq Coming \cup {p}
  /\ x.q \notin Sending \/ v = 0 \/ x.c \notin driver.taken => Coming' \subseteq Coming
  /\ x.q \notin Blocking => driver'.block = driver.block
  /\ x.q \in Blocking => v = driver.block + 1 /\ driver'.block = v /\ v \in Nat
  /\ x.q = "notify" => v \in Nat
  /\ x.q \in Sending /\ v # 0 =>
       /\ p.c = x.c /\ (p.notify <=> x.q = "notify") /\ p.id = v /\ p.m = x.m
       /\ ~Confused => New(p)

LEMMA ServesTruly ==
  ASSUME IdsInv, DriverServes, NEW x, x = Head(toDriver), NEW v, v = Served(x)[2]
  PROVE  \E p \in Promises : ServedTruly(x, p, v)
<1> DEFINE failed == IF x.q = "disconnect" THEN OfClient(x.c) ELSE {}
           news == [i \in 1 .. Cardinality(failed) |-> Outcome(SetToSeq(failed)[i], FALSE)]
<1>1. /\ driver.up /\ toDriver # <<>> /\ IsQuery(x)
      /\ driver' = Served(x)[1] /\ toListener' = toListener \o news /\ bus' = bus
  BY DEF DriverServes
<1>2. /\ toDriver \in Seq(Datagrams) /\ driver \in Driver /\ toListener \in Seq(News)
      /\ LibraryTypeOK /\ driver.block \in Nat /\ driver.pending \in SUBSET Promises
      /\ ~Confused => \A id \in MsgIds : Once(connections, toDriver, driver.avail, lost, id)
  BY <1>1 DEF IdsInv, LibraryTypeOK, Driver
<1>3. x \in Queries
  BY <1>1, <1>2, HeadQuery
<1>4. Promised(x)
  BY <1>2, <1>3, ServedPromises
<1>5. v \in Int /\ (x.q = "notify" /\ v # 0 => v \in driver.avail)
  BY <1>2, <1>3, ServedFacts
<1>6. failed \subseteq driver.pending /\ IsFiniteSet(failed) /\ failed \subseteq Promises
  <2>1. failed \subseteq driver.pending
    BY DEF OfClient
  <2> HIDE DEF failed
  <2> QED
    BY <1>2, <2>1, FS_Subset DEF LibraryTypeOK
<1>7. /\ news \in Seq(News)
      /\ \A i \in DOMAIN news : \E q \in failed : news[i] = Outcome(q, FALSE)
  <2> HIDE DEF failed
  <2>1. SetToSeq(failed) \in Seq(failed) /\ DOMAIN SetToSeq(failed) = 1 .. Cardinality(failed)
    BY <1>6, SetToSeqFacts
  <2>2. Cardinality(failed) \in Nat
    BY <1>6, FS_CardinalityType
  <2>3. \A p \in Promises : Outcome(p, FALSE) \in News
    BY DEF Promises, Outcome, News, Outcomes
  <2>4. \A i \in 1 .. Cardinality(failed) : SetToSeq(failed)[i] \in failed
    BY <2>1, ElementOfSeq, LenProperties
  <2>5. \A i \in 1 .. Cardinality(failed) : news[i] \in News
    BY <1>6, <2>3, <2>4
  <2>6. news \in [1 .. Cardinality(failed) -> News]
    BY <2>5
  <2>7. \A i \in DOMAIN news : \E q \in failed : news[i] = Outcome(q, FALSE)
    BY <2>4
  <2> HIDE DEF news
  <2>8. news \in Seq(News)
    BY <2>2, <2>6, IsASeq
  <2> QED
    BY <2>7, <2>8
<1> HIDE DEF news
<1>8. /\ Announced(toListener') \subseteq Announced(toListener) \cup Announced(news)
      /\ \A i \in DOMAIN toListener' :
           (\E j \in DOMAIN toListener : toListener'[i] = toListener[j]) \/ (\E j \in DOMAIN news : toListener'[i] = news[j])
  BY <1>1, <1>2, <1>7, AnnouncedConcat
<1>9. Announced(news) \subseteq driver.pending
  <2>1. \A q \in Promises : Promise(Outcome(q, FALSE)) = q
    BY DEF Promise, Outcome, Promises
  <2> HIDE DEF failed
  <2>2. SUFFICES ASSUME NEW i \in DOMAIN news PROVE Promise(news[i]) \in driver.pending
    BY DEF Announced
  <2>3. PICK q \in failed : news[i] = Outcome(q, FALSE)
    BY <1>7
  <2> QED
    BY <1>6, <2>1, <2>3
<1>10. HeardTrue => HeardTrue'
  <2> HIDE DEF failed
  <2>1. \A i \in DOMAIN news : ~news[i].ok
    <3>1. \A q : ~Outcome(q, FALSE).ok
      BY DEF Outcome
    <3> QED
      BY <1>7, <3>1
  <2> QED
    BY <1>1, <1>8, <2>1 DEF HeardTrue
<1> HIDE DEF failed
<1>11. PICK y : y = Served(x)[1] /\ driver' = y
  BY <1>1
<1>12. /\ x.q \notin Blocking => y.block = driver.block
       /\ x.q \in Blocking => v = driver.block + 1 /\ y.block = v
       /\ x.q = "notify" => v = 0 \/ v \in MsgIds
       /\ \A q \in y.pending : q \in driver.pending
            \/ (x.q \in Sending /\ x.c \in driver.taken /\ v # 0
                  /\ q.c = x.c /\ (q.notify <=> x.q = "notify") /\ q.id = v /\ q.m = x.m)
  BY <1>4, <1>11 DEF Promised
<1>13. PICK p \in Promises : x.q \in Sending /\ v # 0 =>
          p.c = x.c /\ (p.notify <=> x.q = "notify") /\ p.id = v /\ p.m = x.m
  <2>1. x.q \in Sending => v \in Nat
    BY <1>2, <1>12, IdsArePositive DEF Sending, Blocking
  <2>2. x.c \in Clients /\ x.m \in Nat
    BY <1>3 DEF Queries
  <2>3. CASE x.q \in Sending
    <3>1. PICK n \in BOOLEAN : n <=> x.q = "notify"
      OBVIOUS
    <3>2. PICK q : q = [c |-> x.c, notify |-> n, id |-> v, m |-> x.m]
      OBVIOUS
    <3>3. q \in Promises /\ q.c = x.c /\ (q.notify <=> n) /\ q.id = v /\ q.m = x.m
      BY <2>1, <2>2, <2>3, <3>2 DEF Promises
    <3> QED
      BY <3>1, <3>3
  <2>4. CASE x.q \notin Sending
    <3>1. [c |-> x.c, notify |-> FALSE, id |-> 0, m |-> x.m] \in Promises
      BY <2>2 DEF Promises
    <3> QED
      BY <2>4, <3>1
  <2> QED
    BY <2>3, <2>4
<1>14. x.q \in Sending /\ v # 0 => p.c = x.c /\ (p.notify <=> x.q = "notify") /\ p.id = v /\ p.m = x.m
  BY <1>13
<1>15. \A q \in driver'.pending : q \in driver.pending \/ (q = p /\ x.q \in Sending /\ x.c \in driver.taken /\ v # 0)
  <2>1. y \in Driver
    BY <1>2, <1>3, <1>11, ServedFacts
  <2>2. \A q \in y.pending : q \in Promises
    BY <2>1 DEF Driver
  <2>3. \A q \in Promises : q = p \/ q.c # p.c \/ ~(q.notify <=> p.notify) \/ q.id # p.id \/ q.m # p.m
    BY <1>13 DEF Promises
  <2> QED
    BY <1>11, <1>12, <1>14, <2>2, <2>3
<1>16. /\ Coming' \subseteq Coming \cup {p}
       /\ x.q \notin Sending \/ v = 0 \/ x.c \notin driver.taken => Coming' \subseteq Coming
  BY <1>8, <1>9, <1>15 DEF Coming
<1>17. /\ driver'.block \in Nat /\ driver.block <= driver'.block
       /\ x.q \in Blocking => v \in Nat
       /\ x.q = "notify" => v \in Nat
  <2>1. x.q \in Blocking => driver'.block = driver.block + 1
    BY <1>11, <1>12
  <2> QED
    BY <1>2, <1>11, <1>12, <2>1, IdsArePositive
<1>18. ASSUME x.q \in Sending, v # 0, ~Confused PROVE New(p)
  <2>1. CASE x.q = "notify"
    <3>1. v \in MsgIds /\ v \in driver.avail
      BY <1>5, <1>12, <1>18, <2>1
    <3>2. Once(connections, toDriver, driver.avail, lost, v)
      BY <1>2, <1>18, <3>1
    <3>3. \A b \in Clients : Notes(connections[b], v) = {}
      BY <3>1, <3>2 DEF Once, HeldIn
    <3>4. \A b \in Clients : \A i \in Notifications(b) : Txs(b)[i].id # v
      BY <3>3 DEF Notes, Notifications, Txs
    <3>5. p.c \in Clients /\ p.notify /\ p.id = v
      BY <1>13, <1>14, <1>18, <2>1 DEF Promises
    <3> QED
      BY <3>4, <3>5 DEF New
  <2>2. CASE x.q \in Blocking
    <3>1. ~p.notify /\ p.id = driver.block + 1
      BY <1>12, <1>14, <1>18, <2>2 DEF Blocking
    <3> QED
      BY <1>2, <3>1 DEF New
  <2> QED
    BY <1>18, <2>1, <2>2 DEF Sending, Blocking
<1>19. (x.q \notin Blocking => driver'.block = driver.block)
       /\ (x.q \in Blocking => v = driver.block + 1 /\ driver'.block = v)
  BY <1>11, <1>12
<1>20. ServedTruly(x, p, v)
  BY <1>10, <1>14, <1>16, <1>17, <1>18, <1>19 DEF ServedTruly
<1> QED
  BY <1>20

\* A call takes the answer to x, which is its own unless the library is confused.
LEMMA AnswerTold ==
  ASSUME LibraryTypeOK, ToldInv, driver.up, driver'.up, linked, UNCHANGED <<linked, bus, allowance>>,
         NEW t \in At("query"), \A u \in At("query") : u = t, th[t].op \in Calls,
         NEW x \in Queries, NEW p \in Promises, NEW v \in Int, ServedTruly(x, p, v),
         NEW isOk, NEW d \in Seq(Datagrams), NEW s, TakesAnswer(t, v, isOk, d, s),
         ~Confused' => ~Confused /\ th[t].op = x.q /\ th[t].c = x.c /\ th[t].m = x.m
  PROVE  ToldInv'
<1>1. th[t].op \in {"connect", "disconnect", "notify", "block", "claim", "status"}
  BY DEF Calls, Sending, Blocking
<1>2. th[t].c \in Clients /\ t \in Threads /\ th[t].at = "query" /\ WhereInv /\ LifeInv /\ (~Confused => TrueInv)
  BY ThreadTypes DEF At, ToldInv
<1>3. /\ HeardTrue => HeardTrue'
      /\ driver'.block \in Nat /\ driver.block <= driver'.block
      /\ Coming' \subseteq Coming \cup {p}
      /\ x.q \notin Sending \/ v = 0 => Coming' \subseteq Coming
      /\ x.q \notin Blocking => driver'.block = driver.block
      /\ x.q \in Blocking => driver'.block = v /\ v \in Nat
      /\ x.q = "notify" => v \in Nat
      /\ x.q \in Sending /\ v # 0 =>
           /\ p.c = x.c /\ (p.notify <=> x.q = "notify") /\ p.id = v /\ p.m = x.m
           /\ ~Confused => New(p)
  BY DEF ServedTruly
<1>4. ASSUME Returns(t, d, s), th[t].op \notin Blocking, th[t].op = "notify" => ~(v > 0) PROVE ToldInv'
  <2>1. ~Confused' => Coming' \subseteq Coming /\ driver'.block = driver.block
    <3>1. SUFFICES ASSUME ~Confused' PROVE Coming' \subseteq Coming /\ driver'.block = driver.block
      OBVIOUS
    <3>2. x.q \notin Blocking /\ (x.q = "notify" => v = 0)
      BY <1>3, <1>4, <3>1
    <3>3. x.q \notin Sending \/ v = 0
      BY <3>2 DEF Sending
    <3> QED
      BY <1>3, <3>2, <3>3
  <2> QED
    BY <1>2, <1>3, <1>4, <2>1, ReturnsTold
<1>5. ASSUME NEW C, C \subseteq Clients, NEW anew, anew \subseteq C, NEW done, done = {t}, NEW defects,
             Clear(C, anew, done, d, defects), th[t].op \notin Sending,
             \A u \in Threads : Awaits(u) /\ th[u].c \in anew => <<th[u].m, "reconnect">> \in defects
      PROVE  ToldInv'
  <2>1. ~Confused' => /\ Coming' \subseteq Coming /\ (HeardTrue => HeardTrue')
                      /\ driver'.up => driver.up /\ driver'.block = driver.block
    <3>1. SUFFICES ASSUME ~Confused' PROVE Coming' \subseteq Coming /\ driver'.block = driver.block
      BY <1>3
    <3>2. x.q \notin Blocking /\ x.q \notin Sending
      BY <1>5, <3>1 DEF Sending
    <3> QED
      BY <1>3, <3>2
  <2>2. \A u \in At("query") : u \in done
    BY <1>5
  <2>3. LibraryTypeOK /\ WhereInv /\ LifeInv /\ (~Confused => TrueInv)
    BY <1>2
  <2>4. ~driver'.up => driver'.pending = {} /\ driver'.taken = {}
    OBVIOUS
  <2>5. ~linked' => toListener' = <<>> /\ C = Clients /\ anew = {}
    OBVIOUS
  <2>6. allowance' = allowance /\ bus' = bus
    OBVIOUS
  <2> QED
    BY <1>5, <2>1, <2>2, <2>3, <2>4, <2>5, <2>6, ClearTold
<1>6. ASSUME Connected(t, v, d, s), v \in Clients, th[t].op \notin Sending PROVE ToldInv'
  <2>1. PICK C, done, defects :
          /\ C = {v} /\ done = {t} /\ Clear(C, C, done, d, defects)
          /\ defects = s \cup {<<th[u].m, "reconnect">> :
                u \in {w \in At("waiting") \cup At("woken") : th[w].op \in Blocking /\ th[w].c = v}}
    BY <1>6 DEF Connected
  <2>2. C \subseteq Clients /\ C \subseteq C
    BY <1>6, <2>1
  <2>3. \A u \in Threads : Awaits(u) /\ th[u].c \in C => <<th[u].m, "reconnect">> \in defects
    BY <2>1 DEF Awaits, At
  <2> QED
    BY <1>5, <1>6, <2>1, <2>2, <2>3
<1>7. ASSUME Clear({th[t].c}, {}, {t}, d, s), th[t].op \notin Sending PROVE ToldInv'
  <2>1. PICK C, anew, done : C = {th[t].c} /\ anew = {} /\ done = {t} /\ Clear(C, anew, done, d, s)
    BY <1>7
  <2>2. C \subseteq Clients /\ anew \subseteq C
    BY <1>2, <2>1
  <2>3. \A u \in Threads : Awaits(u) /\ th[u].c \in anew => <<th[u].m, "reconnect">> \in s
    BY <2>1
  <2> QED
    BY <1>5, <1>7, <2>1, <2>2, <2>3
<1>8. ASSUME Accepted(t, v, d, s), v \in Nat, th[t].op \in Sending, th[t].op = "notify" => v # 0
      PROVE  ToldInv'
  <2>1. PICK c, n, y, defects :
          c \in Clients /\ n \in BOOLEAN /\ s \subseteq defects /\ AddsTransaction(t, c, n, v, y, defects)
    BY <1>8, AcceptedFacts
  <2>2. n = (th[t].op = "notify")
    BY <2>1 DEF AddsTransaction
  <2>3. ~Confused' => Granted(p, t, n, v)
    <3>1. SUFFICES ASSUME ~Confused' PROVE Granted(p, t, n, v)
      OBVIOUS
    <3>2. x.q \in Sending /\ v # 0
      <4>1. x.q \in Sending /\ x.q = th[t].op
        BY <1>8, <3>1
      <4>2. x.q \in Blocking => v # 0
        <5>1. x.q \in Blocking => v = driver.block + 1
          BY DEF ServedTruly
        <5>2. driver.block \in Nat
          BY DEF LibraryTypeOK, Driver
        <5> QED
          BY <5>1, <5>2
      <4> QED
        BY <1>8, <4>1, <4>2 DEF Sending
    <3>3. p.c = x.c /\ (p.notify <=> x.q = "notify") /\ p.id = v /\ p.m = x.m /\ New(p)
      BY <1>3, <3>1, <3>2
    <3>4. driver'.block = IF n THEN driver.block ELSE v
      <4>1. CASE x.q = "notify"
        <5>1. n /\ x.q \notin Blocking
          BY <2>2, <3>1, <4>1 DEF Blocking
        <5> QED
          BY <1>3, <5>1
      <4>2. CASE x.q # "notify"
        <5>1. ~n /\ x.q \in Blocking
          BY <2>2, <3>1, <3>2, <4>2 DEF Sending
        <5> QED
          BY <1>3, <5>1
      <4> QED
        BY <4>1, <4>2
    <3>5. p.c = th[t].c /\ (p.notify <=> n) /\ p.m = th[t].m
      BY <2>2, <3>1, <3>3
    <3> QED
      BY <1>3, <3>3, <3>4, <3>5 DEF Granted
  <2> QED
    BY <1>3, <1>8, <2>1, <2>3, AcceptedTold
<1>9. CASE th[t].op = "connect"
  <2>1. (v \in Clients /\ Connected(t, v, d, s)) \/ Returns(t, d, s)
    BY <1>9 DEF TakesAnswer, Blocking
  <2>2. th[t].op \notin Sending /\ th[t].op \notin Blocking
    BY <1>9 DEF Sending, Blocking
  <2> QED
    BY <1>4, <1>6, <1>9, <2>1, <2>2
<1>10. CASE th[t].op = "disconnect"
  <2>1. IF isOk THEN Clear({th[t].c}, {}, {t}, d, s) ELSE Returns(t, d, s)
    BY <1>10 DEF TakesAnswer, Blocking
  <2>2. th[t].op \notin Sending /\ th[t].op \notin Blocking
    BY <1>10 DEF Sending, Blocking
  <2> QED
    BY <1>4, <1>7, <1>10, <2>1, <2>2
<1>11. CASE th[t].op = "notify"
  <2>1. IF v > 0 THEN Accepted(t, v, d, s) ELSE Returns(t, d, s)
    BY <1>11 DEF TakesAnswer, Blocking
  <2>2. th[t].op \in Sending /\ th[t].op \notin Blocking
    BY <1>11 DEF Sending, Blocking
  <2>3. CASE v > 0
    <3>1. v \in Nat /\ v # 0
      BY <2>3
    <3> QED
      BY <1>8, <2>1, <2>2, <2>3, <3>1
  <2>4. CASE ~(v > 0)
    BY <1>4, <2>1, <2>2, <2>4
  <2> QED
    BY <2>3, <2>4
<1>12. CASE th[t].op \in Blocking
  <2>1. IF v >= 0 THEN Accepted(t, v, d, s) ELSE Returns(t, d, s)
    BY <1>12 DEF TakesAnswer, Blocking
  <2>2. th[t].op \in Sending /\ th[t].op # "notify"
    BY <1>12 DEF Sending, Blocking
  <2>3. CASE v >= 0
    <3>1. v \in Nat
      BY <2>3
    <3> QED
      BY <1>8, <2>1, <2>2, <2>3, <3>1
  <2>4. CASE ~(v >= 0)
    <3>1. Confused'
      <4>1. SUFFICES ASSUME ~Confused' PROVE FALSE
        OBVIOUS
      <4>2. v \in Nat
        BY <1>3, <1>12, <4>1
      <4> QED
        BY <2>4, <4>2
    <3>2. Returns(t, d, s)
      BY <2>1, <2>4
    <3> QED
      BY <1>2, <1>3, <3>1, <3>2, ReturnsTold
  <2> QED
    BY <2>3, <2>4
<1>13. CASE th[t].op = "status"
  <2>1. Returns(t, d, s) /\ th[t].op \notin Blocking
    BY <1>13 DEF TakesAnswer, Blocking
  <2> QED
    BY <1>4, <1>13, <2>1
<1> QED
  BY <1>1, <1>9, <1>10, <1>11, <1>12, <1>13 DEF Blocking

LEMMA DriverServesTold ==
  ASSUME IdsInv, ToldInv, DriverServes
  PROVE  ToldInv'
<1>1. PICK x, v : x = Head(toDriver) /\ v = Served(x)[2]
  OBVIOUS
<1>2. PICK p \in Promises : ServedTruly(x, p, v)
  BY <1>1, ServesTruly
<1>3. PICK isOk, d, answered :
        /\ isOk = Served(x)[3] /\ d = Forget(Tail(toDriver))
        /\ answered = (x.q \in {"connect", "disconnect", "status"} \/ x.c \in driver.taken
                         \/ (x.q = "notify" /\ v = 0))
  OBVIOUS
<1>4. /\ driver.up /\ toDriver # <<>> /\ IsQuery(x) /\ driver' = Served(x)[1]
      /\ UNCHANGED <<readEventId, linked, bus, allowance>>
  BY <1>1 DEF DriverServes
<1>5. \/ \E t \in At("query") : TakesAnswer(t, v, isOk, d, IF x.own THEN {} ELSE {<<th[t].m, "stale">>})
      \/ toDriver' = Tail(toDriver) /\ UNCHANGED <<connections, th, told, spoilt>>
  BY <1>1, <1>3 DEF DriverServes
<1>6. LibraryTypeOK /\ OwnQueries /\ linked /\ toDriver \in Seq(Datagrams)
  BY <1>4 DEF IdsInv, WithoutDriver, LibraryTypeOK
<1>7. x \in Queries
  BY <1>1, <1>4, <1>6, HeadQuery
<1>8. v \in Int /\ driver'.up
  BY <1>1, <1>4, <1>6, <1>7, ServedFacts
<1>9. /\ Tail(toDriver) \in Seq(Datagrams)
      /\ \A i \in DOMAIN Tail(toDriver) : \E j \in DOMAIN toDriver : Tail(toDriver)[i] = toDriver[j]
  BY <1>4, <1>6, FreesOfTail, TailIsPart
<1>10. x = toDriver[1] /\ 1 \in DOMAIN toDriver
  BY <1>1, <1>4, <1>6, EmptySeq, LenProperties
<1>11. ASSUME NEW t \in At("query"), NEW s, s = IF x.own THEN {} ELSE {<<th[t].m, "stale">>},
              TakesAnswer(t, v, isOk, d, s)
       PROVE  ToldInv'
  <2>1. t \in Threads /\ th[t].op \in Calls /\ (\A u \in At("query") : u = t)
        /\ \A u \in Threads : th[u].at = "query" => u = t
    BY <1>6, <1>11 DEF At, OwnQueries
  <2>2. d \in Seq(Datagrams)
    BY <1>3, <1>9, FreesOfForget
  <2>3. spoilt \cup s \subseteq spoilt'
    <3>1. \/ Settles(d, s, 0) /\ (th[t].op = "notify" => v <= 0)
          \/ Settles(d, s, v) /\ th[t].op = "notify" /\ v > 0
      BY <1>4, <1>6, <1>8, <1>11, <2>1, <2>2, AnswerSettles
    <3> QED
      BY <3>1 DEF Settles
  <2>4. ASSUME ~Confused' PROVE ~Confused /\ th[t].op = x.q /\ th[t].c = x.c /\ th[t].m = x.m
    <3>1. ~Confused
      BY <2>3, <2>4, SpoiltGrows
    <3>2. x.own
      <4>1. CASE ~x.own
        <5>1. <<th[t].m, "stale">> \in spoilt'
          BY <1>11, <2>3, <4>1
        <5> QED
          BY <2>4, <5>1 DEF Confused
      <4> QED
        BY <4>1
    <3>3. \E u \in At("query") : th[u].op = x.q
      BY <1>4, <1>6, <1>10, <3>2 DEF OwnQueries
    <3>4. th[t].op = x.q
      BY <2>1, <3>3
    <3>5. x.c = th[t].c /\ x.m = th[t].m
      BY <1>4, <1>10, <3>2 DEF ToldInv, LifeInv
    <3> QED
      BY <3>1, <3>4, <3>5
  <2>5. UNCHANGED <<linked, bus, allowance>>
    BY <1>4
  <2> QED
    BY <1>2, <1>4, <1>6, <1>7, <1>8, <1>11, <2>1, <2>2, <2>4, <2>5, AnswerTold
<1>12. ASSUME toDriver' = Tail(toDriver), UNCHANGED <<connections, th, told, spoilt>>
       PROVE  ToldInv'
  <2>1. ~Confused' => Foreseen(p)
    <3>1. SUFFICES ASSUME ~Confused' PROVE Foreseen(p)
      OBVIOUS
    <3>2. ~Confused
      BY <1>12, <3>1 DEF Confused
    <3>3. CASE x.q \notin Sending \/ v = 0
      BY <1>2, <3>3 DEF ServedTruly, Foreseen
    <3>4. CASE x.q \in Sending /\ v # 0
      <4>1. New(p) /\ Coming' \subseteq Coming \cup {p} /\ p.id = v /\ (p.notify <=> x.q = "notify")
        BY <1>2, <3>2, <3>4 DEF ServedTruly
      <4>2. x.q # "notify" => driver'.block = v /\ v \in Nat
        BY <1>2, <3>4 DEF ServedTruly, Sending
      <4>3. ~p.notify => p.id <= driver'.block
        BY <4>1, <4>2
      <4> QED
        BY <4>1, <4>3 DEF Foreseen
    <3> QED
      BY <3>3, <3>4
  <2>2. driver'.block \in Nat /\ driver.block <= driver'.block /\ (HeardTrue => HeardTrue')
    BY <1>2 DEF ServedTruly
  <2>3. \A i \in DOMAIN toDriver' : \E j \in DOMAIN toDriver : toDriver'[i] = toDriver[j]
    BY <1>9, <1>12
  <2>4. UNCHANGED <<connections, th, told, spoilt, linked, bus, allowance>>
    BY <1>4, <1>12
  <2> QED
    BY <1>4, <1>6, <1>8, <2>1, <2>2, <2>3, <2>4, DroppedTold
<1> QED
  BY <1>5, <1>11, <1>12

LEMMA DriverRefusesTold ==
  ASSUME IdsInv, ToldInv, DriverRefuses
  PROVE  ToldInv'
<1>1. LibraryTypeOK /\ OwnQueries /\ WithoutDriver /\ toDriver \in Seq(Datagrams)
  BY DEF IdsInv, LibraryTypeOK
<1>2. PICK x : x = Head(toDriver) /\ Refusal(x)
  BY <1>1, RefusesFacts
<1>3. /\ driver.up /\ driver'.up /\ linked /\ UNCHANGED <<linked, bus, allowance>>
      /\ driver'.block \in Nat /\ driver.block <= driver'.block /\ toDriver # <<>>
  BY <1>1, <1>2 DEF Refusal, WithoutDriver
<1>4. Coming' = Coming /\ (HeardTrue => HeardTrue')
  BY <1>2 DEF Refusal, Coming, HeardTrue, Announced
<1>5. ASSUME NEW t \in At("query"), NEW d, NEW s, Returns(t, d, s) PROVE ToldInv'
  <2>1. t \in Threads /\ \A u \in At("query") : u = t
    BY <1>1, <1>5 DEF At, OwnQueries
  <2> QED
    BY <1>1, <1>3, <1>4, <1>5, <2>1, ReturnsTold
<1>6. CASE toDriver' = Tail(toDriver) /\ UNCHANGED <<connections, th, told, spoilt>>
  <2>1. PICK p \in Promises : TRUE
    <3>1. [c |-> x.c, notify |-> FALSE, id |-> 0, m |-> x.m] \in Promises
      BY <1>2 DEF Refusal, Queries, Promises
    <3> QED
      BY <3>1
  <2>2. Foreseen(p)
    BY <1>4 DEF Foreseen
  <2>3. \A i \in DOMAIN toDriver' : \E j \in DOMAIN toDriver : toDriver'[i] = toDriver[j]
    BY <1>1, <1>3, <1>6, TailIsPart
  <2> QED
    BY <1>1, <1>3, <1>4, <1>6, <2>2, <2>3, DroppedTold
<1> QED
  BY <1>2, <1>5, <1>6 DEF Refusal

\* The listener gives up.
LEMMA GivesUpTold ==
  ASSUME IdsInv, ToldInv, ListenerGivesUp
  PROVE  ToldInv'
<1>1. LibraryTypeOK /\ WhereInv /\ LifeInv /\ (~Confused => TrueInv) /\ toDriver \in Seq(Datagrams)
  BY DEF IdsInv, ToldInv, LibraryTypeOK
<1>2. /\ linked /\ CsFree /\ ~driver.up /\ toListener = <<>> /\ linked' = FALSE
      /\ UNCHANGED <<readEventId, driver, toListener, bus, lost, allowance>>
  BY DEF ListenerGivesUp
<1>3. PICK C, anew, done, defects :
         /\ C = Clients /\ anew = {} /\ done = {} /\ defects = {}
         /\ Clear(C, anew, done, toDriver, defects)
  BY DEF ListenerGivesUp
<1>4. C \subseteq Clients /\ anew \subseteq C
  BY <1>3
<1>5. \A u \in At("query") : u \in done
  BY <1>2 DEF CsFree
<1>6. \A u \in Threads : Awaits(u) /\ th[u].c \in anew => <<th[u].m, "reconnect">> \in defects
  BY <1>3
<1>7. allowance' = allowance /\ bus' = bus
  BY <1>2
<1>8. ~driver'.up => driver'.pending = {} /\ driver'.taken = {}
  BY <1>1, <1>2 DEF LifeInv
<1>9. ~linked' => toListener' = <<>> /\ C = Clients /\ anew = {}
  BY <1>2, <1>3
<1>10. ~Confused' => /\ Coming' \subseteq Coming /\ (HeardTrue => HeardTrue')
                     /\ driver'.up => driver.up /\ driver'.block = driver.block
  BY <1>2 DEF Coming, HeardTrue
<1> QED
  BY <1>1, <1>3, <1>4, <1>5, <1>6, <1>7, <1>8, <1>9, <1>10, ClearTold

LEMMA ToldAtFirst == LibraryInit => ToldInv
<1> SUFFICES ASSUME LibraryInit PROVE ToldInv
  OBVIOUS
<1>1. /\ connections = [c \in Clients |-> NoConnection] /\ th = [t \in Threads |-> Idle]
      /\ driver = [Started EXCEPT !.up = FALSE] /\ toDriver = <<>> /\ toListener = <<>>
      /\ told = [m \in Sends |-> <<>>] /\ bus = {} /\ allowance \in Bounds /\ linked = FALSE
  BY DEF LibraryInit, InitializeDLL
<1>2. /\ \A c \in Clients : ~connections[c].valid /\ Txs(c) = <<>> /\ Notifications(c) = {}
      /\ \A t \in Threads : ~Sender(t) /\ ~Awaits(t)
      /\ At("query") = {} /\ Coming = {}
  <2>1. \A c \in Clients : ~connections[c].valid /\ connections[c].transactions = <<>>
    BY <1>1 DEF NoConnection
  <2>2. \A c \in Clients : DOMAIN connections[c].transactions = {}
    BY <2>1
  <2>3. driver.pending = {} /\ DOMAIN toListener = {}
    BY <1>1 DEF Started
  <2>4. \A t \in Threads : th[t] = Idle
    BY <1>1
  <2> QED
    BY <2>1, <2>2, <2>3, <2>4
    DEF Txs, Notifications, Sender, Awaits, At, Coming, Announced, Idle, Sending, Blocking
<1>3. WhereInv
  <2>1. \A m \in 1 .. allowance["send"] : m \in Sends
    BY <1>1 DEF Sends
  <2>2. told \in [Sends -> Seq(BOOLEAN)] /\ \A m \in Sends : told[m] = <<>> /\ Len(told[m]) <= 1
    <3>1. <<>> \in Seq(BOOLEAN) /\ Len(<<>>) = 0
      OBVIOUS
    <3> QED
      BY <1>1, <3>1
  <2> QED
    BY <1>2, <2>1, <2>2 DEF WhereInv
<1>4. LifeInv
  <2>1. driver.pending = {} /\ driver.taken = {} /\ ~driver.up
    BY <1>1 DEF Started
  <2> QED
    BY <1>1, <1>2, <2>1 DEF LifeInv
<1>5. TrueInv
  <2>1. ~driver.up
    BY <1>1 DEF Started
  <2>2. \A m \in Sends : TRUE \notin ToSet(told[m])
    BY <1>1 DEF ToSet
  <2>3. HeardTrue
    BY <1>1 DEF HeardTrue
  <2>4. \A c \in Clients : ListOK(c)
    BY <1>2 DEF ListOK
  <2>5. \A t \in Threads : CleanOK(t)
    BY <1>2 DEF CleanOK, Clean
  <2> QED
    BY <2>1, <2>2, <2>3, <2>4, <2>5 DEF TrueInv
<1> QED
  BY <1>3, <1>4, <1>5 DEF ToldInv

LEMMA ToldStays == IdsInv /\ AwakeInv /\ ToldInv /\ [LibraryNext]_libraryVars => ToldInv'
<1> SUFFICES ASSUME IdsInv, AwakeInv, ToldInv, [LibraryNext]_libraryVars PROVE ToldInv'
  OBVIOUS
<1>1. LibraryTypeOK
  BY DEF IdsInv
<1>2. CASE UNCHANGED libraryVars
  <2>1. UNCHANGED <<connections, th, linked, driver, toDriver, toListener, told, bus, allowance, spoilt>>
    BY <1>2 DEF libraryVars
  <2>2. \A u \in Threads : SendStays(u) /\ (Awaits(u)' => WokenSafely(u))
    BY <2>1, NothingHappens
  <2>3. Coming' = Coming /\ (HeardTrue => HeardTrue')
    BY <2>1 DEF Coming, HeardTrue
  <2>4. \A c \in Clients : connections'[c].valid = connections[c].valid /\ Txs(c)' = Txs(c)
    BY <2>1 DEF Txs
  <2>5. (~linked => toListener' = <<>>) /\ (~driver'.up => driver'.pending = {} /\ driver'.taken = {})
    BY <2>1 DEF ToldInv, LifeInv
  <2> QED
    BY <1>1, <2>1, <2>2, <2>3, <2>4, <2>5, ToldQuiet
<1>3. PICK c0 : c0 \in Clients
  BY LibraryAssumption
<1>4. CASE LibraryNext
  <2>1. CASE \E t \in Threads : ClientConnect(t) \/ Goes(t) \/ WaitTimesOut(t)
    <3>1. PICK t \in Threads : ClientConnect(t) \/ Goes(t) \/ WaitTimesOut(t)
      BY <2>1
    <3>2. \/ ClientConnect(t) \/ StatusResumes(t)
          \/ SendAgain(t) \/ QueryFails(t) \/ ReadReturns(t) \/ SendReturns(t)
          \/ GetReadEvent(t) \/ WaitForMessage(t) \/ WaitTimesOut(t)
      BY <3>1 DEF Goes
    <3>3. CASE ClientConnect(t) \/ StatusResumes(t)
      BY <1>3, <3>3, StartsTold
    <3>4. CASE SendAgain(t)
      BY <3>4, SendAgainTold
    <3>5. CASE QueryFails(t)
      BY <3>5, QueryFailsTold
    <3>6. CASE ReadReturns(t)
      BY <3>6, ReadersTold
    <3>7. CASE SendReturns(t)
      BY <3>7, SendReturnsTold
    <3>8. CASE GetReadEvent(t) \/ WaitForMessage(t) \/ WaitTimesOut(t)
      BY <1>3, <3>8, WaitsTold
    <3> QED
      BY <3>2, <3>3, <3>4, <3>5, <3>6, <3>7, <3>8
  <2>2. CASE \E t \in Threads, c \in Clients :
               \/ ClientDisconnect(t, c) \/ ReadMessage(t, c)
               \/ GetHardwareStatus(t, c) \/ AddGetHWStatusNotify(t, c)
               \/ \E op \in Blocking \cup {"notify"} : SendMessage(t, c, op)
    <3>1. PICK t \in Threads, c \in Clients :
               \/ ClientDisconnect(t, c) \/ ReadMessage(t, c)
               \/ GetHardwareStatus(t, c) \/ AddGetHWStatusNotify(t, c)
               \/ \E op \in Blocking \cup {"notify"} : SendMessage(t, c, op)
      BY <2>2
    <3>2. CASE ClientDisconnect(t, c) \/ GetHardwareStatus(t, c)
                 \/ \E op \in Blocking \cup {"notify"} : SendMessage(t, c, op)
      BY <3>2, StartsTold DEF Sending
    <3>3. CASE ReadMessage(t, c) \/ AddGetHWStatusNotify(t, c)
      BY <3>3, WaitsTold
    <3> QED
      BY <3>1, <3>2, <3>3
  <2>3. CASE DriverServes
    BY <2>3, DriverServesTold
  <2>7. CASE DriverRefuses
    BY <2>7, DriverRefusesTold
  <2>4. CASE DriverFreesId \/ DriverEnds \/ MisreadOutcome
               \/ \E p \in driver.pending, ok \in BOOLEAN : DriverReports(p, ok)
    BY <1>3, <2>4, NewsTold
  <2>5. CASE \E c \in driver.taken : DriverForwards(c)
    <3>1. driver.taken \subseteq Clients
      BY <1>1 DEF LibraryTypeOK, Driver
    <3> QED
      BY <2>5, <3>1, NewsTold
  <2>6. CASE Listener
    <3>1. HearOutcome \/ HearMessage \/ ListenerGivesUp
      BY <2>6 DEF Listener
    <3>2. CASE HearOutcome
      BY <3>2, HearOutcomeTold
    <3>3. CASE HearMessage
      BY <3>3, ReadersTold
    <3>4. CASE ListenerGivesUp
      BY <3>4, GivesUpTold
    <3> QED
      BY <3>1, <3>2, <3>3, <3>4
  <2> QED
    BY <1>4, <2>1, <2>2, <2>3, <2>4, <2>5, <2>6, <2>7 DEF LibraryNext
<1> QED
  BY <1>2, <1>4

\* ToldOnceTruly: the application is told of a send at most once, and success
\* only of one that was transmitted, unless the send met a defect of the code.
THEOREM SendsAreToldTruly == LibrarySpec => []ToldOnceTruly
<1>1. ToldInv => ToldOnceTruly
  BY DEF ToldInv, WhereInv, TrueInv, Excused, ToldOnceTruly
<1>2. LibraryInit => IdsInv /\ AwakeInv /\ ToldInv
  BY IdsAtFirst, AwakeAtFirst, ToldAtFirst
<1>3. IdsInv /\ AwakeInv /\ ToldInv /\ [LibraryNext]_libraryVars => (IdsInv /\ AwakeInv /\ ToldInv)'
  BY IdsStay, AwakeStays, ToldStays
<1> QED
  BY <1>1, <1>2, <1>3, PTL DEF LibrarySpec
=============================================================================
