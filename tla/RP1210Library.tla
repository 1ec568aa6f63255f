---------------------------- MODULE RP1210Library ----------------------------
(***************************************************************************)
(* The RP1210 library (rp1210a_impl.cpp, rp1210a_impl.h, QBRDGE32.cpp) in  *)
(* one client process: threads of the application that call it, its        *)
(* listening thread, and the driver process it talks to over UDP.          *)
(*                                                                         *)
(* One critical section guards the library.  A thread keeps it while it    *)
(* waits for the driver's answer to a query ("query") and leaves it while  *)
(* it waits for an event ("waiting"); every other piece of a call is one   *)
(* step.  A blocking read leaves it too early: the name of its event and   *)
(* the list the event goes to are touched without it ("window", "named").  *)
(* A query that is not answered is sent again, and the first datagram that *)
(* comes is taken for its answer.                                          *)
(***************************************************************************)
EXTENDS Integers, Sequences, FiniteSets, SequencesExt

CONSTANTS
  Threads,  \* of the application
  Clients,  \* 0 .. n: the driver's table of clients, 0 .. 127 in the code
  MsgIds,   \* 1 .. n: the driver's ids for notifications, 1 .. 127
  Tries,    \* how often a query is sent, 12 in the code (retryLimit)
  Bounds    \* bounds: how many calls, messages received and faults go together

ASSUME LibraryAssumption ==
  /\ IsFiniteSet(Threads)
  /\ IsFiniteSet(Clients) /\ Clients = 0 .. (Cardinality(Clients) - 1) /\ Clients # {}
  /\ IsFiniteSet(MsgIds) /\ MsgIds = 1 .. Cardinality(MsgIds) /\ MsgIds # {}
  /\ Tries \in Nat \ {0}
  /\ Bounds \subseteq [{"connect", "disconnect", "send", "read", "status", "forward", "fault"} -> Nat]

VARIABLES
  connections,  \* [Clients -> Connection]
  th,           \* the threads: where each is in its call, and the call's data
  readEventId,  \* numbers the names of the events of blocking reads
  linked,       \* assignPort > 0: the driver was found and the listener runs
  driver,       \* the driver process
  toDriver,     \* datagrams to the driver, in order
  toListener,   \* datagrams to the listening thread, in order
  told,         \* [messages -> what the application was told: success or not]
  bus,          \* messages transmitted
  lost,         \* notification ids the driver gave in answers nobody took,
                \* or took for sends it then refused
  allowance,    \* what may still happen of what Bounds limits
  spoilt        \* pairs: a message and the defect of the code that it met

libraryVars == <<connections, th, readEventId, linked, driver, toDriver, toListener,
                 told, bus, lost, allowance, spoilt>>

Sends == UNION {1 .. b.send : b \in Bounds}
NoMessage == 0
Blocking == {"block", "claim"}   \* sends that wait for the outcome

\* `missed`: a defect of the code kept news from this reader.
Idle == [at |-> "idle", op |-> "none", c |-> 0, m |-> NoMessage, id |-> 0, tries |-> 0,
         missed |-> FALSE]
At(place) == {t \in Threads : th[t].at = place}
CsFree == At("query") = {}

NoConnection == [valid |-> FALSE, recvMsgQueue |-> 0, recvMsgEvents |-> <<>>, transactions |-> <<>>]

\* The driver as it starts; `idx` and `block` are msgIdIdx and msgBlockId.
Started == [up |-> TRUE, taken |-> {}, pending |-> {}, avail |-> MsgIds, idx |-> 1, block |-> 1]

Spend(what) == allowance[what] > 0 /\ allowance' = [allowance EXCEPT ![what] = @ - 1]
Tell(ms, ok) == told' = [m \in Sends |-> IF m \in ms THEN Append(told[m], ok) ELSE told[m]]

(***************************************************************************)
(* Events.  SetEvent wakes one thread that waits on the event: a blocked   *)
(* send waits on the event of its own transaction; a read on the event of  *)
(* the name it was given, whose handle it appends to recvMsgEvents.  It    *)
(* does nothing for a handle that was closed while it was in that list.    *)
(***************************************************************************)
Readers == {t \in At("waiting") : th[t].op = "read"}
ReadersOn(ev) == {t \in Readers : th[t].id = ev}
Senders(c, id) == {t \in At("waiting") : th[t].op \in Blocking /\ th[t].c = c /\ th[t].id = id}
IsOpen(h) == th[h.by].op = "read" /\ th[h.by].id = h.ev

\* The sets of threads that setting all of the handles may wake: of those that
\* wait on an event as many as it is set, or all.
SetEvents(handles) ==
  LET set(ev)    == Cardinality({h \in handles : IsOpen(h) /\ h.ev = ev})
      asleep(ev) == Cardinality(ReadersOn(ev))
  IN  {W \in SUBSET Readers : \A t \in Readers :
         LET ev == th[t].id
         IN  Cardinality(W \cap ReadersOn(ev)) = IF set(ev) < asleep(ev) THEN set(ev) ELSE asleep(ev)}

\* PopSetReadEvent takes the first handle of k and sets it.
FrontEvent(k) == IF k.recvMsgEvents = <<>> THEN {} ELSE {Head(k.recvMsgEvents)}
PopEvent(k) == [k EXCEPT !.recvMsgEvents = IF @ = <<>> THEN @ ELSE Tail(@)]

\* The threads when W are woken, those of `done` have returned, and some
\* readers have missed news.
After(W, done, missed) ==
  [t \in Threads |-> CASE t \in done -> Idle
                       [] t \in W \ done -> [th[t] EXCEPT !.at = "woken"]
                       [] OTHER -> [th[t] EXCEPT !.missed = @ \/ t \in missed]]
Asleep(c) == {t \in Readers : th[t].c = c}

\* Readers that have left the critical section and do not wait yet.
Early(c) == {t \in At("window") \cup At("named") : th[t].c = c}

\* Whose handles were among those set while others, W, were woken by them.
Robbed(handles, W) == {t \in Readers \ W : \E h \in handles : IsOpen(h) /\ h.by = t}

\* hwStatusEvents: blocked requests for a connection's status, which wait for
\* it to change.  ConnectionStatusChanged wakes them all.
Watchers(c) == {t \in At("waiting") : th[t].op = "status" /\ th[t].c = c}

(***************************************************************************)
(* Transactions: sends whose outcome the driver will report.  A blocked    *)
(* send has no return code until then; that of an address claim has one.   *)
(***************************************************************************)
\* Mutant: the return code of a claim is left uninitialised as well.
TransactionNoDefault(op, id, m) ==
  [notify |-> op = "notify", id |-> id, m |-> m, code |-> "uninitialised"]

Transaction(op, id, m) ==
  [notify |-> op = "notify", id |-> id, m |-> m,
   code |-> IF op = "claim" THEN "failed" ELSE "uninitialised"]

Found(k, n, id) ==
  {i \in DOMAIN k.transactions : k.transactions[i].notify = n /\ k.transactions[i].id = id}
First(k, n, id) == CHOOSE i \in Found(k, n, id) : \A j \in Found(k, n, id) : i <= j
RemoveTransaction(k, n, id) ==
  IF Found(k, n, id) = {} THEN k
  ELSE [k EXCEPT !.transactions = RemoveAt(@, First(k, n, id))]

FreeMsgId(id) == [q |-> "freeMsgId", id |-> id]
\* Where in the list the notifications are, and the sends that are blocked.
Notifications(c) == {i \in DOMAIN connections[c].transactions : connections[c].transactions[i].notify}
Blocked(c) == {x \in ToSet(connections[c].transactions) : ~x.notify}

\* What Clear leaves of the transactions s.
Failed(s) ==
  LET f[i \in 0 .. Len(s)] ==
        IF i = 0 THEN <<>>
        ELSE IF s[i].notify THEN f[i - 1] ELSE Append(f[i - 1], [s[i] EXCEPT !.code = "failed"])
  IN  f[Len(s)]

\* The ids the driver gets back, in an order that makes no difference to it.
Freed(C) ==
  LET notes == SetToSeq(UNION {{c} \X Notifications(c) : c \in C})
  IN  [n \in DOMAIN notes |-> FreeMsgId(connections[notes[n][1]].transactions[notes[n][2]].id)]

\* Mutant: only readers are woken.
ClearWakesReaders(c) == {}

\* The blocked senders whose events Clear sets.
ClearWakes(c) == UNION {Senders(c, x.id) : x \in Blocked(c)}

\* Mutant: a request for the status of a connection is not woken when it ends.
ConnectionStatusChangedUnseen(C, anew) == UNION {Watchers(c) : c \in anew}

\* Who waits for the status of the connections C, of which those of `anew`
\* are set up: a connection that has been cleared before does not change.
ConnectionStatusChanged(C, anew) ==
  UNION {Watchers(c) : c \in anew \cup {b \in C : connections[b].valid}}

\* Clear of the connections C.  Notified sends end, blocked ones keep their
\* transaction, but for those of `anew`, which are set up again; `done` are
\* the threads that return, `d` is what the driver still has to read.
Clear(C, anew, done, d, defects) ==
  LET handles == UNION {ToSet(connections[c].recvMsgEvents) : c \in C}
      woken   == (UNION {ClearWakes(c) : c \in C}) \cup ConnectionStatusChanged(C, anew)
      missed  == UNION {Asleep(c) \cup Early(c) : c \in C}
      ended   == UNION {{connections[c].transactions[i].m : i \in Notifications(c)} : c \in C}
      cleared(c) == [NoConnection EXCEPT !.transactions = Failed(connections[c].transactions)]
  IN /\ \E W \in SetEvents(handles) : th' = After(W \cup woken, done, missed)
     /\ connections' = [c \in Clients |-> CASE c \in anew -> [NoConnection EXCEPT !.valid = TRUE]
                                           [] c \in C \ anew -> cleared(c)
                                           [] OTHER -> connections[c]]
     /\ Tell(ended, FALSE)
     /\ toDriver' = IF driver.up THEN d \o Freed(C) ELSE d
     /\ spoilt' = spoilt \cup defects

(***************************************************************************)
(* Queries (QueryDriverApp).  The critical section is kept until the call  *)
(* has its answer.  `own` tells a query from those of calls that are over. *)
(***************************************************************************)
IsQuery(x) == x.q # "freeMsgId"
Outstanding == \E i \in DOMAIN toDriver : IsQuery(toDriver[i]) /\ toDriver[i].own
Forget(d) == [i \in DOMAIN d |-> IF IsQuery(d[i]) THEN [d[i] EXCEPT !.own = FALSE] ELSE d[i]]

QueryDriverApp(t, op, c, m) ==
  /\ CsFree
  /\ th' = [th EXCEPT ![t] = [@ EXCEPT !.at = "query", !.op = op, !.c = c, !.m = m, !.tries = 1]]
  /\ toDriver' = IF driver'.up THEN Append(toDriver, [q |-> op, c |-> c, m |-> m, own |-> TRUE])
                 ELSE toDriver
  /\ UNCHANGED <<connections, readEventId, toListener, told, bus, lost, spoilt>>

StartQuery(t, op, c, m) == th[t].at = "idle" /\ QueryDriverApp(t, op, c, m)

\* The driver's process, unless it is there already.
OpenDriverApp == IF driver.up THEN driver ELSE Started

\* RP1210_ClientConnect.  ConnectToDriverApp starts the driver if need be.
ClientConnect(t) ==
  /\ Spend("connect")
  /\ driver' = IF linked THEN driver ELSE OpenDriverApp
  /\ linked' = TRUE
  /\ StartQuery(t, "connect", 0, NoMessage)

\* RP1210_ClientDisconnect.
ClientDisconnect(t, c) ==
  /\ connections[c].valid
  /\ Spend("disconnect")
  /\ UNCHANGED <<driver, linked>>
  /\ StartQuery(t, "disconnect", c, NoMessage)

\* RP1210_SendMessage, blocking or notified; RP1210_SendCommand, a blocking
\* claim of an address.
SendMessage(t, c, op) ==
  /\ connections[c].valid
  /\ Spend("send")
  /\ UNCHANGED <<driver, linked>>
  /\ StartQuery(t, op, c, allowance["send"])

(***************************************************************************)
(* RP1210_GetHardwareStatus.  A blocked request waits first, whether the   *)
(* connection is there or not; `id` remembers which.  What it reports is   *)
(* the state of the connection and the number of clients the driver        *)
(* answers, 0 if it does not.                                              *)
(***************************************************************************)
GetHardwareStatus(t, c) ==
  /\ Spend("status")
  /\ UNCHANGED <<driver, linked>>
  /\ StartQuery(t, "status", c, NoMessage)

AddGetHWStatusNotify(t, c) ==
  /\ th[t].at = "idle" /\ CsFree
  /\ Spend("status")
  /\ th' = [th EXCEPT ![t] = [@ EXCEPT !.at = "waiting", !.op = "status", !.c = c,
                                      !.id = IF connections[c].valid THEN 1 ELSE 0]]
  /\ UNCHANGED <<connections, readEventId, linked, driver, toDriver, toListener, told, bus, lost,
                 spoilt>>

StatusResumes(t) ==
  /\ th[t].at = "woken" /\ th[t].op = "status"
  /\ UNCHANGED <<driver, linked, allowance>>
  /\ QueryDriverApp(t, "status", th[t].c, NoMessage)

\* The query is sent again after 5 s (60 s, 180 s) without a datagram.  A
\* driver that is going to answer is that slow only within the bound.
SendAgain(t) ==
  /\ th[t].at = "query" /\ th[t].tries < Tries /\ driver.up
  /\ IF Outstanding THEN Spend("fault") ELSE UNCHANGED allowance
  /\ th' = [th EXCEPT ![t].tries = @ + 1]
  /\ toDriver' = Append(toDriver, [q |-> th[t].op, c |-> th[t].c, m |-> th[t].m, own |-> TRUE])
  /\ UNCHANGED <<connections, readEventId, linked, driver, toListener, told, bus, lost, spoilt>>

\* ERR_HARDWARE_NOT_RESPONDING.
QueryFails(t) ==
  /\ th[t].at = "query" /\ ~Outstanding
  /\ th[t].tries = Tries \/ ~driver.up
  /\ th' = [th EXCEPT ![t] = Idle]
  /\ UNCHANGED <<connections, readEventId, linked, driver, toDriver, toListener, told, bus, lost,
                 allowance, spoilt>>

(***************************************************************************)
(* The answer: `v` is the number thread t reads, 0 for "ok"; `d` is what   *)
(* the driver still has to read; `s` are the defects met so far.           *)
(***************************************************************************)
Returns(t, d, s) ==
  /\ th' = [th EXCEPT ![t] = Idle]
  /\ toDriver' = d /\ spoilt' = spoilt \cup s
  /\ UNCHANGED <<connections, told>>

\* CreateConnection, SetupConnection.  Threads that have not yet returned
\* from a send on the slot's old connection lose their transactions.
Connected(t, v, d, s) ==
  Clear({v}, {v}, {t}, d,
    s \cup {<<th[u].m, "reconnect">> :
              u \in {w \in At("waiting") \cup At("woken") : th[w].op \in Blocking /\ th[w].c = v}})

\* AddTransaction.  The id's last user may still be there: news of it that
\* was not heard yet, or a sender from before the driver started again.
Accepted(t, v, d, s) ==
  LET c == th[t].c  n == th[t].op = "notify"
      news == {x \in ToSet(toListener) : x.kind = "outcome"} \cup driver.pending
      old == {u \in At("waiting") \cup At("woken") : th[u].op \in Blocking /\ th[u].c = c /\ th[u].id = v}
  IN /\ connections' = [connections EXCEPT ![c].transactions =
                          Append(@, Transaction(th[t].op, v, th[t].m))]
     /\ th' = [th EXCEPT ![t] = IF n THEN Idle ELSE [@ EXCEPT !.at = "waiting", !.id = v]]
     /\ toDriver' = d
     /\ spoilt' = spoilt \cup s \cup
          (IF (n /\ \E x \in news : x.c = c /\ x.notify /\ x.id = v) \/ (~n /\ old # {})
             THEN {<<th[t].m, "reused">>} ELSE {})
     /\ UNCHANGED told

\* A slot that the library did not know to be free again may be refused, if it
\* was connected otherwise (ERR_CONNECT_NOT_ALLOWED).
TakesAnswer(t, v, isOk, d, s) ==
  CASE th[t].op = "connect" ->
         \/ v \in Clients /\ Connected(t, v, d, s)
         \/ (v \in Clients => connections[v].valid) /\ Returns(t, d, s)
    [] th[t].op = "disconnect" ->
         IF isOk THEN Clear({th[t].c}, {}, {t}, d, s) ELSE Returns(t, d, s)
    [] th[t].op = "notify" ->
         IF v > 0 THEN Accepted(t, v, d, s) ELSE Returns(t, d, s)
    [] th[t].op \in Blocking ->
         IF v >= 0 THEN Accepted(t, v, d, s) ELSE Returns(t, d, s)
    [] th[t].op = "status" -> Returns(t, d, s)

(***************************************************************************)
(* The driver: it serves one datagram at a time, and later reports what    *)
(* became of the messages it accepted.                                     *)
(***************************************************************************)
NextIdx(i) == (i % Cardinality(MsgIds)) + 1
Outcome(p, ok) == [kind |-> "outcome", c |-> p.c, notify |-> p.notify, id |-> p.id, m |-> p.m, ok |-> ok]
OfClient(c) == {p \in driver.pending : p.c = c}

\* GetMsgId: the next id of the ring, or 0.
GetMsgId == IF NextIdx(driver.idx) \in driver.avail THEN NextIdx(driver.idx) ELSE 0
Taking(d, id) == IF id = 0 THEN d ELSE [d EXCEPT !.idx = id, !.avail = @ \ {id}]

\* What the driver becomes and answers: <<driver, number, "ok"?>>.
AddNewClientID ==
  LET free == Clients \ driver.taken
      new == IF free = {} THEN -1 ELSE CHOOSE c \in free : \A o \in free : c <= o
  IN <<[driver EXCEPT !.taken = @ \cup (free \cap {new})], new, FALSE>>
RemoveClientID(c) ==
  <<[driver EXCEPT !.taken = @ \ {c}, !.pending = @ \ OfClient(c)], 0, TRUE>>
AddSendMsg(x, d, id) ==
  LET p == [c |-> x.c, notify |-> x.q = "notify", id |-> id, m |-> x.m]
  IN <<[d EXCEPT !.pending = IF id # 0 /\ x.c \in driver.taken THEN @ \cup {p} ELSE @], id, FALSE>>

Served(x) ==
  CASE x.q = "connect" -> AddNewClientID
    [] x.q = "disconnect" -> RemoveClientID(x.c)
    [] x.q = "status" -> <<driver, IF x.c \in driver.taken THEN Cardinality(driver.taken) ELSE 0, FALSE>>
    [] x.q = "notify" -> AddSendMsg(x, Taking(driver, GetMsgId), GetMsgId)
    [] x.q \in Blocking -> AddSendMsg(x, [driver EXCEPT !.block = @ + 1], driver.block + 1)

\* A message for a slot nobody has makes the driver throw: no answer, and an
\* id it has taken is not given back.  An answer that comes when nobody asks
\* is dropped with its id.
DriverServes ==
  /\ driver.up /\ toDriver # <<>> /\ IsQuery(Head(toDriver))
  /\ LET x == Head(toDriver)
         new == Served(x)
         answered == x.q \in {"connect", "disconnect", "status"} \/ x.c \in driver.taken
                       \/ (x.q = "notify" /\ new[2] = 0)
         failed == IF x.q = "disconnect" THEN OfClient(x.c) ELSE {}
     IN /\ driver' = new[1]
        /\ toListener' = toListener \o [i \in 1 .. Cardinality(failed) |->
                                          Outcome(SetToSeq(failed)[i], FALSE)]
        /\ IF answered /\ ~CsFree
             THEN /\ lost' = lost
                  /\ \E t \in At("query") :
                       TakesAnswer(t, new[2], new[3], Forget(Tail(toDriver)),
                                   IF x.own THEN {} ELSE {<<th[t].m, "stale">>})
             ELSE /\ lost' = IF x.q = "notify" THEN lost \cup ({new[2]} \ {0}) ELSE lost
                  /\ toDriver' = Tail(toDriver)
                  /\ UNCHANGED <<connections, th, told, spoilt>>
  /\ UNCHANGED <<readEventId, linked, bus, allowance>>

\* The answer is an error, which ends any call: the port cannot be opened, or does not answer (the
\* slot is kept, or not), or is in raw mode; the address cannot be claimed.
\* AddSendJ1939Msg finds a PGN invalid, or an address not claimed or lost,
\* only when it has taken an id, which it does not give back.
DriverRefuses ==
  /\ driver.up /\ toDriver # <<>> /\ IsQuery(Head(toDriver))
  /\ LET x == Head(toDriver)
     IN /\ \/ x.q = "connect" /\ driver' \in {driver, AddNewClientID[1]} /\ lost' = lost
           \/ x.q = "claim" /\ driver' = driver /\ lost' = lost
           \/ x.q = "block" /\ driver' = [driver EXCEPT !.block = @ + 1] /\ lost' = lost
           \/ /\ x.q = "notify" /\ GetMsgId # 0
              /\ driver' = Taking(driver, GetMsgId) /\ lost' = lost \cup {GetMsgId}
        /\ IF CsFree THEN toDriver' = Tail(toDriver) /\ UNCHANGED <<connections, th, told, spoilt>>
           ELSE \E t \in At("query") :
                  Returns(t, Forget(Tail(toDriver)), IF x.own THEN {} ELSE {<<th[t].m, "stale">>})
  /\ UNCHANGED <<readEventId, linked, toListener, bus, allowance>>

\* FreeMsgId.
DriverFreesId ==
  /\ driver.up /\ toDriver # <<>> /\ ~IsQuery(Head(toDriver))
  /\ driver' = [driver EXCEPT !.avail = @ \cup {Head(toDriver).id}]
  /\ toDriver' = Tail(toDriver)
  /\ UNCHANGED <<connections, th, readEventId, linked, toListener, told, bus, lost, allowance, spoilt>>

\* A message was transmitted, or not (QBSerial).
DriverReports(p, ok) ==
  /\ driver' = [driver EXCEPT !.pending = @ \ {p}]
  /\ toListener' = Append(toListener, Outcome(p, ok))
  /\ bus' = IF ok THEN bus \cup {p.m} ELSE bus
  /\ UNCHANGED <<connections, th, readEventId, linked, toDriver, told, lost, allowance, spoilt>>

\* A message was received for client c.
DriverForwards(c) ==
  /\ Spend("forward")
  /\ toListener' = Append(toListener, [kind |-> "readmessage", c |-> c])
  /\ UNCHANGED <<connections, th, readEventId, linked, driver, toDriver, told, bus, lost, spoilt>>

\* The driver process dies.
DriverEnds ==
  /\ driver.up /\ Spend("fault")
  /\ driver' = [Started EXCEPT !.up = FALSE]
  /\ toDriver' = <<>> /\ lost' = {}
  /\ UNCHANGED <<connections, th, readEventId, linked, toListener, told, bus, spoilt>>

(***************************************************************************)
(* The listening thread (UDPListenFunc, ProcessDataPacket).                *)
(***************************************************************************)
\* Mutant: a notification's transaction is kept.
UpdateTransactionKept(k, i, ok) ==
  IF k.transactions[i].notify THEN k
  ELSE [k EXCEPT !.transactions[i].code = IF ok THEN "ok" ELSE "failed"]

\* UpdateTransaction of the i-th transaction of k.
UpdateTransaction(k, i, ok) ==
  IF k.transactions[i].notify THEN [k EXCEPT !.transactions = RemoveAt(@, i)]
  ELSE [k EXCEPT !.transactions[i].code = IF ok THEN "ok" ELSE "failed"]

Listening(kind) == linked /\ CsFree /\ toListener # <<>> /\ Head(toListener).kind = kind

HearOutcome ==
  /\ Listening("outcome")
  /\ LET x == Head(toListener)  k == connections[x.c]
         i == First(k, x.notify, x.id)
     IN IF Found(k, x.notify, x.id) = {} THEN UNCHANGED <<connections, th, told, toDriver>>
        ELSE /\ connections' = [connections EXCEPT ![x.c] = UpdateTransaction(k, i, x.ok)]
             /\ th' = After(IF x.notify THEN {} ELSE Senders(x.c, x.id), {}, {})
             /\ Tell(IF x.notify THEN {k.transactions[i].m} ELSE {}, x.ok)
             /\ toDriver' = IF x.notify /\ driver.up THEN Append(toDriver, FreeMsgId(x.id))
                            ELSE toDriver
  /\ toListener' = Tail(toListener)
  /\ UNCHANGED <<readEventId, linked, driver, bus, lost, allowance, spoilt>>

\* The digit that tells notified from blocked sends is not terminated in the
\* buffer it is read from: read as another number, it fits no transaction.
MisreadOutcome ==
  /\ Listening("outcome") /\ Spend("fault")
  /\ toListener' = Tail(toListener)
  /\ spoilt' = spoilt \cup {<<Head(toListener).m, "misread">>}
  /\ UNCHANGED <<connections, th, readEventId, linked, driver, toDriver, told, bus, lost>>

\* Mutant: a reader is woken by the first message of an empty queue only.
ReadersToWakeIfEmpty(k) == IF k.recvMsgQueue = 0 THEN FrontEvent(k) ELSE {}

ReadersToWake(k) == FrontEvent(k)

\* AddReadMsg.  The message may come too early for a reader that has left
\* the critical section, and its event may be another's, or nobody's any more.
HearMessage ==
  /\ Listening("readmessage")
  /\ LET c == Head(toListener).c  k == connections[c]
         astray(W) == (\E h \in FrontEvent(k) : ~IsOpen(h)) \/ (\E t \in W : th[t].c # c)
         late(W) == IF astray(W) THEN Asleep(c) ELSE Robbed(FrontEvent(k), W)
     IN \E W \in SetEvents(ReadersToWake(k)) :
          /\ connections' = [connections EXCEPT ![c] = [PopEvent(k) EXCEPT !.recvMsgQueue = @ + 1]]
          /\ th' = After(W, {}, Early(c) \cup late(W))
  /\ toListener' = Tail(toListener)
  /\ UNCHANGED <<readEventId, linked, driver, toDriver, told, bus, lost, allowance, spoilt>>

\* DLLCleanUp: the driver does not answer the listener's "hello".
ListenerGivesUp ==
  /\ linked /\ CsFree /\ ~driver.up /\ toListener = <<>>
  /\ linked' = FALSE
  /\ Clear(Clients, {}, {}, toDriver, {})
  /\ UNCHANGED <<readEventId, driver, toListener, bus, lost, allowance>>

(***************************************************************************)
(* Reading (RP1210_ReadMessage) and waiting.                               *)
(***************************************************************************)
Reader(t, place) == th' = [th EXCEPT ![t] = [@ EXCEPT !.at = place]]
OnlyReading == UNCHANGED <<linked, driver, toDriver, toListener, told, bus, lost>>

\* A message is taken, or the critical section left to wait for one.
ReadMessage(t, c) ==
  /\ th[t].at = "idle" /\ CsFree /\ connections[c].valid
  /\ Spend("read")
  /\ IF connections[c].recvMsgQueue > 0
       THEN /\ connections' = [connections EXCEPT ![c].recvMsgQueue = @ - 1]
            /\ UNCHANGED th
       ELSE /\ th' = [th EXCEPT ![t] = [@ EXCEPT !.at = "window", !.op = "read", !.c = c]]
            /\ UNCHANGED connections
  /\ UNCHANGED <<readEventId, spoilt>> /\ OnlyReading

\* GetReadEvent counts, ...
GetReadEvent(t) ==
  /\ th[t].at = "window"
  /\ readEventId' = readEventId + 1
  /\ Reader(t, "named")
  /\ UNCHANGED <<connections, allowance, spoilt>> /\ OnlyReading

\* ... reads the count for the event's name; push_back and the wait.  Of two
\* threads that append at once, one may lose its handle.
WaitForMessage(t) ==
  /\ th[t].at = "named"
  /\ \E alone \in BOOLEAN :
       /\ alone \/ \E u \in At("named") \ {t} : th[u].c = th[t].c
       /\ connections' = IF ~alone THEN connections
                         ELSE [connections EXCEPT ![th[t].c].recvMsgEvents =
                                 Append(@, [by |-> t, ev |-> readEventId])]
       /\ th' = [th EXCEPT ![t] = [@ EXCEPT !.at = "waiting", !.id = readEventId,
                                           !.missed = th[t].missed \/ ~alone]]
  /\ UNCHANGED <<readEventId, allowance, spoilt>> /\ OnlyReading

\* BLOCK_TIMEOUT.
WaitTimesOut(t) ==
  /\ th[t].at = "waiting" /\ Spend("fault")
  /\ Reader(t, "woken")
  /\ spoilt' = spoilt \cup (IF th[t].op = "block" THEN {<<th[t].m, "timeout">>} ELSE {})
  /\ UNCHANGED <<connections, readEventId>> /\ OnlyReading

\* The reader goes on; its own handle is closed by then.  Without a message
\* it takes the first handle out of the list, which may be another's.
ReadReturns(t) ==
  /\ th[t].at = "woken" /\ th[t].op = "read" /\ CsFree
  /\ LET c == th[t].c  k == connections[c]  first == FrontEvent(k) IN
       \/ /\ ~k.valid
          /\ th' = After({}, {t}, {}) /\ UNCHANGED connections
       \/ /\ k.valid /\ k.recvMsgQueue > 0
          /\ connections' = [connections EXCEPT ![c].recvMsgQueue = @ - 1]
          /\ th' = After({}, {t}, {})
       \/ /\ k.valid /\ k.recvMsgQueue = 0
          /\ connections' = [connections EXCEPT ![c] = PopEvent(k)]
          /\ \E W \in SetEvents({h \in first : h.by # t}) : th' = After(W, {t}, Robbed(first, W))
  /\ UNCHANGED <<readEventId, allowance, spoilt>> /\ OnlyReading

\* GetReturnCode: no transaction reads as success.
ReturnCodes(k, id) ==
  CASE ~k.valid -> {FALSE}
    [] k.valid /\ Found(k, FALSE, id) = {} -> {TRUE}
    [] OTHER -> LET code == k.transactions[First(k, FALSE, id)].code
                IN IF code = "uninitialised" THEN BOOLEAN ELSE {code = "ok"}

SendReturns(t) ==
  /\ th[t].at = "woken" /\ th[t].op \in Blocking /\ CsFree
  /\ LET c == th[t].c IN
       /\ \E ok \in ReturnCodes(connections[c], th[t].id) : Tell({th[t].m}, ok)
       /\ connections' = [connections EXCEPT ![c] = RemoveTransaction(@, FALSE, th[t].id)]
  /\ th' = [th EXCEPT ![t] = Idle]
  /\ UNCHANGED <<readEventId, linked, driver, toDriver, toListener, bus, lost, allowance, spoilt>>

InitializeDLL == linked = FALSE /\ readEventId = 0

LibraryInit ==
  /\ InitializeDLL
  /\ connections = [c \in Clients |-> NoConnection]
  /\ th = [t \in Threads |-> Idle]
  /\ driver = [Started EXCEPT !.up = FALSE]
  /\ toDriver = <<>> /\ toListener = <<>>
  /\ told = [m \in Sends |-> <<>>]
  /\ bus = {} /\ lost = {} /\ allowance \in Bounds /\ spoilt = {}

Listener == HearOutcome \/ HearMessage \/ ListenerGivesUp
Goes(t) == SendAgain(t) \/ QueryFails(t) \/ GetReadEvent(t) \/ WaitForMessage(t)
             \/ ReadReturns(t) \/ SendReturns(t) \/ StatusResumes(t)

LibraryNext ==
  \/ \E t \in Threads : ClientConnect(t) \/ Goes(t) \/ WaitTimesOut(t)
  \/ \E t \in Threads, c \in Clients :
       \/ ClientDisconnect(t, c) \/ ReadMessage(t, c)
       \/ GetHardwareStatus(t, c) \/ AddGetHWStatusNotify(t, c)
       \/ \E op \in Blocking \cup {"notify"} : SendMessage(t, c, op)
  \/ DriverServes \/ DriverRefuses \/ DriverFreesId \/ DriverEnds
  \/ \E p \in driver.pending, ok \in BOOLEAN : DriverReports(p, ok)
  \/ \E c \in driver.taken : DriverForwards(c)
  \/ Listener \/ MisreadOutcome

\* Threads run when they can and the listener hears what was sent; a driver
\* that lives serves its queue and, in time, reports on what it accepted.
LibraryFairness ==
  /\ WF_libraryVars(Listener)
  /\ WF_libraryVars(DriverServes \/ DriverRefuses \/ DriverFreesId)
  /\ WF_libraryVars(\E p \in driver.pending, ok \in BOOLEAN : DriverReports(p, ok))
  /\ WF_libraryVars(\E t \in Threads : QueryFails(t) \/ (~Outstanding /\ SendAgain(t)))

LibrarySpec == LibraryInit /\ [][LibraryNext]_libraryVars /\ LibraryFairness

-----------------------------------------------------------------------------
Met(m, defects) == \E d \in defects : <<m, d>> \in spoilt

\* An answer was taken for another query's: the library and the driver no
\* longer mean the same by clients and ids.
Confused == \E x \in spoilt : x[2] = "stale"

\* While a reader sleeps, no more messages lie in its client's queue than
\* readers are already on their way to take them (AddReadMsg wakes one reader
\* per message), except where the code loses a wakeup: the message came while
\* a reader was between leaving the critical section and its wait, two
\* readers appended at once, the handle was closed, or two readers' events
\* have one name.  And no thread sleeps that waits for a
\* connection's status once that has changed.
ReaderAwake ==
  \A t \in At("waiting") :
    /\ th[t].op = "read" /\ ~th[t].missed =>
         connections[th[t].c].recvMsgQueue <=
           Cardinality({u \in At("woken") : th[u].op = "read" /\ th[u].c = th[t].c})
    /\ th[t].op = "status" => (th[t].id = 1 <=> connections[th[t].c].valid)

\* A message is answered for once, and success means that it was transmitted
\* (the address held): whatever disconnects, reconnects, dies or is late.
\* Excepted are a send whose wait timed out (its code is not initialised), a
\* thread that returns to a connection set up anew, and an id given again
\* before its last user was done with it.
ToldOnceTruly ==
  \A m \in Sends :
    /\ Len(told[m]) <= 1
    /\ TRUE \in ToSet(told[m]) =>
         m \in bus \/ Met(m, {"timeout", "reconnect", "reused"}) \/ Confused

\* Every id for notifications is available at the driver, or held by one
\* transaction of the library, or on its way back, or lost: none is given
\* twice.  Two things lose an id, and nothing else does: an answer that nobody
\* took, and a send that is refused when it has its id (AddSendJ1939Msg).
Held(id) == UNION {{c} \X {i \in Notifications(c) : connections[c].transactions[i].id = id} : c \in Clients}
Back(id) == {i \in DOMAIN toDriver : ~IsQuery(toDriver[i]) /\ toDriver[i].id = id}
Uses(id) ==
  ({"held"} \X Held(id)) \cup ({"back"} \X Back(id))
    \cup ({"avail"} \X ({id} \cap driver.avail)) \cup ({"lost"} \X ({id} \cap lost))
IdsAccounted == driver.up /\ ~Confused => \A id \in MsgIds : Cardinality(Uses(id)) = 1

\* Every blocked sender is woken and every notification posted in the end,
\* without the help of a timeout, also if the driver dies or the client
\* disconnects; not if the outcome was misread or its id given again.  (The
\* sends are bounded, so that the end comes.)
AllTold ==
  LET unlucky(m) == Met(m, {"misread", "reused"}) IN
  /\ \A t \in At("waiting") : th[t].op \in Blocking => unlucky(th[t].m)
  /\ \A c \in Clients : \A i \in Notifications(c) :
        unlucky(connections[c].transactions[i].m)
EventuallyTold == []<>(AllTold \/ Confused)
=============================================================================
