------------------------------ MODULE BusTimer ------------------------------
(***************************************************************************)
(* The main timer (src/src/timers.c) and what is built on it: reading a    *)
(* time that is longer than the hardware counter, and knowing for how long *)
(* the J1708 bus has been idle, up to the moment when StartJ1708Transmit   *)
(* (src/src/init_arm.S) writes the first character of a transmission.      *)
(*                                                                         *)
(* The counter of the hardware runs on by itself, and the hardware keeps   *)
(* the counter's value at the newest rising edge of the bus.  The main     *)
(* loop looks at registers one after the other: every access is a step,    *)
(* and between two of them time passes, edges arrive and interrupts are    *)
(* served.  A pending interrupt is served before the main loop's second    *)
(* access to a register, unless interrupts are off.                        *)
(*                                                                         *)
(* time and since are history: the code sees of time no more than counter, *)
(* the value modulo PERIOD.                                                *)
(***************************************************************************)
EXTENDS Integers

CONSTANTS
  PERIOD,    \* values of the counter (2^16)
  WRAPS,     \* values of the part of wrapCounter that GetTime32 uses (2^16)
  SATURATED, \* overflows after which the bus counts as idle for ever (40000)
  IdleCounts,  \* for how many bits the bus is to be idle before a transmission
             \* (12, 14 .. 26)
  DataBits,  \* bits after a rising edge that may still be of a character (9)
  BIT,       \* duration of a bit on the bus: edges are that far apart
  LOOK,      \* longest time from the look for a falling edge to the end of
             \* the handling of a rising edge
  ROUND      \* longest time from there to the next such end

Cycle == PERIOD * WRAPS

\* As the edge may be the last one of a character, the data bits and the stop
\* bit that may follow it count too.
ConvertJ1708IdleCountToTimerTicks(cnt) == (cnt + DataBits) * BIT

ASSUME TimerAssumption ==
  /\ PERIOD \in Nat /\ WRAPS \in Nat /\ SATURATED \in Nat
  /\ IdleCounts \subseteq Nat \ {0} /\ DataBits \in Nat /\ BIT \in Nat /\ LOOK \in Nat /\ ROUND \in Nat
  /\ PERIOD > 1 /\ BIT > 0 /\ ROUND > 0
  /\ ROUND < PERIOD                        \* timers.c:235
  /\ \A cnt \in IdleCounts :
       ConvertJ1708IdleCountToTimerTicks(cnt) + LOOK <= (SATURATED - 1) * PERIOD
  /\ (SATURATED + 1) * PERIOD <= Cycle

VARIABLES
  time,             \* true time, modulo Cycle
  TimerOverflow,    \* StatusRegister: the counter went from its end to 0
  InputCaptureA,    \* when a rising edge was, while its flag is up, or None
  InputCaptureFlagB,                 \* a falling edge
  asserted,         \* the bus is low
  since,            \* for how long the bus has had that level
  wrapCounter,      \* overflows counted, modulo WRAPS
  J1708_idle_time,
  J1708_last_transition_time,
  J1708_bus_not_idle,
  pc,               \* the next access of the main loop
  t1, t2, t3,       \* its local variables
  began,            \* history: when the reading of a time began, or the looks at
                    \* the bus before a transmission
  late,             \* an interrupt has waited for one access
  lag, span,        \* time since the main loop was done with looking for edges,
                    \* and since it began to look
  wanted             \* the idle count of what there is to transmit, or Nothing

hardwareVars == <<time, TimerOverflow, InputCaptureA, InputCaptureFlagB,
                  asserted, since, lag, span>>
idleVars     == <<J1708_idle_time, J1708_last_transition_time, J1708_bus_not_idle>>
localVars    == <<t1, t2, t3, began>>
timerVars == <<hardwareVars, wrapCounter, idleVars, pc, localVars, late, wanted>>

None == -1
Nothing == 0
ACCESS  == ConvertJ1708IdleCountToTimerTicks(wanted)
InputCaptureFlagA == InputCaptureA # None

Counter == time % PERIOD
Long    == IF asserted THEN BIT ELSE Cycle   \* since is not counted further

\* Where interrupts are off: GetTime32 and its like, and StartJ1708Transmit
\* from the second synchronisation on.
IRQsOff == pc \in {"read1", "read2", "read3", "read4", "read5", "look", "write"}

\* The main loop is between its looks for edges.
Looking == pc \in {"clearB", "edge", "capture", "wrap", "count", "status",
                  "back", "clearA"}

\* A point of time as GetTime32 returns it, and the time from a to b.
Time32(wraps, count) == (wraps % WRAPS) * PERIOD + count
Elapsed(a, b) == (b - a) % Cycle

-------------------------------------------------------------------------------
\* Called by InitializeJ1708.
StartJ1708IdleTimer ==
  J1708_idle_time = 0 /\ J1708_last_transition_time = Time32(wrapCounter, Counter)

InitializeTimers ==
  /\ time = 0 /\ TimerOverflow = FALSE
  /\ InputCaptureA = None /\ InputCaptureFlagB = FALSE
  /\ asserted \in BOOLEAN /\ since = 0
  /\ wrapCounter = 0
  /\ StartJ1708IdleTimer
  /\ J1708_bus_not_idle = FALSE
  /\ pc = "poll" /\ t1 = 0 /\ t2 = 0 /\ t3 = 0 /\ began = 0
  /\ late = FALSE /\ lag = 0 /\ span = 0 /\ wanted = Nothing

-------------------------------------------------------------------------------
(***************************************************************************)
(* The hardware.  An overflow is served before the next one; the bus keeps *)
(* a level for at least a bit, and StartJ1708Transmit is done with its two *)
(* looks in less (they are a sixteenth of a bit apart).                    *)
(***************************************************************************)
Tick ==
  /\ lag < ROUND
  /\ Looking => span < LOOK
  /\ ~(TimerOverflow /\ Counter = PERIOD - 1)
  /\ pc \in {"look", "write"} => Elapsed(began, time) < BIT - 1
  /\ time' = (time + 1) % Cycle
  /\ TimerOverflow' = (TimerOverflow \/ Counter = PERIOD - 1)
  /\ since' = IF since >= Long THEN since ELSE since + 1
  /\ lag' = lag + 1
  /\ span' = IF Looking THEN span + 1 ELSE 0
  /\ UNCHANGED <<InputCaptureA, InputCaptureFlagB, asserted,
                 wrapCounter, idleVars, pc, localVars, late, wanted>>

Edge ==
  /\ since >= BIT
  /\ asserted' = ~asserted /\ since' = 0
  /\ IF asserted
       THEN /\ InputCaptureA' = Counter
            /\ UNCHANGED InputCaptureFlagB
       ELSE /\ InputCaptureFlagB' = TRUE
            /\ UNCHANGED InputCaptureA
  /\ UNCHANGED <<time, TimerOverflow, lag, span, wrapCounter, idleVars, pc, localVars,
                 late, wanted>>

\* The interrupt handler of the timer: the overflows since the newest edge are
\* counted as far as SATURATED.
MoreIdle == IF J1708_idle_time < SATURATED THEN J1708_idle_time + 1 ELSE SATURATED

Timer1IRQ ==
  /\ TimerOverflow /\ ~IRQsOff
  /\ TimerOverflow' = FALSE
  /\ wrapCounter' = (wrapCounter + 1) % WRAPS
  /\ J1708_idle_time' = MoreIdle
  /\ late' = FALSE
  /\ UNCHANGED <<time, InputCaptureA, InputCaptureFlagB,
                 asserted, since, lag, span, J1708_last_transition_time,
                 J1708_bus_not_idle, pc, localVars, wanted>>

-------------------------------------------------------------------------------
(***************************************************************************)
(* The main loop.  A step of it goes from one access to the next.          *)
(***************************************************************************)
Access(from, to) ==
  /\ pc = from /\ pc' = to
  /\ ~TimerOverflow \/ ~late \/ IRQsOff
  /\ late' = (TimerOverflow /\ ~IRQsOff)

\* What most accesses leave alone.
SameHardware == UNCHANGED <<time, TimerOverflow, asserted, since, wrapCounter>>
SameEdges    == UNCHANGED <<InputCaptureA, InputCaptureFlagB>>

\* Local variables that are no longer used.
Forget == t1' = 0 /\ t2' = 0 /\ t3' = 0 /\ began' = 0

(***************************************************************************)
(* ResetJ1708IdleTimerIfNeeded: first the falling edge.                    *)
(***************************************************************************)
NoFallingEdge ==
  /\ Access("poll", "edge")
  /\ ~InputCaptureFlagB
  /\ SameHardware /\ SameEdges /\ UNCHANGED <<idleVars, localVars, lag, span, wanted>>

FallingEdge ==
  /\ Access("poll", "clearB")
  /\ InputCaptureFlagB
  /\ J1708_idle_time' = 0
  /\ SameHardware /\ SameEdges
  /\ UNCHANGED <<J1708_last_transition_time, J1708_bus_not_idle, localVars, lag,
                 span, wanted>>

ClearFlagB ==
  /\ Access("clearB", "edge")
  /\ InputCaptureFlagB' = FALSE
  /\ J1708_bus_not_idle' = TRUE
  /\ SameHardware
  /\ UNCHANGED <<InputCaptureA, J1708_idle_time, J1708_last_transition_time,
                 localVars, lag, span, wanted>>

(***************************************************************************)
(* Then the rising edge: its time is what the hardware kept of it and the  *)
(* number of overflows, less one that came after the edge.                 *)
(***************************************************************************)
NoRisingEdge ==
  /\ Access("edge", "sample")
  /\ ~InputCaptureFlagA
  /\ lag' = 0 /\ span' = 0
  /\ SameHardware /\ SameEdges /\ UNCHANGED <<idleVars, localVars, wanted>>

RisingEdge ==
  /\ Access("edge", "capture")
  /\ InputCaptureFlagA
  /\ J1708_idle_time' = 0
  /\ SameHardware /\ SameEdges
  /\ UNCHANGED <<J1708_last_transition_time, J1708_bus_not_idle, localVars, lag,
                 span, wanted>>

ReadCapture ==
  /\ Access("capture", "wrap")
  /\ t1' = InputCaptureA
  /\ SameHardware /\ SameEdges
  /\ UNCHANGED <<idleVars, t2, t3, began, lag, span, wanted>>

ReadWraps ==
  /\ Access("wrap", "count")
  /\ t2' = wrapCounter
  /\ SameHardware /\ SameEdges
  /\ UNCHANGED <<idleVars, t1, t3, began, lag, span, wanted>>

ReadCount ==
  /\ Access("count", "status")
  /\ t3' = Counter
  /\ SameHardware /\ SameEdges
  /\ UNCHANGED <<idleVars, t1, t2, began, lag, span, wanted>>

WrappedSince == t1 > t3 /\ ~TimerOverflow

ReadStatus ==
  /\ \/ Access("status", "back") /\ WrappedSince
     \/ Access("status", "clearA") /\ ~WrappedSince
  /\ SameHardware /\ SameEdges
  /\ UNCHANGED <<idleVars, localVars, lag, span, wanted>>

\* Mutant: from the number of overflows read before.
TakeBackWrapOld ==
  /\ Access("back", "clearA")
  /\ t2' = t2 - 1
  /\ SameHardware /\ SameEdges
  /\ UNCHANGED <<idleVars, t1, t3, began, lag, span, wanted>>

TakeBackWrap ==
  /\ Access("back", "clearA")
  /\ t2' = wrapCounter - 1
  /\ SameHardware /\ SameEdges
  /\ UNCHANGED <<idleVars, t1, t3, began, lag, span, wanted>>

ClearFlagA ==
  /\ Access("clearA", "sample")
  /\ J1708_last_transition_time' = Time32(t2, t1)
  /\ InputCaptureA' = None
  /\ J1708_bus_not_idle' = FALSE
  /\ lag' = 0 /\ span' = 0
  /\ SameHardware
  /\ Forget
  /\ UNCHANGED <<InputCaptureFlagB, J1708_idle_time, wanted>>

\* Last, the level of the bus.
SampleBus ==
  /\ Access("sample", "ask")
  /\ IF asserted THEN J1708_idle_time' = 0 /\ J1708_bus_not_idle' = TRUE
     ELSE UNCHANGED <<J1708_idle_time, J1708_bus_not_idle>>
  /\ SameHardware /\ SameEdges
  /\ UNCHANGED <<J1708_last_transition_time, localVars, lag, span, wanted>>

-------------------------------------------------------------------------------
(***************************************************************************)
(* GetTime32, GetTimerTime and Get_uS_TimeStamp: the counter is read       *)
(* before and after wrapCounter, and once more if it has wrapped.  The     *)
(* first two return t1 with t2, the last one t1 with t3.                   *)
(***************************************************************************)
Want ==
  /\ pc = "ask" /\ wanted = Nothing
  /\ wanted' \in IdleCounts
  /\ UNCHANGED <<hardwareVars, wrapCounter, idleVars, pc, localVars, late>>

NothingWanted ==
  /\ Access("ask", "poll")
  /\ wanted = Nothing
  /\ SameHardware /\ SameEdges /\ UNCHANGED <<idleVars, localVars, lag, span, wanted>>

FromNowOn ==
  /\ began' = time
  /\ SameHardware /\ SameEdges
  /\ UNCHANGED <<idleVars, t1, t2, t3, lag, span, wanted>>

BeginTimeStamp == Access("ask", "read1") /\ wanted = Nothing /\ FromNowOn

ReadFirst ==
  /\ Access("read1", "read2")
  /\ t2' = Counter
  /\ SameHardware /\ SameEdges
  /\ UNCHANGED <<idleVars, t1, t3, began, lag, span, wanted>>

ReadWrapCounter ==
  /\ Access("read2", "read3")
  /\ t1' = wrapCounter
  /\ SameHardware /\ SameEdges
  /\ UNCHANGED <<idleVars, t2, t3, began, lag, span, wanted>>

ReadSecond ==
  /\ Access("read3", "read4")
  /\ t3' = Counter
  /\ SameHardware /\ SameEdges
  /\ UNCHANGED <<idleVars, t1, t2, began, lag, span, wanted>>

\* Mutant: without the check that the note on Get_uS_TimeStamp is about.
WrappedSeen == t2 > t3

Wrapped == t2 > t3 \/ TimerOverflow

\* The readings serve GetJ1708IdleTime if there is something to transmit.
Use == IF wanted = Nothing THEN "stamp" ELSE "compare"

CheckWrapped ==
  /\ \/ Access("read4", "read5") /\ Wrapped
     \/ Access("read4", Use) /\ ~Wrapped
  /\ SameHardware /\ SameEdges
  /\ UNCHANGED <<idleVars, localVars, lag, span, wanted>>

ReadAgain ==
  /\ Access("read5", Use)
  /\ t1' = t1 + 1 /\ t2' = Counter /\ t3' = Counter
  /\ SameHardware /\ SameEdges
  /\ UNCHANGED <<idleVars, began, lag, span, wanted>>

EndTimeStamp ==
  /\ Access("stamp", "poll")
  /\ Forget
  /\ SameHardware /\ SameEdges /\ UNCHANGED <<idleVars, lag, span, wanted>>

-------------------------------------------------------------------------------
(***************************************************************************)
(* ProcessJ1708TransmitQueue with a message to transmit: GetJ1708IdleTime, *)
(* and if the bus has been idle long enough StartJ1708Transmit, which      *)
(* waits for its place in a bit and then looks at the bus twice more.      *)
(***************************************************************************)
\* Mutant: it waits there for the bus, which the loop would have to look at.
BusyWaits ==
  /\ Access("ask", "ask")
  /\ wanted # Nothing /\ J1708_bus_not_idle
  /\ SameHardware /\ SameEdges /\ UNCHANGED <<idleVars, localVars, lag, span, wanted>>

Busy ==
  /\ Access("ask", "poll")
  /\ wanted # Nothing /\ J1708_bus_not_idle
  /\ SameHardware /\ SameEdges /\ UNCHANGED <<idleVars, localVars, lag, span, wanted>>

IdleForEver ==
  /\ Access("ask", "sync")
  /\ wanted # Nothing /\ ~J1708_bus_not_idle /\ J1708_idle_time >= SATURATED
  /\ SameHardware /\ SameEdges /\ UNCHANGED <<idleVars, localVars, lag, span, wanted>>

BeginIdleTime ==
  /\ Access("ask", "read1")
  /\ wanted # Nothing /\ ~J1708_bus_not_idle /\ J1708_idle_time < SATURATED
  /\ FromNowOn

GetJ1708IdleTime == Elapsed(J1708_last_transition_time, Time32(t1, t2))

CompareIdleTime ==
  /\ \/ Access("compare", "sync") /\ GetJ1708IdleTime >= ACCESS
     \/ Access("compare", "poll") /\ GetJ1708IdleTime < ACCESS
  /\ Forget
  /\ SameHardware /\ SameEdges /\ UNCHANGED <<idleVars, lag, span, wanted>>

UNHANDELED_BUS_TRANSITION == InputCaptureFlagA \/ InputCaptureFlagB

\* Mutant: edges that came while it waited are not noticed.
CheckTransitionsNot ==
  /\ Access("sync", "look")
  /\ FromNowOn

CheckTransitions ==
  /\ \/ Access("sync", "look") /\ ~UNHANDELED_BUS_TRANSITION /\ began' = time
     \/ Access("sync", "poll") /\ UNHANDELED_BUS_TRANSITION /\ UNCHANGED began
  /\ SameHardware /\ SameEdges /\ UNCHANGED <<idleVars, t1, t2, t3, lag, span, wanted>>

LastLook ==
  /\ \/ Access("look", "write") /\ ~asserted /\ UNCHANGED localVars
     \/ Access("look", "poll") /\ asserted /\ Forget
  /\ SameHardware /\ SameEdges /\ UNCHANGED <<idleVars, lag, span, wanted>>

\* The character is written; interrupts come on soon after it.
WriteTxBuffer ==
  /\ Access("write", "poll")
  /\ wanted' = Nothing
  /\ Forget
  /\ SameHardware /\ SameEdges /\ UNCHANGED <<idleVars, lag, span>>

-------------------------------------------------------------------------------
Poll ==
  \/ NoFallingEdge \/ FallingEdge \/ ClearFlagB
  \/ NoRisingEdge \/ RisingEdge \/ ReadCapture \/ ReadWraps \/ ReadCount
  \/ ReadStatus \/ TakeBackWrap \/ ClearFlagA \/ SampleBus

ReadTime ==
  \/ BeginTimeStamp \/ BeginIdleTime \/ ReadFirst \/ ReadWrapCounter \/ ReadSecond
  \/ CheckWrapped \/ ReadAgain \/ EndTimeStamp

Transmit ==
  \/ NothingWanted \/ Busy \/ IdleForEver \/ CompareIdleTime
  \/ CheckTransitions \/ LastLook \/ WriteTxBuffer

Main == Poll \/ ReadTime \/ Transmit
TimerNext == Tick \/ Edge \/ Timer1IRQ \/ Want \/ Main

(***************************************************************************)
(* Fairness: time goes on, the interrupt is served, and the main loop runs *)
(* on.  Nothing is assumed of the bus or of the wish to transmit.          *)
(***************************************************************************)
Fairness == WF_timerVars(Tick) /\ WF_timerVars(Timer1IRQ) /\ WF_timerVars(Main)
TimerSpec == InitializeTimers /\ [][TimerNext]_timerVars /\ Fairness

-------------------------------------------------------------------------------
(***************************************************************************)
(* A time that was read is a time there was between the beginning and the  *)
(* end of the reading, wherever in between the counter wrapped and whether *)
(* or not the interrupt had been served before (timers.c:161, the note on  *)
(* Get_uS_TimeStamp).                                                      *)
(***************************************************************************)
TimeIsTrue ==
  pc \in {"compare", "stamp"} =>
    /\ Elapsed(began, Time32(t1, t2)) <= Elapsed(began, time)
    /\ Elapsed(began, Time32(t1, t3)) <= Elapsed(began, time)

(***************************************************************************)
(* The edges of the bus are timed accurately (timers.c:234): while the bus *)
(* is not asserted, J1708_last_transition_time is the time of the newest   *)
(* rising edge, or that edge still waits for the main loop.                *)
(***************************************************************************)
EdgeTimeIsTrue ==
  ~asserted /\ ~InputCaptureFlagA /\ since < Cycle =>
    Elapsed(J1708_last_transition_time, time) = since

(***************************************************************************)
(* Both: no time is off by a whole wrap of the counter, in whatever order  *)
(* counter, overflow flag and wrapCounter are read.                        *)
(***************************************************************************)
TimesAreTrue == TimeIsTrue /\ EdgeTimeIsTrue

(***************************************************************************)
(* A transmission starts on a bus that has really been idle for as long as *)
(* its priority asks for, at the last look before the write: neither an    *)
(* edge that comes while StartJ1708Transmit waits nor a time that has      *)
(* wrapped around lets it start earlier.                                   *)
(***************************************************************************)
StartsOnIdleBus ==
  [][pc = "look" /\ pc' = "write" => ~asserted /\ since >= ACCESS]_timerVars

(***************************************************************************)
(* A bus that is idle for ever is found idle: whatever there is to         *)
(* transmit is transmitted (timers.c:225).                                 *)
(***************************************************************************)
IdleBusIsUsed == <>[](~asserted) => []<>(wanted = Nothing)
===============================================================================
