------------------------------ MODULE CANFilters ------------------------------
(***************************************************************************)
(* The acceptance filters: the CAN controller's message objects, the       *)
(* routines of CAN.c that set, find, read and clear them, and the commands *)
(* of protocol232.c that call those.                                       *)
(*                                                                         *)
(* The controller keeps no filter apart from what it received: a frame     *)
(* that passes an object's filter overwrites the object's identifier, and  *)
(* only the bits under the mask are still what was set.  Frames come in    *)
(* between any two filters of a command.                                   *)
(***************************************************************************)
EXTENDS Integers, Sequences, FiniteSets, FiniteSetsExt

CONSTANTS
  NUM_USER_CAN_FILTERS,         \* message objects used for filters (25)
  StdBits, StdField, StdHigh,   \* bits of a standard identifier (11), of the
                                \* field it is sent in (16), its upper 8 bits
  ExtBits, ExtField, ExtHigh,   \* the same of an extended one (29, 32, 8)
  Filters, Lists                \* the filters, and lists of them, a host may send

ASSUME FiltersAssumption ==
  /\ NUM_USER_CAN_FILTERS \in Nat \ {0}
  /\ StdBits \subseteq StdField /\ StdHigh \subseteq StdBits
  /\ ExtBits \subseteq ExtField /\ ExtHigh \subseteq ExtBits
  /\ \A f \in Filters : /\ f.ext \in BOOLEAN
                        /\ f.id \subseteq StdField \cup ExtField
                        /\ f.mask \subseteq StdField \cup ExtField
  /\ Lists \subseteq Seq(Filters)

VARIABLES
  obj,      \* the message objects 1 .. NUM_USER_CAN_FILTERS
  allmsg,   \* message object 31 is valid: it takes every frame
  phase,       \* "idle", or "set" while a list is being worked through
  enable,   \* myenable of that list
  rest,     \* what is left of the list
  answer,   \* the first answer to the command in progress or the last one
  wanted,   \* the list of that command (history)
  heard,    \* the frame the last step gave to the host, if any
  report    \* what the last step answered to 'g', if it did

filterVars == <<obj, allmsg, phase, enable, rest, answer, wanted, heard, report>>

Bits(ext)  == IF ext THEN ExtBits ELSE StdBits
Field(ext) == IF ext THEN ExtField ELSE StdField
High(ext)  == IF ext THEN ExtHigh ELSE StdHigh

Objects  == 1 .. NUM_USER_CAN_FILTERS
Free     == [valid |-> FALSE, ext |-> FALSE, id |-> {}, mask |-> {}]
Frames   == {[ext |-> x, id |-> i] : x \in BOOLEAN, i \in SUBSET (StdBits \cup ExtBits)}
OnBus    == {f \in Frames : f.id \subseteq Bits(f.ext) /\ ~(High(f.ext) \subseteq f.id)}
NoFrame  == [ext |-> FALSE, id |-> Field(FALSE)]
NoReport == <<>>

-------------------------------------------------------------------------------
(* CAN.c *)

\* The filter as findCANfilter and setCANfilter have it: bits that are not the
\* identifier's are dropped.
Reduced(f) == [ext |-> f.ext, id |-> f.id \cap Bits(f.ext), mask |-> f.mask \cap Bits(f.ext)]

\* The object that has the filter, or 0.
findCANfilter(f) ==
  LET r == Reduced(f)
      found == {i \in Objects : obj[i].valid /\ obj[i].ext = r.ext
                                /\ obj[i].mask = r.mask
                                /\ obj[i].id \cap obj[i].mask = r.id}
  IN  IF found = {} THEN 0 ELSE Min(found)

\* The first free object, or 0.
FreeObject ==
  LET free == {i \in Objects : ~obj[i].valid} IN IF free = {} THEN 0 ELSE Min(free)

setCANfilter(i, f) ==
  LET r == Reduced(f)
  IN  obj' = [obj EXCEPT ![i] = [valid |-> TRUE, ext |-> r.ext, id |-> r.id, mask |-> r.mask]]

\* What an object holds that is not valid is never looked at.
unsetCANfilter(i) == obj' = [obj EXCEPT ![i] = Free]

\* Mutant: one object too few.
DisableAllCANFiltersButOne ==
  obj' = [i \in Objects |-> IF i < NUM_USER_CAN_FILTERS THEN Free ELSE obj[i]]

DisableAllCANFilters == obj' = [i \in Objects |-> Free]

\* read_CAN_filter and the type get_CAN_filters takes it for: the mask is laid
\* over the flag of a standard identifier too.
Reported(i) ==
  [ext |-> TRUE, id |-> obj[i].id \cap obj[i].mask, mask |-> obj[i].mask]

-------------------------------------------------------------------------------
(* The commands *)

\* What set_CAN_filters wants of a filter.
ValidFilter(f) ==
  LET all  == f.mask = Field(f.ext)
      mask == IF all THEN Bits(f.ext) ELSE f.mask
  IN  /\ ~f.ext => mask \subseteq StdBits
      /\ f.id \subseteq Bits(f.ext)
      /\ ~(High(f.ext) \subseteq f.id)
      /\ f.id \subseteq mask

Quiet == heard' = NoFrame /\ report' = NoReport

\* 'f': nothing is done unless every filter of the list is right.
SetFilters(list, on) ==
  /\ phase = "idle"
  /\ IF list = <<>> \/ \E i \in DOMAIN list : ~ValidFilter(list[i])
     THEN answer' = "INVALID_DATA" /\ UNCHANGED <<phase, rest>>
     ELSE answer' = "none" /\ phase' = "set" /\ rest' = list
  /\ enable' = on /\ wanted' = list
  /\ Quiet /\ UNCHANGED <<obj, allmsg>>

Answered(code) == answer' = IF answer = "none" THEN code ELSE answer

\* Mutant: the host is not told that there was no free object.
TurnOnQuietly ==
  /\ phase = "set" /\ rest # <<>> /\ enable
  /\ IF findCANfilter(Head(rest)) # 0 \/ FreeObject = 0 THEN UNCHANGED obj
     ELSE setCANfilter(FreeObject, Head(rest))
  /\ rest' = Tail(rest)
  /\ Quiet /\ UNCHANGED <<allmsg, phase, enable, answer, wanted>>

\* A filter that is on already is left alone; without a free object the host is
\* told at once, and the rest of the list is worked through all the same.
TurnOn ==
  /\ phase = "set" /\ rest # <<>> /\ enable
  /\ IF findCANfilter(Head(rest)) # 0 THEN UNCHANGED <<obj, answer>>
     ELSE IF FreeObject = 0 THEN Answered("UNABLE_TO_PROCESS") /\ UNCHANGED obj
     ELSE setCANfilter(FreeObject, Head(rest)) /\ UNCHANGED answer
  /\ rest' = Tail(rest)
  /\ Quiet /\ UNCHANGED <<allmsg, phase, enable, wanted>>

TurnOff ==
  /\ phase = "set" /\ rest # <<>> /\ ~enable
  /\ LET i == findCANfilter(Head(rest))
     IN  IF i = 0 THEN UNCHANGED obj ELSE unsetCANfilter(i)
  /\ rest' = Tail(rest)
  /\ Quiet /\ UNCHANGED <<allmsg, phase, enable, answer, wanted>>

\* The list ends with an acknowledgement, whatever was said before.
ListDone ==
  /\ phase = "set" /\ rest = <<>>
  /\ Answered("OK")
  /\ phase' = "idle"
  /\ Quiet /\ UNCHANGED <<obj, allmsg, enable, rest, wanted>>

\* 'g': the filters that are on, in the order of the objects.
GetFilters ==
  /\ phase = "idle"
  /\ report' = <<{Reported(i) : i \in {j \in Objects : obj[j].valid}}>>
  /\ heard' = NoFrame
  /\ answer' = "OK" /\ wanted' = <<>>
  /\ UNCHANGED <<obj, allmsg, phase, enable, rest>>

\* 'e': EnableCANReceiveALL, DisableCANReceiveALL.
SwitchFilters(on) ==
  /\ phase = "idle"
  /\ allmsg' = ~on
  /\ answer' = "OK" /\ wanted' = <<>>
  /\ Quiet /\ UNCHANGED <<obj, phase, enable, rest>>

\* CANResetDefaultPrefs, by 'r' or Init232, and InitializeCANBusController in a
\* restart of the firmware.
ResetDefaultPrefs ==
  /\ phase = "idle"
  /\ DisableAllCANFilters
  /\ allmsg' = FALSE
  /\ answer' = "OK" /\ wanted' = <<>>
  /\ Quiet /\ UNCHANGED <<phase, enable, rest>>

-------------------------------------------------------------------------------
(* The controller *)

\* The objects whose filter a frame passes; the first takes it, and keeps its
\* identifier.  Object 31 comes after all of them.
Matching(frame) ==
  {i \in Objects : /\ obj[i].valid /\ obj[i].ext = frame.ext
                   /\ frame.id \cap obj[i].mask = obj[i].id \cap obj[i].mask}

ReceiveFrame(frame) ==
  /\ IF Matching(frame) # {}
     THEN obj' = [obj EXCEPT ![Min(Matching(frame))].id = frame.id]
     ELSE UNCHANGED obj
  /\ heard' = IF Matching(frame) # {} \/ allmsg THEN frame ELSE NoFrame
  /\ report' = NoReport
  /\ UNCHANGED <<allmsg, phase, enable, rest, answer, wanted>>

FilterInit ==
  /\ obj = [i \in Objects |-> Free] /\ allmsg = FALSE
  /\ phase = "idle" /\ enable = FALSE /\ rest = <<>>
  /\ answer = "OK" /\ wanted = <<>>
  /\ heard = NoFrame /\ report = NoReport

Command ==
  \/ \E list \in Lists, on \in BOOLEAN : SetFilters(list, on)
  \/ \E on \in BOOLEAN : SwitchFilters(on)
  \/ GetFilters \/ ResetDefaultPrefs
FilterNext ==
  \/ Command
  \/ TurnOn \/ TurnOff \/ ListDone
  \/ \E frame \in OnBus : ReceiveFrame(frame)

FilterSpec == FilterInit /\ [][FilterNext]_filterVars

-------------------------------------------------------------------------------
\* The types of all variables.
Words == SUBSET (StdBits \cup ExtBits)
FilterTypeOK ==
  /\ obj \in [Objects -> [valid : BOOLEAN, ext : BOOLEAN, id : Words, mask : Words]]
  /\ allmsg \in BOOLEAN /\ enable \in BOOLEAN
  /\ phase \in {"idle", "set"}
  /\ Len(rest) <= Len(wanted)
  /\ answer \in {"none", "OK", "UNABLE_TO_PROCESS", "INVALID_DATA"}
  /\ heard \in OnBus \cup {NoFrame}

\* The filters that are on, as the host set them.
FiltersOn == {[ext |-> obj[i].ext, id |-> obj[i].id \cap obj[i].mask, mask |-> obj[i].mask] :
                i \in {j \in Objects : obj[j].valid}}

FilterService == INSTANCE CANFilterService WITH
  MaxFilters <- NUM_USER_CAN_FILTERS,
  Filters    <- {Reduced(f) : f \in Filters},
  Frames     <- OnBus, NoFrame <- NoFrame,
  filters    <- FiltersOn, all <- allmsg, heard <- heard

\* Although every frame received overwrites the filter it passed, and frames
\* come in while a list is worked through, the objects behave as a set of
\* filters that commands alone change (findCANfilter, setCANfilter,
\* unsetCANfilter, DisableAllCANFilters).
ImplementsFilters == FilterService!Spec

\* No two objects have the same filter: none is lost to a filter that is on
\* already, and one command turns a filter off (findCANfilter before
\* setCANfilter).
NoTwice ==
  \A i, j \in Objects :
    /\ obj[i].valid /\ obj[j].valid
    /\ obj[i].ext = obj[j].ext /\ obj[i].mask = obj[j].mask
    /\ obj[i].id \cap obj[i].mask = obj[j].id \cap obj[j].mask
    => i = j

\* The first answer to a list is the one the host goes by: after OK every filter
\* of the list is as asked; after UNABLE_TO_PROCESS some filter is not on
\* (set_CAN_filters may answer several times).
FirstAnswerTells ==
  phase = "idle" /\ wanted # <<>> =>
    LET on(f) == Reduced(f) \in FiltersOn
    IN  CASE answer = "OK" -> \A i \in DOMAIN wanted : on(wanted[i]) = enable
          [] answer = "UNABLE_TO_PROCESS" -> enable /\ \E i \in DOMAIN wanted : ~on(wanted[i])
          [] OTHER -> \E i \in DOMAIN wanted : ~ValidFilter(wanted[i])

\* What option 'g' reports are the filters as they were set (the protocol
\* document's words; get_CAN_filters).
ReportedAsSet == report # NoReport => report = <<FiltersOn>>
===============================================================================
