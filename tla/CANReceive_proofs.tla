--------------------------- MODULE CANReceive_proofs ---------------------------
(***************************************************************************)
(* Proofs about what comes from the CAN bus.                               *)
(*                                                                         *)
(* The filters (CANFilters), for any number of message objects, any widths *)
(* of identifiers and any lists of filters: the types, that no two objects *)
(* have the same filter, that the objects implement CANFilterService, and  *)
(* that the first answer to a list is true.                                *)
(*                                                                         *)
(* The queue behind them (CANRx), for every ring size and every bound on   *)
(* arrivals and commands.                                                  *)
(***************************************************************************)
EXTENDS CANFilters, CANRx, WellFoundedInduction, FiniteSetTheorems, TLAPS

(***************************************************************************)
(* Min of a set of numbers that is not empty is its least element.         *)
(***************************************************************************)
Less == {ss \in Nat \X Nat : ss[1] < ss[2]}

LEMMA LessWellFounded == IsWellFoundedOn(Less, Nat)
<1>1. OpToRel(<, Nat) = Less
  BY Zenon DEF OpToRel, Less
<1> QED
  BY <1>1, NatLessThanWellFounded, Zenon

LEMMA MinIsLeast ==
  ASSUME NEW S, S \subseteq Nat, S # {}
  PROVE  Min(S) \in S /\ \A y \in S : Min(S) <= y
<1>1. \E x \in S : \A y \in S : ~(<<y, x>> \in Less)
  BY LessWellFounded, WFMin, Zenon
<1>2. PICK x \in S : \A y \in S : ~(<<y, x>> \in Less)
  BY <1>1
<1>3. ASSUME NEW y \in S
      PROVE  x <= y
  <2>1. x \in Nat /\ y \in Nat
    OBVIOUS
  <2>2. ~(<<y, x>> \in Less)
    BY <1>2, Zenon
  <2> QED
    BY <2>1, <2>2 DEF Less
<1> QED
  BY <1>3 DEF Min

(***************************************************************************)
(* What findCANfilter and FreeObject return.                               *)
(***************************************************************************)
Same(i, r) ==
  obj[i].valid /\ obj[i].ext = r.ext /\ obj[i].mask = r.mask
  /\ obj[i].id \cap obj[i].mask = r.id

LEMMA ObjectsAreNumbers == Objects \subseteq Nat /\ 0 \notin Objects
  BY FiltersAssumption DEF Objects

LEMMA Found ==
  ASSUME NEW f
  PROVE  /\ findCANfilter(f) # 0 => findCANfilter(f) \in Objects
         /\ findCANfilter(f) = 0 => \A i \in Objects : ~Same(i, Reduced(f))
<1> DEFINE found == {i \in Objects : Same(i, Reduced(f))}
<1>1. findCANfilter(f) = IF found = {} THEN 0 ELSE Min(found)
  BY Zenon DEF findCANfilter, Same
<1>2. found \subseteq Objects
  OBVIOUS
<1>3. found # {} => Min(found) \in found
  BY <1>2, MinIsLeast, ObjectsAreNumbers
<1> HIDE DEF found
<1>4. CASE found = {}
  <2>1. findCANfilter(f) = 0
    BY <1>1, <1>4
  <2>2. \A i \in Objects : ~Same(i, Reduced(f))
    BY <1>4 DEF found
  <2> QED
    BY <2>1, <2>2
<1>5. CASE found # {}
  <2>1. findCANfilter(f) \in Objects
    BY <1>1, <1>2, <1>3, <1>5
  <2> QED
    BY <2>1, ObjectsAreNumbers
<1> QED
  BY <1>4, <1>5

LEMMA FreeFound ==
  FreeObject # 0 => FreeObject \in Objects /\ ~obj[FreeObject].valid
<1> DEFINE free == {i \in Objects : ~obj[i].valid}
<1>1. FreeObject = IF free = {} THEN 0 ELSE Min(free)
  BY Zenon DEF FreeObject
<1>2. free # {} => Min(free) \in free
  BY MinIsLeast, ObjectsAreNumbers
<1> QED
  BY <1>1, <1>2

(***************************************************************************)
(* A filter as it is set, and the list in progress.                        *)
(***************************************************************************)
Object == [valid : BOOLEAN, ext : BOOLEAN, id : Words, mask : Words]

LEMMA ReducedFilter ==
  ASSUME NEW f \in Filters
  PROVE  /\ Reduced(f).ext \in BOOLEAN
         /\ Reduced(f).id \in Words /\ Reduced(f).mask \in Words
         /\ ValidFilter(f) => Reduced(f).id \subseteq Reduced(f).mask
<1>1. f.ext \in BOOLEAN
  BY FiltersAssumption
<1>2. CASE f.ext
  BY <1>2, FiltersAssumption DEF Reduced, ValidFilter, Words, Bits, Field
<1>3. CASE ~f.ext
  BY <1>1, <1>3, FiltersAssumption DEF Reduced, ValidFilter, Words, Bits, Field
<1> QED
  BY <1>1, <1>2, <1>3

ListOK ==
  /\ rest \in Seq(Filters) /\ wanted \in Seq(Filters)
  /\ \A i \in DOMAIN rest : ValidFilter(rest[i])

IdleDone == phase = "idle" => rest = <<>>

FilterInv == FilterTypeOK /\ ListOK /\ IdleDone /\ NoTwice

LEMMA Head1 ==
  ASSUME ListOK, rest # <<>>
  PROVE  /\ Head(rest) \in Filters /\ ValidFilter(Head(rest))
         /\ Tail(rest) \in Seq(Filters) /\ Len(Tail(rest)) <= Len(rest)
         /\ \A i \in DOMAIN Tail(rest) : ValidFilter(Tail(rest)[i])
<1>1. /\ rest \in Seq(Filters) /\ Len(rest) \in Nat \ {0}
      /\ DOMAIN rest = 1 .. Len(rest)
  BY DEF ListOK
<1>2. Head(rest) = rest[1] /\ 1 \in DOMAIN rest
  BY <1>1
<1>3. /\ Tail(rest) \in Seq(Filters)
      /\ DOMAIN Tail(rest) = 1 .. Len(rest) - 1
      /\ \A i \in 1 .. Len(rest) - 1 : Tail(rest)[i] = rest[i + 1]
      /\ Len(Tail(rest)) = Len(rest) - 1
  BY <1>1
<1>4. \A i \in 1 .. Len(rest) - 1 : ValidFilter(rest[i + 1])
  BY <1>1 DEF ListOK
<1>5. \A i \in DOMAIN Tail(rest) : ValidFilter(Tail(rest)[i])
  BY <1>3, <1>4
<1> QED
  BY <1>1, <1>2, <1>3, <1>5 DEF ListOK

(***************************************************************************)
(* What the steps do to the objects: nothing, forget some, take one more   *)
(* filter, or overwrite an identifier under its mask's complement.         *)
(***************************************************************************)
ObjOK == obj \in [Objects -> Object]

LEMMA Unset ==
  ASSUME ObjOK, NoTwice,
         obj' \in [Objects -> Object],
         \A i \in Objects : obj'[i] = obj[i] \/ ~obj'[i].valid
  PROVE  NoTwice'
<1>1. \A i \in Objects : obj'[i].valid => obj'[i] = obj[i]
  OBVIOUS
<1> QED
  BY <1>1 DEF NoTwice, Objects

LEMMA FreeIsObject == Free \in Object
  BY DEF Free, Object, Words

LEMMA Set ==
  ASSUME ObjOK, NoTwice, NEW f \in Filters, ValidFilter(f),
         findCANfilter(f) = 0, FreeObject # 0, setCANfilter(FreeObject, f)
  PROVE  ObjOK' /\ NoTwice'
<1> DEFINE k == FreeObject
           r == Reduced(f)
           new == [valid |-> TRUE, ext |-> r.ext, id |-> r.id, mask |-> r.mask]
<1>1. k \in Objects
  BY FreeFound
<1>2. obj' = [obj EXCEPT ![k] = new]
  BY DEF setCANfilter
<1>3. new \in Object /\ new.id \cap new.mask = r.id
  BY ReducedFilter DEF Object
<1>4. \A i \in Objects : ~Same(i, r)
  BY Found
<1> HIDE DEF k, r
<1>5. ObjOK'
  BY <1>1, <1>2, <1>3 DEF ObjOK, Objects
<1>6. /\ obj'[k] = new
      /\ \A i \in Objects : i # k => obj'[i] = obj[i]
  BY <1>1, <1>2 DEF ObjOK
<1>7. ASSUME NEW i \in Objects, i # k, obj'[i].valid,
             obj'[i].ext = new.ext, obj'[i].mask = new.mask,
             obj'[i].id \cap obj'[i].mask = new.id \cap new.mask
      PROVE  FALSE
  BY <1>3, <1>4, <1>6, <1>7 DEF Same
<1>8. NoTwice'
  <2> SUFFICES ASSUME NEW i \in Objects, NEW j \in Objects,
                      obj'[i].valid, obj'[j].valid,
                      obj'[i].ext = obj'[j].ext, obj'[i].mask = obj'[j].mask,
                      obj'[i].id \cap obj'[i].mask = obj'[j].id \cap obj'[j].mask
               PROVE  i = j
    BY DEF NoTwice, Objects
  <2>1. CASE i = k
    BY <1>6, <1>7, <2>1
  <2>2. CASE j = k
    BY <1>6, <1>7, <2>2
  <2>3. CASE i # k /\ j # k
    BY <1>6, <2>3 DEF NoTwice
  <2> QED
    BY <2>1, <2>2, <2>3
<1> QED
  BY <1>5, <1>8

LEMMA Overwrite ==
  ASSUME ObjOK, NoTwice, NEW frame \in OnBus, NEW k \in Matching(frame),
         obj' = [obj EXCEPT ![k].id = frame.id]
  PROVE  ObjOK' /\ NoTwice'
<1>1. k \in Objects /\ frame.id \cap obj[k].mask = obj[k].id \cap obj[k].mask
  BY DEF Matching
<1>2. frame.id \in Words
  BY DEF OnBus, Frames, Words
<1>3. obj[k] \in Object
  BY <1>1 DEF ObjOK
<1>4. obj'[k] = [obj[k] EXCEPT !.id = frame.id]
  BY <1>1 DEF ObjOK
<1>5. obj'[k] \in Object
  BY <1>2, <1>3, <1>4 DEF Object
<1>6. \A i \in Objects : i # k => obj'[i] = obj[i]
  BY DEF ObjOK
<1>7. ObjOK'
  BY <1>5, <1>6 DEF ObjOK, Objects
<1>8. /\ obj'[k].valid = obj[k].valid /\ obj'[k].ext = obj[k].ext
      /\ obj'[k].mask = obj[k].mask
      /\ obj'[k].id \cap obj'[k].mask = obj[k].id \cap obj[k].mask
  BY <1>1, <1>3, <1>4 DEF Object
<1>9. \A i \in Objects :
        /\ obj'[i].valid = obj[i].valid /\ obj'[i].ext = obj[i].ext
        /\ obj'[i].mask = obj[i].mask
        /\ obj'[i].id \cap obj'[i].mask = obj[i].id \cap obj[i].mask
  BY <1>6, <1>8
<1>10. NoTwice'
  BY <1>9 DEF NoTwice, Objects
<1> QED
  BY <1>7, <1>10

(***************************************************************************)
(* The invariant is inductive.                                             *)
(***************************************************************************)
LEMMA InitIInv == FilterInit => FilterInv
<1> SUFFICES ASSUME FilterInit PROVE FilterInv
  OBVIOUS
<1>1. obj \in [Objects -> Object]
  BY FreeIsObject DEF FilterInit
<1>2. rest = <<>> /\ wanted = <<>> /\ Len(rest) <= Len(wanted)
  BY DEF FilterInit
<1>3. FilterTypeOK
  <2>1. /\ allmsg \in BOOLEAN /\ enable \in BOOLEAN /\ phase \in {"idle", "set"}
        /\ answer \in {"none", "OK", "UNABLE_TO_PROCESS", "INVALID_DATA"}
        /\ heard \in OnBus \cup {NoFrame}
    BY DEF FilterInit
  <2> QED
    BY <1>1, <1>2, <2>1 DEF FilterTypeOK, Object
<1>4. ListOK /\ IdleDone
  BY <1>2 DEF ListOK, IdleDone
<1>5. NoTwice
  BY DEF FilterInit, NoTwice, Free
<1> QED
  BY <1>3, <1>4, <1>5 DEF FilterInv

LEMMA StepIInv == FilterInv /\ [FilterNext]_filterVars => FilterInv'
<1> SUFFICES ASSUME FilterInv, [FilterNext]_filterVars PROVE FilterInv'
  OBVIOUS
<1>0. ObjOK /\ NoTwice /\ ListOK
  BY DEF FilterInv, FilterTypeOK, ObjOK, Object
<1>i. phase = "idle" => rest = <<>>
  BY DEF FilterInv, IdleDone
<1>t. /\ allmsg \in BOOLEAN /\ enable \in BOOLEAN /\ phase \in {"idle", "set"}
      /\ Len(rest) <= Len(wanted)
      /\ answer \in {"none", "OK", "UNABLE_TO_PROCESS", "INVALID_DATA"}
      /\ heard \in OnBus \cup {NoFrame}
  BY DEF FilterInv, FilterTypeOK
<1>a. ASSUME ObjOK', NoTwice', ListOK', phase' = "idle" => rest' = <<>>, Len(rest') <= Len(wanted'),
             allmsg' \in BOOLEAN, enable' \in BOOLEAN, phase' \in {"idle", "set"},
             answer' \in {"none", "OK", "UNABLE_TO_PROCESS", "INVALID_DATA"},
             heard' \in OnBus \cup {NoFrame}
      PROVE  FilterInv'
  BY <1>a DEF FilterInv, IdleDone, FilterTypeOK, ObjOK, Object, Objects, Words, OnBus, Frames, NoFrame,
              Bits, High, Field
<1>e. Len(<<>>) = 0
  OBVIOUS
<1>b. ASSUME UNCHANGED obj PROVE ObjOK' /\ NoTwice'
  BY <1>0, <1>b DEF ObjOK, NoTwice, Objects
<1>c. ASSUME UNCHANGED <<rest, wanted>> PROVE ListOK' /\ Len(rest') <= Len(wanted')
  BY <1>0, <1>t, <1>c DEF ListOK, ValidFilter, Field, Bits, High
<1>d. ASSUME rest # <<>>, rest' = Tail(rest), UNCHANGED wanted
      PROVE  ListOK' /\ Len(rest') <= Len(wanted')
  <2>1. /\ Tail(rest) \in Seq(Filters) /\ Len(Tail(rest)) <= Len(rest)
        /\ \A i \in DOMAIN Tail(rest) : ValidFilter(Tail(rest)[i])
    BY <1>0, <1>d, Head1
  <2>2. ListOK'
    BY <1>0, <1>d, <2>1 DEF ListOK, ValidFilter, Field, Bits, High
  <2>3. Len(rest) \in Nat /\ Len(wanted) \in Nat /\ Len(Tail(rest)) \in Nat
    BY <1>0, <2>1 DEF ListOK
  <2>4. Len(rest') <= Len(wanted')
    BY <1>t, <1>d, <2>1, <2>3
  <2> QED
    BY <2>2, <2>4
<1>f. ASSUME rest = <<>>, UNCHANGED rest, wanted' = <<>>
      PROVE  ListOK' /\ Len(rest') <= Len(wanted')
  BY <1>0, <1>e, <1>f DEF ListOK, ValidFilter, Field, Bits, High
<1>1. ASSUME NEW list \in Lists, NEW on \in BOOLEAN, SetFilters(list, on)
      PROVE  FilterInv'
  <2>1. list \in Seq(Filters)
    BY FiltersAssumption
  <2>2. UNCHANGED obj /\ UNCHANGED allmsg /\ enable' = on /\ wanted' = list /\ heard' = NoFrame
    BY <1>1 DEF SetFilters, Quiet
  <2>3. CASE list = <<>> \/ \E i \in DOMAIN list : ~ValidFilter(list[i])
    <3>1. rest' = rest /\ phase' = phase /\ answer' = "INVALID_DATA"
      BY <1>1, <2>3 DEF SetFilters
    <3> QED
      BY <1>0, <1>i, <1>t, <1>e, <1>a, <1>b, <2>1, <2>2, <3>1, <1>1 DEF ListOK, SetFilters, ValidFilter, Field, Bits, High
  <2>4. CASE list # <<>> /\ \A i \in DOMAIN list : ValidFilter(list[i])
    <3>1. rest' = list /\ phase' = "set" /\ answer' = "none"
      BY <1>1, <2>4 DEF SetFilters
    <3>2. ListOK'
      BY <2>1, <2>2, <2>4, <3>1 DEF ListOK, ValidFilter, Field, Bits, High
    <3>3. Len(rest') <= Len(wanted')
      BY <2>1, <2>2, <3>1
    <3> QED
      BY <1>t, <1>a, <1>b, <2>2, <3>1, <3>2, <3>3
  <2> QED
    BY <2>3, <2>4
<1>2. CASE TurnOn
  <2>1. /\ ListOK' /\ Len(rest') <= Len(wanted')
        /\ Head(rest) \in Filters /\ ValidFilter(Head(rest))
    BY <1>0, <1>d, <1>2, Head1 DEF TurnOn
  <2>2. ObjOK' /\ NoTwice'
    <3>1. CASE UNCHANGED obj
      BY <1>b, <3>1
    <3>2. CASE findCANfilter(Head(rest)) = 0 /\ FreeObject # 0
               /\ setCANfilter(FreeObject, Head(rest))
      BY <1>0, <2>1, <3>2, Set
    <3> QED
      BY <1>2, <3>1, <3>2 DEF TurnOn
  <2>3. answer' \in {"none", "OK", "UNABLE_TO_PROCESS", "INVALID_DATA"}
    BY <1>2, <1>t DEF TurnOn, Answered
  <2>4. UNCHANGED <<allmsg, phase, enable>> /\ heard' = NoFrame
    BY <1>2 DEF TurnOn, Quiet
  <2> QED
    BY <1>2, <1>t, <1>a, <2>1, <2>2, <2>3, <2>4 DEF TurnOn
<1>3. CASE TurnOff
  <2>1. /\ ListOK' /\ Len(rest') <= Len(wanted')
        /\ Head(rest) \in Filters
    BY <1>0, <1>d, <1>3, Head1 DEF TurnOff
  <2>2. ObjOK' /\ NoTwice'
    <3>1. CASE UNCHANGED obj
      BY <1>b, <3>1
    <3>2. CASE /\ findCANfilter(Head(rest)) # 0
               /\ unsetCANfilter(findCANfilter(Head(rest)))
      <4> DEFINE k == findCANfilter(Head(rest))
      <4>1. obj' = [obj EXCEPT ![k] = Free]
        BY <3>2 DEF unsetCANfilter
      <4> HIDE DEF k
      <4>2. /\ obj' \in [Objects -> Object]
            /\ \A i \in Objects : obj'[i] = obj[i] \/ ~obj'[i].valid
        BY <1>0, <4>1, FreeIsObject DEF ObjOK, Free
      <4> QED
        BY <1>0, <4>2, Unset DEF ObjOK, Objects, Object, Words
    <3> QED
      BY <1>3, <3>1, <3>2 DEF TurnOff
  <2>3. UNCHANGED <<allmsg, phase, enable, answer>> /\ heard' = NoFrame
    BY <1>3 DEF TurnOff, Quiet
  <2> QED
    BY <1>3, <1>t, <1>a, <2>1, <2>2, <2>3 DEF TurnOff
<1>4. CASE ListDone
  <2>1. /\ UNCHANGED obj /\ UNCHANGED <<rest, wanted>> /\ UNCHANGED <<allmsg, enable>>
        /\ phase' = "idle" /\ heard' = NoFrame
    BY <1>4 DEF ListDone, Quiet
  <2>2. answer' \in {"none", "OK", "UNABLE_TO_PROCESS", "INVALID_DATA"}
    BY <1>4, <1>t DEF ListDone, Answered
  <2> QED
    BY <1>4, <1>t, <1>a, <1>b, <1>c, <2>1, <2>2 DEF ListDone
<1>5. CASE GetFilters
  <2>1. /\ UNCHANGED obj /\ UNCHANGED rest /\ wanted' = <<>>
        /\ UNCHANGED <<allmsg, phase, enable>> /\ answer' = "OK" /\ heard' = NoFrame
    BY <1>5 DEF GetFilters
  <2>2. rest = <<>>
    BY <1>5, <1>i DEF GetFilters
  <2> QED
    BY <1>t, <1>a, <1>b, <1>f, <2>1, <2>2
<1>6. ASSUME NEW on \in BOOLEAN, SwitchFilters(on) PROVE FilterInv'
  <2>1. /\ UNCHANGED obj /\ UNCHANGED rest /\ wanted' = <<>> /\ allmsg' = ~on
        /\ UNCHANGED <<phase, enable>> /\ answer' = "OK" /\ heard' = NoFrame
    BY <1>6 DEF SwitchFilters, Quiet
  <2>2. rest = <<>>
    BY <1>6, <1>i DEF SwitchFilters
  <2> QED
    BY <1>t, <1>a, <1>b, <1>f, <2>1, <2>2
<1>7. CASE ResetDefaultPrefs
  <2>1. /\ obj' = [i \in Objects |-> Free] /\ UNCHANGED rest /\ wanted' = <<>>
        /\ allmsg' = FALSE /\ UNCHANGED <<phase, enable>> /\ answer' = "OK" /\ heard' = NoFrame
    BY <1>7 DEF ResetDefaultPrefs, DisableAllCANFilters, Quiet
  <2>2. rest = <<>>
    BY <1>7, <1>i DEF ResetDefaultPrefs
  <2>3. /\ obj' \in [Objects -> Object]
        /\ \A i \in Objects : obj'[i] = obj[i] \/ ~obj'[i].valid
    BY <2>1, FreeIsObject DEF Free
  <2>4. ObjOK' /\ NoTwice'
    BY <1>0, <2>3, Unset DEF ObjOK, Objects, Object, Words
  <2> QED
    BY <1>t, <1>a, <1>f, <2>1, <2>2, <2>4
<1>8. ASSUME NEW frame \in OnBus, ReceiveFrame(frame) PROVE FilterInv'
  <2>1. UNCHANGED <<rest, wanted>> /\ UNCHANGED <<allmsg, phase, enable, answer>>
    BY <1>8 DEF ReceiveFrame
  <2>2. heard' \in OnBus \cup {NoFrame}
    BY <1>8 DEF ReceiveFrame
  <2>3. CASE Matching(frame) = {}
    BY <1>8, <1>i, <1>t, <1>a, <1>b, <1>c, <2>1, <2>2, <2>3 DEF ReceiveFrame
  <2>4. CASE Matching(frame) # {}
    <3>1. Min(Matching(frame)) \in Matching(frame)
      BY <2>4, MinIsLeast, ObjectsAreNumbers DEF Matching
    <3>2. obj' = [obj EXCEPT ![Min(Matching(frame))].id = frame.id]
      BY <1>8, <2>4 DEF ReceiveFrame
    <3>3. ObjOK' /\ NoTwice'
      BY <1>0, <3>1, <3>2, Overwrite
    <3> QED
      BY <1>i, <1>t, <1>a, <1>c, <2>1, <2>2, <3>3
  <2> QED
    BY <2>3, <2>4
<1>9. CASE UNCHANGED filterVars
  BY <1>i, <1>t, <1>a, <1>b, <1>c, <1>9 DEF filterVars
<1> QED
  BY <1>1, <1>2, <1>3, <1>4, <1>5, <1>6, <1>7, <1>8, <1>9 DEF FilterNext, Command

(***************************************************************************)
(* The types of all variables, for any numbers of objects and filters.     *)
(***************************************************************************)
THEOREM FilterTypeCorrect == FilterSpec => []FilterTypeOK
<1>1. FilterInv => FilterTypeOK
  BY DEF FilterInv
<1> QED
  BY <1>1, InitIInv, StepIInv, PTL DEF FilterSpec

(***************************************************************************)
(* No two objects ever have the same filter, however the frames that come  *)
(* in between two filters of a list overwrite the objects' identifiers     *)
(* (findCANfilter, setCANfilter, unsetCANfilter).                          *)
(***************************************************************************)
THEOREM NoFilterTwice == FilterSpec => []NoTwice
<1>1. FilterInv => NoTwice
  BY DEF FilterInv
<1> QED
  BY <1>1, InitIInv, StepIInv, PTL DEF FilterSpec
(***************************************************************************)
(* The set of filters that the objects stand for, and what the steps do to *)
(* it.                                                                     *)
(***************************************************************************)
On(i) == [ext |-> obj[i].ext, id |-> obj[i].id \cap obj[i].mask, mask |-> obj[i].mask]
ValidObjects == {j \in Objects : obj[j].valid}

LEMMA FiltersOnIs == FiltersOn = {On(i) : i \in ValidObjects}
  BY DEF FiltersOn, On, ValidObjects

\* With an object free there are fewer filters than objects.
LEMMA RoomForOne ==
  ASSUME FreeObject # 0
  PROVE  Cardinality(FiltersOn) < NUM_USER_CAN_FILTERS
<1> DEFINE g == [i \in ValidObjects |-> On(i)]
<1>1. FreeObject \in Objects /\ FreeObject \notin ValidObjects
  BY FreeFound DEF ValidObjects
<1>2. NUM_USER_CAN_FILTERS \in Nat \ {0}
  BY FiltersAssumption
<1>3. /\ IsFiniteSet(Objects) /\ Cardinality(Objects) = NUM_USER_CAN_FILTERS
  BY <1>2, FS_Interval DEF Objects
<1>4. /\ IsFiniteSet(Objects \ {FreeObject})
      /\ Cardinality(Objects \ {FreeObject}) = NUM_USER_CAN_FILTERS - 1
  BY <1>1, <1>3, FS_RemoveElement
<1>5. ValidObjects \in SUBSET (Objects \ {FreeObject})
  BY <1>1 DEF ValidObjects
<1>6. /\ IsFiniteSet(ValidObjects)
      /\ Cardinality(ValidObjects) <= NUM_USER_CAN_FILTERS - 1
  BY <1>4, <1>5, FS_Subset
<1>7. g \in Surjection(ValidObjects, FiltersOn)
  BY FiltersOnIs DEF Surjection
<1>8. IsFiniteSet(FiltersOn) /\ Cardinality(FiltersOn) <= Cardinality(ValidObjects)
  BY <1>6, <1>7, FS_Surjection
<1>9. Cardinality(FiltersOn) \in Nat /\ Cardinality(ValidObjects) \in Nat
  BY <1>6, <1>8, FS_CardinalityType
<1> QED
  BY <1>2, <1>6, <1>8, <1>9

LEMMA SetAdds ==
  ASSUME ObjOK, NEW f \in Filters, ValidFilter(f),
         NEW k \in Objects, ~obj[k].valid, setCANfilter(k, f)
  PROVE  FiltersOn' = FiltersOn \cup {Reduced(f)}
<1> DEFINE r == Reduced(f)
           new == [valid |-> TRUE, ext |-> r.ext, id |-> r.id, mask |-> r.mask]
<1>1. obj' = [obj EXCEPT ![k] = new]
  BY DEF setCANfilter
<1>2. r.id \cap r.mask = r.id
  BY ReducedFilter
<1>3. r = [ext |-> r.ext, id |-> r.id, mask |-> r.mask]
  BY DEF Reduced
<1> HIDE DEF r
<1>4. /\ obj'[k] = new
      /\ \A i \in Objects : i # k => obj'[i] = obj[i]
  BY <1>1 DEF ObjOK
<1>5. ValidObjects' = ValidObjects \cup {k} /\ k \notin ValidObjects
  BY <1>4 DEF ValidObjects, Objects
<1>6. On(k)' = r
  <2>1. /\ obj'[k].ext = r.ext /\ obj'[k].mask = r.mask
        /\ obj'[k].id \cap obj'[k].mask = r.id
    BY <1>2, <1>4
  <2> QED
    BY <1>3, <2>1, Zenon DEF On
<1>7. \A i \in ValidObjects : On(i)' = On(i)
  BY <1>4, <1>5 DEF On, ValidObjects
<1>8. FiltersOn' = {On(i)' : i \in ValidObjects'}
  BY DEF FiltersOn, On, ValidObjects
<1>9. FiltersOn' = {On(i)' : i \in ValidObjects} \cup {On(k)'}
  BY <1>5, <1>8
<1>10. {On(i)' : i \in ValidObjects} = {On(i) : i \in ValidObjects}
  BY <1>7, Zenon
<1> QED
  BY <1>6, <1>9, <1>10, FiltersOnIs DEF r

\* Two objects never have the filter: one is enough to take it away.
LEMMA UnsetRemoves ==
  ASSUME ObjOK, NoTwice, NEW f \in Filters, NEW k \in Objects, Same(k, Reduced(f)),
         unsetCANfilter(k)
  PROVE  FiltersOn' = FiltersOn \ {Reduced(f)}
<1> DEFINE r == Reduced(f)
<1>1. /\ ~obj'[k].valid
      /\ \A i \in Objects : i # k => obj'[i] = obj[i]
  BY DEF unsetCANfilter, ObjOK, Free
<1>2. r = [ext |-> r.ext, id |-> r.id, mask |-> r.mask]
  BY DEF Reduced
<1> HIDE DEF r
<1>3. ValidObjects' = ValidObjects \ {k} /\ k \in ValidObjects
  BY <1>1 DEF ValidObjects, Objects, Same
<1>4. On(k) = r
  BY <1>2 DEF On, Same, r
<1>5. \A i \in ValidObjects : i # k => On(i)' = On(i)
  BY <1>1 DEF On, ValidObjects
<1>6. \A i \in ValidObjects : On(i) = On(k) => i = k
  BY <1>3 DEF On, ValidObjects, NoTwice
<1>7. FiltersOn' = {On(i)' : i \in ValidObjects'}
  BY DEF FiltersOn, On, ValidObjects
<1> QED
  BY <1>3, <1>4, <1>5, <1>6, <1>7, FiltersOnIs DEF r

LEMMA OverwriteKeeps ==
  ASSUME ObjOK, NEW frame \in OnBus, NEW k \in Matching(frame),
         obj' = [obj EXCEPT ![k].id = frame.id]
  PROVE  /\ FiltersOn' = FiltersOn
         /\ \A i \in Objects : obj'[i].valid = obj[i].valid
<1>1. k \in Objects /\ frame.id \cap obj[k].mask = obj[k].id \cap obj[k].mask
  BY DEF Matching
<1>2. obj[k] \in Object
  BY <1>1 DEF ObjOK
<1>3. obj'[k] = [obj[k] EXCEPT !.id = frame.id]
  BY <1>1 DEF ObjOK
<1>4. \A i \in Objects : i # k => obj'[i] = obj[i]
  BY DEF ObjOK
<1>5. ASSUME NEW i \in Objects
      PROVE  obj'[i].valid = obj[i].valid /\ On(i)' = On(i)
  <2>1. CASE i # k
    BY <1>4, <2>1 DEF On
  <2>2. CASE i = k
    <3>1. /\ obj'[k].valid = obj[k].valid /\ obj'[k].ext = obj[k].ext
          /\ obj'[k].mask = obj[k].mask
          /\ obj'[k].id \cap obj'[k].mask = obj[k].id \cap obj[k].mask
      BY <1>1, <1>2, <1>3 DEF Object
    <3> QED
      BY <2>2, <3>1, Zenon DEF On
  <2> QED
    BY <2>1, <2>2
<1>6. ValidObjects' = ValidObjects
  BY <1>5 DEF ValidObjects, Objects
<1>7. FiltersOn' = {On(i)' : i \in ValidObjects'}
  BY DEF FiltersOn, On, ValidObjects
<1>8. \A i \in ValidObjects : On(i)' = On(i)
  BY <1>5 DEF ValidObjects
<1> QED
  BY <1>5, <1>6, <1>7, <1>8, FiltersOnIs

\* A frame changes no filter, whether it finds an object or not.
LEMMA ReceiveKeeps ==
  ASSUME ObjOK, NEW frame \in OnBus, ReceiveFrame(frame)
  PROVE  /\ FiltersOn' = FiltersOn
         /\ \A i \in Objects : obj'[i].valid = obj[i].valid
<1>1. CASE Matching(frame) = {}
  BY <1>1 DEF ReceiveFrame, FiltersOn, Objects
<1>2. CASE Matching(frame) # {}
  <2>1. Min(Matching(frame)) \in Matching(frame)
    BY <1>2, MinIsLeast, ObjectsAreNumbers DEF Matching
  <2>2. obj' = [obj EXCEPT ![Min(Matching(frame))].id = frame.id]
    BY <1>2 DEF ReceiveFrame
  <2> QED
    BY <2>1, <2>2, OverwriteKeeps
<1> QED
  BY <1>1, <1>2

\* What a set of filters lets pass is what the objects let pass.
LEMMA PassesIs ==
  ASSUME NEW frame \in OnBus
  PROVE  FilterService!Passes(frame) <=> allmsg \/ Matching(frame) # {}
<1>1. FilterService!Passes(frame) <=>
        \/ allmsg
        \/ \E x \in FiltersOn : x.ext = frame.ext /\ frame.id \cap x.mask = x.id
  BY DEF FilterService!Passes
<1>2. (\E x \in FiltersOn : x.ext = frame.ext /\ frame.id \cap x.mask = x.id)
        <=> \E i \in ValidObjects : obj[i].ext = frame.ext
                  /\ frame.id \cap obj[i].mask = obj[i].id \cap obj[i].mask
  <2>1. \A i : /\ On(i).ext = obj[i].ext /\ On(i).mask = obj[i].mask
              /\ On(i).id = obj[i].id \cap obj[i].mask
    BY DEF On
  <2>2. \A x \in FiltersOn : \E i \in ValidObjects : x = On(i)
    BY FiltersOnIs
  <2>3. \A i \in ValidObjects : On(i) \in FiltersOn
    BY FiltersOnIs
  <2> QED
    BY <2>1, <2>2, <2>3
<1> QED
  BY <1>1, <1>2 DEF Matching, ValidObjects

\* The object that is found has the filter.
LEMMA FoundSame ==
  ASSUME NEW f, findCANfilter(f) # 0
  PROVE  findCANfilter(f) \in Objects /\ Same(findCANfilter(f), Reduced(f))
<1> DEFINE found == {i \in Objects : Same(i, Reduced(f))}
<1>1. findCANfilter(f) = IF found = {} THEN 0 ELSE Min(found)
  BY Zenon DEF findCANfilter, Same
<1>2. found # {} => Min(found) \in found
  BY MinIsLeast, ObjectsAreNumbers
<1> QED
  BY <1>1, <1>2

\* No filter is on at first.
LEMMA InitFilters == FilterInit => FilterService!Init
  BY DEF FilterInit, FilterService!Init, FiltersOn, Free

\* The two modules count alike.
LEMMA SameCardinality == \A S : FilterService!Cardinality(S) = Cardinality(S)
  BY DEF Cardinality, FilterService!Cardinality, IsFiniteSet, FilterService!IsFiniteSet

\* Every step is one of the service.
LEMMA StepFilters == FilterInv /\ [FilterNext]_filterVars => [FilterService!Next]_(FilterService!vars)
<1> SUFFICES ASSUME FilterInv, [FilterNext]_filterVars
             PROVE  [FilterService!Next]_(FilterService!vars)
  OBVIOUS
<1>0. ObjOK /\ NoTwice /\ ListOK /\ allmsg \in BOOLEAN
  BY DEF FilterInv, FilterTypeOK, ObjOK, Object
<1>k. ASSUME UNCHANGED obj PROVE FiltersOn' = FiltersOn
  BY <1>k DEF FiltersOn, Objects
<1>s. ASSUME UNCHANGED obj, heard' = NoFrame, allmsg' \in BOOLEAN
      PROVE  FilterService!Next
  BY <1>k, <1>s DEF FilterService!Next, FilterService!Switch
<1>1. ASSUME NEW list \in Lists, NEW on \in BOOLEAN, SetFilters(list, on)
      PROVE  FilterService!Next
  BY <1>0, <1>1, <1>s DEF SetFilters, Quiet
<1>2. CASE TurnOn
  <2> DEFINE f == Head(rest)
  <2>1. f \in Filters /\ ValidFilter(f)
    BY <1>0, <1>2, Head1 DEF TurnOn
  <2>2. heard' = NoFrame /\ UNCHANGED allmsg
    BY <1>2 DEF TurnOn, Quiet
  <2>3. CASE UNCHANGED obj
    BY <1>0, <1>s, <2>2, <2>3
  <2>4. CASE FreeObject # 0 /\ setCANfilter(FreeObject, f)
    <3>1. /\ Cardinality(FiltersOn) < NUM_USER_CAN_FILTERS
          /\ FiltersOn' = FiltersOn \cup {Reduced(f)}
      BY <1>0, <2>1, <2>4, RoomForOne, FreeFound, SetAdds
    <3>2. FilterService!Enable(Reduced(f))
      BY <2>2, <3>1, SameCardinality DEF FilterService!Enable
    <3> QED
      BY <2>1, <3>2 DEF FilterService!Next
  <2> QED
    BY <1>2, <2>3, <2>4 DEF TurnOn
<1>3. CASE TurnOff
  <2> DEFINE f == Head(rest)
             k == findCANfilter(f)
  <2>1. f \in Filters
    BY <1>0, <1>3, Head1 DEF TurnOff
  <2>2. heard' = NoFrame /\ UNCHANGED allmsg
    BY <1>3 DEF TurnOff, Quiet
  <2>3. CASE UNCHANGED obj
    BY <1>0, <1>s, <2>2, <2>3
  <2>4. CASE k # 0 /\ unsetCANfilter(k)
    <3>1. k \in Objects /\ Same(k, Reduced(f))
      BY <2>4, FoundSame
    <3>2. FiltersOn' = FiltersOn \ {Reduced(f)}
      BY <1>0, <2>1, <2>4, <3>1, UnsetRemoves
    <3>3. FilterService!Disable(Reduced(f))
      BY <2>2, <3>2 DEF FilterService!Disable
    <3> QED
      BY <2>1, <3>3 DEF FilterService!Next
  <2> QED
    BY <1>3, <2>3, <2>4 DEF TurnOff
<1>4. CASE ListDone
  BY <1>0, <1>4, <1>s DEF ListDone, Quiet
<1>5. CASE GetFilters
  BY <1>0, <1>5, <1>s DEF GetFilters
<1>6. ASSUME NEW on \in BOOLEAN, SwitchFilters(on) PROVE FilterService!Next
  BY <1>6, <1>s DEF SwitchFilters, Quiet
<1>7. CASE ResetDefaultPrefs
  <2>1. FiltersOn' = {}
    BY <1>7 DEF ResetDefaultPrefs, DisableAllCANFilters, FiltersOn, Free
  <2>2. heard' = NoFrame /\ allmsg' = FALSE
    BY <1>7 DEF ResetDefaultPrefs, Quiet
  <2> QED
    BY <2>1, <2>2 DEF FilterService!Next, FilterService!Reset
<1>8. ASSUME NEW frame \in OnBus, ReceiveFrame(frame) PROVE FilterService!Next
  <2>1. FiltersOn' = FiltersOn
    BY <1>0, <1>8, ReceiveKeeps
  <2>2. /\ heard' = (IF FilterService!Passes(frame) THEN frame ELSE NoFrame)
        /\ UNCHANGED allmsg
    BY <1>8, PassesIs DEF ReceiveFrame
  <2>3. FilterService!Receive(frame)
    BY <2>1, <2>2 DEF FilterService!Receive
  <2> QED
    BY <2>3 DEF FilterService!Next
<1>9. CASE UNCHANGED filterVars
  BY <1>9, <1>k DEF filterVars, FilterService!vars
<1> QED
  BY <1>1, <1>2, <1>3, <1>4, <1>5, <1>6, <1>7, <1>8, <1>9 DEF FilterNext, Command

(***************************************************************************)
(* The message objects, overwritten by the frames they receive, implement  *)
(* a set of filters that commands alone change and that decides which      *)
(* frames the host sees.                                                   *)
(***************************************************************************)
THEOREM FilterServiceImplemented == FilterSpec => ImplementsFilters
<1>1. FilterSpec => []FilterInv
  BY InitIInv, StepIInv, PTL DEF FilterSpec
<1> QED
  BY <1>1, InitFilters, StepFilters, PTL DEF FilterSpec, ImplementsFilters, FilterService!Spec
(***************************************************************************)
(* How far a list is, and what was answered so far.                        *)
(***************************************************************************)
IsOn(f) == Reduced(f) \in FiltersOn
Done == Len(wanted) - Len(rest)

\* What is left of the list is its end; no answer yet, and what was worked
\* through is as asked; or the answer that an object was missing, and it still is.
InProgress ==
  /\ \A j \in 1 .. Len(rest) : rest[j] = wanted[Done + j]
  /\ \/ answer = "none" /\ \A i \in 1 .. Done : IsOn(wanted[i]) <=> enable
     \/ /\ answer = "UNABLE_TO_PROCESS" /\ enable /\ FreeObject = 0
        /\ \E i \in 1 .. Len(wanted) : ~IsOn(wanted[i])

\* FirstAnswerTells, case by case.
Told ==
  \/ answer = "OK" /\ \A i \in 1 .. Len(wanted) : IsOn(wanted[i]) <=> enable
  \/ answer = "UNABLE_TO_PROCESS" /\ enable /\ \E i \in 1 .. Len(wanted) : ~IsOn(wanted[i])
  \/ answer = "INVALID_DATA" /\ \E i \in 1 .. Len(wanted) : ~ValidFilter(wanted[i])

AnswerInv ==
  /\ phase = "set" => InProgress
  /\ phase = "idle" /\ wanted # <<>> => Told

LEMMA ToldIs ==
  ASSUME FilterInv, AnswerInv
  PROVE  FirstAnswerTells
<1> SUFFICES ASSUME phase = "idle", wanted # <<>>, Told
             PROVE  FirstAnswerTells
  BY DEF AnswerInv, FirstAnswerTells
<1>1. DOMAIN wanted = 1 .. Len(wanted) /\ enable \in BOOLEAN
  BY DEF FilterInv, ListOK, FilterTypeOK
<1>2. CASE answer = "OK" /\ \A i \in 1 .. Len(wanted) : IsOn(wanted[i]) <=> enable
  BY <1>1, <1>2 DEF FirstAnswerTells, IsOn
<1>3. CASE /\ answer = "UNABLE_TO_PROCESS" /\ enable
           /\ \E i \in 1 .. Len(wanted) : ~IsOn(wanted[i])
  BY <1>1, <1>3 DEF FirstAnswerTells, IsOn
<1>4. CASE answer = "INVALID_DATA" /\ \E i \in 1 .. Len(wanted) : ~ValidFilter(wanted[i])
  BY <1>1, <1>4 DEF FirstAnswerTells
<1> QED
  BY <1>2, <1>3, <1>4 DEF Told

\* An object is found exactly when the filter is on.
LEMMA FoundIsOn ==
  ASSUME NEW f \in Filters, ValidFilter(f)
  PROVE  findCANfilter(f) # 0 <=> IsOn(f)
<1> DEFINE r == Reduced(f)
<1>1. r = [ext |-> r.ext, id |-> r.id, mask |-> r.mask]
  BY DEF Reduced
<1>2. \A i \in ValidObjects : On(i) = r <=> Same(i, r)
  <2>1. ASSUME NEW i \in ValidObjects, Same(i, r) PROVE On(i) = r
    BY <1>1, <2>1, Zenon DEF On, Same
  <2>2. ASSUME NEW i \in ValidObjects, On(i) = r PROVE Same(i, r)
    <3>1. On(i).ext = r.ext /\ On(i).id = r.id /\ On(i).mask = r.mask
      BY <2>2, Zenon
    <3> QED
      BY <3>1 DEF On, Same, ValidObjects
  <2> QED
    BY <2>1, <2>2
<1>3. ASSUME findCANfilter(f) # 0 PROVE IsOn(f)
  <2>1. findCANfilter(f) \in Objects /\ Same(findCANfilter(f), r)
    BY <1>3, FoundSame
  <2>2. findCANfilter(f) \in ValidObjects
    BY <2>1 DEF ValidObjects, Same
  <2> QED
    BY <1>2, <2>1, <2>2, FiltersOnIs DEF IsOn
<1>4. ASSUME findCANfilter(f) = 0 PROVE ~IsOn(f)
  <2>1. \A i \in Objects : ~Same(i, r)
    BY <1>4, Found
  <2>2. \A i \in ValidObjects : On(i) # r
    BY <1>2, <2>1 DEF ValidObjects
  <2> QED
    BY <2>2, FiltersOnIs DEF IsOn
<1> QED
  BY <1>3, <1>4

\* A free object is found exactly when there is one.
LEMMA NoneFree == FreeObject = 0 <=> \A i \in Objects : obj[i].valid
<1> DEFINE free == {i \in Objects : ~obj[i].valid}
<1>1. FreeObject = IF free = {} THEN 0 ELSE Min(free)
  BY Zenon DEF FreeObject
<1>2. free # {} => Min(free) \in free
  BY MinIsLeast, ObjectsAreNumbers
<1> QED
  BY <1>1, <1>2, ObjectsAreNumbers

\* A step that changes no filter, no list and no answer changes neither.
LEMMA KeepsAnswer ==
  ASSUME AnswerInv, FiltersOn' = FiltersOn,
         FreeObject = 0 => FreeObject' = 0,
         UNCHANGED <<phase, enable, rest, answer, wanted>>
  PROVE  AnswerInv'
<1>1. \A f : IsOn(f)' <=> IsOn(f)
  BY DEF IsOn, Reduced, Bits
<1>2. \A f : ValidFilter(f)' <=> ValidFilter(f)
  BY DEF ValidFilter, Field, Bits, High
<1>3. Done' = Done
  BY DEF Done
<1> QED
  BY <1>1, <1>2, <1>3 DEF AnswerInv, InProgress, Told

\* No list was given at first.
LEMMA InitAnswer == FilterInit => AnswerInv
  BY DEF FilterInit, AnswerInv
\* One filter of the list is worked through.
LEMMA OneDone ==
  ASSUME ListOK, Len(rest) <= Len(wanted), rest # <<>>,
         \A j \in 1 .. Len(rest) : rest[j] = wanted[Done + j],
         rest' = Tail(rest), UNCHANGED wanted
  PROVE  /\ Done \in Nat /\ Done' = Done + 1 /\ Done + 1 \in 1 .. Len(wanted)
         /\ Head(rest) = wanted[Done + 1]
         /\ \A j \in 1 .. Len(rest') : rest'[j] = wanted'[Done' + j]
<1>1. /\ rest \in Seq(Filters) /\ wanted \in Seq(Filters)
      /\ Len(rest) \in Nat \ {0} /\ Len(wanted) \in Nat
  BY DEF ListOK
<1>2. /\ Head(rest) = rest[1] /\ Len(Tail(rest)) = Len(rest) - 1
      /\ \A i \in 1 .. Len(rest) - 1 : Tail(rest)[i] = rest[i + 1]
  BY <1>1
<1>3. Done \in Nat /\ Done' = Done + 1 /\ Done + 1 \in 1 .. Len(wanted)
  BY <1>1, <1>2 DEF Done
<1>4. Head(rest) = wanted[Done + 1]
  BY <1>1, <1>2
<1>5. ASSUME NEW j \in 1 .. Len(rest') PROVE rest'[j] = wanted'[Done' + j]
  <2>1. j \in 1 .. Len(rest) - 1 /\ j + 1 \in 1 .. Len(rest)
    BY <1>1, <1>2
  <2>2. rest'[j] = rest[j + 1] /\ rest[j + 1] = wanted[Done + (j + 1)]
    BY <1>2, <2>1
  <2>3. Done' + j = Done + (j + 1)
    BY <1>3, <2>1
  <2> QED
    BY <2>2, <2>3
<1> QED
  BY <1>3, <1>4, <1>5

\* What was answered stays true, step by step.
LEMMA StepAnswer == FilterInv /\ AnswerInv /\ [FilterNext]_filterVars => AnswerInv'
<1> SUFFICES ASSUME FilterInv, AnswerInv, [FilterNext]_filterVars PROVE AnswerInv'
  OBVIOUS
<1>0. ObjOK /\ NoTwice /\ ListOK /\ enable \in BOOLEAN /\ Len(rest) <= Len(wanted)
  BY DEF FilterInv, FilterTypeOK, ObjOK, Object
<1>f. \A f : IsOn(f)' <=> Reduced(f) \in FiltersOn'
  BY DEF IsOn, Reduced, Bits
<1>v. \A f : ValidFilter(f)' <=> ValidFilter(f)
  BY DEF ValidFilter, Field, Bits, High
<1>1. ASSUME NEW list \in Lists, NEW on \in BOOLEAN, SetFilters(list, on)
      PROVE  AnswerInv'
  <2>1. list \in Seq(Filters) /\ DOMAIN list = 1 .. Len(list) /\ Len(list) \in Nat
    BY FiltersAssumption
  <2>2. phase = "idle" /\ wanted' = list
    BY <1>1 DEF SetFilters
  <2>3. CASE list = <<>> \/ \E i \in DOMAIN list : ~ValidFilter(list[i])
    <3>1. phase' = "idle" /\ answer' = "INVALID_DATA"
      BY <1>1, <2>3 DEF SetFilters
    <3>2. list # <<>> => Told'
      BY <1>v, <2>1, <2>2, <2>3, <3>1 DEF Told
    <3> QED
      BY <2>2, <3>1, <3>2 DEF AnswerInv
  <2>4. CASE list # <<>> /\ \A i \in DOMAIN list : ValidFilter(list[i])
    <3>1. rest' = list /\ phase' = "set" /\ answer' = "none"
      BY <1>1, <2>4 DEF SetFilters
    <3>2. Done' = 0
      BY <2>1, <2>2, <3>1 DEF Done
    <3>3. InProgress'
      BY <2>1, <2>2, <3>1, <3>2 DEF InProgress
    <3> QED
      BY <3>1, <3>3 DEF AnswerInv
  <2> QED
    BY <2>3, <2>4
<1>2. CASE TurnOn
  <2> DEFINE h == Head(rest)
  <2>1. /\ phase = "set" /\ phase' = "set" /\ rest # <<>> /\ rest' = Tail(rest)
        /\ enable /\ enable' /\ UNCHANGED wanted
    BY <1>0, <1>2 DEF TurnOn
  <2>2. InProgress
    BY <2>1 DEF AnswerInv
  <2>3. /\ Done \in Nat /\ Done' = Done + 1 /\ Done + 1 \in 1 .. Len(wanted)
        /\ h = wanted[Done + 1]
        /\ \A j \in 1 .. Len(rest') : rest'[j] = wanted'[Done' + j]
    BY <1>0, <2>1, <2>2, OneDone DEF InProgress
  <2>4. h \in Filters /\ ValidFilter(h)
    BY <1>0, <2>1, Head1
  <2>5. findCANfilter(h) # 0 <=> IsOn(h)
    BY <2>4, FoundIsOn
  <2>6. CASE findCANfilter(h) # 0
    <3>1. UNCHANGED obj /\ UNCHANGED answer
      BY <1>2, <2>6 DEF TurnOn
    <3>2. FiltersOn' = FiltersOn /\ FreeObject' = FreeObject
      BY <3>1 DEF FiltersOn, FreeObject, Objects
    <3>3. \A f : IsOn(f)' <=> IsOn(f)
      BY <1>f, <3>2 DEF IsOn
    <3>4. CASE answer = "none"
      <4>1. \A i \in 1 .. Done' : IsOn(wanted[i])
        BY <2>1, <2>2, <2>3, <2>5, <2>6, <3>4 DEF InProgress
      <4> QED
        BY <2>1, <2>3, <3>1, <3>3, <3>4, <4>1 DEF InProgress, AnswerInv
    <3>5. CASE answer # "none"
      BY <2>1, <2>2, <2>3, <3>1, <3>2, <3>3, <3>5 DEF InProgress, AnswerInv
    <3> QED
      BY <3>4, <3>5
  <2>7. CASE findCANfilter(h) = 0 /\ FreeObject = 0
    <3>1. UNCHANGED obj /\ answer' = "UNABLE_TO_PROCESS"
      BY <1>2, <2>2, <2>7 DEF TurnOn, Answered, InProgress
    <3>2. FiltersOn' = FiltersOn /\ FreeObject' = FreeObject
      BY <3>1 DEF FiltersOn, FreeObject, Objects
    <3> QED
      BY <1>f, <2>1, <2>3, <2>5, <2>7, <3>1, <3>2 DEF InProgress, AnswerInv, IsOn
  <2>8. CASE findCANfilter(h) = 0 /\ FreeObject # 0
    <3>1. setCANfilter(FreeObject, h) /\ UNCHANGED answer /\ answer = "none"
      BY <1>2, <2>2, <2>8 DEF TurnOn, InProgress
    <3>2. FiltersOn' = FiltersOn \cup {Reduced(h)}
      BY <1>0, <2>4, <2>8, <3>1, FreeFound, SetAdds
    <3>3. \A i \in 1 .. Done' : IsOn(wanted[i])'
      BY <1>f, <2>1, <2>2, <2>3, <3>1, <3>2 DEF InProgress, IsOn
    <3> QED
      BY <1>f, <2>1, <2>2, <2>3, <3>1, <3>2 DEF InProgress, AnswerInv, IsOn
  <2> QED
    BY <2>6, <2>7, <2>8
<1>3. CASE TurnOff
  <2> DEFINE h == Head(rest)
             k == findCANfilter(h)
  <2>1. /\ phase = "set" /\ phase' = "set" /\ rest # <<>> /\ rest' = Tail(rest)
        /\ ~enable /\ UNCHANGED <<enable, wanted, answer>>
    BY <1>0, <1>3 DEF TurnOff
  <2>2. InProgress /\ answer = "none"
    BY <2>1 DEF AnswerInv, InProgress
  <2>3. /\ Done \in Nat /\ Done' = Done + 1 /\ Done + 1 \in 1 .. Len(wanted)
        /\ h = wanted[Done + 1]
        /\ \A j \in 1 .. Len(rest') : rest'[j] = wanted'[Done' + j]
    BY <1>0, <2>1, <2>2, OneDone DEF InProgress
  <2>4. h \in Filters /\ ValidFilter(h)
    BY <1>0, <2>1, Head1
  <2>5. FiltersOn' = FiltersOn \ {Reduced(h)}
    <3>1. CASE k = 0
      <4>1. UNCHANGED obj /\ ~IsOn(h)
        BY <1>3, <2>4, <3>1, FoundIsOn DEF TurnOff
      <4>2. FiltersOn' = FiltersOn
        BY <4>1 DEF FiltersOn, Objects
      <4> QED
        BY <4>1, <4>2 DEF IsOn
    <3>2. CASE k # 0
      <4>1. k \in Objects /\ Same(k, Reduced(h)) /\ unsetCANfilter(k)
        BY <1>3, <3>2, FoundSame DEF TurnOff
      <4> QED
        BY <1>0, <2>4, <4>1, UnsetRemoves
    <3> QED
      BY <3>1, <3>2
  <2>6. \A i \in 1 .. Done' : Reduced(wanted[i]) \notin FiltersOn'
    BY <2>1, <2>2, <2>3, <2>5 DEF InProgress, IsOn
  <2> QED
    BY <1>f, <2>1, <2>2, <2>3, <2>6 DEF InProgress, AnswerInv
<1>4. CASE ListDone
  <2>1. /\ phase = "set" /\ phase' = "idle" /\ rest = <<>> /\ UNCHANGED <<obj, enable, wanted>>
        /\ answer' = IF answer = "none" THEN "OK" ELSE answer
    BY <1>4 DEF ListDone, Answered
  <2>2. InProgress /\ Done = Len(wanted)
    <3>1. Len(rest) = 0 /\ Len(wanted) \in Nat
      BY <1>0, <2>1 DEF ListOK
    <3> QED
      BY <2>1, <3>1 DEF AnswerInv, Done
  <2>3. FiltersOn' = FiltersOn
    BY <2>1 DEF FiltersOn, Objects
  <2>4. \A f : IsOn(f)' <=> IsOn(f)
    BY <1>f, <2>3 DEF IsOn
  <2>5. Told'
    BY <2>1, <2>2, <2>4 DEF Told, InProgress
  <2> QED
    BY <2>1, <2>5 DEF AnswerInv
<1>5. ASSUME GetFilters \/ ResetDefaultPrefs \/ \E on \in BOOLEAN : SwitchFilters(on)
      PROVE  AnswerInv'
  <2>1. phase' = "idle" /\ wanted' = <<>>
    BY <1>5 DEF GetFilters, ResetDefaultPrefs, SwitchFilters
  <2> QED
    BY <2>1 DEF AnswerInv
<1>6. ASSUME NEW frame \in OnBus, ReceiveFrame(frame) PROVE AnswerInv'
  <2>1. /\ FiltersOn' = FiltersOn
        /\ \A i \in Objects : obj'[i].valid = obj[i].valid
    BY <1>0, <1>6, ReceiveKeeps
  <2>2. FreeObject' = FreeObject
    BY <2>1 DEF FreeObject, Objects
  <2>3. UNCHANGED <<phase, enable, rest, answer, wanted>>
    BY <1>6 DEF ReceiveFrame
  <2> QED
    BY <2>1, <2>2, <2>3, KeepsAnswer
<1>7. CASE UNCHANGED filterVars
  <2>1. FiltersOn' = FiltersOn /\ FreeObject' = FreeObject
    BY <1>7 DEF filterVars, FiltersOn, FreeObject, Objects
  <2>2. UNCHANGED <<phase, enable, rest, answer, wanted>>
    BY <1>7 DEF filterVars
  <2> QED
    BY <2>1, <2>2, KeepsAnswer
<1> QED
  BY <1>1, <1>2, <1>3, <1>4, <1>5, <1>6, <1>7 DEF FilterNext, Command

(***************************************************************************)
(* Whatever frames come in meanwhile, the first answer to a list says what *)
(* became of it: OK that every filter is as asked, UNABLE_TO_PROCESS that  *)
(* one is not on, INVALID_DATA that one is not a filter (set_CAN_filters). *)
(***************************************************************************)
THEOREM FirstAnswerIsTrue == FilterSpec => []FirstAnswerTells
<1>1. FilterInv /\ AnswerInv => FirstAnswerTells
  BY ToldIs
<1> QED
  BY <1>1, InitIInv, StepIInv, InitAnswer, StepAnswer, PTL DEF FilterSpec

(***************************************************************************)
(* The receive queue.                                                      *)
(***************************************************************************)
USE QueueSizeAssumption, BoundAssumption

-------------------------------------------------------------------------------
(* The ring increment stays in the ring. *)
LEMMA NextSlotType == \A i \in Slots : NextSlot(i) \in Slots /\ NextSlot(i) # i
  BY DEF Slots, NextSlot

(* An interval from a slot to itself is empty. *)
LEMMA BetweenEmpty == \A h \in Slots : Between(h, h) = {}
  BY DEF Slots, Between

(* Advancing the head of a ring that is not full adds the old head, as the *)
(* newest slot. *)
LEMMA BetweenGrow ==
  ASSUME NEW t \in Slots, NEW h \in Slots, NextSlot(h) # t
  PROVE  /\ Between(t, NextSlot(h)) = Between(t, h) \union {h}
         /\ h \notin Between(t, h)
         /\ \A i \in Between(t, h) : Rank(t, i) < Rank(t, h)
<1>1. \A i \in Slots : i \in Between(t, NextSlot(h)) <=> i \in Between(t, h) \/ i = h
  BY DEF Slots, Between, NextSlot
<1>2. Between(t, NextSlot(h)) = Between(t, h) \union {h}
  BY <1>1 DEF Between
<1>3. h \notin Between(t, h)
  BY DEF Slots, Between
<1>4. \A i \in Between(t, h) : Rank(t, i) < Rank(t, h)
  BY DEF Slots, Between, NextSlot, Rank
<1> QED BY <1>2, <1>3, <1>4

(* Advancing the tail of a ring that is not empty removes the old tail, the *)
(* oldest slot, and keeps the order of the others. *)
LEMMA BetweenShrink ==
  ASSUME NEW t \in Slots, NEW h \in Slots, t # h
  PROVE  /\ t \in Between(t, h)
         /\ Between(NextSlot(t), h) = Between(t, h) \ {t}
         /\ \A i \in Between(t, h) : i # t => Rank(t, t) < Rank(t, i)
         /\ \A i, j \in Between(NextSlot(t), h) :
              Rank(NextSlot(t), i) < Rank(NextSlot(t), j) => Rank(t, i) < Rank(t, j)
<1>1. t \in Between(t, h)
  BY DEF Slots, Between
<1>2. \A i \in Slots : i \in Between(NextSlot(t), h) <=> i \in Between(t, h) /\ i # t
  BY DEF Slots, Between, NextSlot
<1>3. Between(NextSlot(t), h) = Between(t, h) \ {t}
  BY <1>2 DEF Between
<1>4. \A i \in Between(t, h) : i # t => Rank(t, t) < Rank(t, i)
  BY DEF Slots, Between, Rank
<1>5. \A i, j \in Between(NextSlot(t), h) :
         Rank(NextSlot(t), i) < Rank(NextSlot(t), j) => Rank(t, i) < Rank(t, j)
  BY DEF Slots, Between, Rank, NextSlot
<1> QED BY <1>1, <1>3, <1>4, <1>5

-------------------------------------------------------------------------------
(* The initial state has the types. *)
LEMMA TypeInit == Init => TypeOK
<1> SUFFICES ASSUME Init PROVE TypeOK
  OBVIOUS
<1>1. CAN_messages \in [Slots -> Messages]
  BY DEF Init, Messages, Sources
<1>2. fate \in [Stamps -> Fates]
  BY DEF Init, Fates
<1>3. todo \in HostCommands
  BY DEF Init, HostCommands
<1>4. head \in Slots /\ tail \in Slots
  BY DEF Init, Slots
<1>5. arrived \in 0 .. MaxArrivals /\ lastSent \in 0 .. MaxArrivals /\ commands \in 0 .. MaxCommands
  BY DEF Init
<1> QED BY <1>1, <1>2, <1>3, <1>4, <1>5 DEF Init, TypeOK, Sources

(* Every step of the queue keeps the types. *)
LEMMA TypeStep == TypeOK /\ [Next]_vars => TypeOK'
<1> SUFFICES ASSUME TypeOK, [Next]_vars PROVE TypeOK'
  OBVIOUS
<1> USE DEF TypeOK, queueVars, mainVars, historyVars
<1>1. ASSUME NEW s \in ISRSources, QueueFromISR(s) PROVE TypeOK'
  <2>1. arrived + 1 \in Stamps /\ arrived' \in 0 .. MaxArrivals
    BY <1>1 DEF QueueFromISR, Stamps
  <2>2. CAN_messages' \in [Slots -> Messages]
    BY <1>1, <2>1 DEF QueueFromISR, Messages, Sources, Stamps
  <2>3. fate' \in [Stamps -> Fates]
    BY <1>1, <2>1 DEF QueueFromISR, Fates
  <2>4. head' \in Slots
    BY <1>1, NextSlotType DEF QueueFromISR
  <2> QED BY <1>1, <2>1, <2>2, <2>3, <2>4 DEF QueueFromISR
<1>2. ASSUME NEW cmd \in HostCommands, HostCommand(cmd) PROVE TypeOK'
  BY <1>2 DEF HostCommand
<1>3. ASSUME NEW step \in {"reset", "clear"}, ClearCANRxQueue(step) PROVE TypeOK'
  <2>1. todo' \in HostCommands
    BY <1>3 DEF ClearCANRxQueue, HostCommands
  <2>2. fate' \in [Stamps -> Fates]
    BY <1>3 DEF ClearCANRxQueue, ClearedFate, Fates
  <2> QED BY <1>3, <2>1, <2>2 DEF ClearCANRxQueue
<1>4. CASE InitializeHead
  <2>1. fate' \in [Stamps -> Fates]
    BY <1>4 DEF InitializeHead, ClearedFate, Fates
  <2> QED BY <1>4, <2>1 DEF InitializeHead, Slots
<1>5. CASE InitializeTail
  <2>1. todo' \in HostCommands
    BY <1>5 DEF InitializeTail, HostCommands
  <2> QED BY <1>5, <2>1 DEF InitializeTail, Slots
<1>6. CASE RearmOverflow
  <2>1. todo' \in HostCommands
    BY <1>6 DEF RearmOverflow, HostCommands
  <2> QED BY <1>6, <2>1 DEF RearmOverflow
<1>7. CASE CommandsDone
  BY <1>7 DEF CommandsDone
<1>8. CASE CheckReceived
  BY <1>8 DEF CheckReceived, Messages
<1>9. CASE DropBadSource
  BY <1>9 DEF DropBadSource
<1>10. CASE ForwardToHost
  <2>1. fate' \in [Stamps -> Fates]
    BY <1>10 DEF ForwardToHost, Fates
  <2> QED BY <1>10, <2>1 DEF ForwardToHost, ForwardedStamp, Messages
<1>11. CASE HostQueueFull
  BY <1>11 DEF HostQueueFull
<1>12. CASE AdvanceTail
  BY <1>12, NextSlotType DEF AdvanceTail
<1>13. CASE UNCHANGED vars
  BY <1>13 DEF vars
<1> QED
  BY <1>1, <1>2, <1>3, <1>4, <1>5, <1>6, <1>7, <1>8, <1>9, <1>10, <1>11, <1>12, <1>13
  DEF Next, ISR, Clearing, MainLoop

(* Type correctness: the queue's indices stay in the ring and the command   *)
(* in progress is one the host can send, for every ring size.               *)
THEOREM TypeCorrect == Spec => []TypeOK
  BY TypeInit, TypeStep, PTL DEF Spec

-------------------------------------------------------------------------------
(* What the invariants say of the ring depends only on these variables. *)
LEMMA Frame ==
  ASSUME UNCHANGED <<head, CAN_messages, historyVars>>, PendingTail' = PendingTail
  PROVE  /\ ArrivedFate => ArrivedFate'
         /\ PendingInOrder => PendingInOrder'
         /\ Conservation => Conservation'
<1>1. Pending' = Pending
  BY DEF Pending, Between
<1>2. PendingEvents' = PendingEvents
  BY <1>1 DEF PendingEvents
<1>3. ArrivedFate => ArrivedFate'
  BY DEF ArrivedFate, historyVars
<1>4. PendingInOrder => PendingInOrder'
  BY <1>1 DEF PendingInOrder, Rank, historyVars
<1>5. Conservation => Conservation'
  BY <1>1, <1>2 DEF Conservation, historyVars
<1> QED BY <1>3, <1>4, <1>5

(* Emptying the ring gives up exactly what was queued. *)
LEMMA Emptied ==
  ASSUME TypeOK, ArrivedFate, PendingInOrder,
         Pending' = {}, fate' = ClearedFate,
         UNCHANGED <<arrived, lastSent>>, dirty => dirty'
  PROVE  ArrivedFate' /\ PendingInOrder' /\ Conservation'
<1>1. \A n \in Stamps : fate'[n] # "queued" /\ (fate'[n] = "none" <=> fate[n] = "none")
  BY DEF ClearedFate
<1>2. ArrivedFate'
  BY <1>1 DEF ArrivedFate
<1>3. PendingInOrder'
  BY DEF PendingInOrder
<1>4. PendingEvents' = {} /\ {n \in Stamps : fate'[n] = "queued"} = {}
  BY <1>1 DEF PendingEvents
<1>5. Conservation'
  BY <1>4 DEF Conservation
<1> QED BY <1>2, <1>3, <1>5

(* The oldest pending slot is a slot of the ring. *)
LEMMA PendingTailType == TypeOK => PendingTail \in Slots /\ Pending \subseteq Slots
<1>1. 0 \in Slots
  BY DEF Slots
<1> QED BY <1>1, NextSlotType DEF TypeOK, PendingTail, Pending, Between

-------------------------------------------------------------------------------
(* The handler's step, with the interrupt taken anywhere in the main loop: *)
(* it adds the newest event, or loses it, and disturbs no pending slot.    *)
LEMMA ISRStep ==
  ASSUME IInv, TypeOK', NEW s \in ISRSources, QueueFromISR(s)
  PROVE  IInv'
<1> DEFINE t == PendingTail
           n == arrived + 1
<1> USE DEF IInv
<1>1. /\ t \in Slots /\ Pending \subseteq Slots /\ head \in Slots /\ tail \in Slots
      /\ n \in Stamps /\ arrived \in Nat
  BY PendingTailType DEF TypeOK, QueueFromISR, Stamps
<1>2. t' = t
  BY DEF QueueFromISR, mainVars, PendingTail
<1>3. CAN_messages' = [CAN_messages EXCEPT ![head] = [src |-> s, n |-> n]]
  BY DEF QueueFromISR
<1>4. head \notin Pending
  BY <1>1 DEF Pending, Between, Slots
<1>5. \A i \in Pending : CAN_messages'[i] = CAN_messages[i]
  BY <1>1, <1>3, <1>4 DEF TypeOK
<1>6. CAN_messages'[head] = [src |-> s, n |-> n]
  BY <1>1, <1>3 DEF TypeOK
<1>7. ~dirty => \A i \in Pending : CAN_messages[i].n \in Stamps /\ CAN_messages[i].n <= arrived
  BY <1>1 DEF Conservation, PendingEvents, ArrivedFate, Stamps
<1>8. ArrivedFate'
  <2>1. fate' \in [Stamps -> Fates] /\ arrived' = arrived + 1
    BY DEF QueueFromISR, TypeOK
  <2>2. fate'[n] # "none" /\ \A m \in Stamps : m # n => fate'[m] = fate[m]
    BY <1>1 DEF QueueFromISR, TypeOK
  <2> QED BY <1>1, <2>1, <2>2 DEF ArrivedFate, Stamps
<1>9. NoLostWakeup'
  BY DEF NoLostWakeup, QueueFromISR
<1>10. CASE RingFull
  <2>1. head' = head /\ dirty' = dirty /\ lastSent' = lastSent /\ arrived' = n
    BY <1>10 DEF QueueFromISR
  <2>2. Pending' = Pending
    BY <1>2, <2>1 DEF Pending, Between
  <2>3. FlagExact'
    BY <1>1, <1>10, <2>1, NextSlotType DEF FlagExact, QueueFromISR, RingFull, mainVars
  <2>4. MainLoopPlace'
    <3>1. pc' = pc /\ tail' = tail /\ curSrc' = curSrc /\ CAN_received'
      BY DEF QueueFromISR, mainVars
    <3>2. head # tail => CAN_messages'[tail] = CAN_messages[tail]
      BY <1>1, <1>3 DEF TypeOK
    <3> QED BY <2>1, <3>1, <3>2 DEF MainLoopPlace, FlagExact
  <2>5. PendingInOrder'
    BY <1>1, <1>2, <1>5, <2>1, <2>2 DEF PendingInOrder, Rank, TypeOK
  <2>6. Conservation'
    <3>1. PendingEvents' = PendingEvents
      BY <1>5, <2>2 DEF PendingEvents
    <3>2. {m \in Stamps : fate'[m] = "queued"} = {m \in Stamps : fate[m] = "queued"}
      <4>1. fate[n] = "none"
        BY <1>1 DEF ArrivedFate
      <4>2. fate'[n] = "lost" /\ \A m \in Stamps : m # n => fate'[m] = fate[m]
        BY <1>1, <1>10 DEF QueueFromISR, TypeOK
      <4> QED BY <4>1, <4>2
    <3> QED BY <1>5, <2>1, <2>2, <3>1, <3>2 DEF Conservation
  <2> QED BY <1>8, <1>9, <2>3, <2>4, <2>5, <2>6
<1>11. CASE ~RingFull
  <2>1. head' = NextSlot(head) /\ dirty' = dirty /\ lastSent' = lastSent /\ arrived' = n
    BY <1>11 DEF QueueFromISR
  <2>2. pc' = pc /\ tail' = tail /\ curSrc' = curSrc
    BY DEF QueueFromISR, mainVars
  <2>3. FlagExact'
    BY <1>11, <2>1, <2>2 DEF FlagExact, QueueFromISR, RingFull
  <2>4. MainLoopPlace'
    <3>1. head # tail => CAN_messages'[tail] = CAN_messages[tail]
      BY <1>1, <1>3 DEF TypeOK
    <3>2. pc = "init" => (tail = 0 \/ head' < tail)
      BY <1>1, <1>11, <2>1 DEF MainLoopPlace, RingFull, NextSlot, Slots
    <3>3. NextSlot(head) # tail /\ CAN_received'
      BY <1>11 DEF RingFull, QueueFromISR
    <3> QED BY <2>1, <2>2, <3>1, <3>2, <3>3 DEF MainLoopPlace, FlagExact
  <2>5. ASSUME ~dirty PROVE NextSlot(head) # t
    <3>1. CASE pc = "init"
      BY <1>1, <1>11, <3>1 DEF MainLoopPlace, RingFull, NextSlot, Slots, PendingTail
    <3>2. CASE pc = "advance"
      BY <1>1, <2>5, <3>2 DEF MainLoopPlace, FlagExact, NextSlot, Slots, PendingTail
    <3>3. CASE pc \notin {"init", "advance"}
      BY <1>11, <3>3 DEF RingFull, PendingTail
    <3> QED BY <3>1, <3>2, <3>3
  <2>6. ASSUME ~dirty
        PROVE  Pending' = Pending \union {head} /\ \A i \in Pending : Rank(t, i) < Rank(t, head)
    <3>1. /\ Between(t, NextSlot(head)) = Between(t, head) \union {head}
          /\ \A i \in Between(t, head) : Rank(t, i) < Rank(t, head)
      BY <1>1, <2>5, <2>6, BetweenGrow
    <3>2. Pending' = Between(t, NextSlot(head))
      BY <1>2, <2>1 DEF Pending, Between
    <3> QED BY <3>1, <3>2 DEF Pending
  <2>7. PendingInOrder'
    <3> SUFFICES ASSUME ~dirty PROVE PendingInOrder'
      BY <2>1 DEF PendingInOrder
    <3>1. lastSent \in Nat /\ lastSent <= arrived
      BY DEF PendingInOrder, TypeOK
    <3>2. ASSUME NEW i \in Pending'
          PROVE  CAN_messages'[i].n > lastSent /\ CAN_messages'[i].src \in ISRSources
      <4>1. CASE i = head
        BY <1>1, <1>6, <3>1, <4>1
      <4>2. CASE i # head
        BY <1>5, <2>6, <4>2 DEF PendingInOrder
      <4> QED BY <4>1, <4>2
    <3>3. ASSUME NEW i \in Pending', NEW j \in Pending', Rank(t, i) < Rank(t, j)
          PROVE  CAN_messages'[i].n < CAN_messages'[j].n
      <4>1. CASE i = head
        <5>1. j = head \/ Rank(t, j) < Rank(t, head)
          BY <2>6
        <5>2. j \in Slots
          BY <1>1, <2>6
        <5>3. Rank(t, head) \in Int /\ Rank(t, j) \in Int
          BY <1>1, <5>2 DEF Rank, Slots
        <5> QED BY <3>3, <4>1, <5>1, <5>3
      <4>2. CASE i # head /\ j = head
        BY <1>1, <1>5, <1>6, <1>7, <2>6, <4>2 DEF Stamps
      <4>3. CASE i # head /\ j # head
        BY <1>5, <2>6, <3>3, <4>3 DEF PendingInOrder
      <4> QED BY <4>1, <4>2, <4>3
    <3> QED BY <1>1, <1>2, <2>1, <3>1, <3>2, <3>3 DEF PendingInOrder, Rank
  <2>8. Conservation'
    <3> SUFFICES ASSUME ~dirty PROVE Conservation'
      BY <2>1 DEF Conservation
    <3>1. PendingEvents' = PendingEvents \union {n}
      BY <1>4, <1>5, <1>6, <2>6 DEF PendingEvents
    <3>2. {m \in Stamps : fate'[m] = "queued"} = {m \in Stamps : fate[m] = "queued"} \union {n}
      BY <1>1, <1>11 DEF QueueFromISR, TypeOK
    <3>3. ASSUME NEW i \in Pending', NEW j \in Pending', CAN_messages'[i].n = CAN_messages'[j].n
          PROVE  i = j
      <4>1. \A k \in Pending : CAN_messages'[k].n # n
        BY <1>1, <1>5, <1>7
      <4> QED BY <1>5, <1>6, <2>6, <3>3, <4>1 DEF Conservation
    <3> QED BY <3>1, <3>2, <3>3 DEF Conservation
  <2> QED BY <1>8, <1>9, <2>3, <2>4, <2>7, <2>8
<1> QED BY <1>10, <1>11

(* The main loop's steps that leave the ring and the history alone. *)
LEMMA QuietStep ==
  ASSUME IInv, UNCHANGED <<queueVars, historyVars>>,
         pc \notin {"init", "advance"}, pc' \notin {"init", "advance"},
         pc' \in {"build"} => CAN_received' /\ curSrc' = CAN_messages'[tail'].src
  PROVE  NoLostWakeup' /\ ArrivedFate' /\ FlagExact' /\ MainLoopPlace'
         /\ PendingInOrder' /\ Conservation'
<1> USE DEF queueVars, historyVars
<1>1. PendingTail' = PendingTail
  BY DEF PendingTail
<1>2. ArrivedFate' /\ PendingInOrder' /\ Conservation'
  BY <1>1, Frame DEF IInv
<1>3. NoLostWakeup' /\ FlagExact'
  BY DEF IInv, NoLostWakeup, FlagExact
<1>4. MainLoopPlace'
  BY DEF IInv, MainLoopPlace, FlagExact
<1> QED BY <1>2, <1>3, <1>4

(* The code that empties the ring: ClearCANRxQueue and the two stores of    *)
(* InitializeCANstructs. *)
LEMMA ClearStep ==
  ASSUME IInv, NEW step \in {"reset", "clear"}, ClearCANRxQueue(step)
  PROVE  NoLostWakeup' /\ ArrivedFate' /\ FlagExact' /\ MainLoopPlace'
         /\ PendingInOrder' /\ Conservation'
<1>1. Pending' = {}
  BY BetweenEmpty DEF IInv, TypeOK, ClearCANRxQueue, Pending, PendingTail
<1>2. ArrivedFate' /\ PendingInOrder' /\ Conservation'
  BY <1>1, Emptied DEF IInv, ClearCANRxQueue
<1>3. NoLostWakeup' /\ FlagExact' /\ MainLoopPlace'
  BY DEF ClearCANRxQueue, NoLostWakeup, FlagExact, MainLoopPlace, IInv, TypeOK
<1> QED BY <1>2, <1>3

(* InitializeCANstructs, first store: everything queued is given up.       *)
LEMMA InitializeHeadStep ==
  ASSUME IInv, InitializeHead
  PROVE  NoLostWakeup' /\ ArrivedFate' /\ FlagExact' /\ MainLoopPlace'
         /\ PendingInOrder' /\ Conservation'
<1>1. 0 \in Slots
  BY DEF Slots
<1>2. Pending' = {}
  BY <1>1, BetweenEmpty DEF InitializeHead, Pending, PendingTail
<1>3. ArrivedFate' /\ PendingInOrder' /\ Conservation'
  BY <1>2, Emptied DEF IInv, InitializeHead
<1>4. NoLostWakeup' /\ FlagExact' /\ MainLoopPlace'
  BY DEF InitializeHead, NoLostWakeup, FlagExact, MainLoopPlace, IInv, TypeOK, Slots
<1> QED BY <1>3, <1>4

(* InitializeCANstructs, second store: the ring starts at slot 0.          *)
LEMMA InitializeTailStep ==
  ASSUME IInv, InitializeTail
  PROVE  NoLostWakeup' /\ ArrivedFate' /\ FlagExact' /\ MainLoopPlace'
         /\ PendingInOrder' /\ Conservation'
<1> USE DEF IInv
<1>1. PendingTail' = PendingTail
  BY DEF InitializeTail, PendingTail
<1>2. Pending' = Pending /\ PendingEvents' = PendingEvents
  BY <1>1 DEF InitializeTail, Pending, PendingEvents, Between
<1>3. ArrivedFate'
  BY DEF InitializeTail, ArrivedFate
<1>4. PendingInOrder' /\ Conservation'
  BY <1>1, <1>2 DEF InitializeTail, PendingInOrder, Conservation, Rank
<1>5. NoLostWakeup' /\ FlagExact' /\ MainLoopPlace'
  BY DEF InitializeTail, NoLostWakeup, FlagExact, MainLoopPlace
<1> QED BY <1>3, <1>4, <1>5

(* Handing the oldest event to the host: it is a queued event, newer than   *)
(* all that went before; the slot is done with though tail is not advanced. *)
LEMMA OldestPending ==
  ASSUME IInv, ~dirty, pc = "build"
  PROVE  /\ tail \in Pending /\ curSrc \in ISRSources
         /\ ForwardedStamp \in Stamps /\ fate[ForwardedStamp] = "queued"
         /\ ForwardedStamp > lastSent /\ ForwardedStamp <= arrived
         /\ Between(NextSlot(tail), head) = Pending \ {tail}
         /\ \A i \in Pending \ {tail} : CAN_messages[i].n > ForwardedStamp
         /\ \A i, j \in Pending \ {tail} :
              Rank(NextSlot(tail), i) < Rank(NextSlot(tail), j) => Rank(tail, i) < Rank(tail, j)
<1> USE DEF IInv
<1>1. PendingTail = tail /\ Pending = Between(tail, head)
  BY DEF PendingTail, Pending
<1>2. tail \in Slots /\ head \in Slots /\ head # tail /\ tail # head
  BY DEF TypeOK, MainLoopPlace, FlagExact
<1>3. tail \in Pending
  BY <1>1, <1>2, BetweenShrink
<1>4. curSrc \in ISRSources
  BY <1>3 DEF MainLoopPlace, PendingInOrder
<1>5. ForwardedStamp \in Stamps /\ fate[ForwardedStamp] = "queued"
  BY <1>3 DEF Conservation, PendingEvents, ForwardedStamp
<1>6. ForwardedStamp > lastSent /\ ForwardedStamp <= arrived
  BY <1>3, <1>5 DEF PendingInOrder, ArrivedFate, ForwardedStamp, TypeOK, Stamps
<1>7. Between(NextSlot(tail), head) = Pending \ {tail}
  BY <1>1, <1>2, BetweenShrink
<1>8. \A i \in Pending \ {tail} : CAN_messages[i].n > ForwardedStamp
  <2>1. \A i \in Pending \ {tail} : Rank(tail, tail) < Rank(tail, i)
    BY <1>1, <1>2, BetweenShrink
  <2>2. \A i \in Pending \ {tail} : CAN_messages[tail].n < CAN_messages[i].n
    BY <1>1, <1>3, <2>1 DEF PendingInOrder
  <2>3. Pending \subseteq Slots
    BY <1>1 DEF Between
  <2>4. \A i \in Slots : CAN_messages[i].n \in Int
    BY DEF TypeOK, Messages
  <2> QED BY <1>2, <2>2, <2>3, <2>4 DEF ForwardedStamp
<1>9. \A i, j \in Pending \ {tail} :
        Rank(NextSlot(tail), i) < Rank(NextSlot(tail), j) => Rank(tail, i) < Rank(tail, j)
  BY <1>1, <1>2, <1>7, BetweenShrink
<1> QED BY <1>3, <1>4, <1>5, <1>6, <1>7, <1>8, <1>9

(* Forwarding hands over the oldest event and no other.                    *)
LEMMA ForwardStep ==
  ASSUME IInv, ForwardToHost
  PROVE  NoLostWakeup' /\ ArrivedFate' /\ FlagExact' /\ MainLoopPlace'
         /\ PendingInOrder' /\ Conservation'
<1>1. UNCHANGED <<queueVars, arrived, dirty>> /\ pc = "build" /\ pc' = "advance"
      /\ lastSent' = ForwardedStamp
  BY DEF ForwardToHost
<1>2. NoLostWakeup' /\ FlagExact' /\ MainLoopPlace'
  BY <1>1 DEF IInv, NoLostWakeup, FlagExact, MainLoopPlace, queueVars
<1>3. ArrivedFate'
  BY <1>1 DEF IInv, ArrivedFate, ForwardToHost
<1>4. PendingTail = tail /\ PendingTail' = NextSlot(tail)
  BY <1>1 DEF PendingTail, queueVars, NextSlot
<1>5. ASSUME ~dirty PROVE Pending' = Pending \ {tail}
  BY <1>1, <1>4, <1>5, OldestPending DEF Pending, Between, queueVars
<1>6. PendingInOrder'
  <2> SUFFICES ASSUME ~dirty PROVE PendingInOrder'
    BY <1>1 DEF PendingInOrder
  <2>1. lastSent' <= arrived'
    BY <1>1, OldestPending
  <2>2. \A i \in Pending' : CAN_messages'[i].n > lastSent' /\ CAN_messages'[i].src \in ISRSources
    BY <1>1, <1>5, OldestPending DEF IInv, PendingInOrder, queueVars
  <2>3. \A i, j \in Pending' : Rank(NextSlot(tail), i) < Rank(NextSlot(tail), j)
                                 => CAN_messages'[i].n < CAN_messages'[j].n
    BY <1>1, <1>4, <1>5, OldestPending DEF IInv, PendingInOrder, queueVars
  <2> QED BY <1>4, <2>1, <2>2, <2>3 DEF PendingInOrder, Rank
<1>7. Conservation'
  <2> SUFFICES ASSUME ~dirty PROVE Conservation'
    BY <1>1 DEF Conservation
  <2>1. {n \in Stamps : fate'[n] = "queued"} = {n \in Stamps : fate[n] = "queued"} \ {ForwardedStamp}
    BY <1>1, OldestPending DEF ForwardToHost
  <2>2. PendingEvents' = PendingEvents \ {ForwardedStamp}
    BY <1>1, <1>5, OldestPending DEF IInv, Conservation, PendingEvents, queueVars, ForwardedStamp
  <2> QED BY <1>1, <1>5, <2>1, <2>2 DEF IInv, Conservation, queueVars
<1> QED BY <1>2, <1>3, <1>6, <1>7

(* A bad source is never met while the ring was not emptied with the flag   *)
(* up: the slot the main loop reads holds an event of the handler.          *)
LEMMA DropStep ==
  ASSUME IInv, DropBadSource
  PROVE  NoLostWakeup' /\ ArrivedFate' /\ FlagExact' /\ MainLoopPlace'
         /\ PendingInOrder' /\ Conservation'
<1>1. dirty
  BY OldestPending DEF DropBadSource
<1> QED BY <1>1 DEF DropBadSource, IInv, NoLostWakeup, ArrivedFate, FlagExact, MainLoopPlace,
           PendingInOrder, Conservation, queueVars, historyVars

(* The advance of tail: the flag is lowered exactly when the ring is empty. *)
LEMMA AdvanceStep ==
  ASSUME IInv, AdvanceTail
  PROVE  NoLostWakeup' /\ ArrivedFate' /\ FlagExact' /\ MainLoopPlace'
         /\ PendingInOrder' /\ Conservation'
<1>1. PendingTail' = PendingTail
  BY DEF AdvanceTail, PendingTail
<1>2. ArrivedFate' /\ PendingInOrder' /\ Conservation'
  BY <1>1, Frame DEF IInv, AdvanceTail, historyVars
<1>3. NoLostWakeup'
  BY DEF AdvanceTail, IInv, NoLostWakeup, MainLoopPlace, FlagExact
<1>4. FlagExact' /\ MainLoopPlace'
  BY DEF AdvanceTail, IInv, FlagExact, MainLoopPlace, TypeOK, historyVars
<1> QED BY <1>2, <1>3, <1>4

(* The invariant is inductive. *)
LEMMA IInvInit == Init => IInv
<1> SUFFICES ASSUME Init PROVE IInv
  OBVIOUS
<1>1. head \in Slots /\ head = tail /\ PendingTail = tail
  BY DEF Init, Slots, PendingTail
<1>2. Pending = {} /\ PendingEvents = {}
  BY <1>1, BetweenEmpty DEF Pending, PendingEvents
<1>3. ArrivedFate
  BY DEF Init, ArrivedFate, Stamps
<1>4. PendingInOrder /\ Conservation
  BY <1>2 DEF Init, PendingInOrder, Conservation
<1>5. NoLostWakeup /\ FlagExact /\ MainLoopPlace
  BY DEF Init, NoLostWakeup, FlagExact, MainLoopPlace
<1> QED BY <1>3, <1>4, <1>5, TypeInit DEF IInv

(* Every step of the queue keeps the invariant.                            *)
LEMMA IInvStep == IInv /\ [Next]_vars => IInv'
<1> SUFFICES ASSUME IInv, [Next]_vars PROVE IInv'
  OBVIOUS
<1>1. TypeOK'
  BY TypeStep DEF IInv
<1>2. ASSUME NEW s \in ISRSources, QueueFromISR(s) PROVE IInv'
  BY <1>1, <1>2, ISRStep
<1>3. ASSUME NEW step \in {"reset", "clear"}, ClearCANRxQueue(step) PROVE IInv'
  BY <1>1, <1>3, ClearStep DEF IInv
<1>4. CASE InitializeHead
  BY <1>1, <1>4, InitializeHeadStep DEF IInv
<1>5. CASE InitializeTail
  BY <1>1, <1>5, InitializeTailStep DEF IInv
<1>6. CASE RearmOverflow
  <2>1. PendingTail' = PendingTail
    BY <1>6 DEF RearmOverflow, PendingTail
  <2>2. ArrivedFate' /\ PendingInOrder' /\ Conservation'
    BY <1>6, <2>1, Frame DEF IInv, RearmOverflow
  <2>3. NoLostWakeup' /\ FlagExact' /\ MainLoopPlace'
    BY <1>6 DEF IInv, RearmOverflow, NoLostWakeup, FlagExact, MainLoopPlace, historyVars
  <2> QED BY <1>1, <2>2, <2>3 DEF IInv
<1>7. ASSUME NEW cmd \in HostCommands, HostCommand(cmd) PROVE IInv'
  <2>1. UNCHANGED <<queueVars, historyVars>> /\ pc = "cmd" /\ pc' = "cmd"
    BY <1>7 DEF HostCommand
  <2> QED BY <1>1, <2>1, QuietStep DEF IInv
<1>8. CASE CommandsDone
  <2>1. UNCHANGED <<queueVars, historyVars>> /\ pc = "cmd" /\ pc' = "rx"
    BY <1>8 DEF CommandsDone
  <2> QED BY <1>1, <2>1, QuietStep DEF IInv
<1>9. CASE CheckReceived
  <2>1. UNCHANGED <<queueVars, historyVars>> /\ pc = "rx" /\ pc' \in {"build", "cmd"}
    BY <1>9 DEF CheckReceived
  <2>2. pc' = "build" => CAN_received' /\ curSrc' = CAN_messages'[tail'].src
    BY <1>9 DEF CheckReceived, queueVars
  <2> QED BY <1>1, <2>1, <2>2, QuietStep DEF IInv
<1>10. CASE DropBadSource
  BY <1>1, <1>10, DropStep DEF IInv
<1>11. CASE ForwardToHost
  BY <1>1, <1>11, ForwardStep DEF IInv
<1>12. CASE HostQueueFull
  <2>1. UNCHANGED <<queueVars, historyVars>> /\ pc = "build" /\ pc' = "cmd"
    BY <1>12 DEF HostQueueFull
  <2> QED BY <1>1, <2>1, QuietStep DEF IInv
<1>13. CASE AdvanceTail
  BY <1>1, <1>13, AdvanceStep DEF IInv
<1>14. CASE UNCHANGED vars
  <2>1. PendingTail' = PendingTail
    BY <1>14 DEF vars, mainVars, queueVars, PendingTail
  <2>2. ArrivedFate' /\ PendingInOrder' /\ Conservation'
    BY <1>14, <2>1, Frame DEF IInv, vars, queueVars
  <2>3. NoLostWakeup' /\ FlagExact' /\ MainLoopPlace'
    BY <1>14 DEF IInv, vars, queueVars, mainVars, historyVars,
                 NoLostWakeup, FlagExact, MainLoopPlace
  <2> QED BY <1>1, <2>2, <2>3 DEF IInv
<1> QED
  BY <1>2, <1>3, <1>4, <1>5, <1>6, <1>7, <1>8, <1>9, <1>10, <1>11, <1>12, <1>13, <1>14
  DEF Next, ISR, Clearing, MainLoop

(* The invariant holds of every behaviour.                                 *)
LEMMA InductiveInvariant == Spec => []IInv
  BY IInvInit, IInvStep, PTL DEF Spec

-------------------------------------------------------------------------------
(* An event in the ring always has the flag up that the main loop polls:    *)
(* the interrupt handler and the advance of ProcessCANRecievePacket cannot  *)
(* be ordered so that an event is left unseen.                              *)
THEOREM WakeupNeverLost == Spec => []NoLostWakeup
<1>1. IInv => NoLostWakeup
  BY DEF IInv
<1> QED BY <1>1, InductiveInvariant, PTL

(* Until the ring is emptied with the flag up, no queued event is lost or   *)
(* duplicated inside the ring.                                              *)
THEOREM EventsConserved == Spec => []Conservation
<1>1. IInv => Conservation
  BY DEF IInv
<1> QED BY <1>1, InductiveInvariant, PTL

(* Under the same condition ProcessCANRecievePacket hands each event to the *)
(* host once, in the order of arrival.                                      *)
THEOREM EventsForwardedInOrder == Spec => ForwardsInOrder
<1>1. IInv /\ [Next]_vars =>
        [ForwardToHost /\ ~dirty =>
           /\ ForwardedStamp \in Stamps /\ fate[ForwardedStamp] = "queued"
           /\ ForwardedStamp > lastSent]_vars
  BY OldestPending DEF ForwardToHost
<1> QED BY <1>1, InductiveInvariant, PTL DEF Spec, ForwardsInOrder

(* Under the same condition the handler never writes the slot the main loop *)
(* is reading in place.                                                     *)
THEOREM SlotsNeverTorn == Spec => NoTornRead
<1>1. ASSUME IInv, [Next]_vars, pc = "build", ~dirty
      PROVE  CAN_messages'[tail] = CAN_messages[tail]
  <2>1. head # tail /\ head \in Slots /\ tail \in Slots
    BY <1>1 DEF IInv, MainLoopPlace, FlagExact, TypeOK
  <2>2. ASSUME NEW s \in ISRSources, QueueFromISR(s)
        PROVE  CAN_messages'[tail] = CAN_messages[tail]
    BY <1>1, <2>1, <2>2 DEF QueueFromISR, IInv, TypeOK
  <2>3. ASSUME ~ISR PROVE CAN_messages' = CAN_messages
    BY <1>1, <2>3 DEF Next, MainLoop, Clearing, HostCommand, ClearCANRxQueue, InitializeHead,
       InitializeTail, RearmOverflow, CommandsDone, CheckReceived, DropBadSource,
       ForwardToHost, HostQueueFull, AdvanceTail, vars, queueVars
  <2> QED BY <2>2, <2>3 DEF ISR
<1>2. IInv /\ [Next]_vars =>
        [pc = "build" /\ ~dirty => CAN_messages'[tail] = CAN_messages[tail]]_vars
  BY <1>1
<1> QED BY <1>2, InductiveInvariant, PTL DEF Spec, NoTornRead

(* The ring is sound, for every size of it and any arrivals and commands.   *)
THEOREM RingIsSound == Spec => []RingSound
<1>1. NoLostWakeup /\ Conservation => RingSound
  BY DEF RingSound
<1> QED BY <1>1, WakeupNeverLost, EventsConserved, PTL

(* The host gets each event once, in order, and whole.                      *)
THEOREM EventsForwardedWhole == Spec => ForwardsWhole
  BY EventsForwardedInOrder, SlotsNeverTorn DEF ForwardsWhole
================================================================================
