-------------------------- MODULE DeviceList_proofs --------------------------
(***************************************************************************)
(* The list of devices, its refreshes and the Details screen, for all      *)
(* devices, periods, calls and bounds; and what the picker of the period   *)
(* shows and returns, for every period.                                    *)
(***************************************************************************)
EXTENDS DeviceList, FiniteSetTheorems, SequenceTheorems, WellFoundedInduction, TLAPS

-----------------------------------------------------------------------------
(* The picker.                                                             *)

(* Every row that is selected exists. *)
LEMMA DigitsAreRows ==
    ASSUME NEW period \in Nat
    PROVE  DigitsShown(period) \in [Wheels -> Digits]
<1>1. /\ (period \div 1000) % 10 \in Digits /\ (period \div 100) % 10 \in Digits
      /\ (period \div 10) % 10 \in Digits   /\ (period \div 1) % 10 \in Digits
  BY DEF Digits
<1> QED
  BY <1>1 DEF DigitsShown, Wheels, Weight

(* One digit after the other comes off the end of a number. *)
LEMMA LastFourDigits ==
    ASSUME NEW n \in Nat
    PROVE  n % 10000 = 1000 * ((n \div 1000) % 10) + 100 * ((n \div 100) % 10)
                         + 10 * ((n \div 10) % 10) + (n % 10)
<1> DEFINE a == n \div 10
           b == n \div 100
           c == n \div 1000
           d == n \div 10000
<1>1. n = 10 * a + (n % 10) /\ n % 10 \in 0 .. 9 /\ a \in Nat
  OBVIOUS
<1>2. a = 10 * b + (a % 10) /\ a % 10 \in 0 .. 9 /\ b \in Nat
  OBVIOUS
<1>3. b = 10 * c + (b % 10) /\ b % 10 \in 0 .. 9 /\ c \in Nat
  OBVIOUS
<1>4. c = 10 * d + (c % 10) /\ c % 10 \in 0 .. 9 /\ d \in Nat
  OBVIOUS
<1>5. n = 10000 * d + (n % 10000)
  OBVIOUS
<1> QED
  BY <1>1, <1>2, <1>3, <1>4, <1>5

(* An untouched picker returns the last four digits of the period, hence   *)
(* the period itself below 10000 and another number from there on          *)
(* (DetailsViewController.swift:141 and :218).                             *)
THEOREM PickerReturnsPeriod ==
    \A period \in Nat :
        /\ SelectedInteger(DigitsShown(period)) = period % 10000
        /\ SelectedInteger(DigitsShown(period)) = period <=> period < 10000
<1> SUFFICES ASSUME NEW period \in Nat
             PROVE  /\ SelectedInteger(DigitsShown(period)) = period % 10000
                    /\ SelectedInteger(DigitsShown(period)) = period <=> period < 10000
  OBVIOUS
<1>1. SelectedInteger(DigitsShown(period)) = period % 10000
  <2>1. /\ DigitsShown(period)[1] = (period \div 1000) % 10
        /\ DigitsShown(period)[2] = (period \div 100) % 10
        /\ DigitsShown(period)[3] = (period \div 10) % 10
        /\ DigitsShown(period)[4] = (period \div 1) % 10
    BY DEF DigitsShown, Wheels, Weight
  <2>2. period \div 1 = period
    OBVIOUS
  <2> QED
    BY <2>1, <2>2, LastFourDigits DEF SelectedInteger
<1>2. period % 10000 = period <=> period < 10000
  OBVIOUS
<1> QED
  BY <1>1, <1>2

COROLLARY FourDigitsAreKept ==
    ASSUME NEW period \in Shown
    PROVE  SelectedInteger(DigitsShown(period)) = period
<1>1. period \in Nat /\ period < 10000
  BY DEF Shown
<1> QED
  BY <1>1, PickerReturnsPeriod

(* No number of the picker is taken for another one: what the user has     *)
(* selected is shown again once the device has it.                         *)
THEOREM PickerShowsSelection ==
    \A rows \in [Wheels -> Digits] :
        /\ SelectedInteger(rows) \in 0 .. 9999
        /\ DigitsShown(SelectedInteger(rows)) = rows
<1> SUFFICES ASSUME NEW rows \in [Wheels -> Digits]
             PROVE  /\ SelectedInteger(rows) \in 0 .. 9999
                    /\ DigitsShown(SelectedInteger(rows)) = rows
  OBVIOUS
<1>1. PICK a \in 0 .. 9, b \in 0 .. 9, c \in 0 .. 9, d \in 0 .. 9 :
        rows[1] = a /\ rows[2] = b /\ rows[3] = c /\ rows[4] = d
  <2>1. rows[1] \in 0 .. 9 /\ rows[2] \in 0 .. 9 /\ rows[3] \in 0 .. 9 /\ rows[4] \in 0 .. 9
    BY DEF Wheels, Digits
  <2> QED
    BY <2>1
<1>2. PICK n \in Nat : n = 1000 * a + 100 * b + 10 * c + d
  OBVIOUS
<1>3. SelectedInteger(rows) = n
  BY <1>1, <1>2 DEF SelectedInteger
<1>4. n \in 0 .. 9999
  BY <1>2
<1>5. /\ (n \div 1000) % 10 = a
      /\ (n \div 100) % 10 = b
      /\ (n \div 10) % 10 = c
      /\ (n \div 1) % 10 = d
  <2>1. n \div 1000 = a
    BY <1>2
  <2>2. n \div 100 = 10 * a + b
    BY <1>2
  <2>3. n \div 10 = 100 * a + 10 * b + c
    BY <1>2
  <2>4. n \div 1 = n
    OBVIOUS
  <2>5. /\ a % 10 = a
        /\ (10 * a + b) % 10 = b
        /\ (100 * a + 10 * b + c) % 10 = c
        /\ n % 10 = d
    BY <1>2
  <2> QED
    BY <2>1, <2>2, <2>3, <2>4, <2>5
<1>6. \A i \in Wheels : DigitsShown(n)[i] = rows[i]
  BY <1>1, <1>5 DEF DigitsShown, Wheels, Weight
<1>7. DigitsShown(n) \in [Wheels -> Digits]
  BY DigitsAreRows
<1>8. DigitsShown(n) = rows
  BY <1>6, <1>7
<1> QED
  BY <1>3, <1>4, <1>8

-----------------------------------------------------------------------------
(* No period is sent that nobody has chosen.                               *)

(* Until a wheel is turned the picker shows the period that the device had *)
(* when it was opened.                                                     *)
PickerShowsPeriod ==
    picker # Hidden /\ ~ picker.turned => picker.rows = DigitsShown(picker.opened)

ChoiceInv == DOMAIN asked = Requests /\ PickerShowsPeriod /\ PeriodIsChosen

(* An untouched picker with the period of its device sends nothing. *)
LEMMA UnaskedIsNotSent ==
    ASSUME PickerShowsPeriod, picker # Hidden,
           SelectedInteger(picker.rows) # device.period
    PROVE  ~ IsUnasked
<1> SUFFICES ASSUME IsUnasked PROVE FALSE
  OBVIOUS
<1>1. picker.opened = device.period /\ picker.opened \in Shown
  BY DEF IsUnasked
<1>2. picker.rows = DigitsShown(picker.opened)
  BY DEF IsUnasked, PickerShowsPeriod
<1>3. SelectedInteger(DigitsShown(picker.opened)) = picker.opened
  BY <1>1, FourDigitsAreKept
<1>4. SelectedInteger(picker.rows) = device.period
  BY <1>1, <1>2, <1>3
<1> QED
  BY <1>4

(* A call that is not unasked keeps the record of calls clean. *)
LEMMA CallIsChosen ==
    ASSUME ChoiceInv, NEW r \in Requests, NEW call, MakeCall(r, call),
           call.kind = "setDevicePeriod" => ~ call.unasked
    PROVE  ChoiceInv'
<1>1. PickerShowsPeriod'
  BY DEF MakeCall, PickerShowsPeriod
<1>2. CASE UNCHANGED asked
  BY <1>1, <1>2 DEF ChoiceInv, PeriodIsChosen
<1>3. CASE asked' = [asked EXCEPT ![r] = call]
  <2>1. DOMAIN asked' = Requests
    BY <1>3 DEF ChoiceInv
  <2>2. \A q \in Requests : asked'[q] = IF q = r THEN call ELSE asked[q]
    BY <1>3 DEF ChoiceInv
  <2> QED
    BY <1>1, <2>1, <2>2 DEF ChoiceInv, PeriodIsChosen
<1> QED
  BY <1>2, <1>3 DEF MakeCall

(* Every call for a period has a wheel turned, a period of five digits, or *)
(* a period that has changed behind the picker (DetailsViewController.swift:149-161). *)
THEOREM PeriodsAreChosen == Spec => []PeriodIsChosen
<1>1. Init => ChoiceInv
  BY DEF Init, ChoiceInv, PickerShowsPeriod, PeriodIsChosen, NoCall
<1>2. ChoiceInv /\ [Next]_vars => ChoiceInv'
  <2> SUFFICES ASSUME ChoiceInv, [Next]_vars
               PROVE  ChoiceInv'
    OBVIOUS
  <2>1. CASE UNCHANGED <<asked, picker>>
    BY <2>1 DEF ChoiceInv, PickerShowsPeriod, PeriodIsChosen
  <2>2. CASE UNCHANGED asked /\ picker' = Hidden
    BY <2>2 DEF ChoiceInv, PickerShowsPeriod, PeriodIsChosen
  <2>3. CASE PeriodButton
    BY <2>3 DEF PeriodButton, OnlyPicker, ChoiceInv, PickerShowsPeriod, PeriodIsChosen
  <2>4. ASSUME NEW turn \in Turns, TurnWheel(turn)
        PROVE  ChoiceInv'
    BY <2>4 DEF TurnWheel, OnlyPicker, ChoiceInv, PickerShowsPeriod, PeriodIsChosen
  <2>5. ASSUME NEW r \in Requests, ServiceDevice(r)
        PROVE  ChoiceInv'
    BY <2>5, CallIsChosen DEF ServiceDevice, ChoiceInv
  <2>6. ASSUME NEW r \in Requests, SetDevicePeriod(r)
        PROVE  ChoiceInv'
    <3>1. ~ IsUnasked
      BY <2>6, UnaskedIsNotSent DEF SetDevicePeriod, ChoiceInv
    <3> QED
      BY <2>6, <3>1, CallIsChosen DEF SetDevicePeriod, ChoiceInv
  <2>7. ASSUME NEW d \in Ids, Report(d) \/ SelectRow(d)
        PROVE  UNCHANGED <<asked, picker>>
    BY <2>7 DEF Report, SelectRow, screenVars
  <2>8. ASSUME \/ ServerAppliesWrite \/ WriteAcknowledged \/ WriteRejected
               \/ PullToRefresh \/ FreshSnapshot \/ CachedSnapshot \/ ListenRejected
        PROVE  UNCHANGED <<asked, picker>>
    BY <2>8 DEF ServerAppliesWrite, WriteAcknowledged, WriteRejected, PullToRefresh,
                FreshSnapshot, CachedSnapshot, ListenRejected, screenVars
  <2>9. ASSUME RunBlock
        PROVE  UNCHANGED <<asked, picker>>
    BY <2>9 DEF RunBlock
  <2>10. ASSUME NEW class \in FilterClasses, ToggleFilter(class)
         PROVE  UNCHANGED <<asked, picker>>
    BY <2>10 DEF ToggleFilter, screenVars
  <2>11. ASSUME GoBack \/ ClosePicker
         PROVE  UNCHANGED asked /\ picker' = Hidden
    BY <2>11 DEF GoBack, ClosePicker, OnlyPicker
  <2>12. ASSUME UNCHANGED vars
         PROVE  UNCHANGED <<asked, picker>>
    BY <2>12 DEF vars, screenVars
  <2> QED
    BY <2>1, <2>2, <2>3, <2>4, <2>5, <2>6, <2>7, <2>8, <2>9, <2>10, <2>11, <2>12 DEF Next
<1> QED
  BY <1>1, <1>2, PTL DEF Spec, ChoiceInv

-----------------------------------------------------------------------------
(* Type correctness.  An empty cache has been shown by no load, hence no   *)
(* write is made before there is a cached document to apply it to; and the *)
(* answered loads, those under way and those on the main queue are no more *)
(* than the calls of getDevices.                                           *)

Loads == {<< >>} \cup [Ids -> Device]

Kinds == {"serviceDevice", "setDevicePeriod"}

Block ==
    [do : {"snapshot"}, devices : Loads] \cup [do : {"error", "filterDevices"}]
    \cup [do : {"answer"}, request : Requests, success : BOOLEAN]
    \cup [do : {"labels"}, visit : 1 .. MaxVisits, kind : Kinds]

(* The answers to getDevices that are on the main queue *)
Replies(queue) == {i \in DOMAIN queue : queue[i].do \in {"snapshot", "error"}}

StoreInv ==
    /\ cloud \in [Ids -> Document]
    /\ cache \in {<< >>} \cup [Ids -> Document]
    /\ pipe \in Seq(Requests) /\ onServer \in 0 .. Len(pipe)
    /\ committed \in [Requests -> Nat]
    /\ \A i \in DOMAIN pipe : asked[pipe[i]] # NoCall

CallsInv ==
    /\ asked \in [Requests -> Call \cup {NoCall}]
    /\ \A r \in Requests : asked[r] # NoCall =>
          asked[r].load \in DOMAIN loaded /\ asked[r].id \in DOMAIN loaded[asked[r].load]

LoadsInv ==
    /\ loads \in Nat /\ calls \in 0 .. MaxLoads /\ refreshing \in BOOLEAN
    /\ Len(loaded) + loads + Cardinality(Replies(mainQueue)) <= calls
    /\ loaded \in Seq(Loads) /\ current \in 0 .. Len(loaded)
    /\ \A n \in DOMAIN loaded : DOMAIN loaded[n] \subseteq DOMAIN cache

QueueInv ==
    /\ mainQueue \in Seq(Block)
    /\ \A i \in DOMAIN mainQueue :
          /\ mainQueue[i].do = "snapshot" => DOMAIN mainQueue[i].devices \subseteq DOMAIN cache
          /\ mainQueue[i].do = "answer" => asked[mainQueue[i].request] # NoCall

DisplayInv ==
    /\ checked \subseteq FilterClasses
    /\ displayed \in [load : 0 .. Len(loaded), ids : SUBSET Ids]
    /\ displayed.ids \subseteq DOMAIN Objects(loaded, displayed.load)

ScreenInv ==
    /\ details # Closed =>
          /\ details \in [visit : 1 .. MaxVisits, load : DOMAIN loaded, id : Ids,
                          labels : Labels, late : BOOLEAN]
          /\ details.id \in DOMAIN loaded[details.load]
    /\ picker \in Picker \cup {Hidden} /\ (details = Closed => picker = Hidden)
    /\ visits \in 0 .. MaxVisits

FlagsInv == trap \in BOOLEAN /\ overtaken \in BOOLEAN /\ faults \in 0 .. MaxFaults

TypeInv ==
    /\ StoreInv /\ CallsInv /\ LoadsInv /\ QueueInv /\ DisplayInv /\ ScreenInv /\ FlagsInv

(* A queue that gets longer or shorter by one. *)
LEMMA AppendedElements ==
    ASSUME NEW S, NEW q \in Seq(S), NEW e \in S
    PROVE  /\ Append(q, e) \in Seq(S) /\ Len(Append(q, e)) = Len(q) + 1 /\ Len(q) \in Nat
           /\ DOMAIN q = 1 .. Len(q) /\ DOMAIN Append(q, e) = 1 .. Len(q) + 1
           /\ \A i \in 1 .. Len(q) : Append(q, e)[i] = q[i]
           /\ Append(q, e)[Len(q) + 1] = e
  OBVIOUS

LEMMA TailElements ==
    ASSUME NEW S, NEW q \in Seq(S), q # << >>
    PROVE  /\ Tail(q) \in Seq(S) /\ Head(q) \in S /\ Head(q) = q[1] /\ 1 \in DOMAIN q
           /\ DOMAIN q = 1 .. Len(q) /\ DOMAIN Tail(q) = 1 .. Len(q) - 1
           /\ Len(Tail(q)) = Len(q) - 1 /\ Len(q) \in Nat \ {0}
           /\ \A i \in 1 .. Len(q) - 1 : Tail(q)[i] = q[i + 1]
           /\ \A i \in 2 .. Len(q) : q[i] = Tail(q)[i - 1]
  OBVIOUS

LEMMA RepliesAreFinite ==
    ASSUME NEW q \in Seq(Block)
    PROVE  IsFiniteSet(Replies(q)) /\ Cardinality(Replies(q)) \in Nat
<1>1. DOMAIN q = 1 .. Len(q) /\ Len(q) \in Nat
  OBVIOUS
<1>2. IsFiniteSet(1 .. Len(q))
  BY <1>1, FS_Interval
<1>3. Replies(q) \in SUBSET (1 .. Len(q))
  BY <1>1 DEF Replies
<1> QED
  BY <1>2, <1>3, FS_Subset, FS_CardinalityType

LEMMA RepliesAppend ==
    ASSUME NEW q \in Seq(Block), NEW e \in Block
    PROVE  Cardinality(Replies(Append(q, e))) =
              Cardinality(Replies(q)) + IF e.do \in {"snapshot", "error"} THEN 1 ELSE 0
<1> DEFINE p == Append(q, e)
<1>1. /\ DOMAIN q = 1 .. Len(q) /\ Len(q) \in Nat /\ DOMAIN p = 1 .. Len(q) + 1
      /\ \A i \in 1 .. Len(q) : p[i] = q[i]
      /\ p[Len(q) + 1] = e
  BY AppendedElements
<1> HIDE DEF p
<1>2. CASE e.do \in {"snapshot", "error"}
  <2>1. Replies(p) = Replies(q) \cup {Len(q) + 1} /\ Len(q) + 1 \notin Replies(q)
    BY <1>1, <1>2 DEF Replies
  <2> QED
    BY <1>2, <2>1, RepliesAreFinite, FS_AddElement DEF p
<1>3. CASE e.do \notin {"snapshot", "error"}
  <2>1. Replies(p) = Replies(q)
    BY <1>1, <1>3 DEF Replies
  <2> QED
    BY <1>3, <2>1, RepliesAreFinite DEF p
<1> QED
  BY <1>2, <1>3

LEMMA RepliesTail ==
    ASSUME NEW q \in Seq(Block), q # << >>
    PROVE  Cardinality(Replies(Tail(q))) =
              Cardinality(Replies(q)) - IF q[1].do \in {"snapshot", "error"} THEN 1 ELSE 0
<1> DEFINE p    == Tail(q)
           rest == Replies(q) \ {1}
           f    == [i \in Replies(p) |-> i + 1]
<1>1. /\ DOMAIN q = 1 .. Len(q) /\ Len(q) \in Nat \ {0} /\ DOMAIN p = 1 .. Len(q) - 1
      /\ \A i \in 1 .. Len(q) - 1 : p[i] = q[i + 1]
      /\ p \in Seq(Block)
  BY TailElements
<1> HIDE DEF p
<1>2. \A i \in Replies(p) : i \in Nat /\ i + 1 \in rest
  BY <1>1 DEF Replies
<1>3. \A j \in rest : j \in Nat /\ j - 1 \in Replies(p) /\ (j - 1) + 1 = j
  BY <1>1 DEF Replies
<1>4. f \in [Replies(p) -> rest] /\ (\A i, j \in Replies(p) : f[i] = f[j] => i = j)
  BY <1>2
<1>5. \A j \in rest : f[j - 1] = j
  BY <1>2, <1>3
<1> HIDE DEF f, rest
<1>6. f \in Bijection(Replies(p), rest)
  BY <1>3, <1>4, <1>5 DEF Bijection, Injection, Surjection, IsInjective
<1>7. Cardinality(Replies(p)) = Cardinality(rest)
  BY <1>1, <1>6, RepliesAreFinite, FS_Bijection DEF ExistsBijection
<1>8. 1 \in Replies(q) <=> q[1].do \in {"snapshot", "error"}
  BY <1>1 DEF Replies
<1>9. Cardinality(rest) = IF 1 \in Replies(q) THEN Cardinality(Replies(q)) - 1
                          ELSE Cardinality(Replies(q))
  BY RepliesAreFinite, FS_RemoveElement DEF rest
<1> QED
  BY <1>7, <1>8, <1>9, RepliesAreFinite DEF p

(* The last place of a nonempty set of places *)
LEMMA LastPlace ==
    ASSUME NEW n \in Nat, NEW S \in SUBSET (1 .. n), S # {}
    PROVE  /\ Max(S) \in S
           /\ \A i \in S : i <= Max(S)
<1> DEFINE T == {k \in Nat : \A i \in S : i <= k}
<1>1. n \in T /\ T \subseteq Nat
  OBVIOUS
<1>2. \E k \in T : \A j \in T : ~ (<<j, k>> \in OpToRel(<, Nat))
  <2>1. IsWellFoundedOn(OpToRel(<, Nat), Nat)
    BY NatLessThanWellFounded
  <2> HIDE DEF T
  <2> QED
    BY <1>1, <2>1, WFMin
<1>3. \A j, k \in Nat : j < k => <<j, k>> \in OpToRel(<, Nat)
  BY DEF OpToRel
<1>4. \E k \in T : \A j \in T : ~ (j < k)
  <2> HIDE DEF T
  <2> QED
    BY <1>1, <1>2, <1>3
<1>5. PICK k \in T : \A j \in T : ~ (j < k)
  BY <1>4
<1>6. k \in S
  <2> SUFFICES ASSUME k \notin S PROVE FALSE
    OBVIOUS
  <2>1. \A i \in S : i < k /\ i \in Nat \ {0}
    BY <1>5
  <2>2. k \in Nat \ {0}
    <3>1. PICK i \in S : TRUE
      OBVIOUS
    <3> QED
      BY <1>5, <2>1, <3>1
  <2>3. k - 1 \in T
    BY <2>1, <2>2
  <2> QED
    BY <1>5, <2>2, <2>3
<1>7. \E x \in S : \A y \in S : x >= y
  BY <1>5, <1>6
<1>8. Max(S) \in S /\ \A y \in S : Max(S) >= y
  BY <1>7 DEF Max
<1> QED
  BY <1>8

(* The digits of an untouched picker, and the number of a selection *)
LEMMA PickedNumber ==
    ASSUME NEW rows \in [Wheels -> Digits]
    PROVE  SelectedInteger(rows) \in Nat
<1>1. rows[1] \in Nat /\ rows[2] \in Nat /\ rows[3] \in Nat /\ rows[4] \in Nat
  BY DEF Wheels, Digits
<1> QED
  BY <1>1 DEF SelectedInteger

LEMMA ChangedNumbers ==
    ASSUME NEW call \in Call, ListBounds
    PROVE  /\ \A d \in Device : Changed(d, call) \in Device
           /\ \A d \in Document : Changed(d, call) \in Document
<1>1. 0 \in 0 .. MaxHours
  BY DEF ListBounds
<1> QED
  BY <1>1 DEF Changed, Call, Device, Document

(* The rows that a filter leaves are rows of its load. *)
LEMMA FilteredRows ==
    ASSUME NEW list \in Seq(Loads), NEW load \in 0 .. Len(list), NEW buttons
    PROVE  /\ Filtered(list, load, buttons) \in [load : 0 .. Len(list), ids : SUBSET Ids]
           /\ Filtered(list, load, buttons).ids \subseteq DOMAIN Objects(list, load)
           /\ Filtered(list, load, buttons).load = load
<1>1. Objects(list, load) \in Loads
  BY DEF Objects, Loads
<1>2. DOMAIN Objects(list, load) \subseteq Ids
  BY <1>1 DEF Loads
<1> QED
  BY <1>2 DEF Filtered

(* The view of the SDK is one of objects, for the documents it has. *)
LEMMA ViewIsLoad ==
    ASSUME ListBounds, StoreInv, CallsInv, NEW documents \in {<< >>} \cup [Ids -> Document]
    PROVE  View(documents) \in Loads /\ DOMAIN View(documents) = DOMAIN documents
<1> DEFINE v == View(documents)
<1>1. DOMAIN v = DOMAIN documents
  BY DEF View
<1>2. ASSUME NEW d \in DOMAIN documents, documents \in [Ids -> Document]
      PROVE  v[d] \in Device
  <2> DEFINE periods == Pending(d, "setDevicePeriod")
  <2>1. documents[d].operationTime \in 0 .. MaxHours /\ documents[d].period \in Nat \ {0}
        /\ 0 \in 0 .. MaxHours
    BY <1>2 DEF Document, ListBounds
  <2>2. ASSUME periods # {}
        PROVE  asked[pipe[Max(periods)]].newPeriod \in Nat \ {0}
    <3>1. periods \in SUBSET (1 .. Len(pipe)) /\ Len(pipe) \in Nat
      BY DEF Pending, StoreInv
    <3> HIDE DEF periods
    <3>2. Max(periods) \in periods
      BY <2>2, <3>1, LastPlace
    <3>3. /\ pipe[Max(periods)] \in Requests
          /\ asked[pipe[Max(periods)]].kind = "setDevicePeriod"
      BY <3>1, <3>2 DEF Pending, StoreInv, periods
    <3> QED
      BY <3>3 DEF CallsInv, Call, NoCall
  <2> HIDE DEF periods
  <2>3. v[d] = [operationTime |-> IF Pending(d, "serviceDevice") = {}
                                   THEN documents[d].operationTime ELSE 0,
                period |-> IF periods = {} THEN documents[d].period
                           ELSE asked[pipe[Max(periods)]].newPeriod]
    BY DEF View, periods
  <2> QED
    BY <2>1, <2>2, <2>3 DEF Device
<1>3. CASE documents \in [Ids -> Document]
  <2>1. v = [d \in DOMAIN documents |-> v[d]]
    BY <1>1 DEF View
  <2> HIDE DEF v
  <2>2. v \in [Ids -> Device]
    BY <1>1, <1>2, <1>3, <2>1
  <2> QED
    BY <1>1, <2>2 DEF Loads, v
<1>4. CASE documents = << >>
  <2>1. DOMAIN v = 1 .. 0
    BY <1>1, <1>4
  <2>2. v \in [1 .. 0 -> Device]
    <3>1. v = [d \in 1 .. 0 |-> v[d]]
      BY <2>1 DEF View
    <3> HIDE DEF v
    <3> QED
      BY <3>1
  <2> HIDE DEF v
  <2>3. v \in Seq(Device) /\ Len(v) = 0
    BY <2>2, SeqDef
  <2>4. v = << >>
    BY <2>3, EmptySeq
  <2> QED
    BY <1>1, <2>4 DEF Loads, v
<1> QED
  BY <1>3, <1>4

LEMMA TypeInit == Init => TypeInv
<1> SUFFICES ASSUME Init PROVE TypeInv
  OBVIOUS
<1>0. /\ MaxHours \in Nat /\ MaxVisits \in Nat /\ MaxFaults \in Nat /\ MaxLoads \in Nat \ {0}
      /\ Periods \subseteq Nat \ {0}
  BY ListBounds DEF ListBounds
<1>1. cloud \in [Ids -> Document]
  <2>1. ASSUME NEW x \in [operationTime : {0, MaxHours}, period : Periods, version : {0}]
        PROVE  x \in Document
    <3>1. x.operationTime \in 0 .. MaxHours
      BY <1>0
    <3>2. x.period \in Nat \ {0}
      BY <1>0
    <3> QED
      BY <3>1, <3>2 DEF Document
  <2>2. cloud \in [Ids -> [operationTime : {0, MaxHours}, period : Periods, version : {0}]]
    BY DEF Init
  <2> QED
    BY <2>1, <2>2
<1>2. StoreInv
  BY <1>1 DEF StoreInv, Init
<1>3. CallsInv
  BY DEF CallsInv, Init
<1>4. LoadsInv
  <2>1. Replies(mainQueue) = {}
    BY DEF Replies, Init
  <2>2. Cardinality(Replies(mainQueue)) = 0
    BY <2>1, FS_EmptySet
  <2>3. loaded \in Seq(Loads) /\ Len(loaded) = 0
    BY EmptySeq DEF Init
  <2>4. loads = 1 /\ calls = 1 /\ 1 \in 0 .. MaxLoads /\ current = 0
    BY <1>0 DEF Init
  <2>6. refreshing \in BOOLEAN
    BY DEF Init
  <2>5. \A n \in DOMAIN loaded : DOMAIN loaded[n] \subseteq DOMAIN cache
    BY DEF Init
  <2> QED
    BY <2>2, <2>3, <2>4, <2>5, <2>6 DEF LoadsInv
<1>5. QueueInv
  BY EmptySeq DEF QueueInv, Init
<1>6. DisplayInv
  BY DEF DisplayInv, Objects, Init
<1>7. ScreenInv
  <2>1. visits = 0 /\ 0 \in 0 .. MaxVisits
    BY <1>0 DEF Init
  <2> QED
    BY <2>1 DEF ScreenInv, Init
<1>8. FlagsInv
  <2>1. trap \in BOOLEAN
    BY DEF Init
  <2>2. overtaken \in BOOLEAN
    BY DEF Init
  <2>3. faults = 0
    BY DEF Init
  <2> QED
    BY <1>0, <2>1, <2>2, <2>3 DEF FlagsInv
<1> QED
  BY <1>2, <1>3, <1>4, <1>5, <1>6, <1>7, <1>8 DEF TypeInv

(* Something new at the end of the main queue *)
LEMMA TypeAppend ==
    ASSUME TypeInv, NEW block \in Block, mainQueue' = Append(mainQueue, block),
           UNCHANGED <<asked, loaded>>, DOMAIN cache \subseteq DOMAIN cache',
           block.do = "snapshot" => DOMAIN block.devices \subseteq DOMAIN cache',
           block.do = "answer" => asked[block.request] # NoCall
    PROVE  /\ QueueInv'
           /\ Cardinality(Replies(mainQueue')) =
                 Cardinality(Replies(mainQueue))
                    + IF block.do \in {"snapshot", "error"} THEN 1 ELSE 0
           /\ \A n \in DOMAIN loaded : DOMAIN loaded[n] \subseteq DOMAIN cache'
<1>1. mainQueue \in Seq(Block)
  BY DEF TypeInv, QueueInv
<1> DEFINE p == Append(mainQueue, block)
<1>2. /\ p \in Seq(Block) /\ DOMAIN mainQueue = 1 .. Len(mainQueue) /\ Len(mainQueue) \in Nat
      /\ DOMAIN p = 1 .. Len(mainQueue) + 1
      /\ \A i \in 1 .. Len(mainQueue) : p[i] = mainQueue[i]
      /\ p[Len(mainQueue) + 1] = block
  BY <1>1, AppendedElements
<1>3. mainQueue' = p
  OBVIOUS
<1>4. Cardinality(Replies(p)) =
         Cardinality(Replies(mainQueue)) + IF block.do \in {"snapshot", "error"} THEN 1 ELSE 0
  BY <1>1, RepliesAppend
<1> HIDE DEF p
<1>5. QueueInv'
  BY <1>2, <1>3 DEF TypeInv, QueueInv
<1> QED
  BY <1>3, <1>4, <1>5 DEF TypeInv, LoadsInv

LEMMA TypeServer ==
    ASSUME TypeInv, ServerAppliesWrite \/ WriteAcknowledged \/ WriteRejected
    PROVE  TypeInv'
<1> USE ListBounds
<1>1. \A i \in DOMAIN pipe :
         /\ pipe[i] \in Requests /\ asked[pipe[i]] \in Call /\ asked[pipe[i]].id \in Ids
         /\ asked[pipe[i]].id \in DOMAIN cache
  BY DEF TypeInv, StoreInv, CallsInv, LoadsInv, Call, NoCall
<1>2. CASE ServerAppliesWrite
  <2> DEFINE r == pipe[onServer + 1]
             d == asked[r].id
  <2>1. onServer + 1 \in DOMAIN pipe
    BY <1>2 DEF ServerAppliesWrite, TypeInv, StoreInv
  <2>2. r \in Requests /\ asked[r] \in Call /\ d \in Ids
    BY <1>1, <2>1
  <2>3. cloud[d] \in Document
    BY <2>2 DEF TypeInv, StoreInv
  <2>4. Changed(cloud[d], asked[r]) \in Document
    BY <2>2, <2>3, ChangedNumbers
  <2>5. [Changed(cloud[d], asked[r]) EXCEPT !.version = @ + 1] \in Document
    BY <2>4 DEF Document
  <2>6. cloud' = [cloud EXCEPT ![d] = [Changed(cloud[d], asked[r]) EXCEPT !.version = @ + 1]]
    BY <1>2 DEF ServerAppliesWrite
  <2>7. cloud' \in [Ids -> Document]
    BY <2>5, <2>6 DEF TypeInv, StoreInv
  <2>8. committed' = [committed EXCEPT ![r] = cloud'[d].version] /\ cloud'[d].version \in Nat
    BY <1>2, <2>2, <2>7 DEF ServerAppliesWrite, Document
  <2>9. StoreInv'
    BY <1>2, <2>1, <2>7, <2>8 DEF ServerAppliesWrite, TypeInv, StoreInv
  <2>10. CallsInv' /\ LoadsInv' /\ QueueInv' /\ DisplayInv' /\ ScreenInv' /\ FlagsInv'
    BY <1>2 DEF ServerAppliesWrite, loadVars, listVars, screenVars, TypeInv, CallsInv,
                LoadsInv, QueueInv, DisplayInv, ScreenInv, FlagsInv
  <2> QED
    BY <2>9, <2>10 DEF TypeInv
<1>3. CASE WriteAcknowledged \/ WriteRejected
  <2> DEFINE r == Head(pipe)
             d == asked[r].id
  <2>1. /\ pipe # << >> /\ Tail(pipe) \in Seq(Requests) /\ r = pipe[1] /\ 1 \in DOMAIN pipe
        /\ DOMAIN pipe = 1 .. Len(pipe)
        /\ DOMAIN Tail(pipe) = 1 .. Len(pipe) - 1 /\ Len(Tail(pipe)) = Len(pipe) - 1
        /\ \A i \in 1 .. Len(pipe) - 1 : Tail(pipe)[i] = pipe[i + 1]
    <3>1. pipe # << >>
      BY <1>3 DEF WriteAcknowledged, WriteRejected, TypeInv, StoreInv
    <3> QED
      BY <3>1, TailElements DEF TypeInv, StoreInv
  <2>2. r \in Requests /\ asked[r] \in Call /\ d \in Ids /\ d \in DOMAIN cache
    BY <1>1, <2>1
  <2>3. pipe' = Tail(pipe) /\ onServer' \in 0 .. Len(Tail(pipe))
    BY <1>3, <2>1 DEF WriteAcknowledged, WriteRejected, TypeInv, StoreInv
  <2>4. PICK success \in BOOLEAN :
           mainQueue' = Append(mainQueue, [do |-> "answer", request |-> r, success |-> success])
    BY <1>3 DEF WriteAcknowledged, WriteRejected
  <2> DEFINE answer == [do |-> "answer", request |-> r, success |-> success]
  <2>5. answer \in Block /\ answer.do = "answer" /\ answer.request = r /\ asked[r] # NoCall
    BY <2>1, <2>2 DEF Block, TypeInv, StoreInv
  <2> HIDE DEF r, answer
  <2>6. cache' \in {<< >>} \cup [Ids -> Document] /\ DOMAIN cache' = DOMAIN cache
    <3>1. CASE cache' = cache
      BY <3>1 DEF TypeInv, StoreInv
    <3>2. CASE cache' # cache
      <4>1. cache' = [cache EXCEPT ![d] = [Changed(cache[d], asked[r])
                                             EXCEPT !.version = committed[r]]]
        BY <1>3, <2>2, <3>2 DEF WriteAcknowledged, WriteRejected, r
      <4>2. cache \in [Ids -> Document] /\ cache[d] \in Document /\ committed[r] \in Nat
        BY <2>2 DEF TypeInv, StoreInv
      <4>3. Changed(cache[d], asked[r]) \in Document
        BY <2>2, <4>2, ChangedNumbers
      <4>4. [Changed(cache[d], asked[r]) EXCEPT !.version = committed[r]] \in Document
        BY <4>2, <4>3 DEF Document
      <4> QED
        BY <4>1, <4>2, <4>4
    <3> QED
      BY <3>1, <3>2
  <2>7. UNCHANGED <<asked, loaded, cloud, committed>>
    BY <1>3 DEF WriteAcknowledged, WriteRejected, listVars
  <2>8. /\ QueueInv'
        /\ Cardinality(Replies(mainQueue')) = Cardinality(Replies(mainQueue)) + 0
        /\ \A n \in DOMAIN loaded : DOMAIN loaded[n] \subseteq DOMAIN cache'
    BY <2>4, <2>5, <2>6, <2>7, TypeAppend DEF answer
  <2>9. StoreInv'
    BY <2>1, <2>3, <2>6, <2>7 DEF TypeInv, StoreInv
  <2>10. LoadsInv'
    BY <1>3, <2>8, RepliesAreFinite DEF WriteAcknowledged, WriteRejected, loadVars, listVars,
       TypeInv, LoadsInv, QueueInv
  <2>11. FlagsInv'
    BY <1>3 DEF WriteAcknowledged, WriteRejected, TypeInv, FlagsInv, ListBounds
  <2>12. CallsInv' /\ DisplayInv' /\ ScreenInv'
    BY <1>3 DEF WriteAcknowledged, WriteRejected, listVars, screenVars, TypeInv, CallsInv,
                DisplayInv, ScreenInv
  <2> QED
    BY <2>8, <2>9, <2>10, <2>11, <2>12 DEF TypeInv
<1> QED
  BY <1>2, <1>3

LEMMA TypeGetDevices ==
    ASSUME TypeInv, PullToRefresh \/ FreshSnapshot \/ CachedSnapshot \/ ListenRejected
    PROVE  TypeInv'
<1>1. CASE PullToRefresh
  <2>0. Cardinality(Replies(mainQueue)) \in Nat
    BY RepliesAreFinite DEF TypeInv, QueueInv
  <2>3. /\ loads' = loads + 1 /\ calls' = calls + 1 /\ calls < MaxLoads /\ MaxLoads \in Nat
        /\ refreshing' \in BOOLEAN /\ UNCHANGED <<loaded, current, mainQueue, cache>>
    BY <1>1, ListBounds DEF PullToRefresh, cloudVars, listVars, ListBounds
  <2>1. LoadsInv'
    BY <2>0, <2>3 DEF TypeInv, LoadsInv
  <2>2. StoreInv' /\ CallsInv' /\ QueueInv' /\ DisplayInv' /\ ScreenInv' /\ FlagsInv'
    BY <1>1 DEF PullToRefresh, cloudVars, listVars, screenVars, TypeInv, StoreInv, CallsInv,
                QueueInv, DisplayInv, ScreenInv, FlagsInv
  <2> QED
    BY <2>1, <2>2 DEF TypeInv
<1>2. CASE FreshSnapshot \/ CachedSnapshot \/ ListenRejected
  <2>1. PICK block \in Block : /\ mainQueue' = Append(mainQueue, block)
                               /\ block.do \in {"snapshot", "error"}
                               /\ block.do = "snapshot" =>
                                     DOMAIN block.devices \subseteq DOMAIN cache'
    <3>1. CASE FreshSnapshot
      <4>1. View(cloud) \in Loads /\ DOMAIN View(cloud) = DOMAIN cloud
        BY ListBounds, ViewIsLoad DEF TypeInv, StoreInv
      <4> DEFINE block == [do |-> "snapshot", devices |-> View(cloud)]
      <4>2. block \in Block /\ block.do = "snapshot" /\ block.devices = View(cloud)
        BY <4>1 DEF Block
      <4>3. mainQueue' = Append(mainQueue, block) /\ cache' = cloud
        BY <3>1 DEF FreshSnapshot
      <4> HIDE DEF block
      <4> QED
        BY <4>1, <4>2, <4>3
    <3>2. CASE CachedSnapshot
      <4>1. View(cache) \in Loads /\ DOMAIN View(cache) = DOMAIN cache
        BY ListBounds, ViewIsLoad DEF TypeInv, StoreInv
      <4> DEFINE block == [do |-> "snapshot", devices |-> View(cache)]
      <4>2. block \in Block /\ block.do = "snapshot" /\ block.devices = View(cache)
        BY <4>1 DEF Block
      <4>3. mainQueue' = Append(mainQueue, block) /\ cache' = cache
        BY <3>2 DEF CachedSnapshot, cloudVars
      <4> HIDE DEF block
      <4> QED
        BY <4>1, <4>2, <4>3
    <3>3. CASE ListenRejected
      <4> DEFINE block == [do |-> "error"]
      <4>1. block \in Block /\ block.do = "error"
        BY DEF Block
      <4>2. mainQueue' = Append(mainQueue, block)
        BY <3>3 DEF ListenRejected
      <4> HIDE DEF block
      <4> QED
        BY <4>1, <4>2
    <3> QED
      BY <1>2, <3>1, <3>2, <3>3
  <2>2. cache' \in {<< >>} \cup [Ids -> Document] /\ DOMAIN cache \subseteq DOMAIN cache'
    BY <1>2 DEF FreshSnapshot, CachedSnapshot, ListenRejected, cloudVars, TypeInv, StoreInv
  <2>3. UNCHANGED <<asked, listVars, cloud, pipe, onServer, committed, screenVars>>
    BY <1>2 DEF FreshSnapshot, CachedSnapshot, ListenRejected, cloudVars
  <2>4. /\ QueueInv'
        /\ Cardinality(Replies(mainQueue')) = Cardinality(Replies(mainQueue)) + 1
        /\ \A n \in DOMAIN loaded : DOMAIN loaded[n] \subseteq DOMAIN cache'
    BY <2>1, <2>2, <2>3, TypeAppend DEF listVars
  <2>5. StoreInv'
    BY <2>2, <2>3 DEF TypeInv, StoreInv
  <2>6. LoadsInv'
    <3>1. loads \in Nat \ {0} /\ loads' = loads - 1 /\ UNCHANGED <<calls, refreshing>>
      BY <1>2 DEF FreshSnapshot, CachedSnapshot, ListenRejected, TypeInv, LoadsInv
    <3>2. Cardinality(Replies(mainQueue)) \in Nat
      BY RepliesAreFinite DEF TypeInv, QueueInv
    <3> QED
      BY <2>3, <2>4, <3>1, <3>2 DEF listVars, TypeInv, LoadsInv
  <2>7. FlagsInv'
    BY <1>2, ListBounds DEF FreshSnapshot, CachedSnapshot, ListenRejected, TypeInv, FlagsInv,
       ListBounds
  <2>8. CallsInv' /\ DisplayInv' /\ ScreenInv'
    BY <2>3 DEF listVars, screenVars, TypeInv, CallsInv, DisplayInv, ScreenInv
  <2> QED
    BY <2>4, <2>5, <2>6, <2>7, <2>8 DEF TypeInv
<1> QED
  BY <1>1, <1>2

(* A block that is no answer, at the end of a queue *)
LEMMA AppendBlock ==
    ASSUME NEW t \in Seq(Block), NEW block \in Block, block.do \in {"labels", "filterDevices"}
    PROVE  /\ Append(t, block) \in Seq(Block)
           /\ Cardinality(Replies(Append(t, block))) = Cardinality(Replies(t))
           /\ \A i \in DOMAIN Append(t, block) :
                 \/ Append(t, block)[i] = block
                 \/ i \in DOMAIN t /\ Append(t, block)[i] = t[i]
           /\ \A i \in DOMAIN t : i \in DOMAIN Append(t, block) /\ Append(t, block)[i] = t[i]
           /\ Len(t) + 1 \in DOMAIN Append(t, block) /\ Append(t, block)[Len(t) + 1] = block
<1>1. /\ Append(t, block) \in Seq(Block) /\ DOMAIN t = 1 .. Len(t) /\ Len(t) \in Nat
      /\ DOMAIN Append(t, block) = 1 .. Len(t) + 1
      /\ \A i \in 1 .. Len(t) : Append(t, block)[i] = t[i]
      /\ Append(t, block)[Len(t) + 1] = block
  BY AppendedElements
<1>2. Cardinality(Replies(Append(t, block))) = Cardinality(Replies(t)) + 0
  BY RepliesAppend
<1>3. Cardinality(Replies(t)) \in Nat
  BY RepliesAreFinite
<1> DEFINE p == Append(t, block)
<1> HIDE DEF p
<1> QED
  BY <1>1, <1>2, <1>3 DEF p

(* The head of the main queue has gone, and a block that is no answer to   *)
(* getDevices may have come.                                               *)
LEMMA TypeTail ==
    ASSUME TypeInv, mainQueue # << >>, UNCHANGED <<asked, cache>>,
           \/ mainQueue' = Tail(mainQueue)
           \/ \E block \in Block : /\ block.do \in {"labels", "filterDevices"}
                                   /\ mainQueue' = Append(Tail(mainQueue), block)
    PROVE  /\ QueueInv'
           /\ Cardinality(Replies(mainQueue')) =
                 Cardinality(Replies(mainQueue))
                    - IF mainQueue[1].do \in {"snapshot", "error"} THEN 1 ELSE 0
<1> DEFINE t == Tail(mainQueue)
<1>1. mainQueue \in Seq(Block)
  BY DEF TypeInv, QueueInv
<1>2. /\ t \in Seq(Block) /\ DOMAIN mainQueue = 1 .. Len(mainQueue)
      /\ DOMAIN t = 1 .. Len(mainQueue) - 1 /\ Len(mainQueue) \in Nat \ {0}
      /\ Len(t) = Len(mainQueue) - 1
      /\ \A i \in 1 .. Len(mainQueue) - 1 : t[i] = mainQueue[i + 1]
  BY <1>1, TailElements
<1>3. Cardinality(Replies(t)) = Cardinality(Replies(mainQueue))
         - IF mainQueue[1].do \in {"snapshot", "error"} THEN 1 ELSE 0
  BY <1>1, RepliesTail
<1> HIDE DEF t
<1>4. \A i \in DOMAIN t :
         /\ t[i].do = "snapshot" => DOMAIN t[i].devices \subseteq DOMAIN cache
         /\ t[i].do = "answer" => asked[t[i].request] # NoCall
  <2> TAKE i \in DOMAIN t
  <2>1. i + 1 \in DOMAIN mainQueue /\ t[i] = mainQueue[i + 1]
    BY <1>2
  <2> QED
    BY <2>1 DEF TypeInv, QueueInv
<1>5. CASE mainQueue' = t
  BY <1>2, <1>3, <1>4, <1>5 DEF QueueInv
<1>6. ASSUME NEW block \in Block, block.do \in {"labels", "filterDevices"},
             mainQueue' = Append(t, block)
      PROVE  /\ QueueInv'
             /\ Cardinality(Replies(mainQueue')) = Cardinality(Replies(t))
  <2>1. /\ mainQueue' \in Seq(Block)
        /\ Cardinality(Replies(mainQueue')) = Cardinality(Replies(t))
        /\ \A i \in DOMAIN mainQueue' : \/ mainQueue'[i] = block
                                        \/ i \in DOMAIN t /\ mainQueue'[i] = t[i]
    BY <1>2, <1>6, AppendBlock
  <2>2. QueueInv'
    BY <1>4, <1>6, <2>1 DEF QueueInv
  <2> QED
    BY <2>1, <2>2
<1> QED
  BY <1>3, <1>5, <1>6 DEF t

LEMMA TypeRunBlock ==
    ASSUME TypeInv, RunBlock
    PROVE  TypeInv'
<1> DEFINE block == Head(mainQueue)
<1>1. mainQueue # << >> /\ mainQueue \in Seq(Block)
  BY DEF RunBlock, TypeInv, QueueInv
<1>2. block \in Block /\ block = mainQueue[1] /\ 1 \in DOMAIN mainQueue
  BY <1>1, TailElements
<1>3. UNCHANGED <<cloudVars, asked, loads, calls, picker, visits, trap, overtaken, faults>>
  BY DEF RunBlock
<1>4. StoreInv' /\ FlagsInv'
  BY <1>3 DEF cloudVars, TypeInv, StoreInv, FlagsInv
<1>5. Cardinality(Replies(mainQueue)) \in Nat
  BY <1>1, RepliesAreFinite
<1>6. /\ loaded \in Seq(Loads) /\ DOMAIN loaded = 1 .. Len(loaded) /\ Len(loaded) \in Nat
      /\ current \in 0 .. Len(loaded)
  BY DEF TypeInv, LoadsInv
<1> HIDE DEF block
<1>7. CASE block.do = "snapshot" /\ ShowSnapshot(block.devices)
  <2> DEFINE shown == [do |-> "filterDevices"]
             list  == Append(loaded, block.devices)
  <2>1. shown \in Block /\ shown.do \in {"labels", "filterDevices"}
    BY DEF Block
  <2>2. mainQueue' = Append(Tail(mainQueue), shown) /\ loaded' = list
        /\ current' = Len(loaded) + 1 /\ refreshing' = FALSE
        /\ UNCHANGED <<checked, displayed, details>>
    BY <1>7 DEF ShowSnapshot
  <2> HIDE DEF shown
  <2>3. QueueInv' /\ Cardinality(Replies(mainQueue')) = Cardinality(Replies(mainQueue)) - 1
    BY <1>1, <1>2, <1>3, <1>7, <2>1, <2>2, TypeTail DEF cloudVars
  <2>4. block.devices \in Loads /\ DOMAIN block.devices \subseteq DOMAIN cache
    BY <1>2, <1>7 DEF Block, TypeInv, QueueInv
  <2>5. /\ list \in Seq(Loads) /\ Len(list) = Len(loaded) + 1
        /\ DOMAIN list = 1 .. Len(loaded) + 1
        /\ \A n \in 1 .. Len(loaded) : list[n] = loaded[n]
        /\ list[Len(loaded) + 1] = block.devices
    BY <1>6, <2>4, AppendedElements
  <2> HIDE DEF list
  <2>6. LoadsInv'
    <3>1. \A n \in DOMAIN list : DOMAIN list[n] \subseteq DOMAIN cache
      BY <1>6, <2>4, <2>5 DEF TypeInv, LoadsInv
    <3>2. refreshing' \in BOOLEAN
      BY <2>2
    <3> QED
      BY <1>3, <1>5, <1>6, <2>2, <2>3, <2>5, <3>1, <3>2 DEF cloudVars, TypeInv, LoadsInv
  <2>7. CallsInv'
    BY <1>3, <1>6, <2>2, <2>5 DEF TypeInv, CallsInv
  <2>8. DisplayInv'
    BY <1>6, <2>2, <2>5 DEF TypeInv, DisplayInv, Objects
  <2>9. ScreenInv'
    BY <1>3, <1>6, <2>2, <2>5 DEF TypeInv, ScreenInv
  <2> QED
    BY <1>4, <2>3, <2>6, <2>7, <2>8, <2>9 DEF TypeInv
<1>8. CASE \/ block.do = "error" /\ ForgetDevices
           \/ /\ block.do = "answer" /\ ~ block.success
              /\ mainQueue' = Tail(mainQueue)
              /\ UNCHANGED <<listVars, refreshing, details>>
           \/ block.do = "labels" /\ SetLabels(block.visit, block.kind)
           \/ block.do = "filterDevices" /\ filterDevices
  <2>1. /\ mainQueue' = Tail(mainQueue) /\ UNCHANGED <<loaded, checked>>
        /\ current' \in {0, current} /\ refreshing' \in {FALSE, refreshing}
    BY <1>8 DEF ForgetDevices, listVars, SetLabels, filterDevices
  <2>2. /\ QueueInv'
        /\ Cardinality(Replies(mainQueue')) = Cardinality(Replies(mainQueue))
              - IF block.do \in {"snapshot", "error"} THEN 1 ELSE 0
    BY <1>1, <1>2, <1>3, <2>1, TypeTail DEF cloudVars
  <2>3. LoadsInv'
    <3>1. refreshing' \in BOOLEAN
      BY <2>1 DEF TypeInv, LoadsInv
    <3> QED
      BY <1>3, <1>5, <1>6, <2>1, <2>2, <3>1 DEF cloudVars, TypeInv, LoadsInv
  <2>4. CallsInv'
    BY <1>3, <2>1 DEF TypeInv, CallsInv
  <2>5. DisplayInv'
    <3>1. CASE UNCHANGED displayed
      BY <2>1, <3>1 DEF TypeInv, DisplayInv
    <3>2. CASE displayed' = Filtered(loaded, current, checked)
      BY <1>6, <2>1, <3>2, FilteredRows DEF TypeInv, DisplayInv
    <3> QED
      BY <1>8, <3>1, <3>2 DEF ForgetDevices, listVars, SetLabels, filterDevices
  <2>6. ScreenInv'
    <3>1. CASE UNCHANGED details
      BY <1>3, <2>1, <3>1 DEF TypeInv, ScreenInv
    <3>2. CASE details' # details
      <4>1. /\ block.do = "labels" /\ details.visit = block.visit
            /\ details' = [details EXCEPT !.labels = IF block.kind = "serviceDevice"
                                                     THEN ServiceLabels(@) ELSE PeriodLabels(@)]
        BY <1>8, <3>2 DEF ForgetDevices, listVars, SetLabels, filterDevices
      <4>2. block.visit \in 1 .. MaxVisits
        BY <1>2, <4>1 DEF Block
      <4>3. details # Closed
        BY <4>1, <4>2 DEF Closed
      <4>4. loaded[details.load][details.id] \in Device /\ details.load \in DOMAIN loaded
            /\ details.load # 0 /\ details.labels \in Labels
            /\ device = loaded[details.load][details.id]
        BY <1>6, <4>3 DEF TypeInv, ScreenInv, Loads, device, Objects
      <4>5. PICK labels \in Labels : details' = [details EXCEPT !.labels = labels]
        BY <4>1, <4>4 DEF ServiceLabels, PeriodLabels, Labels, Device
      <4> QED
        BY <1>3, <2>1, <4>3, <4>4, <4>5 DEF TypeInv, ScreenInv, Closed
    <3> QED
      BY <3>1, <3>2
  <2> QED
    BY <1>4, <2>2, <2>3, <2>4, <2>5, <2>6 DEF TypeInv
<1>9. CASE block.do = "answer" /\ block.success /\ FinishCall(block.request)
  <2> DEFINE call   == asked[block.request]
             labels == [do |-> "labels", visit |-> call.visit, kind |-> call.kind]
             list   == [loaded EXCEPT ![call.load][call.id] = Changed(@, call)]
  <2>1. call \in Call /\ call.load \in DOMAIN loaded /\ call.id \in DOMAIN loaded[call.load]
    BY <1>2, <1>9 DEF Block, TypeInv, QueueInv, CallsInv
  <2>2. labels \in Block /\ labels.do \in {"labels", "filterDevices"}
    BY <2>1 DEF Block, Call, Kinds
  <2>3. /\ mainQueue' = Append(Tail(mainQueue), labels) /\ loaded' = list
        /\ displayed' = Filtered(loaded', current, checked)
        /\ details' \in {details, [details EXCEPT !.late = TRUE]}
        /\ details = Closed => details' = details
        /\ UNCHANGED <<current, refreshing, checked>>
    BY <1>9 DEF FinishCall, IsOfEarlierVisit
  <2> HIDE DEF labels
  <2>4. QueueInv' /\ Cardinality(Replies(mainQueue')) = Cardinality(Replies(mainQueue))
    BY <1>1, <1>2, <1>3, <1>5, <1>9, <2>2, <2>3, TypeTail DEF cloudVars
  <2>5. /\ list \in Seq(Loads) /\ Len(list) = Len(loaded) /\ DOMAIN list = DOMAIN loaded
        /\ \A n \in DOMAIN list : DOMAIN list[n] = DOMAIN loaded[n]
    <3> DEFINE new == [loaded[call.load] EXCEPT ![call.id] = Changed(@, call)]
    <3>1. loaded[call.load] \in [Ids -> Device] /\ call.id \in Ids
      BY <1>6, <2>1 DEF Loads
    <3>2. Changed(loaded[call.load][call.id], call) \in Device
      BY <2>1, <3>1, ListBounds, ChangedNumbers
    <3>3. new \in [Ids -> Device] /\ DOMAIN new = DOMAIN loaded[call.load]
      BY <3>1, <3>2
    <3>4. list = [loaded EXCEPT ![call.load] = new]
      BY <1>6, <2>1
    <3> HIDE DEF new, list, call
    <3>5. new \in Loads
      BY <3>3 DEF Loads
    <3> QED
      BY <1>6, <2>1, <3>3, <3>4, <3>5
  <2> HIDE DEF list
  <2>6. LoadsInv'
    BY <1>3, <1>5, <1>6, <2>3, <2>4, <2>5 DEF cloudVars, TypeInv, LoadsInv
  <2>7. CallsInv'
    BY <1>3, <1>6, <2>3, <2>5 DEF TypeInv, CallsInv
  <2>8. DisplayInv'
    BY <1>6, <2>3, <2>5, FilteredRows DEF TypeInv, DisplayInv
  <2>9. ScreenInv'
    <3>1. CASE UNCHANGED details
      BY <1>3, <1>6, <2>3, <2>5, <3>1 DEF TypeInv, ScreenInv
    <3>2. CASE details # Closed /\ details' = [details EXCEPT !.late = TRUE]
      BY <1>3, <1>6, <2>3, <2>5, <3>2 DEF TypeInv, ScreenInv, Closed
    <3> QED
      BY <2>3, <3>1, <3>2
  <2> QED
    BY <1>4, <2>4, <2>6, <2>7, <2>8, <2>9 DEF TypeInv
<1> QED
  BY <1>7, <1>8, <1>9 DEF RunBlock, block

(* A call that is made now is one of an object of the current load. *)
LEMMA TypeMakeCall ==
    ASSUME TypeInv, NEW r \in Requests, NEW call, MakeCall(r, call), details # Closed,
           call.id = details.id, call.load = current,
           call.id \in Ids /\ call.load \in 1 .. MaxLoads => call \in Call
    PROVE  TypeInv'
<1>1. /\ UNCHANGED <<cloud, cache, onServer, committed, loadVars, listVars, details, visits,
                     mainQueue, faults>>
      /\ picker' = Hidden /\ asked[r] = NoCall
  BY DEF MakeCall
<1>2. LoadsInv' /\ DisplayInv' /\ ScreenInv'
  BY <1>1 DEF loadVars, listVars, TypeInv, LoadsInv, DisplayInv, ScreenInv
<1>3. FlagsInv'
  <2>1. trap' \in BOOLEAN
    BY DEF MakeCall, TypeInv, FlagsInv
  <2>2. overtaken' \in BOOLEAN
    BY DEF MakeCall, TypeInv, FlagsInv
  <2> QED
    BY <1>1, <2>1, <2>2 DEF TypeInv, FlagsInv
<1>4. CASE UNCHANGED <<asked, pipe>>
  BY <1>1, <1>2, <1>3, <1>4 DEF listVars, TypeInv, StoreInv, CallsInv, QueueInv
<1>5. CASE /\ details.id \in DOMAIN Objects(loaded, current)
           /\ asked' = [asked EXCEPT ![r] = call] /\ pipe' = Append(pipe, r)
  <2>1. current \in DOMAIN loaded /\ details.id \in DOMAIN loaded[current]
    BY <1>5 DEF Objects, TypeInv, LoadsInv
  <2>2. Len(loaded) <= MaxLoads
    <3>1. Cardinality(Replies(mainQueue)) \in Nat
      BY RepliesAreFinite DEF TypeInv, QueueInv
    <3> QED
      BY <3>1, ListBounds DEF TypeInv, LoadsInv, ListBounds
  <2>3. call.id \in Ids /\ call.load \in 1 .. MaxLoads
    BY <2>1, <2>2, ListBounds DEF TypeInv, LoadsInv, ScreenInv, ListBounds
  <2>4. call \in Call /\ call # NoCall
    BY <2>3 DEF Call, NoCall
  <2>5. \A q \in Requests : asked'[q] = IF q = r THEN call ELSE asked[q]
    BY <1>5 DEF TypeInv, CallsInv
  <2>6. CallsInv'
    BY <1>1, <1>5, <2>1, <2>4, <2>5 DEF listVars, TypeInv, CallsInv
  <2>7. /\ pipe' \in Seq(Requests) /\ Len(pipe') = Len(pipe) + 1 /\ Len(pipe) \in Nat
        /\ DOMAIN pipe = 1 .. Len(pipe) /\ DOMAIN pipe' = 1 .. Len(pipe) + 1
        /\ \A i \in 1 .. Len(pipe) : pipe'[i] = pipe[i]
        /\ pipe'[Len(pipe) + 1] = r
    BY <1>5, AppendedElements DEF TypeInv, StoreInv
  <2>8. \A i \in DOMAIN pipe' : asked'[pipe'[i]] # NoCall
    <3>1. \A i \in DOMAIN pipe : pipe[i] \in Requests /\ asked[pipe[i]] # NoCall
      BY DEF TypeInv, StoreInv
    <3> TAKE i \in DOMAIN pipe'
    <3>2. CASE i \in DOMAIN pipe
      BY <2>4, <2>5, <2>7, <3>1, <3>2
    <3>3. CASE i = Len(pipe) + 1
      BY <2>4, <2>5, <2>7, <3>3
    <3> QED
      BY <2>7, <3>2, <3>3
  <2>9. StoreInv'
    BY <1>1, <2>7, <2>8 DEF TypeInv, StoreInv
  <2>10. QueueInv'
    <3>1. \A q \in Requests : asked[q] # NoCall => asked'[q] # NoCall
      BY <2>4, <2>5
    <3>2. \A i \in DOMAIN mainQueue : mainQueue[i].do = "answer" =>
             mainQueue[i].request \in Requests
      BY DEF TypeInv, QueueInv, Block
    <3> QED
      BY <1>1, <3>1, <3>2 DEF TypeInv, QueueInv
  <2> QED
    BY <1>2, <1>3, <2>6, <2>9, <2>10 DEF TypeInv
<1> QED
  BY <1>4, <1>5 DEF MakeCall

LEMMA TypeUser ==
    ASSUME TypeInv,
           \/ \E d \in Ids : SelectRow(d)
           \/ \E class \in FilterClasses : ToggleFilter(class)
           \/ GoBack \/ PeriodButton \/ ClosePicker
           \/ \E turn \in Turns : TurnWheel(turn)
    PROVE  TypeInv'
<1>1. UNCHANGED <<cloudVars, asked, loadVars, loaded, current, mainQueue, trap, overtaken, faults>>
  BY DEF SelectRow, ToggleFilter, GoBack, PeriodButton, ClosePicker, TurnWheel, OnlyPicker,
         listVars
<1>2. StoreInv' /\ CallsInv' /\ LoadsInv' /\ QueueInv' /\ FlagsInv'
  BY <1>1 DEF cloudVars, loadVars, TypeInv, StoreInv, CallsInv, LoadsInv, QueueInv, FlagsInv
<1>3. /\ loaded \in Seq(Loads) /\ DOMAIN loaded = 1 .. Len(loaded) /\ Len(loaded) \in Nat
      /\ current \in 0 .. Len(loaded)
  BY DEF TypeInv, LoadsInv
<1>4. CASE \E d \in Ids : SelectRow(d)
  <2>1. PICK d \in Ids : SelectRow(d)
    BY <1>4
  <2>2. /\ d \in displayed.ids /\ displayed.load \in 0 .. Len(loaded)
        /\ d \in DOMAIN Objects(loaded, displayed.load)
    BY <2>1 DEF SelectRow, TypeInv, DisplayInv
  <2>3. displayed.load \in DOMAIN loaded /\ d \in DOMAIN loaded[displayed.load]
        /\ Objects(loaded, displayed.load)[d] = loaded[displayed.load][d]
    BY <1>3, <2>2 DEF Objects
  <2>4. LabelsOf(loaded[displayed.load][d]) \in Labels
    BY <1>3, <2>3 DEF Loads, LabelsOf, Labels, Device
  <2>5. visits + 1 \in 1 .. MaxVisits /\ visits' = visits + 1
    BY <2>1, ListBounds DEF SelectRow, TypeInv, ScreenInv, ListBounds
  <2>6. details' \in [visit : 1 .. MaxVisits, load : DOMAIN loaded, id : Ids,
                      labels : Labels, late : BOOLEAN]
        /\ details'.id = d /\ details'.load = displayed.load
    BY <2>1, <2>3, <2>4, <2>5 DEF SelectRow
  <2>7. picker' = Hidden
    BY <2>1 DEF SelectRow, TypeInv, ScreenInv
  <2>8. visits' \in 0 .. MaxVisits
    BY <2>5
  <2>9. ScreenInv'
    BY <1>1, <2>3, <2>6, <2>7, <2>8 DEF ScreenInv
  <2>10. DisplayInv'
    BY <2>1 DEF SelectRow, listVars, TypeInv, DisplayInv
  <2> QED
    BY <1>2, <2>9, <2>10 DEF TypeInv
<1>5. CASE \E class \in FilterClasses : ToggleFilter(class)
  <2>1. displayed' = Filtered(loaded, current, checked') /\ checked' \subseteq FilterClasses
        /\ UNCHANGED screenVars
    BY <1>5 DEF ToggleFilter, TypeInv, DisplayInv
  <2>2. DisplayInv'
    BY <1>1, <1>3, <2>1, FilteredRows DEF DisplayInv
  <2>3. ScreenInv'
    BY <1>1, <2>1 DEF screenVars, TypeInv, ScreenInv
  <2> QED
    BY <1>2, <2>2, <2>3 DEF TypeInv
<1>6. CASE GoBack \/ PeriodButton \/ ClosePicker \/ \E turn \in Turns : TurnWheel(turn)
  <2>1. DisplayInv'
    BY <1>6 DEF GoBack, PeriodButton, ClosePicker, TurnWheel, OnlyPicker, listVars, TypeInv,
                DisplayInv
  <2>2. ASSUME GoBack
        PROVE  ScreenInv'
    <3>1. details' = Closed /\ picker' = Hidden /\ visits' = visits
      BY <2>2 DEF GoBack
    <3> QED
      BY <3>1 DEF TypeInv, ScreenInv
  <2>3. ASSUME ClosePicker
        PROVE  ScreenInv'
    <3>1. picker' = Hidden /\ UNCHANGED <<details, visits>>
      BY <2>3 DEF ClosePicker, OnlyPicker
    <3> QED
      BY <1>1, <3>1 DEF TypeInv, ScreenInv
  <2>4. ASSUME PeriodButton
        PROVE  ScreenInv'
    <3>1. device \in Device
      BY <1>3, <2>4 DEF PeriodButton, device, Objects, TypeInv, ScreenInv, Loads
    <3>2. device.period \in Nat
      BY <3>1 DEF Device
    <3>3. picker' \in Picker
      BY <2>4, <3>2, DigitsAreRows DEF PeriodButton, Picker
    <3>4. details # Closed /\ UNCHANGED <<details, visits>>
      BY <2>4 DEF PeriodButton, OnlyPicker
    <3> QED
      BY <1>1, <3>3, <3>4 DEF TypeInv, ScreenInv
  <2>5. ASSUME \E turn \in Turns : TurnWheel(turn)
        PROVE  ScreenInv'
    <3>1. PICK turn \in Turns : TurnWheel(turn)
      BY <2>5
    <3>2. turn[1] \in Wheels /\ turn[2] \in Digits
      BY ListBounds DEF ListBounds
    <3>3. picker \in Picker
      BY <3>1 DEF TurnWheel, TypeInv, ScreenInv
    <3>4. picker' \in Picker
      BY <3>1, <3>2, <3>3 DEF TurnWheel, Picker
    <3>5. details # Closed
      BY <3>1 DEF TurnWheel, TypeInv, ScreenInv
    <3>6. UNCHANGED <<details, visits>>
      BY <3>1 DEF TurnWheel, OnlyPicker
    <3> QED
      BY <1>1, <3>4, <3>5, <3>6 DEF TypeInv, ScreenInv
  <2>6. ScreenInv'
    BY <1>6, <2>2, <2>3, <2>4, <2>5
  <2> QED
    BY <1>2, <2>1, <2>6 DEF TypeInv
<1> QED
  BY <1>4, <1>5, <1>6

LEMMA TypeCalls ==
    ASSUME TypeInv, NEW r \in Requests, ServiceDevice(r) \/ SetDevicePeriod(r)
    PROVE  TypeInv'
<1>1. CASE ServiceDevice(r)
  <2> DEFINE call == [kind |-> "serviceDevice", id |-> details.id, load |-> current,
                      visit |-> details.visit]
  <2>1. MakeCall(r, call) /\ details # Closed
    BY <1>1 DEF ServiceDevice
  <2>2. details.visit \in 1 .. MaxVisits
    BY <2>1 DEF TypeInv, ScreenInv
  <2>3. /\ call.id = details.id /\ call.load = current
        /\ call.id \in Ids /\ call.load \in 1 .. MaxLoads => call \in Call
    BY <2>2 DEF Call
  <2> HIDE DEF call
  <2> QED
    BY <2>1, <2>3, TypeMakeCall
<1>2. CASE SetDevicePeriod(r)
  <2> DEFINE call == [kind |-> "setDevicePeriod", id |-> details.id, load |-> current,
                      visit |-> details.visit, newPeriod |-> SelectedInteger(picker.rows),
                      unasked |-> IsUnasked]
  <2>1. MakeCall(r, call) /\ picker # Hidden /\ SelectedInteger(picker.rows) # 0
    BY <1>2 DEF SetDevicePeriod
  <2>2. details # Closed /\ details.visit \in 1 .. MaxVisits /\ picker \in Picker
    BY <2>1 DEF TypeInv, ScreenInv
  <2>3. SelectedInteger(picker.rows) \in Nat \ {0}
    BY <2>1, <2>2, PickedNumber DEF Picker
  <2>4. IsUnasked \in BOOLEAN
    BY <2>2 DEF IsUnasked, Picker
  <2>5. /\ call.id = details.id /\ call.load = current
        /\ call.id \in Ids /\ call.load \in 1 .. MaxLoads => call \in Call
    BY <2>2, <2>3, <2>4 DEF Call
  <2> HIDE DEF call
  <2> QED
    BY <2>1, <2>2, <2>5, TypeMakeCall
<1> QED
  BY <1>1, <1>2

LEMMA TypeReport ==
    ASSUME TypeInv, NEW d \in Ids, Report(d)
    PROVE  TypeInv'
<1>1. cloud[d].operationTime + 1 \in 0 .. MaxHours /\ cloud[d] \in Document
  BY ListBounds DEF Report, TypeInv, StoreInv, Document, ListBounds
<1>2. cloud' = [cloud EXCEPT ![d] = [cloud[d] EXCEPT !.operationTime = @ + 1,
                                                     !.version = @ + 1]]
  BY DEF Report, TypeInv, StoreInv, Document
<1>3. [cloud[d] EXCEPT !.operationTime = @ + 1, !.version = @ + 1] \in Document
  <2>1. cloud[d].version + 1 \in Nat
    BY <1>1 DEF Document
  <2> QED
    BY <1>1, <2>1 DEF Document
<1>4. cloud' \in [Ids -> Document]
  BY <1>2, <1>3 DEF TypeInv, StoreInv
<1> QED
  BY <1>4 DEF Report, loadVars, listVars, screenVars, TypeInv, StoreInv, CallsInv, LoadsInv,
              QueueInv, DisplayInv, ScreenInv, FlagsInv

LEMMA TypeStep == TypeInv /\ [Next]_vars => TypeInv'
<1> SUFFICES ASSUME TypeInv, [Next]_vars PROVE TypeInv'
  OBVIOUS
<1>1. CASE UNCHANGED vars
  BY <1>1 DEF vars, cloudVars, loadVars, listVars, screenVars, TypeInv, StoreInv, CallsInv,
              LoadsInv, QueueInv, DisplayInv, ScreenInv, FlagsInv
<1>2. CASE Next
  BY <1>2, TypeReport, TypeServer, TypeGetDevices, TypeRunBlock, TypeUser, TypeCalls DEF Next
<1> QED
  BY <1>1, <1>2

LEMMA TypeInvariant == Spec => []TypeInv
<1> QED
  BY TypeInit, TypeStep, PTL DEF Spec

(* All variables stay in their types: the objects, the calls and the       *)
(* screen always refer to devices that their load has, and no more loads   *)
(* are answered than getDevices was called (DataCenter.swift:11-27).       *)
THEOREM DeviceListTypeOK == Spec => []TypeOK
<1>1. TypeInv => TypeOK
  <2> SUFFICES ASSUME TypeInv PROVE TypeOK
    OBVIOUS
  <2>1. Cardinality(Replies(mainQueue)) \in Nat
    BY RepliesAreFinite DEF TypeInv, QueueInv
  <2>2. /\ Len(loaded) <= MaxLoads /\ loads \in 0 .. MaxLoads /\ calls \in 0 .. MaxLoads
        /\ Len(loaded) \in Nat /\ DOMAIN loaded = 1 .. Len(loaded)
    BY <2>1, ListBounds DEF TypeInv, LoadsInv, ListBounds
  <2>3. details # Closed =>
          /\ details.visit \in 1 .. MaxVisits
          /\ details.id \in DOMAIN Objects(loaded, details.load)
          /\ details.labels \in Labels
    BY <2>2 DEF TypeInv, ScreenInv, Objects
  <2>4. \A n \in DOMAIN loaded : loaded[n] = << >> \/ loaded[n] \in [Ids -> Device]
    BY <2>2 DEF TypeInv, LoadsInv, Loads
  <2>5. {trap, overtaken} \subseteq BOOLEAN
    BY DEF TypeInv, FlagsInv
  <2>6. /\ cloud \in [Ids -> Document]
        /\ cache = << >> \/ cache \in [Ids -> Document]
        /\ pipe \in Seq(Requests) /\ onServer \in 0 .. Len(pipe)
        /\ committed \in [Requests -> Nat]
        /\ asked \in [Requests -> Call \cup {NoCall}]
    BY DEF TypeInv, StoreInv, CallsInv
  <2>7. /\ refreshing \in BOOLEAN /\ current \in 0 .. Len(loaded) /\ checked \subseteq FilterClasses
        /\ displayed.load \in 0 .. Len(loaded)
        /\ displayed.ids \subseteq DOMAIN Objects(loaded, displayed.load)
    BY DEF TypeInv, LoadsInv, DisplayInv
  <2>8. /\ picker \in Picker \cup {Hidden} /\ (details = Closed => picker = Hidden)
        /\ visits \in 0 .. MaxVisits /\ faults \in 0 .. MaxFaults
    BY DEF TypeInv, ScreenInv, FlagsInv
  <2> QED
    BY <2>2, <2>3, <2>4, <2>5, <2>6, <2>7, <2>8 DEF TypeOK
<1> QED
  BY <1>1, TypeInvariant, PTL

-----------------------------------------------------------------------------
(* The rows, the spinner and the labels.                                   *)

LEMMA RangeAppend ==
    ASSUME NEW S, NEW q \in Seq(S), NEW e \in S
    PROVE  Range(Append(q, e)) = Range(q) \cup {e}
<1> DEFINE p == Append(q, e)
<1>1. /\ DOMAIN q = 1 .. Len(q) /\ Len(q) \in Nat /\ DOMAIN p = 1 .. Len(q) + 1
      /\ \A i \in 1 .. Len(q) : p[i] = q[i]
      /\ p[Len(q) + 1] = e
  BY AppendedElements
<1> HIDE DEF p
<1> QED
  BY <1>1 DEF Range, p

LEMMA RangeTail ==
    ASSUME NEW S, NEW q \in Seq(S), q # << >>
    PROVE  Range(q) = {Head(q)} \cup Range(Tail(q))
<1> DEFINE t == Tail(q)
           h == Head(q)
<1>1. /\ h = q[1] /\ 1 \in DOMAIN q
      /\ DOMAIN q = 1 .. Len(q) /\ DOMAIN t = 1 .. Len(q) - 1 /\ Len(q) \in Nat \ {0}
      /\ \A i \in 1 .. Len(q) - 1 : t[i] = q[i + 1]
      /\ \A i \in 2 .. Len(q) : q[i] = t[i - 1]
  BY TailElements
<1> HIDE DEF t, h
<1>2. ASSUME NEW i \in DOMAIN q
      PROVE  q[i] \in {h} \cup Range(t)
  <2>1. i = 1 \/ i \in 2 .. Len(q)
    BY <1>1
  <2>2. CASE i \in 2 .. Len(q)
    <3>1. i - 1 \in DOMAIN t /\ q[i] = t[i - 1]
      BY <1>1, <2>2
    <3> QED
      BY <3>1 DEF Range
  <2> QED
    BY <1>1, <2>1, <2>2
<1>3. ASSUME NEW i \in DOMAIN t
      PROVE  t[i] \in Range(q)
  <2>1. i + 1 \in DOMAIN q /\ t[i] = q[i + 1]
    BY <1>1
  <2> QED
    BY <2>1 DEF Range
<1>4. Range(q) \subseteq {h} \cup Range(t)
  BY <1>2 DEF Range
<1>5. {h} \cup Range(t) \subseteq Range(q)
  BY <1>1, <1>3 DEF Range
<1> QED
  BY <1>4, <1>5 DEF t, h

(* What a step does to the blocks on the main queue: only RunBlock takes   *)
(* one away, and only answers to getDevices and to calls come from outside *)
LEMMA BlocksOfStep ==
    ASSUME TypeInv, [Next]_vars
    PROVE  \/ UNCHANGED mainQueue
           \/ \E block \in Block : /\ block.do \in {"snapshot", "error", "answer"}
                                   /\ mainQueue' = Append(mainQueue, block)
                                   /\ Range(mainQueue') = Range(mainQueue) \cup {block}
           \/ RunBlock
<1>1. mainQueue \in Seq(Block)
  BY DEF TypeInv, QueueInv
<1>2. ASSUME NEW block \in Block, block.do \in {"snapshot", "error", "answer"},
             mainQueue' = Append(mainQueue, block)
      PROVE  \E e \in Block : /\ e.do \in {"snapshot", "error", "answer"}
                              /\ mainQueue' = Append(mainQueue, e)
                              /\ Range(mainQueue') = Range(mainQueue) \cup {e}
  <2>1. Range(mainQueue') = Range(mainQueue) \cup {block}
    BY <1>1, <1>2, RangeAppend
  <2> QED
    BY <1>2, <2>1
<1>3. ASSUME WriteAcknowledged \/ WriteRejected
      PROVE  \E block \in Block : block.do \in {"snapshot", "error", "answer"}
                                  /\ mainQueue' = Append(mainQueue, block)
  <2>1. PICK success \in BOOLEAN :
           mainQueue' = Append(mainQueue,
                               [do |-> "answer", request |-> Head(pipe), success |-> success])
    BY <1>3 DEF WriteAcknowledged, WriteRejected
  <2>2. Head(pipe) \in Requests
    <3>1. pipe # << >> /\ pipe \in Seq(Requests)
      BY <1>3 DEF WriteAcknowledged, WriteRejected, TypeInv, StoreInv
    <3> QED
      BY <3>1, TailElements
  <2>3. [do |-> "answer", request |-> Head(pipe), success |-> success] \in Block
    BY <2>2 DEF Block
  <2> QED
    BY <2>1, <2>3
<1>4. ASSUME FreshSnapshot \/ CachedSnapshot \/ ListenRejected
      PROVE  \E block \in Block : block.do \in {"snapshot", "error", "answer"}
                                  /\ mainQueue' = Append(mainQueue, block)
  <2>1. View(cloud) \in Loads /\ View(cache) \in Loads
    BY ListBounds, ViewIsLoad DEF TypeInv, StoreInv
  <2>2. /\ [do |-> "snapshot", devices |-> View(cloud)] \in Block
        /\ [do |-> "snapshot", devices |-> View(cache)] \in Block
        /\ [do |-> "error"] \in Block
    BY <2>1 DEF Block
  <2>3. \/ mainQueue' = Append(mainQueue, [do |-> "snapshot", devices |-> View(cloud)])
        \/ mainQueue' = Append(mainQueue, [do |-> "snapshot", devices |-> View(cache)])
        \/ mainQueue' = Append(mainQueue, [do |-> "error"])
    BY <1>4 DEF FreshSnapshot, CachedSnapshot, ListenRejected
  <2> QED
    BY <2>2, <2>3
<1>5. ASSUME \/ UNCHANGED vars \/ \E d \in Ids : Report(d) \/ SelectRow(d)
             \/ ServerAppliesWrite \/ PullToRefresh \/ GoBack \/ PeriodButton \/ ClosePicker
             \/ \E class \in FilterClasses : ToggleFilter(class)
             \/ \E turn \in Turns : TurnWheel(turn)
      PROVE  UNCHANGED mainQueue
  BY <1>5 DEF vars, Report, SelectRow, ServerAppliesWrite, PullToRefresh, GoBack, PeriodButton,
              ClosePicker, ToggleFilter, TurnWheel, OnlyPicker
<1>6. ASSUME NEW r \in Requests, ServiceDevice(r) \/ SetDevicePeriod(r)
      PROVE  UNCHANGED mainQueue
  BY <1>6 DEF ServiceDevice, SetDevicePeriod, MakeCall
<1> QED
  BY <1>2, <1>3, <1>4, <1>5, <1>6 DEF Next

(* The block that RunBlock takes, and what it leaves and adds *)
LEMMA BlocksOfRun ==
    ASSUME TypeInv, RunBlock
    PROVE  /\ mainQueue # << >> /\ Head(mainQueue) \in Block /\ Tail(mainQueue) \in Seq(Block)
           /\ Range(mainQueue) = {Head(mainQueue)} \cup Range(Tail(mainQueue))
           /\ \A block \in Block :
                 Range(Append(Tail(mainQueue), block)) = Range(Tail(mainQueue)) \cup {block}
<1>1. mainQueue \in Seq(Block) /\ mainQueue # << >>
  BY DEF TypeInv, QueueInv, RunBlock
<1>2. Head(mainQueue) \in Block /\ Tail(mainQueue) \in Seq(Block)
  BY <1>1, TailElements
<1>3. Range(mainQueue) = {Head(mainQueue)} \cup Range(Tail(mainQueue))
  BY <1>1, RangeTail
<1>4. \A block \in Block :
         Range(Append(Tail(mainQueue), block)) = Range(Tail(mainQueue)) \cup {block}
  BY <1>2, RangeAppend
<1> QED
  BY <1>1, <1>2, <1>3, <1>4

SpinnerInv ==
    refreshing => \/ loads > 0
                  \/ \E block \in Range(mainQueue) : block.do \in {"snapshot", "error"}

LEMMA SpinnerStep == TypeInv /\ SpinnerInv /\ [Next]_vars => SpinnerInv'
<1> SUFFICES ASSUME TypeInv, SpinnerInv, [Next]_vars PROVE SpinnerInv'
  OBVIOUS
<1>1. loads \in Nat
  BY DEF TypeInv, LoadsInv
<1>2. CASE FreshSnapshot \/ CachedSnapshot \/ ListenRejected
  <2>1. PICK block : /\ mainQueue' = Append(mainQueue, block)
                     /\ block.do \in {"snapshot", "error"}
    BY <1>2 DEF FreshSnapshot, CachedSnapshot, ListenRejected
  <2>2. Append(mainQueue, block) # mainQueue /\ ~ RunBlock
    <3>1. mainQueue \in Seq(Block)
      BY DEF TypeInv, QueueInv
    <3>2. Append(mainQueue, block) # mainQueue
      BY <3>1
    <3>3. loads' # loads
      BY <1>1, <1>2 DEF FreshSnapshot, CachedSnapshot, ListenRejected
    <3> QED
      BY <3>2, <3>3 DEF RunBlock
  <2>3. PICK e \in Block : /\ mainQueue' = Append(mainQueue, e)
                           /\ Range(mainQueue') = Range(mainQueue) \cup {e}
    BY <2>1, <2>2, BlocksOfStep
  <2>4. e = block
    <3>1. mainQueue \in Seq(Block) /\ DOMAIN mainQueue = 1 .. Len(mainQueue)
      BY DEF TypeInv, QueueInv
    <3>2. Append(mainQueue, e)[Len(mainQueue) + 1] = e
          /\ Append(mainQueue, block)[Len(mainQueue) + 1] = block
      BY <3>1
    <3> QED
      BY <2>1, <2>3, <3>2
  <2> QED
    BY <2>1, <2>3, <2>4 DEF SpinnerInv
<1>3. CASE PullToRefresh
  BY <1>1, <1>3 DEF PullToRefresh, SpinnerInv
<1>4. CASE RunBlock
  <2> DEFINE block == Head(mainQueue)
             rest  == Tail(mainQueue)
  <2>1. Range(mainQueue) = {block} \cup Range(rest) /\ UNCHANGED loads
    BY <1>4, BlocksOfRun DEF RunBlock
  <2>2. CASE block.do \in {"snapshot", "error"}
    BY <1>4, <2>2 DEF RunBlock, ShowSnapshot, ForgetDevices, SpinnerInv
  <2>3. CASE block.do \notin {"snapshot", "error"}
    <3>1. UNCHANGED refreshing /\ (mainQueue' = rest \/ \E r \in Requests : FinishCall(r))
      BY <1>4, <2>3, BlocksOfRun DEF RunBlock, SetLabels, FinishCall, filterDevices, Block
    <3>2. Range(rest) \subseteq Range(mainQueue')
      <4>1. CASE mainQueue' = rest
        BY <4>1
      <4>2. CASE \E r \in Requests : FinishCall(r)
        <5>1. PICK e : mainQueue' = Append(rest, e)
          BY <4>2 DEF FinishCall
        <5>2. /\ rest \in Seq(Block \cup {e})
          BY <1>4, BlocksOfRun
        <5> HIDE DEF rest
        <5>3. Range(Append(rest, e)) = Range(rest) \cup {e}
          BY <5>2, RangeAppend
        <5> QED
          BY <5>1, <5>3
      <4> QED
        BY <3>1, <4>1, <4>2
    <3> HIDE DEF block, rest
    <3>3. refreshing => \/ loads > 0
                        \/ \E e \in Range(rest) : e.do \in {"snapshot", "error"}
      BY <2>1, <2>3 DEF SpinnerInv
    <3> QED
      BY <2>1, <3>1, <3>2, <3>3 DEF SpinnerInv
  <2> QED
    BY <2>2, <2>3
<1>5. ASSUME UNCHANGED <<refreshing, loads>>, ~ RunBlock
      PROVE  SpinnerInv'
  <2>1. Range(mainQueue) \subseteq Range(mainQueue')
    BY <1>5, BlocksOfStep
  <2> QED
    BY <1>5, <2>1 DEF SpinnerInv
<1>6. ASSUME \/ UNCHANGED vars \/ \E d \in Ids : Report(d) \/ SelectRow(d)
             \/ ServerAppliesWrite \/ WriteAcknowledged \/ WriteRejected
             \/ GoBack \/ PeriodButton \/ ClosePicker
             \/ \E class \in FilterClasses : ToggleFilter(class)
             \/ \E turn \in Turns : TurnWheel(turn)
      PROVE  UNCHANGED <<refreshing, loads>>
  BY <1>6 DEF vars, Report, SelectRow, ServerAppliesWrite, WriteAcknowledged, WriteRejected,
              GoBack, PeriodButton, ClosePicker, ToggleFilter, TurnWheel, OnlyPicker, loadVars
<1>7. ASSUME NEW r \in Requests, ServiceDevice(r) \/ SetDevicePeriod(r)
      PROVE  UNCHANGED <<refreshing, loads>>
  BY <1>7 DEF ServiceDevice, SetDevicePeriod, MakeCall, loadVars
<1> QED
  BY <1>2, <1>3, <1>4, <1>5, <1>6, <1>7 DEF Next

(* Every refresh whose spinner turns has an answer to come                 *)
(* (DevicesViewController.swift:188).                                      *)
THEOREM SpinnerAlwaysAwaitsAnswer == Spec => []SpinnerAwaitsAnswer
<1>1. Init => SpinnerInv
  BY DEF Init, SpinnerInv
<1>2. SpinnerInv => SpinnerAwaitsAnswer
  BY DEF SpinnerInv, SpinnerAwaitsAnswer, Range
<1> QED
  BY <1>1, <1>2, SpinnerStep, TypeInvariant, PTL DEF Spec

RowsInv ==
    current # 0 /\ (\A block \in Range(mainQueue) : block.do # "filterDevices") =>
        displayed = Filtered(loaded, current, checked)

LEMMA RowsStep == TypeInv /\ RowsInv /\ [Next]_vars => RowsInv'
<1> SUFFICES ASSUME TypeInv, RowsInv, [Next]_vars PROVE RowsInv'
  OBVIOUS
<1>1. CASE RunBlock
  <2> DEFINE block == Head(mainQueue)
             rest  == Tail(mainQueue)
  <2>1. /\ Range(mainQueue) = {block} \cup Range(rest)
        /\ \A e \in Block : Range(Append(rest, e)) = Range(rest) \cup {e}
    BY <1>1, BlocksOfRun
  <2>2. CASE ShowSnapshot(block.devices)
    <3> DEFINE shown == [do |-> "filterDevices"]
    <3>1. shown \in Block /\ shown.do = "filterDevices"
      BY DEF Block
    <3>2. mainQueue' = Append(rest, shown)
      BY <2>2 DEF ShowSnapshot
    <3> HIDE DEF rest, shown
    <3>3. shown \in Range(mainQueue')
      BY <2>1, <3>1, <3>2
    <3> QED
      BY <3>1, <3>3 DEF RowsInv
  <2>3. CASE ForgetDevices
    BY <2>3 DEF ForgetDevices, RowsInv
  <2>4. CASE \/ filterDevices
             \/ \E r \in Requests : FinishCall(r)
    BY <2>4 DEF filterDevices, FinishCall, RowsInv
  <2>5. CASE /\ block.do # "filterDevices" /\ mainQueue' = rest
             /\ UNCHANGED <<loaded, current, checked, displayed>>
    <3> HIDE DEF block, rest
    <3> QED
      BY <2>1, <2>5 DEF RowsInv
  <2> QED
    BY <1>1, <2>2, <2>3, <2>4, <2>5, BlocksOfRun DEF RunBlock, SetLabels, listVars, Block
<1>2. CASE \E class \in FilterClasses : ToggleFilter(class)
  BY <1>2 DEF ToggleFilter, RowsInv
<1>3. ASSUME UNCHANGED listVars, ~ RunBlock
      PROVE  RowsInv'
  <2>1. Range(mainQueue) \subseteq Range(mainQueue')
    BY <1>3, BlocksOfStep
  <2> QED
    BY <1>3, <2>1 DEF RowsInv, listVars
<1>4. ASSUME \/ UNCHANGED vars \/ \E d \in Ids : Report(d) \/ SelectRow(d)
             \/ ServerAppliesWrite \/ WriteAcknowledged \/ WriteRejected
             \/ PullToRefresh \/ FreshSnapshot \/ CachedSnapshot \/ ListenRejected
             \/ GoBack \/ PeriodButton \/ ClosePicker
             \/ \E turn \in Turns : TurnWheel(turn)
      PROVE  UNCHANGED listVars
  BY <1>4 DEF vars, Report, SelectRow, ServerAppliesWrite, WriteAcknowledged, WriteRejected,
              PullToRefresh, FreshSnapshot, CachedSnapshot, ListenRejected, GoBack,
              PeriodButton, ClosePicker, TurnWheel, OnlyPicker
<1>5. ASSUME NEW r \in Requests, ServiceDevice(r) \/ SetDevicePeriod(r)
      PROVE  UNCHANGED listVars
  BY <1>5 DEF ServiceDevice, SetDevicePeriod, MakeCall
<1> QED
  BY <1>1, <1>2, <1>3, <1>4, <1>5 DEF Next

(* The rows are those that the buttons let through of the devices as they  *)
(* are, whichever of refreshes, handlers and buttons came last             *)
(* (DevicesViewController.swift:159-173 and :223).                         *)
THEOREM RowsAreAlwaysFiltered == Spec => []RowsAreFiltered
<1>1. Init => RowsInv
  BY DEF Init, RowsInv
<1>2. RowsInv => RowsAreFiltered
  <2> SUFFICES ASSUME RowsInv, \A i \in DOMAIN mainQueue : mainQueue[i].do # "filterDevices"
               PROVE  current # 0 => displayed = Filtered(loaded, current, checked)
    BY DEF RowsAreFiltered
  <2>1. \A block \in Range(mainQueue) : block.do # "filterDevices"
    BY DEF Range
  <2> QED
    BY <2>1 DEF RowsInv
<1> QED
  BY <1>1, <1>2, RowsStep, TypeInvariant, PTL DEF Spec

(* A block that will set labels of the screen for a call of these kinds *)
Awaits(kinds) ==
    \E block \in Range(mainQueue) :
        block.do = "labels" /\ block.visit = details.visit /\ block.kind \in kinds

(* Until a label of the screen is set again a block will set it. *)
LabelsInv ==
    details # Closed /\ ~ details.late =>
        LET object == loaded[details.load][details.id] IN
        /\ details.labels.operationTime = object.operationTime \/ Awaits({"serviceDevice"})
        /\ details.labels.period = object.period \/ Awaits({"setDevicePeriod"})
        /\ details.labels.progress = object \/ Awaits(Kinds)

(* The screen and its object stay, and so do the blocks for its labels. *)
LEMMA LabelsStay ==
    ASSUME LabelsInv, UNCHANGED details,
           details # Closed => loaded'[details.load][details.id] = loaded[details.load][details.id],
           \A e \in Range(mainQueue) : e.do = "labels" /\ e.visit = details.visit =>
              e \in Range(mainQueue')
    PROVE  LabelsInv'
<1>1. ASSUME NEW kinds, Awaits(kinds)
      PROVE  Awaits(kinds)'
  BY <1>1 DEF Awaits
<1> QED
  BY <1>1 DEF LabelsInv

LEMMA LabelsStep == TypeInv /\ LabelsInv /\ [Next]_vars => LabelsInv'
<1> SUFFICES ASSUME TypeInv, LabelsInv, [Next]_vars, details' # Closed PROVE LabelsInv'
  BY DEF LabelsInv
<1>1. /\ loaded \in Seq(Loads) /\ DOMAIN loaded = 1 .. Len(loaded) /\ Len(loaded) \in Nat
      /\ details # Closed =>
            /\ details.load \in DOMAIN loaded /\ details.id \in DOMAIN loaded[details.load]
            /\ details.load # 0 /\ details.labels \in Labels
            /\ details \in [visit : 1 .. MaxVisits, load : DOMAIN loaded, id : Ids,
                            labels : Labels, late : BOOLEAN]
  BY DEF TypeInv, LoadsInv, ScreenInv
<1>2. CASE RunBlock
  <2> DEFINE block == Head(mainQueue)
             rest  == Tail(mainQueue)
  <2>1. /\ Range(mainQueue) = {block} \cup Range(rest) /\ rest \in Seq(Block)
        /\ \A e \in Block : Range(Append(rest, e)) = Range(rest) \cup {e}
        /\ block \in Block /\ block \in Range(mainQueue)
    BY <1>2, BlocksOfRun
  <2>2. details # Closed
    <3> SUFFICES ASSUME details = Closed PROVE details' = details
      OBVIOUS
    <3>1. block.do = "labels" => details.visit # block.visit
      BY <2>1 DEF Block, Closed
    <3> QED
      BY <1>2, <3>1 DEF RunBlock, ShowSnapshot, ForgetDevices, SetLabels, FinishCall,
                        filterDevices, IsOfEarlierVisit
  <2>3. CASE ShowSnapshot(block.devices) /\ block.do = "snapshot"
    <3> DEFINE shown == [do |-> "filterDevices"]
    <3>1. shown \in Block /\ mainQueue' = Append(rest, shown) /\ UNCHANGED details
          /\ loaded' = Append(loaded, block.devices) /\ block.devices \in Loads
      BY <2>1, <2>3 DEF ShowSnapshot, Block
    <3>2. loaded'[details.load] = loaded[details.load]
      BY <1>1, <2>2, <3>1
    <3> HIDE DEF rest, shown, block
    <3>3. Range(rest) \subseteq Range(mainQueue')
      BY <2>1, <3>1
    <3> QED
      BY <2>1, <2>3, <3>1, <3>2, <3>3, LabelsStay
  <2>4. CASE /\ block.do # "labels" /\ mainQueue' = rest /\ UNCHANGED <<loaded, details>>
    <3> HIDE DEF block, rest
    <3> QED
      BY <2>1, <2>4, LabelsStay
  <2>5. CASE block.do = "labels" /\ SetLabels(block.visit, block.kind)
    <3>1. CASE details.visit # block.visit
      <4>1. mainQueue' = rest /\ UNCHANGED <<loaded, details>>
        BY <2>5, <3>1 DEF SetLabels
      <4> HIDE DEF block, rest
      <4> QED
        BY <2>1, <3>1, <4>1, LabelsStay
    <3>2. CASE details.visit = block.visit
      <4> DEFINE object == loaded[details.load][details.id]
      <4>1. /\ details' = [details EXCEPT !.labels = IF block.kind = "serviceDevice"
                                                     THEN ServiceLabels(@) ELSE PeriodLabels(@)]
            /\ mainQueue' = rest /\ UNCHANGED loaded
        BY <2>5, <3>2 DEF SetLabels
      <4>2. device = object
        BY <1>1, <2>2 DEF device, Objects
      <4> HIDE DEF block, rest, object
      <4>3. /\ details'.load = details.load /\ details'.id = details.id
            /\ details'.visit = details.visit /\ details'.late = details.late
            /\ details'.labels.progress = object
            /\ IF block.kind = "serviceDevice"
               THEN /\ details'.labels.operationTime = object.operationTime
                    /\ details'.labels.period = details.labels.period
               ELSE /\ details'.labels.period = object.period
                    /\ details'.labels.operationTime = details.labels.operationTime
        BY <1>1, <2>2, <4>1, <4>2 DEF ServiceLabels, PeriodLabels, Labels
      <4>4. ASSUME NEW kind, Awaits({kind}), kind # block.kind
            PROVE  Awaits({kind})'
        BY <2>1, <4>1, <4>3, <4>4 DEF Awaits
      <4>5. block.kind \in Kinds
        BY <2>1, <2>5 DEF Block
      <4>6. ASSUME ~ details.late
            PROVE  /\ details.labels.operationTime = object.operationTime
                         \/ Awaits({"serviceDevice"})
                   /\ details.labels.period = object.period \/ Awaits({"setDevicePeriod"})
        BY <2>2, <4>6 DEF LabelsInv, object
      <4>7. loaded'[details'.load][details'.id] = object
        BY <4>1, <4>3 DEF object
      <4>8. CASE block.kind = "serviceDevice"
        BY <4>3, <4>4, <4>6, <4>7, <4>8 DEF LabelsInv
      <4>9. CASE block.kind = "setDevicePeriod"
        BY <4>3, <4>4, <4>6, <4>7, <4>9 DEF LabelsInv
      <4> QED
        BY <4>5, <4>8, <4>9 DEF Kinds
    <3> QED
      BY <3>1, <3>2
  <2>6. CASE block.do = "answer" /\ FinishCall(block.request)
    <3> DEFINE call   == asked[block.request]
               labels == [do |-> "labels", visit |-> call.visit, kind |-> call.kind]
    <3>1. call \in Call /\ call.load \in DOMAIN loaded /\ call.id \in DOMAIN loaded[call.load]
      <4>1. 1 \in DOMAIN mainQueue /\ block = mainQueue[1]
        BY <1>2, TailElements DEF RunBlock, TypeInv, QueueInv
      <4>2. asked[block.request] # NoCall /\ block.request \in Requests
        BY <2>1, <2>6, <4>1 DEF Block, TypeInv, QueueInv
      <4> QED
        BY <4>2 DEF TypeInv, CallsInv
    <3>2. /\ labels \in Block /\ labels.do = "labels" /\ labels.visit = call.visit
          /\ labels.kind = call.kind /\ call.kind \in Kinds
      BY <3>1 DEF Block, Call, Kinds
    <3>3. /\ mainQueue' = Append(rest, labels)
          /\ loaded' = [loaded EXCEPT ![call.load][call.id] = Changed(@, call)]
          /\ details' = IF IsOfEarlierVisit(call) THEN [details EXCEPT !.late = TRUE] ELSE details
      BY <2>6 DEF FinishCall
    <3>4. IF details.load = call.load /\ details.id = call.id
          THEN loaded'[details.load][details.id] = Changed(loaded[details.load][details.id], call)
          ELSE loaded'[details.load][details.id] = loaded[details.load][details.id]
      BY <1>1, <2>2, <3>1, <3>3
    <3> HIDE DEF call, labels, block, rest
    <3>5. Range(rest) \subseteq Range(mainQueue') /\ labels \in Range(mainQueue')
      BY <2>1, <3>2, <3>3
    <3>6. CASE IsOfEarlierVisit(call)
      <4>1. details'.late
        BY <1>1, <2>2, <3>3, <3>6
      <4> QED
        BY <4>1 DEF LabelsInv
    <3>7. CASE ~ IsOfEarlierVisit(call)
      <4>1. details' = details
        BY <3>3, <3>7
      <4>2. ASSUME NEW e \in Range(mainQueue), e.do = "labels"
            PROVE  e \in Range(mainQueue')
        BY <2>1, <2>6, <3>5, <4>2
      <4>3. CASE details.load = call.load /\ details.id = call.id
        <5>1. details.visit = call.visit
          BY <2>2, <3>7, <4>3 DEF IsOfEarlierVisit
        <5>2. ASSUME NEW kinds, Awaits(kinds) \/ call.kind \in kinds
              PROVE  Awaits(kinds)'
          BY <3>2, <3>5, <4>1, <4>2, <5>1, <5>2 DEF Awaits
        <5>3. loaded[details.load][details.id] \in Device
          BY <1>1, <2>2 DEF Loads
        <5>4. PICK object \in Device : object = loaded[details.load][details.id]
          BY <5>3
        <5>5. PICK after : /\ after = loaded'[details.load][details.id]
                           /\ after = Changed(object, call)
          BY <3>4, <4>3, <5>4
        <5>6. IF call.kind = "serviceDevice" THEN after.period = object.period
                                             ELSE after.operationTime = object.operationTime
          BY <5>5 DEF Changed, Device
        <5>7. call.kind = "serviceDevice" \/ call.kind = "setDevicePeriod"
          BY <3>2 DEF Kinds
        <5>8. /\ Awaits(Kinds)'
              /\ call.kind = "serviceDevice" => Awaits({"serviceDevice"})'
              /\ call.kind = "setDevicePeriod" => Awaits({"setDevicePeriod"})'
          BY <3>2, <5>2 DEF Kinds
        <5>9. ASSUME ~ details.late
              PROVE  /\ details.labels.operationTime = object.operationTime
                           \/ Awaits({"serviceDevice"})
                     /\ details.labels.period = object.period \/ Awaits({"setDevicePeriod"})
          BY <2>2, <5>4, <5>9 DEF LabelsInv
        <5>10. ASSUME ~ details.late
               PROVE  /\ details.labels.operationTime = after.operationTime
                            \/ Awaits({"serviceDevice"})'
                      /\ details.labels.period = after.period \/ Awaits({"setDevicePeriod"})'
          BY <5>2, <5>6, <5>7, <5>8, <5>9, <5>10
        <5> QED
          BY <4>1, <5>5, <5>8, <5>10 DEF LabelsInv
      <4>4. CASE ~ (details.load = call.load /\ details.id = call.id)
        BY <3>4, <4>1, <4>2, <4>4, LabelsStay
      <4> QED
        BY <4>3, <4>4
    <3> QED
      BY <3>6, <3>7
  <2> QED
    BY <1>2, <2>3, <2>4, <2>5, <2>6 DEF RunBlock, ForgetDevices, filterDevices, listVars
<1>3. CASE \E d \in Ids : SelectRow(d)
  <2>1. PICK d \in Ids : SelectRow(d)
    BY <1>3
  <2>2. displayed.load # 0
    BY <2>1 DEF SelectRow, TypeInv, DisplayInv, Objects
  <2>3. /\ details'.labels = LabelsOf(loaded[details'.load][details'.id]) /\ UNCHANGED loaded
    BY <2>1, <2>2 DEF SelectRow, Objects, listVars
  <2> QED
    BY <2>3 DEF LabelsInv, LabelsOf
<1>4. ASSUME UNCHANGED <<loaded, details>>, ~ RunBlock
      PROVE  LabelsInv'
  <2>1. Range(mainQueue) \subseteq Range(mainQueue')
    BY <1>4, BlocksOfStep
  <2> QED
    BY <1>4, <2>1, LabelsStay
<1>5. ASSUME \/ UNCHANGED vars \/ \E d \in Ids : Report(d)
             \/ ServerAppliesWrite \/ WriteAcknowledged \/ WriteRejected
             \/ PullToRefresh \/ FreshSnapshot \/ CachedSnapshot \/ ListenRejected
             \/ PeriodButton \/ ClosePicker
             \/ \E class \in FilterClasses : ToggleFilter(class)
             \/ \E turn \in Turns : TurnWheel(turn)
      PROVE  UNCHANGED <<loaded, details>>
  BY <1>5 DEF vars, Report, ServerAppliesWrite, WriteAcknowledged, WriteRejected,
              PullToRefresh, FreshSnapshot, CachedSnapshot, ListenRejected, ToggleFilter,
              PeriodButton, ClosePicker, TurnWheel, OnlyPicker, listVars, screenVars
<1>6. ASSUME NEW r \in Requests, ServiceDevice(r) \/ SetDevicePeriod(r)
      PROVE  UNCHANGED <<loaded, details>>
  BY <1>6 DEF ServiceDevice, SetDevicePeriod, MakeCall, listVars
<1>7. ~ GoBack
  BY DEF GoBack
<1> QED
  BY <1>2, <1>3, <1>4, <1>5, <1>6, <1>7 DEF Next

(* The labels of the Details screen are its device, though each call sets  *)
(* its own label and the progress only, unless a call of an earlier visit  *)
(* came in late (DetailsViewController.swift:119-126 and :163-169).        *)
THEOREM LabelsAlwaysShowDevice == Spec => []LabelsShowDevice
<1>1. Init => LabelsInv
  BY DEF Init, LabelsInv
<1>2. TypeInv /\ LabelsInv => LabelsShowDevice
  <2> SUFFICES ASSUME TypeInv, LabelsInv, details # Closed, mainQueue = << >>, ~ details.late
               PROVE  details.labels = LabelsOf(device)
    BY DEF LabelsShowDevice
  <2>1. Range(mainQueue) = {}
    BY DEF Range
  <2>2. details.load # 0 /\ details.labels \in Labels
    BY DEF TypeInv, ScreenInv, LoadsInv
  <2>3. \A kinds : ~ Awaits(kinds)
    BY <2>1 DEF Awaits
  <2>4. /\ details.labels.operationTime = device.operationTime
        /\ details.labels.period = device.period
        /\ details.labels.progress = device
    BY <2>2, <2>3 DEF LabelsInv, Objects, device
  <2> QED
    BY <2>2, <2>4 DEF Labels, LabelsOf
<1> QED
  BY <1>1, <1>2, LabelsStep, TypeInvariant, PTL DEF Spec

-----------------------------------------------------------------------------
(* Without a failed refresh DataCenter.devices is never empty again, and   *)
(* no load has fewer devices than one before it.                           *)

(* Of the loads of a list, and of those that wait in a queue to be added *)
Ordered(queue, list) ==
    /\ \A i \in DOMAIN queue : queue[i].do # "error"
    /\ \A m, n \in DOMAIN list : m <= n => DOMAIN list[m] \subseteq DOMAIN list[n]
    /\ \A i \in DOMAIN queue : queue[i].do = "snapshot" =>
          \A n \in DOMAIN list : DOMAIN list[n] \subseteq DOMAIN queue[i].devices
    /\ \A i, j \in DOMAIN queue :
          i <= j /\ queue[i].do = "snapshot" /\ queue[j].do = "snapshot" =>
             DOMAIN queue[i].devices \subseteq DOMAIN queue[j].devices

LoadedInv ==
    faults = 0 => ~ trap /\ current = Len(loaded) /\ Ordered(mainQueue, loaded)

LEMMA OrderedAppend ==
    ASSUME NEW q \in Seq(Block), NEW list, NEW e \in Block, Ordered(q, list), e.do # "error",
           e.do = "snapshot" =>
              /\ \A n \in DOMAIN list : DOMAIN list[n] \subseteq DOMAIN e.devices
              /\ \A i \in DOMAIN q : q[i].do = "snapshot" =>
                    DOMAIN q[i].devices \subseteq DOMAIN e.devices
    PROVE  Ordered(Append(q, e), list)
<1> DEFINE p == Append(q, e)
<1>1. /\ DOMAIN q = 1 .. Len(q) /\ Len(q) \in Nat /\ DOMAIN p = 1 .. Len(q) + 1
      /\ \A i \in 1 .. Len(q) : p[i] = q[i]
      /\ p[Len(q) + 1] = e
  BY AppendedElements
<1> HIDE DEF p
<1>2. \A i \in DOMAIN p : \/ i \in DOMAIN q /\ i < Len(q) + 1 /\ p[i] = q[i]
                          \/ i = Len(q) + 1 /\ p[i] = e
  BY <1>1
<1>3. ASSUME NEW i \in DOMAIN p, NEW j \in DOMAIN p, i <= j,
             p[i].do = "snapshot", p[j].do = "snapshot"
      PROVE  DOMAIN p[i].devices \subseteq DOMAIN p[j].devices
  BY <1>1, <1>2, <1>3 DEF Ordered
<1>4. \A i \in DOMAIN p : p[i].do # "error"
  BY <1>2 DEF Ordered
<1>5. \A i \in DOMAIN p : p[i].do = "snapshot" =>
         \A n \in DOMAIN list : DOMAIN list[n] \subseteq DOMAIN p[i].devices
  BY <1>2 DEF Ordered
<1> QED
  BY <1>3, <1>4, <1>5 DEF Ordered, p

LEMMA OrderedTail ==
    ASSUME NEW q \in Seq(Block), q # << >>, NEW list \in Seq(Loads), Ordered(q, list)
    PROVE  /\ Ordered(Tail(q), list)
           /\ Head(q).do = "snapshot" => Ordered(Tail(q), Append(list, Head(q).devices))
<1> DEFINE t == Tail(q)
           h == Head(q)
<1>1. /\ h = q[1] /\ 1 \in DOMAIN q /\ h \in Block
      /\ DOMAIN q = 1 .. Len(q) /\ DOMAIN t = 1 .. Len(q) - 1 /\ Len(q) \in Nat \ {0}
      /\ \A i \in 1 .. Len(q) - 1 : t[i] = q[i + 1]
  BY TailElements
<1> HIDE DEF t, h
<1>2. \A i \in DOMAIN t : i \in Nat \ {0} /\ i + 1 \in DOMAIN q /\ t[i] = q[i + 1]
  BY <1>1
<1>3. Ordered(t, list)
  <2>1. ASSUME NEW i \in DOMAIN t, NEW j \in DOMAIN t, i <= j,
               t[i].do = "snapshot", t[j].do = "snapshot"
        PROVE  DOMAIN t[i].devices \subseteq DOMAIN t[j].devices
    <3>1. i + 1 <= j + 1
      BY <1>2, <2>1
    <3> QED
      BY <1>2, <2>1, <3>1 DEF Ordered
  <2> QED
    BY <1>2, <2>1 DEF Ordered
<1>4. ASSUME h.do = "snapshot"
      PROVE  Ordered(t, Append(list, h.devices))
  <2> DEFINE more == Append(list, h.devices)
  <2>1. h.devices \in Loads
    BY <1>1, <1>4 DEF Block
  <2>2. /\ DOMAIN list = 1 .. Len(list) /\ Len(list) \in Nat /\ DOMAIN more = 1 .. Len(list) + 1
        /\ \A n \in 1 .. Len(list) : more[n] = list[n]
        /\ more[Len(list) + 1] = h.devices
    BY <2>1, AppendedElements
  <2> HIDE DEF more
  <2>3. \A n \in DOMAIN more : \/ n \in DOMAIN list /\ n < Len(list) + 1 /\ more[n] = list[n]
                               \/ n = Len(list) + 1 /\ more[n] = h.devices
    BY <2>2
  <2>4. \A n \in DOMAIN list : DOMAIN list[n] \subseteq DOMAIN h.devices
    BY <1>1, <1>4 DEF Ordered
  <2>5. \A m, n \in DOMAIN more : m <= n => DOMAIN more[m] \subseteq DOMAIN more[n]
    BY <2>2, <2>3, <2>4 DEF Ordered
  <2>6. ASSUME NEW i \in DOMAIN t, t[i].do = "snapshot", NEW n \in DOMAIN more
        PROVE  DOMAIN more[n] \subseteq DOMAIN t[i].devices
    <3>1. 1 <= i + 1 /\ i + 1 \in DOMAIN q /\ q[i + 1] = t[i]
      BY <1>2
    <3>2. DOMAIN h.devices \subseteq DOMAIN t[i].devices
      BY <1>1, <1>4, <2>6, <3>1 DEF Ordered
    <3>3. n \in DOMAIN list => DOMAIN list[n] \subseteq DOMAIN t[i].devices
      BY <2>6, <3>1 DEF Ordered
    <3> QED
      BY <2>3, <3>2, <3>3
  <2>7. Ordered(t, more)
    BY <1>3, <2>5, <2>6 DEF Ordered
  <2> QED
    BY <2>7 DEF more
<1> QED
  BY <1>3, <1>4 DEF t, h

(* A handler that changes an object leaves the devices of every load. *)
LEMMA OrderedSame ==
    ASSUME NEW q, NEW list, NEW other, Ordered(q, list), DOMAIN other = DOMAIN list,
           \A n \in DOMAIN list : DOMAIN other[n] = DOMAIN list[n]
    PROVE  Ordered(q, other)
  BY DEF Ordered

LEMMA LoadedRun ==
    ASSUME TypeInv, ~ trap, current = Len(loaded), Ordered(mainQueue, loaded), RunBlock
    PROVE  ~ trap' /\ current' = Len(loaded') /\ Ordered(mainQueue', loaded')
<1> DEFINE block == Head(mainQueue)
           rest  == Tail(mainQueue)
<1>1. /\ mainQueue \in Seq(Block) /\ mainQueue # << >> /\ block \in Block
      /\ rest \in Seq(Block) /\ block = mainQueue[1] /\ 1 \in DOMAIN mainQueue
      /\ loaded \in Seq(Loads)
  <2>1. mainQueue \in Seq(Block) /\ mainQueue # << >> /\ loaded \in Seq(Loads)
    BY DEF RunBlock, TypeInv, QueueInv, LoadsInv
  <2> QED
    BY <2>1, TailElements
<1>2. Ordered(rest, loaded) /\ block.do # "error"
  <2>1. Ordered(rest, loaded)
    BY <1>1, OrderedTail
  <2> QED
    BY <1>1, <2>1 DEF Ordered
<1>3. ~ trap'
  BY DEF RunBlock
<1>4. CASE block.do = "snapshot" /\ ShowSnapshot(block.devices)
  <2> DEFINE shown == [do |-> "filterDevices"]
             list  == Append(loaded, block.devices)
  <2>1. shown \in Block /\ shown.do = "filterDevices"
    BY DEF Block
  <2>2. /\ mainQueue' = Append(rest, shown) /\ loaded' = list
        /\ current' = Len(loaded) + 1
    BY <1>4 DEF ShowSnapshot
  <2>3. Ordered(rest, list)
    BY <1>1, <1>4, OrderedTail
  <2>4. Len(list) = Len(loaded) + 1
    BY <1>1, <1>4 DEF Block
  <2> HIDE DEF rest, shown, list
  <2>5. Ordered(Append(rest, shown), list)
    BY <1>1, <2>1, <2>3, OrderedAppend
  <2> QED
    BY <1>3, <2>2, <2>4, <2>5
<1>5. CASE block.do = "answer" /\ FinishCall(block.request)
  <2> DEFINE call   == asked[block.request]
             labels == [do |-> "labels", visit |-> call.visit, kind |-> call.kind]
  <2>1. call \in Call /\ call.load \in DOMAIN loaded /\ call.id \in DOMAIN loaded[call.load]
    BY <1>1, <1>5 DEF Block, TypeInv, QueueInv, CallsInv
  <2>2. labels \in Block /\ labels.do = "labels"
    BY <2>1 DEF Block, Call, Kinds
  <2>3. /\ mainQueue' = Append(rest, labels) /\ UNCHANGED current
        /\ loaded' = [loaded EXCEPT ![call.load][call.id] = Changed(@, call)]
    BY <1>5 DEF FinishCall
  <2>4. /\ DOMAIN loaded' = DOMAIN loaded /\ Len(loaded') = Len(loaded)
        /\ \A n \in DOMAIN loaded : DOMAIN loaded'[n] = DOMAIN loaded[n]
    BY <1>1, <2>1, <2>3
  <2> HIDE DEF rest, labels, call
  <2>5. Ordered(rest, loaded')
    BY <1>2, <2>4, OrderedSame
  <2>6. Ordered(Append(rest, labels), loaded')
    BY <1>1, <2>2, <2>5, OrderedAppend
  <2> QED
    BY <1>3, <2>3, <2>4, <2>6
<1>6. CASE mainQueue' = rest /\ UNCHANGED <<loaded, current>>
  BY <1>2, <1>3, <1>6
<1> QED
  BY <1>2, <1>4, <1>5, <1>6 DEF RunBlock, listVars, SetLabels, filterDevices

LEMMA LoadedStep == TypeInv /\ LoadedInv /\ [Next]_vars => LoadedInv'
<1> SUFFICES ASSUME TypeInv, LoadedInv, [Next]_vars, faults' = 0
             PROVE  ~ trap' /\ current' = Len(loaded') /\ Ordered(mainQueue', loaded')
  BY DEF LoadedInv
<1> USE DEF LoadedInv
<1>1. faults \in Nat
  BY DEF TypeInv, FlagsInv
<1>2. CASE WriteRejected \/ ListenRejected
  BY <1>1, <1>2 DEF WriteRejected, ListenRejected
<1>3. CASE RunBlock
  BY <1>3, LoadedRun DEF RunBlock
<1>4. CASE FreshSnapshot \/ CachedSnapshot \/ WriteAcknowledged
  <2>1. faults = 0 /\ UNCHANGED <<loaded, current, trap>>
    BY <1>4 DEF FreshSnapshot, CachedSnapshot, WriteAcknowledged, listVars
  <2>2. PICK e \in Block :
           /\ mainQueue' = Append(mainQueue, e) /\ e.do # "error"
           /\ e.do = "snapshot" => DOMAIN cache \subseteq DOMAIN e.devices
    <3>1. View(cloud) \in Loads /\ View(cache) \in Loads
          /\ DOMAIN View(cloud) = DOMAIN cloud /\ DOMAIN View(cache) = DOMAIN cache
      BY ListBounds, ViewIsLoad DEF TypeInv, StoreInv
    <3>2. DOMAIN cache \subseteq DOMAIN cloud
      BY DEF TypeInv, StoreInv
    <3>3. CASE FreshSnapshot
      <4> DEFINE e == [do |-> "snapshot", devices |-> View(cloud)]
      <4>1. e \in Block /\ e.do = "snapshot" /\ e.devices = View(cloud)
        BY <3>1 DEF Block
      <4>2. mainQueue' = Append(mainQueue, e)
        BY <3>3 DEF FreshSnapshot
      <4> HIDE DEF e
      <4> QED
        BY <3>1, <3>2, <4>1, <4>2
    <3>4. CASE CachedSnapshot
      <4> DEFINE e == [do |-> "snapshot", devices |-> View(cache)]
      <4>1. e \in Block /\ e.do = "snapshot" /\ e.devices = View(cache)
        BY <3>1 DEF Block
      <4>2. mainQueue' = Append(mainQueue, e)
        BY <3>4 DEF CachedSnapshot
      <4> HIDE DEF e
      <4> QED
        BY <3>1, <4>1, <4>2
    <3>5. CASE WriteAcknowledged
      <4> DEFINE e == [do |-> "answer", request |-> Head(pipe), success |-> TRUE]
      <4>1. pipe \in Seq(Requests) /\ pipe # << >>
        BY <3>5 DEF WriteAcknowledged, TypeInv, StoreInv
      <4>2. Head(pipe) \in Requests
        BY <4>1, TailElements
      <4>3. e \in Block /\ e.do = "answer"
        BY <4>2 DEF Block
      <4>4. mainQueue' = Append(mainQueue, e)
        BY <3>5 DEF WriteAcknowledged
      <4> HIDE DEF e
      <4> QED
        BY <4>3, <4>4
    <3> QED
      BY <1>4, <3>3, <3>4, <3>5
  <2>3. e.do = "snapshot" =>
           /\ \A n \in DOMAIN loaded : DOMAIN loaded[n] \subseteq DOMAIN e.devices
           /\ \A i \in DOMAIN mainQueue : mainQueue[i].do = "snapshot" =>
                 DOMAIN mainQueue[i].devices \subseteq DOMAIN e.devices
    BY <2>2 DEF TypeInv, LoadsInv, QueueInv
  <2>4. Ordered(Append(mainQueue, e), loaded)
    <3>1. mainQueue \in Seq(Block)
      BY DEF TypeInv, QueueInv
    <3> QED
      BY <2>1, <2>2, <2>3, <3>1, OrderedAppend
  <2> QED
    BY <2>1, <2>2, <2>4
<1>5. ASSUME NEW r \in Requests, ServiceDevice(r) \/ SetDevicePeriod(r)
      PROVE  ~ trap' /\ current' = Len(loaded') /\ Ordered(mainQueue', loaded')
  <2>1. PICK call : MakeCall(r, call)
    BY <1>5 DEF ServiceDevice, SetDevicePeriod
  <2>2. details # Closed
    BY <1>5 DEF ServiceDevice, SetDevicePeriod, TypeInv, ScreenInv
  <2>3. faults = 0 /\ UNCHANGED <<loaded, current, mainQueue>>
    BY <2>1 DEF MakeCall, listVars
  <2>4. details.load \in DOMAIN loaded /\ details.id \in DOMAIN loaded[details.load]
    BY <2>2 DEF TypeInv, ScreenInv
  <2>5. current \in DOMAIN loaded /\ details.load <= current /\ current # 0
    BY <2>3, <2>4 DEF TypeInv, LoadsInv
  <2>6. details.id \in DOMAIN Objects(loaded, current)
    BY <2>3, <2>4, <2>5 DEF Objects, Ordered
  <2> QED
    BY <2>1, <2>3, <2>6 DEF MakeCall
<1>6. ASSUME UNCHANGED <<trap, current, loaded, mainQueue, faults>>
      PROVE  ~ trap' /\ current' = Len(loaded') /\ Ordered(mainQueue', loaded')
  BY <1>6
<1>7. ASSUME \/ UNCHANGED vars \/ \E d \in Ids : Report(d) \/ SelectRow(d)
             \/ ServerAppliesWrite \/ PullToRefresh \/ GoBack \/ PeriodButton \/ ClosePicker
             \/ \E class \in FilterClasses : ToggleFilter(class)
             \/ \E turn \in Turns : TurnWheel(turn)
      PROVE  UNCHANGED <<trap, current, loaded, mainQueue, faults>>
  BY <1>7 DEF vars, Report, SelectRow, ServerAppliesWrite, PullToRefresh, GoBack, PeriodButton,
              ClosePicker, ToggleFilter, TurnWheel, OnlyPicker, listVars
<1> QED
  BY <1>2, <1>3, <1>4, <1>5, <1>6, <1>7 DEF Next

LEMMA LoadedInit == Init => LoadedInv
  BY DEF Init, LoadedInv, Ordered

LEMMA LoadedInvariant == Spec => [](TypeInv /\ LoadedInv)
<1> QED
  BY TypeInit, TypeStep, LoadedInit, LoadedStep, PTL DEF Spec

(* It takes a failed refresh for the device of the Details screen to be    *)
(* missing from DataCenter.devices, at whose forced unwrap the app stops   *)
(* (DataCenter.swift:22, :71 and :101).                                    *)
THEOREM DeviceIsAlwaysLoaded == Spec => []DeviceIsLoadedUnlessRefreshFails
<1>1. LoadedInv => DeviceIsLoadedUnlessRefreshFails
  BY DEF LoadedInv, DeviceIsLoadedUnlessRefreshFails, DeviceIsLoaded
<1> QED
  BY <1>1, LoadedInvariant, PTL

-----------------------------------------------------------------------------
(* The list and the cloud.  Versions first: each write on the stream that  *)
(* the server has applied made a later version of its document than those  *)
(* before it, and the cached document is as new as its version says.       *)

WireInv ==
    /\ \A i, j \in DOMAIN pipe : pipe[i] = pipe[j] => i = j
    /\ \A i, j \in 1 .. onServer : i < j /\ asked[pipe[i]].id = asked[pipe[j]].id =>
          committed[pipe[i]] < committed[pipe[j]]
    /\ \A i \in 1 .. onServer : committed[pipe[i]] <= cloud[asked[pipe[i]].id].version
    /\ \A d \in DOMAIN cache : cache[d].version <= cloud[d].version

(* The cached document has all writes of this kind that the server has     *)
(* applied and not acknowledged.                                           *)
HasApplied(d, kind) ==
    \A i \in Pending(d, kind) : i <= onServer => committed[pipe[i]] <= cache[d].version

(* The last write of the period that the server has applied *)
IsLastApplied(i, d) ==
    /\ i \in Pending(d, "setDevicePeriod") /\ i <= onServer
    /\ \A j \in Pending(d, "setDevicePeriod") : j <= onServer => j <= i

CacheInv ==
    /\ \A d \in DOMAIN cache :
          /\ HasApplied(d, "setDevicePeriod") => cache[d].period = cloud[d].period
          /\ HasApplied(d, "serviceDevice") => cache[d].operationTime <= cloud[d].operationTime
    /\ \A d \in Ids : \A i \in DOMAIN pipe :
          IsLastApplied(i, d) => cloud[d].period = asked[pipe[i]].newPeriod

LEMMA PipeTypes ==
    ASSUME TypeInv
    PROVE  /\ pipe \in Seq(Requests) /\ DOMAIN pipe = 1 .. Len(pipe) /\ Len(pipe) \in Nat
           /\ onServer \in 0 .. Len(pipe) /\ onServer \in Nat
           /\ \A i \in DOMAIN pipe :
                 /\ pipe[i] \in Requests /\ asked[pipe[i]] \in Call /\ asked[pipe[i]].id \in Ids
                 /\ asked[pipe[i]].kind \in {"serviceDevice", "setDevicePeriod"}
                 /\ asked[pipe[i]].id \in DOMAIN cache /\ committed[pipe[i]] \in Nat
                 /\ asked[pipe[i]].kind = "setDevicePeriod" =>
                       asked[pipe[i]].newPeriod \in Nat \ {0}
           /\ cloud \in [Ids -> Document] /\ DOMAIN cache \subseteq Ids
           /\ \A d \in Ids : /\ cloud[d].version \in Nat /\ cloud[d].operationTime \in Nat
                             /\ cloud[d].period \in Nat
           /\ \A d \in DOMAIN cache : /\ cache[d].version \in Nat /\ cache[d].operationTime \in Nat
                                      /\ cache[d].period \in Nat
<1>1. pipe \in Seq(Requests) /\ onServer \in 0 .. Len(pipe) /\ committed \in [Requests -> Nat]
      /\ \A i \in DOMAIN pipe : asked[pipe[i]] # NoCall
  BY DEF TypeInv, StoreInv
<1>2. DOMAIN pipe = 1 .. Len(pipe) /\ Len(pipe) \in Nat /\ onServer \in Nat
  BY <1>1
<1>3. ASSUME NEW i \in DOMAIN pipe
      PROVE  /\ pipe[i] \in Requests /\ asked[pipe[i]] \in Call /\ asked[pipe[i]].id \in Ids
             /\ asked[pipe[i]].kind \in {"serviceDevice", "setDevicePeriod"}
             /\ asked[pipe[i]].id \in DOMAIN cache /\ committed[pipe[i]] \in Nat
             /\ asked[pipe[i]].kind = "setDevicePeriod" =>
                   asked[pipe[i]].newPeriod \in Nat \ {0}
  <2>1. pipe[i] \in Requests /\ asked[pipe[i]] \in Call /\ committed[pipe[i]] \in Nat
    BY <1>1, <1>2 DEF TypeInv, CallsInv
  <2>2. asked[pipe[i]].id \in DOMAIN cache
    BY <1>1, <2>1 DEF TypeInv, CallsInv, LoadsInv
  <2> QED
    BY <2>1, <2>2 DEF Call
<1>4. cloud \in [Ids -> Document] /\ DOMAIN cache \subseteq Ids
      /\ \A d \in DOMAIN cache : cache[d] \in Document
  BY DEF TypeInv, StoreInv
<1>5. \A x \in Document : x.version \in Nat /\ x.operationTime \in Nat /\ x.period \in Nat
  BY DEF Document
<1> QED
  BY <1>1, <1>2, <1>3, <1>4, <1>5

(* What a report, and a write that the server applies, do to the numbers *)
LEMMA ReportNumbers ==
    ASSUME TypeInv, NEW d \in Ids, Report(d)
    PROVE  /\ UNCHANGED <<cache, pipe, onServer, committed, asked>>
           /\ \A e \in Ids : /\ cloud'[e].period = cloud[e].period
                             /\ cloud[e].operationTime <= cloud'[e].operationTime
                             /\ cloud[e].version <= cloud'[e].version
                             /\ cloud'[e].operationTime \in Nat /\ cloud'[e].version \in Nat
<1>1. UNCHANGED <<cache, pipe, onServer, committed, asked>>
  BY DEF Report
<1>2. cloud' = [cloud EXCEPT ![d] = [cloud[d] EXCEPT !.operationTime = @ + 1,
                                                     !.version = @ + 1]]
  BY DEF Report, TypeInv, StoreInv, Document
<1>3. cloud[d] \in Document /\ cloud \in [Ids -> Document]
  BY DEF TypeInv, StoreInv
<1>4. /\ cloud'[d].period = cloud[d].period
      /\ cloud'[d].operationTime = cloud[d].operationTime + 1
      /\ cloud'[d].version = cloud[d].version + 1
      /\ \A e \in Ids : e # d => cloud'[e] = cloud[e]
  BY <1>2, <1>3 DEF Document
<1> QED
  BY <1>1, <1>4, PipeTypes

LEMMA ServerNumbers ==
    ASSUME TypeInv, ServerAppliesWrite
    PROVE  LET c == asked[pipe[onServer + 1]]
               x == c.id IN
           /\ onServer + 1 \in DOMAIN pipe /\ x \in Ids
           /\ c.kind \in {"serviceDevice", "setDevicePeriod"}
           /\ cloud'[x].version = cloud[x].version + 1
           /\ cloud'[x].period = IF c.kind = "setDevicePeriod" THEN c.newPeriod ELSE cloud[x].period
           /\ cloud'[x].operationTime = IF c.kind = "serviceDevice" THEN 0
                                        ELSE cloud[x].operationTime
           /\ \A e \in Ids : e # x => cloud'[e] = cloud[e]
<1> DEFINE c == asked[pipe[onServer + 1]]
           x == c.id
<1>0. /\ onServer + 1 \in DOMAIN pipe /\ x \in Ids
      /\ c.kind \in {"serviceDevice", "setDevicePeriod"}
  BY PipeTypes DEF ServerAppliesWrite
<1>1. cloud' = [cloud EXCEPT ![x] = [Changed(cloud[x], c) EXCEPT !.version = @ + 1]]
  BY DEF ServerAppliesWrite
<1>2. cloud[x] \in Document /\ cloud \in [Ids -> Document]
  BY <1>0 DEF TypeInv, StoreInv
<1> HIDE DEF c, x
<1>3. /\ Changed(cloud[x], c).version = cloud[x].version
      /\ Changed(cloud[x], c).period = IF c.kind = "setDevicePeriod" THEN c.newPeriod
                                       ELSE cloud[x].period
      /\ Changed(cloud[x], c).operationTime = IF c.kind = "serviceDevice" THEN 0
                                              ELSE cloud[x].operationTime
      /\ DOMAIN Changed(cloud[x], c) = {"operationTime", "period", "version"}
  BY <1>0, <1>2 DEF Changed, Document
<1>4. /\ cloud'[x].version = cloud[x].version + 1
      /\ cloud'[x].period = IF c.kind = "setDevicePeriod" THEN c.newPeriod ELSE cloud[x].period
      /\ cloud'[x].operationTime = IF c.kind = "serviceDevice" THEN 0
                                   ELSE cloud[x].operationTime
      /\ \A e \in Ids : e # x => cloud'[e] = cloud[e]
  BY <1>0, <1>1, <1>2, <1>3
<1> QED
  BY <1>0, <1>4 DEF c, x

LEMMA WireReport ==
    ASSUME TypeInv, WireInv, CacheInv, NEW d \in Ids, Report(d)
    PROVE  WireInv' /\ CacheInv'
<1>1. /\ UNCHANGED <<cache, pipe, onServer, committed, asked>>
      /\ \A e \in Ids : /\ cloud'[e].period = cloud[e].period
                        /\ cloud[e].operationTime <= cloud'[e].operationTime
                        /\ cloud[e].version <= cloud'[e].version
                        /\ cloud'[e].operationTime \in Nat /\ cloud'[e].version \in Nat
  BY ReportNumbers
<1>2. WireInv'
  <2>1. \A i \in 1 .. onServer : committed[pipe[i]] <= cloud'[asked[pipe[i]].id].version
    BY <1>1, PipeTypes DEF WireInv
  <2>2. \A e \in DOMAIN cache : cache[e].version <= cloud'[e].version
    BY <1>1, PipeTypes DEF WireInv
  <2> QED
    BY <1>1, <2>1, <2>2 DEF WireInv
<1>3. CacheInv'
  <2>1. \A e \in DOMAIN cache, kind \in {"setDevicePeriod", "serviceDevice"} :
           HasApplied(e, kind)' <=> HasApplied(e, kind)
    BY <1>1 DEF HasApplied, Pending
  <2>2. \A e \in Ids, i \in DOMAIN pipe : IsLastApplied(i, e)' <=> IsLastApplied(i, e)
    BY <1>1 DEF IsLastApplied, Pending
  <2>3. ASSUME NEW e \in DOMAIN cache
        PROVE  /\ HasApplied(e, "setDevicePeriod")' => cache'[e].period = cloud'[e].period
               /\ HasApplied(e, "serviceDevice")' =>
                     cache'[e].operationTime <= cloud'[e].operationTime
    BY <1>1, <2>1, PipeTypes DEF CacheInv
  <2>4. ASSUME NEW e \in Ids, NEW i \in DOMAIN pipe, IsLastApplied(i, e)'
        PROVE  cloud'[e].period = asked[pipe[i]].newPeriod
    BY <1>1, <2>2, <2>4 DEF CacheInv
  <2> QED
    BY <1>1, <2>3, <2>4 DEF CacheInv
<1> QED
  BY <1>2, <1>3

LEMMA WireApplied ==
    ASSUME TypeInv, WireInv, CacheInv, ServerAppliesWrite
    PROVE  WireInv' /\ CacheInv'
<1> DEFINE k == onServer + 1
           r == pipe[k]
           c == asked[r]
           x == c.id
<1>1. k \in DOMAIN pipe /\ r \in Requests /\ c \in Call /\ x \in Ids /\ x \in DOMAIN cache
  BY PipeTypes DEF ServerAppliesWrite
<1>2. UNCHANGED <<cache, pipe, asked>> /\ onServer' = k
  BY DEF ServerAppliesWrite
<1>3. /\ cloud'[x].version = cloud[x].version + 1
      /\ cloud'[x].period = IF c.kind = "setDevicePeriod" THEN c.newPeriod ELSE cloud[x].period
      /\ cloud'[x].operationTime = IF c.kind = "serviceDevice" THEN 0
                                   ELSE cloud[x].operationTime
      /\ \A e \in Ids : e # x => cloud'[e] = cloud[e]
  BY ServerNumbers
<1>4. committed' = [committed EXCEPT ![r] = cloud'[x].version] /\ committed \in [Requests -> Nat]
  BY DEF ServerAppliesWrite, TypeInv, StoreInv
<1>5. /\ committed'[r] = cloud[x].version + 1
      /\ \A i \in DOMAIN pipe : i # k => committed'[pipe[i]] = committed[pipe[i]]
  BY <1>1, <1>3, <1>4, PipeTypes DEF WireInv
<1> HIDE DEF r, c, x
<1>6. WireInv'
  <2>0. \A e \in Ids : /\ cloud[e].version <= cloud'[e].version /\ cloud[e].version \in Nat
                         /\ cloud'[e].version \in Nat
    <3>1. \A e \in Ids : cloud[e].version \in Nat
      BY PipeTypes
    <3> TAKE e \in Ids
    <3>2. CASE e = x
      BY <1>1, <1>3, <3>1, <3>2
    <3>3. CASE e # x
      BY <1>3, <3>1, <3>3
    <3> QED
      BY <3>2, <3>3
  <2>1. \A i \in 1 .. onServer' : i \in DOMAIN pipe /\ (i = k \/ i \in 1 .. onServer)
    BY <1>1, <1>2, PipeTypes
  <2>2. ASSUME NEW i \in 1 .. onServer', NEW j \in 1 .. onServer', i < j,
               asked[pipe[i]].id = asked[pipe[j]].id
        PROVE  committed'[pipe[i]] < committed'[pipe[j]]
    <3>1. i \in 1 .. onServer /\ i # k
      BY <1>2, <2>2, PipeTypes
    <3>2. CASE j = k
      BY <1>5, <2>1, <2>2, <3>1, <3>2, PipeTypes DEF WireInv, r, c, x
    <3>3. CASE j \in 1 .. onServer /\ j # k
      BY <1>5, <2>1, <2>2, <3>1, <3>3 DEF WireInv
    <3> QED
      BY <2>1, <3>2, <3>3, PipeTypes
  <2>3. ASSUME NEW i \in 1 .. onServer'
        PROVE  committed'[pipe[i]] <= cloud'[asked[pipe[i]].id].version
    <3>1. CASE i = k
      BY <1>1, <1>3, <1>5, <3>1, PipeTypes DEF r, c, x
    <3>2. CASE i \in 1 .. onServer /\ i # k
      <4>1. committed[pipe[i]] <= cloud[asked[pipe[i]].id].version
        BY <3>2 DEF WireInv
      <4>2. asked[pipe[i]].id \in Ids /\ committed[pipe[i]] \in Nat
            /\ committed'[pipe[i]] = committed[pipe[i]]
        BY <1>5, <2>1, <3>2, PipeTypes
      <4> QED
        BY <2>0, <4>1, <4>2
    <3> QED
      BY <2>1, <3>1, <3>2, PipeTypes
  <2>4. \A e \in DOMAIN cache : cache[e].version <= cloud'[e].version
    BY <2>0, PipeTypes DEF WireInv
  <2> QED
    BY <1>2, <2>2, <2>3, <2>4 DEF WireInv
<1>7. ASSUME NEW e \in DOMAIN cache, NEW kind, HasApplied(e, kind)'
      PROVE  HasApplied(e, kind) /\ ~ (x = e /\ c.kind = kind)
  <2>1. ~ (x = e /\ c.kind = kind)
    BY <1>1, <1>2, <1>5, <1>7, PipeTypes DEF HasApplied, Pending, WireInv, r, c, x
  <2>2. HasApplied(e, kind)
    <3>1. ASSUME NEW i \in Pending(e, kind), i <= onServer
          PROVE  committed[pipe[i]] <= cache[e].version
      <4>1. i \in DOMAIN pipe /\ i # k /\ i <= onServer' /\ i \in Pending(e, kind)'
        BY <1>2, <3>1, PipeTypes DEF Pending
      <4> QED
        BY <1>2, <1>5, <1>7, <4>1 DEF HasApplied
    <3> QED
      BY <3>1 DEF HasApplied
  <2> QED
    BY <2>1, <2>2
<1>8. ASSUME NEW e \in DOMAIN cache
      PROVE  /\ HasApplied(e, "setDevicePeriod")' => cache'[e].period = cloud'[e].period
             /\ HasApplied(e, "serviceDevice")' =>
                   cache'[e].operationTime <= cloud'[e].operationTime
  BY <1>1, <1>2, <1>3, <1>7, PipeTypes DEF CacheInv
<1>9. ASSUME NEW e \in Ids, NEW i \in DOMAIN pipe, IsLastApplied(i, e)'
      PROVE  cloud'[e].period = asked[pipe[i]].newPeriod
  <2>1. CASE x = e /\ c.kind = "setDevicePeriod"
    <3>1. i = k
      BY <1>1, <1>2, <1>9, <2>1, PipeTypes DEF IsLastApplied, Pending, r, c, x
    <3> QED
      BY <1>3, <2>1, <3>1 DEF r, c
  <2>2. CASE ~ (x = e /\ c.kind = "setDevicePeriod")
    <3>1. IsLastApplied(i, e)
      BY <1>1, <1>2, <1>9, <2>2, PipeTypes DEF IsLastApplied, Pending, r, c, x
    <3>2. cloud'[e].period = cloud[e].period
      BY <1>1, <1>3, <2>2, PipeTypes
    <3> QED
      BY <3>1, <3>2 DEF CacheInv
  <2> QED
    BY <2>1, <2>2
<1>10. CacheInv'
  BY <1>2, <1>8, <1>9 DEF CacheInv
<1> QED
  BY <1>6, <1>10

(* The first write has left the stream. *)
LEMMA PipeTail ==
    ASSUME TypeInv, pipe # << >>, pipe' = Tail(pipe), UNCHANGED asked
    PROVE  /\ 1 \in DOMAIN pipe /\ Head(pipe) = pipe[1]
           /\ DOMAIN pipe' = 1 .. Len(pipe) - 1
           /\ \A i \in DOMAIN pipe' : i + 1 \in DOMAIN pipe /\ i + 1 # 1 /\ pipe'[i] = pipe[i + 1]
                                      /\ i \in Nat \ {0}
           /\ \A i \in DOMAIN pipe : i # 1 => i - 1 \in DOMAIN pipe' /\ pipe'[i - 1] = pipe[i]
                                              /\ (i - 1) + 1 = i
           /\ \A e, kind : \A i \in DOMAIN pipe' :
                 i \in Pending(e, kind)' <=> i + 1 \in Pending(e, kind)
<1> DEFINE t == Tail(pipe)
<1>1. /\ 1 \in DOMAIN pipe /\ Head(pipe) = pipe[1]
      /\ DOMAIN pipe = 1 .. Len(pipe) /\ DOMAIN t = 1 .. Len(pipe) - 1
      /\ Len(pipe) \in Nat \ {0}
      /\ \A i \in 1 .. Len(pipe) - 1 : t[i] = pipe[i + 1]
      /\ \A i \in 2 .. Len(pipe) : pipe[i] = t[i - 1]
  BY PipeTypes, TailElements
<1>2. pipe' = t
  OBVIOUS
<1> HIDE DEF t
<1>3. \A i \in DOMAIN pipe' : i + 1 \in DOMAIN pipe /\ i + 1 # 1 /\ pipe'[i] = pipe[i + 1]
                              /\ i \in Nat \ {0}
  BY <1>1, <1>2
<1>4. \A i \in DOMAIN pipe : i # 1 => i - 1 \in DOMAIN pipe' /\ pipe'[i - 1] = pipe[i]
                                      /\ (i - 1) + 1 = i
  BY <1>1, <1>2
<1>5. \A e, kind : \A i \in DOMAIN pipe' :
         i \in Pending(e, kind)' <=> i + 1 \in Pending(e, kind)
  BY <1>3 DEF Pending
<1> QED
  BY <1>1, <1>2, <1>3, <1>4, <1>5

(* What WireInv needs when the stream gets shorter *)
LEMMA WireTail ==
    ASSUME TypeInv, WireInv, pipe # << >>, pipe' = Tail(pipe),
           UNCHANGED <<asked, cloud, committed>>,
           onServer' \in Nat, onServer' = 0 \/ onServer' + 1 = onServer,
           \A e \in DOMAIN cache' : cache'[e].version <= cloud[e].version
    PROVE  WireInv'
<1>1. \A i \in DOMAIN pipe' : i + 1 \in DOMAIN pipe /\ pipe'[i] = pipe[i + 1] /\ i \in Nat \ {0}
  BY PipeTail
<1>2. \A i \in 1 .. onServer' : /\ i + 1 \in 1 .. onServer /\ i \in DOMAIN pipe'
                                /\ pipe'[i] = pipe[i + 1]
  <2>1. DOMAIN pipe' = 1 .. Len(pipe) - 1
    BY PipeTail
  <2> TAKE i \in 1 .. onServer'
  <2>2. i + 1 \in 1 .. onServer /\ i \in DOMAIN pipe'
    BY <2>1, PipeTypes
  <2> QED
    BY <1>1, <2>2
<1>3. ASSUME NEW i \in DOMAIN pipe', NEW j \in DOMAIN pipe', pipe'[i] = pipe'[j]
      PROVE  i = j
  <2>1. i + 1 = j + 1
    BY <1>1, <1>3 DEF WireInv
  <2> QED
    BY <1>1, <2>1
<1>4. ASSUME NEW i \in 1 .. onServer', NEW j \in 1 .. onServer', i < j,
             asked'[pipe'[i]].id = asked'[pipe'[j]].id
      PROVE  committed'[pipe'[i]] < committed'[pipe'[j]]
  <2>1. i + 1 < j + 1
    BY <1>4
  <2> QED
    BY <1>2, <1>4, <2>1 DEF WireInv
<1>5. \A i \in 1 .. onServer' : committed'[pipe'[i]] <= cloud'[asked'[pipe'[i]].id].version
  BY <1>2 DEF WireInv
<1> QED
  BY <1>3, <1>4, <1>5 DEF WireInv

LEMMA WireAcknowledged ==
    ASSUME TypeInv, WireInv, CacheInv, WriteAcknowledged
    PROVE  WireInv' /\ CacheInv'
<1> DEFINE r == pipe[1]
           c == asked[r]
<1>0. PICK x : x = c.id
  OBVIOUS
<1>1. /\ pipe # << >> /\ pipe' = Tail(pipe) /\ UNCHANGED <<asked, cloud, committed>>
      /\ onServer' \in Nat /\ onServer' + 1 = onServer /\ onServer \in Nat /\ 1 <= onServer
  BY PipeTypes DEF WriteAcknowledged
<1>2. /\ 1 \in DOMAIN pipe /\ r = Head(pipe) /\ r \in Requests /\ c \in Call /\ x \in Ids
      /\ x \in DOMAIN cache /\ 1 \in 1 .. onServer /\ x = c.id
  BY <1>0, <1>1, PipeTail, PipeTypes
<1>3. \/ committed[r] <= cache[x].version /\ cache' = cache
      \/ /\ cache[x].version < committed[r]
         /\ cache'[x].version = committed[r]
         /\ cache'[x].period = IF c.kind = "setDevicePeriod" THEN c.newPeriod
                               ELSE cache[x].period
         /\ cache'[x].operationTime = IF c.kind = "serviceDevice" THEN 0
                                      ELSE cache[x].operationTime
         /\ DOMAIN cache' = DOMAIN cache
         /\ \A e \in DOMAIN cache : e # x => cache'[e] = cache[e]
  <2>1. cache[x].version \in Nat /\ committed[r] \in Nat
    BY <1>2, PipeTypes
  <2>2. cache' = IF cache[x].version < committed[r]
                 THEN [cache EXCEPT ![x] = [Changed(cache[x], c) EXCEPT !.version = committed[r]]]
                 ELSE cache
    BY <1>2 DEF WriteAcknowledged
  <2>3. cache[x] \in Document /\ c.kind \in {"serviceDevice", "setDevicePeriod"}
    BY <1>2, PipeTypes DEF TypeInv, StoreInv
  <2>4. x \in DOMAIN cache
    BY <1>2
  <2> HIDE DEF r, c
  <2>5. /\ Changed(cache[x], c).period = IF c.kind = "setDevicePeriod" THEN c.newPeriod
                                         ELSE cache[x].period
        /\ Changed(cache[x], c).operationTime = IF c.kind = "serviceDevice" THEN 0
                                                ELSE cache[x].operationTime
        /\ DOMAIN Changed(cache[x], c) = {"operationTime", "period", "version"}
    BY <2>3 DEF Changed, Document
  <2>6. CASE cache[x].version < committed[r]
    <3>1. cache' = [cache EXCEPT ![x] = [Changed(cache[x], c) EXCEPT !.version = committed[r]]]
      BY <2>2, <2>6
    <3> QED
      BY <2>4, <2>5, <2>6, <3>1
  <2>7. CASE ~ (cache[x].version < committed[r])
    BY <2>1, <2>2, <2>7
  <2> QED
    BY <2>6, <2>7
<1>4. WireInv'
  <2>1. committed[r] <= cloud[x].version
    BY <1>2 DEF WireInv
  <2>2. \A e \in DOMAIN cache : cache[e].version <= cloud[e].version
    BY DEF WireInv
  <2> HIDE DEF r, c
  <2>3. \A e \in DOMAIN cache' : cache'[e].version <= cloud[e].version
    BY <1>2, <1>3, <2>1, <2>2
  <2> QED
    BY <1>1, <2>3, WireTail
<1>5. ASSUME NEW e, NEW kind, NEW i \in DOMAIN pipe, i # 1, i \in Pending(e, kind), i <= onServer
      PROVE  i - 1 \in Pending(e, kind)' /\ i - 1 <= onServer' /\ pipe'[i - 1] = pipe[i]
  <2>1. i - 1 \in DOMAIN pipe' /\ pipe'[i - 1] = pipe[i] /\ (i - 1) + 1 = i
    BY <1>1, <1>5, PipeTail
  <2>2. i - 1 \in Pending(e, kind)'
    BY <1>1, <1>5, <2>1, PipeTail
  <2>3. i - 1 <= onServer'
    <3>1. i \in Nat
      BY PipeTypes
    <3>2. onServer' \in Nat /\ onServer = onServer' + 1
      BY <1>1
    <3>3. i <= onServer
      BY <1>5
    <3> QED
      BY <3>1, <3>2, <3>3
  <2> QED
    BY <2>1, <2>2, <2>3
<1>6. ASSUME NEW e \in DOMAIN cache, NEW kind, HasApplied(e, kind)', UNCHANGED cache,
             committed[r] <= cache[x].version
      PROVE  HasApplied(e, kind)
  <2> SUFFICES ASSUME NEW i \in Pending(e, kind), i <= onServer
               PROVE  committed[pipe[i]] <= cache[e].version
    BY DEF HasApplied
  <2>1. i \in DOMAIN pipe
    BY DEF Pending
  <2>2. CASE i = 1
    BY <1>2, <1>6, <2>2 DEF Pending
  <2>3. CASE i # 1
    BY <1>1, <1>5, <1>6, <2>1, <2>3 DEF HasApplied
  <2> QED
    BY <2>2, <2>3
(* The version of the write is the cached one, hence it is the last one of *)
(* its document that the server has applied.                               *)
<1>7. ASSUME NEW kind, HasApplied(x, kind)', cache'[x].version = committed[r],
             NEW i \in Pending(x, kind), i <= onServer, i # 1
      PROVE  FALSE
  <2>1. i \in DOMAIN pipe /\ asked[pipe[i]].id = x /\ i \in 1 .. onServer /\ 1 < i
    BY <1>7, PipeTypes DEF Pending
  <2>2. committed[r] < committed[pipe[i]]
    BY <1>2, <2>1 DEF WireInv
  <2>3. committed'[pipe'[i - 1]] <= cache'[x].version
    BY <1>5, <1>7, <2>1 DEF HasApplied
  <2>4. committed[pipe[i]] <= committed[r]
    BY <1>1, <1>5, <1>7, <2>1, <2>3
  <2> QED
    BY <1>2, <2>1, <2>2, <2>4, PipeTypes
<1>8. ASSUME NEW e \in DOMAIN cache
      PROVE  /\ HasApplied(e, "setDevicePeriod")' => cache'[e].period = cloud[e].period
             /\ HasApplied(e, "serviceDevice")' =>
                   cache'[e].operationTime <= cloud[e].operationTime
  <2>1. CASE cache' = cache /\ committed[r] <= cache[x].version
    <3> HIDE DEF r, c
    <3> QED
      BY <1>6, <2>1 DEF CacheInv
  <2>2. CASE e # x /\ cache'[e] = cache[e]
    <3>1. cache'[e] = cache[e] /\ e # c.id
      BY <1>2, <2>2
    <3>2. ASSUME NEW kind, HasApplied(e, kind)'
          PROVE  HasApplied(e, kind)
      <4> SUFFICES ASSUME NEW i \in Pending(e, kind), i <= onServer
                   PROVE  committed[pipe[i]] <= cache[e].version
        BY DEF HasApplied
      <4>1. i \in DOMAIN pipe /\ i # 1
        BY <3>1 DEF Pending
      <4> QED
        BY <1>1, <1>5, <3>1, <3>2, <4>1 DEF HasApplied
    <3> QED
      BY <3>1, <3>2 DEF CacheInv
  <2>3. CASE /\ e = x /\ cache'[x].version = committed[r]
             /\ cache'[x].period = IF c.kind = "setDevicePeriod" THEN c.newPeriod
                                   ELSE cache[x].period
             /\ cache'[x].operationTime = IF c.kind = "serviceDevice" THEN 0
                                          ELSE cache[x].operationTime
    <3>1. ASSUME HasApplied(x, "setDevicePeriod")'
          PROVE  cache'[x].period = cloud[x].period
      <4>1. CASE c.kind = "setDevicePeriod"
        <5>1. 1 \in Pending(x, "setDevicePeriod") /\ 1 <= onServer
          BY <1>1, <1>2, <4>1 DEF Pending
        <5>2. \A j \in Pending(x, "setDevicePeriod") : j <= onServer => j = 1
          BY <1>7, <2>3, <3>1
        <5>3. IsLastApplied(1, x)
          BY <5>1, <5>2 DEF IsLastApplied
        <5> QED
          BY <1>2, <2>3, <4>1, <5>3 DEF CacheInv
      <4>2. CASE c.kind # "setDevicePeriod"
        <5>1. \A i \in Pending(x, "setDevicePeriod") : i # 1
          BY <4>2 DEF Pending
        <5>2. HasApplied(x, "setDevicePeriod")
          BY <1>7, <2>3, <3>1, <5>1 DEF HasApplied
        <5> QED
          BY <1>2, <2>3, <4>2, <5>2 DEF CacheInv
      <4> QED
        BY <4>1, <4>2
    <3>2. ASSUME HasApplied(x, "serviceDevice")'
          PROVE  cache'[x].operationTime <= cloud[x].operationTime
      <4>1. CASE c.kind = "serviceDevice"
        BY <1>2, <2>3, <4>1, PipeTypes
      <4>2. CASE c.kind # "serviceDevice"
        <5>1. \A i \in Pending(x, "serviceDevice") : i # 1
          BY <4>2 DEF Pending
        <5>2. HasApplied(x, "serviceDevice")
          BY <1>7, <2>3, <3>2, <5>1 DEF HasApplied
        <5> QED
          BY <1>2, <2>3, <4>2, <5>2 DEF CacheInv
      <4> QED
        BY <4>1, <4>2
    <3> QED
      BY <2>3, <3>1, <3>2
  <2> HIDE DEF r, c
  <2> QED
    BY <1>3, <2>1, <2>2, <2>3
<1>9. ASSUME NEW e \in Ids, NEW i \in DOMAIN pipe', IsLastApplied(i, e)'
      PROVE  cloud[e].period = asked[pipe'[i]].newPeriod
  <2>1. i + 1 \in DOMAIN pipe /\ pipe'[i] = pipe[i + 1] /\ i \in Nat \ {0}
    BY <1>1, PipeTail
  <2>2. i + 1 \in Pending(e, "setDevicePeriod") /\ i + 1 <= onServer
    <3>1. i \in Pending(e, "setDevicePeriod")' /\ i <= onServer'
      BY <1>9 DEF IsLastApplied
    <3>2. i + 1 \in Pending(e, "setDevicePeriod")
      BY <1>1, <3>1, PipeTail
    <3>3. onServer' \in Nat /\ onServer = onServer' + 1 /\ i \in Nat
      BY <1>1, <2>1
    <3> QED
      BY <3>1, <3>2, <3>3
  <2>3. ASSUME NEW j \in Pending(e, "setDevicePeriod"), j <= onServer
        PROVE  j <= i + 1
    <3>1. j \in DOMAIN pipe /\ j \in Nat \ {0}
      BY PipeTypes DEF Pending
    <3>2. CASE j # 1
      <4>1. j - 1 <= i
        BY <1>5, <1>9, <2>3, <3>1, <3>2 DEF IsLastApplied
      <4> QED
        BY <2>1, <3>1, <4>1
    <3> QED
      BY <2>1, <3>1, <3>2
  <2>4. IsLastApplied(i + 1, e)
    BY <2>2, <2>3 DEF IsLastApplied
  <2> QED
    BY <2>1, <2>4 DEF CacheInv
<1>10. DOMAIN cache' = DOMAIN cache
  BY <1>3
<1> HIDE DEF r, c
<1>11. CacheInv'
  BY <1>1, <1>8, <1>9, <1>10 DEF CacheInv
<1> QED
  BY <1>4, <1>11

LEMMA WireRejected ==
    ASSUME TypeInv, WireInv, CacheInv, WriteRejected
    PROVE  WireInv' /\ CacheInv'
<1>1. /\ pipe # << >> /\ pipe' = Tail(pipe) /\ onServer = 0 /\ onServer' = 0
      /\ UNCHANGED <<asked, cloud, committed, cache>>
  BY DEF WriteRejected
<1>2. WireInv'
  <2>1. \A e \in DOMAIN cache' : cache'[e].version <= cloud[e].version
    BY <1>1 DEF WireInv
  <2> QED
    BY <1>1, <2>1, WireTail
<1>3. \A e, kind : HasApplied(e, kind)
  BY <1>1, PipeTypes DEF HasApplied, Pending
<1>4. ASSUME NEW e, NEW i \in DOMAIN pipe'
      PROVE  ~ IsLastApplied(i, e)'
  <2>1. i \in Nat \ {0}
    BY <1>1, PipeTail
  <2> QED
    BY <1>1, <2>1 DEF IsLastApplied
<1> QED
  BY <1>1, <1>2, <1>3, <1>4 DEF CacheInv

LEMMA WireFresh ==
    ASSUME TypeInv, WireInv, CacheInv, FreshSnapshot
    PROVE  WireInv' /\ CacheInv'
<1>1. cache' = cloud /\ UNCHANGED <<cloud, pipe, onServer, committed, asked>>
  BY DEF FreshSnapshot
<1>2. WireInv'
  BY <1>1, PipeTypes DEF WireInv
<1>3. \A e \in Ids, i \in DOMAIN pipe : IsLastApplied(i, e)' <=> IsLastApplied(i, e)
  BY <1>1 DEF IsLastApplied, Pending
<1>4. \A e \in DOMAIN cache' : /\ cache'[e].period = cloud'[e].period
                               /\ cache'[e].operationTime <= cloud'[e].operationTime
  BY <1>1, PipeTypes
<1> QED
  BY <1>1, <1>2, <1>3, <1>4 DEF CacheInv

(* What a call that is made now does to the stream *)
LEMMA PipeAppend ==
    ASSUME TypeInv, NEW r \in Requests, NEW call, asked[r] = NoCall,
           asked' = [asked EXCEPT ![r] = call], pipe' = Append(pipe, r)
    PROVE  /\ DOMAIN pipe' = 1 .. Len(pipe) + 1
           /\ \A i \in DOMAIN pipe : /\ i \in DOMAIN pipe' /\ pipe'[i] = pipe[i] /\ pipe[i] # r
                                     /\ asked'[pipe[i]] = asked[pipe[i]]
                                     /\ i < Len(pipe) + 1
           /\ Len(pipe) + 1 \in DOMAIN pipe' /\ Len(pipe) + 1 \notin DOMAIN pipe
           /\ pipe'[Len(pipe) + 1] = r /\ asked'[r] = call
           /\ \A i \in DOMAIN pipe' : i \in DOMAIN pipe \/ i = Len(pipe) + 1
           /\ \A e, kind :
                 /\ \A i \in DOMAIN pipe : i \in Pending(e, kind)' <=> i \in Pending(e, kind)
                 /\ call.id = e /\ call.kind = kind => Len(pipe) + 1 \in Pending(e, kind)'
<1>1. asked \in [Requests -> Call \cup {NoCall}]
  BY DEF TypeInv, CallsInv
<1>2. /\ DOMAIN pipe = 1 .. Len(pipe) /\ Len(pipe) \in Nat /\ DOMAIN pipe' = 1 .. Len(pipe) + 1
      /\ \A i \in 1 .. Len(pipe) : pipe'[i] = pipe[i]
      /\ pipe'[Len(pipe) + 1] = r
  BY PipeTypes, AppendedElements
<1>3. \A q \in Requests : asked'[q] = IF q = r THEN call ELSE asked[q]
  BY <1>1
<1>4. \A i \in DOMAIN pipe : pipe[i] \in Requests /\ pipe[i] # r
  <2>1. \A i \in DOMAIN pipe : pipe[i] \in Requests /\ asked[pipe[i]] # NoCall
    BY DEF TypeInv, StoreInv
  <2> QED
    BY <2>1
<1>5. \A i \in DOMAIN pipe : /\ i \in DOMAIN pipe' /\ pipe'[i] = pipe[i] /\ pipe[i] # r
                             /\ asked'[pipe[i]] = asked[pipe[i]]
                             /\ i < Len(pipe) + 1
  BY <1>2, <1>3, <1>4
<1>6. /\ Len(pipe) + 1 \in DOMAIN pipe' /\ Len(pipe) + 1 \notin DOMAIN pipe
      /\ pipe'[Len(pipe) + 1] = r /\ asked'[r] = call
      /\ \A i \in DOMAIN pipe' : i \in DOMAIN pipe \/ i = Len(pipe) + 1
  BY <1>2, <1>3
<1>7. ASSUME NEW e, NEW kind
      PROVE  /\ \A i \in DOMAIN pipe : i \in Pending(e, kind)' <=> i \in Pending(e, kind)
             /\ call.id = e /\ call.kind = kind => Len(pipe) + 1 \in Pending(e, kind)'
  <2>1. \A i \in DOMAIN pipe : i \in Pending(e, kind)' <=> i \in Pending(e, kind)
    BY <1>5 DEF Pending
  <2>2. call.id = e /\ call.kind = kind => Len(pipe) + 1 \in Pending(e, kind)'
    BY <1>6 DEF Pending
  <2> QED
    BY <2>1, <2>2
<1> QED
  BY <1>2, <1>5, <1>6, <1>7

LEMMA PendingAppend ==
    ASSUME TypeInv, NEW r \in Requests, NEW call, asked[r] = NoCall,
           asked' = [asked EXCEPT ![r] = call], pipe' = Append(pipe, r),
           NEW e, NEW kind, ~ (call.id = e /\ call.kind = kind)
    PROVE  Pending(e, kind)' = Pending(e, kind)
<1>1. /\ \A i \in DOMAIN pipe : /\ i \in DOMAIN pipe' /\ pipe'[i] = pipe[i]
                                /\ asked'[pipe[i]] = asked[pipe[i]]
      /\ \A i \in DOMAIN pipe' : i \in DOMAIN pipe \/ i = Len(pipe) + 1
  BY PipeAppend
<1>2. pipe'[Len(pipe) + 1] = r /\ asked'[r] = call
  BY PipeAppend
<1> QED
  BY <1>1, <1>2 DEF Pending

LEMMA WireCall ==
    ASSUME TypeInv, WireInv, CacheInv, NEW r \in Requests, NEW call, MakeCall(r, call)
    PROVE  WireInv' /\ CacheInv'
<1>1. UNCHANGED <<cloud, cache, onServer, committed>> /\ asked[r] = NoCall
  BY DEF MakeCall
<1>2. CASE UNCHANGED <<asked, pipe>>
  BY <1>1, <1>2 DEF WireInv, CacheInv, HasApplied, IsLastApplied, Pending
<1>3. CASE asked' = [asked EXCEPT ![r] = call] /\ pipe' = Append(pipe, r)
  <2>1. \A i \in DOMAIN pipe : /\ i \in DOMAIN pipe' /\ pipe'[i] = pipe[i] /\ pipe[i] # r
                               /\ asked'[pipe[i]] = asked[pipe[i]]
    BY <1>1, <1>3, PipeAppend
  <2>2. /\ pipe'[Len(pipe) + 1] = r
        /\ \A i \in DOMAIN pipe' : i \in DOMAIN pipe \/ i = Len(pipe) + 1
    BY <1>1, <1>3, PipeAppend
  <2>3. \A i \in 1 .. onServer : i \in DOMAIN pipe
    BY PipeTypes
  <2>4. \A e, kind : \A i \in DOMAIN pipe : i \in Pending(e, kind)' <=> i \in Pending(e, kind)
    BY <1>1, <1>3, PipeAppend
  <2>5. \A e, kind : \A i : (i \in Pending(e, kind)' \/ i \in Pending(e, kind)) /\ i <= onServer
                              => i \in DOMAIN pipe
    <3>1. \A e, kind : \A i : i \in Pending(e, kind)' \/ i \in Pending(e, kind) =>
                                 i \in DOMAIN pipe' \/ i \in DOMAIN pipe
      BY DEF Pending
    <3>2. ~ (Len(pipe) + 1 <= onServer)
      BY PipeTypes
    <3> QED
      BY <2>2, <3>1, <3>2
  <2>6. WireInv'
    <3>1. \A i, j \in DOMAIN pipe' : pipe'[i] = pipe'[j] => i = j
      BY <2>1, <2>2 DEF WireInv
    <3>2. \A i, j \in 1 .. onServer : i < j /\ asked'[pipe'[i]].id = asked'[pipe'[j]].id =>
             committed[pipe'[i]] < committed[pipe'[j]]
      BY <2>1, <2>3 DEF WireInv
    <3>3. \A i \in 1 .. onServer : committed[pipe'[i]] <= cloud[asked'[pipe'[i]].id].version
      BY <2>1, <2>3 DEF WireInv
    <3> QED
      BY <1>1, <3>1, <3>2, <3>3 DEF WireInv
  <2>7. ASSUME NEW e, NEW kind, HasApplied(e, kind)'
        PROVE  HasApplied(e, kind)
    <3> SUFFICES ASSUME NEW i \in Pending(e, kind), i <= onServer
                 PROVE  committed[pipe[i]] <= cache[e].version
      BY DEF HasApplied
    <3>1. i \in DOMAIN pipe /\ i \in Pending(e, kind)'
      BY <2>4, <2>5
    <3>2. committed'[pipe'[i]] <= cache'[e].version
      BY <1>1, <2>7, <3>1 DEF HasApplied
    <3> QED
      BY <1>1, <2>1, <3>1, <3>2
  <2>8. ASSUME NEW e \in Ids, NEW i \in DOMAIN pipe', IsLastApplied(i, e)'
        PROVE  cloud[e].period = asked'[pipe'[i]].newPeriod
    <3>1. i \in DOMAIN pipe /\ i \in Pending(e, "setDevicePeriod") /\ i <= onServer
      BY <1>1, <2>4, <2>5, <2>8 DEF IsLastApplied
    <3>2. ASSUME NEW j \in Pending(e, "setDevicePeriod"), j <= onServer
          PROVE  j <= i
      <4>1. j \in Pending(e, "setDevicePeriod")'
        BY <2>4, <2>5, <3>2
      <4> QED
        BY <1>1, <2>8, <3>2, <4>1 DEF IsLastApplied
    <3>3. IsLastApplied(i, e)
      BY <3>1, <3>2 DEF IsLastApplied
    <3> QED
      BY <2>1, <3>1, <3>3 DEF CacheInv
  <2>9. \A e \in DOMAIN cache :
           /\ HasApplied(e, "setDevicePeriod")' => cache[e].period = cloud[e].period
           /\ HasApplied(e, "serviceDevice")' => cache[e].operationTime <= cloud[e].operationTime
    BY <2>7 DEF CacheInv
  <2> QED
    BY <1>1, <2>6, <2>8, <2>9 DEF CacheInv
<1> QED
  BY <1>2, <1>3 DEF MakeCall

LEMMA WireStep == TypeInv /\ WireInv /\ CacheInv /\ [Next]_vars => WireInv' /\ CacheInv'
<1> SUFFICES ASSUME TypeInv, WireInv, CacheInv, [Next]_vars PROVE WireInv' /\ CacheInv'
  OBVIOUS
<1>1. ASSUME UNCHANGED <<cloudVars, asked>>
      PROVE  WireInv' /\ CacheInv'
  BY <1>1 DEF cloudVars, WireInv, CacheInv, HasApplied, IsLastApplied, Pending
<1>2. ASSUME \/ UNCHANGED vars \/ \E d \in Ids : SelectRow(d)
             \/ PullToRefresh \/ CachedSnapshot \/ ListenRejected \/ RunBlock
             \/ \E class \in FilterClasses : ToggleFilter(class)
             \/ GoBack \/ PeriodButton \/ ClosePicker
             \/ \E turn \in Turns : TurnWheel(turn)
      PROVE  UNCHANGED <<cloudVars, asked>>
  BY <1>2 DEF vars, SelectRow, PullToRefresh, CachedSnapshot, ListenRejected, RunBlock,
              ToggleFilter, GoBack, PeriodButton, ClosePicker, TurnWheel, OnlyPicker
<1>3. ASSUME NEW r \in Requests, ServiceDevice(r) \/ SetDevicePeriod(r)
      PROVE  \E call : MakeCall(r, call)
  BY <1>3 DEF ServiceDevice, SetDevicePeriod
<1>4. ASSUME NEW r \in Requests, NEW call, MakeCall(r, call)
      PROVE  WireInv' /\ CacheInv'
  BY <1>4, WireCall
<1> QED
  BY <1>1, <1>2, <1>3, <1>4, WireReport, WireApplied, WireAcknowledged, WireRejected, WireFresh
     DEF Next

LEMMA WireInit == Init => WireInv /\ CacheInv
<1> SUFFICES ASSUME Init PROVE WireInv /\ CacheInv
  OBVIOUS
<1>1. TypeInv
  BY TypeInit
<1>2. pipe = << >> /\ onServer = 0 /\ (DOMAIN cache = {} \/ cache = cloud)
  BY DEF Init
<1>3. WireInv
  BY <1>1, <1>2, PipeTypes DEF WireInv
<1>4. CacheInv
  BY <1>1, <1>2, PipeTypes DEF CacheInv
<1> QED
  BY <1>3, <1>4

(* The answers to calls of a kind for a device that wait on the main queue *)
Answered(d, kind) ==
    {i \in DOMAIN mainQueue : /\ mainQueue[i].do = "answer"
                              /\ asked[mainQueue[i].request].id = d
                              /\ asked[mainQueue[i].request].kind = kind}

(* The last of them, with no write of a period on the stream behind it *)
IsLastAnswer(i, d) ==
    /\ Pending(d, "setDevicePeriod") = {}
    /\ i \in Answered(d, "setDevicePeriod")
    /\ \A j \in Answered(d, "setDevicePeriod") : j <= i

LoadOf(r) == asked[r].load

(* Calls are answered in the order in which they were made, with the loads *)
(* that were current then; the last answer has the period of the cloud.    *)
AnswerInv ==
    /\ \A i \in DOMAIN mainQueue : mainQueue[i].do = "answer" =>
          /\ mainQueue[i].success
          /\ \A j \in DOMAIN pipe : LoadOf(mainQueue[i].request) <= LoadOf(pipe[j])
    /\ \A i, j \in DOMAIN mainQueue :
          i < j /\ mainQueue[i].do = "answer" /\ mainQueue[j].do = "answer" =>
             LoadOf(mainQueue[i].request) <= LoadOf(mainQueue[j].request)
    /\ \A i, j \in DOMAIN pipe : i < j => LoadOf(pipe[i]) <= LoadOf(pipe[j])
    /\ \A d \in Ids : \A i \in DOMAIN mainQueue : IsLastAnswer(i, d) =>
          cloud[d].period = asked[mainQueue[i].request].newPeriod

LEMMA QueueTypes ==
    ASSUME TypeInv
    PROVE  /\ mainQueue \in Seq(Block) /\ DOMAIN mainQueue = 1 .. Len(mainQueue)
           /\ Len(mainQueue) \in Nat
           /\ \A i \in DOMAIN mainQueue : /\ mainQueue[i] \in Block /\ i \in Nat \ {0}
                 /\ mainQueue[i].do = "answer" =>
                       LET r == mainQueue[i].request IN
                       /\ r \in Requests /\ asked[r] \in Call /\ asked[r] # NoCall
                       /\ asked[r].load \in DOMAIN loaded
                       /\ asked[r].id \in DOMAIN loaded[asked[r].load]
           /\ \A i \in DOMAIN pipe : asked[pipe[i]].load \in DOMAIN loaded
           /\ loaded \in Seq(Loads) /\ DOMAIN loaded = 1 .. Len(loaded) /\ Len(loaded) \in Nat
<1>1. mainQueue \in Seq(Block) /\ loaded \in Seq(Loads)
  BY DEF TypeInv, QueueInv, LoadsInv
<1>2. ASSUME NEW i \in DOMAIN mainQueue, mainQueue[i].do = "answer"
      PROVE  LET r == mainQueue[i].request IN
             /\ r \in Requests /\ asked[r] \in Call /\ asked[r] # NoCall
             /\ asked[r].load \in DOMAIN loaded
             /\ asked[r].id \in DOMAIN loaded[asked[r].load]
  <2>1. mainQueue[i].request \in Requests /\ asked[mainQueue[i].request] # NoCall
    BY <1>1, <1>2 DEF Block, TypeInv, QueueInv
  <2> QED
    BY <2>1 DEF TypeInv, CallsInv
<1>3. \A i \in DOMAIN pipe : asked[pipe[i]].load \in DOMAIN loaded
  BY PipeTypes DEF TypeInv, CallsInv, StoreInv
<1>4. DOMAIN mainQueue = 1 .. Len(mainQueue) /\ Len(mainQueue) \in Nat
      /\ DOMAIN loaded = 1 .. Len(loaded) /\ Len(loaded) \in Nat
      /\ \A i \in DOMAIN mainQueue : mainQueue[i] \in Block /\ i \in Nat \ {0}
  BY <1>1
<1> QED
  BY <1>1, <1>2, <1>3, <1>4

(* RunBlock takes the first block and adds none that is an answer. *)
LEMMA QueueOfRun ==
    ASSUME TypeInv, RunBlock
    PROVE  /\ 1 \in DOMAIN mainQueue /\ Head(mainQueue) = mainQueue[1]
           /\ \A i \in DOMAIN mainQueue' :
                 \/ /\ i + 1 \in DOMAIN mainQueue /\ i \in Nat \ {0}
                    /\ mainQueue'[i] = mainQueue[i + 1]
                 \/ mainQueue'[i].do \in {"labels", "filterDevices"}
           /\ \A i \in DOMAIN mainQueue : i # 1 =>
                 /\ i - 1 \in DOMAIN mainQueue' /\ mainQueue'[i - 1] = mainQueue[i]
                 /\ (i - 1) + 1 = i
<1> DEFINE t == Tail(mainQueue)
<1>1. /\ 1 \in DOMAIN mainQueue /\ Head(mainQueue) = mainQueue[1]
      /\ t \in Seq(Block) /\ DOMAIN mainQueue = 1 .. Len(mainQueue)
      /\ DOMAIN t = 1 .. Len(mainQueue) - 1 /\ Len(mainQueue) \in Nat \ {0}
      /\ \A i \in 1 .. Len(mainQueue) - 1 : t[i] = mainQueue[i + 1]
      /\ \A i \in 2 .. Len(mainQueue) : mainQueue[i] = t[i - 1]
  BY QueueTypes, TailElements DEF RunBlock
<1>2. \/ mainQueue' = t
      \/ \E block \in Block : /\ block.do \in {"labels", "filterDevices"}
                              /\ mainQueue' = Append(t, block)
  <2>1. [do |-> "filterDevices"] \in Block
    BY DEF Block
  <2>2. ASSUME Head(mainQueue).do = "answer"
        PROVE  [do |-> "labels", visit |-> asked[Head(mainQueue).request].visit,
                kind |-> asked[Head(mainQueue).request].kind] \in Block
    BY <1>1, <2>2, QueueTypes DEF Block, Call, Kinds
  <2> QED
    BY <2>1, <2>2 DEF RunBlock, ShowSnapshot, ForgetDevices, FinishCall, SetLabels, filterDevices
<1>3. \A i \in DOMAIN t : i + 1 \in DOMAIN mainQueue /\ i \in Nat \ {0} /\ t[i] = mainQueue[i + 1]
  BY <1>1
<1>4. \A i \in DOMAIN mainQueue : i # 1 =>
         i - 1 \in DOMAIN t /\ t[i - 1] = mainQueue[i] /\ (i - 1) + 1 = i
  BY <1>1
<1> HIDE DEF t
<1>5. CASE mainQueue' = t
  BY <1>1, <1>3, <1>4, <1>5
<1>6. ASSUME NEW block \in Block, block.do \in {"labels", "filterDevices"},
             mainQueue' = Append(t, block)
      PROVE  /\ \A i \in DOMAIN mainQueue' : mainQueue'[i] = block
                                             \/ (i \in DOMAIN t /\ mainQueue'[i] = t[i])
             /\ \A i \in DOMAIN t : i \in DOMAIN mainQueue' /\ mainQueue'[i] = t[i]
  <2>1. t \in Seq(Block)
    BY <1>1
  <2>2. /\ \A i \in DOMAIN Append(t, block) :
              Append(t, block)[i] = block \/ (i \in DOMAIN t /\ Append(t, block)[i] = t[i])
        /\ \A i \in DOMAIN t : i \in DOMAIN Append(t, block) /\ Append(t, block)[i] = t[i]
    <3> DEFINE p == Append(t, block)
    <3>1. /\ DOMAIN t = 1 .. Len(t) /\ Len(t) \in Nat /\ DOMAIN p = 1 .. Len(t) + 1
          /\ \A i \in 1 .. Len(t) : p[i] = t[i]
          /\ p[Len(t) + 1] = block
      BY <1>6, <2>1, AppendedElements
    <3> HIDE DEF p
    <3>2. /\ \A i \in DOMAIN p : p[i] = block \/ (i \in DOMAIN t /\ p[i] = t[i])
          /\ \A i \in DOMAIN t : i \in DOMAIN p /\ p[i] = t[i]
      BY <3>1
    <3> QED
      BY <3>2 DEF p
  <2> QED
    BY <1>6, <2>2
<1>7. CASE \E block \in Block : /\ block.do \in {"labels", "filterDevices"}
                                /\ mainQueue' = Append(t, block)
  BY <1>1, <1>3, <1>4, <1>6, <1>7
<1> QED
  BY <1>2, <1>5, <1>7 DEF t

LEMMA QueueAppend ==
    ASSUME TypeInv, NEW block \in Block, mainQueue' = Append(mainQueue, block)
    PROVE  /\ Len(mainQueue) + 1 \in DOMAIN mainQueue' /\ mainQueue'[Len(mainQueue) + 1] = block
           /\ \A i \in DOMAIN mainQueue : /\ i \in DOMAIN mainQueue'
                                          /\ mainQueue'[i] = mainQueue[i]
                                          /\ i < Len(mainQueue) + 1
           /\ \A i \in DOMAIN mainQueue' : i \in DOMAIN mainQueue \/ i = Len(mainQueue) + 1
<1>1. /\ DOMAIN mainQueue = 1 .. Len(mainQueue) /\ Len(mainQueue) \in Nat
      /\ DOMAIN mainQueue' = 1 .. Len(mainQueue) + 1
      /\ \A i \in 1 .. Len(mainQueue) : mainQueue'[i] = mainQueue[i]
      /\ mainQueue'[Len(mainQueue) + 1] = block
  BY QueueTypes, AppendedElements
<1> QED
  BY <1>1

LEMMA AnswerSame ==
    ASSUME TypeInv, AnswerInv, UNCHANGED <<pipe, asked, mainQueue>>,
           \A d \in Ids : Pending(d, "setDevicePeriod") = {} => cloud'[d].period = cloud[d].period
    PROVE  AnswerInv'
<1>1. \A d, i : IsLastAnswer(i, d)' <=> IsLastAnswer(i, d)
  BY DEF IsLastAnswer, Answered, Pending
<1>2. ASSUME NEW d \in Ids, NEW i \in DOMAIN mainQueue, IsLastAnswer(i, d)'
      PROVE  cloud'[d].period = asked[mainQueue[i].request].newPeriod
  <2>1. IsLastAnswer(i, d) /\ Pending(d, "setDevicePeriod") = {}
    BY <1>1, <1>2 DEF IsLastAnswer
  <2> QED
    BY <2>1 DEF AnswerInv
<1> QED
  BY <1>2 DEF AnswerInv, LoadOf

LEMMA AnswerSnapshot ==
    ASSUME TypeInv, AnswerInv, FreshSnapshot \/ CachedSnapshot
    PROVE  AnswerInv'
<1>1. UNCHANGED <<cloud, pipe, asked>>
  BY DEF FreshSnapshot, CachedSnapshot, cloudVars
<1>2. PICK block \in Block : mainQueue' = Append(mainQueue, block) /\ block.do = "snapshot"
  <2>1. View(cloud) \in Loads /\ View(cache) \in Loads
    BY ListBounds, ViewIsLoad DEF TypeInv, StoreInv
  <2>2. /\ [do |-> "snapshot", devices |-> View(cloud)] \in Block
        /\ [do |-> "snapshot", devices |-> View(cache)] \in Block
    BY <2>1 DEF Block
  <2> QED
    BY <2>2 DEF FreshSnapshot, CachedSnapshot
<1>3. \A i \in DOMAIN mainQueue : i \in DOMAIN mainQueue' /\ mainQueue'[i] = mainQueue[i]
  BY <1>2, QueueAppend
<1>4. \A i \in DOMAIN mainQueue' : mainQueue'[i].do = "answer" =>
         i \in DOMAIN mainQueue /\ mainQueue'[i] = mainQueue[i]
  BY <1>2, QueueAppend
<1>5. \A d, i : IsLastAnswer(i, d)' <=> IsLastAnswer(i, d)
  <2>1. \A d : Answered(d, "setDevicePeriod")' = Answered(d, "setDevicePeriod")
    BY <1>1, <1>3, <1>4 DEF Answered
  <2> QED
    BY <1>1, <2>1 DEF IsLastAnswer, Pending
<1>6. ASSUME NEW d \in Ids, NEW i \in DOMAIN mainQueue', IsLastAnswer(i, d)'
      PROVE  cloud'[d].period = asked'[mainQueue'[i].request].newPeriod
  <2>1. IsLastAnswer(i, d) /\ i \in Answered(d, "setDevicePeriod")
    BY <1>5, <1>6 DEF IsLastAnswer
  <2>2. i \in DOMAIN mainQueue
    BY <2>1 DEF Answered
  <2> QED
    BY <1>1, <1>3, <2>1, <2>2 DEF AnswerInv
<1> QED
  BY <1>1, <1>4, <1>6 DEF AnswerInv, LoadOf

LEMMA AnswerRun ==
    ASSUME TypeInv, AnswerInv, RunBlock
    PROVE  AnswerInv'
<1>1. UNCHANGED <<cloud, pipe, asked>>
  BY DEF RunBlock, cloudVars
<1>2. \A i \in DOMAIN mainQueue' : mainQueue'[i].do = "answer" =>
         i + 1 \in DOMAIN mainQueue /\ i \in Nat \ {0} /\ mainQueue'[i] = mainQueue[i + 1]
  BY QueueOfRun
<1>3. \A i \in DOMAIN mainQueue : i # 1 =>
         i - 1 \in DOMAIN mainQueue' /\ mainQueue'[i - 1] = mainQueue[i] /\ (i - 1) + 1 = i
  BY QueueOfRun
<1>4. ASSUME NEW d \in Ids, NEW i \in DOMAIN mainQueue', IsLastAnswer(i, d)'
      PROVE  cloud'[d].period = asked'[mainQueue'[i].request].newPeriod
  <2>1. /\ i + 1 \in DOMAIN mainQueue /\ i \in Nat \ {0} /\ mainQueue'[i] = mainQueue[i + 1]
        /\ i + 1 \in Answered(d, "setDevicePeriod")
    BY <1>1, <1>2, <1>4 DEF IsLastAnswer, Answered
  <2>2. ASSUME NEW j \in Answered(d, "setDevicePeriod")
        PROVE  j <= i + 1
    <3>1. j \in DOMAIN mainQueue /\ j \in Nat
      BY QueueTypes DEF Answered
    <3>2. CASE j # 1
      <4>1. j - 1 \in Answered(d, "setDevicePeriod")'
        BY <1>1, <1>3, <3>1, <3>2 DEF Answered
      <4>2. j - 1 <= i
        BY <1>4, <4>1 DEF IsLastAnswer
      <4> QED
        BY <2>1, <3>1, <4>2
    <3> QED
      BY <2>1, <3>2
  <2>3. IsLastAnswer(i + 1, d)
    BY <1>1, <1>4, <2>1, <2>2 DEF IsLastAnswer, Pending
  <2> QED
    BY <1>1, <2>1, <2>3 DEF AnswerInv
<1>5. ASSUME NEW i \in DOMAIN mainQueue', NEW j \in DOMAIN mainQueue', i < j,
             mainQueue'[i].do = "answer", mainQueue'[j].do = "answer"
      PROVE  LoadOf(mainQueue[i + 1].request) <= LoadOf(mainQueue[j + 1].request)
  <2>1. i + 1 < j + 1
    BY <1>2, <1>5
  <2> QED
    BY <1>2, <1>5, <2>1 DEF AnswerInv
<1> QED
  BY <1>1, <1>2, <1>4, <1>5 DEF AnswerInv, LoadOf

LEMMA AnswerAcknowledged ==
    ASSUME TypeInv, CacheInv, AnswerInv, WriteAcknowledged
    PROVE  AnswerInv'
<1> DEFINE n == Len(mainQueue) + 1
           r == pipe[1]
<1>1. /\ pipe # << >> /\ pipe' = Tail(pipe) /\ UNCHANGED <<asked, cloud>> /\ 1 <= onServer
      /\ mainQueue' = Append(mainQueue, [do |-> "answer", request |-> Head(pipe),
                                         success |-> TRUE])
  BY PipeTypes DEF WriteAcknowledged
<1>2. 1 \in DOMAIN pipe /\ Head(pipe) = r /\ r \in Requests
  BY <1>1, PipeTail, PipeTypes
<1>3. PICK block \in Block : /\ mainQueue' = Append(mainQueue, block)
                             /\ block.do = "answer" /\ block.request = r /\ block.success = TRUE
  <2>1. [do |-> "answer", request |-> r, success |-> TRUE] \in Block
    BY <1>2 DEF Block
  <2> QED
    BY <1>1, <1>2, <2>1
<1>4. /\ n \in DOMAIN mainQueue' /\ mainQueue'[n] = block
      /\ \A i \in DOMAIN mainQueue : i \in DOMAIN mainQueue' /\ mainQueue'[i] = mainQueue[i]
                                     /\ i < n /\ ~ (n < i) /\ ~ (n <= i)
      /\ \A i \in DOMAIN mainQueue' : i \in DOMAIN mainQueue \/ i = n
      /\ ~ (n < n)
  BY <1>3, QueueAppend, QueueTypes
<1>5. /\ \A i \in DOMAIN pipe' : i + 1 \in DOMAIN pipe /\ pipe'[i] = pipe[i + 1] /\ 1 < i + 1
                                 /\ i \in Nat
      /\ \A i \in DOMAIN pipe : i # 1 => i - 1 \in DOMAIN pipe' /\ pipe'[i - 1] = pipe[i]
      /\ \A d, kind : \A i \in DOMAIN pipe' :
            i \in Pending(d, kind)' <=> i + 1 \in Pending(d, kind)
  BY <1>1, PipeTail
<1> HIDE DEF n, r
<1>6. ASSUME NEW i \in DOMAIN mainQueue', mainQueue'[i].do = "answer"
      PROVE  /\ mainQueue'[i].success
             /\ \A j \in DOMAIN pipe' : LoadOf(mainQueue'[i].request) <= LoadOf(pipe'[j])
  <2>1. CASE i = n
    BY <1>2, <1>3, <1>4, <1>5, <2>1 DEF AnswerInv, r
  <2>2. CASE i \in DOMAIN mainQueue
    BY <1>4, <1>5, <1>6, <2>2 DEF AnswerInv
  <2> QED
    BY <1>4, <2>1, <2>2
<1>7. ASSUME NEW i \in DOMAIN mainQueue', NEW j \in DOMAIN mainQueue', i < j,
             mainQueue'[i].do = "answer", mainQueue'[j].do = "answer"
      PROVE  LoadOf(mainQueue'[i].request) <= LoadOf(mainQueue'[j].request)
  <2>1. i \in DOMAIN mainQueue
    BY <1>4, <1>7
  <2>2. CASE j = n
    BY <1>2, <1>3, <1>4, <1>7, <2>1, <2>2 DEF AnswerInv, r
  <2>3. CASE j \in DOMAIN mainQueue
    BY <1>4, <1>7, <2>1, <2>3 DEF AnswerInv
  <2> QED
    BY <1>4, <2>2, <2>3
<1>8. ASSUME NEW i \in DOMAIN pipe', NEW j \in DOMAIN pipe', i < j
      PROVE  LoadOf(pipe'[i]) <= LoadOf(pipe'[j])
  <2>1. i + 1 < j + 1
    BY <1>5, <1>8
  <2> QED
    BY <1>5, <2>1 DEF AnswerInv
<1>9. ASSUME NEW d \in Ids, NEW i \in DOMAIN mainQueue', IsLastAnswer(i, d)'
      PROVE  cloud'[d].period = asked'[mainQueue'[i].request].newPeriod
  <2>1. \A j \in Pending(d, "setDevicePeriod") : j = 1
    <3> TAKE j \in Pending(d, "setDevicePeriod")
    <3>1. j \in DOMAIN pipe /\ (j # 1 => j - 1 \in DOMAIN pipe' /\ (j - 1) + 1 = j)
      BY <1>5, PipeTypes DEF Pending
    <3>2. Pending(d, "setDevicePeriod")' = {}
      BY <1>9 DEF IsLastAnswer
    <3> QED
      BY <1>5, <3>1, <3>2
  <2>2. CASE i = n
    <3>1. 1 \in Pending(d, "setDevicePeriod")
      BY <1>1, <1>2, <1>3, <1>4, <1>9, <2>2 DEF IsLastAnswer, Answered, Pending, r
    <3>2. IsLastApplied(1, d)
      BY <1>1, <2>1, <3>1 DEF IsLastApplied
    <3> QED
      BY <1>1, <1>2, <1>3, <1>4, <2>2, <3>2 DEF CacheInv, r
  <2>3. CASE i \in DOMAIN mainQueue
    <3>1. n \notin Answered(d, "setDevicePeriod")'
      BY <1>4, <1>9, <2>3 DEF IsLastAnswer
    <3>2. 1 \notin Pending(d, "setDevicePeriod")
      BY <1>1, <1>3, <1>4, <3>1 DEF Answered, Pending, r
    <3>3. \A j \in Answered(d, "setDevicePeriod") : j \in Answered(d, "setDevicePeriod")'
      BY <1>1, <1>4 DEF Answered
    <3>4. i \in Answered(d, "setDevicePeriod")
      BY <1>1, <1>4, <1>9, <2>3 DEF IsLastAnswer, Answered
    <3>5. IsLastAnswer(i, d)
      BY <1>9, <2>1, <3>2, <3>3, <3>4 DEF IsLastAnswer
    <3> QED
      BY <1>1, <1>4, <2>3, <3>5 DEF AnswerInv
  <2> QED
    BY <1>4, <2>2, <2>3
<1> QED
  BY <1>1, <1>6, <1>7, <1>8, <1>9 DEF AnswerInv, LoadOf

LEMMA AnswerCall ==
    ASSUME TypeInv, LoadedInv, faults = 0, AnswerInv, NEW r \in Requests, NEW call,
           call.load = current, MakeCall(r, call)
    PROVE  AnswerInv'
<1>1. UNCHANGED <<cloud, mainQueue>> /\ asked[r] = NoCall
  BY DEF MakeCall
<1>2. CASE UNCHANGED <<asked, pipe>>
  BY <1>1, <1>2, AnswerSame
<1>3. CASE asked' = [asked EXCEPT ![r] = call] /\ pipe' = Append(pipe, r)
  <2> DEFINE n == Len(pipe) + 1
  <2>0. /\ pipe'[n] = r /\ asked'[r] = call /\ n \in DOMAIN pipe'
        /\ \A i \in DOMAIN pipe' : i \in DOMAIN pipe \/ i = n
    BY <1>1, <1>3, PipeAppend
  <2>1. /\ \A i \in DOMAIN pipe : /\ i \in DOMAIN pipe' /\ pipe'[i] = pipe[i]
                                  /\ asked'[pipe[i]] = asked[pipe[i]]
                                  /\ i < n /\ ~ (n < i)
        /\ ~ (n < n)
    <3>1. \A i \in DOMAIN pipe : /\ i \in DOMAIN pipe' /\ pipe'[i] = pipe[i]
                                 /\ asked'[pipe[i]] = asked[pipe[i]] /\ i < n
      BY <1>1, <1>3, PipeAppend
    <3> QED
      BY <3>1, PipeTypes
  <2>2. ASSUME NEW e, NEW kind
        PROVE  /\ ~ (call.id = e /\ call.kind = kind) => Pending(e, kind)' = Pending(e, kind)
               /\ call.id = e /\ call.kind = kind => n \in Pending(e, kind)'
    <3>1. ~ (call.id = e /\ call.kind = kind) => Pending(e, kind)' = Pending(e, kind)
      BY <1>1, <1>3, PendingAppend
    <3>2. call.id = e /\ call.kind = kind => n \in Pending(e, kind)'
      BY <1>1, <1>3, PipeAppend
    <3> QED
      BY <3>1, <3>2
  <2> HIDE DEF n
  <2>3. \A i \in DOMAIN mainQueue : mainQueue[i].do = "answer" =>
           asked'[mainQueue[i].request] = asked[mainQueue[i].request]
    <3>1. asked \in [Requests -> Call \cup {NoCall}]
      BY DEF TypeInv, CallsInv
    <3>2. \A i \in DOMAIN mainQueue : mainQueue[i].do = "answer" =>
             mainQueue[i].request \in Requests /\ mainQueue[i].request # r
      BY <1>1, QueueTypes
    <3> QED
      BY <1>3, <3>1, <3>2
  <2>4. current = Len(loaded)
    BY DEF LoadedInv
  <2>5. \A q : asked[q].load \in DOMAIN loaded => asked[q].load <= asked'[r].load
    BY <2>0, <2>4, QueueTypes
  <2>6. ASSUME NEW i \in DOMAIN mainQueue, mainQueue[i].do = "answer", NEW j \in DOMAIN pipe'
        PROVE  asked'[mainQueue[i].request].load <= asked'[pipe'[j]].load
    BY <2>0, <2>1, <2>3, <2>5, <2>6, QueueTypes DEF AnswerInv, LoadOf
  <2>7. ASSUME NEW i \in DOMAIN pipe', NEW j \in DOMAIN pipe', i < j
        PROVE  asked'[pipe'[i]].load <= asked'[pipe'[j]].load
    <3>1. i \in DOMAIN pipe
      BY <2>0, <2>1, <2>7
    <3> QED
      BY <2>0, <2>1, <2>5, <2>7, <3>1, QueueTypes DEF AnswerInv, LoadOf
  <2>8. ASSUME NEW i \in DOMAIN mainQueue, NEW j \in DOMAIN mainQueue, i < j,
               mainQueue[i].do = "answer", mainQueue[j].do = "answer"
        PROVE  asked'[mainQueue[i].request].load <= asked'[mainQueue[j].request].load
    BY <2>3, <2>8 DEF AnswerInv, LoadOf
  <2>9. ASSUME NEW d \in Ids, NEW i \in DOMAIN mainQueue, IsLastAnswer(i, d)'
        PROVE  cloud[d].period = asked'[mainQueue[i].request].newPeriod
    <3>1. \A j : j \in Answered(d, "setDevicePeriod")' <=> j \in Answered(d, "setDevicePeriod")
      BY <1>1, <2>3 DEF Answered
    <3>2. Pending(d, "setDevicePeriod") = {}
      BY <2>2, <2>9 DEF IsLastAnswer
    <3>3. IsLastAnswer(i, d) /\ mainQueue[i].do = "answer"
      BY <2>9, <3>1, <3>2 DEF IsLastAnswer, Answered
    <3> QED
      BY <2>3, <3>3 DEF AnswerInv
  <2> QED
    BY <1>1, <2>6, <2>7, <2>8, <2>9 DEF AnswerInv, LoadOf
<1> QED
  BY <1>2, <1>3 DEF MakeCall

LEMMA AnswerStep ==
    TypeInv /\ LoadedInv /\ CacheInv /\ AnswerInv /\ faults = 0 /\ [Next]_vars /\ faults' = 0
       => AnswerInv'
<1> SUFFICES ASSUME TypeInv, LoadedInv, CacheInv, AnswerInv, faults = 0, [Next]_vars, faults' = 0
             PROVE  AnswerInv'
  OBVIOUS
<1>1. ASSUME UNCHANGED <<cloud, pipe, asked, mainQueue>>
      PROVE  AnswerInv'
  BY <1>1, AnswerSame
<1>2. ASSUME \/ UNCHANGED vars \/ \E d \in Ids : SelectRow(d)
             \/ PullToRefresh \/ GoBack \/ PeriodButton \/ ClosePicker
             \/ \E class \in FilterClasses : ToggleFilter(class)
             \/ \E turn \in Turns : TurnWheel(turn)
      PROVE  UNCHANGED <<cloud, pipe, asked, mainQueue>>
  BY <1>2 DEF vars, cloudVars, SelectRow, PullToRefresh, ToggleFilter, GoBack, PeriodButton,
              ClosePicker, TurnWheel, OnlyPicker
<1>3. ASSUME NEW d \in Ids, Report(d)
      PROVE  AnswerInv'
  <2>1. UNCHANGED <<pipe, asked, mainQueue>>
    BY <1>3 DEF Report
  <2>2. \A e \in Ids : cloud'[e].period = cloud[e].period
    BY <1>3, ReportNumbers
  <2> QED
    BY <2>1, <2>2, AnswerSame
<1>4. ASSUME ServerAppliesWrite
      PROVE  AnswerInv'
  <2> DEFINE c == asked[pipe[onServer + 1]]
             x == c.id
  <2>1. UNCHANGED <<pipe, asked, mainQueue>>
    BY <1>4 DEF ServerAppliesWrite
  <2>2. /\ c.kind = "setDevicePeriod" => onServer + 1 \in Pending(x, c.kind)
        /\ c.kind # "setDevicePeriod" => cloud'[x].period = cloud[x].period
        /\ \A e \in Ids : e # x => cloud'[e] = cloud[e]
    BY <1>4, ServerNumbers DEF Pending
  <2> HIDE DEF c, x
  <2>3. ASSUME NEW e \in Ids, Pending(e, "setDevicePeriod") = {}
        PROVE  cloud'[e].period = cloud[e].period
    BY <2>2, <2>3
  <2> QED
    BY <2>1, <2>3, AnswerSame
<1>5. ASSUME WriteRejected \/ ListenRejected
      PROVE  FALSE
  BY <1>5 DEF WriteRejected, ListenRejected
<1>6. ASSUME NEW r \in Requests, ServiceDevice(r) \/ SetDevicePeriod(r)
      PROVE  \E call : call.load = current /\ MakeCall(r, call)
  BY <1>6 DEF ServiceDevice, SetDevicePeriod
<1>7. ASSUME NEW r \in Requests, NEW call, call.load = current, MakeCall(r, call)
      PROVE  AnswerInv'
  BY <1>7, AnswerCall
<1> QED
  BY <1>1, <1>2, <1>3, <1>4, <1>5, <1>6, <1>7, AnswerSnapshot, AnswerRun, AnswerAcknowledged
     DEF Next

LEMMA AnswerInit == Init => AnswerInv
<1> SUFFICES ASSUME Init PROVE AnswerInv
  OBVIOUS
<1>1. DOMAIN pipe = {} /\ DOMAIN mainQueue = {}
  BY DEF Init
<1> QED
  BY <1>1 DEF AnswerInv

(* An object has what the cloud will have of a device: the period of the   *)
(* last call under way, and no more hours                                  *)
Agrees(d, kind, object) ==
    IF kind = "setDevicePeriod"
    THEN /\ Pending(d, kind) = {} => object.period = cloud[d].period
         /\ \A i \in Pending(d, kind) :
               (\A j \in Pending(d, kind) : j <= i) =>
                  object.period = asked[pipe[i]].newPeriod
    ELSE /\ object.operationTime <= cloud[d].operationTime
         /\ Pending(d, kind) # {} => object.operationTime = 0

(* No handler of such a call is still to change the current object.        *)
Settled(d, kind) ==
    /\ \A i \in Pending(d, kind) : LoadOf(pipe[i]) # current
    /\ \A i \in Answered(d, kind) : LoadOf(mainQueue[i].request) # current

SnapshotsAgree ==
    \A i \in DOMAIN mainQueue : mainQueue[i].do = "snapshot" =>
       \A d \in DOMAIN mainQueue[i].devices, kind \in Kinds :
          Agrees(d, kind, mainQueue[i].devices[d])

ListAgrees ==
    current # 0 =>
       \A d \in DOMAIN loaded[current], kind \in Kinds :
          Settled(d, kind) => Agrees(d, kind, loaded[current][d])

(* A snapshot has the writes that are under way. *)
LEMMA ViewAgrees ==
    ASSUME TypeInv, CacheInv, NEW documents, documents = cloud \/ documents = cache,
           NEW d \in DOMAIN documents, NEW kind \in Kinds
    PROVE  Agrees(d, kind, View(documents)[d])
<1> DEFINE services == Pending(d, "serviceDevice")
           periods  == Pending(d, "setDevicePeriod")
           object   == View(documents)[d]
<1>1. /\ object.operationTime = IF services = {} THEN documents[d].operationTime ELSE 0
      /\ object.period = IF periods = {} THEN documents[d].period
                         ELSE asked[pipe[Max(periods)]].newPeriod
  BY DEF View
<1>2. d \in Ids /\ cloud[d].operationTime \in Nat
  BY PipeTypes
<1>3. /\ periods = {} => documents[d].period = cloud[d].period
      /\ services = {} => documents[d].operationTime <= cloud[d].operationTime
  <2>1. CASE documents = cloud
    BY <1>2, <2>1
  <2>2. CASE documents = cache
    BY <2>2 DEF CacheInv, HasApplied
  <2> QED
    BY <2>1, <2>2
<1>4. ASSUME periods # {}
      PROVE  Max(periods) \in periods /\ \A i \in periods : i <= Max(periods)
  <2>1. periods \subseteq 1 .. Len(pipe) /\ Len(pipe) \in Nat
    BY PipeTypes DEF Pending
  <2> HIDE DEF periods
  <2> QED
    BY <1>4, <2>1, LastPlace
<1>5. \A i \in periods : i \in Nat
  BY PipeTypes DEF Pending
<1> HIDE DEF object
<1>6. ASSUME kind = "serviceDevice"
      PROVE  Agrees(d, kind, object)
  BY <1>1, <1>2, <1>3, <1>6 DEF Agrees
<1>7. ASSUME kind = "setDevicePeriod"
      PROVE  Agrees(d, kind, object)
  <2>1. ASSUME NEW i \in periods, \A j \in periods : j <= i
        PROVE  i = Max(periods)
    <3>1. Max(periods) \in periods /\ i <= Max(periods)
      BY <1>4, <2>1
    <3>2. Max(periods) <= i /\ Max(periods) \in Nat /\ i \in Nat
      BY <1>5, <2>1, <3>1
    <3> HIDE DEF periods
    <3> QED
      BY <3>1, <3>2
  <2> QED
    BY <1>1, <1>3, <1>7, <2>1 DEF Agrees
<1> QED
  BY <1>6, <1>7 DEF Kinds, object

(* The writes on their way change nothing of what an object has to have. *)
LEMMA AgreesKept ==
    ASSUME TypeInv, CacheInv, NEW d \in Ids, NEW kind \in Kinds, NEW object \in Device,
           Agrees(d, kind, object),
           \/ UNCHANGED <<cloud, pipe, asked>>
           \/ \E e \in Ids : Report(e)
           \/ ServerAppliesWrite \/ WriteAcknowledged
    PROVE  Agrees(d, kind, object)'
<1>0. object.operationTime \in Nat
  BY ListBounds DEF Device, ListBounds
<1>1. ASSUME UNCHANGED <<pipe, asked>>,
             kind = "setDevicePeriod" /\ Pending(d, kind) = {} =>
                cloud'[d].period = cloud[d].period,
             kind = "serviceDevice" => object.operationTime <= cloud'[d].operationTime
      PROVE  Agrees(d, kind, object)'
  <2>1. Pending(d, kind)' = Pending(d, kind)
    BY <1>1 DEF Pending
  <2> QED
    BY <1>1, <2>1 DEF Agrees, Kinds
<1>2. CASE UNCHANGED <<cloud, pipe, asked>>
  BY <1>1, <1>2 DEF Agrees
<1>3. ASSUME NEW e \in Ids, Report(e)
      PROVE  Agrees(d, kind, object)'
  <2>1. /\ UNCHANGED <<pipe, asked>> /\ cloud'[d].period = cloud[d].period
        /\ cloud[d].operationTime <= cloud'[d].operationTime
        /\ cloud[d].operationTime \in Nat /\ cloud'[d].operationTime \in Nat
    BY <1>3, ReportNumbers, PipeTypes
  <2>2. kind = "serviceDevice" => object.operationTime <= cloud'[d].operationTime
    BY <1>0, <2>1 DEF Agrees
  <2> QED
    BY <1>1, <2>1, <2>2
<1>4. CASE ServerAppliesWrite
  <2> DEFINE c == asked[pipe[onServer + 1]]
             x == c.id
  <2>1. UNCHANGED <<pipe, asked>>
    BY <1>4 DEF ServerAppliesWrite
  <2>2. /\ onServer + 1 \in Pending(x, c.kind) /\ c.kind \in Kinds
        /\ c.kind = "serviceDevice" => cloud'[x].operationTime = 0
        /\ c.kind # "serviceDevice" => cloud'[x].operationTime = cloud[x].operationTime
        /\ c.kind # "setDevicePeriod" => cloud'[x].period = cloud[x].period
        /\ \A e \in Ids : e # x => cloud'[e] = cloud[e]
    BY <1>4, ServerNumbers DEF Pending, Kinds
  <2> HIDE DEF c, x
  <2>3. kind = "setDevicePeriod" /\ Pending(d, kind) = {} => cloud'[d].period = cloud[d].period
    BY <2>2
  <2>4. ASSUME kind = "serviceDevice"
        PROVE  object.operationTime <= cloud'[d].operationTime
    <3>1. CASE d = x /\ c.kind = "serviceDevice"
      <4>1. object.operationTime = 0 /\ cloud'[d].operationTime = 0
        BY <2>2, <2>4, <3>1 DEF Agrees
      <4> QED
        BY <4>1
    <3>2. CASE ~ (d = x /\ c.kind = "serviceDevice")
      <4>1. cloud'[d].operationTime = cloud[d].operationTime
        BY <2>2, <3>2
      <4> QED
        BY <2>4, <4>1 DEF Agrees
    <3> QED
      BY <3>1, <3>2
  <2> QED
    BY <1>1, <2>1, <2>3, <2>4
<1>5. CASE WriteAcknowledged
  <2>1. pipe # << >> /\ pipe' = Tail(pipe) /\ UNCHANGED <<asked, cloud>> /\ 1 <= onServer
    <3>1. onServer > 0 /\ pipe' = Tail(pipe) /\ UNCHANGED <<asked, cloud>>
      BY <1>5 DEF WriteAcknowledged
    <3>2. onServer \in 0 .. Len(pipe) /\ Len(pipe) \in Nat
      BY PipeTypes
    <3>3. 1 <= onServer /\ Len(pipe) # 0
      BY <3>1, <3>2
    <3> QED
      BY <3>1, <3>3
  <2>2. /\ \A i \in DOMAIN pipe' : i + 1 \in DOMAIN pipe /\ pipe'[i] = pipe[i + 1] /\ i \in Nat
        /\ \A i \in DOMAIN pipe : i # 1 => i - 1 \in DOMAIN pipe' /\ (i - 1) + 1 = i
        /\ 1 \in DOMAIN pipe
    BY <2>1, PipeTail
  <2>3. \A i \in DOMAIN pipe' : i \in Pending(d, kind)' <=> i + 1 \in Pending(d, kind)
    BY <2>1, PipeTail
  <2>4. \A i \in Pending(d, kind)' : i \in DOMAIN pipe' /\ i + 1 \in Pending(d, kind)
    BY <2>3 DEF Pending
  <2>5. CASE kind = "serviceDevice"
    BY <2>1, <2>4, <2>5 DEF Agrees
  <2>6. CASE kind = "setDevicePeriod"
    <3>1. ASSUME NEW i \in Pending(d, kind)', \A j \in Pending(d, kind)' : j <= i
          PROVE  object.period = asked'[pipe'[i]].newPeriod
      <4>1. ASSUME NEW j \in Pending(d, kind)
            PROVE  j <= i + 1
        <5>1. j \in DOMAIN pipe /\ j \in Nat /\ i \in Nat
          BY <2>2, <2>4, PipeTypes DEF Pending
        <5>2. CASE j # 1
          <6>1. j - 1 \in Pending(d, kind)'
            BY <2>2, <2>3, <5>1, <5>2
          <6>2. j - 1 <= i
            BY <3>1, <6>1
          <6> QED
            BY <5>1, <6>2
        <5> QED
          BY <5>1, <5>2
      <4>2. i + 1 \in Pending(d, kind) /\ pipe'[i] = pipe[i + 1]
        BY <2>2, <2>4
      <4> QED
        BY <2>1, <2>6, <4>1, <4>2 DEF Agrees
    <3>2. ASSUME Pending(d, kind)' = {}
          PROVE  object.period = cloud'[d].period
      <4>1. \A j \in Pending(d, kind) : j = 1
        BY <2>2, <2>3, <3>2 DEF Pending
      <4>2. CASE Pending(d, kind) = {}
        BY <2>1, <2>6, <4>2 DEF Agrees
      <4>3. CASE 1 \in Pending(d, kind)
        <5>1. IsLastApplied(1, d)
          BY <2>1, <2>6, <4>1, <4>3 DEF IsLastApplied
        <5>2. cloud[d].period = asked[pipe[1]].newPeriod
          BY <2>2, <5>1 DEF CacheInv
        <5>3. object.period = asked[pipe[1]].newPeriod
          BY <2>6, <4>1, <4>3 DEF Agrees
        <5> QED
          BY <2>1, <5>2, <5>3
      <4> QED
        BY <4>1, <4>2, <4>3
    <3> QED
      BY <2>6, <3>1, <3>2 DEF Agrees
  <2> QED
    BY <2>5, <2>6 DEF Kinds
<1> QED
  BY <1>2, <1>3, <1>4, <1>5

(* A handler other than that of a confirmed call leaves what is current,   *)
(* unless it shows a snapshot.                                             *)
LEMMA ObjectsKept ==
    ASSUME TypeInv, CacheInv, SnapshotsAgree, ListAgrees,
           UNCHANGED <<loaded, current>>,
           \/ UNCHANGED <<cloud, pipe, asked>>
           \/ \E e \in Ids : Report(e)
           \/ ServerAppliesWrite \/ WriteAcknowledged,
           \A i \in DOMAIN mainQueue' : mainQueue'[i].do = "snapshot" =>
              \E j \in DOMAIN mainQueue : mainQueue'[i] = mainQueue[j],
           \A d, kind : Settled(d, kind)' => Settled(d, kind)
    PROVE  SnapshotsAgree' /\ ListAgrees'
<1>1. ASSUME NEW d \in Ids, NEW kind \in Kinds, NEW object \in Device, Agrees(d, kind, object)
      PROVE  Agrees(d, kind, object)'
  BY <1>1, AgreesKept
<1>2. \A devices \in Loads : \A d \in DOMAIN devices : d \in Ids /\ devices[d] \in Device
  BY DEF Loads
<1>3. ASSUME NEW i \in DOMAIN mainQueue', mainQueue'[i].do = "snapshot",
             NEW d \in DOMAIN mainQueue'[i].devices, NEW kind \in Kinds
      PROVE  Agrees(d, kind, mainQueue[i].devices[d])'
  <2>1. PICK j \in DOMAIN mainQueue : mainQueue'[i] = mainQueue[j]
    BY <1>3
  <2>2. mainQueue[j].devices \in Loads
    BY <1>3, <2>1, QueueTypes DEF Block
  <2>3. PICK object : object = mainQueue'[i].devices[d]
    OBVIOUS
  <2>4. object \in Device /\ d \in Ids
    BY <1>2, <1>3, <2>1, <2>2, <2>3
  <2>5. Agrees(d, kind, mainQueue[j].devices[d])
    BY <1>3, <2>1 DEF SnapshotsAgree
  <2>6. Agrees(d, kind, object)
    BY <2>1, <2>3, <2>5
  <2>7. Agrees(d, kind, object)'
    BY <1>1, <2>4, <2>6
  <2> QED
    BY <2>3, <2>7 DEF Agrees
<1>4. ASSUME current # 0, NEW d \in DOMAIN loaded[current], NEW kind \in Kinds,
             Settled(d, kind)'
      PROVE  Agrees(d, kind, loaded[current][d])'
  <2>1. loaded[current] \in Loads
    BY <1>4, QueueTypes DEF TypeInv, LoadsInv
  <2>2. PICK object : object = loaded[current][d]
    OBVIOUS
  <2>3. object \in Device /\ d \in Ids
    BY <1>2, <1>4, <2>1, <2>2
  <2>4. Agrees(d, kind, object)
    BY <1>4, <2>2 DEF ListAgrees
  <2>5. Agrees(d, kind, object)'
    BY <1>1, <2>3, <2>4
  <2> QED
    BY <2>2, <2>5 DEF Agrees
<1>5. SnapshotsAgree'
  BY <1>3 DEF SnapshotsAgree
<1>6. ListAgrees'
  BY <1>4 DEF ListAgrees
<1> QED
  BY <1>5, <1>6

(* A new snapshot *)
LEMMA ObjectsOfSnapshot ==
    ASSUME TypeInv, CacheInv, SnapshotsAgree, ListAgrees, FreshSnapshot \/ CachedSnapshot
    PROVE  SnapshotsAgree' /\ ListAgrees'
<1>1. UNCHANGED <<cloud, pipe, asked, loaded, current>>
  BY DEF FreshSnapshot, CachedSnapshot, cloudVars, listVars
<1>2. PICK documents : /\ documents = cloud \/ documents = cache
                       /\ mainQueue' = Append(mainQueue, [do |-> "snapshot",
                                                          devices |-> View(documents)])
  BY DEF FreshSnapshot, CachedSnapshot
<1>3. DOMAIN View(documents) = DOMAIN documents
  BY DEF View
<1>4. PICK block \in Block : /\ mainQueue' = Append(mainQueue, block)
                             /\ block.do = "snapshot" /\ block.devices = View(documents)
  <2>1. View(documents) \in Loads
    BY <1>2, ListBounds, ViewIsLoad DEF TypeInv, StoreInv
  <2>2. [do |-> "snapshot", devices |-> View(documents)] \in Block
    BY <2>1 DEF Block
  <2> QED
    BY <1>2, <2>2
<1>5. /\ \A i \in DOMAIN mainQueue : i \in DOMAIN mainQueue' /\ mainQueue'[i] = mainQueue[i]
      /\ \A i \in DOMAIN mainQueue' : i \in DOMAIN mainQueue \/ mainQueue'[i] = block
  BY <1>4, QueueAppend
<1>6. \A d, kind, object : Agrees(d, kind, object)' <=> Agrees(d, kind, object)
  BY <1>1 DEF Agrees, Pending
<1>7. ASSUME NEW d, NEW kind, Settled(d, kind)'
      PROVE  Settled(d, kind)
  <2>1. Pending(d, kind)' = Pending(d, kind)
    BY <1>1 DEF Pending
  <2>2. \A i \in Answered(d, kind) : i \in Answered(d, kind)' /\ mainQueue'[i] = mainQueue[i]
    BY <1>1, <1>5 DEF Answered
  <2> QED
    BY <1>1, <1>7, <2>1, <2>2 DEF Settled, LoadOf
<1>8. ASSUME NEW i \in DOMAIN mainQueue', mainQueue'[i].do = "snapshot",
             NEW d \in DOMAIN mainQueue'[i].devices, NEW kind \in Kinds
      PROVE  Agrees(d, kind, mainQueue[i].devices[d])'
  <2>1. PICK object : object = mainQueue'[i].devices[d]
    OBVIOUS
  <2>2. Agrees(d, kind, object)
    <3>1. CASE i \in DOMAIN mainQueue
      BY <1>5, <1>8, <2>1, <3>1 DEF SnapshotsAgree
    <3>2. CASE mainQueue'[i] = block
      BY <1>2, <1>3, <1>4, <1>8, <2>1, <3>2, ViewAgrees
    <3> QED
      BY <1>5, <3>1, <3>2
  <2> QED
    BY <1>6, <2>1, <2>2 DEF Agrees
<1>9. ASSUME current # 0, NEW d \in DOMAIN loaded[current], NEW kind \in Kinds,
             Settled(d, kind)'
      PROVE  Agrees(d, kind, loaded[current][d])'
  <2>1. PICK object : object = loaded[current][d]
    OBVIOUS
  <2>2. Agrees(d, kind, object)
    BY <1>7, <1>9, <2>1 DEF ListAgrees
  <2> QED
    BY <1>1, <1>6, <2>1, <2>2 DEF Agrees
<1> QED
  BY <1>1, <1>8, <1>9 DEF SnapshotsAgree, ListAgrees

(* The handler of a call, for the object that it changes and for the others *)
LEMMA ObjectsOfAnswer ==
    ASSUME TypeInv, LoadedInv, AnswerInv, faults = 0, ListAgrees, RunBlock,
           mainQueue[1].do = "answer", current # 0,
           NEW d \in DOMAIN loaded'[current], NEW kind \in Kinds, Settled(d, kind)'
    PROVE  d \in DOMAIN loaded[current] /\ Agrees(d, kind, loaded'[current][d])
<1> DEFINE r == mainQueue[1].request
           c == asked[r]
<1>1. /\ 1 \in DOMAIN mainQueue /\ Head(mainQueue) = mainQueue[1]
      /\ \A i \in DOMAIN mainQueue : i # 1 =>
            i - 1 \in DOMAIN mainQueue' /\ mainQueue'[i - 1] = mainQueue[i]
      /\ UNCHANGED <<cloud, pipe, asked>>
  BY QueueOfRun DEF RunBlock, cloudVars
<1>2. UNCHANGED current /\ loaded' = [loaded EXCEPT ![c.load][c.id] = Changed(@, c)]
  <2>1. mainQueue[1].success
    BY <1>1 DEF AnswerInv
  <2> QED
    BY <1>1, <2>1 DEF RunBlock, FinishCall
<1>3. /\ c \in Call /\ c.load \in DOMAIN loaded /\ c.id \in DOMAIN loaded[c.load]
      /\ \A n \in DOMAIN loaded : loaded[n] = << >> \/ loaded[n] \in [Ids -> Device]
      /\ current \in DOMAIN loaded /\ current = Len(loaded)
  BY <1>1, QueueTypes DEF LoadedInv, Loads, TypeInv, LoadsInv
<1>4. /\ DOMAIN loaded'[current] = DOMAIN loaded[current]
      /\ ~ (c.load = current /\ c.id = d) => loaded'[current][d] = loaded[current][d]
      /\ c.load = current /\ c.id = d =>
            loaded'[current][d] = Changed(loaded[current][d], c)
  BY <1>2, <1>3
<1>5. \A i \in Answered(d, kind) : i # 1 => i - 1 \in Answered(d, kind)'
                                            /\ mainQueue'[i - 1] = mainQueue[i]
  BY <1>1 DEF Answered
<1>6. ASSUME 1 \in Answered(d, kind) => c.load # current
      PROVE  Settled(d, kind)
  <2>1. Pending(d, kind)' = Pending(d, kind)
    BY <1>1 DEF Pending
  <2> QED
    BY <1>1, <1>2, <1>5, <1>6, <2>1 DEF Settled, LoadOf
<1>7. 1 \in Answered(d, kind) <=> c.id = d /\ c.kind = kind
  BY <1>1 DEF Answered
<1>8. d \in DOMAIN loaded[current] /\ d \in Ids
  BY <1>3, <1>4
<1>9. loaded[current][d] \in Device /\ cloud[d].operationTime \in Nat
  BY <1>3, <1>8, PipeTypes
<1> HIDE DEF c
<1>10. CASE ~ (c.load = current /\ c.id = d)
  BY <1>4, <1>6, <1>7, <1>8, <1>10 DEF ListAgrees
<1>11. CASE c.load = current /\ c.id = d /\ c.kind # kind
  <2>1. Agrees(d, kind, loaded[current][d])
    BY <1>6, <1>7, <1>8, <1>11 DEF ListAgrees
  <2>2. c.kind \in Kinds
    BY <1>3 DEF Call, Kinds
  <2>3. /\ kind = "setDevicePeriod" => loaded'[current][d].period = loaded[current][d].period
        /\ kind = "serviceDevice" =>
              loaded'[current][d].operationTime = loaded[current][d].operationTime
    BY <1>4, <1>9, <1>11, <2>2 DEF Changed, Device, Kinds
  <2> QED
    BY <1>8, <2>1, <2>3 DEF Agrees, Kinds
<1>12. CASE c.load = current /\ c.id = d /\ c.kind = kind
  <2>1. Pending(d, kind) = {}
    <3> SUFFICES ASSUME NEW i \in Pending(d, kind) PROVE FALSE
      OBVIOUS
    <3>1. i \in DOMAIN pipe /\ i \in Pending(d, kind)'
      BY <1>1 DEF Pending
    <3>2. asked[pipe[i]].load # current
      BY <1>1, <1>2, <3>1 DEF Settled, LoadOf
    <3>3. current <= asked[pipe[i]].load
      BY <1>1, <1>12, <3>1 DEF AnswerInv, LoadOf, c
    <3>4. asked[pipe[i]].load \in 1 .. Len(loaded)
      BY <3>1, QueueTypes
    <3> QED
      BY <1>3, <3>2, <3>3, <3>4, QueueTypes
  <2>2. \A i \in Answered(d, kind) : i = 1
    <3> SUFFICES ASSUME NEW i \in Answered(d, kind), i # 1 PROVE FALSE
      OBVIOUS
    <3>0. i \in DOMAIN mainQueue /\ mainQueue[i].do = "answer"
      BY DEF Answered
    <3>1. 1 < i
      BY <3>0, QueueTypes
    <3>2. asked[mainQueue[i].request].load # current
      BY <1>1, <1>2, <1>5 DEF Settled, LoadOf
    <3>3. current <= asked[mainQueue[i].request].load
      BY <1>1, <1>12, <3>0, <3>1 DEF AnswerInv, LoadOf, c
    <3>4. asked[mainQueue[i].request].load \in 1 .. Len(loaded)
      BY <3>0, QueueTypes
    <3> QED
      BY <1>3, <3>2, <3>3, <3>4, QueueTypes
  <2>3. CASE kind = "setDevicePeriod"
    <3>1. IsLastAnswer(1, d)
      BY <1>7, <1>12, <2>1, <2>2, <2>3 DEF IsLastAnswer
    <3>2. cloud[d].period = c.newPeriod
      BY <1>1, <1>8, <3>1 DEF AnswerInv, c
    <3>3. loaded'[current][d].period = c.newPeriod
      BY <1>4, <1>9, <1>12, <2>3 DEF Changed, Device
    <3> QED
      BY <1>8, <2>1, <2>3, <3>2, <3>3 DEF Agrees
  <2>4. CASE kind = "serviceDevice"
    <3>1. loaded'[current][d].operationTime = 0
      BY <1>4, <1>9, <1>12, <2>4 DEF Changed, Device
    <3>2. 0 <= cloud[d].operationTime
      BY <1>9
    <3> QED
      BY <1>8, <2>1, <2>4, <3>1, <3>2 DEF Agrees
  <2> QED
    BY <2>3, <2>4 DEF Kinds
<1> QED
  BY <1>10, <1>11, <1>12

LEMMA ObjectsOfRun ==
    ASSUME TypeInv, CacheInv, LoadedInv, AnswerInv, faults = 0, SnapshotsAgree, ListAgrees,
           RunBlock
    PROVE  SnapshotsAgree' /\ ListAgrees'
<1>1. UNCHANGED <<cloud, pipe, asked>>
  BY DEF RunBlock, cloudVars
<1>2. /\ 1 \in DOMAIN mainQueue /\ Head(mainQueue) = mainQueue[1]
      /\ \A i \in DOMAIN mainQueue' : mainQueue'[i].do \notin {"labels", "filterDevices"} =>
            i + 1 \in DOMAIN mainQueue /\ mainQueue'[i] = mainQueue[i + 1]
      /\ \A i \in DOMAIN mainQueue : i # 1 =>
            i - 1 \in DOMAIN mainQueue' /\ mainQueue'[i - 1] = mainQueue[i]
  BY QueueOfRun
<1>3. \A d, kind, object : Agrees(d, kind, object)' <=> Agrees(d, kind, object)
  BY <1>1 DEF Agrees, Pending
<1>4. SnapshotsAgree'
  <2>1. ASSUME NEW i \in DOMAIN mainQueue', mainQueue'[i].do = "snapshot",
               NEW d \in DOMAIN mainQueue'[i].devices, NEW kind \in Kinds
        PROVE  Agrees(d, kind, mainQueue[i].devices[d])'
    <3>1. PICK object : object = mainQueue'[i].devices[d]
      OBVIOUS
    <3>2. Agrees(d, kind, object)
      BY <1>2, <2>1, <3>1 DEF SnapshotsAgree
    <3>3. Agrees(d, kind, object)'
      BY <1>3, <3>2
    <3> QED
      BY <3>1, <3>3 DEF Agrees
  <2> QED
    BY <2>1 DEF SnapshotsAgree
<1>5. ASSUME mainQueue[1].do = "snapshot"
      PROVE  ListAgrees'
  <2>1. /\ loaded' = Append(loaded, mainQueue[1].devices) /\ current' = Len(loaded) + 1
        /\ mainQueue[1].devices \in Loads
    BY <1>2, <1>5, QueueTypes DEF RunBlock, ShowSnapshot, Block
  <2>2. loaded'[current'] = mainQueue[1].devices
    BY <2>1, QueueTypes, AppendedElements
  <2>3. ASSUME NEW d \in DOMAIN mainQueue[1].devices, NEW kind \in Kinds
        PROVE  Agrees(d, kind, loaded[current][d])'
    <3>1. PICK object : object = mainQueue[1].devices[d]
      OBVIOUS
    <3>2. Agrees(d, kind, object)
      BY <1>2, <1>5, <2>3, <3>1 DEF SnapshotsAgree
    <3>3. Agrees(d, kind, object)'
      BY <1>3, <3>2
    <3> QED
      BY <2>2, <3>1, <3>3 DEF Agrees
  <2> QED
    BY <2>2, <2>3 DEF ListAgrees
<1>6. ASSUME mainQueue[1].do = "answer"
      PROVE  ListAgrees'
  <2>1. UNCHANGED current
    BY <1>2, <1>6 DEF RunBlock, FinishCall, listVars
  <2>2. ASSUME current # 0, NEW d \in DOMAIN loaded'[current], NEW kind \in Kinds,
               Settled(d, kind)'
        PROVE  Agrees(d, kind, loaded[current][d])'
    <3>1. PICK object : object = loaded'[current][d]
      OBVIOUS
    <3>2. Agrees(d, kind, object)
      BY <1>6, <2>2, <3>1, ObjectsOfAnswer
    <3> QED
      BY <1>3, <2>1, <3>1, <3>2 DEF Agrees
  <2> QED
    BY <2>1, <2>2 DEF ListAgrees
<1>7. ASSUME mainQueue[1].do = "error"
      PROVE  ListAgrees'
  BY <1>2, <1>7 DEF RunBlock, ForgetDevices, ListAgrees
<1>8. ASSUME mainQueue[1].do \in {"labels", "filterDevices"}
      PROVE  ListAgrees'
  <2>1. UNCHANGED <<loaded, current>>
    BY <1>2, <1>8 DEF RunBlock, SetLabels, filterDevices
  <2>2. ASSUME NEW d, NEW kind, Settled(d, kind)'
        PROVE  Settled(d, kind)
    <3>1. Pending(d, kind)' = Pending(d, kind)
      BY <1>1 DEF Pending
    <3>2. \A i \in Answered(d, kind) : i - 1 \in Answered(d, kind)'
                                       /\ mainQueue'[i - 1] = mainQueue[i]
      BY <1>1, <1>2, <1>8 DEF Answered
    <3> QED
      BY <1>1, <2>1, <2>2, <3>1, <3>2 DEF Settled, LoadOf
  <2>3. ASSUME current # 0, NEW d \in DOMAIN loaded[current], NEW kind \in Kinds,
               Settled(d, kind)'
        PROVE  Agrees(d, kind, loaded[current][d])'
    <3>1. PICK object : object = loaded[current][d]
      OBVIOUS
    <3>2. Agrees(d, kind, object)
      BY <2>2, <2>3, <3>1 DEF ListAgrees
    <3> QED
      BY <1>3, <2>1, <3>1, <3>2 DEF Agrees
  <2> QED
    BY <2>1, <2>3 DEF ListAgrees
<1>9. mainQueue[1].do \in {"snapshot", "answer", "error", "labels", "filterDevices"}
  BY <1>2, QueueTypes DEF Block
<1> QED
  BY <1>4, <1>5, <1>6, <1>7, <1>8, <1>9

(* A call that is made when no snapshot waits to be shown *)
LEMMA ObjectsOfCall ==
    ASSUME TypeInv, LoadedInv, faults = 0, SnapshotsAgree, ListAgrees, NEW r \in Requests, NEW call,
           call.load = current, MakeCall(r, call), ~ overtaken'
    PROVE  SnapshotsAgree' /\ ListAgrees'
<1>1. UNCHANGED <<cloud, mainQueue, loaded, current>> /\ asked[r] = NoCall
  BY DEF MakeCall, listVars
<1>2. CASE UNCHANGED <<asked, pipe>>
  <2>1. \A d, kind, object : Agrees(d, kind, object)' <=> Agrees(d, kind, object)
    BY <1>1, <1>2 DEF Agrees, Pending
  <2>2. \A d, kind : Settled(d, kind)' <=> Settled(d, kind)
    BY <1>1, <1>2 DEF Settled, Pending, Answered, LoadOf
  <2>3. ASSUME NEW i \in DOMAIN mainQueue, mainQueue[i].do = "snapshot",
               NEW d \in DOMAIN mainQueue[i].devices, NEW kind \in Kinds
        PROVE  Agrees(d, kind, mainQueue[i].devices[d])'
    <3>1. Agrees(d, kind, mainQueue[i].devices[d])
      BY <2>3 DEF SnapshotsAgree
    <3> QED
      BY <1>1, <1>2, <3>1 DEF Agrees, Pending
  <2>4. ASSUME current # 0, NEW d \in DOMAIN loaded[current], NEW kind \in Kinds,
               Settled(d, kind)'
        PROVE  Agrees(d, kind, loaded[current][d])'
    <3>1. Agrees(d, kind, loaded[current][d])
      BY <2>2, <2>4 DEF ListAgrees
    <3> QED
      BY <1>1, <1>2, <3>1 DEF Agrees, Pending
  <2> QED
    BY <1>1, <2>3, <2>4 DEF SnapshotsAgree, ListAgrees
<1>3. ASSUME asked' = [asked EXCEPT ![r] = call], pipe' = Append(pipe, r),
             \A i \in DOMAIN mainQueue : mainQueue[i].do # "snapshot"
      PROVE  SnapshotsAgree' /\ ListAgrees'
  <2>1. SnapshotsAgree'
    BY <1>1, <1>3 DEF SnapshotsAgree
  <2>2. /\ \A i \in DOMAIN pipe : /\ i \in DOMAIN pipe' /\ pipe'[i] = pipe[i]
                                  /\ asked'[pipe[i]] = asked[pipe[i]]
        /\ pipe'[Len(pipe) + 1] = r /\ asked'[r] = call
    BY <1>1, <1>3, PipeAppend
  <2>3. \A i \in DOMAIN mainQueue : mainQueue[i].do = "answer" =>
           asked'[mainQueue[i].request] = asked[mainQueue[i].request]
    <3>1. asked \in [Requests -> Call \cup {NoCall}]
      BY DEF TypeInv, CallsInv
    <3>2. \A i \in DOMAIN mainQueue : mainQueue[i].do = "answer" =>
             mainQueue[i].request \in Requests /\ mainQueue[i].request # r
      BY <1>1, QueueTypes
    <3> QED
      BY <1>3, <3>1, <3>2
  <2>4. ASSUME current # 0, NEW d \in DOMAIN loaded[current], NEW kind \in Kinds,
               Settled(d, kind)'
        PROVE  Agrees(d, kind, loaded[current][d])'
    <3>1. ~ (call.id = d /\ call.kind = kind)
      <4> SUFFICES ASSUME call.id = d, call.kind = kind PROVE FALSE
        OBVIOUS
      <4>1. Len(pipe) + 1 \in Pending(d, kind)'
        BY <1>1, <1>3, PipeAppend
      <4>2. asked'[pipe'[Len(pipe) + 1]].load # current'
        BY <2>4, <4>1 DEF Settled, LoadOf
      <4> QED
        BY <1>1, <2>2, <4>2
    <3>2. Pending(d, kind)' = Pending(d, kind)
      BY <1>1, <1>3, <3>1, PendingAppend
    <3>3. \A i \in Pending(d, kind) : i \in DOMAIN pipe
      BY DEF Pending
    <3>4. Settled(d, kind)
      <4>1. \A i \in Pending(d, kind) : asked[pipe[i]].load # current
        BY <1>1, <2>2, <2>4, <3>2, <3>3 DEF Settled, LoadOf
      <4>2. \A i \in Answered(d, kind) : i \in Answered(d, kind)' /\ mainQueue[i].do = "answer"
                                         /\ i \in DOMAIN mainQueue
        BY <1>1, <2>3 DEF Answered
      <4>3. \A i \in Answered(d, kind) : asked[mainQueue[i].request].load # current
        BY <1>1, <2>3, <2>4, <4>2 DEF Settled, LoadOf
      <4> QED
        BY <4>1, <4>3 DEF Settled, LoadOf
    <3>5. Agrees(d, kind, loaded[current][d])
      BY <2>4, <3>4 DEF ListAgrees
    <3> QED
      BY <1>1, <2>2, <3>2, <3>3, <3>5 DEF Agrees
  <2> QED
    BY <1>1, <2>1, <2>4 DEF ListAgrees
<1>4. \/ UNCHANGED <<asked, pipe>>
      \/ /\ asked' = [asked EXCEPT ![r] = call] /\ pipe' = Append(pipe, r)
         /\ \A i \in DOMAIN mainQueue : mainQueue[i].do # "snapshot"
  BY DEF MakeCall
<1> QED
  BY <1>2, <1>3, <1>4

LEMMA ObjectsStep ==
    ASSUME TypeInv, LoadedInv, CacheInv, AnswerInv, SnapshotsAgree, ListAgrees, faults = 0,
           [Next]_vars, faults' = 0, ~ overtaken'
    PROVE  SnapshotsAgree' /\ ListAgrees'
<1>1. ASSUME UNCHANGED <<loaded, current, mainQueue, pipe, asked>>,
             UNCHANGED cloud \/ (\E e \in Ids : Report(e)) \/ ServerAppliesWrite
      PROVE  SnapshotsAgree' /\ ListAgrees'
  <2>1. \A d, kind : Settled(d, kind)' <=> Settled(d, kind)
    BY <1>1 DEF Settled, Pending, Answered, LoadOf
  <2> QED
    BY <1>1, <2>1, ObjectsKept
<1>2. ASSUME \/ UNCHANGED vars \/ \E d \in Ids : SelectRow(d)
             \/ PullToRefresh \/ GoBack \/ PeriodButton \/ ClosePicker
             \/ \E class \in FilterClasses : ToggleFilter(class)
             \/ \E turn \in Turns : TurnWheel(turn)
      PROVE  UNCHANGED <<loaded, current, mainQueue, pipe, asked, cloud>>
  BY <1>2 DEF vars, cloudVars, listVars, SelectRow, PullToRefresh, ToggleFilter, GoBack,
              PeriodButton, ClosePicker, TurnWheel, OnlyPicker
<1>3. ASSUME (\E e \in Ids : Report(e)) \/ ServerAppliesWrite
      PROVE  UNCHANGED <<loaded, current, mainQueue, pipe, asked>>
  BY <1>3 DEF Report, ServerAppliesWrite, listVars
<1>4. ASSUME WriteAcknowledged
      PROVE  SnapshotsAgree' /\ ListAgrees'
  <2>1. /\ UNCHANGED <<loaded, current, asked>> /\ pipe # << >> /\ pipe' = Tail(pipe)
        /\ mainQueue' = Append(mainQueue, [do |-> "answer", request |-> Head(pipe),
                                           success |-> TRUE])
    <3>1. onServer \in 0 .. Len(pipe) /\ Len(pipe) \in Nat /\ onServer > 0
      BY <1>4, PipeTypes DEF WriteAcknowledged
    <3>2. pipe # << >>
      BY <3>1
    <3> QED
      BY <1>4, <3>2 DEF WriteAcknowledged, listVars
  <2>2. /\ 1 \in DOMAIN pipe /\ Head(pipe) = pipe[1] /\ pipe[1] \in Requests
        /\ \A i \in DOMAIN pipe : i # 1 => i - 1 \in DOMAIN pipe' /\ pipe'[i - 1] = pipe[i]
                                           /\ (i - 1) + 1 = i
        /\ \A d, kind : \A i \in DOMAIN pipe' :
              i \in Pending(d, kind)' <=> i + 1 \in Pending(d, kind)
    BY <2>1, PipeTail, PipeTypes
  <2>3. [do |-> "answer", request |-> pipe[1], success |-> TRUE] \in Block
    BY <2>2 DEF Block
  <2> DEFINE n == Len(mainQueue) + 1
  <2>4. /\ \A i \in DOMAIN mainQueue : i \in DOMAIN mainQueue' /\ mainQueue'[i] = mainQueue[i]
        /\ n \in DOMAIN mainQueue'
        /\ mainQueue'[n] = [do |-> "answer", request |-> pipe[1], success |-> TRUE]
        /\ \A i \in DOMAIN mainQueue' : i \in DOMAIN mainQueue \/ i = n
    BY <2>1, <2>2, <2>3, QueueAppend
  <2> HIDE DEF n
  <2>5. \A i \in DOMAIN mainQueue' : mainQueue'[i].do = "snapshot" =>
           \E j \in DOMAIN mainQueue : mainQueue'[i] = mainQueue[j]
    BY <2>4
  <2>6. ASSUME NEW d, NEW kind, Settled(d, kind)'
        PROVE  Settled(d, kind)
    <3>1. \A i \in Answered(d, kind) : i \in Answered(d, kind)' /\ mainQueue'[i] = mainQueue[i]
      BY <2>1, <2>4 DEF Answered
    <3>2. ASSUME NEW i \in Pending(d, kind)
          PROVE  asked[pipe[i]].load # current
      <4>1. i \in DOMAIN pipe
        BY DEF Pending
      <4>2. CASE i = 1
        <5>1. n \in Answered(d, kind)'
          BY <2>1, <2>4, <4>2 DEF Answered, Pending
        <5> QED
          BY <2>1, <2>4, <2>6, <4>2, <5>1 DEF Settled, LoadOf
      <4>3. CASE i # 1
        <5>1. i - 1 \in Pending(d, kind)'
          BY <2>2, <4>1, <4>3
        <5> QED
          BY <2>1, <2>2, <2>6, <4>1, <4>3, <5>1 DEF Settled, LoadOf
      <4> QED
        BY <4>2, <4>3
    <3> QED
      BY <2>1, <2>6, <3>1, <3>2 DEF Settled, LoadOf
  <2> QED
    BY <1>4, <2>1, <2>5, <2>6, ObjectsKept
<1>5. ASSUME WriteRejected \/ ListenRejected
      PROVE  FALSE
  BY <1>5 DEF WriteRejected, ListenRejected
<1>6. ASSUME NEW r \in Requests, ServiceDevice(r) \/ SetDevicePeriod(r)
      PROVE  \E call : call.load = current /\ MakeCall(r, call)
  BY <1>6 DEF ServiceDevice, SetDevicePeriod
<1>7. ASSUME NEW r \in Requests, NEW call, call.load = current, MakeCall(r, call)
      PROVE  SnapshotsAgree' /\ ListAgrees'
  BY <1>7, ObjectsOfCall
<1> QED
  BY <1>1, <1>2, <1>3, <1>4, <1>5, <1>6, <1>7, ObjectsOfSnapshot, ObjectsOfRun DEF Next

(* Neither history is forgotten. *)
LEMMA FaultsAndCalls ==
    ASSUME TypeInv, [Next]_vars
    PROVE  (faults' = 0 => faults = 0) /\ (~ overtaken' => ~ overtaken)
<1>1. faults \in Nat
  BY DEF TypeInv, FlagsInv
<1>2. ASSUME WriteRejected \/ ListenRejected
      PROVE  faults' # 0 /\ UNCHANGED overtaken
  BY <1>1, <1>2 DEF WriteRejected, ListenRejected
<1>3. ASSUME \/ UNCHANGED vars \/ \E d \in Ids : Report(d) \/ SelectRow(d)
             \/ ServerAppliesWrite \/ WriteAcknowledged \/ FreshSnapshot \/ CachedSnapshot
             \/ RunBlock \/ PullToRefresh \/ GoBack \/ PeriodButton \/ ClosePicker
             \/ \E class \in FilterClasses : ToggleFilter(class)
             \/ \E turn \in Turns : TurnWheel(turn)
      PROVE  UNCHANGED <<faults, overtaken>>
  BY <1>3 DEF vars, Report, SelectRow, ServerAppliesWrite, WriteAcknowledged, FreshSnapshot,
              CachedSnapshot, RunBlock, PullToRefresh, ToggleFilter, GoBack, PeriodButton,
              ClosePicker, TurnWheel, OnlyPicker
<1>4. ASSUME NEW r \in Requests, ServiceDevice(r) \/ SetDevicePeriod(r)
      PROVE  UNCHANGED faults /\ (~ overtaken' => ~ overtaken)
  BY <1>4 DEF ServiceDevice, SetDevicePeriod, MakeCall
<1> QED
  BY <1>2, <1>3, <1>4 DEF Next

AgreementInv ==
    faults = 0 => AnswerInv /\ (~ overtaken => SnapshotsAgree /\ ListAgrees)

(* ListAgreesWithCloud.                                                    *)
THEOREM ListAlwaysAgreesWithCloud == Spec => []ListAgreesWithCloud
<1>1. Init => WireInv /\ CacheInv /\ AgreementInv
  <2> SUFFICES ASSUME Init PROVE WireInv /\ CacheInv /\ AgreementInv
    OBVIOUS
  <2>1. DOMAIN mainQueue = {} /\ current = 0
    BY DEF Init
  <2>2. SnapshotsAgree /\ ListAgrees
    BY <2>1 DEF SnapshotsAgree, ListAgrees
  <2> QED
    BY <2>2, WireInit, AnswerInit DEF AgreementInv
<1>2. /\ TypeInv /\ LoadedInv /\ [Next]_vars
      /\ WireInv /\ CacheInv /\ AgreementInv
      => (WireInv /\ CacheInv /\ AgreementInv)'
  <2> SUFFICES ASSUME TypeInv, LoadedInv, [Next]_vars, WireInv, CacheInv, AgreementInv
               PROVE  (WireInv /\ CacheInv /\ AgreementInv)'
    OBVIOUS
  <2>1. WireInv' /\ CacheInv'
    BY WireStep
  <2>2. faults' = 0 => faults = 0
    BY FaultsAndCalls
  <2>3. ~ overtaken' => ~ overtaken
    BY FaultsAndCalls
  <2>4. AgreementInv'
    BY <2>2, <2>3, AnswerStep, ObjectsStep DEF AgreementInv
  <2> QED
    BY <2>1, <2>4
<1>3. TypeInv /\ AgreementInv => ListAgreesWithCloud
  <2> SUFFICES ASSUME TypeInv, AgreementInv, pipe = << >>, mainQueue = << >>, faults = 0,
                      ~ overtaken, NEW d \in DOMAIN Objects(loaded, current)
               PROVE  /\ Objects(loaded, current)[d].period = cloud[d].period
                      /\ Objects(loaded, current)[d].operationTime <= cloud[d].operationTime
    BY DEF ListAgreesWithCloud
  <2>1. DOMAIN pipe = {} /\ DOMAIN mainQueue = {}
    OBVIOUS
  <2>2. current # 0 /\ Objects(loaded, current) = loaded[current]
    BY DEF Objects
  <2>3. \A kind : Settled(d, kind) /\ Pending(d, kind) = {}
    BY <2>1 DEF Settled, Pending, Answered
  <2>4. \A kind \in Kinds : Agrees(d, kind, loaded[current][d])
    BY <2>2, <2>3 DEF AgreementInv, ListAgrees
  <2> QED
    BY <2>2, <2>3, <2>4 DEF Agrees, Kinds
<1> QED
  BY <1>1, <1>2, <1>3, LoadedInvariant, PTL DEF Spec
=============================================================================
