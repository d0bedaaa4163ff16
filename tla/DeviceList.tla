----------------------------- MODULE DeviceList -----------------------------
(***************************************************************************)
(* DataCenter.getDevices, the list of DevicesViewController and the        *)
(* screen of DetailsViewController in one running copy of the app.         *)
(*                                                                         *)
(* Each successful getDevices makes new Device objects; rows, an open      *)
(* Details screen and handlers under way go on with the old ones.  The     *)
(* snapshot that getDevices gets contains the writes of this app that are  *)
(* still to be acknowledged, as they were when the snapshot was put on the *)
(* main queue.  Handlers, and the blocks that they give to                 *)
(* DispatchQueue.main.async, run on the main queue in order; what the user *)
(* does comes in between.                                                  *)
(*                                                                         *)
(* The user is logged in, and every device reports its operation time.     *)
(***************************************************************************)
EXTENDS PeriodPicker, Sequences, FiniteSetsExt

CONSTANTS
    Ids,            \* the devices
    Periods,        \* maintenance periods in the cloud
    Turns,          \* wheels of the picker with the digits they are turned to
    Requests,       \* calls of serviceDevice and setDevicePeriod
    FilterClasses,  \* the severities whose button the user may touch
    MaxHours,       \* bound: hours that are reported
    MaxLoads,       \* bound: calls of getDevices
    MaxVisits,      \* bound: times that the Details screen is opened
    MaxFaults       \* bound: failed refreshes and rejected writes

ASSUME ListBounds ==
    /\ Periods \subseteq Nat \ {0} /\ Turns \subseteq Wheels \X Digits
    /\ MaxHours \in Nat /\ MaxVisits \in Nat /\ MaxFaults \in Nat
    /\ MaxLoads \in Nat \ {0}     \* viewDidLoad makes the first call

VARIABLES
    cloud,       \* the documents at the server
    cache,       \* the documents in the local cache of the SDK
    pipe,        \* writes without an acknowledgement
    onServer,    \* how many of them the server has applied
    committed,   \* the version of the document that each write made
    asked,       \* the call of each request
    loads,       \* calls of getDocuments without a snapshot
    calls,       \* how often getDevices was called
    refreshing,  \* refreshControl.isRefreshing
    loaded,      \* the Device objects that each successful getDevices made
    current,     \* DataCenter.devices: the number of the load, 0 if empty
    checked,     \* isChecked of the filter buttons
    displayed,   \* displayedDevices
    details,     \* the Details screen: its device and its labels
    picker,      \* setPeriodPickerView while its popup is shown
    visits,      \* how often it was opened
    mainQueue,   \* handlers and blocks on the main queue
    trap,        \* a forced unwrap of nil has stopped the app
    overtaken,   \* history: a call was made while a snapshot waited to be seen
    faults

cloudVars  == <<cloud, cache, pipe, onServer, committed>>
loadVars   == <<loads, calls, refreshing>>
listVars   == <<loaded, current, checked, displayed>>
screenVars == <<details, picker, visits>>
vars == <<cloudVars, asked, loadVars, listVars, screenVars, mainQueue, trap,
          overtaken, faults>>

Status == INSTANCE DeviceStatus
            WITH MaxOperationTime <- MaxHours, operationTime <- 0, period <- 0

Device   == [operationTime : 0 .. MaxHours, period : Nat \ {0}]
Document == [operationTime : 0 .. MaxHours, period : Nat \ {0}, version : Nat]

(* The labels of the Details screen.  The progress bar and its colour are  *)
(* computed from both numbers of the device, and stand for them.           *)
Labels == [operationTime : 0 .. MaxHours, period : Nat \ {0}, progress : Device]

LabelsOf(d) == [operationTime |-> d.operationTime, period |-> d.period, progress |-> d]

(* The picker: its digits, whether the user has turned a wheel since it    *)
(* was opened, and the period that the device had then                     *)
Picker == [rows : [Wheels -> Digits], turned : BOOLEAN, opened : Nat]
Hidden == [rows |-> << >>]

NoCall == [kind |-> "none"]
Call ==
    [kind : {"serviceDevice"}, id : Ids, load : 1 .. MaxLoads, visit : 1 .. MaxVisits]
    \cup
    [kind : {"setDevicePeriod"}, id : Ids, load : 1 .. MaxLoads, visit : 1 .. MaxVisits,
     newPeriod : Nat \ {0}, unasked : BOOLEAN]

Closed == [visit |-> 0]

(* The objects of a load among those of all loads, none for 0 *)
Objects(list, load) == IF load = 0 THEN << >> ELSE list[load]

TypeOK ==
    /\ cloud \in [Ids -> Document]
    /\ cache = << >> \/ cache \in [Ids -> Document]
    /\ pipe \in Seq(Requests) /\ onServer \in 0 .. Len(pipe)
    /\ committed \in [Requests -> Nat]
    /\ asked \in [Requests -> Call \cup {NoCall}]
    /\ loads \in 0 .. MaxLoads /\ calls \in 0 .. MaxLoads /\ refreshing \in BOOLEAN
    /\ Len(loaded) <= MaxLoads
    /\ \A n \in DOMAIN loaded : loaded[n] = << >> \/ loaded[n] \in [Ids -> Device]
    /\ current \in 0 .. Len(loaded)
    /\ checked \subseteq FilterClasses
    /\ displayed.load \in 0 .. Len(loaded)
    /\ displayed.ids \subseteq DOMAIN Objects(loaded, displayed.load)
    /\ details # Closed =>
          /\ details.visit \in 1 .. MaxVisits
          /\ details.id \in DOMAIN Objects(loaded, details.load)
          /\ details.labels \in Labels
    /\ picker \in Picker \cup {Hidden} /\ (details = Closed => picker = Hidden)
    /\ visits \in 0 .. MaxVisits
    /\ {trap, overtaken} \subseteq BOOLEAN
    /\ faults \in 0 .. MaxFaults

-----------------------------------------------------------------------------
(* The cloud, and the view that the SDK has of it.                         *)

(* What a call does to the two numbers of a device. *)
Changed(d, call) ==
    IF call.kind = "serviceDevice"
    THEN [d EXCEPT !.operationTime = 0]
    ELSE [d EXCEPT !.period = call.newPeriod]

(* The places on the stream of the calls of this kind for a device *)
Pending(d, kind) ==
    {i \in DOMAIN pipe : asked[pipe[i]].id = d /\ asked[pipe[i]].kind = kind}

(* Mutant: the snapshot leaves out the pending writes. *)
ViewWithoutWrites(documents) ==
    [d \in DOMAIN documents |->
        [operationTime |-> documents[d].operationTime, period |-> documents[d].period]]

(* The documents with all writes that are not acknowledged, as objects: a  *)
(* later write to a field hides the earlier ones.                          *)
View(documents) ==
    [d \in DOMAIN documents |->
        LET services == Pending(d, "serviceDevice")
            periods  == Pending(d, "setDevicePeriod") IN
        [operationTime |-> IF services = {} THEN documents[d].operationTime ELSE 0,
         period |-> IF periods = {} THEN documents[d].period
                    ELSE asked[pipe[Max(periods)]].newPeriod]]

(* devices.filter() with these buttons checked *)
Filtered(list, load, buttons) ==
    LET objects     == Objects(list, load)
        severity(d) == Status!Severity(objects[d].operationTime, objects[d].period) IN
    [load |-> load,
     ids  |-> {d \in DOMAIN objects : severity(d) \in FilterClasses => severity(d) \in buttons}]

Init ==
    /\ cloud \in [Ids -> [operationTime : {0, MaxHours}, period : Periods, version : {0}]]
    /\ cache \in {<< >>, cloud}
    /\ pipe = << >> /\ onServer = 0 /\ committed = [r \in Requests |-> 0]
    /\ asked = [r \in Requests |-> NoCall]
    /\ loads = 1 /\ calls = 1 /\ refreshing = FALSE     \* viewDidLoad calls getDevices
    /\ loaded = << >> /\ current = 0 /\ checked = FilterClasses
    /\ displayed = [load |-> 0, ids |-> {}]
    /\ details = Closed /\ picker = Hidden /\ visits = 0
    /\ mainQueue = << >>
    /\ trap = FALSE /\ overtaken = FALSE /\ faults = 0

(* A device reports that it has run for another hour. *)
Report(d) ==
    /\ cloud[d].operationTime < MaxHours
    /\ cloud' = [cloud EXCEPT ![d].operationTime = @ + 1, ![d].version = @ + 1]
    /\ UNCHANGED <<cache, pipe, onServer, committed, asked, loadVars, listVars, screenVars,
                   mainQueue, trap, overtaken, faults>>

ServerAppliesWrite ==
    /\ onServer < Len(pipe)
    /\ LET r == pipe[onServer + 1]
           d == asked[r].id IN
       /\ cloud' = [cloud EXCEPT
                       ![d] = [Changed(cloud[d], asked[r]) EXCEPT !.version = @ + 1]]
       /\ committed' = [committed EXCEPT ![r] = cloud'[d].version]
    /\ onServer' = onServer + 1
    /\ UNCHANGED <<cache, pipe, asked, loadVars, listVars, screenVars, mainQueue, trap,
                   overtaken, faults>>

(* Mutant: the place on the stream is not given back. *)
WriteAcknowledgedUncounted ==
    /\ onServer > 0
    /\ LET r == Head(pipe)
           d == asked[r].id IN
       /\ mainQueue' = Append(mainQueue, [do |-> "answer", request |-> r, success |-> TRUE])
       /\ cache' = IF cache[d].version < committed[r]
                   THEN [cache EXCEPT ![d] = [Changed(@, asked[r])
                                                 EXCEPT !.version = committed[r]]]
                   ELSE cache
    /\ pipe' = Tail(pipe)
    /\ UNCHANGED onServer
    /\ UNCHANGED <<cloud, committed, asked, loadVars, listVars, screenVars, trap,
                   overtaken, faults>>

(* The handler goes onto the main queue; the cached document gets the      *)
(* result of the write unless it is newer.                                 *)
WriteAcknowledged ==
    /\ onServer > 0
    /\ LET r == Head(pipe)
           d == asked[r].id IN
       /\ mainQueue' = Append(mainQueue, [do |-> "answer", request |-> r, success |-> TRUE])
       /\ cache' = IF cache[d].version < committed[r]
                   THEN [cache EXCEPT ![d] = [Changed(@, asked[r])
                                                 EXCEPT !.version = committed[r]]]
                   ELSE cache
    /\ pipe' = Tail(pipe)
    /\ onServer' = onServer - 1
    /\ UNCHANGED <<cloud, committed, asked, loadVars, listVars, screenVars, trap,
                   overtaken, faults>>

WriteRejected ==
    /\ pipe # << >> /\ onServer = 0
    /\ faults < MaxFaults
    /\ faults' = faults + 1
    /\ mainQueue' = Append(mainQueue,
                           [do |-> "answer", request |-> Head(pipe), success |-> FALSE])
    /\ pipe' = Tail(pipe)
    /\ UNCHANGED <<cloud, cache, onServer, committed, asked, loadVars, listVars, screenVars,
                   trap, overtaken>>

-----------------------------------------------------------------------------
(* getDevices                                                              *)

(* Mutant: the list is emptied when it is asked for. *)
PullToRefreshEmptying ==
    /\ ~ trap
    /\ details = Closed
    /\ ~ refreshing /\ calls < MaxLoads
    /\ refreshing' = TRUE
    /\ loads' = loads + 1 /\ calls' = calls + 1
    /\ current' = 0
    /\ UNCHANGED <<cloudVars, asked, loaded, checked, displayed, screenVars, mainQueue,
                   trap, overtaken, faults>>

(* The user pulls the table down. *)
PullToRefresh ==
    /\ ~ trap
    /\ details = Closed
    /\ ~ refreshing /\ calls < MaxLoads
    /\ refreshing' = TRUE
    /\ loads' = loads + 1 /\ calls' = calls + 1
    /\ UNCHANGED <<cloudVars, asked, listVars, screenVars, mainQueue, trap, overtaken,
                   faults>>

(* The query is in sync with the server. *)
FreshSnapshot ==
    /\ loads > 0
    /\ loads' = loads - 1
    /\ cache' = cloud
    /\ mainQueue' = Append(mainQueue, [do |-> "snapshot", devices |-> View(cloud)])
    /\ UNCHANGED <<cloud, pipe, onServer, committed, asked, calls, refreshing, listVars,
                   screenVars, trap, overtaken, faults>>

(* The watch stream has failed: the cache has to do, with success. *)
CachedSnapshot ==
    /\ loads > 0
    /\ loads' = loads - 1
    /\ mainQueue' = Append(mainQueue, [do |-> "snapshot", devices |-> View(cache)])
    /\ UNCHANGED <<cloudVars, asked, calls, refreshing, listVars, screenVars, trap,
                   overtaken, faults>>

ListenRejected ==
    /\ loads > 0
    /\ faults < MaxFaults
    /\ faults' = faults + 1
    /\ loads' = loads - 1
    /\ mainQueue' = Append(mainQueue, [do |-> "error"])
    /\ UNCHANGED <<cloudVars, asked, calls, refreshing, listVars, screenVars, trap,
                   overtaken>>

-----------------------------------------------------------------------------
(* The handlers and blocks of the main queue.                              *)

(* The completion handler of getDocuments: always new objects. *)
ShowSnapshot(devices) ==
    /\ loaded' = Append(loaded, devices)
    /\ current' = Len(loaded) + 1
    /\ refreshing' = FALSE
    /\ mainQueue' = Append(Tail(mainQueue), [do |-> "filterDevices"])
    /\ UNCHANGED <<asked, checked, displayed, details>>

(* Mutant: a failed refresh leaves the spinner on. *)
ForgetDevicesSpinning ==
    /\ current' = 0
    /\ mainQueue' = Tail(mainQueue)
    /\ UNCHANGED refreshing
    /\ UNCHANGED <<loaded, checked, displayed, details>>

(* The same with an error: the old objects are dropped, the rows stay. *)
ForgetDevices ==
    /\ current' = 0
    /\ mainQueue' = Tail(mainQueue)
    /\ refreshing' = FALSE
    /\ UNCHANGED <<loaded, checked, displayed, details>>

(* The call changes the object on the screen, but was made on another visit. *)
IsOfEarlierVisit(call) ==
    /\ details # Closed /\ details.visit # call.visit
    /\ details.load = call.load /\ details.id = call.id

(* Mutant: the rows are filtered before the object has changed. *)
FinishCallFilteringFirst(r) ==
    LET call == asked[r] IN
    /\ loaded' = [loaded EXCEPT ![call.load][call.id] = Changed(@, call)]
    /\ displayed' = Filtered(loaded, current, checked)
    /\ mainQueue' = Append(Tail(mainQueue),
                           [do |-> "labels", visit |-> call.visit, kind |-> call.kind])
    /\ details' = IF IsOfEarlierVisit(call) THEN [details EXCEPT !.late = TRUE] ELSE details
    /\ UNCHANGED <<current, refreshing, checked>>

(* Success of a call: the object that was looked up when it was made       *)
(* changes, whichever is current now; then deviceChanged() filters the     *)
(* rows at once, and a block will set labels of the screen that called.    *)
FinishCall(r) ==
    LET call == asked[r] IN
    /\ loaded' = [loaded EXCEPT ![call.load][call.id] = Changed(@, call)]
    /\ displayed' = Filtered(loaded', current, checked)
    /\ mainQueue' = Append(Tail(mainQueue),
                           [do |-> "labels", visit |-> call.visit, kind |-> call.kind])
    /\ details' = IF IsOfEarlierVisit(call) THEN [details EXCEPT !.late = TRUE] ELSE details
    /\ UNCHANGED <<current, refreshing, checked>>

(* The device on the screen *)
device == Objects(loaded, details.load)[details.id]

(* Each call sets its own label and the progress. *)
ServiceLabels(labels) ==
    [labels EXCEPT !.operationTime = device.operationTime, !.progress = device]

(* Mutant: the progress stays as it was. *)
PeriodLabelsAlone(labels) == [labels EXCEPT !.period = device.period]

PeriodLabels(labels) ==
    [labels EXCEPT !.period = device.period, !.progress = device]

SetLabels(visit, kind) ==
    /\ details' = IF details.visit # visit THEN details
                  ELSE [details EXCEPT !.labels = IF kind = "serviceDevice" THEN ServiceLabels(@)
                                                  ELSE PeriodLabels(@)]
    /\ mainQueue' = Tail(mainQueue)
    /\ UNCHANGED <<loaded, current, refreshing, checked, displayed>>

filterDevices ==
    /\ displayed' = Filtered(loaded, current, checked)
    /\ mainQueue' = Tail(mainQueue)
    /\ UNCHANGED <<loaded, current, refreshing, checked, details>>

RunBlock ==
    /\ ~ trap
    /\ mainQueue # << >>
    /\ LET block == Head(mainQueue) IN
       \/ block.do = "snapshot" /\ ShowSnapshot(block.devices)
       \/ block.do = "error" /\ ForgetDevices
       \/ block.do = "answer" /\ block.success /\ FinishCall(block.request)
       \/ /\ block.do = "answer" /\ ~ block.success      \* an error view only
          /\ mainQueue' = Tail(mainQueue)
          /\ UNCHANGED <<listVars, refreshing, details>>
       \/ block.do = "labels" /\ SetLabels(block.visit, block.kind)
       \/ block.do = "filterDevices" /\ filterDevices
    /\ UNCHANGED <<cloudVars, asked, loads, calls, picker, visits, trap, overtaken, faults>>

-----------------------------------------------------------------------------
(* What the user does.                                                     *)

ToggleFilter(class) ==
    /\ ~ trap
    /\ details = Closed
    /\ checked' = IF class \in checked THEN checked \ {class} ELSE checked \cup {class}
    /\ displayed' = Filtered(loaded, current, checked')
    /\ UNCHANGED <<cloudVars, asked, loadVars, loaded, current, screenVars, mainQueue,
                   trap, overtaken, faults>>

SelectRow(d) ==
    /\ ~ trap
    /\ details = Closed /\ visits < MaxVisits
    /\ d \in displayed.ids
    /\ visits' = visits + 1
    /\ details' = [visit |-> visits + 1, load |-> displayed.load, id |-> d,
                   labels |-> LabelsOf(Objects(loaded, displayed.load)[d]), late |-> FALSE]
    /\ UNCHANGED <<cloudVars, asked, loadVars, listVars, picker, mainQueue, trap, overtaken,
                   faults>>

GoBack ==
    /\ ~ trap
    /\ details # Closed
    /\ details' = Closed /\ picker' = Hidden
    /\ UNCHANGED <<cloudVars, asked, loadVars, listVars, visits, mainQueue, trap,
                   overtaken, faults>>

OnlyPicker ==
    UNCHANGED <<cloudVars, asked, loadVars, listVars, details, visits, mainQueue, trap,
                overtaken, faults>>

PeriodButton ==
    /\ ~ trap
    /\ details # Closed /\ picker = Hidden
    /\ picker' = [rows |-> DigitsShown(device.period), turned |-> FALSE,
                  opened |-> device.period]
    /\ OnlyPicker

TurnWheel(turn) ==
    /\ ~ trap
    /\ picker # Hidden
    /\ picker' = [rows |-> [picker.rows EXCEPT ![turn[1]] = turn[2]], turned |-> TRUE,
                  opened |-> picker.opened]
    /\ OnlyPicker

(* The cross of the popup, or OK with a number that is not to be sent *)
ClosePicker ==
    /\ ~ trap
    /\ picker # Hidden
    /\ picker' = Hidden
    /\ OnlyPicker

(* devices.first(where: { $0.id == id })! and the write that follows *)
MakeCall(r, call) ==
    /\ ~ trap
    /\ asked[r] = NoCall
    /\ IF details.id \in DOMAIN Objects(loaded, current)
       THEN /\ asked' = [asked EXCEPT ![r] = call]
            /\ pipe' = Append(pipe, r)
            /\ overtaken' = (overtaken \/ \E i \in DOMAIN mainQueue :
                                             mainQueue[i].do = "snapshot")
            /\ UNCHANGED trap
       ELSE /\ trap' = TRUE
            /\ UNCHANGED <<asked, pipe, overtaken>>
    /\ picker' = Hidden
    /\ UNCHANGED <<cloud, cache, onServer, committed, loadVars, listVars, details, visits,
                   mainQueue, faults>>

ServiceDevice(r) ==
    /\ details # Closed /\ picker = Hidden
    /\ MakeCall(r, [kind |-> "serviceDevice", id |-> details.id, load |-> current,
                    visit |-> details.visit])

(* Nobody has turned a wheel, and the device has the period that it had    *)
(* when the picker was opened, one that the picker can show.               *)
IsUnasked ==
    ~ picker.turned /\ picker.opened = device.period /\ picker.opened \in Shown

(* OK: a number that is not 0 and not the period is sent. *)
SetDevicePeriod(r) ==
    /\ picker # Hidden
    /\ LET newPeriod == SelectedInteger(picker.rows) IN
       /\ newPeriod \notin {device.period, 0}
       /\ MakeCall(r, [kind |-> "setDevicePeriod", id |-> details.id, load |-> current,
                       visit |-> details.visit, newPeriod |-> newPeriod,
                       unasked |-> IsUnasked])

Next ==
    \/ \E d \in Ids : Report(d) \/ SelectRow(d)
    \/ ServerAppliesWrite
    \/ WriteAcknowledged
    \/ WriteRejected
    \/ PullToRefresh
    \/ FreshSnapshot
    \/ CachedSnapshot
    \/ ListenRejected
    \/ RunBlock
    \/ \E class \in FilterClasses : ToggleFilter(class)
    \/ GoBack
    \/ PeriodButton
    \/ \E turn \in Turns : TurnWheel(turn)
    \/ ClosePicker
    \/ \E r \in Requests : ServiceDevice(r) \/ SetDevicePeriod(r)

Spec == Init /\ [][Next]_vars

-----------------------------------------------------------------------------
(* Properties.                                                             *)

(* The device of the Details screen is still in DataCenter.devices when    *)
(* the user orders a service or a period: the forced unwrap of             *)
(* DataCenter.swift:71 and :101 finds it.                                  *)
DeviceIsLoaded == ~ trap

(* It takes a failed refresh to lose the device: devices are replaced      *)
(* within one handler, so that no call meets the list while it is being    *)
(* read again (DataCenter.swift:22 inside the completion handler).         *)
DeviceIsLoadedUnlessRefreshFails == faults = 0 => DeviceIsLoaded

(* The rows are always those that the filter buttons let through of the    *)
(* devices as they are now, although refreshes, handlers and the buttons   *)
(* each filter by themselves.  After a failed refresh the rows stay until  *)
(* the next of them.                                                       *)
RowsAreFiltered ==
    current # 0 /\ (\A i \in DOMAIN mainQueue : mainQueue[i].do # "filterDevices") =>
        displayed = Filtered(loaded, current, checked)

(* When no write is under way, the list has the periods of the cloud and   *)
(* no more hours than it, although handlers may change objects that a      *)
(* refresh has replaced (DataCenter.swift:92-95): the snapshot then had    *)
(* the write.  Only a call made while a snapshot waits on the main queue   *)
(* escapes both.                                                           *)
ListAgreesWithCloud ==
    /\ pipe = << >> /\ mainQueue = << >>
    /\ faults = 0 /\ ~ overtaken
    => \A d \in DOMAIN Objects(loaded, current) :
          /\ Objects(loaded, current)[d].period = cloud[d].period
          /\ Objects(loaded, current)[d].operationTime <= cloud[d].operationTime

(* The labels and the progress on the Details screen are those of its      *)
(* object when all blocks have run, although each call sets its own label  *)
(* only (DetailsViewController.swift:119-126 and :163-169), unless a call  *)
(* of an earlier visit was confirmed after the screen was opened: its      *)
(* handler sets the labels of the screen it was made from.                 *)
LabelsShowDevice ==
    details # Closed /\ mainQueue = << >> =>
        details.late \/ details.labels = LabelsOf(device)

(* While the spinner of a refresh turns, a load is still to be answered:   *)
(* every outcome of every load under way leads to endRefreshing()          *)
(* (DevicesViewController.swift:188).                                      *)
SpinnerAwaitsAnswer ==
    refreshing => \/ loads > 0
                  \/ \E i \in DOMAIN mainQueue : mainQueue[i].do \in {"snapshot", "error"}

(* A new period is sent only if the user has turned a wheel.  Two cases    *)
(* escape: a period of more than four digits, of which the picker shows    *)
(* the last ones (DetailsViewController.swift:141), and a period that an   *)
(* earlier call changes while the picker is open, which OK takes back      *)
(* (:154 compares with the period as it is by then).                       *)
PeriodIsChosen ==
    \A r \in Requests : asked[r].kind = "setDevicePeriod" => ~ asked[r].unasked
=============================================================================
