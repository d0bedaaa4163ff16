# Verification of KarbantartasNaplo

KarbantartasNaplo is an iOS app with which operators keep a maintenance log of
machines. Every machine has a document in a Cloud Firestore collection: its
operation time, its maintenance period, the date of the last service and an
array of notes. Several people run the app at once, online and offline, and the
machines report their operation time into the same documents.

This directory models the parts of the app that can go wrong in ways a unit test
hardly reaches, checks the models with TLC on small instances, and proves the
most important properties with TLAPS for all instances. `PROJECT.json` lists
the components, runs, mutants, hazards, findings and theorems, and maps every
definition to the lines it models.

Paths below are relative to `src/KarbantartasNaplo/KarbantartasNaplo/`;
`Firestore/` stands for `src/KarbantartasNaplo/Pods/FirebaseFirestore/Firestore/`.

## Inventory

| Part | State | Operations | Interacts with |
|---|---|---|---|
| `Model/DataCenter.swift` | `devices`, `user`; the cloud documents | `getDevices`, `serviceDevice`, `setDevicePeriod`, `addNoteToDevice`, `updateNoteOfDevice`, `deleteNotesOfDevice`, `loginUser`, `logoutUser`, `signupUser` | Firestore and FirebaseAuth by asynchronous calls, the screens by completion handlers |
| `Model/Device.swift`, `Note.swift`, `Enumerations.swift` | one object per device and load: operation time, period, date of service, notes | `rate`, `severity`, setters, `addNote`, `sortNotes` | changed by handlers of DataCenter and by the notes screen |
| `Controller/DevicesViewController.swift` | `displayedDevices`, filter buttons, refresh control | load, filter, select a row, log out | shares `DataCenter.devices`; hands a `Device` object to Details |
| `Controller/DetailsViewController.swift` | its `Device` object, labels, popups, period picker | service, set period | tells the list of changes (`deviceChanged`) |
| `Controller/NotesViewController.swift`, `EditNoteViewController.swift` | table, `deletedNotes`, `isNotesTableViewEditing`, `deleteInProgress`, buttons | add, edit, strike off, restore, delete | shares the `Device` object with Details, DataCenter's handlers change it |
| `Controller/LoginViewController.swift`, `SignUpViewController.swift` | dialogs | login, sign up, cancel | `DataCenter.user`, the logout button of the list |
| `Controller/SummaryViewController.swift` | counts and pie chart | compute on appearing | reads `DataCenter.devices` |
| `Firestore/core/.../remote_store.cc`, `transaction_runner.cc`, `transaction.cc`, `local_store.cc` | write pipeline, transactions, cache | send, acknowledge, resend, retry, commit | the server; the app's main queue |
| FirebaseAuth (`FIRAuth`), `Firestore/.../firebase_credentials_provider_apple.mm`, `stream.cc`, `sync_engine.cc` | the current user in three places, token counter, mutation queue of each user, state and close count of the write stream | sign in and out, notify, fetch a token, open and stop the stream | three queues: FIRAuth's, main, Firestore's worker queue |
| `Firestore/.../query_core.cc`, `event_manager.cc`, `query_listener.cc`, `remote_event.cc`, `watch_stream.cc`, `online_state_tracker.cc` | listeners, target, collected documents, watch stream, online state and its timer | listen, unlisten, snapshot, go offline, idle | `getDevices` through `getDocuments`; main and worker queue |
| views, layout, `AppDelegate`, `NetworkManager` (commented out), other pods | no state that other parts depend on | | |

What is hard about it, and what correctness means:

* **DataCenter.** Three operations append with `arrayUnion`; two rewrite the whole
  array of notes in a transaction. Copies of the app interleave, replies are lost,
  writes are sent again, apps are killed. Correct means: no note is lost, nothing is
  logged twice, a service stays logged, success is reported only of what took effect,
  every handler is called, in an order the screens can live with.
* **Notes screen.** Its list is changed at once by taps and later by handlers, and the
  table by blocks queued still later. Correct means: no note disappears without being
  deleted, what is shown agrees with the cloud, editing mode
  and the screen can be left.
* **Device list and Details.** Every refresh replaces the `Device` objects that rows,
  screens and handlers hold on to. Correct means: calls find their device, rows are the
  filtered devices, the list ends up as the cloud has it, the labels as the object, although each
  call sets its own label only.
* **Device status.** A percentage through `Double` and `round` decides the severity.
  Correct means: the classes begin at exact limits and urgency moves the right way.
* **Session.** Three places know a user: `DataCenter.user`, FIRAuth and Firestore. Logins are
  answered after cancelling or logging out, creating a user changes the signed-in one, a restart
  forgets one place and not the others. Correct means: the three agree again once the queues
  are empty, and no open screen allows more than its user may.
* **Credentials.** Users change while writes wait, tokens are fetched and the stream is opened.
  Correct means: a write reaches the server under the user who made it and nobody else, and
  its handler runs once that user stays.
* **Queries.** Listeners come and go while the stream opens, breaks and idles, and a target given
  up and taken again has the same number, so that answers, documents and rejections for the former
  listener reach the next. Correct means: every call is answered once, and what is called
  synchronised is not older than the call.

## Modules

| Module | Models | Builds on |
|---|---|---|
| `DeviceDocument` | the cloud document and the effect of each write (constant operators) | |
| `MaintenanceLog` | abstract specification: what DataCenter promises | `DeviceDocument` |
| `DataCenter` | the five writing operations over write pipelines and transactions, several apps, one document | `DeviceDocument`; implements `MaintenanceLog` |
| `NotesScreen` | NotesViewController over the abstract log | `DeviceDocument`, `MaintenanceLog` (INSTANCE) |
| `DeviceStatus` | rate and severity, and what changes the two numbers | |
| `PeriodPicker` | the digits of a period on four wheels, and back (constant operators) | |
| `DeviceList` | getDevices, the list, the Details screen with its picker, the SDK's view of its own writes | `PeriodPicker`, `DeviceStatus` (INSTANCE) |
| `Session` | login, logout, sign-up: screens over `DataCenter.user`, FIRAuth and the main queue | |
| `Credentials` | whose writes are sent under whose token: FIRAuth, main queue, worker queue, write stream | |
| `Queries` | getDocuments in the SDK: listeners, target, watch stream, online state | |
| `MaintenanceLog_proofs` (with the operators of `DeviceDocument`), `DataCenter_proofs`, `NotesScreen_proofs`, `DeviceStatus_proofs`, `DeviceList_proofs` (with the picker), `Session_proofs`, `Credentials_proofs`, `Queries_proofs` | theorems | the modules they are named after |
| `MCDataCenter`, `MCNotesScreen`, `MCDeviceStatus`, `MCDeviceList`, `MCSession`, `MCCredentials`, `MCQueries` | instances for TLC | |

`Session` and `Credentials` describe the same users from the two ends. `Session` has the screens and
`DataCenter.user`, and ends where a notification reaches Firestore (`credUser`). `Credentials` begins
at FIRAuth and follows a change of user down to the stream. They meet in `authUser`, `credUser` and the
notifications on the main queue, which both have. `DataCenter` is the write pipeline of one user;
`Credentials` keeps of that pipeline what a change of user interferes with. `Queries` explains the two
kinds of snapshot that `DeviceList` takes as given.

### DeviceDocument, MaintenanceLog

The array of notes is a function from slots to notes, where the slot of a note is the
version of the document that appended it: order is kept, removal is restriction, and
the operators stay free of recursion. `UpdateData` is the single `updateData` of an
appending operation with all its fields; `BlockSucceeds` and `RewrittenNotes` are the
guards and results of the two update blocks, `IsFirstIndex` is `firstIndex(where:)`.

In `MaintenanceLog` a request is asked, may take effect on the current document as a
whole, and is confirmed only after that; one that failed or was never answered may
have taken effect, even repeatedly. The three log properties (`NotesAreKept`,
`ServicesAreLogged`, `NoDoubleEntries`) are stated there, and every implementation
inherits them.

### DataCenter

`pipe` and `onServer` are the persistent write pipeline of each app and the number of
its writes the server has applied (`RemoteStore`); `phase`, `retries` and `wire` are
the transactions and their commit messages (`TransactionRunner`, `Transaction`). A
commit carries the version it was computed from and holds only if the document still
has it. A message whose reply was given up may arrive later. `Restart` kills an app: its
pipeline survives, its handlers and transactions do not. Every action of the module is
one step of the SDK, the server, or an operation of DataCenter.swift up to its call of
the SDK, with everything it changes.

### NotesScreen

The cloud side is `MaintenanceLog`: each call of DataCenter is a request, a handler is
`Confirm` or `Refuse` together with all that the handler does. `mainQueue` holds the
blocks given to `DispatchQueue.main.async`, which run in order but after the handler, with
taps in between. `EndEditing` is the `didSet` of `isNotesTableViewEditing`. `trap` is a run-time
error: a forced unwrap of nil, or UIKit's check of the number of rows.

### DeviceStatus

`RoundedPercent` is `round(Double(h) / Double(p) * 100.0)` on whole numbers. The
halves that IEEE doubles miss are listed in `MissedHalves`: for a quotient h/p =
n/200 the product comes out just below n/2 for exactly these odd n below 200, and then
rounds down; all other halves round up. None of them is a limit of a class, which is what
makes the limits exact.

### DeviceList

`loaded` holds the objects that every successful `getDevices` made, `current` says which of
them are in `DataCenter.devices` (0 when a failure emptied it). Rows, the Details screen
and each call remember the load their object is from. A snapshot is computed by the SDK
when it is ready (`FreshSnapshot`, or `CachedSnapshot` when the watch stream fails), with the
app's pending writes over it, and waits on `mainQueue` until its handler runs. `picker` is the
popup with the wheels; `OK` compares what they show with the period as the object has it by then.
The block after a service (`ServiceLabels`) sets the label of the operation time and the progress, the one
after a new period (`PeriodLabels`) that of the period and the progress; neither repairs the label of
the other. `progress` is the pair of numbers the bar and its colour were last computed from.

### Session

`call` lists the calls of `loginUser` and `signupUser` with the dialog they were made from. FIRAuth
answers on its own queue (`SignedIn`, `Refused`): it changes `authUser` and puts a notification and
the handler on `mainQueue`, in this order. `LoginCompleted` is the chain of three handlers in
DataCenter, the dialog and the device list. `Logout` is synchronous: `signOut` waits for
FIRAuth's queue. `Dismissed` is UIKit's `dismiss`, which on a dialog under another one takes
the upper one away. Roles are a function of the address, so `user` holds the account.

### Credentials

A task of the worker queue is a write, a change of user or a token. `FillWritePipeline` is the one
place that starts the stream, and every action that leads there uses it. A token travels as a record:
a request with the counter and the close count of its moment (`tokenRequests`), read and posted
by FIRAuth (`ReadToken`, `PostToken`), compared with the counter on the main queue
(`TokenReceived`), and with the close count on the worker queue (`ResumeStart`). `owner` and `sentAs`
are history.

### Queries

A call adds a listener, its first event removes it (`OnEvent`). `AddQueryListener` and
`RemoveQueryListener` are EventManager, SyncEngine and RemoteStore together, as they run in one task
of the worker queue. `tracker` is `OnlineStateTracker`; its three handlers are operators on it, and
`Broadcast` is what the listeners hear of the result. `target` is `TargetState` with the
documents collected since the last snapshot. Documents are abstracted to the number of changes
they show. The server answers requests in order and may be behind at any time. It may reject a target when
it is asked for it and at any time while it serves it; the rejection is a message like any other and finds
whatever the client has done meanwhile. `ProcessTargetError` looks, like the code, only at whether
anybody listens: it ignores the message, or sends the error to the present listeners and erases the
entry of the target with the count of responses that are due (`Erased`), whether or not requests are
under way. The count is an integer: after that it may become negative. `crossed` and `misled` are history: a
rejection crossed requests, or met no listener, on the present stream; and the calls that such a
stream told something.

## What the runs show

All `pass` runs finish without an error; every property has a mutant of the code that breaks it.

| Run | Instance | Shows |
|---|---|---|
| `data_center_writes` | 2 apps, 3 calls (service, add, edit, delete), 1 fault, 1 restart, window of 1 write | no appended note is lost to a whole-array rewrite, services stay logged, nothing twice, array and answers in the order of the calls |
| `data_center_refinement` | 2 apps, 2 calls, all five operations, 2 faults, 1 retry, reports, fairness | the whole implements `MaintenanceLog`; without faults a failure leaves no trace; every handler is called |
| `notes_screen_safety` | 3 calls, 1 note, 2 faults, notes of one second, others delete | nothing vanishes, no phantoms, list and cloud and table agree, back button only when settled, editing can end |
| `notes_screen_liveness` | 2 calls, 1 fault, fairness | the back button comes back |
| `device_status` | 220 hours, 68 periods | exact limits, monotone urgency |
| `device_list_safety` | 1 device, periods 1 and 10002, 2 calls, 2 loads, 2 visits, 1 fault | list and cloud agree, labels, progress and rows are those of the objects, a turning spinner awaits an answer, only a failed refresh loses the device, only a chosen period is sent |
| `session` | 2 accounts, 2 calls, 4 dialogs, 1 restart, fairness | the three places agree on the user, screens know theirs, every successful login takes effect |
| `credentials` | 2 accounts, 1 write, 2 changes of user, 1 fault, fairness | the stream acts for its user, writes go out under theirs, tokens find the stream that asked, handlers wait for their user |
| `queries` | 3 calls, 1 change of the cloud, 1 failure, rejection or change of user, fairness | handlers run once, no assertion fails, synchronised answers are fresh, every call is answered |

The `violation` runs show where the program contradicts itself:

* `notes_screen_edited_note`: edit a note, strike it off while the edit is being saved; the
  handler's `first(where:)!` (`Model/DataCenter.swift:193`) finds no note and the app stops.
* `device_list_failed_refresh`: pull to refresh, open a device, the refresh fails
  (`devices = []`, line 22), order a service: `first(where:)!` (line 71) stops the app.
* `queries_rejection` (3 calls, 1 rejection): a query is listened to, given up and listened to again
  before the server has rejected the first request. The rejection hits the second listener, and
  `RemoveTarget` erases the count of outstanding responses (`remote_store.cc:339`). The third listener
  counts from 0; the answer to an earlier request makes its target active with answers still to
  come, although "we only consider targets active that have no outstanding responses"
  (`remote_event.h:198-199`). From there an answer may be older than its call, or, when the count has become
  negative, never come on this stream.

Some passing properties name the situations in which they do not hold. These are
weaknesses of the code rather than of the model; TLC finds a counterexample when the
exception is removed:

* `SharedDates` (NotesScreen): two notes of one second are one to the cloud. Editing changes the
  older of them there and the newer on the screen; deleting one takes both out of the cloud.
* `hurried` (NotesScreen): the success handler of a deletion empties `deletedNotes` as it
  is then. If the user has begun to edit again, notes struck off meanwhile are dropped without
  being deleted.
* Two edits of one note may commit in one order and be answered in the other
  (`CommentsAgree`).
* A service confirmed while the notes screen is open does not reload its table: the call is
  commented out (`TableShowsNotes`).
* `overtaken` (DeviceList): a call made while a snapshot waits on the main queue is in neither
  the new objects nor, later, in what its handler changes.
* `late` (DeviceList): a call confirmed after its screen was left and reopened sets the labels
  of the screen that is gone.
* After a refresh an open Details screen keeps the old object while its calls change the new
  one; its labels show the old one, so `LabelsShowDevice` speaks of its own object only.
* `IsUnasked` (DeviceList) leaves two cases aside, in which an untouched picker does send a period:
  one of more than four digits, and one that an earlier call changed while the picker was open.
* `diverged` (Session): creating a user signs the new one in while the app keeps the role of the
  admin; a logout overtakes the handler of a login; a restart forgets the role but not the user. The
  three places then differ until the next login or logout.
* `late` (Session): a login answered under another dialog changes the user below it, and a
  sign-up link offered to the admin remains.
* `joined` (Queries): a call that joins the listener of another gets what that one has got, which
  may be older than the call.
* `inherited` (Queries): a query made during an attempt to connect that was begun for an earlier one
  has no ten-second timer (`remote_store.cc:141` starts none, the removal of the earlier
  listener has cleared it) and waits as long as that attempt takes, although
  `online_state_tracker.cc:44-46` says that Firestore does not wait indefinitely.
* `crossed` and `misled` (Queries): the case of `queries_rejection`. `EveryQueryIsAnswered` promises nothing to who
  listens on such a stream for ever, `AnswersAreFresh` nothing of what it told. Both hold again once the
  stream has ended, as it does when it breaks, idles or the user changes.

No passing property covers these cases, so they are not counted as covered: PROJECT.json lists their
hazards without a property and says which exception they are. Only the last has a run of its own,
`queries_rejection`, because its outcome contradicts what the code says of itself.

Three observations that no run is about:

* "meghaladta … 80%-át" (has exceeded 80 %, `Enumerations.swift:31`) is shown from 79.5 %, because
  the rate is rounded before it is classified. `LimitsAreExact` states the limits as they are.
* Against tokens of a former user the write stream is protected twice, by the token counter and by
  the close count. The close count alone suffices: the proof of `StreamAlwaysActsForItsUser` does not use
  the counter. The RPCs of a transaction have the counter only (`datastore.cc:260`).
* A stream that is open and silent keeps Firestore in the state it was in; only failures and the
  timer of an attempt lead to Offline.

### Bounds

Constants named `Max…` bound time, hours, faults, restarts, loads, visits, calls, dialogs and changes;
they appear in the guards of `Tick`, `Report`, the fault actions, `PullToRefresh`, `SelectRow`,
`Submit`, `OpenLogin`, `UpdateCurrentUser`, `CloudChanges` and the like.

* *DataCenter.* Two apps and three requests allow a rewrite between the read and the commit of another,
  an append in between, and a stale commit after both; one fault allows a late commit or a resend.
  More faults only repeat it, and the proofs hold for any number.
* *Screens.* Two comments tell an edit from no edit. Three calls allow an addition, an edit and a
  deletion in flight together, and two notes of one second. Two loads and two visits are the least
  that has an old object and an old screen. 10002 is a period whose four last digits are another one.
* *Session.* Two accounts, one the admin; two calls allow a login against a login, a sign-up or a
  logout; four dialogs a cancelled one, its successor, and one over another. Three calls and three
  dialogs (1.03 million states) show nothing else, and the two invariants are proved.
* *Credentials.* Two changes are a logout and a login of another, or back; the fault is a broken
  stream, a rejection or a restart. One write that may be made, sent and answered anywhere
  among them is enough for properties of one write; order between writes is DataCenter's.
* *Queries.* Three calls share, or follow one another on, one target; the third is the one that a
  rejection of the first, met by the second, can mislead. A change of the cloud tells new documents from
  old ones. `MaxBreaks` bounds failures, rejections and changes of the user together; idle timeouts
  are not bounded. With one of them the run has 0.31 million states. Two of them, without a change of the
  cloud, make the count of the tracker go from 0 to 1 to 2 (0.12 million states), and show nothing else; the
  invariants are proved for any number.

Symmetry (requests, comments) is used only for invariants. `CHECK_DEADLOCK FALSE` is set where the
bounded program comes to rest: all requests are answered, or the app has stopped. DeviceStatus is
checked for deadlock.

### Fairness

`DataCenter!Fairness` assumes that the network is up often enough for reads, writes, replies and
messages on the wire to get through, and that the SDK's executor goes on; TransactionRunner and
RemoteStore reschedule themselves in every branch. Nothing is assumed of users, machines, faults
or restarts. `NotesScreen!FairSpec` assumes what `EveryCallIsAnswered` shows, that each
request is applied or refused and its handler called, and that the main queue is served, as UIKit
does.
`SpinnerAwaitsAnswer` needs no fairness; that the answer comes is `EveryQueryIsAnswered` of Queries.

`Session!FairSpec` assumes that the main queue is served and that FIRAuth answers its calls, which are
bounded by the timeout of its HTTP requests. `Credentials!FairSpec` assumes that both queues are served
and that tokens, the server and the backoff timer go on; nothing of users, faults or
restarts. `Queries!FairSpec` assumes that the two queues, the ten-second timer and the backoff timer run and that on an
*open* stream requests are received and what is sent arrives and is dealt with, unless the stream
breaks. Nothing forces a failure, a rejection, an idle timeout or a change of user. An attempt to open
a stream may take for ever, which is what the ten-second timer is for.

## What is proved

TLAPS checks all of the following for arbitrary constants.

* `DataCenterInvariant`: the inductive invariant `IInv` of DataCenter, for any number of apps,
  requests, retries, faults and restarts. `TypeOK` alone is not inductive enough for anything
  of interest; `IInv` adds
  * `PipeInv`: the pipeline of an app holds its own queued appends, each once, and the first
    `onServer` of them have been applied;
  * `PhaseInv`: what is known of a request from its phase, e.g. that a committed one has taken
    effect and an unfinished one has no answer;
  * `WireInv`: a commit message whose version is that of the document carries exactly what its
    operation makes of the document's array. This is why rewriting the whole array loses nothing: every
    write raises the version, so a commit is either of the current array or refused.
* `DataCenterTypeOK` and `DataCenterImplementsLog`: each step under `IInv` is a step of
  `MaintenanceLog` or changes nothing there.
* `DataCenterKeepsNotes`, `DataCenterKeepsServices`, `DataCenterHasNoDoubles`: proved once for
  `MaintenanceLog` (`LogKeepsNotes`, …), inherited through the refinement. They rest on lemmas about
  `ArrayUnion`, `ReplaceComment`, `RemoveDates` and `Effect`, which stand with them and are cited through an
  instance (`LogProofs`) by the modules whose constants and variables are other ones.
* `DataCenterFailsCleanly`, by `CleanInv`: without faults and restarts every commit on the wire is awaited, and
  what took effect is queued, committed or confirmed; so nothing that is reported as failed did.
* `DataCenterAnswersInOrder`, by `OrderInv`: an append stays in the pipeline of its app until it is answered
  and the pipeline is in the order of time, so that what is answered is the earliest.
* `DataCenterWritesInOrder`, by `LogInv`: while nobody edits or deletes, every note of the array is that of an
  append that took effect, and none took effect before an earlier one of its app that is still to be answered.
* `DeviceStatusTypeOK`, `LimitsHold` and `UrgencyGrows`: for every operation time and period the classes begin
  exactly at 79.5, 89.5 and 99.5 percent, and urgency is monotone. The argument:
  the quotient of a division reaches k iff the dividend reaches k times the divisor
  (`QuotientReaches`), and rounding differs from exact half-up rounding only below 60 percent
  (`RoundedPercentReaches`).

* `PickerReturnsPeriod` and `PickerShowsSelection`: an untouched picker returns the last four digits of
  the period, hence the period itself exactly below 10000; and every position of the wheels is
  the picture of what it stands for. Both rest on `LastFourDigits` (what the digits add up to) and
  `DigitsAreRows` (they are rows of the wheels).
* `PeriodsAreChosen` (DeviceList): no unasked period is ever sent. The property says of every request
  that it is not marked `unasked`, and the one step that could mark one is shown not to, by
  the two theorems about the wheels.
* `NotesScreenTypeOK`. `TypeInv` adds that there are never more rows than notes, which is what keeps
  the rows a block of the main queue deletes inside the table.
* `EditingCanAlwaysEnd` (`ExitInv`): while the user edits there is a note struck off, a back button on
  screen or on its way, or a list with the button to end.
* `TableAlwaysShowsNotes` (`TableInv`): rows and list are equal, or a block that reloads the table is queued.
* `BackIsOfferedWhenSettled` (`DeletionInv`, `EditInv`): one deletion is under way at most, it was asked for the dates
  in `deletedNotes`, and the block that restores them is queued ahead of the one that shows the button.
* `NothingEverVanishes` (`AppliedInv`): once a deletion has taken effect the list and the unconfirmed appends
  account for the whole array. Before that, `deletedNotes` does too.
* `NoPhantomsEver` (`OriginInv`, `FieldInv`, `PhantomInv`): a note of the screen was there when it opened or is that of a
  confirmed append; the array exists before there is a note or a call to change one, so that
  without faults no deletion fails; and what is shown, struck off or appended without an answer is in the array.
  `OriginInv` is what makes a date that occurs twice a member of `SharedDates`.
* `CommentsAlwaysAgree` (`ArrayInv`, `CommentInv`). The property speaks of the time when all calls are answered; the
  invariant says of every moment which comment the array has: that of the edit that took effect and is not
  answered, and without one that of the screen (`Matches`). That an answered edit makes the two equal needs
  that the first note of its date is the only one, on the list and in the array (`ArrayInv`, `OriginInv`).
* `DeviceListTypeOK`; `SpinnerAlwaysAwaitsAnswer`, `RowsAreAlwaysFiltered`, `LabelsAlwaysShowDevice`, each by an
  invariant that names the block of the main queue which will put right what is not (`SpinnerInv`,
  `RowsInv`, `LabelsInv`). While a label differs from the object a block of the call that sets this label is queued, and
  while the progress differs one of either call: no block is relied on for the label of the other.
* `DeviceIsAlwaysLoaded` (`LoadedInv`): without faults the current list is the latest, and every later list, whether
  loaded or waiting on the main queue, has the devices of the earlier ones.
* `ListAlwaysAgreesWithCloud`. Again the property is about a quiet moment and the invariant about every one. Along the
  wire: versions grow in the order of the pipeline (`WireInv`), and a cached document that has the applied
  writes of a kind is as new in that field as the cloud (`CacheInv`). From there to the objects
  (`AgreementInv`): a snapshot, with the pending writes over it, has the period of the last call under way;
  so has the current object unless a handler is still to change it; and handlers run in the order of the
  loads their calls were made from, so that the last one to change the object has the period of the cloud.
* `SessionTypeOK`, `SessionAlwaysAgrees`, `ScreensAlwaysKnow`. `SessionAgrees` speaks of the empty main
  queue and says nothing of how it gets there. The invariant says what the queue *will* lead to:
  its last notification names FIRAuth's user, and its last handler that tells DataCenter of a user
  (a login that was not overtaken, or a sign-up) tells of that one (`NotificationsEndWell`,
  `HandlersEndWell`). An appended pair of notification and handler becomes the last; a block that
  runs and is not the last changes nothing that matters. `HandlersAreAnswers` keeps a call from
  being answered again while its handler waits.
* `CredentialsTypeOK`, `StreamAlwaysActsForItsUser`, `WritesAlwaysGoOutUnderTheirUser`, `TokensAreAlwaysAwaited`. The invariant
  follows the user down the queues: the notifications on the main queue lead from `credUser` to
  `authUser`, the tasks of the worker queue from `syncUser` to `credUser` (`UsersAgree`); a write that
  waits behind some changes of user belongs to the user in effect at its place
  (`WritesAreOwned`); and a token with the current close count, wherever it is on its way, names
  `syncUser` unless a change of user is ahead of it, and that change stops the started stream,
  which counts, before the token arrives (`Tokens`). Of the tokens with the current close count there is at
  most one, in one place, and only while the stream is starting (`OneToken`).
* `QueriesTypeOK` (in which no handler runs twice), `NoAssertionEverFails`, `AnswersAreAlwaysFresh`,
  `ActiveTargetsAreAnsweredUntilCrossed`. Rejections may arrive at any time in all of them. `QueryInv` has
  * `StreamInv`: until a rejection crosses requests, `pending` is at least the number of requests and of
    answers to requests that are under way. It may be more, because the server need not answer the
    removal of a target it has rejected. A stream that is not open has nothing on it, a new target,
    and is not crossed: this is why the damage ends with the stream. The fourth theorem follows: what
    `queries_rejection` refutes holds for every number of calls until a rejection crosses requests;
  * `OnceInv`: an answered call is muted or nothing of it is left; an error is the last event of its
    listener; the task that adds a listener is ahead of all its events. It needs no count, and so no
    exception;
  * `TrackerInv`: a timer of the tracker runs only while nothing is known and a stream is tried or open, one that is
    online has counted no failure, and the idleness timer runs only while nobody listens;
  * `FreshInv`: with no answer due, what the target has collected is as new as the calls of its present listeners,
    and so are the documents among the messages behind the last answer (`IsOwn`); "current" comes directly
    behind documents or finds them collected. This is what the target number alone does not give: it is the
    same for the listener before. The two parts about the stream are claimed until it is crossed; what it
    tells after that goes to `misled` calls only (`Owners` are those that are neither `misled` nor `joined`).

What the proofs found out about the model, beyond what TLC had shown:

* `ListBounds` of DeviceList did not exclude constants for which the initial state has no type; it does now.
* `NotesScreen` said that notes of equal date keep their order when sorted. Swift's `sort(by:)` does not
  promise that; the model now takes any order, and no property needs more.
* Events of Queries took the order of the calls from `SetToSortSeq`, whose sorting is opaque to the
  provers; `InOrder` now states the order, and that there is one is proved (`OrderExists`).
* `View` of DeviceList, the pending writes over a document, was a fold and is now stated by the last
  pending write of each field: the same function, and one that can be reasoned about.

Assumptions are the named ASSUMEs on constants (`BoundsAreNumbers`, `ConstantsAssumption`, `ScreenBounds`,
`StatusBounds`, `ListBounds`, `SessionConstants`, `CredentialsConstants`, `QueriesBounds`). TLC evaluates
them in every run. The invariants of NotesScreen, DeviceList and Queries named above were
checked by TLC on the instances of their runs before they were proved.

Every invariant and action property that a passing run checks is the subject of a theorem. Only
model-checked: all liveness (`EveryCallIsAnswered`, `BackComesBack`, `LoginTakesEffect`,
`HandlersWaitForTheirUser`, `EveryQueryIsAnswered`). Liveness under fairness is beyond TLAPS' backends.

## Abstractions

* One monotone clock in seconds is shared by all apps, which makes dates of notes comparable.
* Documents and notes are well formed, and devices are not removed.
* In DataCenter an appended note of the model has one of a few comments; the wording of service
  and period notes is left out.
* Every write makes a new version of the document, also one that changes nothing.
* On NotesScreen other copies of the app delete notes but append none, and the time
  from opening the editor to OK is one action. Notes of equal date may be sorted in any order.
* Session: FIRAuth refuses a call at any time; why, and the checks of the text fields, are left out.
* Credentials: tokens are those of the account and do not expire; a refresh that fails is the
  token request that takes longer. Handlers of writes are called through the main queue.
* Queries: one query; what the watch stream does for limbo documents, existence filters, resume tokens and
  the overlay of pending writes is left out. The server rejects a target at any time; it
  may leave the removal of a target that it does not serve unanswered, and answers a request for a target
  that it serves already as it answers the first.
* DeviceList: the user is logged in, all devices report an operation time, an event of the
  watch stream that reaches the cache without a query does not matter.
* Permanent errors of writes hit the oldest write, as the SDK attributes them.

## Not modelled

Drawing, animation, layout and keyboard handling; the error views; the summary screen, which counts
once when it appears; `AppDelegate`, which configures Firebase; `NetworkManager` (commented out).

The vendored pods are nearly all of the lines of this repository (gRPC, BoringSSL, leveldb, Charts, the other
Firebase libraries). They are third-party code that the app only links. Modelled of them is what decides
which of the app's calls take effect, in which order, under whose name, and when they are
answered: parts of some twenty files of FirebaseFirestore. FIRAuth is modelled from its source as far as
its user, its notifications and its tokens go. Transactions under a change of user are left
out: DataCenter has no users, and Credentials no transactions. The local copy of the date of the last
service is left out of DeviceList.

## Plan

Done: 1. `DeviceDocument`, `MaintenanceLog`, `DataCenter` with refinement and proofs;
2. `NotesScreen`, with notes of one second; 3. `DeviceStatus` with proofs; 4. `DeviceList`;
5. `PeriodPicker` with proofs; 6. `Session` with proofs; 7. `Credentials` with proofs; 8. `Queries` with proofs.

Next, in this order:

9. The date of service on DeviceList: local time of the callback against the time of the tap.
10. Transactions under a change of user, in Credentials: the counter alone decides there.
11. A composition of DeviceList and NotesScreen over one set of `Device` objects: the notes screen
    after a refresh.
12. The error view: hiding animation against a new message. The summary screen.
