----------------------------- MODULE NotesScreen -----------------------------
(***************************************************************************)
(* NotesViewController on top of DataCenter: the user adds and edits notes *)
(* of the device on the screen, and in editing mode strikes notes off the  *)
(* list, which are deleted in the cloud when editing ends.                 *)
(*                                                                         *)
(* The cloud side is the abstract log; every call of DataCenter is one of  *)
(* its requests.  A completion handler runs on the main queue; what it     *)
(* hands to DispatchQueue.main.async runs later, in order, and what the    *)
(* user does may come in between.                                          *)
(***************************************************************************)
EXTENDS DeviceDocument, SequencesExt

CONSTANTS
    Requests,      \* calls of DataCenter
    InitialNotes,  \* bound: notes the device has when the screen opens
    MaxFaults      \* bound: failures, repetitions and deletions by others

ASSUME ScreenBounds == InitialNotes \in Dates /\ MaxFaults \in Nat

VARIABLES
    doc, asked, applied, answer,     \* the abstract log
    clock,               \* Int(Date().timeIntervalSince1970)
    notes,               \* device.notes
    rows,                \* what notesTableView shows
    deletedNotes,
    isEditing,           \* isNotesTableViewEditing
    deleteInProgress,
    deleteEnabled,       \* deleteBarButtonItem.isEnabled
    backHidden,          \* navigationItem.hidesBackButton
    mainQueue,           \* blocks given to DispatchQueue.main.async
    trap,                \* the run-time error that has stopped the app
    hurried,             \* history: editing began before a deletion was over
    faults

logVars  == <<doc, asked, applied, answer>>
listVars == <<notes, rows, deletedNotes>>
editVars == <<isEditing, deleteInProgress, deleteEnabled, backHidden, hurried>>
vars     == <<logVars, clock, listVars, editVars, mainQueue, trap, faults>>

Log == INSTANCE MaintenanceLog

Blocks == {"deviceChanged", "reloadData", "restoreDeletedNotes", "showBackButton"}

TypeOK ==
    /\ Log!TypeOK
    /\ clock \in Dates
    /\ notes \in Seq(Note) /\ rows \in Seq(Note) /\ deletedNotes \in Seq(Note)
    /\ {isEditing, deleteInProgress, deleteEnabled, backHidden, hurried} \subseteq BOOLEAN
    /\ mainQueue \in Seq(Blocks)
    /\ trap \in {"none", "noSuchNote", "rowCount"}
    /\ faults \in 0 .. MaxFaults

(* What sortNotes() may leave of a list: notes of one second come in any   *)
(* order, for sorted(by:) promises none.                                   *)
Sortings(list) ==
    LET places  == DOMAIN list
        date(i) == list[i].creationDate IN
    {[i \in places |-> list[p[i]]] :
        p \in {q \in Bijection(places, places) :
                  \A i, j \in places : i < j => date(q[i]) >= date(q[j])}}

IsCall(r, kind) == asked[r].kind = kind

(* A run-time error ends everything. *)
IsRunning == trap = "none"

IsPending(r) == asked[r] # NoOperation /\ answer[r] = "none"

(* The device as getDevices has loaded it, with one note per second so     *)
(* far.  A service that was ordered on the screen before may still be on   *)
(* its way.                                                                *)
Init ==
    /\ clock \in 0 .. InitialNotes
    /\ doc \in [version : {clock}, hasNotes : {clock > 0},
                notes : {n \in [1 .. clock -> Note] :
                            \A s \in 1 .. clock : n[s].creationDate = s - 1},
                operationTime : {0}, period : Periods, lastService : {0}]
    /\ \/ asked = [r \in Requests |-> NoOperation]
       \/ \E r \in Requests, o \in AppendingOperation :
             /\ o.kind = "serviceDevice" /\ o.note.creationDate = clock
             /\ asked = [[q \in Requests |-> NoOperation] EXCEPT ![r] = o]
    /\ applied = {}
    /\ answer = [r \in Requests |-> "none"]
    /\ notes \in Sortings(doc.notes)
    /\ rows = notes
    /\ deletedNotes = << >>
    /\ isEditing = FALSE /\ deleteInProgress = FALSE /\ backHidden = FALSE
    /\ deleteEnabled = (notes # << >>)
    /\ mainQueue = << >>
    /\ trap = "none" /\ hurried = FALSE /\ faults = 0

-----------------------------------------------------------------------------
(* What the user does.                                                     *)

AddNote(r, comment) ==
    /\ IsRunning
    /\ ~ isEditing                  \* the button has slid off the screen
    /\ Log!Ask(r, [kind |-> "addNoteToDevice",
                   note |-> [creationDate |-> clock, comment |-> comment]])
    /\ UNCHANGED <<clock, listVars, editVars, mainQueue, trap, faults>>

(* A tap on a row opens the editor on device.notes[row]. *)
NoteChanged(r, i, comment) ==
    /\ IsRunning
    /\ ~ isEditing
    /\ i \in DOMAIN rows
    /\ comment # notes[i].comment
    /\ Log!Ask(r, [kind |-> "updateNoteOfDevice",
                   note |-> [notes[i] EXCEPT !.comment = comment]])
    /\ UNCHANGED <<clock, listVars, editVars, mainQueue, trap, faults>>

StartEditing ==
    /\ IsRunning
    /\ ~ isEditing /\ deleteEnabled
    /\ isEditing' = TRUE
    /\ backHidden' = TRUE
    /\ hurried' = (hurried \/ deleteInProgress
                       \/ \E i \in DOMAIN mainQueue :
                             mainQueue[i] \in {"restoreDeletedNotes", "showBackButton"})
    /\ UNCHANGED <<logVars, clock, listVars, deleteInProgress, deleteEnabled,
                   mainQueue, trap, faults>>

(* Mutant: the count of the dates is not looked at. *)
EndEditingWithNothingToDelete ==
    /\ isEditing' = FALSE
    /\ deleteEnabled' = (notes' # << >>)
    /\ IF deleteInProgress
       THEN UNCHANGED <<asked, deleteInProgress, backHidden>>
       ELSE /\ deleteInProgress' = TRUE
            /\ \E r \in Requests :
                  Log!Ask(r, [kind |-> "deleteNotesOfDevice",
                              creationDates |-> {deletedNotes'[i].creationDate :
                                                    i \in DOMAIN deletedNotes'}])
            /\ UNCHANGED backHidden
    /\ UNCHANGED <<doc, applied, answer, hurried>>

(* isNotesTableViewEditing = false, once the lists are what they are. *)
EndEditing ==
    /\ isEditing' = FALSE
    /\ deleteEnabled' = (notes' # << >>)
    /\ IF deleteInProgress
       THEN UNCHANGED <<asked, deleteInProgress, backHidden>>
       ELSE IF deletedNotes' = << >>
       THEN /\ backHidden' = FALSE
            /\ UNCHANGED <<asked, deleteInProgress>>
       ELSE /\ deleteInProgress' = TRUE
            /\ \E r \in Requests :
                  Log!Ask(r, [kind |-> "deleteNotesOfDevice",
                              creationDates |-> {deletedNotes'[i].creationDate :
                                                    i \in DOMAIN deletedNotes'}])
            /\ UNCHANGED backHidden
    /\ UNCHANGED <<doc, applied, answer, hurried>>

Done ==
    /\ IsRunning
    /\ isEditing /\ deleteEnabled
    /\ UNCHANGED listVars
    /\ EndEditing
    /\ UNCHANGED <<clock, mainQueue, trap, faults>>

DeleteAll ==
    /\ IsRunning
    /\ isEditing
    /\ notes # << >>
    /\ deletedNotes' = deletedNotes \o notes
    /\ notes' = << >>
    /\ rows' = << >>
    /\ UNCHANGED <<logVars, clock, editVars, mainQueue, trap, faults>>

(* UIKit stops the app if the number of rows does not fit after deleteRows. *)
SwipeDelete(i) ==
    /\ IsRunning
    /\ isEditing
    /\ i \in DOMAIN rows
    /\ IF Len(rows) = Len(notes)
       THEN /\ deletedNotes' = Append(deletedNotes, notes[i])
            /\ notes' = RemoveAt(notes, i)
            /\ rows' = RemoveAt(rows, i)
            /\ UNCHANGED trap
       ELSE /\ trap' = "rowCount"
            /\ UNCHANGED listVars
    /\ UNCHANGED <<logVars, clock, editVars, mainQueue, faults>>

(* Mutant: the list is emptied before it is restored. *)
RestoreDeletedNotesTooLate ==
    /\ notes' \in Sortings(notes)
    /\ rows' = notes'
    /\ deletedNotes' = << >>

(* Mutant: the list is not emptied. *)
RestoreDeletedNotesTwice ==
    /\ notes' \in Sortings(notes \o deletedNotes)
    /\ rows' = notes'
    /\ UNCHANGED deletedNotes

(* restoreDeletedNotes() up to deviceChanged() *)
RestoreDeletedNotes ==
    /\ notes' \in Sortings(notes \o deletedNotes)
    /\ rows' = notes'
    /\ deletedNotes' = << >>

Cancel ==
    /\ IsRunning
    /\ isEditing
    /\ deletedNotes # << >>
    /\ RestoreDeletedNotes
    /\ EndEditing
    /\ UNCHANGED <<clock, mainQueue, trap, faults>>

-----------------------------------------------------------------------------
(* Completion handlers.                                                    *)

(* Appended notes are confirmed in the order of their calls. *)
IsNextAppend(r) ==
    \A q \in Requests :
        IsAppending(asked[q]) /\ IsPending(q) =>
            asked[r].note.creationDate <= asked[q].note.creationDate

(* Mutant: deviceChanged() is forgotten. *)
AppendSucceedsUnseen(r) ==
    /\ IsRunning
    /\ IsAppending(asked[r]) /\ IsNextAppend(r)
    /\ Log!Confirm(r)
    /\ notes' = <<asked[r].note>> \o notes
    /\ UNCHANGED <<mainQueue, clock, rows, deletedNotes, editVars, trap, faults>>

(* serviceDevice was called by DetailsViewController, which tells the      *)
(* device list but not this screen.                                        *)
AppendSucceeds(r) ==
    /\ IsRunning
    /\ IsAppending(asked[r]) /\ IsNextAppend(r)
    /\ Log!Confirm(r)
    /\ notes' = <<asked[r].note>> \o notes
    /\ mainQueue' = IF IsCall(r, "addNoteToDevice")
                    THEN Append(mainQueue, "deviceChanged") ELSE mainQueue
    /\ UNCHANGED <<clock, rows, deletedNotes, editVars, trap, faults>>

(* Mutant: setComment(to:) is forgotten. *)
UpdateSucceedsUnnoticed(r) ==
    /\ IsRunning
    /\ IsCall(r, "updateNoteOfDevice")
    /\ Log!Confirm(r)
    /\ LET note == asked[r].note IN
       IF \E i \in DOMAIN notes : notes[i].creationDate = note.creationDate
       THEN /\ UNCHANGED notes
            /\ mainQueue' = Append(mainQueue, "reloadData")
            /\ UNCHANGED trap
       ELSE /\ trap' = "noSuchNote"
            /\ UNCHANGED <<notes, mainQueue>>
    /\ UNCHANGED <<clock, rows, deletedNotes, editVars, faults>>

UpdateSucceeds(r) ==
    /\ IsRunning
    /\ IsCall(r, "updateNoteOfDevice")
    /\ Log!Confirm(r)
    /\ LET note == asked[r].note IN
       IF \E i \in DOMAIN notes : notes[i].creationDate = note.creationDate
       THEN /\ notes' = ReplaceComment(notes, note)
            /\ mainQueue' = Append(mainQueue, "reloadData")
            /\ UNCHANGED trap
       ELSE /\ trap' = "noSuchNote"
            /\ UNCHANGED <<notes, mainQueue>>
    /\ UNCHANGED <<clock, rows, deletedNotes, editVars, faults>>

(* Mutant: the back button is shown only after a failure. *)
DeleteSucceedsWithoutBack(r) ==
    /\ IsRunning
    /\ IsCall(r, "deleteNotesOfDevice")
    /\ Log!Confirm(r)
    /\ deletedNotes' = << >>
    /\ deleteInProgress' = FALSE
    /\ UNCHANGED <<mainQueue, clock, notes, rows, isEditing, deleteEnabled, backHidden, hurried,
                   trap, faults>>

DeleteSucceeds(r) ==
    /\ IsRunning
    /\ IsCall(r, "deleteNotesOfDevice")
    /\ Log!Confirm(r)
    /\ deletedNotes' = << >>
    /\ deleteInProgress' = FALSE
    /\ mainQueue' = Append(mainQueue, "showBackButton")
    /\ UNCHANGED <<clock, notes, rows, isEditing, deleteEnabled, backHidden, hurried,
                   trap, faults>>

(* The update block finds no such note; any other failure is a fault. *)
FailureHasCause(r) ==
    \/ r \notin applied /\ ~ Applicable(doc, asked[r]) /\ UNCHANGED faults
    \/ faults < MaxFaults /\ faults' = faults + 1

CallFails(r) ==
    /\ IsRunning
    /\ asked[r] # NoOperation /\ ~ IsCall(r, "deleteNotesOfDevice")
    /\ IsAppending(asked[r]) => IsNextAppend(r)
    /\ Log!Refuse(r)
    /\ FailureHasCause(r)
    /\ UNCHANGED <<clock, listVars, editVars, mainQueue, trap>>

(* Mutant: the back button is shown before the notes are restored. *)
DeleteFailsBackFirst(r) ==
    /\ IsRunning
    /\ IsCall(r, "deleteNotesOfDevice")
    /\ Log!Refuse(r)
    /\ FailureHasCause(r)
    /\ deleteInProgress' = FALSE
    /\ mainQueue' = mainQueue \o <<"showBackButton", "restoreDeletedNotes">>
    /\ UNCHANGED <<clock, listVars, isEditing, deleteEnabled, backHidden, hurried, trap>>

(* Mutant: the back button is shown only after a success. *)
DeleteFailsWithoutBack(r) ==
    /\ IsRunning
    /\ IsCall(r, "deleteNotesOfDevice")
    /\ Log!Refuse(r)
    /\ FailureHasCause(r)
    /\ deleteInProgress' = FALSE
    /\ mainQueue' = mainQueue \o <<"restoreDeletedNotes">>
    /\ UNCHANGED <<clock, listVars, isEditing, deleteEnabled, backHidden, hurried, trap>>

DeleteFails(r) ==
    /\ IsRunning
    /\ IsCall(r, "deleteNotesOfDevice")
    /\ Log!Refuse(r)
    /\ FailureHasCause(r)
    /\ deleteInProgress' = FALSE
    /\ mainQueue' = mainQueue \o <<"restoreDeletedNotes", "showBackButton">>
    /\ UNCHANGED <<clock, listVars, isEditing, deleteEnabled, backHidden, hurried, trap>>

-----------------------------------------------------------------------------
(* The blocks of the main queue, and the rest of the world.                *)

DeviceChanged ==
    /\ rows' = notes'
    /\ deleteEnabled' = (notes' # << >>)
    /\ UNCHANGED <<isEditing, deleteInProgress, backHidden, hurried>>

RunBlock ==
    /\ IsRunning
    /\ mainQueue # << >>
    /\ mainQueue' = Tail(mainQueue)
    /\ LET block == Head(mainQueue) IN
       \/ /\ block = "deviceChanged"
          /\ UNCHANGED <<notes, deletedNotes>> /\ DeviceChanged
       \/ /\ block = "reloadData"
          /\ rows' = notes /\ UNCHANGED <<notes, deletedNotes, editVars>>
       \/ /\ block = "restoreDeletedNotes"
          /\ RestoreDeletedNotes /\ DeviceChanged
       \/ /\ block = "showBackButton"
          /\ backHidden' = FALSE
          /\ UNCHANGED <<listVars, isEditing, deleteInProgress, deleteEnabled, hurried>>
    /\ UNCHANGED <<logVars, clock, trap, faults>>

(* It takes a fault for an operation to take effect again.                 *)
ServerApplies(r) ==
    /\ IsRunning
    /\ Log!Apply(r)
    /\ IF r \in applied
       THEN faults < MaxFaults /\ faults' = faults + 1
       ELSE UNCHANGED faults
    /\ UNCHANGED <<clock, listVars, editVars, mainQueue, trap>>

(* Another copy of the app deletes notes. *)
OthersDelete(dates) ==
    /\ IsRunning
    /\ faults < MaxFaults
    /\ faults' = faults + 1
    /\ doc.hasNotes
    /\ doc' = WriteNotes(doc, RemoveDates(doc.notes, dates))
    /\ UNCHANGED <<asked, applied, answer, clock, listVars, editVars, mainQueue, trap>>

Tick ==
    /\ IsRunning
    /\ clock < MaxTime
    /\ clock' = clock + 1
    /\ UNCHANGED <<logVars, listVars, editVars, mainQueue, trap, faults>>

User ==
    \/ \E r \in Requests, comment \in Comments :
          \/ AddNote(r, comment)
          \/ \E i \in DOMAIN rows : NoteChanged(r, i, comment)
    \/ StartEditing
    \/ Done
    \/ DeleteAll
    \/ \E i \in DOMAIN rows : SwipeDelete(i)
    \/ Cancel

Handler(r) ==
    AppendSucceeds(r) \/ UpdateSucceeds(r) \/ DeleteSucceeds(r) \/ CallFails(r)
        \/ DeleteFails(r)

Next ==
    \/ User
    \/ \E r \in Requests : Handler(r) \/ ServerApplies(r)
    \/ RunBlock
    \/ \E dates \in (SUBSET Dates) \ {{}} : OthersDelete(dates)
    \/ Tick

Spec == Init /\ [][Next]_vars

(* Every call is answered, and the main queue is served. *)
FairSpec ==
    /\ Spec
    /\ WF_vars(RunBlock)
    /\ \A r \in Requests : WF_vars(Handler(r) \/ (r \notin applied /\ ServerApplies(r)))
-----------------------------------------------------------------------------
(* Properties.                                                             *)

DatesOf(list) == {list[i].creationDate : i \in DOMAIN list}

(* The dates that do not tell the notes of the device apart: two notes of  *)
(* one second are one to updateNoteOfDevice and deleteNotesOfDevice.       *)
SharedDates ==
    {asked[p[1]].note.creationDate : p \in
        {p \in Requests \X Requests :
            /\ p[1] # p[2] /\ IsAppending(asked[p[1]]) /\ IsAppending(asked[p[2]])
            /\ asked[p[1]].note.creationDate = asked[p[2]].note.creationDate}}

(* No note of the cloud disappears from the user's sight: it is in the     *)
(* list, or struck off and still to be deleted, or its own append has not  *)
(* been confirmed.  It holds through failures, as long as the user does    *)
(* not begin to edit again before a deletion is over: the handler of line  *)
(* 70 of NotesViewController.swift then drops all of deletedNotes, those   *)
(* struck off meanwhile too.                                               *)
NothingVanishes ==
    ~ hurried =>
        DatesOf(doc.notes) \subseteq
            DatesOf(notes) \cup DatesOf(deletedNotes)
                \cup {asked[r].note.creationDate :
                        r \in {q \in Requests : IsAppending(asked[q]) /\ answer[q] # "ok"}}

(* Without faults and hurry the list never shows a note that is no longer  *)
(* in the cloud, whichever handlers are outstanding.  Of two notes of one  *)
(* second the deletion of one takes both out of the cloud and one off the  *)
(* list (DataCenter.swift:223); no other note suffers from that.           *)
NoPhantoms ==
    ~ hurried /\ faults = 0 => DatesOf(notes) \subseteq DatesOf(doc.notes) \cup SharedDates

(* Once all is quiet a note shows the comment that the cloud has.  (Two    *)
(* edits of one note may be answered in the other order than they took     *)
(* effect, and are left aside.)  Of two notes of one second the cloud      *)
(* changes its first, the older one (DataCenter.swift:172), and the list   *)
(* its first, the newer one (:193): they may differ, and no other note.    *)
CommentsAgree ==
    /\ trap = "none" /\ faults = 0
    /\ \A r \in Requests : ~ IsPending(r)
    => \A i \in DOMAIN notes :
          \/ notes[i].creationDate \in SharedDates
          \/ \E s \in DOMAIN doc.notes : doc.notes[s] = notes[i]
          \/ hurried
          \/ \E q, r \in Requests :
                /\ q # r /\ IsCall(q, "updateNoteOfDevice") /\ IsCall(r, "updateNoteOfDevice")
                /\ asked[q].note.creationDate = notes[i].creationDate
                /\ asked[r].note.creationDate = notes[i].creationDate

(* The table shows device.notes whenever the main queue is empty, unless a *)
(* service ordered on the other screen was confirmed: the call that would  *)
(* tell this screen is commented out (DetailsViewController.swift:128).    *)
TableShowsNotes ==
    /\ mainQueue = << >> /\ trap = "none"
    /\ \A r \in Requests : IsCall(r, "serviceDevice") => answer[r] # "ok"
    => rows = notes

(* The back button is offered only when nothing is struck off and no       *)
(* deletion is under way, so that leaving the screen abandons nothing.     *)
BackOnlyWhenSettled ==
    ~ backHidden /\ ~ hurried =>
        ~ isEditing /\ ~ deleteInProgress /\ deletedNotes = << >>

(* Editing mode always has a way out: one of the two buttons is enabled,   *)
(* whatever deviceChanged() does to the button "Kesz" meanwhile, or there  *)
(* is the back button.                                                     *)
EditingCanEnd ==
    isEditing /\ mainQueue = << >> => deleteEnabled \/ deletedNotes # << >> \/ ~ backHidden

(* setComment(to:) is called on the result of a forced unwrap: the note    *)
(* that was edited must still be in device.notes (DataCenter.swift:193).   *)
EditedNoteIsThere == trap # "noSuchNote"

(* Outside editing mode the back button always comes back. *)
BackComesBack ==
    ~ isEditing ~> ~ backHidden \/ isEditing \/ trap # "none"
=============================================================================
