--------------------------- MODULE DeviceDocument ---------------------------
(***************************************************************************)
(* The document that the cloud keeps for one device, and what each write   *)
(* operation of DataCenter.swift does to it.  The modules that follow all  *)
(* use these operators, so a write means the same thing everywhere.        *)
(*                                                                         *)
(* The "notes" array is a function from slots to notes.  The slot of a     *)
(* note is the version of the document that appended it, so that the order *)
(* of the slots is the order of the array, and removing notes is           *)
(* restricting the domain.                                                 *)
(***************************************************************************)
EXTENDS Naturals, Functions

CONSTANTS
    Comments,     \* the texts a note may carry
    Periods,      \* the maintenance periods a user may choose
    MaxTime,      \* bound: the last second of the modelled time
    MaxHours      \* bound: the largest operation time that is reported

ASSUME BoundsAreNumbers == MaxTime \in Nat /\ MaxHours \in Nat

Dates == 0 .. MaxTime

Note == [creationDate : Dates, comment : Comments]

(***************************************************************************)
(* The five operations.  The first three send one updateData whose notes   *)
(* field is an arrayUnion; the last two are transactions that read the     *)
(* whole array and write it back.                                          *)
(***************************************************************************)
AppendingKinds   == {"serviceDevice", "setDevicePeriod", "addNoteToDevice"}
TransactionKinds == {"updateNoteOfDevice", "deleteNotesOfDevice"}

AppendingOperation ==
    [kind : {"serviceDevice", "addNoteToDevice"}, note : Note]
        \cup [kind : {"setDevicePeriod"}, note : Note, newPeriod : Periods]

TransactionOperation ==
    [kind : {"updateNoteOfDevice"}, note : Note]
        \cup [kind : {"deleteNotesOfDevice"}, creationDates : (SUBSET Dates) \ {{}}]

Operation == AppendingOperation \cup TransactionOperation

(* for a request that has not been made yet *)
NoOperation == [kind |-> "none"]

IsAppending(op) == op.kind \in AppendingKinds

-----------------------------------------------------------------------------
(* The document.  hasNotes says whether the field "notes" exists at all.   *)

IsArray(notes, version) ==
    /\ DOMAIN notes \subseteq 1 .. version
    /\ notes \in [DOMAIN notes -> Note]

IsDocument(d) ==
    /\ d = [version |-> d.version, hasNotes |-> d.hasNotes, notes |-> d.notes,
            operationTime |-> d.operationTime, period |-> d.period,
            lastService |-> d.lastService]
    /\ d.version \in Nat
    /\ d.hasNotes \in BOOLEAN
    /\ IsArray(d.notes, d.version)
    /\ d.operationTime \in 0 .. MaxHours
    /\ d.period \in Periods
    /\ d.lastService \in Dates

(* Mutant: the note is appended even if an equal one is there. *)
ArrayAppend(notes, note, slot) ==
    [s \in DOMAIN notes \cup {slot} |-> IF s = slot THEN note ELSE notes[s]]

(* FieldValue.arrayUnion: the note goes to the end unless an equal one is there. *)
ArrayUnion(notes, note, slot) ==
    IF \E s \in DOMAIN notes : notes[s] = note
    THEN notes
    ELSE [s \in DOMAIN notes \cup {slot} |-> IF s = slot THEN note ELSE notes[s]]

(* notes.firstIndex(where:), as a predicate on slots *)
IsFirstIndex(notes, s, date) ==
    /\ notes[s].creationDate = date
    /\ \A t \in DOMAIN notes : notes[t].creationDate = date => s <= t

(* notes[index]["comment"] = comment *)
ReplaceComment(notes, note) ==
    [s \in DOMAIN notes |->
        IF IsFirstIndex(notes, s, note.creationDate) THEN note ELSE notes[s]]

(* notes.removeAll(where:) *)
RemoveDates(notes, dates) ==
    Restrict(notes, {s \in DOMAIN notes : notes[s].creationDate \notin dates})

-----------------------------------------------------------------------------
(* One updateData of an appending operation, all its fields at once. *)
UpdateData(d, op) ==
    [version       |-> d.version + 1,
     hasNotes      |-> TRUE,
     notes         |-> ArrayUnion(d.notes, op.note, d.version + 1),
     operationTime |-> IF op.kind = "serviceDevice" THEN 0 ELSE d.operationTime,
     period        |-> IF op.kind = "setDevicePeriod" THEN op.newPeriod ELSE d.period,
     lastService   |-> IF op.kind = "serviceDevice" THEN op.note.creationDate
                                                    ELSE d.lastService]

(* The guards of the update blocks: without the array, or without the note *)
(* to be changed, the block reports an error and writes nothing.           *)
BlockSucceeds(d, op) ==
    /\ d.hasNotes
    /\ op.kind = "updateNoteOfDevice" =>
          \E s \in DOMAIN d.notes : d.notes[s].creationDate = op.note.creationDate

(* The array that the update block computes from the array it has read. *)
RewrittenNotes(notes, op) ==
    IF op.kind = "updateNoteOfDevice"
    THEN ReplaceComment(notes, op.note)
    ELSE RemoveDates(notes, op.creationDates)

(* transaction.updateData(["notes": notes]) *)
WriteNotes(d, notes) ==
    [version |-> d.version + 1, hasNotes |-> d.hasNotes, notes |-> notes,
     operationTime |-> d.operationTime, period |-> d.period,
     lastService |-> d.lastService]

Applicable(d, op) == IsAppending(op) \/ BlockSucceeds(d, op)

Effect(d, op) ==
    IF IsAppending(op) THEN UpdateData(d, op)
                       ELSE WriteNotes(d, RewrittenNotes(d.notes, op))

(* The device itself reports its operation time to the cloud. *)
Reported(d) ==
    [version |-> d.version + 1, hasNotes |-> d.hasNotes, notes |-> d.notes,
     operationTime |-> d.operationTime + 1, period |-> d.period,
     lastService |-> d.lastService]

(* Operations that may change or remove a note of the given date. *)
Names(op, date) ==
    \/ op.kind = "updateNoteOfDevice" /\ op.note.creationDate = date
    \/ op.kind = "deleteNotesOfDevice" /\ date \in op.creationDates

(* A new device, or one that already has a note. *)
InitialDocuments ==
    [version : {0}, hasNotes : {FALSE}, notes : [{} -> Note],
     operationTime : {0}, period : Periods, lastService : {0}]
        \cup
    [version : {1}, hasNotes : {TRUE}, notes : [{1} -> [creationDate : {0}, comment : Comments]],
     operationTime : {0}, period : Periods, lastService : {0}]
=============================================================================
