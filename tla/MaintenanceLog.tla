--------------------------- MODULE MaintenanceLog ---------------------------
(***************************************************************************)
(* What DataCenter promises about the log of one device, whatever the      *)
(* network does: each operation takes effect as a whole, on the document   *)
(* as it is at that moment; none takes effect before it is asked for or    *)
(* after its success was reported; and success is reported only of an      *)
(* operation that took effect.  An operation whose answer is a failure, or *)
(* that has no answer, may have taken effect, even several times.          *)
(***************************************************************************)
EXTENDS DeviceDocument

CONSTANT Requests      \* one per call of an operation

VARIABLES
    doc,       \* the document of the device
    asked,     \* the operation of each request, NoOperation before the call
    applied,   \* history: the requests that took effect at least once
    answer     \* what the completion handler of each request was told

vars == <<doc, asked, applied, answer>>

TypeOK ==
    /\ IsDocument(doc)
    /\ asked \in [Requests -> Operation \cup {NoOperation}]
    /\ applied \subseteq {r \in Requests : asked[r] # NoOperation}
    /\ answer \in [Requests -> {"none", "ok", "failed"}]

Init ==
    /\ doc \in InitialDocuments
    /\ asked = [r \in Requests |-> NoOperation]
    /\ applied = {}
    /\ answer = [r \in Requests |-> "none"]

Ask(r, op) ==
    /\ asked[r] = NoOperation
    /\ asked' = [asked EXCEPT ![r] = op]
    /\ UNCHANGED <<doc, applied, answer>>

Apply(r) ==
    /\ asked[r] # NoOperation
    /\ answer[r] # "ok"
    /\ Applicable(doc, asked[r])
    /\ doc' = Effect(doc, asked[r])
    /\ applied' = applied \cup {r}
    /\ UNCHANGED <<asked, answer>>

Confirm(r) ==
    /\ answer[r] = "none"
    /\ r \in applied
    /\ answer' = [answer EXCEPT ![r] = "ok"]
    /\ UNCHANGED <<doc, asked, applied>>

Refuse(r) ==
    /\ answer[r] = "none"
    /\ asked[r] # NoOperation
    /\ answer' = [answer EXCEPT ![r] = "failed"]
    /\ UNCHANGED <<doc, asked, applied>>

Report ==
    /\ doc.operationTime < MaxHours
    /\ doc' = Reported(doc)
    /\ UNCHANGED <<asked, applied, answer>>

Next ==
    \/ \E r \in Requests :
          \/ \E op \in Operation : Ask(r, op)
          \/ Apply(r)
          \/ Confirm(r)
          \/ Refuse(r)
    \/ Report

Spec == Init /\ [][Next]_vars

-----------------------------------------------------------------------------
(* Properties of the abstract log, which every implementation inherits.    *)

(* No note is lost: a note that an operation appended stays in the array   *)
(* until someone asks to edit or to delete a note of that very date,       *)
(* however the whole-array rewrites of DataCenter.swift:186 and :225       *)
(* interleave with the appends of :87, :112 and :135.                      *)
NotesAreKept ==
    \A r \in applied : IsAppending(asked[r]) =>
        \/ \E s \in DOMAIN doc.notes : doc.notes[s] = asked[r].note
        \/ \E q \in applied : Names(asked[q], asked[r].note.creationDate)

(* A reset of the operation time leaves a trace: the document never says   *)
(* that the device was serviced at a time for which the log has no service *)
(* entry, unless an entry of that date was edited or deleted               *)
(* (DataCenter.swift:84-88 sends the three fields in one write).           *)
ServicesAreLogged ==
    doc.lastService # 0 =>
        \E r \in applied :
            /\ asked[r].kind = "serviceDevice"
            /\ asked[r].note.creationDate = doc.lastService
            /\ \/ \E s \in DOMAIN doc.notes : doc.notes[s] = asked[r].note
               \/ \E q \in applied : Names(asked[q], doc.lastService)

(* Two equal notes can only be the work of an edit: sending an append      *)
(* again after a lost acknowledgement does not log the event twice.        *)
NoDoubleEntries ==
    (\E s, t \in DOMAIN doc.notes : s # t /\ doc.notes[s] = doc.notes[t]) =>
        \E q \in applied : asked[q].kind = "updateNoteOfDevice"
=============================================================================
