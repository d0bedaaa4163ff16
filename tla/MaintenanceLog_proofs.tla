------------------------ MODULE MaintenanceLog_proofs ------------------------
(***************************************************************************)
(* Proofs that the abstract log keeps its notes, for any number of         *)
(* requests, texts, periods and instants.                                  *)
(***************************************************************************)
EXTENDS MaintenanceLog, TLAPS

-----------------------------------------------------------------------------
(* The operators on the document of a device: every write yields a         *)
(* well-formed document, and what each does to the notes.                  *)

(* What arrayUnion yields is an array, keeps the notes there were, and     *)
(* contains the note.                                                      *)
LEMMA ArrayUnionLemma ==
    ASSUME NEW notes, NEW version \in Nat, IsArray(notes, version),
           NEW note \in Note
    PROVE  LET u == ArrayUnion(notes, note, version + 1) IN
             /\ IsArray(u, version + 1)
             /\ DOMAIN notes \subseteq DOMAIN u
             /\ \A s \in DOMAIN notes : u[s] = notes[s]
             /\ \E s \in DOMAIN u : u[s] = note
<1> DEFINE u == ArrayUnion(notes, note, version + 1)
<1>1. CASE \E s \in DOMAIN notes : notes[s] = note
  <2>1. u = notes
    BY <1>1 DEF ArrayUnion
  <2>2. IsArray(notes, version + 1)
    BY DEF IsArray
  <2> QED
    BY <1>1, <2>1, <2>2
<1>2. CASE ~ \E s \in DOMAIN notes : notes[s] = note
  <2>1. u = [s \in DOMAIN notes \cup {version + 1} |->
                IF s = version + 1 THEN note ELSE notes[s]]
    BY <1>2 DEF ArrayUnion
  <2>2. version + 1 \notin DOMAIN notes
    BY DEF IsArray
  <2>3. DOMAIN u = DOMAIN notes \cup {version + 1}
    BY <2>1
  <2>4. DOMAIN u \subseteq 1 .. version + 1
    BY <2>3 DEF IsArray
  <2>5. u \in [DOMAIN u -> Note]
    BY <2>1, <2>3 DEF IsArray
  <2> QED
    BY <2>1, <2>2, <2>3, <2>4, <2>5 DEF IsArray
<1> QED
  BY <1>1, <1>2

(* An edit keeps the slots, and changes notes of its own date only. *)
LEMMA ReplaceCommentLemma ==
    ASSUME NEW notes, NEW version \in Nat, IsArray(notes, version),
           NEW note \in Note
    PROVE  LET u == ReplaceComment(notes, note) IN
             /\ IsArray(u, version)
             /\ DOMAIN u = DOMAIN notes
             /\ \A s \in DOMAIN notes :
                   notes[s].creationDate # note.creationDate => u[s] = notes[s]
<1> DEFINE u == ReplaceComment(notes, note)
<1>1. DOMAIN u = DOMAIN notes
  BY DEF ReplaceComment
<1>2. u \in [DOMAIN u -> Note]
  BY <1>1 DEF ReplaceComment, IsArray
<1>3. \A s \in DOMAIN notes :
         notes[s].creationDate # note.creationDate => u[s] = notes[s]
  BY DEF ReplaceComment, IsFirstIndex
<1> QED
  BY <1>1, <1>2, <1>3 DEF IsArray

(* A deletion removes the notes of the given dates and keeps the others. *)
LEMMA RemoveDatesLemma ==
    ASSUME NEW notes, NEW version \in Nat, IsArray(notes, version),
           NEW dates
    PROVE  LET u == RemoveDates(notes, dates) IN
             /\ IsArray(u, version)
             /\ DOMAIN u = {s \in DOMAIN notes : notes[s].creationDate \notin dates}
             /\ \A s \in DOMAIN u : u[s] = notes[s]
BY DEF RemoveDates, Restrict, IsArray

-----------------------------------------------------------------------------
(* Operations by kind. *)
LEMMA OperationKinds ==
    /\ \A op \in Operation : IsAppending(op) => op \in AppendingOperation
    /\ \A op \in Operation : ~ IsAppending(op) => op \in TransactionOperation
    /\ \A op \in AppendingOperation :
          /\ op.note \in Note
          /\ op.kind = "setDevicePeriod" => op.newPeriod \in Periods
    /\ \A op \in TransactionOperation :
          op.kind = "updateNoteOfDevice" => op.note \in Note
    /\ NoOperation \notin Operation
BY DEF Operation, AppendingOperation, TransactionOperation, IsAppending, AppendingKinds,
       NoOperation

(* Every write turns a document into a document. *)
LEMMA UpdateDataType ==
    ASSUME NEW d, IsDocument(d), NEW op \in AppendingOperation
    PROVE  IsDocument(UpdateData(d, op))
<1> DEFINE u == ArrayUnion(d.notes, op.note, d.version + 1)
<1>1. op.note \in Note /\ (op.kind = "setDevicePeriod" => op.newPeriod \in Periods)
  BY OperationKinds
<1>2. d.version \in Nat /\ IsArray(d.notes, d.version)
  BY DEF IsDocument
<1>3. IsArray(u, d.version + 1)
  BY <1>1, <1>2, ArrayUnionLemma
<1>4. op.note.creationDate \in Dates /\ 0 \in 0 .. MaxHours
  BY <1>1, BoundsAreNumbers DEF Note
<1> QED
  BY <1>1, <1>2, <1>3, <1>4 DEF IsDocument, UpdateData

LEMMA RewrittenNotesType ==
    ASSUME NEW notes, NEW version \in Nat, IsArray(notes, version),
           NEW op \in TransactionOperation
    PROVE  IsArray(RewrittenNotes(notes, op), version)
BY ReplaceCommentLemma, RemoveDatesLemma, OperationKinds DEF RewrittenNotes

LEMMA WriteNotesType ==
    ASSUME NEW d, IsDocument(d), NEW notes, IsArray(notes, d.version)
    PROVE  IsDocument(WriteNotes(d, notes))
BY DEF WriteNotes, IsDocument, IsArray

LEMMA EffectType ==
    ASSUME NEW d, IsDocument(d), NEW op \in Operation
    PROVE  IsDocument(Effect(d, op))
<1>1. d.version \in Nat /\ IsArray(d.notes, d.version)
  BY DEF IsDocument
<1> QED
  BY <1>1, OperationKinds, UpdateDataType, RewrittenNotesType, WriteNotesType DEF Effect

LEMMA InitialDocumentsType ==
    ASSUME NEW d \in InitialDocuments
    PROVE  IsDocument(d)
<1> DEFINE New  == [version : {0}, hasNotes : {FALSE}, notes : [{} -> Note],
                    operationTime : {0}, period : Periods, lastService : {0}]
           Used == [version : {1}, hasNotes : {TRUE},
                    notes : [{1} -> [creationDate : {0}, comment : Comments]],
                    operationTime : {0}, period : Periods, lastService : {0}]
<1>0. d \in New \/ d \in Used
  BY DEF InitialDocuments
<1>1. d = [version |-> d.version, hasNotes |-> d.hasNotes, notes |-> d.notes,
           operationTime |-> d.operationTime, period |-> d.period,
           lastService |-> d.lastService]
  BY <1>0
<1>2. d.version \in {0, 1}
  BY <1>0
<1>3. d.hasNotes \in BOOLEAN
  BY <1>0, Zenon
<1>4. d.operationTime = 0 /\ d.lastService = 0
  BY <1>0
<1>5. d.operationTime \in 0 .. MaxHours /\ d.lastService \in Dates
  BY <1>4, BoundsAreNumbers DEF Dates
<1>6. \/ d.version = 0 /\ d.notes \in [{} -> Note]
      \/ d.version = 1 /\ d.notes \in [{1} -> [creationDate : {0}, comment : Comments]]
  BY <1>0
<1>7. d.period \in Periods
  BY <1>0, Zenon
<1>8. IsArray(d.notes, d.version)
  <2>1. CASE d.version = 0 /\ d.notes \in [{} -> Note]
    BY <2>1 DEF IsArray
  <2>2. CASE d.version = 1 /\ d.notes \in [{1} -> [creationDate : {0}, comment : Comments]]
    <3>1. [creationDate : {0}, comment : Comments] \subseteq Note
      BY BoundsAreNumbers DEF Note, Dates
    <3>2. DOMAIN d.notes = {1} /\ d.notes \in [{1} -> Note]
      BY <2>2, <3>1
    <3>3. DOMAIN d.notes \subseteq 1 .. d.version
      BY <2>2, <3>2
    <3> QED
      BY <3>2, <3>3 DEF IsArray
  <2> QED
    BY <2>1, <2>2, <1>6
<1> QED
  BY <1>1, <1>2, <1>7, <1>3, <1>5, <1>8 DEF IsDocument

-----------------------------------------------------------------------------
(* How one effect acts on the notes: an append keeps every note and adds   *)
(* its own; a transaction keeps every note whose date it does not name.    *)
LEMMA EffectOnNotes ==
    ASSUME NEW d, IsDocument(d), NEW op \in Operation
    PROVE  LET e == Effect(d, op) IN
             /\ \A s \in DOMAIN d.notes :
                   \/ s \in DOMAIN e.notes /\ e.notes[s] = d.notes[s]
                   \/ Names(op, d.notes[s].creationDate)
             /\ IsAppending(op) => \E s \in DOMAIN e.notes : e.notes[s] = op.note
<1> DEFINE e == Effect(d, op)
<1>1. d.version \in Nat /\ IsArray(d.notes, d.version)
  BY DEF IsDocument
<1>2. CASE IsAppending(op)
  <2>1. e.notes = ArrayUnion(d.notes, op.note, d.version + 1)
    BY <1>2 DEF Effect, UpdateData
  <2>2. op.note \in Note
    BY <1>2, OperationKinds
  <2> QED
    BY <1>1, <2>1, <2>2, ArrayUnionLemma
<1>3. CASE ~ IsAppending(op)
  <2>1. e.notes = RewrittenNotes(d.notes, op)
    BY <1>3 DEF Effect, WriteNotes
  <2>2. CASE op.kind = "updateNoteOfDevice"
    <3>1. op.note \in Note
      BY <1>3, <2>2, OperationKinds
    <3>2. e.notes = ReplaceComment(d.notes, op.note)
      BY <2>1, <2>2 DEF RewrittenNotes
    <3> QED
      BY <1>1, <1>3, <2>2, <3>1, <3>2, ReplaceCommentLemma DEF Names
  <2>3. CASE op.kind = "deleteNotesOfDevice"
    <3>1. e.notes = RemoveDates(d.notes, op.creationDates)
      BY <2>1, <2>3 DEF RewrittenNotes
    <3> DEFINE u == RemoveDates(d.notes, op.creationDates)
    <3>2. /\ DOMAIN u = {s \in DOMAIN d.notes : d.notes[s].creationDate \notin op.creationDates}
          /\ \A s \in DOMAIN u : u[s] = d.notes[s]
      BY DEF RemoveDates, Restrict
    <3> HIDE DEF u
    <3>3. \A s \in DOMAIN d.notes :
             d.notes[s].creationDate \notin op.creationDates =>
                 s \in DOMAIN e.notes /\ e.notes[s] = d.notes[s]
      BY <3>1, <3>2 DEF u
    <3> QED
      BY <1>3, <2>3, <3>3 DEF Names
  <2> QED
    BY <1>3, <2>2, <2>3, OperationKinds DEF TransactionOperation
<1> QED
  BY <1>2, <1>3

(* Only an edit can make two notes equal. *)
Distinct(notes) == \A s, t \in DOMAIN notes : s # t => notes[s] # notes[t]

LEMMA EffectKeepsDistinct ==
    ASSUME NEW d, Distinct(d.notes), NEW op \in Operation,
           op.kind # "updateNoteOfDevice"
    PROVE  Distinct(Effect(d, op).notes)
<1>1. CASE IsAppending(op)
  <2>1. Effect(d, op).notes = ArrayUnion(d.notes, op.note, d.version + 1)
    BY <1>1 DEF Effect, UpdateData
  <2>2. CASE \E s \in DOMAIN d.notes : d.notes[s] = op.note
    BY <2>1, <2>2 DEF ArrayUnion
  <2>3. CASE ~ \E s \in DOMAIN d.notes : d.notes[s] = op.note
    <3>1. Effect(d, op).notes = [s \in DOMAIN d.notes \cup {d.version + 1} |->
                                    IF s = d.version + 1 THEN op.note ELSE d.notes[s]]
      BY <2>1, <2>3 DEF ArrayUnion
    <3> QED
      BY <2>3, <3>1 DEF Distinct
  <2> QED
    BY <2>2, <2>3
<1>2. CASE ~ IsAppending(op)
  <2>1. Effect(d, op).notes = RemoveDates(d.notes, op.creationDates)
    BY <1>2 DEF Effect, WriteNotes, RewrittenNotes
  <2> QED
    BY <2>1 DEF RemoveDates, Restrict, Distinct
<1> QED
  BY <1>1, <1>2

-----------------------------------------------------------------------------
(* The document, the requests and the answers always have their types:     *)
(* every array that an operation writes is well-formed.                    *)
THEOREM LogTypeOK == Spec => []TypeOK
<1>1. Init => TypeOK
  BY InitialDocumentsType DEF Init, TypeOK
<1>2. TypeOK /\ [Next]_vars => TypeOK'
  <2> SUFFICES ASSUME TypeOK, [Next]_vars PROVE TypeOK'
    OBVIOUS
  <2>1. ASSUME NEW r \in Requests, NEW op \in Operation, Ask(r, op) PROVE TypeOK'
    BY <2>1, OperationKinds DEF Ask, TypeOK
  <2>2. ASSUME NEW r \in Requests, Apply(r) PROVE TypeOK'
    <3>1. asked[r] \in Operation
      BY <2>2 DEF Apply, TypeOK
    <3>2. IsDocument(doc')
      BY <2>2, <3>1, EffectType DEF Apply, TypeOK
    <3> QED
      BY <2>2, <3>2 DEF Apply, TypeOK
  <2>3. ASSUME NEW r \in Requests, Confirm(r) PROVE TypeOK'
    BY <2>3 DEF Confirm, TypeOK
  <2>4. ASSUME NEW r \in Requests, Refuse(r) PROVE TypeOK'
    BY <2>4 DEF Refuse, TypeOK
  <2>5. CASE Report
    <3>1. IsDocument(doc')
      BY <2>5, BoundsAreNumbers DEF Report, Reported, TypeOK, IsDocument, IsArray
    <3> QED
      BY <2>5, <3>1 DEF Report, TypeOK
  <2>6. CASE UNCHANGED vars
    BY <2>6 DEF vars, TypeOK
  <2> QED
    BY <2>1, <2>2, <2>3, <2>4, <2>5, <2>6 DEF Next
<1> QED
  BY <1>1, <1>2, PTL DEF Spec

(* No note is lost before somebody asks to edit or delete one of its date: *)
(* for every number of requests, however they overlap                      *)
(* (DataCenter.swift:87, :112, :135 against :186 and :225).                *)
THEOREM LogKeepsNotes == Spec => []NotesAreKept
<1>1. Init => NotesAreKept
  BY DEF Init, NotesAreKept
<1>2. TypeOK /\ NotesAreKept /\ [Next]_vars => NotesAreKept'
  <2> SUFFICES ASSUME TypeOK, NotesAreKept, [Next]_vars PROVE NotesAreKept'
    OBVIOUS
  <2>1. ASSUME NEW r \in Requests, NEW op \in Operation, Ask(r, op) PROVE NotesAreKept'
    <3>1. \A q \in applied : q \in Requests /\ q # r
      BY <2>1 DEF Ask, TypeOK
    <3>2. \A q \in applied : asked'[q] = asked[q]
      BY <2>1, <3>1 DEF Ask, TypeOK
    <3> QED
      BY <2>1, <3>2 DEF Ask, NotesAreKept
  <2>2. ASSUME NEW r \in Requests, Apply(r) PROVE NotesAreKept'
    <3>1. asked[r] \in Operation /\ doc' = Effect(doc, asked[r]) /\ asked' = asked
          /\ applied' = applied \cup {r}
      BY <2>2 DEF Apply, TypeOK
    <3>2. /\ \A s \in DOMAIN doc.notes :
                \/ s \in DOMAIN doc'.notes /\ doc'.notes[s] = doc.notes[s]
                \/ Names(asked[r], doc.notes[s].creationDate)
          /\ IsAppending(asked[r]) => \E s \in DOMAIN doc'.notes : doc'.notes[s] = asked[r].note
      BY <3>1, EffectOnNotes DEF TypeOK
    <3>3. SUFFICES ASSUME NEW q \in applied', IsAppending(asked[q])
                   PROVE  \/ \E s \in DOMAIN doc'.notes : doc'.notes[s] = asked[q].note
                          \/ \E p \in applied' : Names(asked[p], asked[q].note.creationDate)
      BY <3>1 DEF NotesAreKept
    <3>4. CASE q = r
      BY <3>2, <3>3, <3>4
    <3>5. CASE q \in applied
      <4>1. CASE \E p \in applied : Names(asked[p], asked[q].note.creationDate)
        BY <3>1, <4>1
      <4>2. CASE \E s \in DOMAIN doc.notes : doc.notes[s] = asked[q].note
        BY <3>1, <3>2, <4>2
      <4> QED
        BY <3>3, <3>5, <4>1, <4>2 DEF NotesAreKept
    <3> QED
      BY <3>1, <3>3, <3>4, <3>5
  <2>3. ASSUME NEW r \in Requests, Confirm(r) PROVE NotesAreKept'
    BY <2>3 DEF Confirm, NotesAreKept
  <2>4. ASSUME NEW r \in Requests, Refuse(r) PROVE NotesAreKept'
    BY <2>4 DEF Refuse, NotesAreKept
  <2>5. CASE Report
    BY <2>5 DEF Report, Reported, NotesAreKept
  <2>6. CASE UNCHANGED vars
    BY <2>6 DEF vars, NotesAreKept
  <2> QED
    BY <2>1, <2>2, <2>3, <2>4, <2>5, <2>6 DEF Next
<1> QED
  BY <1>1, <1>2, LogTypeOK, PTL DEF Spec
(* The time of the last service has its entry in the log until somebody    *)
(* asks to edit or delete an entry of that date (DataCenter.swift:84-88).  *)
THEOREM LogKeepsServices == Spec => []ServicesAreLogged
<1> DEFINE Logged(r) ==
        /\ asked[r].kind = "serviceDevice"
        /\ asked[r].note.creationDate = doc.lastService
        /\ \/ \E s \in DOMAIN doc.notes : doc.notes[s] = asked[r].note
           \/ \E q \in applied : Names(asked[q], doc.lastService)
<1>1. Init => ServicesAreLogged
  BY DEF Init, InitialDocuments, ServicesAreLogged
<1>2. TypeOK /\ ServicesAreLogged /\ [Next]_vars => ServicesAreLogged'
  <2> SUFFICES ASSUME TypeOK, ServicesAreLogged, [Next]_vars PROVE ServicesAreLogged'
    OBVIOUS
  <2>1. ASSUME NEW r \in Requests, NEW op \in Operation, Ask(r, op)
        PROVE  ServicesAreLogged'
    <3>1. \A q \in applied : q \in Requests /\ q # r
      BY <2>1 DEF Ask, TypeOK
    <3>2. \A q \in applied : asked'[q] = asked[q]
      BY <2>1, <3>1 DEF Ask, TypeOK
    <3> QED
      BY <2>1, <3>2 DEF Ask, ServicesAreLogged
  <2>2. ASSUME NEW r \in Requests, Apply(r) PROVE ServicesAreLogged'
    <3>1. /\ asked[r] \in Operation /\ doc' = Effect(doc, asked[r])
          /\ asked' = asked /\ applied' = applied \cup {r}
      BY <2>2 DEF Apply, TypeOK
    <3>2. /\ \A s \in DOMAIN doc.notes :
                \/ s \in DOMAIN doc'.notes /\ doc'.notes[s] = doc.notes[s]
                \/ Names(asked[r], doc.notes[s].creationDate)
          /\ IsAppending(asked[r]) => \E s \in DOMAIN doc'.notes : doc'.notes[s] = asked[r].note
      BY <3>1, EffectOnNotes DEF TypeOK
    <3>3. CASE asked[r].kind = "serviceDevice"
      <4>1. IsAppending(asked[r])
        BY <3>3 DEF IsAppending, AppendingKinds
      <4>2. doc'.lastService = asked[r].note.creationDate
        BY <3>1, <3>3, <4>1 DEF Effect, UpdateData
      <4> QED
        BY <3>1, <3>2, <3>3, <4>1, <4>2 DEF ServicesAreLogged
    <3>4. CASE asked[r].kind # "serviceDevice"
      <4>1. doc'.lastService = doc.lastService
        BY <3>1, <3>4 DEF Effect, UpdateData, WriteNotes
      <4>2. SUFFICES ASSUME doc.lastService # 0 PROVE ServicesAreLogged'
        BY <4>1 DEF ServicesAreLogged
      <4>3. PICK p \in applied : Logged(p)
        BY <4>2 DEF ServicesAreLogged
      <4>4. \/ \E s \in DOMAIN doc'.notes : doc'.notes[s] = asked[p].note
            \/ \E q \in applied' : Names(asked[q], doc.lastService)
        BY <3>1, <3>2, <4>3
      <4> QED
        BY <3>1, <4>1, <4>3, <4>4 DEF ServicesAreLogged
    <3> QED
      BY <3>3, <3>4
  <2>3. ASSUME NEW r \in Requests, Confirm(r) PROVE ServicesAreLogged'
    BY <2>3 DEF Confirm, ServicesAreLogged
  <2>4. ASSUME NEW r \in Requests, Refuse(r) PROVE ServicesAreLogged'
    BY <2>4 DEF Refuse, ServicesAreLogged
  <2>5. CASE Report
    BY <2>5 DEF Report, Reported, ServicesAreLogged
  <2>6. CASE UNCHANGED vars
    BY <2>6 DEF vars, ServicesAreLogged
  <2> QED
    BY <2>1, <2>2, <2>3, <2>4, <2>5, <2>6 DEF Next
<1> QED
  BY <1>1, <1>2, LogTypeOK, PTL DEF Spec

(* No event is logged twice, however often a write is sent again.          *)
THEOREM LogHasNoDoubles == Spec => []NoDoubleEntries
<1> DEFINE Edited == \E q \in applied : asked[q].kind = "updateNoteOfDevice"
           Inv    == Edited \/ Distinct(doc.notes)
<1>1. Init => Inv
  BY DEF Init, InitialDocuments, Distinct
<1>2. TypeOK /\ Inv /\ [Next]_vars => Inv'
  <2> SUFFICES ASSUME TypeOK, Inv, [Next]_vars PROVE Inv'
    OBVIOUS
  <2>1. ASSUME NEW r \in Requests, NEW op \in Operation, Ask(r, op) PROVE Inv'
    <3>1. \A q \in applied : q \in Requests /\ q # r
      BY <2>1 DEF Ask, TypeOK
    <3>2. \A q \in applied : asked'[q] = asked[q]
      BY <2>1, <3>1 DEF Ask, TypeOK
    <3> QED
      BY <2>1, <3>2 DEF Ask
  <2>2. ASSUME NEW r \in Requests, Apply(r) PROVE Inv'
    <3>1. /\ asked[r] \in Operation /\ doc' = Effect(doc, asked[r])
          /\ asked' = asked /\ applied' = applied \cup {r}
      BY <2>2 DEF Apply, TypeOK
    <3>2. CASE Edited \/ asked[r].kind = "updateNoteOfDevice"
      BY <3>1, <3>2
    <3>3. CASE ~ Edited /\ asked[r].kind # "updateNoteOfDevice"
      BY <3>1, <3>3, EffectKeepsDistinct
    <3> QED
      BY <3>2, <3>3
  <2>3. ASSUME NEW r \in Requests, Confirm(r) PROVE Inv'
    BY <2>3 DEF Confirm
  <2>4. ASSUME NEW r \in Requests, Refuse(r) PROVE Inv'
    BY <2>4 DEF Refuse
  <2>5. CASE Report
    BY <2>5 DEF Report, Reported
  <2>6. CASE UNCHANGED vars
    BY <2>6 DEF vars
  <2> QED
    BY <2>1, <2>2, <2>3, <2>4, <2>5, <2>6 DEF Next
<1>3. Inv => NoDoubleEntries
  BY DEF Distinct, NoDoubleEntries
<1> QED
  BY <1>1, <1>2, <1>3, LogTypeOK, PTL DEF Spec
=============================================================================
