------------------------- MODULE NotesScreen_proofs -------------------------
(***************************************************************************)
(* The notes screen, for any number of calls, notes and faults: no note    *)
(* vanishes or stays as a phantom, what it says is what the cloud says,    *)
(* editing can be ended, the back button abandons nothing, and the table   *)
(* shows the list.                                                         *)
(***************************************************************************)
EXTENDS NotesScreen, SequenceTheorems, TLAPS

LogProofs == INSTANCE MaintenanceLog_proofs

-----------------------------------------------------------------------------
(* The operators on a document, as they are proved about with the log.     *)

LEMMA OperationKinds ==
    /\ \A o \in Operation : IsAppending(o) => o \in AppendingOperation
    /\ \A o \in Operation : ~ IsAppending(o) => o \in TransactionOperation
    /\ \A o \in AppendingOperation :
          /\ o.note \in Note
          /\ o.kind = "setDevicePeriod" => o.newPeriod \in Periods
    /\ \A o \in TransactionOperation :
          o.kind = "updateNoteOfDevice" => o.note \in Note
    /\ NoOperation \notin Operation
  BY DEF Operation, AppendingOperation, TransactionOperation, IsAppending, AppendingKinds,
         NoOperation

(* A deletion removes the notes of the given dates and keeps the others. *)
LEMMA RemoveDatesLemma ==
    ASSUME NEW array, NEW version \in Nat, IsArray(array, version),
           NEW dates
    PROVE  LET u == RemoveDates(array, dates) IN
             /\ IsArray(u, version)
             /\ DOMAIN u = {s \in DOMAIN array : array[s].creationDate \notin dates}
             /\ \A s \in DOMAIN u : u[s] = array[s]
  BY DEF RemoveDates, Restrict, IsArray

LEMMA WriteNotesType ==
    ASSUME NEW d, IsDocument(d), NEW array, IsArray(array, d.version)
    PROVE  IsDocument(WriteNotes(d, array))
  BY DEF WriteNotes, IsDocument, IsArray

LEMMA EffectType ==
    ASSUME NEW d, IsDocument(d), NEW o \in Operation
    PROVE  IsDocument(Effect(d, o))
  BY LogProofs!EffectType, BoundsAreNumbers DEF Operation, AppendingOperation,
     TransactionOperation, Note, Dates, IsAppending, AppendingKinds, Effect, UpdateData,
     ArrayUnion, WriteNotes, RewrittenNotes, ReplaceComment, IsFirstIndex, RemoveDates,
     IsDocument, IsArray, LogProofs!Operation, LogProofs!AppendingOperation,
     LogProofs!TransactionOperation, LogProofs!Note, LogProofs!Dates,
     LogProofs!IsAppending, LogProofs!AppendingKinds, LogProofs!Effect,
     LogProofs!UpdateData, LogProofs!ArrayUnion, LogProofs!WriteNotes,
     LogProofs!RewrittenNotes, LogProofs!ReplaceComment, LogProofs!IsFirstIndex,
     LogProofs!RemoveDates, LogProofs!IsDocument, LogProofs!IsArray, Restrict,
     LogProofs!Restrict

-----------------------------------------------------------------------------
(* The lists.                                                              *)

LEMMA AppendedElements ==
    ASSUME NEW S, NEW q \in Seq(S), NEW e \in S
    PROVE  /\ Append(q, e) \in Seq(S) /\ Len(Append(q, e)) = Len(q) + 1 /\ Len(q) \in Nat
           /\ DOMAIN q = 1 .. Len(q) /\ DOMAIN Append(q, e) = 1 .. Len(q) + 1
           /\ \A i \in 1 .. Len(q) : Append(q, e)[i] = q[i]
           /\ Append(q, e)[Len(q) + 1] = e
  OBVIOUS

LEMMA TailElements ==
    ASSUME NEW S, NEW q \in Seq(S), q # << >>
    PROVE  /\ Head(q) \in S /\ Tail(q) \in Seq(S) /\ Len(q) \in Nat \ {0}
           /\ Head(q) = q[1] /\ 1 \in DOMAIN q
           /\ DOMAIN q = 1 .. Len(q) /\ DOMAIN Tail(q) = 1 .. Len(q) - 1
           /\ \A i \in 1 .. Len(q) - 1 : Tail(q)[i] = q[i + 1]
           /\ \A i \in 2 .. Len(q) : q[i] = Tail(q)[i - 1]
  OBVIOUS

LEMMA ConcatElements ==
    ASSUME NEW S, NEW a \in Seq(S), NEW b \in Seq(S)
    PROVE  /\ a \o b \in Seq(S) /\ Len(a) \in Nat /\ Len(b) \in Nat
           /\ DOMAIN a = 1 .. Len(a) /\ DOMAIN b = 1 .. Len(b)
           /\ DOMAIN (a \o b) = 1 .. Len(a) + Len(b)
           /\ \A i \in DOMAIN a : i \in DOMAIN (a \o b) /\ (a \o b)[i] = a[i]
           /\ \A i \in DOMAIN b : Len(a) + i \in DOMAIN (a \o b) /\ (a \o b)[Len(a) + i] = b[i]
           /\ \A i \in DOMAIN (a \o b) : \/ i \in DOMAIN a
                                         \/ i - Len(a) \in DOMAIN b /\ Len(a) + (i - Len(a)) = i
  OBVIOUS

(* Without the element at a place *)
LEMMA RemoveAtElements ==
    ASSUME NEW S, NEW q \in Seq(S), NEW i \in DOMAIN q
    PROVE  /\ RemoveAt(q, i) \in Seq(S) /\ Len(q) \in Nat /\ DOMAIN q = 1 .. Len(q)
           /\ Len(RemoveAt(q, i)) = Len(q) - 1
           /\ \A j \in 1 .. Len(q) - 1 :
                 RemoveAt(q, i)[j] = IF j < i THEN q[j] ELSE q[j + 1]
<1> DEFINE n == Len(q)
           a == SubSeq(q, 1, i - 1)
           b == SubSeq(q, i + 1, n)
<1>1. n \in Nat /\ i \in 1 .. n /\ DOMAIN q = 1 .. n /\ \A j \in 1 .. n : q[j] \in S
  OBVIOUS
<1>2. /\ a \in Seq(S) /\ Len(a) = i - 1
      /\ \A j \in 1 .. i - 1 : a[j] = q[j]
  <2>1. \A j \in 1 .. i - 1 : q[j] \in S
    BY <1>1
  <2>2. /\ SubSeq(q, 1, i - 1) \in Seq(S)
        /\ Len(SubSeq(q, 1, i - 1)) = IF 1 <= i - 1 THEN (i - 1) - 1 + 1 ELSE 0
        /\ \A j \in 1 .. (i - 1) - 1 + 1 : SubSeq(q, 1, i - 1)[j] = q[1 + j - 1]
    BY <1>1, <2>1, SubSeqProperties
  <2> HIDE DEF a
  <2>3. /\ a \in Seq(S) /\ Len(a) = IF 1 <= i - 1 THEN (i - 1) - 1 + 1 ELSE 0
        /\ \A j \in 1 .. (i - 1) - 1 + 1 : a[j] = q[1 + j - 1]
    BY <2>2 DEF a
  <2>4. /\ (IF 1 <= i - 1 THEN (i - 1) - 1 + 1 ELSE 0) = i - 1
        /\ (i - 1) - 1 + 1 = i - 1
        /\ \A j \in 1 .. i - 1 : 1 + j - 1 = j
    BY <1>1
  <2> QED
    BY <2>3, <2>4
<1>3. /\ b \in Seq(S) /\ Len(b) = n - i
      /\ \A j \in 1 .. n - i : b[j] = q[i + j]
  <2>1. \A j \in i + 1 .. n : q[j] \in S
    BY <1>1
  <2>2. /\ SubSeq(q, i + 1, n) \in Seq(S)
        /\ Len(SubSeq(q, i + 1, n)) = IF i + 1 <= n THEN n - (i + 1) + 1 ELSE 0
        /\ \A j \in 1 .. n - (i + 1) + 1 : SubSeq(q, i + 1, n)[j] = q[(i + 1) + j - 1]
    BY <1>1, <2>1, SubSeqProperties
  <2> HIDE DEF b
  <2>3. /\ b \in Seq(S) /\ Len(b) = IF i + 1 <= n THEN n - (i + 1) + 1 ELSE 0
        /\ \A j \in 1 .. n - (i + 1) + 1 : b[j] = q[(i + 1) + j - 1]
    BY <2>2 DEF b
  <2>4. /\ (IF i + 1 <= n THEN n - (i + 1) + 1 ELSE 0) = n - i
        /\ n - (i + 1) + 1 = n - i
        /\ \A j \in 1 .. n - i : (i + 1) + j - 1 = i + j
    BY <1>1, n \in Nat
  <2> QED
    BY <2>3, <2>4
<1> HIDE DEF a, b, n
<1>4. /\ a \o b \in Seq(S) /\ Len(a \o b) = Len(a) + Len(b)
      /\ \A j \in 1 .. Len(a) + Len(b) :
            (a \o b)[j] = IF j <= Len(a) THEN a[j] ELSE b[j - Len(a)]
  BY <1>2, <1>3, ConcatProperties
<1> DEFINE c == a \o b
<1>5. c = RemoveAt(q, i)
  BY DEF RemoveAt, a, b, n
<1> HIDE DEF c
<1>6. /\ c \in Seq(S) /\ Len(c) = n - 1
      /\ \A j \in 1 .. n - 1 : c[j] = IF j < i THEN q[j] ELSE q[j + 1]
  <2>1. c \in Seq(S) /\ Len(c) = n - 1
    BY <1>1, <1>2, <1>3, <1>4 DEF c
  <2>2. \A j \in 1 .. n - 1 : c[j] = IF j <= i - 1 THEN a[j] ELSE b[j - (i - 1)]
    BY <1>1, <1>2, <1>3, <1>4 DEF c
  <2>3. ASSUME NEW j \in 1 .. n - 1
        PROVE  c[j] = IF j < i THEN q[j] ELSE q[j + 1]
    <3>1. CASE j < i
      <4>1. j \in 1 .. i - 1 /\ j <= i - 1
        BY <1>1, <3>1
      <4> QED
        BY <1>2, <2>2, <3>1, <4>1
    <3>2. CASE ~ j < i
      <4>1. j - (i - 1) \in 1 .. n - i /\ ~ j <= i - 1 /\ i + (j - (i - 1)) = j + 1
        BY <1>1, <3>2
      <4> QED
        BY <1>3, <2>2, <3>2, <4>1
    <3> QED
      BY <3>1, <3>2
  <2> QED
    BY <2>1, <2>3
<1> QED
  BY <1>1, <1>5, <1>6 DEF n

(* A list in another order *)
LEMMA SortingElements ==
    ASSUME NEW S, NEW list \in Seq(S), NEW q \in Sortings(list)
    PROVE  /\ q \in Seq(S) /\ Len(q) = Len(list)
           /\ \E p \in Bijection(DOMAIN list, DOMAIN list) :
                 q = [i \in DOMAIN list |-> list[p[i]]]
<1>1. PICK p \in Bijection(DOMAIN list, DOMAIN list) : q = [i \in DOMAIN list |-> list[p[i]]]
  BY DEF Sortings
<1>2. p \in [DOMAIN list -> DOMAIN list]
  BY <1>1 DEF Bijection, Injection
<1>3. DOMAIN list = 1 .. Len(list) /\ Len(list) \in Nat
  OBVIOUS
<1>4. q \in [1 .. Len(list) -> S]
  BY <1>1, <1>2, <1>3
<1> QED
  BY <1>1, <1>3, <1>4

(* The dates of a list that has grown, been sorted or lost a note *)
LEMMA DatesOfConcat ==
    ASSUME NEW S, NEW a \in Seq(S), NEW b \in Seq(S)
    PROVE  DatesOf(a \o b) = DatesOf(a) \cup DatesOf(b)
<1> DEFINE c == a \o b
<1>1. /\ \A i \in DOMAIN a : i \in DOMAIN c /\ c[i] = a[i]
      /\ \A i \in DOMAIN b : Len(a) + i \in DOMAIN c /\ c[Len(a) + i] = b[i]
      /\ \A i \in DOMAIN c : \/ i \in DOMAIN a
                             \/ i - Len(a) \in DOMAIN b /\ Len(a) + (i - Len(a)) = i
  BY ConcatElements
<1> HIDE DEF c
<1>2. DatesOf(c) \subseteq DatesOf(a) \cup DatesOf(b)
  <2> SUFFICES ASSUME NEW i \in DOMAIN c
               PROVE  c[i].creationDate \in DatesOf(a) \cup DatesOf(b)
    BY DEF DatesOf
  <2>1. CASE i \in DOMAIN a
    BY <1>1, <2>1 DEF DatesOf
  <2>2. CASE i - Len(a) \in DOMAIN b /\ Len(a) + (i - Len(a)) = i
    <3>1. c[i] = b[i - Len(a)]
      BY <1>1, <2>2
    <3> QED
      BY <2>2, <3>1 DEF DatesOf
  <2> QED
    BY <1>1, <2>1, <2>2
<1>3. DatesOf(a) \cup DatesOf(b) \subseteq DatesOf(c)
  BY <1>1 DEF DatesOf
<1> QED
  BY <1>2, <1>3 DEF c

LEMMA DatesOfSorting ==
    ASSUME NEW S, NEW list \in Seq(S), NEW q \in Sortings(list)
    PROVE  DatesOf(q) = DatesOf(list)
<1>1. PICK p \in Bijection(DOMAIN list, DOMAIN list) : q = [i \in DOMAIN list |-> list[p[i]]]
  BY SortingElements
<1>2. /\ p \in [DOMAIN list -> DOMAIN list]
      /\ \A j \in DOMAIN list : \E i \in DOMAIN list : p[i] = j
  BY <1>1 DEF Bijection, Injection, Surjection
<1> QED
  BY <1>1, <1>2 DEF DatesOf

LEMMA DatesOfRemoval ==
    ASSUME NEW S, NEW q \in Seq(S), NEW i \in DOMAIN q
    PROVE  DatesOf(q) = DatesOf(RemoveAt(q, i)) \cup {q[i].creationDate}
<1> DEFINE t == RemoveAt(q, i)
<1>1. /\ DOMAIN q = 1 .. Len(q) /\ Len(q) \in Nat
      /\ DOMAIN t = 1 .. Len(q) - 1
      /\ \A j \in 1 .. Len(q) - 1 : t[j] = IF j < i THEN q[j] ELSE q[j + 1]
  BY RemoveAtElements
<1> HIDE DEF t
<1>2. \A j \in DOMAIN t : \E k \in DOMAIN q : t[j] = q[k]
  BY <1>1
<1>3. ASSUME NEW k \in DOMAIN q, k # i
      PROVE  \E j \in DOMAIN t : t[j] = q[k]
  <2>1. CASE k < i
    <3>1. k \in DOMAIN t /\ t[k] = q[k]
      BY <1>1, <2>1
    <3> QED
      BY <3>1
  <2>2. CASE k > i
    <3>1. k - 1 \in DOMAIN t /\ t[k - 1] = q[k]
      BY <1>1, <2>2
    <3> QED
      BY <3>1
  <2> QED
    BY <1>1, <1>3, <2>1, <2>2
<1> QED
  BY <1>2, <1>3 DEF DatesOf, t

(* An edit keeps the dates, of an array as of a list; a removal takes its  *)
(* dates and an append adds one.                                           *)
LEMMA DatesOfEdit ==
    ASSUME NEW list, NEW note
    PROVE  DatesOf(ReplaceComment(list, note)) = DatesOf(list)
<1>1. \A s \in DOMAIN list :
         ReplaceComment(list, note)[s].creationDate = list[s].creationDate
  BY DEF ReplaceComment, IsFirstIndex
<1>2. DOMAIN ReplaceComment(list, note) = DOMAIN list
  BY DEF ReplaceComment
<1> QED
  BY <1>1, <1>2 DEF DatesOf

LEMMA DatesOfRemovedDates ==
    ASSUME NEW array, NEW dates
    PROVE  DatesOf(RemoveDates(array, dates)) = DatesOf(array) \ dates
<1>1. /\ DOMAIN RemoveDates(array, dates) = {s \in DOMAIN array : array[s].creationDate \notin dates}
      /\ \A s \in DOMAIN array : array[s].creationDate \notin dates =>
            RemoveDates(array, dates)[s] = array[s]
  BY DEF RemoveDates, Restrict
<1> QED
  BY <1>1 DEF DatesOf

LEMMA DatesOfUnion ==
    ASSUME NEW version \in Nat, NEW array, IsArray(array, version), NEW note
    PROVE  DatesOf(ArrayUnion(array, note, version + 1)) = DatesOf(array) \cup {note.creationDate}
<1> DEFINE slot == version + 1
           u == ArrayUnion(array, note, slot)
<1>1. CASE \E s \in DOMAIN array : array[s] = note
  BY <1>1 DEF ArrayUnion, DatesOf
<1>2. CASE ~ \E s \in DOMAIN array : array[s] = note
  <2>1. u = [s \in DOMAIN array \cup {slot} |-> IF s = slot THEN note ELSE array[s]]
    BY <1>2 DEF ArrayUnion
  <2>2. slot \notin DOMAIN array
    BY DEF IsArray
  <2> HIDE DEF slot, u
  <2>3. /\ DOMAIN u = DOMAIN array \cup {slot} /\ u[slot] = note
        /\ \A s \in DOMAIN array : u[s] = array[s]
    BY <2>1, <2>2
  <2>4. DatesOf(u) = DatesOf(array) \cup {note.creationDate}
    BY <2>3 DEF DatesOf
  <2> QED
    BY <2>4 DEF u, slot
<1> QED
  BY <1>1, <1>2

(* What an operation does to the dates of the array *)
LEMMA DatesOfEffect ==
    ASSUME NEW d, IsDocument(d), NEW op \in Operation
    PROVE  /\ IsAppending(op) =>
                 DatesOf(Effect(d, op).notes) = DatesOf(d.notes) \cup {op.note.creationDate}
           /\ op.kind = "updateNoteOfDevice" => DatesOf(Effect(d, op).notes) = DatesOf(d.notes)
           /\ op.kind = "deleteNotesOfDevice" =>
                 DatesOf(Effect(d, op).notes) = DatesOf(d.notes) \ op.creationDates
<1>1. d.version \in Nat /\ IsArray(d.notes, d.version)
  BY DEF IsDocument
<1>2. IsAppending(op) => Effect(d, op).notes = ArrayUnion(d.notes, op.note, d.version + 1)
  BY DEF Effect, UpdateData
<1>3. op.kind = "updateNoteOfDevice" => Effect(d, op).notes = ReplaceComment(d.notes, op.note)
  BY DEF Effect, WriteNotes, RewrittenNotes, IsAppending, AppendingKinds
<1>4. op.kind = "deleteNotesOfDevice" => Effect(d, op).notes = RemoveDates(d.notes, op.creationDates)
  BY DEF Effect, WriteNotes, RewrittenNotes, IsAppending, AppendingKinds
<1> QED
  BY <1>1, <1>2, <1>3, <1>4, DatesOfUnion, DatesOfEdit, DatesOfRemovedDates

(* The comment of one note of a list is replaced. *)
LEMMA EditedList ==
    ASSUME NEW list \in Seq(Note), NEW note \in Note
    PROVE  ReplaceComment(list, note) \in Seq(Note) /\ Len(ReplaceComment(list, note)) = Len(list)
<1>1. ReplaceComment(list, note) \in [1 .. Len(list) -> Note] /\ Len(list) \in Nat
  BY DEF ReplaceComment
<1> QED
  BY <1>1

-----------------------------------------------------------------------------
(* The log is made of the operators of this module.                        *)

LEMMA LogOperators ==
    /\ Log!NoOperation = NoOperation
    /\ Log!Operation = Operation
    /\ \A d : Log!IsDocument(d) <=> IsDocument(d)
    /\ \A d, op : Log!Applicable(d, op) <=> Applicable(d, op)
    /\ \A d, op : Log!Effect(d, op) = Effect(d, op)
<1>1. Log!NoOperation = NoOperation
  BY DEF Log!NoOperation, NoOperation
<1>2. Log!Note = Note
  BY DEF Log!Note, Note, Log!Dates, Dates
<1>3. Log!Operation = Operation
  BY <1>2 DEF Log!Operation, Operation, Log!AppendingOperation, AppendingOperation,
              Log!TransactionOperation, TransactionOperation, Log!Dates, Dates
<1>4. \A array, version : Log!IsArray(array, version) <=> IsArray(array, version)
  BY <1>2 DEF Log!IsArray, IsArray
<1>5. \A d : Log!IsDocument(d) <=> IsDocument(d)
  BY <1>4 DEF Log!IsDocument, IsDocument, Log!Dates, Dates
<1>6. \A op : Log!IsAppending(op) <=> IsAppending(op)
  BY DEF Log!IsAppending, IsAppending, Log!AppendingKinds, AppendingKinds
<1>7. \A d, op : Log!Applicable(d, op) <=> Applicable(d, op)
  BY <1>6 DEF Log!Applicable, Applicable, Log!BlockSucceeds, BlockSucceeds
<1>8. \A array, note, slot : Log!ArrayUnion(array, note, slot) = ArrayUnion(array, note, slot)
  BY DEF Log!ArrayUnion, ArrayUnion
<1>9. \A d, op : Log!UpdateData(d, op) = UpdateData(d, op)
  BY <1>8 DEF Log!UpdateData, UpdateData
<1>10. \A array, note : Log!ReplaceComment(array, note) = ReplaceComment(array, note)
  BY DEF Log!ReplaceComment, ReplaceComment, Log!IsFirstIndex, IsFirstIndex
<1>11. \A array, dates : Log!RemoveDates(array, dates) = RemoveDates(array, dates)
  BY DEF Log!RemoveDates, RemoveDates, Log!Restrict, Restrict
<1>12. \A array, op : Log!RewrittenNotes(array, op) = RewrittenNotes(array, op)
  BY <1>10, <1>11 DEF Log!RewrittenNotes, RewrittenNotes
<1>13. \A d, array : Log!WriteNotes(d, array) = WriteNotes(d, array)
  BY DEF Log!WriteNotes, WriteNotes
<1>14. \A d, op : Log!Effect(d, op) = Effect(d, op)
  BY <1>6, <1>9, <1>12, <1>13 DEF Log!Effect, Effect
<1> QED
  BY <1>1, <1>3, <1>5, <1>7, <1>14

LEMMA LogTypes ==
    Log!TypeOK <=>
        /\ IsDocument(doc)
        /\ asked \in [Requests -> Operation \cup {NoOperation}]
        /\ applied \subseteq {r \in Requests : asked[r] # NoOperation}
        /\ answer \in [Requests -> {"none", "ok", "failed"}]
  BY LogOperators DEF Log!TypeOK

LEMMA LogTypesPrime ==
    Log!TypeOK' <=>
        /\ IsDocument(doc')
        /\ asked' \in [Requests -> Operation \cup {NoOperation}]
        /\ applied' \subseteq {r \in Requests : asked'[r] # NoOperation}
        /\ answer' \in [Requests -> {"none", "ok", "failed"}]
  BY LogOperators DEF Log!TypeOK

LEMMA LogActions ==
    ASSUME NEW r
    PROVE  /\ \A op : Log!Ask(r, op) <=>
                 /\ asked[r] = NoOperation /\ asked' = [asked EXCEPT ![r] = op]
                 /\ UNCHANGED <<doc, applied, answer>>
           /\ Log!Apply(r) <=>
                 /\ asked[r] # NoOperation /\ answer[r] # "ok" /\ Applicable(doc, asked[r])
                 /\ doc' = Effect(doc, asked[r]) /\ applied' = applied \cup {r}
                 /\ UNCHANGED <<asked, answer>>
           /\ Log!Confirm(r) <=>
                 /\ answer[r] = "none" /\ r \in applied /\ answer' = [answer EXCEPT ![r] = "ok"]
                 /\ UNCHANGED <<doc, asked, applied>>
           /\ Log!Refuse(r) <=>
                 /\ answer[r] = "none" /\ asked[r] # NoOperation
                 /\ answer' = [answer EXCEPT ![r] = "failed"]
                 /\ UNCHANGED <<doc, asked, applied>>
<1>1. \A op : Log!Ask(r, op) <=>
         /\ asked[r] = NoOperation /\ asked' = [asked EXCEPT ![r] = op]
         /\ UNCHANGED <<doc, applied, answer>>
  BY LogOperators DEF Log!Ask
<1>2. Log!Apply(r) <=>
         /\ asked[r] # NoOperation /\ answer[r] # "ok" /\ Applicable(doc, asked[r])
         /\ doc' = Effect(doc, asked[r]) /\ applied' = applied \cup {r}
         /\ UNCHANGED <<asked, answer>>
  BY LogOperators DEF Log!Apply
<1>3. Log!Confirm(r) <=>
         /\ answer[r] = "none" /\ r \in applied /\ answer' = [answer EXCEPT ![r] = "ok"]
         /\ UNCHANGED <<doc, asked, applied>>
  BY DEF Log!Confirm
<1>4. Log!Refuse(r) <=>
         /\ answer[r] = "none" /\ asked[r] # NoOperation
         /\ answer' = [answer EXCEPT ![r] = "failed"]
         /\ UNCHANGED <<doc, asked, applied>>
  BY LogOperators DEF Log!Refuse
<1> QED
  BY <1>1, <1>2, <1>3, <1>4

-----------------------------------------------------------------------------
(* Types.                                                                  *)

(* No row shows what the list does not have, and the screen never orders a *)
(* new period.                                                             *)
TypeInv ==
    /\ TypeOK
    /\ Len(rows) <= Len(notes)
    /\ \A r \in Requests : ~ IsCall(r, "setDevicePeriod")

LEMMA TypeFacts ==
    ASSUME TypeInv
    PROVE  /\ IsDocument(doc) /\ Log!TypeOK
           /\ asked \in [Requests -> Operation \cup {NoOperation}]
           /\ answer \in [Requests -> {"none", "ok", "failed"}]
           /\ \A r \in applied : r \in Requests /\ asked[r] \in Operation
           /\ notes \in Seq(Note) /\ rows \in Seq(Note) /\ deletedNotes \in Seq(Note)
           /\ mainQueue \in Seq(Blocks) /\ clock \in Dates
           /\ DOMAIN rows \subseteq DOMAIN notes
           /\ \A r \in Requests : asked[r] # NoOperation => asked[r] \in Operation
           /\ \A r \in Requests : IsAppending(asked[r]) =>
                 asked[r] \in Operation /\ asked[r].note \in Note
           /\ \A r \in Requests : IsCall(r, "updateNoteOfDevice") =>
                 asked[r] \in Operation /\ asked[r].note \in Note
           /\ \A r \in Requests : IsCall(r, "deleteNotesOfDevice") =>
                 asked[r] \in Operation /\ asked[r].creationDates \in SUBSET Dates
<1>1. /\ asked \in [Requests -> Operation \cup {NoOperation}]
      /\ answer \in [Requests -> {"none", "ok", "failed"}]
      /\ applied \subseteq {r \in Requests : asked[r] # NoOperation}
      /\ IsDocument(doc)
  BY LogTypes DEF TypeInv, TypeOK
<1>2. \A r \in Requests : asked[r] # NoOperation => asked[r] \in Operation
  BY <1>1
<1>3. \A r \in Requests : IsAppending(asked[r]) => asked[r] # NoOperation
  BY DEF IsAppending, AppendingKinds, NoOperation
<1>4. \A r \in Requests :
         IsCall(r, "updateNoteOfDevice") \/ IsCall(r, "deleteNotesOfDevice") =>
            asked[r] # NoOperation /\ ~ IsAppending(asked[r])
  BY DEF IsAppending, AppendingKinds, NoOperation, IsCall
<1>5. \A r \in Requests : IsAppending(asked[r]) =>
         asked[r] \in Operation /\ asked[r].note \in Note
  BY <1>2, <1>3, OperationKinds
<1>6. \A r \in Requests :
         IsCall(r, "updateNoteOfDevice") \/ IsCall(r, "deleteNotesOfDevice") =>
            asked[r] \in TransactionOperation
  BY <1>2, <1>4, OperationKinds
<1>7. \A r \in Requests : IsCall(r, "updateNoteOfDevice") => asked[r].note \in Note
  BY <1>6, OperationKinds DEF IsCall
<1>8. \A r \in Requests : IsCall(r, "deleteNotesOfDevice") =>
         asked[r].creationDates \in SUBSET Dates
  <2> SUFFICES ASSUME NEW r \in Requests, IsCall(r, "deleteNotesOfDevice")
               PROVE  asked[r].creationDates \in SUBSET Dates
    OBVIOUS
  <2>1. asked[r] \in [kind : {"deleteNotesOfDevice"}, creationDates : (SUBSET Dates) \ {{}}]
    BY <1>6 DEF TransactionOperation, IsCall
  <2> QED
    BY <2>1
<1>9. /\ notes \in Seq(Note) /\ rows \in Seq(Note) /\ deletedNotes \in Seq(Note)
      /\ mainQueue \in Seq(Blocks) /\ clock \in Dates /\ Len(rows) <= Len(notes)
      /\ Log!TypeOK
  BY DEF TypeInv, TypeOK
<1>10. DOMAIN rows \subseteq DOMAIN notes
  BY <1>9
<1> QED
  BY <1>1, <1>2, <1>4, <1>5, <1>7, <1>8, <1>9, <1>10

LEMMA DatesAreDates ==
    ASSUME NEW list \in Seq(Note)
    PROVE  DatesOf(list) \subseteq Dates /\ (list # << >> => DatesOf(list) # {})
<1>1. \A i \in DOMAIN list : list[i] \in Note
  OBVIOUS
<1>2. DatesOf(list) \subseteq Dates
  BY <1>1 DEF DatesOf, Note
<1>3. list # << >> => 1 \in DOMAIN list
  OBVIOUS
<1> QED
  BY <1>2, <1>3 DEF DatesOf

(* How editing mode ends *)
LEMMA EndEditingCases ==
    ASSUME EndEditing, deletedNotes' \in Seq(Note)
    PROVE  /\ isEditing' = FALSE /\ deleteEnabled' = (notes' # << >>)
           /\ UNCHANGED <<doc, applied, answer, hurried>>
           /\ \/ deleteInProgress /\ UNCHANGED <<asked, deleteInProgress, backHidden>>
              \/ /\ ~ deleteInProgress /\ deletedNotes' = << >> /\ backHidden' = FALSE
                 /\ UNCHANGED <<asked, deleteInProgress>>
              \/ /\ ~ deleteInProgress /\ deletedNotes' # << >> /\ deleteInProgress' = TRUE
                 /\ UNCHANGED backHidden
                 /\ \E r \in Requests, op \in Operation :
                       /\ op.kind = "deleteNotesOfDevice"
                       /\ op.creationDates = DatesOf(deletedNotes')
                       /\ Log!Ask(r, op)
<1>1. /\ isEditing' = FALSE /\ deleteEnabled' = (notes' # << >>)
      /\ UNCHANGED <<doc, applied, answer, hurried>>
  BY DEF EndEditing
<1>2. CASE deleteInProgress
  BY <1>1, <1>2 DEF EndEditing
<1>3. CASE ~ deleteInProgress /\ deletedNotes' = << >>
  BY <1>1, <1>3 DEF EndEditing
<1>4. CASE ~ deleteInProgress /\ deletedNotes' # << >>
  <2> DEFINE dates == {deletedNotes'[i].creationDate : i \in DOMAIN deletedNotes'}
             op    == [kind |-> "deleteNotesOfDevice", creationDates |-> dates]
  <2>1. deleteInProgress' = TRUE /\ UNCHANGED backHidden
    BY <1>4 DEF EndEditing
  <2>2. PICK r \in Requests : Log!Ask(r, op)
    BY <1>4 DEF EndEditing
  <2>3. dates = DatesOf(deletedNotes')
    BY DEF DatesOf
  <2> HIDE DEF dates
  <2>4. dates \in (SUBSET Dates) \ {{}}
    <3>1. PICK list \in Seq(Note) : list = deletedNotes'
      OBVIOUS
    <3>2. DatesOf(list) \subseteq Dates /\ DatesOf(list) # {}
      BY <1>4, <3>1, DatesAreDates
    <3>3. DatesOf(list) = DatesOf(deletedNotes')
      BY <3>1
    <3>4. dates \subseteq Dates /\ dates # {}
      BY <2>3, <3>2, <3>3
    <3> QED
      BY <3>4
  <2>5. op \in Operation /\ op.kind = "deleteNotesOfDevice" /\ op.creationDates = dates
    BY <2>4 DEF Operation, TransactionOperation
  <2> HIDE DEF op
  <2> QED
    BY <1>1, <1>4, <2>1, <2>2, <2>3, <2>5
<1> QED
  BY <1>2, <1>3, <1>4

LEMMA LogStep ==
    ASSUME TypeInv,
           \/ UNCHANGED logVars
           \/ \E r \in Requests, op \in Operation :
                 op.kind # "setDevicePeriod" /\ Log!Ask(r, op)
           \/ \E r \in Requests : Log!Apply(r) \/ Log!Confirm(r) \/ Log!Refuse(r)
    PROVE  Log!TypeOK' /\ \A r \in Requests : ~ IsCall(r, "setDevicePeriod")'
<1>1. /\ IsDocument(doc)
      /\ asked \in [Requests -> Operation \cup {NoOperation}]
      /\ applied \subseteq {r \in Requests : asked[r] # NoOperation}
      /\ answer \in [Requests -> {"none", "ok", "failed"}]
  BY LogTypes DEF TypeInv, TypeOK
<1>2. \A r \in Requests : asked[r].kind # "setDevicePeriod"
  BY DEF TypeInv, IsCall
<1>3. CASE UNCHANGED logVars
  BY <1>1, <1>2, <1>3, LogTypesPrime DEF logVars, IsCall
<1>4. ASSUME NEW r \in Requests, NEW op \in Operation, op.kind # "setDevicePeriod",
             Log!Ask(r, op)
      PROVE  Log!TypeOK' /\ \A q \in Requests : ~ IsCall(q, "setDevicePeriod")'
  <2>1. /\ asked[r] = NoOperation /\ asked' = [asked EXCEPT ![r] = op]
        /\ UNCHANGED <<doc, applied, answer>>
    BY <1>4, LogActions
  <2>2. op # NoOperation
    BY OperationKinds
  <2>3. Log!TypeOK'
    BY <1>1, <2>1, <2>2, LogTypesPrime
  <2>4. \A q \in Requests : asked'[q] = IF q = r THEN op ELSE asked[q]
    BY <1>1, <2>1
  <2> QED
    BY <1>2, <1>4, <2>3, <2>4 DEF IsCall
<1>5. ASSUME NEW r \in Requests, Log!Apply(r)
      PROVE  Log!TypeOK' /\ \A q \in Requests : ~ IsCall(q, "setDevicePeriod")'
  <2>1. /\ asked[r] # NoOperation /\ doc' = Effect(doc, asked[r])
        /\ applied' = applied \cup {r} /\ UNCHANGED <<asked, answer>>
    BY <1>5, LogActions
  <2>2. IsDocument(doc')
    BY <1>1, <2>1, EffectType
  <2> QED
    BY <1>1, <1>2, <2>1, <2>2, LogTypesPrime DEF IsCall
<1>6. ASSUME NEW r \in Requests, Log!Confirm(r) \/ Log!Refuse(r)
      PROVE  Log!TypeOK' /\ \A q \in Requests : ~ IsCall(q, "setDevicePeriod")'
  <2>1. /\ answer' \in [Requests -> {"none", "ok", "failed"}]
        /\ UNCHANGED <<doc, asked, applied>>
    BY <1>1, <1>6, LogActions
  <2> QED
    BY <1>1, <1>2, <2>1, LogTypesPrime DEF IsCall
<1> QED
  BY <1>3, <1>4, <1>5, <1>6

(* What TypeInv says of the variables that are not of the log *)
LEMMA ScreenTypes ==
    ASSUME Log!TypeOK', \A r \in Requests : ~ IsCall(r, "setDevicePeriod")',
           clock' \in Dates, notes' \in Seq(Note), rows' \in Seq(Note),
           deletedNotes' \in Seq(Note), Len(rows') <= Len(notes'),
           isEditing' \in BOOLEAN, deleteInProgress' \in BOOLEAN,
           deleteEnabled' \in BOOLEAN, backHidden' \in BOOLEAN, hurried' \in BOOLEAN,
           mainQueue' \in Seq(Blocks), trap' \in {"none", "noSuchNote", "rowCount"},
           faults' \in 0 .. MaxFaults
    PROVE  TypeInv'
  BY DEF TypeInv, TypeOK

LEMMA TypeStepUser ==
    ASSUME TypeInv, User
    PROVE  TypeInv'
<1>1. /\ notes \in Seq(Note) /\ rows \in Seq(Note) /\ deletedNotes \in Seq(Note)
      /\ Len(rows) <= Len(notes) /\ clock \in Dates /\ mainQueue \in Seq(Blocks)
      /\ isEditing \in BOOLEAN /\ deleteInProgress \in BOOLEAN /\ deleteEnabled \in BOOLEAN
      /\ backHidden \in BOOLEAN /\ hurried \in BOOLEAN
      /\ trap \in {"none", "noSuchNote", "rowCount"} /\ faults \in 0 .. MaxFaults
  BY DEF TypeInv, TypeOK
<1>2. DOMAIN rows \subseteq DOMAIN notes
  BY TypeFacts
<1>3. ASSUME NEW r \in Requests, NEW comment \in Comments, AddNote(r, comment)
      PROVE  TypeInv'
  <2> DEFINE op == [kind |-> "addNoteToDevice",
                    note |-> [creationDate |-> clock, comment |-> comment]]
  <2>1. op \in Operation /\ op.kind # "setDevicePeriod"
    BY <1>1 DEF Operation, AppendingOperation, Note
  <2>2. Log!Ask(r, op)
    BY <1>3 DEF AddNote
  <2> HIDE DEF op
  <2>3. Log!TypeOK' /\ \A q \in Requests : ~ IsCall(q, "setDevicePeriod")'
    BY <2>1, <2>2, LogStep
  <2>4. UNCHANGED <<clock, listVars, editVars, mainQueue, trap, faults>>
    BY <1>3 DEF AddNote
  <2> QED
    BY <1>1, <2>3, <2>4, ScreenTypes DEF listVars, editVars
<1>4. ASSUME NEW r \in Requests, NEW comment \in Comments, NEW i \in DOMAIN rows,
             NoteChanged(r, i, comment)
      PROVE  TypeInv'
  <2> DEFINE note == [notes[i] EXCEPT !.comment = comment]
             op   == [kind |-> "updateNoteOfDevice", note |-> note]
  <2>1. notes[i] \in Note
    BY <1>1, <1>2
  <2>2. note \in Note
    BY <2>1 DEF Note
  <2> HIDE DEF note
  <2>3. op \in Operation /\ op.kind # "setDevicePeriod"
    BY <2>2 DEF Operation, TransactionOperation
  <2>4. Log!Ask(r, op)
    BY <1>4 DEF NoteChanged, note
  <2> HIDE DEF op
  <2>5. Log!TypeOK' /\ \A q \in Requests : ~ IsCall(q, "setDevicePeriod")'
    BY <2>3, <2>4, LogStep
  <2>6. UNCHANGED <<clock, listVars, editVars, mainQueue, trap, faults>>
    BY <1>4 DEF NoteChanged
  <2> QED
    BY <1>1, <2>5, <2>6, ScreenTypes DEF listVars, editVars
<1>5. CASE StartEditing
  <2>1. UNCHANGED logVars /\ UNCHANGED <<clock, listVars, mainQueue, trap, faults>>
    BY <1>5 DEF StartEditing
  <2>2. Log!TypeOK' /\ \A q \in Requests : ~ IsCall(q, "setDevicePeriod")'
    BY <2>1, LogStep
  <2>3. /\ isEditing' \in BOOLEAN /\ backHidden' \in BOOLEAN
        /\ UNCHANGED <<deleteInProgress, deleteEnabled>>
    BY <1>5 DEF StartEditing
  <2>4. hurried' \in BOOLEAN
    BY <1>5, Zenon DEF StartEditing
  <2> QED
    BY <1>1, <2>1, <2>2, <2>3, <2>4, ScreenTypes DEF listVars
<1>6. ASSUME EndEditing, UNCHANGED <<clock, mainQueue, trap, faults>>,
             notes' \in Seq(Note), rows' \in Seq(Note), deletedNotes' \in Seq(Note),
             Len(rows') <= Len(notes')
      PROVE  TypeInv'
  <2>1. /\ isEditing' = FALSE /\ deleteEnabled' = (notes' # << >>)
        /\ UNCHANGED <<doc, applied, answer, hurried>>
        /\ \/ deleteInProgress /\ UNCHANGED <<asked, deleteInProgress, backHidden>>
           \/ /\ ~ deleteInProgress /\ deletedNotes' = << >> /\ backHidden' = FALSE
              /\ UNCHANGED <<asked, deleteInProgress>>
           \/ /\ ~ deleteInProgress /\ deletedNotes' # << >> /\ deleteInProgress' = TRUE
              /\ UNCHANGED backHidden
              /\ \E r \in Requests, op \in Operation :
                    /\ op.kind = "deleteNotesOfDevice"
                    /\ op.creationDates = DatesOf(deletedNotes')
                    /\ Log!Ask(r, op)
    BY <1>6, EndEditingCases
  <2>2. isEditing' \in BOOLEAN /\ deleteEnabled' \in BOOLEAN /\ hurried' \in BOOLEAN
    BY <1>1, <2>1
  <2>3. deleteInProgress' \in BOOLEAN /\ backHidden' \in BOOLEAN
    BY <1>1, <2>1
  <2>4. \/ UNCHANGED logVars
        \/ \E r \in Requests, op \in Operation :
              op.kind # "setDevicePeriod" /\ Log!Ask(r, op)
    BY <2>1 DEF logVars
  <2>5. Log!TypeOK' /\ \A q \in Requests : ~ IsCall(q, "setDevicePeriod")'
    BY <2>4, LogStep
  <2> QED
    BY <1>1, <1>6, <2>2, <2>3, <2>5, ScreenTypes
<1>7. CASE Done
  BY <1>1, <1>6, <1>7 DEF Done, listVars
<1>8. CASE Cancel
  <2>1. /\ notes' \in Sortings(notes \o deletedNotes) /\ rows' = notes' /\ deletedNotes' = << >>
        /\ EndEditing /\ UNCHANGED <<clock, mainQueue, trap, faults>>
    BY <1>8 DEF Cancel, RestoreDeletedNotes
  <2>2. notes' \in Seq(Note)
    <3>1. PICK list : list = notes' /\ list \in Sortings(notes \o deletedNotes)
      BY <2>1
    <3>2. notes \o deletedNotes \in Seq(Note)
      BY <1>1, ConcatElements
    <3> QED
      BY <3>1, <3>2, SortingElements
  <2>3. Len(rows') <= Len(notes') /\ deletedNotes' \in Seq(Note)
    BY <2>1, <2>2
  <2> QED
    BY <1>6, <2>1, <2>2, <2>3
<1>9. CASE DeleteAll
  <2>1. /\ UNCHANGED logVars /\ UNCHANGED <<clock, editVars, mainQueue, trap, faults>>
        /\ deletedNotes' = deletedNotes \o notes /\ notes' = << >> /\ rows' = << >>
    BY <1>9 DEF DeleteAll
  <2>2. Log!TypeOK' /\ \A q \in Requests : ~ IsCall(q, "setDevicePeriod")'
    BY <2>1, LogStep
  <2>3. deletedNotes' \in Seq(Note)
    BY <1>1, <2>1, ConcatElements
  <2>4. notes' \in Seq(Note) /\ rows' \in Seq(Note) /\ Len(rows') <= Len(notes')
    BY <2>1
  <2> QED
    BY <1>1, <2>1, <2>2, <2>3, <2>4, ScreenTypes DEF editVars
<1>10. ASSUME NEW i \in DOMAIN rows, SwipeDelete(i) PROVE TypeInv'
  <2>1. UNCHANGED logVars /\ UNCHANGED <<clock, editVars, mainQueue, faults>>
    BY <1>10 DEF SwipeDelete
  <2>2. Log!TypeOK' /\ \A q \in Requests : ~ IsCall(q, "setDevicePeriod")'
    BY <2>1, LogStep
  <2>3. CASE Len(rows) = Len(notes)
    <3>1. /\ deletedNotes' = Append(deletedNotes, notes[i]) /\ notes' = RemoveAt(notes, i)
          /\ rows' = RemoveAt(rows, i) /\ UNCHANGED trap
      BY <1>10, <2>3 DEF SwipeDelete
    <3>2. notes' \in Seq(Note) /\ Len(notes') = Len(notes) - 1 /\ Len(notes) \in Nat
      BY <1>1, <1>2, <3>1, RemoveAtElements
    <3>3. rows' \in Seq(Note) /\ Len(rows') = Len(rows) - 1
      BY <1>1, <3>1, RemoveAtElements
    <3>4. deletedNotes' \in Seq(Note)
      BY <1>1, <1>2, <3>1
    <3>5. Len(rows') <= Len(notes')
      BY <2>3, <3>2, <3>3
    <3> QED
      BY <1>1, <2>1, <2>2, <3>1, <3>2, <3>3, <3>4, <3>5, ScreenTypes DEF editVars
  <2>4. CASE Len(rows) # Len(notes)
    <3>1. UNCHANGED listVars /\ trap' = "rowCount"
      BY <1>10, <2>4 DEF SwipeDelete
    <3> QED
      BY <1>1, <2>1, <2>2, <3>1, ScreenTypes DEF editVars, listVars
  <2> QED
    BY <2>3, <2>4
<1> QED
  BY <1>3, <1>4, <1>5, <1>7, <1>8, <1>9, <1>10 DEF User

LEMMA SortedListType ==
    ASSUME NEW list \in Seq(Note), NEW q \in Sortings(list)
    PROVE  q \in Seq(Note) /\ Len(q) = Len(list) /\ DatesOf(q) = DatesOf(list)
  BY SortingElements, DatesOfSorting

LEMMA TypeStepHandler ==
    ASSUME TypeInv, NEW r \in Requests, Handler(r)
    PROVE  TypeInv'
<1>1. /\ notes \in Seq(Note) /\ rows \in Seq(Note) /\ deletedNotes \in Seq(Note)
      /\ Len(rows) <= Len(notes) /\ clock \in Dates /\ mainQueue \in Seq(Blocks)
      /\ isEditing \in BOOLEAN /\ deleteInProgress \in BOOLEAN /\ deleteEnabled \in BOOLEAN
      /\ backHidden \in BOOLEAN /\ hurried \in BOOLEAN
      /\ trap \in {"none", "noSuchNote", "rowCount"} /\ faults \in 0 .. MaxFaults
  BY DEF TypeInv, TypeOK
<1>2. Log!Confirm(r) \/ Log!Refuse(r) => Log!TypeOK' /\ \A q \in Requests : ~ IsCall(q, "setDevicePeriod")'
  BY LogStep
<1>3. ASSUME FailureHasCause(r) PROVE faults' \in 0 .. MaxFaults
  <2>1. CASE UNCHANGED faults
    BY <1>1, <2>1
  <2>2. CASE faults < MaxFaults /\ faults' = faults + 1
    BY <1>1, <2>2, ScreenBounds
  <2> QED
    BY <1>3, <2>1, <2>2 DEF FailureHasCause
<1>4. \A b \in Blocks : Append(mainQueue, b) \in Seq(Blocks)
  BY <1>1
<1>5. CASE AppendSucceeds(r)
  <2>1. /\ IsAppending(asked[r]) /\ Log!Confirm(r) /\ notes' = <<asked[r].note>> \o notes
        /\ mainQueue' = IF IsCall(r, "addNoteToDevice")
                        THEN Append(mainQueue, "deviceChanged") ELSE mainQueue
        /\ UNCHANGED <<clock, rows, deletedNotes, editVars, trap, faults>>
    BY <1>5 DEF AppendSucceeds
  <2>2. asked[r].note \in Note
    BY <2>1, TypeFacts
  <2>3. <<asked[r].note>> \in Seq(Note) /\ Len(<<asked[r].note>>) = 1
    BY <2>2
  <2>4. notes' \in Seq(Note) /\ Len(notes') = 1 + Len(notes)
    BY <1>1, <2>1, <2>3, ConcatProperties
  <2>5. Len(rows') <= Len(notes')
    BY <1>1, <2>1, <2>4
  <2>6. mainQueue' \in Seq(Blocks)
    BY <1>1, <1>4, <2>1 DEF Blocks
  <2> QED
    BY <1>1, <1>2, <2>1, <2>4, <2>5, <2>6, ScreenTypes DEF editVars
<1>6. CASE UpdateSucceeds(r)
  <2>1. /\ IsCall(r, "updateNoteOfDevice") /\ Log!Confirm(r)
        /\ \/ notes' = ReplaceComment(notes, asked[r].note)
              /\ mainQueue' = Append(mainQueue, "reloadData") /\ UNCHANGED trap
           \/ trap' = "noSuchNote" /\ UNCHANGED <<notes, mainQueue>>
        /\ UNCHANGED <<clock, rows, deletedNotes, editVars, faults>>
    BY <1>6 DEF UpdateSucceeds
  <2>2. asked[r].note \in Note
    BY <2>1, TypeFacts
  <2>3. notes' \in Seq(Note) /\ Len(notes') = Len(notes)
    BY <1>1, <2>1, <2>2, EditedList
  <2>4. Len(rows') <= Len(notes')
    BY <1>1, <2>1, <2>3
  <2>5. mainQueue' \in Seq(Blocks)
    BY <1>1, <1>4, <2>1 DEF Blocks
  <2>6. trap' \in {"none", "noSuchNote", "rowCount"}
    BY <1>1, <2>1
  <2> QED
    BY <1>1, <1>2, <2>1, <2>3, <2>4, <2>5, <2>6, ScreenTypes DEF editVars
<1>7. CASE DeleteSucceeds(r)
  <2>1. /\ Log!Confirm(r) /\ deletedNotes' = << >> /\ deleteInProgress' = FALSE
        /\ mainQueue' = Append(mainQueue, "showBackButton")
        /\ UNCHANGED <<clock, notes, rows, isEditing, deleteEnabled, backHidden, hurried,
                       trap, faults>>
    BY <1>7 DEF DeleteSucceeds
  <2>2. mainQueue' \in Seq(Blocks)
    BY <1>4, <2>1 DEF Blocks
  <2>3. deletedNotes' = << >> /\ << >> \in Seq(Note)
    BY <2>1
  <2>4. deleteInProgress' = FALSE
    BY <2>1
  <2> QED
    BY <1>1, <1>2, <2>1, <2>2, <2>3, <2>4, ScreenTypes
<1>8. CASE CallFails(r)
  <2>1. /\ Log!Refuse(r) /\ FailureHasCause(r)
        /\ UNCHANGED <<clock, listVars, editVars, mainQueue, trap>>
    BY <1>8 DEF CallFails
  <2>2. faults' \in 0 .. MaxFaults
    BY <1>3, <2>1
  <2> QED
    BY <1>1, <1>2, <2>1, <2>2, ScreenTypes DEF listVars, editVars
<1>9. CASE DeleteFails(r)
  <2>1. /\ Log!Refuse(r) /\ FailureHasCause(r) /\ deleteInProgress' = FALSE
        /\ mainQueue' = mainQueue \o <<"restoreDeletedNotes", "showBackButton">>
        /\ UNCHANGED <<clock, listVars, isEditing, deleteEnabled, backHidden, hurried, trap>>
    BY <1>9 DEF DeleteFails
  <2>2. faults' \in 0 .. MaxFaults
    BY <1>3, <2>1
  <2>3. <<"restoreDeletedNotes", "showBackButton">> \in Seq(Blocks)
    BY DEF Blocks
  <2>4. mainQueue' \in Seq(Blocks)
    BY <1>1, <2>1, <2>3, ConcatElements
  <2> QED
    BY <1>1, <1>2, <2>1, <2>2, <2>4, ScreenTypes DEF listVars
<1> QED
  BY <1>5, <1>6, <1>7, <1>8, <1>9 DEF Handler

(* The three kinds of blocks of the main queue *)
LEMMA BlockCases ==
    ASSUME RunBlock
    PROVE  /\ mainQueue # << >> /\ mainQueue' = Tail(mainQueue)
           /\ UNCHANGED <<logVars, clock, trap, faults>>
           /\ UNCHANGED <<isEditing, deleteInProgress, hurried>>
           /\ \/ /\ Head(mainQueue) = "deviceChanged"
                 /\ rows' = notes /\ deleteEnabled' = (notes # << >>)
                 /\ UNCHANGED <<notes, deletedNotes, backHidden>>
              \/ /\ Head(mainQueue) = "reloadData"
                 /\ rows' = notes /\ UNCHANGED <<notes, deletedNotes, deleteEnabled, backHidden>>
              \/ /\ Head(mainQueue) = "restoreDeletedNotes"
                 /\ notes' \in Sortings(notes \o deletedNotes) /\ deletedNotes' = << >>
                 /\ rows' = notes' /\ deleteEnabled' = (notes' # << >>)
                 /\ UNCHANGED backHidden
              \/ /\ Head(mainQueue) = "showBackButton" /\ backHidden' = FALSE
                 /\ UNCHANGED <<notes, rows, deletedNotes, deleteEnabled>>
<1> DEFINE block == Head(mainQueue)
<1>1. /\ mainQueue # << >> /\ mainQueue' = Tail(mainQueue)
      /\ UNCHANGED <<logVars, clock, trap, faults>>
  BY DEF RunBlock
<1>2. \/ /\ block = "deviceChanged"
         /\ UNCHANGED <<notes, deletedNotes>> /\ DeviceChanged
      \/ /\ block = "reloadData"
         /\ rows' = notes /\ UNCHANGED <<notes, deletedNotes, editVars>>
      \/ /\ block = "restoreDeletedNotes"
         /\ RestoreDeletedNotes /\ DeviceChanged
      \/ /\ block = "showBackButton"
         /\ backHidden' = FALSE
         /\ UNCHANGED <<listVars, isEditing, deleteInProgress, deleteEnabled, hurried>>
  BY DEF RunBlock
<1> HIDE DEF block
<1>3. CASE block = "deviceChanged" /\ UNCHANGED <<notes, deletedNotes>> /\ DeviceChanged
  BY <1>1, <1>3 DEF DeviceChanged, block
<1>4. CASE block = "reloadData" /\ rows' = notes /\ UNCHANGED <<notes, deletedNotes, editVars>>
  BY <1>1, <1>4 DEF editVars, block
<1>5. CASE block = "restoreDeletedNotes" /\ RestoreDeletedNotes /\ DeviceChanged
  BY <1>1, <1>5 DEF RestoreDeletedNotes, DeviceChanged, block
<1>6. CASE /\ block = "showBackButton" /\ backHidden' = FALSE
           /\ UNCHANGED <<listVars, isEditing, deleteInProgress, deleteEnabled, hurried>>
  BY <1>1, <1>6 DEF listVars, block
<1> QED
  BY <1>2, <1>3, <1>4, <1>5, <1>6

LEMMA TypeStepRest ==
    ASSUME TypeInv,
           \/ \E r \in Requests : ServerApplies(r)
           \/ RunBlock
           \/ \E dates \in (SUBSET Dates) \ {{}} : OthersDelete(dates)
           \/ Tick
           \/ UNCHANGED vars
    PROVE  TypeInv'
<1>1. /\ notes \in Seq(Note) /\ rows \in Seq(Note) /\ deletedNotes \in Seq(Note)
      /\ Len(rows) <= Len(notes) /\ clock \in Dates /\ mainQueue \in Seq(Blocks)
      /\ isEditing \in BOOLEAN /\ deleteInProgress \in BOOLEAN /\ deleteEnabled \in BOOLEAN
      /\ backHidden \in BOOLEAN /\ hurried \in BOOLEAN
      /\ trap \in {"none", "noSuchNote", "rowCount"} /\ faults \in 0 .. MaxFaults
  BY DEF TypeInv, TypeOK
<1>2. faults < MaxFaults => faults + 1 \in 0 .. MaxFaults
  BY <1>1, ScreenBounds
<1>3. ASSUME NEW r \in Requests, ServerApplies(r) PROVE TypeInv'
  <2>1. /\ Log!Apply(r) /\ UNCHANGED <<clock, listVars, editVars, mainQueue, trap>>
        /\ (faults < MaxFaults /\ faults' = faults + 1) \/ UNCHANGED faults
    BY <1>3 DEF ServerApplies
  <2>2. faults' \in 0 .. MaxFaults
    BY <1>1, <1>2, <2>1
  <2>3. Log!TypeOK' /\ \A q \in Requests : ~ IsCall(q, "setDevicePeriod")'
    BY <2>1, LogStep
  <2> QED
    BY <1>1, <2>1, <2>2, <2>3, ScreenTypes DEF listVars, editVars
<1>4. CASE RunBlock
  <2>1. /\ mainQueue # << >> /\ mainQueue' = Tail(mainQueue)
        /\ UNCHANGED <<logVars, clock, trap, faults>>
        /\ UNCHANGED <<isEditing, deleteInProgress, hurried>>
    BY <1>4, BlockCases
  <2>2. \/ rows' = notes /\ UNCHANGED <<notes, deletedNotes>>
        \/ /\ notes' \in Sortings(notes \o deletedNotes) /\ deletedNotes' = << >>
           /\ rows' = notes'
        \/ UNCHANGED <<notes, rows, deletedNotes>>
    BY <1>4, BlockCases
  <2>3. /\ deleteEnabled' \in BOOLEAN /\ backHidden' \in BOOLEAN
    <3>1. \/ deleteEnabled' = (notes # << >>) \/ deleteEnabled' = deleteEnabled
          \/ deleteEnabled' = (notes' # << >>)
      BY <1>4, BlockCases
    <3>2. backHidden' = FALSE \/ backHidden' = backHidden
      BY <1>4, BlockCases
    <3> QED
      BY <1>1, <3>1, <3>2
  <2>4. mainQueue' \in Seq(Blocks)
    BY <1>1, <2>1
  <2>5. /\ notes' \in Seq(Note) /\ rows' \in Seq(Note) /\ deletedNotes' \in Seq(Note)
        /\ Len(rows') <= Len(notes')
    <3>1. CASE notes' \in Sortings(notes \o deletedNotes) /\ deletedNotes' = << >> /\ rows' = notes'
      <4>1. PICK list : list = notes' /\ list \in Sortings(notes \o deletedNotes)
        BY <3>1
      <4>2. notes \o deletedNotes \in Seq(Note)
        BY <1>1, ConcatElements
      <4>3. notes' \in Seq(Note)
        BY <4>1, <4>2, SortedListType
      <4> QED
        BY <3>1, <4>3
    <3>2. CASE (rows' = notes /\ UNCHANGED <<notes, deletedNotes>>)
               \/ UNCHANGED <<notes, rows, deletedNotes>>
      BY <1>1, <3>2
    <3> QED
      BY <2>2, <3>1, <3>2
  <2>6. Log!TypeOK' /\ \A q \in Requests : ~ IsCall(q, "setDevicePeriod")'
    BY <2>1, LogStep
  <2> QED
    BY <1>1, <2>1, <2>3, <2>4, <2>5, <2>6, ScreenTypes
<1>5. ASSUME NEW dates \in (SUBSET Dates) \ {{}}, OthersDelete(dates) PROVE TypeInv'
  <2>1. /\ faults < MaxFaults /\ faults' = faults + 1
        /\ doc' = WriteNotes(doc, RemoveDates(doc.notes, dates))
        /\ UNCHANGED <<asked, applied, answer, clock, listVars, editVars, mainQueue, trap>>
    BY <1>5 DEF OthersDelete
  <2>2. doc.version \in Nat /\ IsArray(doc.notes, doc.version) /\ IsDocument(doc)
    BY TypeFacts DEF IsDocument
  <2>3. IsDocument(doc')
    BY <2>1, <2>2, RemoveDatesLemma, WriteNotesType
  <2>4. Log!TypeOK'
    BY <2>1, <2>3, TypeFacts, LogTypes, LogTypesPrime
  <2>5. \A q \in Requests : ~ IsCall(q, "setDevicePeriod")'
    BY <2>1 DEF TypeInv, IsCall
  <2> QED
    BY <1>1, <1>2, <2>1, <2>4, <2>5, ScreenTypes DEF listVars, editVars
<1>6. CASE Tick
  <2>1. /\ clock < MaxTime /\ clock' = clock + 1
        /\ UNCHANGED logVars /\ UNCHANGED <<listVars, editVars, mainQueue, trap, faults>>
    BY <1>6 DEF Tick
  <2>2. clock' \in Dates
    BY <1>1, <2>1, BoundsAreNumbers DEF Dates
  <2>3. Log!TypeOK' /\ \A q \in Requests : ~ IsCall(q, "setDevicePeriod")'
    BY <2>1, LogStep
  <2> QED
    BY <1>1, <2>1, <2>2, <2>3, ScreenTypes DEF listVars, editVars
<1>7. CASE UNCHANGED vars
  <2>1. /\ UNCHANGED logVars
        /\ UNCHANGED <<clock, listVars, editVars, mainQueue, trap, faults>>
    BY <1>7 DEF vars
  <2>2. Log!TypeOK' /\ \A q \in Requests : ~ IsCall(q, "setDevicePeriod")'
    BY <2>1, LogStep
  <2> QED
    BY <1>1, <2>1, <2>2, ScreenTypes DEF listVars, editVars
<1> QED
  BY <1>3, <1>4, <1>5, <1>6, <1>7

LEMMA TypeStep == TypeInv /\ [Next]_vars => TypeInv'
  BY TypeStepUser, TypeStepHandler, TypeStepRest DEF Next

LEMMA TypeInit == Init => TypeInv
<1> SUFFICES ASSUME Init PROVE TypeInv
  OBVIOUS
<1>1. /\ clock \in 0 .. InitialNotes
      /\ doc \in [version : {clock}, hasNotes : {clock > 0},
                  notes : {n \in [1 .. clock -> Note] :
                              \A s \in 1 .. clock : n[s].creationDate = s - 1},
                  operationTime : {0}, period : Periods, lastService : {0}]
      /\ notes \in Sortings(doc.notes) /\ rows = notes /\ deletedNotes = << >>
      /\ applied = {} /\ answer = [r \in Requests |-> "none"]
  BY DEF Init
<1>2. clock \in Dates /\ clock \in Nat
  BY <1>1, ScreenBounds, BoundsAreNumbers DEF Dates
<1>3. /\ doc = [version |-> doc.version, hasNotes |-> doc.hasNotes, notes |-> doc.notes,
                operationTime |-> doc.operationTime, period |-> doc.period,
                lastService |-> doc.lastService]
      /\ doc.version = clock /\ doc.notes \in [1 .. clock -> Note]
      /\ doc.operationTime = 0 /\ doc.lastService = 0
  BY <1>1
<1>4. doc.period \in Periods
  BY <1>1, Zenon
<1>5. doc.hasNotes \in BOOLEAN
  <2>1. doc.hasNotes \in {clock > 0}
    BY <1>1, Zenon
  <2>2. (clock > 0) \in BOOLEAN
    BY <1>2
  <2> QED
    BY <2>1, <2>2, Zenon
<1>6. doc.operationTime \in 0 .. MaxHours /\ doc.lastService \in Dates
  BY <1>3, BoundsAreNumbers DEF Dates
<1>7. IsDocument(doc)
  BY <1>2, <1>3, <1>4, <1>5, <1>6 DEF IsDocument, IsArray
<1>8. notes \in Seq(Note) /\ rows = notes /\ Len(rows) <= Len(notes)
  <2>1. doc.notes \in Seq(Note)
    BY <1>2, <1>3
  <2>2. notes \in Seq(Note) /\ rows = notes
    BY <1>1, <2>1, SortedListType
  <2> QED
    BY <2>2
<1>9. /\ asked \in [Requests -> Operation \cup {NoOperation}]
      /\ \A r \in Requests : asked[r].kind # "setDevicePeriod"
  <2>1. CASE asked = [r \in Requests |-> NoOperation]
    BY <2>1 DEF NoOperation
  <2>2. ASSUME NEW r \in Requests, NEW o \in AppendingOperation, o.kind = "serviceDevice",
               asked = [[q \in Requests |-> NoOperation] EXCEPT ![r] = o]
        PROVE  /\ asked \in [Requests -> Operation \cup {NoOperation}]
               /\ \A p \in Requests : asked[p].kind # "setDevicePeriod"
    <3>1. o \in Operation
      BY DEF Operation
    <3>2. asked = [q \in Requests |-> IF q = r THEN o ELSE NoOperation]
      BY <2>2
    <3> QED
      BY <2>2, <3>1, <3>2 DEF NoOperation
  <2> QED
    BY <2>1, <2>2 DEF Init
<1>10. answer \in [Requests -> {"none", "ok", "failed"}]
  BY <1>1
<1>11. applied \subseteq {r \in Requests : asked[r] # NoOperation}
  BY <1>1
<1>12. Log!TypeOK
  BY <1>7, <1>9, <1>10, <1>11, LogTypes
<1>13. /\ isEditing = FALSE /\ deleteInProgress = FALSE /\ backHidden = FALSE
       /\ deleteEnabled = (notes # << >>) /\ hurried = FALSE
  BY DEF Init
<1>14. {isEditing, deleteInProgress, deleteEnabled, backHidden, hurried} \subseteq BOOLEAN
  BY <1>13
<1>15. mainQueue = << >> /\ trap = "none" /\ faults = 0
  BY DEF Init
<1>16. mainQueue \in Seq(Blocks) /\ trap \in {"none", "noSuchNote", "rowCount"} /\ faults \in 0 .. MaxFaults
  BY <1>15, ScreenBounds
<1>17. deletedNotes \in Seq(Note)
  BY <1>1
<1> QED
  BY <1>2, <1>8, <1>9, <1>12, <1>14, <1>16, <1>17 DEF TypeInv, TypeOK, IsCall

LEMMA TypeAlways == Spec => []TypeInv
  BY TypeInit, TypeStep, PTL DEF Spec

(* The log, the lists, the blocks of the main queue and the clock always   *)
(* have their types: every array a handler or the server writes is one.    *)
THEOREM NotesScreenTypeOK == Spec => []TypeOK
<1>1. TypeInv => TypeOK
  BY DEF TypeInv
<1> QED
  BY <1>1, TypeAlways, PTL

-----------------------------------------------------------------------------
(* The main queue.                                                         *)

IsQueued(queue, block) == \E i \in DOMAIN queue : queue[i] = block

LEMMA QueueAppend ==
    ASSUME NEW q \in Seq(Blocks), NEW b \in Blocks, NEW block
    PROVE  IsQueued(Append(q, b), block) <=> IsQueued(q, block) \/ block = b
<1> DEFINE p == Append(q, b)
<1>1. /\ Len(q) \in Nat /\ DOMAIN q = 1 .. Len(q) /\ DOMAIN p = 1 .. Len(q) + 1
      /\ \A i \in 1 .. Len(q) : p[i] = q[i]
      /\ p[Len(q) + 1] = b
  BY AppendedElements
<1> HIDE DEF p
<1>2. \A i \in DOMAIN p : i \in DOMAIN q \/ i = Len(q) + 1
  BY <1>1
<1>3. \A i \in DOMAIN q : i \in DOMAIN p
  BY <1>1
<1>4. Len(q) + 1 \in DOMAIN p
  BY <1>1
<1>5. IsQueued(p, block) <=> IsQueued(q, block) \/ block = b
  BY <1>1, <1>2, <1>3, <1>4 DEF IsQueued
<1> QED
  BY <1>5 DEF p

LEMMA QueueTail ==
    ASSUME NEW q \in Seq(Blocks), q # << >>, NEW block
    PROVE  IsQueued(q, block) <=> IsQueued(Tail(q), block) \/ block = Head(q)
<1>1. /\ Len(q) \in Nat \ {0} /\ Head(q) = q[1] /\ 1 \in DOMAIN q
      /\ DOMAIN q = 1 .. Len(q) /\ DOMAIN Tail(q) = 1 .. Len(q) - 1
      /\ \A i \in 1 .. Len(q) - 1 : Tail(q)[i] = q[i + 1]
      /\ \A i \in 2 .. Len(q) : q[i] = Tail(q)[i - 1]
  BY TailElements
<1>2. \A i \in DOMAIN q : i = 1 \/ (i \in 2 .. Len(q) /\ i - 1 \in DOMAIN Tail(q))
  BY <1>1
<1>3. \A i \in DOMAIN Tail(q) : i + 1 \in DOMAIN q
  BY <1>1
<1> QED
  BY <1>1, <1>2, <1>3 DEF IsQueued

LEMMA QueueConcat ==
    ASSUME NEW q \in Seq(Blocks), NEW p \in Seq(Blocks), NEW block
    PROVE  IsQueued(q \o p, block) <=> IsQueued(q, block) \/ IsQueued(p, block)
<1> DEFINE c == q \o p
<1>1. /\ \A i \in DOMAIN q : i \in DOMAIN c /\ c[i] = q[i]
      /\ \A i \in DOMAIN p : Len(q) + i \in DOMAIN c /\ c[Len(q) + i] = p[i]
      /\ \A i \in DOMAIN c : \/ i \in DOMAIN q
                             \/ i - Len(q) \in DOMAIN p /\ Len(q) + (i - Len(q)) = i
  BY ConcatElements
<1> HIDE DEF c
<1>2. IsQueued(c, block) => IsQueued(q, block) \/ IsQueued(p, block)
  <2> SUFFICES ASSUME NEW i \in DOMAIN c, c[i] = block
               PROVE  IsQueued(q, block) \/ IsQueued(p, block)
    BY DEF IsQueued
  <2>1. CASE i \in DOMAIN q
    BY <1>1, <2>1 DEF IsQueued
  <2>2. CASE i - Len(q) \in DOMAIN p /\ Len(q) + (i - Len(q)) = i
    <3>1. p[i - Len(q)] = block
      BY <1>1, <2>2
    <3> QED
      BY <2>2, <3>1 DEF IsQueued
  <2> QED
    BY <1>1, <2>1, <2>2
<1>3. IsQueued(q, block) \/ IsQueued(p, block) => IsQueued(c, block)
  BY <1>1 DEF IsQueued
<1> QED
  BY <1>2, <1>3 DEF c

(* What a failed deletion hands to the main queue *)
LEMMA QueueAfterFailure ==
    ASSUME NEW q \in Seq(Blocks)
    PROVE  /\ Len(q) \in Nat
           /\ q \o <<"restoreDeletedNotes", "showBackButton">> \in Seq(Blocks)
           /\ DOMAIN (q \o <<"restoreDeletedNotes", "showBackButton">>) = 1 .. Len(q) + 2
           /\ \A i \in 1 .. Len(q) :
                 (q \o <<"restoreDeletedNotes", "showBackButton">>)[i] = q[i]
           /\ (q \o <<"restoreDeletedNotes", "showBackButton">>)[Len(q) + 1] = "restoreDeletedNotes"
           /\ (q \o <<"restoreDeletedNotes", "showBackButton">>)[Len(q) + 2] = "showBackButton"
           /\ \A block : IsQueued(q \o <<"restoreDeletedNotes", "showBackButton">>, block) <=>
                 \/ IsQueued(q, block)
                 \/ block \in {"restoreDeletedNotes", "showBackButton"}
<1> DEFINE p == <<"restoreDeletedNotes", "showBackButton">>
<1>1. /\ p \in Seq(Blocks) /\ Len(p) = 2 /\ DOMAIN p = 1 .. 2
      /\ p[1] = "restoreDeletedNotes" /\ p[2] = "showBackButton"
  BY DEF Blocks
<1> HIDE DEF p
<1>2. /\ q \o p \in Seq(Blocks) /\ Len(q) \in Nat /\ DOMAIN q = 1 .. Len(q)
      /\ DOMAIN (q \o p) = 1 .. Len(q) + Len(p)
      /\ \A i \in DOMAIN q : (q \o p)[i] = q[i]
      /\ \A i \in DOMAIN p : (q \o p)[Len(q) + i] = p[i]
  <2>1. /\ q \o p \in Seq(Blocks) /\ Len(q) \in Nat /\ DOMAIN q = 1 .. Len(q)
        /\ DOMAIN (q \o p) = 1 .. Len(q) + Len(p)
        /\ \A i \in DOMAIN q : i \in DOMAIN (q \o p) /\ (q \o p)[i] = q[i]
        /\ \A i \in DOMAIN p : Len(q) + i \in DOMAIN (q \o p) /\ (q \o p)[Len(q) + i] = p[i]
    <3>1. p \in Seq(Blocks)
      BY <1>1
    <3> QED
      BY <3>1, ConcatElements
  <2> QED
    BY <2>1
<1>3. \A block : IsQueued(p, block) <=> block \in {"restoreDeletedNotes", "showBackButton"}
  BY <1>1 DEF IsQueued
<1>4. \A block : IsQueued(q \o p, block) <=>
         IsQueued(q, block) \/ block \in {"restoreDeletedNotes", "showBackButton"}
  BY <1>1, <1>3, QueueConcat
<1>5. /\ DOMAIN (q \o p) = 1 .. Len(q) + 2 /\ \A i \in 1 .. Len(q) : (q \o p)[i] = q[i]
      /\ (q \o p)[Len(q) + 1] = "restoreDeletedNotes" /\ (q \o p)[Len(q) + 2] = "showBackButton"
  <2>1. 1 \in DOMAIN p /\ 2 \in DOMAIN p
    BY <1>1
  <2> QED
    BY <1>1, <1>2, <2>1
<1> QED
  BY <1>2, <1>4, <1>5 DEF p

-----------------------------------------------------------------------------
(* Editing can end.                                                        *)

LEMMA EmptyLists ==
    ASSUME NEW a \in Seq(Note), NEW b \in Seq(Note)
    PROVE  /\ a \o b = << >> <=> a = << >> /\ b = << >>
           /\ \A q \in Sortings(a) : q = << >> <=> a = << >>
           /\ \A e \in Note : Append(a, e) # << >>
           /\ \A e \in Note : <<e>> \o a # << >>
           /\ \A e \in Note : ReplaceComment(a, e) = << >> <=> a = << >>
<1>1. \A q \in Seq(Note) : q = << >> <=> Len(q) = 0
  BY EmptySeq
<1>2. a \o b \in Seq(Note) /\ Len(a \o b) = Len(a) + Len(b) /\ Len(a) \in Nat /\ Len(b) \in Nat
  BY ConcatProperties
<1>3. a \o b = << >> <=> a = << >> /\ b = << >>
  BY <1>1, <1>2
<1>4. \A q \in Sortings(a) : q = << >> <=> a = << >>
  BY <1>1, SortedListType
<1>5. \A e \in Note : Append(a, e) # << >>
  OBVIOUS
<1>6. ASSUME NEW e \in Note PROVE <<e>> \o a # << >>
  <2>1. <<e>> \in Seq(Note) /\ Len(<<e>>) = 1
    OBVIOUS
  <2>2. <<e>> \o a \in Seq(Note) /\ Len(<<e>> \o a) = 1 + Len(a)
    BY <2>1, ConcatProperties
  <2> QED
    BY <1>1, <1>2, <2>2
<1>7. \A e \in Note : ReplaceComment(a, e) = << >> <=> a = << >>
  BY <1>1, EditedList
<1> QED
  BY <1>3, <1>4, <1>5, <1>6, <1>7

(* While the user edits there is something to end it with, or the back     *)
(* button is on its way; the button "Kesz" follows the list no later.      *)
ExitInv ==
    /\ isEditing =>
          \/ deletedNotes # << >> \/ ~ backHidden \/ IsQueued(mainQueue, "showBackButton")
          \/ deleteEnabled /\ notes # << >>
    /\ ~ isEditing /\ deleteEnabled => notes # << >>

LEMMA ExitInit == Init => ExitInv
  BY DEF Init, ExitInv

LEMMA ExitStep == TypeInv /\ ExitInv /\ [Next]_vars => ExitInv'
<1> SUFFICES ASSUME TypeInv, ExitInv, [Next]_vars PROVE ExitInv'
  OBVIOUS
<1>1. /\ notes \in Seq(Note) /\ rows \in Seq(Note) /\ deletedNotes \in Seq(Note)
      /\ mainQueue \in Seq(Blocks) /\ DOMAIN rows \subseteq DOMAIN notes
  BY TypeFacts
<1>2. /\ isEditing =>
            \/ deletedNotes # << >> \/ ~ backHidden \/ IsQueued(mainQueue, "showBackButton")
            \/ deleteEnabled /\ notes # << >>
      /\ ~ isEditing /\ deleteEnabled => notes # << >>
  BY DEF ExitInv
<1>3. \A b \in Blocks : IsQueued(mainQueue, "showBackButton") =>
         IsQueued(Append(mainQueue, b), "showBackButton")
  BY <1>1, QueueAppend
<1>4. CASE UNCHANGED <<isEditing, deletedNotes, backHidden, mainQueue, deleteEnabled, notes>>
  BY <1>2, <1>4 DEF ExitInv
<1>5. ASSUME NEW r \in Requests, NEW comment \in Comments, AddNote(r, comment)
      PROVE  ExitInv'
  BY <1>4, <1>5 DEF AddNote, listVars, editVars
<1>6. ASSUME NEW r \in Requests, NEW comment \in Comments, NEW i \in DOMAIN rows,
             NoteChanged(r, i, comment)
      PROVE  ExitInv'
  BY <1>4, <1>6 DEF NoteChanged, listVars, editVars
<1>7. CASE StartEditing
  BY <1>2, <1>7 DEF StartEditing, listVars, ExitInv
<1>8. CASE EndEditing
  <2>1. isEditing' = FALSE /\ deleteEnabled' = (notes' # << >>)
    BY <1>8 DEF EndEditing
  <2> QED
    BY <2>1 DEF ExitInv
<1>9. CASE Done \/ Cancel
  BY <1>8, <1>9 DEF Done, Cancel
<1>10. CASE DeleteAll
  <2>1. /\ isEditing /\ notes # << >> /\ deletedNotes' = deletedNotes \o notes
        /\ UNCHANGED isEditing
    BY <1>10 DEF DeleteAll, editVars
  <2>2. deletedNotes' # << >>
    BY <1>1, <2>1, EmptyLists
  <2> QED
    BY <2>1, <2>2 DEF ExitInv
<1>11. ASSUME NEW i \in DOMAIN rows, SwipeDelete(i) PROVE ExitInv'
  <2>1. CASE Len(rows) = Len(notes)
    <3>1. /\ isEditing /\ deletedNotes' = Append(deletedNotes, notes[i])
          /\ UNCHANGED isEditing
      BY <1>11, <2>1 DEF SwipeDelete, editVars
    <3>2. notes[i] \in Note
      BY <1>1
    <3>3. deletedNotes' # << >>
      BY <1>1, <3>1, <3>2, EmptyLists
    <3> QED
      BY <3>1, <3>3 DEF ExitInv
  <2>2. CASE Len(rows) # Len(notes)
    BY <1>4, <1>11, <2>2 DEF SwipeDelete, editVars, listVars
  <2> QED
    BY <2>1, <2>2
<1>12. ASSUME NEW r \in Requests, AppendSucceeds(r) PROVE ExitInv'
  <2>1. /\ IsAppending(asked[r]) /\ notes' = <<asked[r].note>> \o notes
        /\ mainQueue' = Append(mainQueue, "deviceChanged") \/ mainQueue' = mainQueue
        /\ UNCHANGED <<isEditing, deletedNotes, backHidden, deleteEnabled>>
    BY <1>12 DEF AppendSucceeds, editVars
  <2>2. notes' # << >>
    BY <1>1, <2>1, TypeFacts, EmptyLists
  <2>3. IsQueued(mainQueue, "showBackButton") => IsQueued(mainQueue', "showBackButton")
    BY <1>3, <2>1 DEF Blocks
  <2> QED
    BY <1>2, <2>1, <2>2, <2>3 DEF ExitInv
<1>13. ASSUME NEW r \in Requests, UpdateSucceeds(r) PROVE ExitInv'
  <2>1. /\ IsCall(r, "updateNoteOfDevice")
        /\ \/ notes' = ReplaceComment(notes, asked[r].note)
              /\ mainQueue' = Append(mainQueue, "reloadData")
           \/ UNCHANGED <<notes, mainQueue>>
        /\ UNCHANGED <<isEditing, deletedNotes, backHidden, deleteEnabled>>
    BY <1>13 DEF UpdateSucceeds, editVars
  <2>2. notes' = << >> <=> notes = << >>
    BY <1>1, <2>1, TypeFacts, EmptyLists
  <2>3. IsQueued(mainQueue, "showBackButton") => IsQueued(mainQueue', "showBackButton")
    BY <1>3, <2>1 DEF Blocks
  <2> QED
    BY <1>2, <2>1, <2>2, <2>3 DEF ExitInv
<1>14. ASSUME NEW r \in Requests, DeleteSucceeds(r) PROVE ExitInv'
  <2>1. /\ mainQueue' = Append(mainQueue, "showBackButton")
        /\ UNCHANGED <<isEditing, deleteEnabled, notes>>
    BY <1>14 DEF DeleteSucceeds
  <2>2. IsQueued(mainQueue', "showBackButton")
    BY <1>1, <2>1, QueueAppend DEF Blocks
  <2> QED
    BY <1>2, <2>1, <2>2 DEF ExitInv
<1>15. ASSUME NEW r \in Requests, CallFails(r) PROVE ExitInv'
  BY <1>4, <1>15 DEF CallFails, listVars, editVars
<1>16. ASSUME NEW r \in Requests, DeleteFails(r) PROVE ExitInv'
  <2>1. /\ mainQueue' = mainQueue \o <<"restoreDeletedNotes", "showBackButton">>
        /\ UNCHANGED <<isEditing, deleteEnabled, notes>>
    BY <1>16 DEF DeleteFails, listVars
  <2>2. IsQueued(mainQueue', "showBackButton")
    BY <1>1, <2>1, QueueAfterFailure
  <2> QED
    BY <1>2, <2>1, <2>2 DEF ExitInv
<1>17. CASE RunBlock
  <2>1. /\ mainQueue # << >> /\ mainQueue' = Tail(mainQueue) /\ UNCHANGED isEditing
    BY <1>17, BlockCases
  <2>2. IsQueued(mainQueue, "showBackButton") =>
           IsQueued(mainQueue', "showBackButton") \/ Head(mainQueue) = "showBackButton"
    BY <1>1, <2>1, QueueTail
  <2>3. CASE /\ Head(mainQueue) \in {"deviceChanged", "reloadData"}
             /\ UNCHANGED <<notes, deletedNotes, backHidden>>
             /\ deleteEnabled' = (notes # << >>) \/ UNCHANGED deleteEnabled
    <3>1. CASE deleteEnabled' = (notes # << >>)
      BY <1>2, <2>1, <2>2, <2>3, <3>1 DEF ExitInv
    <3>2. CASE UNCHANGED deleteEnabled
      BY <1>2, <2>1, <2>2, <2>3, <3>2 DEF ExitInv
    <3> QED
      BY <2>3, <3>1, <3>2
  <2>4. CASE /\ Head(mainQueue) = "restoreDeletedNotes"
             /\ notes' \in Sortings(notes \o deletedNotes) /\ deletedNotes' = << >>
             /\ deleteEnabled' = (notes' # << >>) /\ UNCHANGED backHidden
    <3>1. notes' # << >> <=> notes # << >> \/ deletedNotes # << >>
      <4>1. PICK list : list = notes' /\ list \in Sortings(notes \o deletedNotes)
        BY <2>4
      <4>2. notes \o deletedNotes \in Seq(Note)
        BY <1>1, ConcatElements
      <4>3. list = << >> <=> notes \o deletedNotes = << >>
        BY <4>1, <4>2, EmptyLists
      <4> QED
        BY <1>1, <4>1, <4>3, EmptyLists
    <3> QED
      BY <1>2, <2>1, <2>2, <2>4, <3>1 DEF ExitInv
  <2>5. CASE /\ Head(mainQueue) = "showBackButton" /\ backHidden' = FALSE
             /\ UNCHANGED <<notes, deletedNotes, deleteEnabled>>
    BY <1>2, <2>1, <2>5 DEF ExitInv
  <2> QED
    BY <1>17, <2>3, <2>4, <2>5, BlockCases
<1>18. ASSUME NEW r \in Requests, ServerApplies(r) PROVE ExitInv'
  BY <1>4, <1>18 DEF ServerApplies, listVars, editVars
<1>19. ASSUME NEW dates \in (SUBSET Dates) \ {{}}, OthersDelete(dates) PROVE ExitInv'
  BY <1>4, <1>19 DEF OthersDelete, listVars, editVars
<1>20. CASE Tick
  BY <1>4, <1>20 DEF Tick, listVars, editVars
<1>21. CASE UNCHANGED vars
  BY <1>4, <1>21 DEF vars, listVars, editVars
<1>22. CASE User
  BY <1>5, <1>6, <1>7, <1>9, <1>10, <1>11, <1>22 DEF User
<1>23. ASSUME NEW r \in Requests, Handler(r) PROVE ExitInv'
  BY <1>12, <1>13, <1>14, <1>15, <1>16, <1>23 DEF Handler
<1> QED
  BY <1>17, <1>18, <1>19, <1>20, <1>21, <1>22, <1>23 DEF Next

(* While the user edits, and nothing waits in the main queue, one of the   *)
(* buttons "Kesz" and "Megse" or the back button leads out, whatever       *)
(* deviceChanged() and the handlers of calls that were outstanding did to  *)
(* the buttons meanwhile (NotesViewController.swift:57-87, :196-202).      *)
THEOREM EditingCanAlwaysEnd == Spec => []EditingCanEnd
<1>1. ExitInv => EditingCanEnd
  BY DEF ExitInv, EditingCanEnd, IsQueued
<1> QED
  BY <1>1, ExitInit, ExitStep, TypeAlways, PTL DEF Spec

-----------------------------------------------------------------------------
(* The table shows the list.                                               *)

NoServiceConfirmed == \A r \in Requests : IsCall(r, "serviceDevice") => answer[r] # "ok"

TableInv ==
    trap = "none" /\ NoServiceConfirmed =>
        rows = notes \/ IsQueued(mainQueue, "deviceChanged") \/ IsQueued(mainQueue, "reloadData")

LEMMA TableInit == Init => TableInv
  BY DEF Init, TableInv

LEMMA TableStep == TypeInv /\ TableInv /\ [Next]_vars => TableInv'
<1> SUFFICES ASSUME TypeInv, TableInv, [Next]_vars, trap' = "none", NoServiceConfirmed'
             PROVE  \/ rows' = notes' \/ IsQueued(mainQueue', "deviceChanged")
                    \/ IsQueued(mainQueue', "reloadData")
  BY DEF TableInv
<1> DEFINE Goal == \/ rows' = notes' \/ IsQueued(mainQueue', "deviceChanged")
                   \/ IsQueued(mainQueue', "reloadData")
           Shown == rows = notes \/ IsQueued(mainQueue, "deviceChanged")
                        \/ IsQueued(mainQueue, "reloadData")
<1>1. /\ notes \in Seq(Note) /\ rows \in Seq(Note) /\ deletedNotes \in Seq(Note)
      /\ mainQueue \in Seq(Blocks) /\ DOMAIN rows \subseteq DOMAIN notes
      /\ asked \in [Requests -> Operation \cup {NoOperation}]
      /\ answer \in [Requests -> {"none", "ok", "failed"}]
  BY TypeFacts
<1>2. trap = "none" /\ NoServiceConfirmed => Shown
  BY DEF TableInv
<1>3. \A q \in Requests : IsCall(q, "serviceDevice")' => answer'[q] # "ok"
  BY DEF NoServiceConfirmed
<1>4. \A q \in Requests : asked'[q].kind = "serviceDevice" => answer'[q] # "ok"
  BY <1>3 DEF IsCall
<1>5. ASSUME UNCHANGED <<asked, answer>> \/ UNCHANGED <<doc, asked, applied, answer>>
      PROVE  NoServiceConfirmed
  BY <1>4, <1>5 DEF NoServiceConfirmed, IsCall
<1>6. ASSUME NEW r \in Requests, NEW op, Log!Ask(r, op)
      PROVE  NoServiceConfirmed
  <2>1. asked[r] = NoOperation /\ asked' = [asked EXCEPT ![r] = op] /\ UNCHANGED answer
    BY <1>6, LogActions
  <2>2. \A q \in Requests : q # r => asked'[q] = asked[q]
    BY <1>1, <2>1
  <2> QED
    BY <1>4, <2>1, <2>2 DEF NoServiceConfirmed, IsCall, NoOperation
<1>7. ASSUME NEW r \in Requests, Log!Refuse(r) \/ Log!Confirm(r)
      PROVE  NoServiceConfirmed /\ (Log!Confirm(r) => asked[r].kind # "serviceDevice")
  <2>1. /\ answer[r] = "none" /\ UNCHANGED asked
        /\ answer' = [answer EXCEPT ![r] = "failed"] \/ answer' = [answer EXCEPT ![r] = "ok"]
        /\ Log!Confirm(r) => answer' = [answer EXCEPT ![r] = "ok"]
    BY <1>7, LogActions
  <2>2. \A q \in Requests : q # r => answer'[q] = answer[q]
    BY <1>1, <2>1
  <2>3. Log!Confirm(r) => answer'[r] = "ok"
    BY <1>1, <2>1
  <2> QED
    BY <1>4, <2>1, <2>2, <2>3 DEF NoServiceConfirmed, IsCall
<1>8. CASE trap = "none" /\ NoServiceConfirmed /\ UNCHANGED <<rows, notes, mainQueue>>
  BY <1>2, <1>8
<1>9. ASSUME NEW r \in Requests, NEW comment \in Comments, AddNote(r, comment) PROVE Goal
  BY <1>6, <1>8, <1>9 DEF AddNote, listVars
<1>10. ASSUME NEW r \in Requests, NEW comment \in Comments, NEW i \in DOMAIN rows,
              NoteChanged(r, i, comment)
       PROVE  Goal
  BY <1>6, <1>8, <1>10 DEF NoteChanged, listVars
<1>11. CASE StartEditing
  BY <1>5, <1>8, <1>11 DEF StartEditing, listVars, logVars
<1>12. ASSUME EndEditing PROVE NoServiceConfirmed
  <2>1. \/ UNCHANGED <<asked, answer>>
        \/ \E r \in Requests : \E op : Log!Ask(r, op)
    BY <1>12 DEF EndEditing
  <2> QED
    BY <1>5, <1>6, <2>1
<1>13. CASE Done
  BY <1>8, <1>12, <1>13 DEF Done, listVars
<1>14. CASE Cancel
  BY <1>14 DEF Cancel, RestoreDeletedNotes
<1>15. CASE DeleteAll
  BY <1>15 DEF DeleteAll
<1>16. ASSUME NEW i \in DOMAIN rows, SwipeDelete(i) PROVE Goal
  <2>1. /\ rows' = RemoveAt(rows, i) /\ notes' = RemoveAt(notes, i) /\ UNCHANGED mainQueue
        /\ UNCHANGED <<asked, answer>> /\ trap = "none"
    BY <1>16 DEF SwipeDelete, logVars, IsRunning
  <2>2. Shown
    BY <1>2, <1>5, <2>1
  <2> QED
    BY <2>1, <2>2
<1>17. ASSUME NEW r \in Requests, AppendSucceeds(r) PROVE Goal
  <2>1. /\ IsAppending(asked[r]) /\ Log!Confirm(r)
        /\ mainQueue' = IF IsCall(r, "addNoteToDevice")
                        THEN Append(mainQueue, "deviceChanged") ELSE mainQueue
    BY <1>17 DEF AppendSucceeds
  <2>2. IsCall(r, "addNoteToDevice")
    BY <1>7, <2>1 DEF TypeInv, IsCall, IsAppending, AppendingKinds
  <2>3. IsQueued(mainQueue', "deviceChanged")
    BY <1>1, <2>1, <2>2, QueueAppend DEF Blocks
  <2> QED
    BY <2>3
<1>18. ASSUME NEW r \in Requests, UpdateSucceeds(r) PROVE Goal
  <2>1. mainQueue' = Append(mainQueue, "reloadData")
    BY <1>18 DEF UpdateSucceeds
  <2>2. IsQueued(mainQueue', "reloadData")
    BY <1>1, <2>1, QueueAppend DEF Blocks
  <2> QED
    BY <2>2
<1>19. ASSUME NEW r \in Requests, DeleteSucceeds(r) PROVE Goal
  <2>1. /\ mainQueue' = Append(mainQueue, "showBackButton") /\ UNCHANGED <<notes, rows, trap>>
        /\ Log!Confirm(r)
    BY <1>19 DEF DeleteSucceeds
  <2>2. Shown
    BY <1>2, <1>7, <2>1
  <2>3. \A block : IsQueued(mainQueue, block) => IsQueued(mainQueue', block)
    BY <1>1, <2>1, QueueAppend DEF Blocks
  <2> QED
    BY <2>1, <2>2, <2>3
<1>20. ASSUME NEW r \in Requests, CallFails(r) PROVE Goal
  BY <1>7, <1>8, <1>20 DEF CallFails, listVars
<1>21. ASSUME NEW r \in Requests, DeleteFails(r) PROVE Goal
  <2>1. /\ mainQueue' = mainQueue \o <<"restoreDeletedNotes", "showBackButton">>
        /\ UNCHANGED <<notes, rows, trap>> /\ Log!Refuse(r)
    BY <1>21 DEF DeleteFails, listVars
  <2>2. Shown
    BY <1>2, <1>7, <2>1
  <2>3. \A block : IsQueued(mainQueue, block) => IsQueued(mainQueue', block)
    BY <1>1, <2>1, QueueAfterFailure
  <2> QED
    BY <2>1, <2>2, <2>3
<1>22. CASE RunBlock
  <2>1. /\ mainQueue # << >> /\ mainQueue' = Tail(mainQueue) /\ UNCHANGED <<logVars, trap>>
    BY <1>22, BlockCases
  <2>2. \/ rows' = notes'
        \/ Head(mainQueue) = "showBackButton" /\ UNCHANGED <<notes, rows>>
    BY <1>22, BlockCases
  <2>3. CASE Head(mainQueue) = "showBackButton" /\ UNCHANGED <<notes, rows>>
    <3>1. Shown
      BY <1>2, <1>5, <2>1 DEF logVars
    <3>2. \A block : IsQueued(mainQueue, block) /\ block # "showBackButton" =>
             IsQueued(mainQueue', block)
      BY <1>1, <2>1, <2>3, QueueTail
    <3> QED
      BY <2>3, <3>1, <3>2
  <2> QED
    BY <2>2, <2>3
<1>23. ASSUME NEW r \in Requests, ServerApplies(r) PROVE Goal
  <2>1. UNCHANGED <<asked, answer>> /\ UNCHANGED <<rows, notes, mainQueue, trap>>
    BY <1>23, LogActions DEF ServerApplies, listVars
  <2> QED
    BY <1>5, <1>8, <2>1
<1>24. ASSUME NEW dates \in (SUBSET Dates) \ {{}}, OthersDelete(dates) PROVE Goal
  BY <1>5, <1>8, <1>24 DEF OthersDelete, listVars
<1>25. CASE Tick
  BY <1>5, <1>8, <1>25 DEF Tick, listVars, logVars
<1>26. CASE UNCHANGED vars
  BY <1>5, <1>8, <1>26 DEF vars, listVars, logVars
<1>27. CASE User
  BY <1>9, <1>10, <1>11, <1>13, <1>14, <1>15, <1>16, <1>27 DEF User
<1>28. ASSUME NEW r \in Requests, Handler(r) PROVE Goal
  BY <1>17, <1>18, <1>19, <1>20, <1>21, <1>28 DEF Handler
<1> QED
  BY <1>22, <1>23, <1>24, <1>25, <1>26, <1>27, <1>28 DEF Next

(* When the main queue has nothing left to do the table shows device.notes *)
(* -- so that the row of a tap or a swipe is the note the user sees --     *)
(* unless a service ordered on the other screen was confirmed              *)
(* (DetailsViewController.swift:128).                                      *)
THEOREM TableAlwaysShowsNotes == Spec => []TableShowsNotes
<1>1. TableInv => TableShowsNotes
  BY DEF TableInv, TableShowsNotes, IsQueued, NoServiceConfirmed
<1> QED
  BY <1>1, TableInit, TableStep, TypeAlways, PTL DEF Spec

-----------------------------------------------------------------------------
(* The back button.                                                        *)

IsDeletion(r) == IsCall(r, "deleteNotesOfDevice") /\ IsPending(r)

(* One deletion is under way, or none. *)
DeletionInv ==
    /\ deleteInProgress <=> \E r \in Requests : IsDeletion(r)
    /\ \A q, r \in Requests : IsDeletion(q) /\ IsDeletion(r) => q = r
    /\ \A r \in Requests : asked[r] = NoOperation => answer[r] = "none"

(* Before the back button comes back the notes are restored. *)
IsAnnounced(queue) ==
    \A i \in DOMAIN queue : queue[i] = "showBackButton" =>
        \E j \in 1 .. i - 1 : queue[j] = "restoreDeletedNotes"

(* Of a user who waits for the end of a deletion: nothing of the last      *)
(* deletion is left in the main queue while the next goes on, and what is  *)
(* struck off is what the deletion under way was asked to delete.          *)
Settled ==
    /\ ~ (isEditing /\ deleteInProgress)
    /\ isEditing \/ deleteInProgress =>
          /\ ~ IsQueued(mainQueue, "restoreDeletedNotes")
          /\ ~ IsQueued(mainQueue, "showBackButton")
          /\ backHidden
    /\ ~ isEditing /\ ~ deleteInProgress =>
          IsQueued(mainQueue, "restoreDeletedNotes") \/ deletedNotes = << >>
    /\ deletedNotes = << >> \/ IsAnnounced(mainQueue)
    /\ deletedNotes = << >> \/ backHidden

EditInv ==
    ~ hurried =>
        /\ Settled
        /\ \A r \in Requests : IsDeletion(r) => asked[r].creationDates = DatesOf(deletedNotes)

LEMMA AnnouncedAppend ==
    ASSUME NEW q \in Seq(Blocks), NEW b \in Blocks, b # "showBackButton", IsAnnounced(q)
    PROVE  IsAnnounced(Append(q, b))
<1> DEFINE p == Append(q, b)
<1>1. /\ Len(q) \in Nat /\ DOMAIN q = 1 .. Len(q) /\ DOMAIN p = 1 .. Len(q) + 1
      /\ \A i \in 1 .. Len(q) : p[i] = q[i]
      /\ p[Len(q) + 1] = b
  BY AppendedElements
<1> HIDE DEF p
<1> SUFFICES ASSUME NEW i \in DOMAIN p, p[i] = "showBackButton"
             PROVE  \E j \in 1 .. i - 1 : p[j] = "restoreDeletedNotes"
  BY DEF IsAnnounced, p
<1>2. i \in DOMAIN q /\ q[i] = "showBackButton"
  BY <1>1
<1>3. PICK j \in 1 .. i - 1 : q[j] = "restoreDeletedNotes"
  BY <1>2 DEF IsAnnounced
<1>4. j \in 1 .. Len(q)
  BY <1>1, <1>2
<1> QED
  BY <1>1, <1>3, <1>4

LEMMA AnnouncedTail ==
    ASSUME NEW q \in Seq(Blocks), q # << >>, Head(q) # "restoreDeletedNotes", IsAnnounced(q)
    PROVE  IsAnnounced(Tail(q))
<1>1. /\ Len(q) \in Nat \ {0} /\ Head(q) = q[1]
      /\ DOMAIN q = 1 .. Len(q) /\ DOMAIN Tail(q) = 1 .. Len(q) - 1
      /\ \A i \in 1 .. Len(q) - 1 : Tail(q)[i] = q[i + 1]
  BY TailElements
<1> SUFFICES ASSUME NEW i \in DOMAIN Tail(q), Tail(q)[i] = "showBackButton"
             PROVE  \E j \in 1 .. i - 1 : Tail(q)[j] = "restoreDeletedNotes"
  BY DEF IsAnnounced
<1>2. i + 1 \in DOMAIN q /\ q[i + 1] = "showBackButton"
  BY <1>1
<1>3. PICK j \in 1 .. (i + 1) - 1 : q[j] = "restoreDeletedNotes"
  BY <1>2 DEF IsAnnounced
<1>4. j # 1
  BY <1>1, <1>3
<1>5. j - 1 \in 1 .. i - 1 /\ j - 1 \in 1 .. Len(q) - 1 /\ (j - 1) + 1 = j
  BY <1>1, <1>2, <1>4
<1>6. Tail(q)[j - 1] = q[j]
  BY <1>1, <1>5
<1> QED
  BY <1>3, <1>5, <1>6

LEMMA AnnouncedAfterFailure ==
    ASSUME NEW q \in Seq(Blocks), ~ IsQueued(q, "showBackButton")
    PROVE  IsAnnounced(q \o <<"restoreDeletedNotes", "showBackButton">>)
<1> DEFINE p == q \o <<"restoreDeletedNotes", "showBackButton">>
<1>1. /\ Len(q) \in Nat /\ DOMAIN p = 1 .. Len(q) + 2
      /\ \A i \in 1 .. Len(q) : p[i] = q[i]
      /\ p[Len(q) + 1] = "restoreDeletedNotes"
  BY QueueAfterFailure
<1> HIDE DEF p
<1> SUFFICES ASSUME NEW i \in DOMAIN p, p[i] = "showBackButton"
             PROVE  \E j \in 1 .. i - 1 : p[j] = "restoreDeletedNotes"
  BY DEF IsAnnounced, p
<1>2. DOMAIN q = 1 .. Len(q)
  OBVIOUS
<1>3. i \notin 1 .. Len(q)
  BY <1>1, <1>2 DEF IsQueued
<1>4. i # Len(q) + 1
  BY <1>1
<1>5. Len(q) + 1 \in 1 .. i - 1
  BY <1>1, <1>3, <1>4
<1> QED
  BY <1>1, <1>5

(* How the deletions under way change *)
LEMMA DeletionsStay ==
    ASSUME TypeInv, DeletionInv,
           \/ UNCHANGED <<asked, answer>>
           \/ \E r \in Requests, op \in Operation :
                 op.kind # "deleteNotesOfDevice" /\ Log!Ask(r, op)
           \/ \E r \in Requests :
                 ~ IsCall(r, "deleteNotesOfDevice") /\ (Log!Confirm(r) \/ Log!Refuse(r))
    PROVE  /\ \A q \in Requests : IsDeletion(q)' <=> IsDeletion(q)
           /\ \A q \in Requests : IsDeletion(q) => asked'[q] = asked[q]
           /\ \A q \in Requests : asked'[q] = NoOperation => answer'[q] = "none"
<1>1. /\ asked \in [Requests -> Operation \cup {NoOperation}]
      /\ answer \in [Requests -> {"none", "ok", "failed"}]
      /\ \A r \in applied : r \in Requests /\ asked[r] \in Operation
      /\ NoOperation \notin Operation
  BY TypeFacts, OperationKinds
<1>2. \A r \in Requests : asked[r] = NoOperation => answer[r] = "none"
  BY DEF DeletionInv
<1>3. CASE UNCHANGED <<asked, answer>>
  BY <1>2, <1>3 DEF IsDeletion, IsCall, IsPending
<1>4. ASSUME NEW r \in Requests, NEW op \in Operation,
             op.kind # "deleteNotesOfDevice", Log!Ask(r, op)
      PROVE  /\ \A q \in Requests : IsDeletion(q)' <=> IsDeletion(q)
             /\ \A q \in Requests : IsDeletion(q) => asked'[q] = asked[q]
             /\ \A q \in Requests : asked'[q] = NoOperation => answer'[q] = "none"
  <2>1. /\ asked[r] = NoOperation /\ UNCHANGED answer
        /\ \A q \in Requests : asked'[q] = IF q = r THEN op ELSE asked[q]
    BY <1>1, <1>4, LogActions
  <2> QED
    BY <1>1, <1>2, <1>4, <2>1 DEF IsDeletion, IsCall, IsPending, NoOperation
<1>5. ASSUME NEW r \in Requests, ~ IsCall(r, "deleteNotesOfDevice"),
             Log!Confirm(r) \/ Log!Refuse(r)
      PROVE  /\ \A q \in Requests : IsDeletion(q)' <=> IsDeletion(q)
             /\ \A q \in Requests : IsDeletion(q) => asked'[q] = asked[q]
             /\ \A q \in Requests : asked'[q] = NoOperation => answer'[q] = "none"
  <2>1. /\ asked[r] # NoOperation /\ UNCHANGED asked
        /\ \A q \in Requests : q # r => answer'[q] = answer[q]
    BY <1>1, <1>5, LogActions
  <2> QED
    BY <1>1, <1>2, <1>5, <2>1 DEF IsDeletion, IsCall, IsPending
<1> QED
  BY <1>3, <1>4, <1>5

LEMMA DeletionEnds ==
    ASSUME TypeInv, DeletionInv, NEW r \in Requests, IsCall(r, "deleteNotesOfDevice"),
           Log!Confirm(r) \/ Log!Refuse(r)
    PROVE  /\ deleteInProgress /\ IsDeletion(r)
           /\ \A q \in Requests : ~ IsDeletion(q)'
           /\ \A q \in Requests : asked'[q] = NoOperation => answer'[q] = "none"
<1>1. /\ asked \in [Requests -> Operation \cup {NoOperation}]
      /\ answer \in [Requests -> {"none", "ok", "failed"}]
      /\ \A q \in applied : asked[q] # NoOperation
  BY TypeFacts, OperationKinds
<1>2. /\ asked[r] # NoOperation /\ answer[r] = "none" /\ UNCHANGED asked
      /\ \A q \in Requests : q # r => answer'[q] = answer[q]
      /\ answer'[r] # "none"
  BY <1>1, LogActions
<1>3. IsDeletion(r)
  BY <1>2 DEF IsDeletion, IsPending
<1>4. \A q \in Requests : q # r => ~ IsDeletion(q)
  BY <1>3 DEF DeletionInv
<1>5. \A q \in Requests : ~ IsDeletion(q)'
  BY <1>2, <1>4 DEF IsDeletion, IsCall, IsPending
<1> QED
  BY <1>2, <1>3, <1>5 DEF DeletionInv

LEMMA DeletionBegins ==
    ASSUME TypeInv, DeletionInv, ~ deleteInProgress, NEW r \in Requests, NEW op \in Operation,
           op.kind = "deleteNotesOfDevice", Log!Ask(r, op)
    PROVE  /\ \A q \in Requests : IsDeletion(q)' <=> q = r
           /\ asked'[r] = op
           /\ \A q \in Requests : asked'[q] = NoOperation => answer'[q] = "none"
<1>1. /\ asked \in [Requests -> Operation \cup {NoOperation}] /\ op # NoOperation
      /\ answer \in [Requests -> {"none", "ok", "failed"}]
  BY TypeFacts, OperationKinds
<1>2. /\ asked[r] = NoOperation /\ UNCHANGED answer
      /\ \A q \in Requests : asked'[q] = IF q = r THEN op ELSE asked[q]
  BY <1>1, LogActions
<1>3. answer[r] = "none" /\ \A q \in Requests : ~ IsDeletion(q)
  BY <1>2 DEF DeletionInv
<1>4. \A q \in Requests : IsDeletion(q)' <=> q = r
  BY <1>1, <1>2, <1>3 DEF IsDeletion, IsCall, IsPending
<1> QED
  BY <1>1, <1>2, <1>4 DEF DeletionInv

LEMMA SettledInit == Init => DeletionInv /\ EditInv
<1> SUFFICES ASSUME Init PROVE DeletionInv /\ EditInv
  OBVIOUS
<1>1. /\ deletedNotes = << >> /\ isEditing = FALSE /\ deleteInProgress = FALSE
      /\ mainQueue = << >> /\ answer = [r \in Requests |-> "none"]
  BY DEF Init
<1>2. \A r \in Requests : ~ IsDeletion(r)
  <2>1. CASE asked = [r \in Requests |-> NoOperation]
    BY <2>1 DEF IsDeletion, IsPending
  <2>2. ASSUME NEW r \in Requests, NEW o, o.kind = "serviceDevice",
               asked = [[q \in Requests |-> NoOperation] EXCEPT ![r] = o]
        PROVE  \A p \in Requests : ~ IsDeletion(p)
    <3>1. \A p \in Requests : asked[p] = IF p = r THEN o ELSE NoOperation
      BY <2>2
    <3> QED
      BY <2>2, <3>1 DEF IsDeletion, IsCall, NoOperation
  <2> QED
    BY <2>1, <2>2 DEF Init
<1> QED
  BY <1>1, <1>2 DEF DeletionInv, EditInv, Settled, IsQueued

(* The steps that start and end no deletion *)
LEMMA NextCalls ==
    ASSUME TypeInv, [Next]_vars
    PROVE  \/ /\ UNCHANGED deleteInProgress
              /\ \/ UNCHANGED <<asked, answer>>
                 \/ \E r \in Requests, op \in Operation :
                       op.kind # "deleteNotesOfDevice" /\ Log!Ask(r, op)
                 \/ \E r \in Requests :
                       ~ IsCall(r, "deleteNotesOfDevice") /\ (Log!Confirm(r) \/ Log!Refuse(r))
           \/ EndEditing /\ deletedNotes' \in Seq(Note)
           \/ \E r \in Requests : DeleteSucceeds(r) \/ DeleteFails(r)
<1> DEFINE Stays == /\ UNCHANGED deleteInProgress
                    /\ \/ UNCHANGED <<asked, answer>>
                       \/ \E r \in Requests, op \in Operation :
                             op.kind # "deleteNotesOfDevice" /\ Log!Ask(r, op)
                       \/ \E r \in Requests :
                             /\ ~ IsCall(r, "deleteNotesOfDevice")
                             /\ Log!Confirm(r) \/ Log!Refuse(r)
<1>1. /\ notes \in Seq(Note) /\ DOMAIN rows \subseteq DOMAIN notes /\ clock \in Dates
  BY TypeFacts
<1>2. ASSUME NEW r \in Requests, NEW comment \in Comments, AddNote(r, comment) PROVE Stays
  <2> DEFINE op == [kind |-> "addNoteToDevice",
                    note |-> [creationDate |-> clock, comment |-> comment]]
  <2>1. op \in Operation /\ op.kind # "deleteNotesOfDevice"
    BY <1>1 DEF Operation, AppendingOperation, Note
  <2> HIDE DEF op
  <2> QED
    BY <1>2, <2>1 DEF AddNote, editVars, op
<1>3. ASSUME NEW r \in Requests, NEW comment \in Comments, NEW i \in DOMAIN rows,
             NoteChanged(r, i, comment)
      PROVE  Stays
  <2> DEFINE note == [notes[i] EXCEPT !.comment = comment]
             op   == [kind |-> "updateNoteOfDevice", note |-> note]
  <2>1. notes[i] \in Note
    BY <1>1
  <2>2. note \in Note
    BY <2>1 DEF Note
  <2> HIDE DEF note
  <2>3. op \in Operation /\ op.kind # "deleteNotesOfDevice"
    BY <2>2 DEF Operation, TransactionOperation
  <2> HIDE DEF op
  <2> QED
    BY <1>3, <2>3 DEF NoteChanged, editVars, op, note
<1>4. CASE StartEditing
  BY <1>4 DEF StartEditing, logVars
<1>5. CASE Done \/ Cancel
  <2>1. EndEditing /\ (UNCHANGED deletedNotes \/ deletedNotes' = << >>)
    BY <1>5 DEF Done, Cancel, RestoreDeletedNotes, listVars
  <2>2. deletedNotes \in Seq(Note) /\ << >> \in Seq(Note)
    BY TypeFacts
  <2>3. deletedNotes' \in Seq(Note)
    BY <2>1, <2>2
  <2> QED
    BY <2>1, <2>3
<1>6. CASE DeleteAll
  BY <1>6 DEF DeleteAll, logVars, editVars
<1>7. ASSUME NEW i \in DOMAIN rows, SwipeDelete(i) PROVE Stays
  BY <1>7 DEF SwipeDelete, logVars, editVars
<1>8. CASE User
  BY <1>2, <1>3, <1>4, <1>5, <1>6, <1>7, <1>8 DEF User
<1>9. ASSUME NEW r \in Requests, AppendSucceeds(r) PROVE Stays
  <2>1. ~ IsCall(r, "deleteNotesOfDevice")
    BY <1>9 DEF AppendSucceeds, IsAppending, AppendingKinds, IsCall
  <2> QED
    BY <1>9, <2>1 DEF AppendSucceeds, editVars
<1>10. ASSUME NEW r \in Requests, UpdateSucceeds(r) PROVE Stays
  <2>1. ~ IsCall(r, "deleteNotesOfDevice")
    BY <1>10 DEF UpdateSucceeds, IsCall
  <2> QED
    BY <1>10, <2>1 DEF UpdateSucceeds, editVars
<1>11. ASSUME NEW r \in Requests, CallFails(r) PROVE Stays
  BY <1>11 DEF CallFails, editVars
<1>12. CASE RunBlock
  BY <1>12, BlockCases DEF logVars
<1>13. ASSUME NEW r \in Requests, ServerApplies(r) PROVE Stays
  BY <1>13, LogActions DEF ServerApplies, editVars
<1>14. ASSUME NEW dates, OthersDelete(dates) PROVE Stays
  BY <1>14 DEF OthersDelete, editVars
<1>15. CASE Tick \/ UNCHANGED vars
  BY <1>15 DEF Tick, vars, logVars, editVars
<1> QED
  BY <1>8, <1>9, <1>10, <1>11, <1>12, <1>13, <1>14, <1>15 DEF Next, Handler

LEMMA DeletionStep == TypeInv /\ DeletionInv /\ [Next]_vars => DeletionInv'
<1> SUFFICES ASSUME TypeInv, DeletionInv, [Next]_vars PROVE DeletionInv'
  OBVIOUS
<1>1. deleteInProgress \in BOOLEAN
  BY DEF TypeInv, TypeOK
<1>2. CASE /\ UNCHANGED deleteInProgress
           /\ \/ UNCHANGED <<asked, answer>>
              \/ \E r \in Requests, op \in Operation :
                    op.kind # "deleteNotesOfDevice" /\ Log!Ask(r, op)
              \/ \E r \in Requests :
                    ~ IsCall(r, "deleteNotesOfDevice") /\ (Log!Confirm(r) \/ Log!Refuse(r))
  <2>1. /\ \A q \in Requests : IsDeletion(q)' <=> IsDeletion(q)
        /\ \A q \in Requests : asked'[q] = NoOperation => answer'[q] = "none"
    BY <1>2, DeletionsStay
  <2> QED
    BY <1>2, <2>1 DEF DeletionInv
<1>3. CASE EndEditing /\ deletedNotes' \in Seq(Note)
  <2>1. CASE UNCHANGED <<asked, answer, deleteInProgress>>
    BY <1>2, <2>1
  <2>2. CASE /\ ~ deleteInProgress /\ deleteInProgress' = TRUE
             /\ \E r \in Requests, op \in Operation :
                   op.kind = "deleteNotesOfDevice" /\ Log!Ask(r, op)
    <3>1. PICK r \in Requests, op \in Operation :
             op.kind = "deleteNotesOfDevice" /\ Log!Ask(r, op)
      BY <2>2
    <3>2. /\ \A q \in Requests : IsDeletion(q)' <=> q = r
          /\ \A q \in Requests : asked'[q] = NoOperation => answer'[q] = "none"
      BY <2>2, <3>1, DeletionBegins
    <3> QED
      BY <2>2, <3>2 DEF DeletionInv
  <2> QED
    BY <1>3, <2>1, <2>2, EndEditingCases
<1>4. ASSUME NEW r \in Requests, DeleteSucceeds(r) \/ DeleteFails(r) PROVE DeletionInv'
  <2>1. /\ deleteInProgress' = FALSE /\ IsCall(r, "deleteNotesOfDevice")
        /\ Log!Confirm(r) \/ Log!Refuse(r)
    BY <1>4 DEF DeleteSucceeds, DeleteFails
  <2>2. /\ \A q \in Requests : ~ IsDeletion(q)'
        /\ \A q \in Requests : asked'[q] = NoOperation => answer'[q] = "none"
    BY <2>1, DeletionEnds
  <2> QED
    BY <2>1, <2>2 DEF DeletionInv
<1> QED
  BY <1>2, <1>3, <1>4, NextCalls

(* The deletions after a step *)
LEMMA DeletionsInStep ==
    ASSUME TypeInv, DeletionInv, [Next]_vars, NEW r \in Requests, IsDeletion(r)'
    PROVE  \/ IsDeletion(r) /\ deleteInProgress /\ asked'[r] = asked[r]
           \/ /\ ~ deleteInProgress /\ asked'[r].creationDates = DatesOf(deletedNotes')
              /\ r \notin applied'
<1>1. CASE /\ UNCHANGED deleteInProgress
           /\ \/ UNCHANGED <<asked, answer>>
              \/ \E q \in Requests, op \in Operation :
                    op.kind # "deleteNotesOfDevice" /\ Log!Ask(q, op)
              \/ \E q \in Requests :
                    ~ IsCall(q, "deleteNotesOfDevice") /\ (Log!Confirm(q) \/ Log!Refuse(q))
  <2>1. IsDeletion(r) /\ asked'[r] = asked[r]
    BY <1>1, DeletionsStay
  <2> QED
    BY <2>1 DEF DeletionInv
<1>2. CASE EndEditing /\ deletedNotes' \in Seq(Note)
  <2>1. CASE UNCHANGED <<asked, answer, deleteInProgress>>
    BY <1>1, <2>1
  <2>2. CASE /\ ~ deleteInProgress
             /\ \E q \in Requests, op \in Operation :
                   /\ op.kind = "deleteNotesOfDevice"
                   /\ op.creationDates = DatesOf(deletedNotes')
                   /\ Log!Ask(q, op)
    <3>1. PICK q \in Requests, op \in Operation :
             /\ op.kind = "deleteNotesOfDevice"
             /\ op.creationDates = DatesOf(deletedNotes')
             /\ Log!Ask(q, op)
      BY <2>2
    <3>2. /\ \A p \in Requests : IsDeletion(p)' <=> p = q
          /\ asked'[q] = op
      BY <2>2, <3>1, DeletionBegins
    <3>3. q \notin applied'
      BY <3>1, LogActions, TypeFacts, OperationKinds
    <3> QED
      BY <2>2, <3>1, <3>2, <3>3
  <2> QED
    BY <1>2, <2>1, <2>2, EndEditingCases
<1>3. ASSUME NEW q \in Requests, DeleteSucceeds(q) \/ DeleteFails(q) PROVE FALSE
  <2>1. IsCall(q, "deleteNotesOfDevice") /\ (Log!Confirm(q) \/ Log!Refuse(q))
    BY <1>3 DEF DeleteSucceeds, DeleteFails
  <2> QED
    BY <2>1, DeletionEnds
<1> QED
  BY <1>1, <1>2, <1>3, NextCalls

(* What a step of a settled screen leads to, and what is struck off while  *)
(* a deletion is under way                                                 *)
LEMMA SettledStep ==
    ASSUME TypeInv, DeletionInv, Settled, [Next]_vars, ~ hurried'
    PROVE  /\ Settled'
           /\ \/ UNCHANGED deletedNotes
              \/ ~ deleteInProgress
              \/ \A r \in Requests : ~ IsDeletion(r)'
<1> DEFINE Goal == /\ Settled'
                   /\ \/ UNCHANGED deletedNotes
                      \/ ~ deleteInProgress
                      \/ \A r \in Requests : ~ IsDeletion(r)'
<1>1. /\ notes \in Seq(Note) /\ deletedNotes \in Seq(Note) /\ mainQueue \in Seq(Blocks)
      /\ DOMAIN rows \subseteq DOMAIN notes
  BY TypeFacts
<1>2. /\ hurried \in BOOLEAN /\ isEditing \in BOOLEAN /\ deleteInProgress \in BOOLEAN
      /\ backHidden \in BOOLEAN
  BY DEF TypeInv, TypeOK
<1>3. /\ ~ (isEditing /\ deleteInProgress)
      /\ isEditing \/ deleteInProgress =>
            /\ ~ IsQueued(mainQueue, "restoreDeletedNotes")
            /\ ~ IsQueued(mainQueue, "showBackButton")
            /\ backHidden
      /\ ~ isEditing /\ ~ deleteInProgress =>
            IsQueued(mainQueue, "restoreDeletedNotes") \/ deletedNotes = << >>
      /\ deletedNotes = << >> \/ IsAnnounced(mainQueue)
      /\ deletedNotes = << >> \/ backHidden
  BY DEF Settled
<1>4. CASE UNCHANGED <<isEditing, deleteInProgress, backHidden, deletedNotes, mainQueue>>
  BY <1>3, <1>4 DEF Settled
<1>5. ASSUME ~ IsQueued(mainQueue, "showBackButton")
      PROVE  IsAnnounced(mainQueue)
  BY <1>5 DEF IsQueued, IsAnnounced
<1>6. ASSUME NEW b \in {"deviceChanged", "reloadData"}, mainQueue' = Append(mainQueue, b),
             UNCHANGED <<isEditing, deleteInProgress, backHidden, deletedNotes>>
      PROVE  Goal
  <2>1. b \in Blocks /\ b # "showBackButton"
    BY DEF Blocks
  <2>2. /\ IsQueued(mainQueue', "restoreDeletedNotes") <=> IsQueued(mainQueue, "restoreDeletedNotes")
        /\ IsQueued(mainQueue', "showBackButton") <=> IsQueued(mainQueue, "showBackButton")
    BY <1>1, <1>6, <2>1, QueueAppend
  <2>3. IsAnnounced(mainQueue) => IsAnnounced(mainQueue')
    BY <1>1, <1>6, <2>1, AnnouncedAppend
  <2> QED
    BY <1>3, <1>6, <2>2, <2>3 DEF Settled
<1>7. ASSUME NEW r \in Requests, NEW comment \in Comments, AddNote(r, comment) PROVE Goal
  BY <1>4, <1>7 DEF AddNote, editVars, listVars
<1>8. ASSUME NEW r \in Requests, NEW comment \in Comments, NEW i \in DOMAIN rows,
             NoteChanged(r, i, comment)
      PROVE  Goal
  BY <1>4, <1>8 DEF NoteChanged, editVars, listVars
<1>9. CASE StartEditing
  <2>1. /\ ~ isEditing /\ isEditing' = TRUE /\ backHidden' = TRUE
        /\ hurried' = (hurried \/ deleteInProgress
                          \/ \E i \in DOMAIN mainQueue :
                                mainQueue[i] \in {"restoreDeletedNotes", "showBackButton"})
        /\ UNCHANGED <<deletedNotes, deleteInProgress, mainQueue>>
    BY <1>9 DEF StartEditing, listVars
  <2>2. /\ ~ deleteInProgress /\ ~ IsQueued(mainQueue, "restoreDeletedNotes")
        /\ ~ IsQueued(mainQueue, "showBackButton")
    BY <2>1 DEF IsQueued
  <2>3. deletedNotes = << >>
    BY <1>3, <2>1, <2>2
  <2> QED
    BY <2>1, <2>2, <2>3 DEF Settled
<1>10. CASE isEditing /\ EndEditing /\ UNCHANGED mainQueue /\ deletedNotes' \in Seq(Note)
  <2>1. ~ deleteInProgress /\ backHidden /\ ~ IsQueued(mainQueue, "restoreDeletedNotes")
        /\ ~ IsQueued(mainQueue, "showBackButton") /\ IsAnnounced(mainQueue)
    BY <1>3, <1>5, <1>10
  <2>2. /\ isEditing' = FALSE
        /\ \/ deletedNotes' = << >> /\ UNCHANGED deleteInProgress
           \/ deleteInProgress' = TRUE /\ UNCHANGED backHidden
    BY <1>10, <2>1, EndEditingCases
  <2>3. CASE deletedNotes' = << >> /\ UNCHANGED deleteInProgress
    BY <2>1, <2>2, <2>3 DEF Settled
  <2>4. CASE deleteInProgress' = TRUE /\ UNCHANGED backHidden
    <3>1. mainQueue' = mainQueue /\ backHidden'
      BY <1>10, <2>1, <2>4
    <3> QED
      BY <2>1, <2>2, <2>4, <3>1 DEF Settled
  <2> QED
    BY <2>2, <2>3, <2>4
<1>11. CASE Done
  BY <1>1, <1>10, <1>11 DEF Done, listVars
<1>12. CASE Cancel
  <2>1. deletedNotes' = << >> /\ isEditing /\ EndEditing /\ UNCHANGED mainQueue
    BY <1>12 DEF Cancel, RestoreDeletedNotes
  <2>2. << >> \in Seq(Note)
    OBVIOUS
  <2> QED
    BY <1>10, <2>1, <2>2
<1>13. CASE isEditing /\ UNCHANGED <<isEditing, deleteInProgress, backHidden, mainQueue>>
  BY <1>3, <1>5, <1>13 DEF Settled
<1>14. CASE DeleteAll
  BY <1>13, <1>14 DEF DeleteAll, editVars
<1>15. ASSUME NEW i \in DOMAIN rows, SwipeDelete(i) PROVE Goal
  BY <1>13, <1>15 DEF SwipeDelete, editVars
<1>16. ASSUME NEW r \in Requests, AppendSucceeds(r) PROVE Goal
  BY <1>4, <1>6, <1>16 DEF AppendSucceeds, editVars
<1>17. ASSUME NEW r \in Requests, UpdateSucceeds(r) PROVE Goal
  BY <1>4, <1>6, <1>17 DEF UpdateSucceeds, editVars
<1>18. ASSUME NEW r \in Requests, DeleteSucceeds(r) PROVE Goal
  <2>1. /\ IsCall(r, "deleteNotesOfDevice") /\ Log!Confirm(r)
        /\ deletedNotes' = << >> /\ deleteInProgress' = FALSE
        /\ UNCHANGED isEditing
    BY <1>18 DEF DeleteSucceeds
  <2>2. deleteInProgress /\ \A q \in Requests : ~ IsDeletion(q)'
    BY <2>1, DeletionEnds
  <2> QED
    BY <1>3, <2>1, <2>2 DEF Settled
<1>19. ASSUME NEW r \in Requests, CallFails(r) PROVE Goal
  BY <1>4, <1>19 DEF CallFails, listVars, editVars
<1>20. ASSUME NEW r \in Requests, DeleteFails(r) PROVE Goal
  <2>1. /\ IsCall(r, "deleteNotesOfDevice") /\ Log!Refuse(r) /\ deleteInProgress' = FALSE
        /\ mainQueue' = mainQueue \o <<"restoreDeletedNotes", "showBackButton">>
        /\ UNCHANGED <<isEditing, backHidden, deletedNotes>>
    BY <1>20 DEF DeleteFails, listVars
  <2>2. deleteInProgress
    BY <2>1, DeletionEnds
  <2>3. ~ isEditing /\ backHidden /\ ~ IsQueued(mainQueue, "showBackButton")
    BY <1>3, <2>2
  <2>4. IsQueued(mainQueue', "restoreDeletedNotes")
    BY <1>1, <2>1, QueueAfterFailure
  <2>5. IsAnnounced(mainQueue')
    BY <1>1, <2>1, <2>3, AnnouncedAfterFailure
  <2> QED
    BY <2>1, <2>3, <2>4, <2>5 DEF Settled
<1>21. CASE RunBlock
  <2>1. /\ mainQueue # << >> /\ mainQueue' = Tail(mainQueue)
        /\ UNCHANGED <<isEditing, deleteInProgress>>
    BY <1>21, BlockCases
  <2>2. \A block : IsQueued(mainQueue, block) <=>
           IsQueued(mainQueue', block) \/ block = Head(mainQueue)
    BY <1>1, <2>1, QueueTail
  <2>3. Head(mainQueue) # "restoreDeletedNotes" =>
           (IsAnnounced(mainQueue) => IsAnnounced(mainQueue'))
    BY <1>1, <2>1, AnnouncedTail
  <2>4. CASE /\ Head(mainQueue) \in {"deviceChanged", "reloadData"}
             /\ UNCHANGED <<deletedNotes, backHidden>>
    BY <1>3, <2>1, <2>2, <2>3, <2>4 DEF Settled
  <2>5. CASE /\ Head(mainQueue) = "restoreDeletedNotes" /\ deletedNotes' = << >>
             /\ UNCHANGED backHidden
    <3>1. ~ isEditing /\ ~ deleteInProgress
      BY <1>3, <2>2, <2>5
    <3> QED
      BY <2>1, <2>5, <3>1 DEF Settled
  <2>6. CASE Head(mainQueue) = "showBackButton" /\ UNCHANGED deletedNotes
    <3>1. ~ isEditing /\ ~ deleteInProgress
      BY <1>3, <2>2, <2>6
    <3>2. ~ IsAnnounced(mainQueue)
      <4>1. 1 \in DOMAIN mainQueue /\ mainQueue[1] = "showBackButton"
        BY <1>1, <2>1, <2>6
      <4> QED
        BY <4>1 DEF IsAnnounced
    <3>3. deletedNotes = << >>
      BY <1>3, <3>2
    <3> QED
      BY <2>1, <2>6, <3>1, <3>3 DEF Settled
  <2> QED
    BY <1>21, <2>4, <2>5, <2>6, BlockCases
<1>22. ASSUME NEW r \in Requests, ServerApplies(r) PROVE Goal
  BY <1>4, <1>22 DEF ServerApplies, listVars, editVars
<1>23. ASSUME NEW dates \in (SUBSET Dates) \ {{}}, OthersDelete(dates) PROVE Goal
  BY <1>4, <1>23 DEF OthersDelete, listVars, editVars
<1>24. CASE Tick \/ UNCHANGED vars
  BY <1>4, <1>24 DEF Tick, vars, listVars, editVars
<1>25. CASE User
  BY <1>7, <1>8, <1>9, <1>11, <1>12, <1>14, <1>15, <1>25 DEF User
<1>26. ASSUME NEW r \in Requests, Handler(r) PROVE Goal
  BY <1>16, <1>17, <1>18, <1>19, <1>20, <1>26 DEF Handler
<1> QED
  BY <1>21, <1>22, <1>23, <1>24, <1>25, <1>26 DEF Next

(* Who has hurried once has hurried. *)
LEMMA HurryStays == [Next]_vars /\ hurried => hurried'
  BY BlockCases DEF Next, User, Handler, vars, editVars, AddNote, NoteChanged, StartEditing,
     Done, EndEditing, DeleteAll, SwipeDelete, Cancel, AppendSucceeds, UpdateSucceeds,
     DeleteSucceeds, CallFails, DeleteFails, ServerApplies, OthersDelete, Tick

LEMMA EditStep == TypeInv /\ DeletionInv /\ EditInv /\ [Next]_vars => EditInv'
<1> SUFFICES ASSUME TypeInv, DeletionInv, EditInv, [Next]_vars, ~ hurried'
             PROVE  /\ Settled'
                    /\ \A r \in Requests : IsDeletion(r)' =>
                          asked'[r].creationDates = DatesOf(deletedNotes')
  BY DEF EditInv
<1>1. ~ hurried
  BY HurryStays
<1>2. Settled /\ \A r \in Requests : IsDeletion(r) =>
                    asked[r].creationDates = DatesOf(deletedNotes)
  BY <1>1 DEF EditInv
<1>3. /\ Settled'
      /\ \/ UNCHANGED deletedNotes
         \/ ~ deleteInProgress
         \/ \A r \in Requests : ~ IsDeletion(r)'
  BY <1>2, SettledStep
<1>4. ASSUME NEW r \in Requests, IsDeletion(r)'
      PROVE  asked'[r].creationDates = DatesOf(deletedNotes')
  <2>1. CASE IsDeletion(r) /\ deleteInProgress /\ asked'[r] = asked[r]
    <3>1. deletedNotes' = deletedNotes
      BY <1>3, <1>4, <2>1
    <3>2. DatesOf(deletedNotes') = DatesOf(deletedNotes)
      BY <3>1
    <3> QED
      BY <1>2, <2>1, <3>2
  <2>2. CASE asked'[r].creationDates = DatesOf(deletedNotes')
    BY <2>2
  <2> QED
    BY <1>4, <2>1, <2>2, DeletionsInStep
<1> QED
  BY <1>3, <1>4

LEMMA EditAlways == Spec => [](TypeInv /\ DeletionInv /\ EditInv)
  BY TypeInit, TypeStep, SettledInit, DeletionStep, EditStep, PTL DEF Spec

(* Who waits for the end of a deletion is offered the back button only     *)
(* when nothing is struck off and no deletion is under way, so that        *)
(* leaving the screen abandons nothing, even when the deletion has failed  *)
(* and its notes are restored first (NotesViewController.swift:57-87).     *)
THEOREM BackIsOfferedWhenSettled == Spec => []BackOnlyWhenSettled
<1>1. TypeInv /\ EditInv => BackOnlyWhenSettled
  BY DEF EditInv, Settled, BackOnlyWhenSettled
<1> QED
  BY <1>1, EditAlways, PTL

-----------------------------------------------------------------------------
(* No note vanishes.                                                       *)

(* The dates of the notes whose appends have not been confirmed *)
Unconfirmed ==
    {asked[r].note.creationDate : r \in {q \in Requests : IsAppending(asked[q]) /\ answer[q] # "ok"}}

(* Once the deletion has taken effect what it struck off is out of the     *)
(* cloud, and only the list and the appends under way account for the rest. *)
AppliedInv ==
    ~ hurried =>
        \A r \in Requests : IsDeletion(r) /\ r \in applied =>
            DatesOf(doc.notes) \subseteq DatesOf(notes) \cup Unconfirmed

LEMMA UnconfirmedStep ==
    ASSUME TypeInv,
           \/ UNCHANGED <<asked, answer>>
           \/ \E r \in Requests : \E op : Log!Ask(r, op)
           \/ \E r \in Requests : Log!Refuse(r)
           \/ \E r \in Requests : ~ IsAppending(asked[r]) /\ Log!Confirm(r)
    PROVE  Unconfirmed \subseteq Unconfirmed'
<1>1. /\ asked \in [Requests -> Operation \cup {NoOperation}]
      /\ answer \in [Requests -> {"none", "ok", "failed"}]
      /\ ~ IsAppending(NoOperation)
  BY TypeFacts DEF IsAppending, AppendingKinds, NoOperation
<1> SUFFICES ASSUME NEW q \in Requests, IsAppending(asked[q]), answer[q] # "ok"
             PROVE  asked'[q] = asked[q] /\ answer'[q] # "ok"
  BY DEF Unconfirmed
<1>2. CASE UNCHANGED <<asked, answer>>
  BY <1>2
<1>3. ASSUME NEW r \in Requests, NEW op, Log!Ask(r, op)
      PROVE  asked'[q] = asked[q] /\ answer'[q] # "ok"
  <2>1. /\ asked[r] = NoOperation /\ UNCHANGED answer
        /\ asked'[q] = IF q = r THEN op ELSE asked[q]
    BY <1>1, <1>3, LogActions
  <2> QED
    BY <1>1, <2>1
<1>4. ASSUME NEW r \in Requests, Log!Refuse(r)
      PROVE  asked'[q] = asked[q] /\ answer'[q] # "ok"
  <2>1. UNCHANGED asked /\ answer'[q] = IF q = r THEN "failed" ELSE answer[q]
    BY <1>1, <1>4, LogActions
  <2> QED
    BY <2>1
<1>5. ASSUME NEW r \in Requests, ~ IsAppending(asked[r]), Log!Confirm(r)
      PROVE  asked'[q] = asked[q] /\ answer'[q] # "ok"
  <2>1. UNCHANGED asked /\ answer'[q] = IF q = r THEN "ok" ELSE answer[q]
    BY <1>1, <1>5, LogActions
  <2> QED
    BY <1>5, <2>1
<1> QED
  BY <1>2, <1>3, <1>4, <1>5

LEMMA UnconfirmedAfterConfirm ==
    ASSUME TypeInv, NEW r \in Requests, Log!Confirm(r)
    PROVE  Unconfirmed \subseteq Unconfirmed' \cup {asked[r].note.creationDate}
<1>1. /\ UNCHANGED asked
      /\ \A q \in Requests : q # r => answer'[q] = answer[q]
  BY TypeFacts, LogActions
<1> QED
  BY <1>1 DEF Unconfirmed

LEMMA VanishInit == Init => NothingVanishes /\ AppliedInv
<1> SUFFICES ASSUME Init PROVE NothingVanishes /\ AppliedInv
  OBVIOUS
<1>1. TypeInv /\ notes \in Sortings(doc.notes) /\ applied = {}
  BY TypeInit DEF Init
<1>2. doc.notes \in Seq(Note)
  <2>1. clock \in Nat
    BY <1>1, TypeFacts DEF Dates
  <2>2. doc.notes \in [1 .. clock -> Note]
    BY DEF Init
  <2> QED
    BY <2>1, <2>2
<1>3. DatesOf(notes) = DatesOf(doc.notes)
  BY <1>1, <1>2, SortedListType
<1> QED
  BY <1>1, <1>3 DEF NothingVanishes, AppliedInv

LEMMA VanishStep ==
    TypeInv /\ DeletionInv /\ EditInv /\ NothingVanishes /\ AppliedInv /\ [Next]_vars =>
        NothingVanishes' /\ AppliedInv'
<1> DEFINE Goal ==
        /\ DatesOf(doc'.notes) \subseteq
              DatesOf(notes') \cup DatesOf(deletedNotes') \cup Unconfirmed'
        /\ \A r \in Requests : IsDeletion(r)' /\ r \in applied' =>
              DatesOf(doc'.notes) \subseteq DatesOf(notes') \cup Unconfirmed'
<1> SUFFICES ASSUME TypeInv, DeletionInv, EditInv, NothingVanishes, AppliedInv, [Next]_vars,
                    ~ hurried'
             PROVE  Goal
  BY DEF NothingVanishes, AppliedInv, Unconfirmed
<1>0. ~ hurried
  BY HurryStays
<1>1. /\ notes \in Seq(Note) /\ deletedNotes \in Seq(Note) /\ mainQueue \in Seq(Blocks)
      /\ DOMAIN rows \subseteq DOMAIN notes /\ IsDocument(doc)
  BY TypeFacts
<1>2. DatesOf(doc.notes) \subseteq DatesOf(notes) \cup DatesOf(deletedNotes) \cup Unconfirmed
  BY <1>0 DEF NothingVanishes, Unconfirmed
<1>3. \A r \in Requests : IsDeletion(r) /\ r \in applied =>
         DatesOf(doc.notes) \subseteq DatesOf(notes) \cup Unconfirmed
  BY <1>0 DEF AppliedInv
<1>4. /\ \A r \in Requests : IsDeletion(r) => asked[r].creationDates = DatesOf(deletedNotes)
      /\ isEditing \/ deleteInProgress => ~ IsQueued(mainQueue, "restoreDeletedNotes")
      /\ isEditing => ~ deleteInProgress
  BY <1>0 DEF EditInv, Settled
<1>5. \A r \in Requests : IsDeletion(r)' /\ r \in applied' => IsDeletion(r) /\ deleteInProgress
  BY DeletionsInStep
<1>6. ASSUME applied' = applied,
             DatesOf(doc'.notes) \subseteq DatesOf(doc.notes) \cup Unconfirmed',
             DatesOf(notes) \cup DatesOf(deletedNotes) \cup Unconfirmed \subseteq
                 DatesOf(notes') \cup DatesOf(deletedNotes') \cup Unconfirmed',
             deleteInProgress => DatesOf(notes) \cup Unconfirmed \subseteq
                                     DatesOf(notes') \cup Unconfirmed'
      PROVE  Goal
  <2>1. DatesOf(doc'.notes) \subseteq
            DatesOf(notes') \cup DatesOf(deletedNotes') \cup Unconfirmed'
    BY <1>2, <1>6
  <2>2. ASSUME NEW r \in Requests, IsDeletion(r)', r \in applied'
        PROVE  DatesOf(doc'.notes) \subseteq DatesOf(notes') \cup Unconfirmed'
    BY <1>3, <1>5, <1>6, <2>2
  <2> QED
    BY <2>1, <2>2
<1>7. ASSUME UNCHANGED <<doc, applied, notes, deletedNotes>>, Unconfirmed \subseteq Unconfirmed'
      PROVE  Goal
  BY <1>6, <1>7
<1>8. ASSUME NEW r \in Requests, NEW comment \in Comments, AddNote(r, comment) PROVE Goal
  <2>1. \E op : Log!Ask(r, op)
    BY <1>8 DEF AddNote
  <2> QED
    BY <1>7, <1>8, <2>1, UnconfirmedStep, LogActions DEF AddNote, listVars
<1>9. ASSUME NEW r \in Requests, NEW comment \in Comments, NEW i \in DOMAIN rows,
             NoteChanged(r, i, comment)
      PROVE  Goal
  <2>1. \E op : Log!Ask(r, op)
    BY <1>9 DEF NoteChanged
  <2> QED
    BY <1>7, <1>9, <2>1, UnconfirmedStep, LogActions DEF NoteChanged, listVars
<1>10. CASE StartEditing
  BY <1>7, <1>10, UnconfirmedStep DEF StartEditing, listVars, logVars
<1>11. ASSUME isEditing, EndEditing, deletedNotes' \in Seq(Note),
              DatesOf(notes) \cup DatesOf(deletedNotes) \subseteq
                  DatesOf(notes') \cup DatesOf(deletedNotes')
       PROVE  Goal
  <2>1. UNCHANGED <<doc, applied, answer>>
    BY <1>11, EndEditingCases
  <2>2. UNCHANGED <<asked, answer>> \/ \E r \in Requests : \E op : Log!Ask(r, op)
    BY <1>11, <2>1, EndEditingCases
  <2>3. Unconfirmed \subseteq Unconfirmed'
    BY <2>2, UnconfirmedStep
  <2>4. ~ deleteInProgress
    BY <1>4, <1>11
  <2> QED
    BY <1>6, <1>11, <2>1, <2>3, <2>4
<1>12. CASE Done
  BY <1>1, <1>11, <1>12 DEF Done, listVars
<1>13. ASSUME notes' \in Sortings(notes \o deletedNotes)
       PROVE  DatesOf(notes') = DatesOf(notes) \cup DatesOf(deletedNotes)
  <2>1. PICK list : list = notes' /\ list \in Sortings(notes \o deletedNotes)
    BY <1>13
  <2>2. notes \o deletedNotes \in Seq(Note)
    BY <1>1, ConcatElements
  <2>3. DatesOf(list) = DatesOf(notes \o deletedNotes)
    BY <2>1, <2>2, SortedListType
  <2>4. DatesOf(notes \o deletedNotes) = DatesOf(notes) \cup DatesOf(deletedNotes)
    BY <1>1, DatesOfConcat
  <2>5. DatesOf(notes') = DatesOf(list)
    BY <2>1
  <2> QED
    BY <2>3, <2>4, <2>5
<1>14. CASE Cancel
  <2>1. /\ isEditing /\ EndEditing /\ notes' \in Sortings(notes \o deletedNotes)
        /\ deletedNotes' = << >>
    BY <1>14 DEF Cancel, RestoreDeletedNotes
  <2>2. deletedNotes' \in Seq(Note)
    BY <2>1
  <2> QED
    BY <1>11, <1>13, <2>1, <2>2
<1>15. CASE DeleteAll
  <2>1. /\ isEditing /\ UNCHANGED logVars /\ deletedNotes' = deletedNotes \o notes
    BY <1>15 DEF DeleteAll
  <2>2. DatesOf(deletedNotes') = DatesOf(deletedNotes) \cup DatesOf(notes)
    BY <1>1, <2>1, DatesOfConcat
  <2>3. Unconfirmed \subseteq Unconfirmed'
    BY <2>1, UnconfirmedStep DEF logVars
  <2> QED
    BY <1>4, <1>6, <2>1, <2>2, <2>3 DEF logVars
<1>16. ASSUME NEW i \in DOMAIN rows, SwipeDelete(i) PROVE Goal
  <2>1. isEditing /\ UNCHANGED logVars
    BY <1>16 DEF SwipeDelete
  <2>2. Unconfirmed \subseteq Unconfirmed'
    BY <2>1, UnconfirmedStep DEF logVars
  <2>3. CASE UNCHANGED listVars
    BY <1>7, <2>1, <2>2, <2>3 DEF logVars, listVars
  <2>4. CASE deletedNotes' = Append(deletedNotes, notes[i]) /\ notes' = RemoveAt(notes, i)
    <3>1. i \in DOMAIN notes /\ notes[i] \in Note
      BY <1>1
    <3>2. DatesOf(notes) = DatesOf(notes') \cup {notes[i].creationDate}
      BY <1>1, <2>4, <3>1, DatesOfRemoval
    <3>3. DatesOf(deletedNotes') = DatesOf(deletedNotes) \cup {notes[i].creationDate}
      <4>1. <<notes[i]>> \in Seq(Note) /\ DatesOf(<<notes[i]>>) = {notes[i].creationDate}
        BY <3>1 DEF DatesOf
      <4>2. deletedNotes' = deletedNotes \o <<notes[i]>>
        BY <1>1, <2>4, <3>1
      <4>3. PICK one \in Seq(Note) : one = <<notes[i]>>
        BY <4>1
      <4>4. DatesOf(deletedNotes \o one) = DatesOf(deletedNotes) \cup DatesOf(one)
        BY <1>1, DatesOfConcat
      <4>5. deletedNotes' = deletedNotes \o one
        BY <4>2, <4>3
      <4> QED
        BY <4>1, <4>3, <4>4, <4>5
    <3> QED
      BY <1>4, <1>6, <2>1, <2>2, <3>2, <3>3 DEF logVars
  <2> QED
    BY <1>16, <2>3, <2>4 DEF SwipeDelete
<1>17. ASSUME NEW r \in Requests, AppendSucceeds(r) PROVE Goal
  <2>1. /\ IsAppending(asked[r]) /\ Log!Confirm(r) /\ notes' = <<asked[r].note>> \o notes
        /\ UNCHANGED deletedNotes
    BY <1>17 DEF AppendSucceeds
  <2>2. UNCHANGED <<doc, applied>>
    BY <2>1, LogActions
  <2>3. DatesOf(notes') = {asked[r].note.creationDate} \cup DatesOf(notes)
    <3>1. asked[r].note \in Note
      BY <2>1, TypeFacts
    <3>2. <<asked[r].note>> \in Seq(Note)
          /\ DatesOf(<<asked[r].note>>) = {asked[r].note.creationDate}
      BY <3>1 DEF DatesOf
    <3>3. PICK one \in Seq(Note) : one = <<asked[r].note>>
      BY <3>2
    <3>4. DatesOf(one \o notes) = DatesOf(one) \cup DatesOf(notes)
      BY <1>1, DatesOfConcat
    <3>5. notes' = one \o notes
      BY <2>1, <3>3
    <3> QED
      BY <3>2, <3>3, <3>4, <3>5
  <2>4. Unconfirmed \subseteq Unconfirmed' \cup {asked[r].note.creationDate}
    BY <2>1, UnconfirmedAfterConfirm
  <2> QED
    BY <1>6, <2>1, <2>2, <2>3, <2>4
<1>18. ASSUME NEW r \in Requests, UpdateSucceeds(r) PROVE Goal
  <2>1. /\ IsCall(r, "updateNoteOfDevice") /\ Log!Confirm(r) /\ UNCHANGED deletedNotes
        /\ notes' = notes \/ notes' = ReplaceComment(notes, asked[r].note)
    BY <1>18 DEF UpdateSucceeds
  <2>2. UNCHANGED <<doc, applied>>
    BY <2>1, LogActions
  <2>3. ~ IsAppending(asked[r])
    BY <2>1 DEF IsAppending, AppendingKinds, IsCall
  <2>4. Unconfirmed \subseteq Unconfirmed'
    BY <2>1, <2>3, UnconfirmedStep
  <2>5. DatesOf(notes') = DatesOf(notes)
    BY <2>1, DatesOfEdit
  <2> QED
    BY <1>6, <2>1, <2>2, <2>4, <2>5
<1>19. ASSUME NEW r \in Requests, DeleteSucceeds(r) PROVE Goal
  <2>1. /\ IsCall(r, "deleteNotesOfDevice") /\ Log!Confirm(r) /\ UNCHANGED notes
    BY <1>19 DEF DeleteSucceeds
  <2>2. UNCHANGED <<doc, applied>> /\ r \in applied
    BY <2>1, LogActions
  <2>3. IsDeletion(r) /\ \A q \in Requests : ~ IsDeletion(q)'
    BY <2>1, DeletionEnds
  <2>4. ~ IsAppending(asked[r])
    BY <2>1 DEF IsAppending, AppendingKinds, IsCall
  <2>5. Unconfirmed \subseteq Unconfirmed'
    BY <2>1, <2>4, UnconfirmedStep
  <2>6. DatesOf(doc.notes) \subseteq DatesOf(notes) \cup Unconfirmed
    BY <1>3, <2>2, <2>3
  <2> QED
    BY <2>1, <2>2, <2>3, <2>5, <2>6
<1>20. ASSUME NEW r \in Requests, CallFails(r) \/ DeleteFails(r) PROVE Goal
  <2>1. Log!Refuse(r) /\ UNCHANGED listVars
    BY <1>20 DEF CallFails, DeleteFails
  <2>2. UNCHANGED <<doc, applied>> /\ Unconfirmed \subseteq Unconfirmed'
    BY <2>1, LogActions, UnconfirmedStep
  <2> QED
    BY <1>7, <2>1, <2>2 DEF listVars
<1>21. CASE RunBlock
  <2>1. /\ mainQueue # << >> /\ UNCHANGED logVars
        /\ \/ UNCHANGED <<notes, deletedNotes>>
           \/ /\ Head(mainQueue) = "restoreDeletedNotes" /\ deletedNotes' = << >>
              /\ notes' \in Sortings(notes \o deletedNotes)
    BY <1>21, BlockCases
  <2>2. Unconfirmed \subseteq Unconfirmed'
    BY <2>1, UnconfirmedStep DEF logVars
  <2>3. CASE UNCHANGED <<notes, deletedNotes>>
    BY <1>7, <2>1, <2>2, <2>3 DEF logVars
  <2>4. CASE /\ Head(mainQueue) = "restoreDeletedNotes"
             /\ notes' \in Sortings(notes \o deletedNotes)
    <3>1. ~ deleteInProgress
      BY <1>1, <1>4, <2>1, <2>4, QueueTail
    <3>2. DatesOf(notes') = DatesOf(notes) \cup DatesOf(deletedNotes)
      BY <1>13, <2>4
    <3> QED
      BY <1>6, <2>1, <2>2, <3>1, <3>2 DEF logVars
  <2> QED
    BY <2>1, <2>3, <2>4
<1>22. ASSUME NEW r \in Requests, ServerApplies(r) PROVE Goal
  <2>1. /\ asked[r] # NoOperation /\ answer[r] # "ok" /\ doc' = Effect(doc, asked[r])
        /\ applied' = applied \cup {r} /\ UNCHANGED <<asked, answer>>
        /\ UNCHANGED <<notes, deletedNotes>>
    BY <1>22, LogActions DEF ServerApplies, listVars
  <2>2. asked[r] \in Operation
    BY <2>1, TypeFacts
  <2>3. Unconfirmed \subseteq Unconfirmed'
    BY <2>1, UnconfirmedStep
  <2>4. IsAppending(asked[r]) \/ IsCall(r, "updateNoteOfDevice") \/ IsCall(r, "deleteNotesOfDevice")
    BY <2>2 DEF Operation, AppendingOperation, TransactionOperation, IsAppending, AppendingKinds,
                IsCall
  <2>5. CASE IsAppending(asked[r]) \/ IsCall(r, "updateNoteOfDevice")
    <3>1. DatesOf(doc'.notes) \subseteq DatesOf(doc.notes) \cup Unconfirmed
      <4>1. CASE IsAppending(asked[r])
        <5>1. DatesOf(doc'.notes) = DatesOf(doc.notes) \cup {asked[r].note.creationDate}
          BY <1>1, <2>1, <2>2, <4>1, DatesOfEffect
        <5>2. asked[r].note.creationDate \in Unconfirmed
          BY <2>1, <4>1 DEF Unconfirmed
        <5> QED
          BY <5>1, <5>2
      <4>2. CASE IsCall(r, "updateNoteOfDevice")
        BY <1>1, <2>1, <2>2, <4>2, DatesOfEffect DEF IsCall
      <4> QED
        BY <2>5, <4>1, <4>2
    <3>2. ~ IsDeletion(r)
      BY <2>5 DEF IsDeletion, IsCall, IsAppending, AppendingKinds
    <3>3. \A q \in Requests : IsDeletion(q)' /\ q \in applied' => q \in applied /\ IsDeletion(q)
      BY <1>5, <2>1, <3>2
    <3> QED
      BY <1>2, <1>3, <2>1, <2>3, <3>1, <3>3
  <2>6. CASE IsCall(r, "deleteNotesOfDevice")
    <3>1. DatesOf(doc'.notes) = DatesOf(doc.notes) \ asked[r].creationDates
      BY <1>1, <2>1, <2>2, <2>6, DatesOfEffect DEF IsCall
    <3>2. IsDeletion(r) => DatesOf(doc'.notes) \subseteq DatesOf(notes) \cup Unconfirmed
      <4>1. IsDeletion(r) => asked[r].creationDates = DatesOf(deletedNotes)
        BY <1>4
      <4> QED
        BY <1>2, <3>1, <4>1
    <3>3. \A q \in Requests : IsDeletion(q)' /\ q \in applied' => (q \in applied \/ q = r) /\ IsDeletion(q)
      BY <1>5, <2>1
    <3>4. DatesOf(doc'.notes) \subseteq DatesOf(doc.notes)
      BY <3>1
    <3> QED
      BY <1>2, <1>3, <2>1, <2>3, <3>2, <3>3, <3>4
  <2> QED
    BY <2>4, <2>5, <2>6
<1>23. ASSUME NEW dates \in (SUBSET Dates) \ {{}}, OthersDelete(dates) PROVE Goal
  <2>1. /\ doc' = WriteNotes(doc, RemoveDates(doc.notes, dates))
        /\ UNCHANGED <<asked, answer, applied, notes, deletedNotes>>
    BY <1>23 DEF OthersDelete, listVars
  <2>2. DatesOf(doc'.notes) = DatesOf(doc.notes) \ dates
    BY <2>1, DatesOfRemovedDates DEF WriteNotes
  <2>3. Unconfirmed \subseteq Unconfirmed'
    BY <2>1, UnconfirmedStep
  <2> QED
    BY <1>6, <2>1, <2>2, <2>3
<1>24. CASE Tick \/ UNCHANGED vars
  <2>1. UNCHANGED logVars /\ UNCHANGED listVars
    BY <1>24 DEF Tick, vars
  <2> QED
    BY <1>7, <2>1, UnconfirmedStep DEF logVars, listVars
<1>25. CASE User
  BY <1>8, <1>9, <1>10, <1>12, <1>14, <1>15, <1>16, <1>25 DEF User
<1>26. ASSUME NEW r \in Requests, Handler(r) PROVE Goal
  BY <1>17, <1>18, <1>19, <1>20, <1>26 DEF Handler
<1> QED
  BY <1>21, <1>22, <1>23, <1>24, <1>25, <1>26 DEF Next

(* No note of the cloud disappears from the user's sight: of a user who    *)
(* waits for the end of a deletion every note of the document is in the    *)
(* list, struck off, or of an append that is not confirmed, whatever calls *)
(* fail, take effect twice or are answered in between.  (For one who does  *)
(* not wait the handler of NotesViewController.swift:70 drops what was     *)
(* struck off meanwhile.)                                                  *)
THEOREM NothingEverVanishes == Spec => []NothingVanishes
  BY VanishInit, VanishStep, TypeInit, TypeStep, SettledInit, DeletionStep, EditStep,
     PTL DEF Spec

-----------------------------------------------------------------------------
(* No phantoms.                                                            *)

IsTwin(list, date) ==
    \E i, j \in DOMAIN list :
        i # j /\ list[i].creationDate = date /\ list[j].creationDate = date

LEMMA TwinOfConcat ==
    ASSUME NEW S, NEW a \in Seq(S), NEW b \in Seq(S), NEW date, IsTwin(a \o b, date)
    PROVE  IsTwin(a, date) \/ IsTwin(b, date) \/ date \in DatesOf(a) \cap DatesOf(b)
<1> DEFINE c == a \o b
<1>1. /\ \A i \in DOMAIN a : c[i] = a[i]
      /\ \A i \in DOMAIN b : c[Len(a) + i] = b[i]
      /\ \A i \in DOMAIN c : \/ i \in DOMAIN a
                             \/ i - Len(a) \in DOMAIN b /\ Len(a) + (i - Len(a)) = i
  BY ConcatElements
<1>2. PICK i \in DOMAIN c, j \in DOMAIN c :
         i # j /\ c[i].creationDate = date /\ c[j].creationDate = date
  BY DEF IsTwin
<1> HIDE DEF c
<1>3. ASSUME NEW k \in DOMAIN c, k \notin DOMAIN a
      PROVE  \E m \in DOMAIN b : c[k] = b[m] /\ k = Len(a) + m
  BY <1>1, <1>3
<1>4. CASE i \in DOMAIN a /\ j \in DOMAIN a
  BY <1>1, <1>2, <1>4 DEF IsTwin
<1>5. CASE i \in DOMAIN a /\ j \notin DOMAIN a
  BY <1>1, <1>2, <1>3, <1>5 DEF DatesOf
<1>6. CASE i \notin DOMAIN a /\ j \in DOMAIN a
  BY <1>1, <1>2, <1>3, <1>6 DEF DatesOf
<1>7. CASE i \notin DOMAIN a /\ j \notin DOMAIN a
  BY <1>2, <1>3, <1>7 DEF IsTwin
<1> QED
  BY <1>4, <1>5, <1>6, <1>7

LEMMA TwinOfSorting ==
    ASSUME NEW S, NEW list \in Seq(S), NEW q \in Sortings(list), NEW date, IsTwin(q, date)
    PROVE  IsTwin(list, date)
<1>1. PICK p \in Bijection(DOMAIN list, DOMAIN list) : q = [i \in DOMAIN list |-> list[p[i]]]
  BY SortingElements
<1>2. /\ p \in [DOMAIN list -> DOMAIN list]
      /\ \A i, j \in DOMAIN list : p[i] = p[j] => i = j
  BY <1>1 DEF Bijection, Injection, IsInjective
<1> QED
  BY <1>1, <1>2 DEF IsTwin

LEMMA TwinOfRemoval ==
    ASSUME NEW S, NEW q \in Seq(S), NEW i \in DOMAIN q
    PROVE  /\ \A date : IsTwin(RemoveAt(q, i), date) => IsTwin(q, date)
           /\ q[i].creationDate \in DatesOf(RemoveAt(q, i)) => IsTwin(q, q[i].creationDate)
<1> DEFINE t == RemoveAt(q, i)
           old(j) == IF j < i THEN j ELSE j + 1
<1>1. /\ DOMAIN q = 1 .. Len(q) /\ Len(q) \in Nat
      /\ DOMAIN t = 1 .. Len(q) - 1
      /\ \A j \in 1 .. Len(q) - 1 : t[j] = IF j < i THEN q[j] ELSE q[j + 1]
  BY RemoveAtElements
<1> HIDE DEF t
<1>2. \A j \in DOMAIN t : old(j) \in DOMAIN q /\ old(j) # i /\ t[j] = q[old(j)]
  BY <1>1
<1>3. \A j, k \in DOMAIN t : j # k => old(j) # old(k)
  BY <1>1
<1> HIDE DEF old
<1> QED
  BY <1>2, <1>3 DEF IsTwin, DatesOf, t

LEMMA TwinOfEdit ==
    ASSUME NEW list, NEW note, NEW date, IsTwin(ReplaceComment(list, note), date)
    PROVE  IsTwin(list, date)
<1>1. /\ DOMAIN ReplaceComment(list, note) = DOMAIN list
      /\ \A s \in DOMAIN list :
            ReplaceComment(list, note)[s].creationDate = list[s].creationDate
  BY DEF ReplaceComment, IsFirstIndex
<1> QED
  BY <1>1 DEF IsTwin

(* A call is made once, an append with the date of the moment, and is      *)
(* answered once.                                                          *)
LEMMA CallsPersist ==
    ASSUME TypeInv, [Next]_vars
    PROVE  /\ clock <= clock' /\ clock \in Nat
           /\ \A r \in Requests : asked[r] # NoOperation => asked'[r] = asked[r]
           /\ \A r \in Requests : asked[r] = NoOperation /\ IsAppending(asked'[r]) =>
                 asked'[r].note.creationDate = clock
           /\ \A r \in Requests : answer[r] # "none" => answer'[r] = answer[r]
<1> DEFINE Calls ==
        /\ \A q \in Requests : asked[q] # NoOperation => asked'[q] = asked[q]
        /\ \A q \in Requests : asked[q] = NoOperation /\ IsAppending(asked'[q]) =>
              asked'[q].note.creationDate = clock
        /\ \A q \in Requests : answer[q] # "none" => answer'[q] = answer[q]
<1>1. /\ asked \in [Requests -> Operation \cup {NoOperation}]
      /\ answer \in [Requests -> {"none", "ok", "failed"}]
  BY TypeFacts
<1>2. ~ IsAppending(NoOperation)
  BY DEF IsAppending, AppendingKinds, NoOperation
<1>3. ASSUME UNCHANGED <<asked, answer>> PROVE Calls
  <2>1. asked' = asked /\ answer' = answer
    BY <1>3
  <2>2. \A q \in Requests : asked[q] = NoOperation => ~ IsAppending(asked'[q])
    BY <2>1 DEF IsAppending, AppendingKinds, NoOperation
  <2> QED
    BY <2>1, <2>2
<1>4. ASSUME NEW r \in Requests, NEW op, Log!Ask(r, op),
             IsAppending(op) => op.note.creationDate = clock
      PROVE  Calls
  <2>1. /\ asked[r] = NoOperation /\ UNCHANGED answer
        /\ \A q \in Requests : asked'[q] = IF q = r THEN op ELSE asked[q]
    BY <1>1, <1>4, LogActions
  <2> QED
    BY <1>2, <1>4, <2>1
<1>5. ASSUME NEW r \in Requests, Log!Confirm(r) \/ Log!Refuse(r) PROVE Calls
  <2>1. /\ UNCHANGED asked /\ answer[r] = "none"
        /\ \A q \in Requests : q # r => answer'[q] = answer[q]
    BY <1>1, <1>5, LogActions
  <2> QED
    BY <1>2, <2>1
<1>6. clock \in Nat
  BY TypeFacts DEF Dates
<1>7. clock' = clock \/ clock' = clock + 1
  BY BlockCases
     DEF Next, User, Handler, AddNote, NoteChanged, StartEditing, Done, DeleteAll, SwipeDelete,
         Cancel, AppendSucceeds, UpdateSucceeds, DeleteSucceeds, CallFails, DeleteFails,
         RunBlock, ServerApplies, OthersDelete, Tick, vars
<1>8. ASSUME NEW r \in Requests, NEW comment \in Comments, AddNote(r, comment) PROVE Calls
  <2> DEFINE op == [kind |-> "addNoteToDevice",
                    note |-> [creationDate |-> clock, comment |-> comment]]
  <2>1. op.note.creationDate = clock
    OBVIOUS
  <2> HIDE DEF op
  <2> QED
    BY <1>4, <1>8, <2>1 DEF AddNote, op
<1>9. ASSUME NEW r \in Requests, NEW comment \in Comments, NEW i \in DOMAIN rows,
             NoteChanged(r, i, comment)
      PROVE  Calls
  <2> DEFINE op == [kind |-> "updateNoteOfDevice",
                    note |-> [notes[i] EXCEPT !.comment = comment]]
  <2>1. ~ IsAppending(op)
    BY DEF IsAppending, AppendingKinds
  <2> HIDE DEF op
  <2> QED
    BY <1>4, <1>9, <2>1 DEF NoteChanged, op
<1>10. ASSUME EndEditing, deletedNotes' \in Seq(Note) PROVE Calls
  <2>1. UNCHANGED answer
    BY <1>10, EndEditingCases
  <2>2. CASE UNCHANGED asked
    BY <1>3, <2>1, <2>2
  <2>3. CASE \E r \in Requests, op \in Operation :
                op.kind = "deleteNotesOfDevice" /\ Log!Ask(r, op)
    <3>1. PICK r \in Requests, op \in Operation :
             op.kind = "deleteNotesOfDevice" /\ Log!Ask(r, op)
      BY <2>3
    <3>2. ~ IsAppending(op)
      BY <3>1 DEF IsAppending, AppendingKinds
    <3> QED
      BY <1>4, <3>1, <3>2
  <2> QED
    BY <1>10, <2>2, <2>3, EndEditingCases
<1>11. ASSUME Done \/ Cancel PROVE Calls
  <2>1. EndEditing /\ (UNCHANGED deletedNotes \/ deletedNotes' = << >>)
    BY <1>11 DEF Done, Cancel, RestoreDeletedNotes, listVars
  <2>2. deletedNotes \in Seq(Note) /\ << >> \in Seq(Note)
    BY TypeFacts
  <2>3. deletedNotes' \in Seq(Note)
    BY <2>1, <2>2
  <2> QED
    BY <1>10, <2>1, <2>3
<1>12. ASSUME NEW r \in Requests, Handler(r) PROVE Calls
  <2>1. Log!Confirm(r) \/ Log!Refuse(r)
    BY <1>12 DEF Handler, AppendSucceeds, UpdateSucceeds, DeleteSucceeds, CallFails, DeleteFails
  <2> QED
    BY <1>5, <2>1
<1>13. ASSUME NEW r \in Requests, ServerApplies(r) PROVE Calls
  BY <1>3, <1>13, LogActions DEF ServerApplies
<1>14. ASSUME StartEditing \/ DeleteAll \/ (\E i \in DOMAIN rows : SwipeDelete(i)) \/ RunBlock
       PROVE  Calls
  BY <1>3, <1>14, BlockCases DEF StartEditing, DeleteAll, SwipeDelete, logVars
<1>15. ASSUME (\E dates : OthersDelete(dates)) \/ Tick \/ UNCHANGED vars PROVE Calls
  BY <1>3, <1>15 DEF OthersDelete, Tick, vars, logVars
<1>16. Calls
  <2>1. CASE User
    BY <1>8, <1>9, <1>11, <1>14, <2>1 DEF User
  <2> QED
    BY <1>12, <1>13, <1>14, <1>15, <2>1 DEF Next
<1> QED
  BY <1>6, <1>7, <1>16

(* How a step changes the two lists *)
LEMMA ListCases ==
    ASSUME TypeInv, [Next]_vars
    PROVE  \/ UNCHANGED <<notes, deletedNotes>>
           \/ /\ \/ isEditing
                 \/ mainQueue # << >> /\ Head(mainQueue) = "restoreDeletedNotes"
              /\ notes' \in Sortings(notes \o deletedNotes) /\ deletedNotes' = << >>
           \/ isEditing /\ notes' = << >> /\ deletedNotes' = deletedNotes \o notes
           \/ \E i \in DOMAIN notes : /\ isEditing /\ notes' = RemoveAt(notes, i)
                                      /\ deletedNotes' = deletedNotes \o <<notes[i]>>
           \/ \E r \in Requests : AppendSucceeds(r)
           \/ \E r \in Requests : /\ UpdateSucceeds(r) /\ UNCHANGED deletedNotes
                                  /\ notes' = ReplaceComment(notes, asked[r].note)
           \/ UNCHANGED notes /\ deletedNotes' = << >> /\ \E r \in Requests : DeleteSucceeds(r)
<1> DEFINE Goal ==
           \/ UNCHANGED <<notes, deletedNotes>>
           \/ /\ \/ isEditing
                 \/ mainQueue # << >> /\ Head(mainQueue) = "restoreDeletedNotes"
              /\ notes' \in Sortings(notes \o deletedNotes) /\ deletedNotes' = << >>
           \/ isEditing /\ notes' = << >> /\ deletedNotes' = deletedNotes \o notes
           \/ \E i \in DOMAIN notes : /\ isEditing /\ notes' = RemoveAt(notes, i)
                                      /\ deletedNotes' = deletedNotes \o <<notes[i]>>
           \/ \E r \in Requests : AppendSucceeds(r)
           \/ \E r \in Requests : /\ UpdateSucceeds(r) /\ UNCHANGED deletedNotes
                                  /\ notes' = ReplaceComment(notes, asked[r].note)
           \/ UNCHANGED notes /\ deletedNotes' = << >> /\ \E r \in Requests : DeleteSucceeds(r)
<1>1. ASSUME NEW i \in DOMAIN rows, SwipeDelete(i) PROVE Goal
  <2>1. /\ notes \in Seq(Note) /\ deletedNotes \in Seq(Note) /\ i \in DOMAIN notes
    BY TypeFacts
  <2>2. notes[i] \in Note
    BY <2>1
  <2>3. Append(deletedNotes, notes[i]) = deletedNotes \o <<notes[i]>>
    BY <2>1, <2>2
  <2> QED
    BY <1>1, <2>1, <2>3 DEF SwipeDelete, listVars
<1>2. ASSUME NEW r \in Requests, UpdateSucceeds(r) PROVE Goal
  BY <1>2 DEF UpdateSucceeds
<1>3. ASSUME NEW r \in Requests, DeleteSucceeds(r) PROVE Goal
  BY <1>3 DEF DeleteSucceeds
<1>4. CASE Cancel \/ RunBlock
  BY <1>4, BlockCases DEF Cancel, RestoreDeletedNotes
<1>5. CASE DeleteAll
  BY <1>5 DEF DeleteAll
<1>6. CASE \/ \E r \in Requests, comment \in Comments :
                 \/ AddNote(r, comment)
                 \/ \E i \in DOMAIN rows : NoteChanged(r, i, comment)
           \/ StartEditing \/ Done \/ Tick
           \/ UNCHANGED vars
           \/ \E r \in Requests : CallFails(r) \/ DeleteFails(r) \/ ServerApplies(r)
           \/ \E dates : OthersDelete(dates)
  BY <1>6 DEF AddNote, NoteChanged, StartEditing, Done, Tick, vars, CallFails, DeleteFails,
              ServerApplies, OthersDelete, listVars
<1> QED
  BY <1>1, <1>2, <1>3, <1>4, <1>5, <1>6 DEF Next, User, Handler

(* A date that does not tell the notes of the two lists apart *)
IsAmbiguous(a, b, date) ==
    IsTwin(a, date) \/ IsTwin(b, date) \/ date \in DatesOf(a) \cap DatesOf(b)

LEMMA SmallLists ==
    /\ \A date : ~ IsTwin(<< >>, date) /\ date \notin DatesOf(<< >>)
    /\ \A note, date : ~ IsTwin(<<note>>, date)
    /\ \A note \in Note : <<note>> \in Seq(Note) /\ DatesOf(<<note>>) = {note.creationDate}
<1>1. \A date : ~ IsTwin(<< >>, date) /\ date \notin DatesOf(<< >>)
  BY DEF IsTwin, DatesOf
<1>2. \A note, date : ~ IsTwin(<<note>>, date)
  BY DEF IsTwin
<1>3. \A note \in Note : <<note>> \in Seq(Note) /\ DatesOf(<<note>>) = {note.creationDate}
  BY DEF DatesOf
<1> QED
  BY <1>1, <1>2, <1>3

LEMMA ListMoves ==
    ASSUME NEW a \in Seq(Note), NEW b \in Seq(Note)
    PROVE  /\ \A q \in Sortings(a \o b) :
                 /\ DatesOf(q) = DatesOf(a) \cup DatesOf(b)
                 /\ \A date : IsAmbiguous(q, << >>, date) => IsAmbiguous(a, b, date)
           /\ DatesOf(b \o a) = DatesOf(a) \cup DatesOf(b)
           /\ \A date : IsAmbiguous(<< >>, b \o a, date) => IsAmbiguous(a, b, date)
           /\ \A i \in DOMAIN a :
                 /\ DatesOf(a) = DatesOf(RemoveAt(a, i)) \cup {a[i].creationDate}
                 /\ DatesOf(b \o <<a[i]>>) = DatesOf(b) \cup {a[i].creationDate}
                 /\ \A date : IsAmbiguous(RemoveAt(a, i), b \o <<a[i]>>, date) =>
                                 IsAmbiguous(a, b, date)
           /\ \A note \in Note :
                 /\ DatesOf(<<note>> \o a) = DatesOf(a) \cup {note.creationDate}
                 /\ \A date : IsAmbiguous(<<note>> \o a, b, date) =>
                       \/ IsAmbiguous(a, b, date)
                       \/ date = note.creationDate /\ date \in DatesOf(a) \cup DatesOf(b)
           /\ \A note, date : IsAmbiguous(ReplaceComment(a, note), b, date) => IsAmbiguous(a, b, date)
           /\ \A date : IsAmbiguous(a, << >>, date) => IsAmbiguous(a, b, date)
<1>1. /\ DatesOf(a \o b) = DatesOf(a) \cup DatesOf(b)
      /\ DatesOf(b \o a) = DatesOf(a) \cup DatesOf(b)
      /\ a \o b \in Seq(Note)
  BY DatesOfConcat, ConcatElements
<1>2. \A date : IsTwin(a \o b, date) \/ IsTwin(b \o a, date) => IsAmbiguous(a, b, date)
  BY TwinOfConcat DEF IsAmbiguous
<1>3. ASSUME NEW q \in Sortings(a \o b)
      PROVE  /\ DatesOf(q) = DatesOf(a) \cup DatesOf(b)
             /\ \A date : IsAmbiguous(q, << >>, date) => IsAmbiguous(a, b, date)
  <2>1. DatesOf(q) = DatesOf(a) \cup DatesOf(b)
    BY <1>1, DatesOfSorting
  <2>2. \A date : IsTwin(q, date) => IsTwin(a \o b, date)
    BY <1>1, TwinOfSorting
  <2>3. \A date : IsAmbiguous(q, << >>, date) => IsTwin(q, date)
    BY SmallLists DEF IsAmbiguous
  <2> QED
    BY <1>2, <2>1, <2>2, <2>3
<1>4. \A date : IsAmbiguous(<< >>, b \o a, date) => IsAmbiguous(a, b, date)
  <2>1. \A date : IsAmbiguous(<< >>, b \o a, date) => IsTwin(b \o a, date)
    BY SmallLists DEF IsAmbiguous
  <2> QED
    BY <1>2, <2>1
<1>5. ASSUME NEW i \in DOMAIN a
      PROVE  /\ DatesOf(a) = DatesOf(RemoveAt(a, i)) \cup {a[i].creationDate}
             /\ DatesOf(b \o <<a[i]>>) = DatesOf(b) \cup {a[i].creationDate}
             /\ \A date : IsAmbiguous(RemoveAt(a, i), b \o <<a[i]>>, date) =>
                             IsAmbiguous(a, b, date)
  <2>1. /\ DatesOf(a) = DatesOf(RemoveAt(a, i)) \cup {a[i].creationDate}
        /\ \A date : IsTwin(RemoveAt(a, i), date) => IsTwin(a, date)
        /\ a[i].creationDate \in DatesOf(RemoveAt(a, i)) => IsTwin(a, a[i].creationDate)
    BY DatesOfRemoval, TwinOfRemoval
  <2>2. a[i] \in Note
    OBVIOUS
  <2>3. PICK one \in Seq(Note) : one = <<a[i]>>
    BY <2>2, SmallLists
  <2>4. DatesOf(one) = {a[i].creationDate} /\ \A date : ~ IsTwin(one, date)
    BY <2>2, <2>3, SmallLists
  <2>5. DatesOf(b \o one) = DatesOf(b) \cup DatesOf(one)
    BY DatesOfConcat
  <2>6. \A date : IsTwin(b \o one, date) => IsTwin(b, date) \/ date \in DatesOf(b) \cap DatesOf(one)
    BY <2>4, TwinOfConcat
  <2>7. a[i].creationDate \in DatesOf(a)
    BY DEF DatesOf
  <2>8. \A date : IsAmbiguous(RemoveAt(a, i), b \o one, date) => IsAmbiguous(a, b, date)
    <3> SUFFICES ASSUME NEW date, IsAmbiguous(RemoveAt(a, i), b \o one, date)
                 PROVE  IsAmbiguous(a, b, date)
      OBVIOUS
    <3>1. CASE IsTwin(RemoveAt(a, i), date)
      BY <2>1, <3>1 DEF IsAmbiguous
    <3>2. CASE IsTwin(b \o one, date)
      BY <2>4, <2>6, <2>7, <3>2 DEF IsAmbiguous
    <3>3. CASE date \in DatesOf(RemoveAt(a, i)) /\ date \in DatesOf(b \o one)
      <4>1. date \in DatesOf(a) /\ (date \in DatesOf(b) \/ date = a[i].creationDate)
        BY <2>1, <2>4, <2>5, <3>3
      <4> QED
        BY <2>1, <3>3, <4>1 DEF IsAmbiguous
    <3> QED
      BY <3>1, <3>2, <3>3 DEF IsAmbiguous
  <2> QED
    BY <2>1, <2>3, <2>4, <2>5, <2>8
<1>6. ASSUME NEW note \in Note
      PROVE  /\ DatesOf(<<note>> \o a) = DatesOf(a) \cup {note.creationDate}
             /\ \A date : IsAmbiguous(<<note>> \o a, b, date) =>
                   \/ IsAmbiguous(a, b, date)
                   \/ date = note.creationDate /\ date \in DatesOf(a) \cup DatesOf(b)
  <2>1. PICK one \in Seq(Note) : one = <<note>>
    BY SmallLists
  <2>2. DatesOf(one) = {note.creationDate} /\ \A date : ~ IsTwin(one, date)
    BY <2>1, SmallLists
  <2>3. DatesOf(one \o a) = DatesOf(one) \cup DatesOf(a)
    BY DatesOfConcat
  <2>4. \A date : IsTwin(one \o a, date) => IsTwin(a, date) \/ date \in DatesOf(one) \cap DatesOf(a)
    BY <2>2, TwinOfConcat
  <2>5. \A date : IsAmbiguous(one \o a, b, date) =>
           \/ IsAmbiguous(a, b, date)
           \/ date = note.creationDate /\ date \in DatesOf(a) \cup DatesOf(b)
    BY <2>2, <2>3, <2>4 DEF IsAmbiguous
  <2> QED
    BY <2>1, <2>2, <2>3, <2>5
<1>7. \A note, date : IsAmbiguous(ReplaceComment(a, note), b, date) => IsAmbiguous(a, b, date)
  BY TwinOfEdit, DatesOfEdit DEF IsAmbiguous
<1>8. \A date : IsAmbiguous(a, << >>, date) => IsAmbiguous(a, b, date)
  BY SmallLists DEF IsAmbiguous
<1> QED
  BY <1>1, <1>3, <1>4, <1>5, <1>6, <1>7, <1>8

-----------------------------------------------------------------------------
(* A date of one append is older than the calls, or one of an append that  *)
(* is confirmed.                                                           *)
IsOld(date) ==
    date < clock /\ \A q \in Requests : IsAppending(asked[q]) => date < asked[q].note.creationDate

IsKnown(date) ==
    \/ IsOld(date)
    \/ \E q \in Requests : /\ IsAppending(asked[q]) /\ answer[q] = "ok"
                           /\ asked[q].note.creationDate = date

(* A note of the screen was there when the screen opened, or its append    *)
(* has been confirmed; two of one date have two appends.                   *)
OriginInv ==
    /\ \A date \in Dates : IsAmbiguous(notes, deletedNotes, date) => date \in SharedDates
    /\ \A date \in DatesOf(notes) \cup DatesOf(deletedNotes) : IsKnown(date)
    /\ \A r \in Requests : IsCall(r, "updateNoteOfDevice") => IsKnown(asked[r].note.creationDate)

LEMMA SharedPair ==
    ASSUME NEW p \in Requests, NEW q \in Requests, p # q,
           IsAppending(asked[p]), IsAppending(asked[q]),
           asked[p].note.creationDate = asked[q].note.creationDate
    PROVE  asked[p].note.creationDate \in SharedDates
<1> DEFINE pair == <<p, q>>
<1>1. pair \in Requests \X Requests /\ pair[1] = p /\ pair[2] = q
  OBVIOUS
<1> HIDE DEF pair
<1>2. pair \in {x \in Requests \X Requests :
            /\ x[1] # x[2] /\ IsAppending(asked[x[1]]) /\ IsAppending(asked[x[2]])
            /\ asked[x[1]].note.creationDate = asked[x[2]].note.creationDate}
  BY <1>1
<1> QED
  BY <1>1, <1>2 DEF SharedDates

LEMMA SharedStay == TypeInv /\ [Next]_vars => SharedDates \subseteq SharedDates'
<1> SUFFICES ASSUME TypeInv, [Next]_vars, NEW date \in SharedDates PROVE date \in SharedDates'
  OBVIOUS
<1>1. PICK x \in Requests \X Requests :
         /\ x[1] # x[2] /\ IsAppending(asked[x[1]]) /\ IsAppending(asked[x[2]])
         /\ asked[x[1]].note.creationDate = asked[x[2]].note.creationDate
         /\ date = asked[x[1]].note.creationDate
  BY DEF SharedDates
<1>2. \A r \in Requests : IsAppending(asked[r]) => asked'[r] = asked[r]
  BY CallsPersist DEF IsAppending, AppendingKinds, NoOperation
<1>3. asked'[x[1]] = asked[x[1]] /\ asked'[x[2]] = asked[x[2]]
  BY <1>1, <1>2
<1>4. /\ IsAppending(asked'[x[1]]) /\ IsAppending(asked'[x[2]])
      /\ asked'[x[1]].note.creationDate = asked'[x[2]].note.creationDate
      /\ date = asked'[x[1]].note.creationDate
  BY <1>1, <1>3
<1> QED
  BY <1>1, <1>4 DEF SharedDates

LEMMA OldStays ==
    ASSUME TypeInv, [Next]_vars, NEW date \in Dates, IsOld(date)
    PROVE  IsOld(date)'
<1>1. /\ clock <= clock' /\ clock \in Nat /\ clock' \in Nat
      /\ \A r \in Requests : asked[r] # NoOperation => asked'[r] = asked[r]
      /\ \A r \in Requests : asked[r] = NoOperation /\ IsAppending(asked'[r]) =>
            asked'[r].note.creationDate = clock
  <2>1. TypeInv'
    BY TypeStep
  <2>2. clock' \in Dates
    BY <2>1 DEF TypeInv, TypeOK
  <2> QED
    BY <2>2, CallsPersist DEF Dates
<1>2. date \in Nat
  BY DEF Dates
<1>3. date < clock /\ date < clock'
  BY <1>1, <1>2 DEF IsOld
<1>4. ASSUME NEW q \in Requests, IsAppending(asked'[q])
      PROVE  date < asked'[q].note.creationDate
  <2>1. CASE asked[q] = NoOperation
    BY <1>1, <1>3, <1>4, <2>1
  <2>2. CASE asked[q] # NoOperation
    <3>1. asked'[q] = asked[q]
      BY <1>1, <2>2
    <3>2. IsAppending(asked[q])
      BY <1>4, <3>1
    <3> QED
      BY <3>1, <3>2 DEF IsOld
  <2> QED
    BY <2>1, <2>2
<1> QED
  BY <1>3, <1>4 DEF IsOld

LEMMA KnownStays ==
    ASSUME TypeInv, [Next]_vars, NEW date \in Dates, IsKnown(date)
    PROVE  IsKnown(date)'
<1>1. CASE IsOld(date)
  BY <1>1, OldStays DEF IsKnown
<1>2. CASE \E q \in Requests : /\ IsAppending(asked[q]) /\ answer[q] = "ok"
                               /\ asked[q].note.creationDate = date
  <2>1. PICK q \in Requests : /\ IsAppending(asked[q]) /\ answer[q] = "ok"
                              /\ asked[q].note.creationDate = date
    BY <1>2
  <2>2. asked[q] # NoOperation
    BY <2>1 DEF IsAppending, AppendingKinds, NoOperation
  <2>3. asked'[q] = asked[q] /\ answer'[q] = "ok"
    BY <2>1, <2>2, CallsPersist
  <2>4. IsAppending(asked'[q])
    BY <2>1, <2>3
  <2> QED
    BY <2>1, <2>3, <2>4 DEF IsKnown
<1> QED
  BY <1>1, <1>2 DEF IsKnown

(* An unconfirmed append of a known date has a twin. *)
LEMMA KnownAppend ==
    ASSUME TypeInv, NEW r \in Requests, IsAppending(asked[r]), answer[r] # "ok",
           IsKnown(asked[r].note.creationDate)
    PROVE  asked[r].note.creationDate \in SharedDates
<1>1. asked[r].note \in Note
  BY TypeFacts
<1>2. asked[r].note.creationDate \in Nat
  BY <1>1 DEF Note, Dates
<1>3. ~ IsOld(asked[r].note.creationDate)
  BY <1>2 DEF IsOld
<1>4. PICK q \in Requests : /\ IsAppending(asked[q]) /\ answer[q] = "ok"
                            /\ asked[q].note.creationDate = asked[r].note.creationDate
  BY <1>3 DEF IsKnown
<1> QED
  BY <1>4, SharedPair

LEMMA OriginInit == Init => OriginInv
<1> SUFFICES ASSUME Init PROVE OriginInv
  OBVIOUS
<1>1. /\ TypeInv /\ clock \in Nat /\ notes \in Sortings(doc.notes) /\ deletedNotes = << >>
      /\ doc.notes \in [1 .. clock -> Note]
      /\ \A s \in 1 .. clock : doc.notes[s].creationDate = s - 1
  <2>1. TypeInv
    BY TypeInit
  <2>2. clock \in Nat
    BY <2>1, TypeFacts DEF Dates
  <2> QED
    BY <2>1, <2>2 DEF Init
<1>2. /\ doc.notes \in Seq(Note) /\ DOMAIN doc.notes = 1 .. clock
  BY <1>1
<1>3. /\ DatesOf(notes) = DatesOf(doc.notes)
      /\ \A date : IsTwin(notes, date) => IsTwin(doc.notes, date)
  BY <1>1, <1>2, DatesOfSorting, TwinOfSorting
<1>4. \A date : ~ IsTwin(doc.notes, date)
  <2> SUFFICES ASSUME NEW i \in 1 .. clock, NEW j \in 1 .. clock, i # j,
                      doc.notes[i].creationDate = doc.notes[j].creationDate
               PROVE  FALSE
    BY <1>2 DEF IsTwin
  <2>1. i - 1 = j - 1
    BY <1>1
  <2> QED
    BY <1>1, <2>1
<1>5. \A date : ~ IsAmbiguous(notes, deletedNotes, date)
  BY <1>1, <1>3, <1>4, SmallLists DEF IsAmbiguous
<1>6. \A q \in Requests : IsAppending(asked[q]) => asked[q].note.creationDate = clock
  <2>1. CASE asked = [r \in Requests |-> NoOperation]
    BY <2>1 DEF IsAppending, AppendingKinds, NoOperation
  <2>2. CASE \E r \in Requests, o \in AppendingOperation :
                /\ o.kind = "serviceDevice" /\ o.note.creationDate = clock
                /\ asked = [[q \in Requests |-> NoOperation] EXCEPT ![r] = o]
    <3>1. PICK r \in Requests, o \in AppendingOperation :
                /\ o.kind = "serviceDevice" /\ o.note.creationDate = clock
                /\ asked = [[q \in Requests |-> NoOperation] EXCEPT ![r] = o]
      BY <2>2
    <3>2. \A q \in Requests : asked[q] = IF q = r THEN o ELSE NoOperation
      BY <3>1
    <3>3. ~ IsAppending(NoOperation)
      BY DEF IsAppending, AppendingKinds, NoOperation
    <3> QED
      BY <3>1, <3>2, <3>3
  <2> QED
    BY <2>1, <2>2 DEF Init
<1>7. \A date \in DatesOf(doc.notes) : date < clock
  BY <1>1, <1>2 DEF DatesOf
<1>8. \A date \in DatesOf(notes) \cup DatesOf(deletedNotes) : IsKnown(date)
  <2> SUFFICES ASSUME NEW date \in DatesOf(notes) \cup DatesOf(deletedNotes) PROVE IsOld(date)
    BY DEF IsKnown
  <2>1. date < clock
    BY <1>1, <1>3, <1>7, SmallLists
  <2> QED
    BY <1>6, <2>1 DEF IsOld
<1>9. \A r \in Requests : ~ IsCall(r, "updateNoteOfDevice")
  <2>1. CASE asked = [r \in Requests |-> NoOperation]
    BY <2>1 DEF IsCall, NoOperation
  <2>2. CASE \E r \in Requests, o \in AppendingOperation :
                /\ o.kind = "serviceDevice" /\ o.note.creationDate = clock
                /\ asked = [[q \in Requests |-> NoOperation] EXCEPT ![r] = o]
    BY <2>2 DEF IsCall, NoOperation
  <2> QED
    BY <2>1, <2>2 DEF Init
<1> QED
  BY <1>5, <1>8, <1>9 DEF OriginInv

(* The date of an edit is that of a note on the screen. *)
LEMMA EditsOfShownNotes ==
    ASSUME TypeInv, [Next]_vars, NEW r \in Requests, IsCall(r, "updateNoteOfDevice")'
    PROVE  \/ IsCall(r, "updateNoteOfDevice") /\ asked'[r] = asked[r]
           \/ asked'[r].note.creationDate \in DatesOf(notes)
<1>1. /\ asked \in [Requests -> Operation \cup {NoOperation}]
      /\ notes \in Seq(Note) /\ DOMAIN rows \subseteq DOMAIN notes
  BY TypeFacts
<1>2. CASE asked[r] # NoOperation
  <2>1. asked'[r] = asked[r]
    BY <1>2, CallsPersist
  <2> QED
    BY <2>1 DEF IsCall
<1>3. CASE asked[r] = NoOperation
  <2>1. asked'[r].kind = "updateNoteOfDevice"
    BY DEF IsCall
  <2>2. asked' # asked
    BY <1>3, <2>1 DEF NoOperation
  <2>3. ASSUME NEW q \in Requests, NEW op, Log!Ask(q, op)
        PROVE  asked'[r] = op
    <3>1. asked'[r] = IF r = q THEN op ELSE asked[r]
      BY <1>1, <2>3, LogActions
    <3> QED
      BY <1>3, <2>1, <3>1 DEF NoOperation
  <2>4. ASSUME NEW q \in Requests, NEW op, Log!Ask(q, op), op.kind # "updateNoteOfDevice"
        PROVE  FALSE
    BY <2>1, <2>3, <2>4
  <2>5. ASSUME NEW q \in Requests, NEW comment \in Comments, NEW i \in DOMAIN rows,
               NoteChanged(q, i, comment)
        PROVE  asked'[r].note.creationDate \in DatesOf(notes)
    <3> DEFINE note == [notes[i] EXCEPT !.comment = comment]
               op   == [kind |-> "updateNoteOfDevice", note |-> note]
    <3>1. i \in DOMAIN notes /\ notes[i] \in Note
      BY <1>1
    <3>2. op.note.creationDate = notes[i].creationDate
      BY <3>1 DEF Note
    <3> HIDE DEF op
    <3>3. asked'[r] = op
      BY <2>3, <2>5 DEF NoteChanged, op
    <3> QED
      BY <3>1, <3>2, <3>3 DEF DatesOf
  <2>6. ASSUME NEW q \in Requests, NEW comment \in Comments, AddNote(q, comment) PROVE FALSE
    BY <2>4, <2>6 DEF AddNote
  <2>7. ASSUME EndEditing, deletedNotes' \in Seq(Note) PROVE FALSE
    BY <2>2, <2>4, <2>7, EndEditingCases
  <2>8. CASE Done \/ Cancel
    <3>1. EndEditing /\ (UNCHANGED deletedNotes \/ deletedNotes' = << >>)
      BY <2>8 DEF Done, Cancel, RestoreDeletedNotes, listVars
    <3>2. deletedNotes \in Seq(Note) /\ << >> \in Seq(Note)
      BY TypeFacts
    <3> QED
      BY <2>7, <3>1, <3>2
  <2>9. ASSUME NEW q \in Requests, Handler(q) \/ ServerApplies(q) PROVE FALSE
    <3>1. Log!Confirm(q) \/ Log!Refuse(q) \/ Log!Apply(q)
      BY <2>9 DEF Handler, AppendSucceeds, UpdateSucceeds, DeleteSucceeds, CallFails, DeleteFails,
                  ServerApplies
    <3> QED
      BY <2>2, <3>1, LogActions
  <2>10. CASE StartEditing \/ DeleteAll \/ (\E i \in DOMAIN rows : SwipeDelete(i)) \/ RunBlock
    BY <2>2, <2>10, BlockCases DEF StartEditing, DeleteAll, SwipeDelete, logVars
  <2>11. CASE (\E dates : OthersDelete(dates)) \/ Tick \/ UNCHANGED vars
    BY <2>2, <2>11 DEF OthersDelete, Tick, vars, logVars
  <2>12. CASE User
    BY <2>5, <2>6, <2>8, <2>10, <2>12 DEF User
  <2> QED
    BY <2>9, <2>10, <2>11, <2>12 DEF Next
<1> QED
  BY <1>2, <1>3

(* The dates on the screen after a step *)
LEMMA ScreenStep ==
    ASSUME TypeInv, [Next]_vars, NEW a \in Seq(Note), NEW b \in Seq(Note),
           a = notes', b = deletedNotes'
    PROVE  LET screen == DatesOf(notes) \cup DatesOf(deletedNotes)
               news   == {asked[r].note.creationDate : r \in {q \in Requests : AppendSucceeds(q)}}
           IN  /\ DatesOf(a) \cup DatesOf(b) \subseteq screen \cup news
               /\ \A date : IsAmbiguous(a, b, date) =>
                     IsAmbiguous(notes, deletedNotes, date) \/ date \in news \cap screen
<1> DEFINE Screen == DatesOf(notes) \cup DatesOf(deletedNotes)
           News   == {asked[r].note.creationDate : r \in {q \in Requests : AppendSucceeds(q)}}
<1>1. /\ notes \in Seq(Note) /\ deletedNotes \in Seq(Note)
      /\ \A r \in Requests : IsAppending(asked[r]) => asked[r].note \in Note
  BY TypeFacts
<1>2. ASSUME NEW r \in Requests, AppendSucceeds(r)
      PROVE  /\ asked[r].note \in Note
             /\ notes' = <<asked[r].note>> \o notes /\ UNCHANGED deletedNotes
  BY <1>1, <1>2 DEF AppendSucceeds
<1> DEFINE Goal == /\ DatesOf(a) \cup DatesOf(b) \subseteq Screen \cup News
                   /\ \A date : IsAmbiguous(a, b, date) =>
                         IsAmbiguous(notes, deletedNotes, date) \/ date \in News \cap Screen
<1>3. ASSUME NEW r \in Requests, AppendSucceeds(r) PROVE Goal
  <2>1. /\ a = <<asked[r].note>> \o notes /\ b = deletedNotes /\ asked[r].note \in Note
        /\ asked[r].note.creationDate \in News
    BY <1>2, <1>3
  <2> HIDE DEF News
  <2> QED
    BY <1>1, <2>1, ListMoves
<1> HIDE DEF News
<1>4. ASSUME UNCHANGED <<notes, deletedNotes>> PROVE Goal
  BY <1>4
<1>5. ASSUME notes' \in Sortings(notes \o deletedNotes) /\ deletedNotes' = << >> PROVE Goal
  <2>1. a \in Sortings(notes \o deletedNotes) /\ b = << >>
    BY <1>5
  <2> QED
    BY <1>1, <2>1, ListMoves, SmallLists
<1>6. ASSUME notes' = << >> /\ deletedNotes' = deletedNotes \o notes PROVE Goal
  <2>1. a = << >> /\ b = deletedNotes \o notes
    BY <1>6
  <2> QED
    BY <1>1, <2>1, ListMoves, SmallLists
<1>7. ASSUME NEW i \in DOMAIN notes, notes' = RemoveAt(notes, i),
             deletedNotes' = deletedNotes \o <<notes[i]>>
      PROVE  Goal
  <2>1. a = RemoveAt(notes, i) /\ b = deletedNotes \o <<notes[i]>>
    BY <1>7
  <2> QED
    BY <1>1, <2>1, ListMoves
<1>8. ASSUME NEW r \in Requests, UNCHANGED deletedNotes,
             notes' = ReplaceComment(notes, asked[r].note)
      PROVE  Goal
  <2>1. a = ReplaceComment(notes, asked[r].note) /\ b = deletedNotes
    BY <1>8
  <2> QED
    BY <1>1, <2>1, ListMoves, DatesOfEdit
<1>9. ASSUME UNCHANGED notes /\ deletedNotes' = << >> PROVE Goal
  <2>1. a = notes /\ b = << >>
    BY <1>9
  <2> QED
    BY <1>1, <2>1, ListMoves, SmallLists
<1>10. Goal
  BY <1>3, <1>4, <1>5, <1>6, <1>7, <1>8, <1>9, ListCases
<1> QED
  BY <1>10 DEF News

LEMMA OriginStep == TypeInv /\ OriginInv /\ [Next]_vars => OriginInv'
<1> SUFFICES ASSUME TypeInv, OriginInv, [Next]_vars PROVE OriginInv'
  OBVIOUS
<1> DEFINE Screen == DatesOf(notes) \cup DatesOf(deletedNotes)
           News   == {asked[r].note.creationDate : r \in {q \in Requests : AppendSucceeds(q)}}
<1>1. /\ notes \in Seq(Note) /\ deletedNotes \in Seq(Note)
      /\ \A r \in Requests : IsAppending(asked[r]) => asked[r].note \in Note
  BY TypeFacts
<1>2. SharedDates \subseteq SharedDates'
  BY SharedStay
<1>3. \A date \in Dates : IsKnown(date) => IsKnown(date)'
  BY KnownStays
<1>4. Screen \subseteq Dates
  BY <1>1, DatesAreDates
<1>5. ASSUME NEW r \in Requests, AppendSucceeds(r)
      PROVE  /\ IsAppending(asked[r]) /\ asked[r].note \in Note /\ answer[r] # "ok"
             /\ notes' = <<asked[r].note>> \o notes /\ UNCHANGED deletedNotes
             /\ IsKnown(asked[r].note.creationDate)'
  <2>1. /\ IsAppending(asked[r]) /\ Log!Confirm(r) /\ asked[r].note \in Note
        /\ notes' = <<asked[r].note>> \o notes /\ UNCHANGED deletedNotes
    BY <1>1, <1>5 DEF AppendSucceeds
  <2>2. UNCHANGED asked /\ answer[r] = "none" /\ answer'[r] = "ok"
    BY <2>1, TypeFacts, LogActions
  <2>3. IsAppending(asked'[r])
    BY <2>1, <2>2
  <2> QED
    BY <2>1, <2>2, <2>3 DEF IsKnown
<1>6. PICK a \in Seq(Note), b \in Seq(Note) : a = notes' /\ b = deletedNotes'
  BY TypeStep DEF TypeInv, TypeOK
<1>7. /\ DatesOf(a) \cup DatesOf(b) \subseteq Screen \cup News
      /\ \A date : IsAmbiguous(a, b, date) =>
            IsAmbiguous(notes, deletedNotes, date) \/ date \in News \cap Screen
  BY <1>6, ScreenStep
<1>8. ASSUME NEW date \in Dates, IsAmbiguous(a, b, date) PROVE date \in SharedDates'
  <2>1. CASE IsAmbiguous(notes, deletedNotes, date)
    BY <1>2, <2>1 DEF OriginInv
  <2>2. CASE date \in News \cap Screen
    <3>1. PICK r \in Requests : AppendSucceeds(r) /\ date = asked[r].note.creationDate
      BY <2>2
    <3>2. IsKnown(date)
      BY <2>2 DEF OriginInv
    <3>3. IsAppending(asked[r]) /\ answer[r] # "ok"
      BY <1>5, <3>1
    <3>4. asked[r].note.creationDate \in SharedDates
      BY <3>1, <3>2, <3>3, KnownAppend
    <3> QED
      BY <1>2, <3>1, <3>4
  <2> QED
    BY <1>7, <1>8, <2>1, <2>2
<1>9. ASSUME NEW date \in DatesOf(a) \cup DatesOf(b) PROVE IsKnown(date)'
  <2>1. CASE date \in Screen
    BY <1>3, <1>4, <2>1 DEF OriginInv
  <2>2. CASE date \in News
    <3>1. PICK r \in Requests : AppendSucceeds(r) /\ date = asked[r].note.creationDate
      BY <2>2
    <3>2. IsKnown(asked[r].note.creationDate)'
      BY <1>5, <3>1
    <3>3. UNCHANGED asked
      BY <3>1, LogActions DEF AppendSucceeds
    <3> QED
      BY <3>1, <3>2, <3>3
  <2> QED
    BY <1>7, <2>1, <2>2
<1>10. ASSUME NEW r \in Requests, IsCall(r, "updateNoteOfDevice")'
       PROVE  IsKnown(asked[r].note.creationDate)'
  <2>1. CASE IsCall(r, "updateNoteOfDevice") /\ asked'[r] = asked[r]
    <3>1. PICK date \in Dates : date = asked[r].note.creationDate
      BY <2>1, TypeFacts DEF Note
    <3>2. IsKnown(date)'
      BY <1>3, <2>1, <3>1 DEF OriginInv
    <3> QED
      BY <2>1, <3>1, <3>2
  <2>2. CASE asked'[r].note.creationDate \in DatesOf(notes)
    <3>1. PICK date \in DatesOf(notes) : date = asked'[r].note.creationDate
      BY <2>2
    <3>2. IsKnown(date)'
      BY <1>3, <1>4 DEF OriginInv
    <3> QED
      BY <3>1, <3>2
  <2> QED
    BY <1>10, <2>1, <2>2, EditsOfShownNotes
<1>11. \A date \in Dates : IsAmbiguous(notes', deletedNotes', date) => date \in SharedDates'
  BY <1>6, <1>8
<1>12. \A date \in DatesOf(notes') \cup DatesOf(deletedNotes') : IsKnown(date)'
  BY <1>6, <1>9
<1> QED
  BY <1>10, <1>11, <1>12 DEF OriginInv

(* How a step changes the document *)
LEMMA DocumentCases ==
    ASSUME TypeInv, [Next]_vars
    PROVE  \/ UNCHANGED <<doc, applied>>
           \/ \E r \in Requests : ServerApplies(r)
           \/ \E dates \in (SUBSET Dates) \ {{}} : OthersDelete(dates)
<1>1. CASE User
  <2>1. ASSUME EndEditing PROVE UNCHANGED <<doc, applied>>
    BY <2>1 DEF EndEditing
  <2> QED
    BY <1>1, <2>1, LogActions
       DEF User, AddNote, NoteChanged, StartEditing, Done, DeleteAll, SwipeDelete, Cancel, logVars
<1>2. ASSUME NEW r \in Requests, Handler(r) PROVE UNCHANGED <<doc, applied>>
  BY <1>2, LogActions
     DEF Handler, AppendSucceeds, UpdateSucceeds, DeleteSucceeds, CallFails, DeleteFails
<1>3. CASE RunBlock \/ Tick \/ UNCHANGED vars
  BY <1>3, BlockCases DEF Tick, vars, logVars
<1> QED
  BY <1>1, <1>2, <1>3 DEF Next

LEMMA AnswerCases ==
    ASSUME TypeInv, [Next]_vars
    PROVE  /\ UNCHANGED answer \/ \E q \in Requests : Handler(q)
           /\ \A q \in Requests : Handler(q) => Log!Confirm(q) \/ Log!Refuse(q)
<1>1. ASSUME NEW q \in Requests, Handler(q) PROVE Log!Confirm(q) \/ Log!Refuse(q)
  BY <1>1 DEF Handler, AppendSucceeds, UpdateSucceeds, DeleteSucceeds, CallFails, DeleteFails
<1>2. ASSUME User PROVE UNCHANGED answer
  <2>1. ASSUME EndEditing PROVE UNCHANGED answer
    BY <2>1 DEF EndEditing
  <2> QED
    BY <1>2, <2>1, LogActions
       DEF User, AddNote, NoteChanged, StartEditing, Done, DeleteAll, SwipeDelete, Cancel, logVars
<1>3. ASSUME RunBlock \/ Tick \/ UNCHANGED vars \/ (\E dates : OthersDelete(dates))
                 \/ (\E q \in Requests : ServerApplies(q))
      PROVE  UNCHANGED answer
  BY <1>3, BlockCases, LogActions DEF Tick, vars, logVars, OthersDelete, ServerApplies
<1> QED
  BY <1>1, <1>2, <1>3 DEF Next

LEMMA FaultsStay == TypeInv /\ [Next]_vars /\ faults' = 0 => faults = 0
<1> SUFFICES ASSUME TypeInv, [Next]_vars, faults' = 0 PROVE faults = 0
  OBVIOUS
<1>1. faults \in Nat
  BY ScreenBounds DEF TypeInv, TypeOK
<1>2. faults' = faults \/ faults' = faults + 1
  BY BlockCases
     DEF Next, User, Handler, AddNote, NoteChanged, StartEditing, Done, DeleteAll, SwipeDelete,
         Cancel, AppendSucceeds, UpdateSucceeds, DeleteSucceeds, CallFails, DeleteFails,
         FailureHasCause, ServerApplies, OthersDelete, Tick, vars
<1> QED
  BY <1>1, <1>2

(* A call that fails without a fault could not be applied. *)
LEMMA FailuresWithoutFault ==
    ASSUME TypeInv, [Next]_vars, faults' = 0, NEW r \in Requests,
           answer'[r] = "failed", answer[r] # "failed"
    PROVE  /\ r \notin applied /\ ~ Applicable(doc, asked[r]) /\ asked[r] # NoOperation
           /\ UNCHANGED <<doc, asked, applied>>
<1>1. answer \in [Requests -> {"none", "ok", "failed"}] /\ faults = 0
  BY TypeFacts, FaultsStay
<1>2. ASSUME NEW q \in Requests, CallFails(q) \/ DeleteFails(q)
      PROVE  /\ r \notin applied /\ ~ Applicable(doc, asked[r]) /\ asked[r] # NoOperation
             /\ UNCHANGED <<doc, asked, applied>>
  <2>1. Log!Refuse(q) /\ FailureHasCause(q)
    BY <1>2 DEF CallFails, DeleteFails
  <2>2. q = r /\ asked[q] # NoOperation /\ UNCHANGED <<doc, asked, applied>>
    BY <1>1, <2>1, LogActions
  <2>3. q \notin applied /\ ~ Applicable(doc, asked[q])
    BY <1>1, <2>1 DEF FailureHasCause
  <2> QED
    BY <2>2, <2>3
<1>3. ASSUME NEW q \in Requests,
             AppendSucceeds(q) \/ UpdateSucceeds(q) \/ DeleteSucceeds(q)
      PROVE  FALSE
  <2>1. Log!Confirm(q)
    BY <1>3 DEF AppendSucceeds, UpdateSucceeds, DeleteSucceeds
  <2> QED
    BY <1>1, <2>1, LogActions
<1>4. ASSUME UNCHANGED answer PROVE FALSE
  BY <1>4
<1>5. ASSUME UNCHANGED answer \/ \E q \in Requests : Handler(q)
      PROVE  /\ r \notin applied /\ ~ Applicable(doc, asked[r]) /\ asked[r] # NoOperation
             /\ UNCHANGED <<doc, asked, applied>>
  BY <1>2, <1>3, <1>4, <1>5 DEF Handler
<1> QED
  BY <1>5, AnswerCases

(* The array exists before there is a note, or a call to change one, so    *)
(* that without a fault no deletion fails.                                 *)
FieldInv ==
    /\ DatesOf(notes) \cup DatesOf(deletedNotes) # {} \/ applied # {} => doc.hasNotes
    /\ \A r \in Requests : ~ IsAppending(asked[r]) /\ asked[r] # NoOperation => doc.hasNotes
    /\ faults = 0 => \A r \in Requests : IsCall(r, "deleteNotesOfDevice") => answer[r] # "failed"

LEMMA FieldInit == Init => FieldInv
<1> SUFFICES ASSUME Init PROVE FieldInv
  OBVIOUS
<1>1. /\ TypeInv /\ clock \in Nat /\ notes \in Sortings(doc.notes) /\ deletedNotes = << >>
      /\ doc.notes \in [1 .. clock -> Note] /\ doc.hasNotes = (clock > 0) /\ applied = {}
      /\ answer = [r \in Requests |-> "none"]
  <2>1. TypeInv
    BY TypeInit
  <2>2. clock \in Nat
    BY <2>1, TypeFacts DEF Dates
  <2> QED
    BY <2>1, <2>2 DEF Init
<1>2. DatesOf(notes) = DatesOf(doc.notes)
  <2>1. doc.notes \in Seq(Note)
    BY <1>1
  <2> QED
    BY <1>1, <2>1, DatesOfSorting
<1>3. DatesOf(doc.notes) # {} => doc.hasNotes
  <2> SUFFICES ASSUME NEW s \in DOMAIN doc.notes PROVE clock > 0
    BY <1>1 DEF DatesOf
  <2>1. s \in 1 .. clock
    BY <1>1
  <2> QED
    BY <1>1, <2>1
<1>4. \A r \in Requests : IsAppending(asked[r]) \/ asked[r] = NoOperation
  <2>1. CASE \E r \in Requests, o \in AppendingOperation :
                /\ o.kind = "serviceDevice" /\ o.note.creationDate = clock
                /\ asked = [[q \in Requests |-> NoOperation] EXCEPT ![r] = o]
    BY <2>1 DEF IsAppending, AppendingKinds
  <2> QED
    BY <2>1 DEF Init
<1> QED
  BY <1>1, <1>2, <1>3, <1>4, SmallLists DEF FieldInv

LEMMA FieldStep ==
    TypeInv /\ DeletionInv /\ FieldInv /\ [Next]_vars => FieldInv'
<1> SUFFICES ASSUME TypeInv, DeletionInv, FieldInv, [Next]_vars PROVE FieldInv'
  OBVIOUS
<1>1. /\ TypeInv' /\ DeletionInv'
      /\ asked \in [Requests -> Operation \cup {NoOperation}]
      /\ asked' \in [Requests -> Operation \cup {NoOperation}]
      /\ answer \in [Requests -> {"none", "ok", "failed"}]
      /\ \A r \in applied : r \in Requests
  BY TypeStep, DeletionStep, TypeFacts, LogTypesPrime DEF TypeInv, TypeOK
<1>2. ASSUME NEW r \in Requests, ServerApplies(r) PROVE doc'.hasNotes
  <2>1. Applicable(doc, asked[r]) /\ doc' = Effect(doc, asked[r])
    BY <1>2, LogActions DEF ServerApplies
  <2>2. CASE IsAppending(asked[r])
    BY <2>1, <2>2 DEF Effect, UpdateData
  <2>3. CASE ~ IsAppending(asked[r])
    BY <2>1, <2>3 DEF Applicable, BlockSucceeds, Effect, WriteNotes
  <2> QED
    BY <2>2, <2>3
<1>3. doc.hasNotes => doc'.hasNotes
  <2>1. ASSUME NEW dates, OthersDelete(dates) PROVE doc'.hasNotes
    BY <2>1 DEF OthersDelete, WriteNotes
  <2> QED
    BY <1>2, <2>1, DocumentCases
<1>4. applied' # {} => doc'.hasNotes
  <2>1. CASE applied # {}
    BY <1>3, <2>1 DEF FieldInv
  <2>2. CASE applied = {}
    <3>1. ASSUME NEW dates, OthersDelete(dates) PROVE applied' = {}
      BY <2>2, <3>1 DEF OthersDelete
    <3> QED
      BY <1>2, <2>2, <3>1, DocumentCases
  <2> QED
    BY <2>1, <2>2
<1>5. DatesOf(notes') \cup DatesOf(deletedNotes') # {} => doc'.hasNotes
  <2>1. PICK a \in Seq(Note), b \in Seq(Note) : a = notes' /\ b = deletedNotes'
    BY <1>1 DEF TypeInv, TypeOK
  <2>2. \A r \in Requests : AppendSucceeds(r) => r \in applied
    BY LogActions DEF AppendSucceeds
  <2>3. DatesOf(a) \cup DatesOf(b) # {} =>
           \/ DatesOf(notes) \cup DatesOf(deletedNotes) # {}
           \/ \E r \in Requests : AppendSucceeds(r)
    BY <2>1, ScreenStep
  <2>4. DatesOf(a) \cup DatesOf(b) # {} => doc.hasNotes
    BY <2>2, <2>3 DEF FieldInv
  <2> QED
    BY <1>3, <2>1, <2>4
<1>6. ASSUME NEW r \in Requests, ~ IsAppending(asked'[r]), asked'[r] # NoOperation
      PROVE  doc'.hasNotes
  <2>1. CASE asked[r] # NoOperation
    <3>1. asked'[r] = asked[r]
      BY <2>1, CallsPersist
    <3>2. ~ IsAppending(asked[r])
      BY <1>6, <3>1
    <3> QED
      BY <1>3, <2>1, <3>2 DEF FieldInv
  <2>2. CASE asked[r] = NoOperation
    <3>1. asked'[r] \in Operation
      BY <1>1, <1>6
    <3>2. asked'[r].kind = "updateNoteOfDevice" \/ asked'[r].kind = "deleteNotesOfDevice"
      BY <1>6, <3>1 DEF Operation, AppendingOperation, TransactionOperation, IsAppending,
                        AppendingKinds
    <3>3. CASE asked'[r].kind = "updateNoteOfDevice"
      <4>1. ~ IsCall(r, "updateNoteOfDevice") /\ IsCall(r, "updateNoteOfDevice")'
        BY <2>2, <3>3 DEF IsCall, NoOperation
      <4>2. DatesOf(notes) # {}
        BY <4>1, EditsOfShownNotes
      <4> QED
        BY <1>3, <4>2 DEF FieldInv
    <3>4. CASE asked'[r].kind = "deleteNotesOfDevice"
      <4>1. answer'[r] = "none"
        <5>1. CASE answer'[r] = answer[r]
          BY <2>2, <5>1 DEF DeletionInv
        <5>2. CASE answer'[r] # answer[r]
          <6>1. \E q \in Requests : Log!Confirm(q) \/ Log!Refuse(q)
            BY <5>2, AnswerCases
          <6> QED
            BY <2>2, <3>4, <6>1, LogActions DEF NoOperation
        <5> QED
          BY <5>1, <5>2
      <4>2. IsDeletion(r)' /\ ~ IsDeletion(r)
        BY <1>6, <2>2, <3>4, <4>1 DEF IsDeletion, IsCall, IsPending, NoOperation
      <4>3. asked'[r].creationDates = DatesOf(deletedNotes')
        BY <4>2, DeletionsInStep
      <4>4. asked'[r].creationDates # {}
        BY <3>1, <3>4 DEF Operation, AppendingOperation, TransactionOperation
      <4> QED
        BY <1>5, <4>3, <4>4
    <3> QED
      BY <3>2, <3>3, <3>4
  <2> QED
    BY <2>1, <2>2
<1>7. ASSUME faults' = 0, NEW r \in Requests, IsCall(r, "deleteNotesOfDevice")'
      PROVE  answer'[r] # "failed"
  <2> SUFFICES ASSUME answer'[r] = "failed" PROVE FALSE
    OBVIOUS
  <2>1. faults = 0
    BY <1>7, FaultsStay
  <2>2. CASE answer[r] = "failed"
    <3>1. asked[r] # NoOperation
      BY <2>2 DEF DeletionInv
    <3>2. asked'[r] = asked[r]
      BY <3>1, CallsPersist
    <3> QED
      BY <1>7, <2>1, <2>2, <3>2 DEF FieldInv, IsCall
  <2>3. CASE answer[r] # "failed"
    <3>1. /\ ~ Applicable(doc, asked[r]) /\ asked[r] # NoOperation /\ asked'[r] = asked[r]
      BY <1>7, <2>3, FailuresWithoutFault
    <3>2. asked[r].kind = "deleteNotesOfDevice"
      BY <1>7, <3>1 DEF IsCall
    <3>3. ~ IsAppending(asked[r])
      BY <3>2 DEF IsAppending, AppendingKinds
    <3>4. ~ doc.hasNotes
      BY <3>1, <3>2 DEF Applicable, BlockSucceeds
    <3> QED
      BY <3>1, <3>3, <3>4 DEF FieldInv
  <2> QED
    BY <2>2, <2>3
<1> QED
  BY <1>4, <1>5, <1>6, <1>7 DEF FieldInv

(* Of a user who waits, and without faults: what the screen shows is in    *)
(* the array; what is struck off is too until the deletion takes effect;   *)
(* and so is an append that took effect and is not confirmed.              *)
PhantomInv ==
    ~ hurried /\ faults = 0 =>
        /\ DatesOf(notes) \subseteq DatesOf(doc.notes) \cup SharedDates
        /\ (\A r \in applied : ~ IsDeletion(r)) =>
              DatesOf(deletedNotes) \subseteq DatesOf(doc.notes) \cup SharedDates
        /\ \A r \in applied : IsAppending(asked[r]) /\ answer[r] # "ok" =>
              asked[r].note.creationDate \in DatesOf(doc.notes) \cup SharedDates

LEMMA PhantomInit == Init => PhantomInv
<1> SUFFICES ASSUME Init PROVE PhantomInv
  OBVIOUS
<1>1. TypeInv /\ notes \in Sortings(doc.notes) /\ applied = {} /\ deletedNotes = << >>
  BY TypeInit DEF Init
<1>2. doc.notes \in Seq(Note)
  <2>1. clock \in Nat
    BY <1>1, TypeFacts DEF Dates
  <2>2. doc.notes \in [1 .. clock -> Note]
    BY DEF Init
  <2> QED
    BY <2>1, <2>2
<1>3. DatesOf(notes) = DatesOf(doc.notes)
  BY <1>1, <1>2, SortedListType
<1> QED
  BY <1>1, <1>3, SmallLists DEF PhantomInv

LEMMA PhantomStep ==
    /\ TypeInv /\ DeletionInv /\ EditInv /\ OriginInv /\ FieldInv /\ FieldInv' /\ PhantomInv
    /\ [Next]_vars
    => PhantomInv'
<1> DEFINE Present == DatesOf(doc.notes) \cup SharedDates
<1> SUFFICES ASSUME TypeInv, DeletionInv, EditInv, OriginInv, FieldInv, FieldInv', PhantomInv,
                    [Next]_vars, ~ hurried', faults' = 0
             PROVE  /\ DatesOf(notes') \subseteq Present'
                    /\ (\A r \in applied' : ~ IsDeletion(r)') =>
                          DatesOf(deletedNotes') \subseteq Present'
                    /\ \A r \in applied' : IsAppending(asked'[r]) /\ answer'[r] # "ok" =>
                          asked'[r].note.creationDate \in Present'
  BY DEF PhantomInv
<1>1. ~ hurried /\ faults = 0
  BY HurryStays, FaultsStay
<1>2. /\ notes \in Seq(Note) /\ deletedNotes \in Seq(Note) /\ mainQueue \in Seq(Blocks)
      /\ IsDocument(doc)
      /\ \A r \in applied : r \in Requests /\ asked[r] # NoOperation /\ asked[r] \in Operation
      /\ \A r \in Requests : IsAppending(asked[r]) => asked[r].note \in Note
      /\ answer \in [Requests -> {"none", "ok", "failed"}]
  BY TypeFacts, OperationKinds
<1>3. /\ DatesOf(notes) \subseteq Present
      /\ (\A r \in applied : ~ IsDeletion(r)) => DatesOf(deletedNotes) \subseteq Present
      /\ \A r \in applied : IsAppending(asked[r]) /\ answer[r] # "ok" =>
            asked[r].note.creationDate \in Present
  BY <1>1 DEF PhantomInv
<1>4. SharedDates \subseteq SharedDates'
  BY SharedStay
<1>5. /\ \A r \in Requests : asked[r] # NoOperation => asked'[r] = asked[r]
      /\ \A r \in Requests : answer[r] # "none" => answer'[r] = answer[r]
  BY CallsPersist
<1>6. /\ \A r \in Requests : IsDeletion(r) => asked[r].creationDates = DatesOf(deletedNotes)
      /\ isEditing => ~ deleteInProgress
      /\ deleteInProgress => ~ IsQueued(mainQueue, "restoreDeletedNotes")
  BY <1>1 DEF EditInv, Settled
<1>7. ASSUME NEW r \in Requests, IsDeletion(r), ~ IsDeletion(r)'
      PROVE  deletedNotes' = << >>
  <2>1. asked[r] # NoOperation /\ asked[r].kind = "deleteNotesOfDevice" /\ answer[r] = "none"
    BY <1>7 DEF IsDeletion, IsCall, IsPending
  <2>2. asked'[r] = asked[r]
    BY <1>5, <2>1
  <2>3. answer'[r] # "none"
    BY <1>7, <2>1, <2>2 DEF IsDeletion, IsCall, IsPending
  <2>4. answer'[r] # "failed"
    BY <2>1, <2>2 DEF FieldInv, IsCall
  <2>5. PICK q \in Requests : Handler(q) /\ (Log!Confirm(q) \/ Log!Refuse(q))
    BY <2>1, <2>3, AnswerCases
  <2>6. q = r /\ Log!Confirm(r)
    BY <1>2, <2>1, <2>3, <2>4, <2>5, LogActions
  <2>7. ~ IsAppending(asked[r]) /\ ~ IsCall(r, "updateNoteOfDevice") /\ ~ Log!Refuse(r)
    BY <1>2, <2>1, <2>4, <2>6, LogActions DEF IsAppending, AppendingKinds, IsCall
  <2> QED
    BY <2>5, <2>6, <2>7
       DEF Handler, AppendSucceeds, UpdateSucceeds, DeleteSucceeds, CallFails, DeleteFails
<1>8. CASE UNCHANGED <<doc, applied>>
  <2>1. Present \subseteq Present'
    BY <1>4, <1>8
  <2>2. \A r \in applied' : IsAppending(asked'[r]) /\ answer'[r] # "ok" =>
           asked'[r].note.creationDate \in Present'
    <3> SUFFICES ASSUME NEW r \in applied, IsAppending(asked'[r]), answer'[r] # "ok"
                 PROVE  asked'[r].note.creationDate \in Present'
      BY <1>8
    <3>1. asked'[r] = asked[r] /\ answer[r] # "ok"
      BY <1>2, <1>5
    <3>2. IsAppending(asked[r])
      BY <3>1
    <3> QED
      BY <1>3, <2>1, <3>1, <3>2
  <2> DEFINE Goal == /\ DatesOf(notes') \subseteq Present'
                     /\ (\A r \in applied : ~ IsDeletion(r)') => DatesOf(deletedNotes') \subseteq Present'
  <2>3. (\A r \in applied : ~ IsDeletion(r)') =>
           (\A r \in applied : ~ IsDeletion(r)) \/ deletedNotes' = << >>
    BY <1>2, <1>7
  <2>4. DatesOf(<< >>) = {}
    BY SmallLists
  <2> DEFINE Restorable == \/ isEditing
                           \/ mainQueue # << >> /\ Head(mainQueue) = "restoreDeletedNotes"
  <2>5. ASSUME UNCHANGED deletedNotes, DatesOf(notes') \subseteq Present' PROVE Goal
    BY <1>3, <2>1, <2>3, <2>4, <2>5
  <2>6. ASSUME DatesOf(notes') \cup DatesOf(deletedNotes') \subseteq
                  DatesOf(notes) \cup DatesOf(deletedNotes),
               Restorable
        PROVE  Goal
    <3>1. ~ deleteInProgress
      BY <1>2, <1>6, <2>6, QueueTail
    <3>2. \A r \in applied : ~ IsDeletion(r)
      BY <1>2, <3>1 DEF DeletionInv
    <3> QED
      BY <1>3, <2>1, <2>6, <3>2
  <2> HIDE DEF Restorable
  <2>7. PICK a \in Seq(Note), b \in Seq(Note) : a = notes' /\ b = deletedNotes'
    BY TypeStep DEF TypeInv, TypeOK
  <2>8. ASSUME Restorable,
               notes' \in Sortings(notes \o deletedNotes), deletedNotes' = << >>
        PROVE  Goal
    <3>1. a \in Sortings(notes \o deletedNotes) /\ b = << >>
      BY <2>7, <2>8
    <3>2. DatesOf(a) = DatesOf(notes) \cup DatesOf(deletedNotes) /\ DatesOf(b) = {}
      BY <1>2, <2>4, <3>1, ListMoves
    <3> QED
      BY <2>6, <2>7, <2>8, <3>2
  <2>9. ASSUME isEditing, notes' = << >>, deletedNotes' = deletedNotes \o notes PROVE Goal
    <3>1. a = << >> /\ b = deletedNotes \o notes
      BY <2>7, <2>9
    <3>2. DatesOf(b) = DatesOf(notes) \cup DatesOf(deletedNotes) /\ DatesOf(a) = {}
      BY <1>2, <2>4, <3>1, ListMoves
    <3>3. DatesOf(notes') = DatesOf(a) /\ DatesOf(deletedNotes') = DatesOf(b)
      BY <2>7
    <3>5. Restorable
      BY <2>9 DEF Restorable
    <3> QED
      BY <2>6, <3>2, <3>3, <3>5
  <2>10. ASSUME NEW i \in DOMAIN notes, isEditing, notes' = RemoveAt(notes, i),
                deletedNotes' = deletedNotes \o <<notes[i]>>
         PROVE  Goal
    <3>1. a = RemoveAt(notes, i) /\ b = deletedNotes \o <<notes[i]>>
      BY <2>7, <2>10
    <3>2. /\ DatesOf(notes) = DatesOf(a) \cup {notes[i].creationDate}
          /\ DatesOf(b) = DatesOf(deletedNotes) \cup {notes[i].creationDate}
      BY <1>2, <3>1, ListMoves
    <3>3. DatesOf(notes') = DatesOf(a) /\ DatesOf(deletedNotes') = DatesOf(b)
      BY <2>7
    <3>4. DatesOf(a) \cup DatesOf(b) \subseteq DatesOf(notes) \cup DatesOf(deletedNotes)
      BY <3>2
    <3>5. Restorable
      BY <2>10 DEF Restorable
    <3> QED
      BY <2>6, <3>3, <3>4, <3>5
  <2>11. ASSUME NEW r \in Requests, AppendSucceeds(r) PROVE Goal
    <3>1. /\ IsAppending(asked[r]) /\ r \in applied /\ answer[r] # "ok" /\ asked[r].note \in Note
          /\ notes' = <<asked[r].note>> \o notes /\ UNCHANGED deletedNotes
      BY <1>2, <2>11, LogActions DEF AppendSucceeds
    <3>2. a = <<asked[r].note>> \o notes
      BY <2>7, <3>1
    <3>3. DatesOf(a) = DatesOf(notes) \cup {asked[r].note.creationDate}
      BY <1>2, <3>1, <3>2, ListMoves
    <3>4. asked[r].note.creationDate \in Present
      BY <1>3, <3>1
    <3> QED
      BY <1>3, <2>1, <2>5, <2>7, <3>1, <3>3, <3>4
  <2>12. ASSUME NEW r \in Requests, UNCHANGED deletedNotes,
                notes' = ReplaceComment(notes, asked[r].note)
         PROVE  Goal
    <3>1. DatesOf(notes') = DatesOf(notes)
      BY <2>12, DatesOfEdit
    <3> QED
      BY <1>3, <2>1, <2>5, <2>12, <3>1
  <2>13. ASSUME UNCHANGED notes, deletedNotes' = << >> PROVE Goal
    BY <1>3, <2>1, <2>4, <2>13
  <2>14. ASSUME UNCHANGED <<notes, deletedNotes>> PROVE Goal
    BY <1>3, <2>1, <2>5, <2>14
  <2> HIDE DEF Goal
  <2>15. Goal
    BY <2>8, <2>9, <2>10, <2>11, <2>12, <2>13, <2>14, ListCases DEF Restorable
  <2> QED
    BY <1>8, <2>2, <2>15 DEF Goal
<1>9. ASSUME NEW r \in Requests, ServerApplies(r)
      PROVE  /\ DatesOf(notes') \subseteq Present'
             /\ (\A q \in applied' : ~ IsDeletion(q)') => DatesOf(deletedNotes') \subseteq Present'
             /\ \A q \in applied' : IsAppending(asked'[q]) /\ answer'[q] # "ok" =>
                   asked'[q].note.creationDate \in Present'
  <2>1. /\ asked[r] # NoOperation /\ answer[r] # "ok" /\ doc' = Effect(doc, asked[r])
        /\ applied' = applied \cup {r} /\ UNCHANGED <<asked, answer, notes, deletedNotes>>
        /\ r \notin applied
    BY <1>1, <1>9, LogActions DEF ServerApplies, listVars
  <2>2. asked[r] \in Operation
    BY <2>1, TypeFacts
  <2>3. \A q \in Requests : IsDeletion(q)' <=> IsDeletion(q)
    BY <2>1 DEF IsDeletion, IsCall, IsPending
  <2>4. SharedDates' = SharedDates
    BY <2>1 DEF SharedDates
  <2>5. CASE IsAppending(asked[r])
    <3>1. DatesOf(doc'.notes) = DatesOf(doc.notes) \cup {asked[r].note.creationDate}
      BY <1>2, <2>1, <2>2, <2>5, DatesOfEffect
    <3>2. ~ IsDeletion(r)
      BY <2>5 DEF IsDeletion, IsCall, IsAppending, AppendingKinds
    <3>3. (\A q \in applied' : ~ IsDeletion(q)') => \A q \in applied : ~ IsDeletion(q)
      BY <1>2, <2>1, <2>3
    <3> QED
      BY <1>3, <2>1, <2>4, <3>1, <3>3
  <2>6. CASE IsCall(r, "updateNoteOfDevice")
    <3>1. DatesOf(doc'.notes) = DatesOf(doc.notes)
      BY <1>2, <2>1, <2>2, <2>6, DatesOfEffect DEF IsCall
    <3>2. (\A q \in applied' : ~ IsDeletion(q)') => \A q \in applied : ~ IsDeletion(q)
      BY <1>2, <2>1, <2>3
    <3>3. ~ IsAppending(asked[r])
      BY <2>6 DEF IsCall, IsAppending, AppendingKinds
    <3> QED
      BY <1>3, <2>1, <2>4, <3>1, <3>2, <3>3
  <2>7. CASE IsCall(r, "deleteNotesOfDevice")
    <3>1. DatesOf(doc'.notes) = DatesOf(doc.notes) \ asked[r].creationDates
      BY <1>2, <2>1, <2>2, <2>7, DatesOfEffect DEF IsCall
    <3>2. answer[r] # "failed"
      BY <1>1, <2>7 DEF FieldInv
    <3>3. IsDeletion(r)
      BY <1>2, <2>1, <2>7, <3>2 DEF IsDeletion, IsPending
    <3>4. asked[r].creationDates = DatesOf(deletedNotes)
      BY <1>6, <3>3
    <3>5. DatesOf(notes) \cap DatesOf(deletedNotes) \subseteq SharedDates
      BY <1>2, DatesAreDates DEF OriginInv, IsAmbiguous
    <3>6. ASSUME NEW q \in applied, IsAppending(asked[q]), answer[q] # "ok",
                 asked[q].note.creationDate \in DatesOf(deletedNotes)
          PROVE  asked[q].note.creationDate \in SharedDates
      BY <1>2, <3>6, KnownAppend DEF OriginInv
    <3>7. ~ \A q \in applied' : ~ IsDeletion(q)'
      BY <2>1, <2>3, <3>3
    <3>8. ~ IsAppending(asked[r])
      BY <2>7 DEF IsCall, IsAppending, AppendingKinds
    <3>9. DatesOf(notes) \subseteq Present'
      BY <1>3, <2>4, <3>1, <3>4, <3>5
    <3>10. ASSUME NEW q \in applied', IsAppending(asked'[q]), answer'[q] # "ok"
           PROVE  asked'[q].note.creationDate \in Present'
      <4>1. q \in applied /\ IsAppending(asked[q]) /\ answer[q] # "ok" /\ asked'[q] = asked[q]
        BY <2>1, <3>8, <3>10
      <4> QED
        BY <1>3, <2>4, <3>1, <3>4, <3>6, <4>1
    <3> QED
      BY <2>1, <3>7, <3>9, <3>10
  <2> QED
    BY <2>2, <2>5, <2>6, <2>7
       DEF Operation, AppendingOperation, TransactionOperation, IsAppending, AppendingKinds, IsCall
<1>10. ASSUME NEW dates, OthersDelete(dates) PROVE FALSE
  BY <1>1, <1>10 DEF OthersDelete
<1> QED
  BY <1>8, <1>9, <1>10, DocumentCases

(* Without faults, and of a user who waits for the end of a deletion, the  *)
(* list never shows a note that the cloud no longer has, unless another    *)
(* note was appended in the same second: however the appends, the edits    *)
(* and the deletion of the screen are taken and answered, what is in the   *)
(* list stays in the array, and what is struck off leaves it only after    *)
(* it has left the list (NotesViewController.swift:66-80).                 *)
THEOREM NoPhantomsEver == Spec => []NoPhantoms
<1>1. PhantomInv => NoPhantoms
  BY DEF PhantomInv, NoPhantoms
<1> QED
  BY <1>1, TypeInit, TypeStep, SettledInit, DeletionStep, EditStep, OriginInit, OriginStep,
     FieldInit, FieldStep, PhantomInit, PhantomStep, PTL DEF Spec

-----------------------------------------------------------------------------
(* The comments.                                                           *)

NotesOf(list) == {list[i] : i \in DOMAIN list}

LEMMA NotesMove ==
    ASSUME NEW a \in Seq(Note), NEW b \in Seq(Note)
    PROVE  /\ NotesOf(a \o b) \subseteq NotesOf(a) \cup NotesOf(b)
           /\ \A q \in Sortings(a \o b) : NotesOf(q) \subseteq NotesOf(a) \cup NotesOf(b)
           /\ \A i \in DOMAIN a : NotesOf(RemoveAt(a, i)) \subseteq NotesOf(a)
           /\ \A note \in Note : /\ NotesOf(<<note>>) = {note} /\ <<note>> \in Seq(Note)
           /\ NotesOf(<< >>) = {}
<1>1. NotesOf(a \o b) \subseteq NotesOf(a) \cup NotesOf(b)
  <2> DEFINE c == a \o b
  <2>1. /\ \A i \in DOMAIN a : c[i] = a[i]
        /\ \A i \in DOMAIN b : c[Len(a) + i] = b[i]
        /\ \A i \in DOMAIN c : \/ i \in DOMAIN a
                               \/ i - Len(a) \in DOMAIN b /\ Len(a) + (i - Len(a)) = i
    BY ConcatElements
  <2> HIDE DEF c
  <2>2. ASSUME NEW i \in DOMAIN c PROVE c[i] \in NotesOf(a) \cup NotesOf(b)
    <3>1. CASE i \in DOMAIN a
      BY <2>1, <3>1 DEF NotesOf
    <3>2. CASE i - Len(a) \in DOMAIN b /\ Len(a) + (i - Len(a)) = i
      <4>1. c[i] = b[i - Len(a)]
        BY <2>1, <3>2
      <4> QED
        BY <3>2, <4>1 DEF NotesOf
    <3> QED
      BY <2>1, <3>1, <3>2
  <2>3. NotesOf(c) \subseteq NotesOf(a) \cup NotesOf(b)
    BY <2>2 DEF NotesOf
  <2> QED
    BY <2>3 DEF c
<1>2. ASSUME NEW q \in Sortings(a \o b)
      PROVE  NotesOf(q) \subseteq NotesOf(a) \cup NotesOf(b)
  <2>1. PICK list \in Seq(Note) : list = a \o b
    BY ConcatElements
  <2>2. PICK p \in Bijection(DOMAIN list, DOMAIN list) :
           q = [i \in DOMAIN list |-> list[p[i]]]
    <3>1. q \in Sortings(list)
      BY <2>1
    <3> QED
      BY <3>1, SortingElements
  <2>3. p \in [DOMAIN list -> DOMAIN list]
    BY <2>2 DEF Bijection, Injection
  <2>4. NotesOf(q) \subseteq NotesOf(list)
    BY <2>2, <2>3 DEF NotesOf
  <2> QED
    BY <1>1, <2>1, <2>4
<1>3. ASSUME NEW i \in DOMAIN a PROVE NotesOf(RemoveAt(a, i)) \subseteq NotesOf(a)
  <2> DEFINE t == RemoveAt(a, i)
  <2>1. /\ DOMAIN a = 1 .. Len(a) /\ Len(a) \in Nat
        /\ DOMAIN t = 1 .. Len(a) - 1
        /\ \A j \in 1 .. Len(a) - 1 : t[j] = IF j < i THEN a[j] ELSE a[j + 1]
    BY RemoveAtElements
  <2> HIDE DEF t
  <2>2. \A j \in DOMAIN t : \E k \in DOMAIN a : t[j] = a[k]
    BY <2>1
  <2> QED
    BY <2>2 DEF NotesOf, t
<1>4. \A note \in Note : NotesOf(<<note>>) = {note} /\ <<note>> \in Seq(Note)
  BY DEF NotesOf
<1>5. NotesOf(<< >>) = {}
  BY DEF NotesOf
<1> QED
  BY <1>1, <1>2, <1>3, <1>4, <1>5

(* An edit of a date without a twin changes all that has the date. *)
LEMMA NotesOfEdit ==
    ASSUME NEW list, DOMAIN list \subseteq Nat, NEW note,
           NEW n \in NotesOf(ReplaceComment(list, note)), ~ IsTwin(list, note.creationDate)
    PROVE  \/ n = note /\ note.creationDate \in DatesOf(list)
           \/ n \in NotesOf(list) /\ n.creationDate # note.creationDate
<1> DEFINE edited == ReplaceComment(list, note)
<1>1. PICK k \in DOMAIN list : n = edited[k]
  BY DEF NotesOf, ReplaceComment
<1>2. edited[k] = IF IsFirstIndex(list, k, note.creationDate) THEN note ELSE list[k]
  BY DEF ReplaceComment
<1> HIDE DEF edited
<1>3. CASE list[k].creationDate = note.creationDate
  <2>1. \A j \in DOMAIN list : list[j].creationDate = note.creationDate => j = k
    BY <1>3 DEF IsTwin
  <2>2. k <= k
    OBVIOUS
  <2>3. IsFirstIndex(list, k, note.creationDate)
    BY <1>3, <2>1, <2>2 DEF IsFirstIndex
  <2> QED
    BY <1>1, <1>2, <1>3, <2>3 DEF DatesOf
<1>4. CASE list[k].creationDate # note.creationDate
  <2>1. n = list[k]
    BY <1>1, <1>2, <1>4 DEF IsFirstIndex
  <2> QED
    BY <1>4, <2>1 DEF NotesOf
<1> QED
  BY <1>3, <1>4

LEMMA NotesOfAnyEdit ==
    ASSUME NEW list, NEW note, NEW n \in NotesOf(ReplaceComment(list, note))
    PROVE  n = note \/ n \in NotesOf(list)
  BY DEF NotesOf, ReplaceComment

(* What an operation does to the notes of the array *)
LEMMA NotesOfEffect ==
    ASSUME NEW d, IsDocument(d), NEW op \in Operation, NEW m \in NotesOf(Effect(d, op).notes)
    PROVE  /\ DOMAIN d.notes \subseteq Nat
           /\ IsAppending(op) => m = op.note \/ m \in NotesOf(d.notes)
           /\ op.kind = "updateNoteOfDevice" =>
                 Effect(d, op).notes = ReplaceComment(d.notes, op.note)
           /\ op.kind = "deleteNotesOfDevice" => m \in NotesOf(d.notes)
<1>1. d.version \in Nat /\ DOMAIN d.notes \subseteq 1 .. d.version
  BY DEF IsDocument, IsArray
<1>2. DOMAIN d.notes \subseteq Nat
  BY <1>1
<1>3. ASSUME IsAppending(op) PROVE m = op.note \/ m \in NotesOf(d.notes)
  <2>1. m \in NotesOf(ArrayUnion(d.notes, op.note, d.version + 1))
    BY <1>3 DEF Effect, UpdateData
  <2> QED
    BY <2>1 DEF ArrayUnion, NotesOf
<1>4. op.kind = "updateNoteOfDevice" => Effect(d, op).notes = ReplaceComment(d.notes, op.note)
  BY DEF Effect, WriteNotes, RewrittenNotes, IsAppending, AppendingKinds
<1>5. ASSUME op.kind = "deleteNotesOfDevice" PROVE m \in NotesOf(d.notes)
  <2>1. m \in NotesOf(RemoveDates(d.notes, op.creationDates))
    BY <1>5 DEF Effect, WriteNotes, RewrittenNotes, IsAppending, AppendingKinds
  <2> QED
    BY <2>1 DEF RemoveDates, Restrict, NotesOf
<1> QED
  BY <1>2, <1>3, <1>4, <1>5

(* What an operation does to the twins of the array *)
LEMMA TwinsOfEffect ==
    ASSUME NEW d, IsDocument(d), NEW op \in Operation, NEW date, IsTwin(Effect(d, op).notes, date)
    PROVE  \/ IsTwin(d.notes, date)
           \/ IsAppending(op) /\ date = op.note.creationDate /\ date \in DatesOf(d.notes)
<1>1. d.version \in Nat /\ DOMAIN d.notes \subseteq 1 .. d.version
  BY DEF IsDocument, IsArray
<1>2. CASE IsAppending(op)
  <2> DEFINE slot == d.version + 1
             u    == ArrayUnion(d.notes, op.note, slot)
  <2>1. IsTwin(u, date)
    BY <1>2 DEF Effect, UpdateData
  <2>2. CASE \E s \in DOMAIN d.notes : d.notes[s] = op.note
    BY <2>1, <2>2 DEF ArrayUnion
  <2>3. CASE ~ \E s \in DOMAIN d.notes : d.notes[s] = op.note
    <3>1. u = [s \in DOMAIN d.notes \cup {slot} |-> IF s = slot THEN op.note ELSE d.notes[s]]
      BY <2>3 DEF ArrayUnion
    <3>2. slot \notin DOMAIN d.notes
      BY <1>1
    <3> HIDE DEF slot, u
    <3>3. /\ DOMAIN u = DOMAIN d.notes \cup {slot} /\ u[slot] = op.note
          /\ \A s \in DOMAIN d.notes : u[s] = d.notes[s]
      BY <3>1, <3>2
    <3> QED
      BY <1>2, <2>1, <3>3 DEF IsTwin, DatesOf
  <2> QED
    BY <2>2, <2>3
<1>3. CASE op.kind = "updateNoteOfDevice"
  <2>1. Effect(d, op).notes = ReplaceComment(d.notes, op.note)
    BY <1>3 DEF Effect, WriteNotes, RewrittenNotes, IsAppending, AppendingKinds
  <2> QED
    BY <2>1, TwinOfEdit
<1>4. CASE op.kind = "deleteNotesOfDevice"
  <2>1. Effect(d, op).notes = RemoveDates(d.notes, op.creationDates)
    BY <1>4 DEF Effect, WriteNotes, RewrittenNotes, IsAppending, AppendingKinds
  <2> QED
    BY <2>1 DEF RemoveDates, Restrict, IsTwin
<1> QED
  BY <1>2, <1>3, <1>4
     DEF Operation, AppendingOperation, TransactionOperation, IsAppending, AppendingKinds

(* A note of the array was there when the screen opened or is that of an   *)
(* append that took effect; without faults two of one date have two        *)
(* appends.                                                                *)
ArrayInv ==
    /\ \A date \in DatesOf(doc.notes) :
          \/ IsOld(date)
          \/ \E q \in applied : IsAppending(asked[q]) /\ asked[q].note.creationDate = date
    /\ faults = 0 => \A date \in Dates : IsTwin(doc.notes, date) => date \in SharedDates

(* A date of the array that an append is about to write again has a twin. *)
LEMMA RepeatedAppend ==
    ASSUME TypeInv, ArrayInv, NEW r \in Requests, IsAppending(asked[r]), r \notin applied,
           asked[r].note.creationDate \in DatesOf(doc.notes)
    PROVE  asked[r].note.creationDate \in SharedDates
<1>1. asked[r].note \in Note /\ \A q \in applied : q \in Requests
  BY TypeFacts
<1>2. asked[r].note.creationDate \in Nat
  BY <1>1 DEF Note, Dates
<1>3. ~ IsOld(asked[r].note.creationDate)
  BY <1>2 DEF IsOld
<1>4. PICK q \in applied : /\ IsAppending(asked[q])
                           /\ asked[q].note.creationDate = asked[r].note.creationDate
  BY <1>3 DEF ArrayInv
<1> QED
  BY <1>1, <1>4, SharedPair

(* The array before the first step *)
LEMMA InitialArray ==
    ASSUME Init
    PROVE  /\ TypeInv /\ doc.notes \in Seq(Note)
           /\ \A date \in DatesOf(doc.notes) : IsOld(date)
           /\ \A date : ~ IsTwin(doc.notes, date)
<1>1. /\ TypeInv /\ OriginInv /\ clock \in Nat /\ notes \in Sortings(doc.notes)
      /\ doc.notes \in [1 .. clock -> Note]
      /\ \A s \in 1 .. clock : doc.notes[s].creationDate = s - 1
      /\ answer = [r \in Requests |-> "none"]
  <2>1. TypeInv /\ OriginInv
    BY TypeInit, OriginInit
  <2>2. clock \in Nat
    BY <2>1, TypeFacts DEF Dates
  <2> QED
    BY <2>1, <2>2 DEF Init
<1>2. doc.notes \in Seq(Note) /\ DOMAIN doc.notes = 1 .. clock
  BY <1>1
<1>3. \A date : ~ IsTwin(doc.notes, date)
  <2> SUFFICES ASSUME NEW i \in 1 .. clock, NEW j \in 1 .. clock, i # j,
                      doc.notes[i].creationDate = doc.notes[j].creationDate
               PROVE  FALSE
    BY <1>2 DEF IsTwin
  <2>1. i - 1 = j - 1
    BY <1>1
  <2> QED
    BY <1>1, <2>1
<1>4. DatesOf(notes) = DatesOf(doc.notes)
  BY <1>1, <1>2, DatesOfSorting
<1>5. ASSUME NEW date \in DatesOf(doc.notes) PROVE IsOld(date)
  <2>1. IsKnown(date)
    BY <1>1, <1>4 DEF OriginInv
  <2> QED
    BY <1>1, <2>1 DEF IsKnown
<1> QED
  BY <1>1, <1>2, <1>3, <1>5

LEMMA ArrayInit == Init => ArrayInv
  BY InitialArray DEF ArrayInv

LEMMA ArrayStep == TypeInv /\ ArrayInv /\ [Next]_vars => ArrayInv'
<1> SUFFICES ASSUME TypeInv, ArrayInv, [Next]_vars PROVE ArrayInv'
  OBVIOUS
<1>1. /\ IsDocument(doc) /\ \A r \in applied : r \in Requests /\ asked[r] # NoOperation
  BY TypeFacts, OperationKinds
<1>2. DatesOf(doc.notes) \subseteq Dates
  <2>1. \A s \in DOMAIN doc.notes : doc.notes[s] \in Note
    BY <1>1 DEF IsDocument, IsArray
  <2> QED
    BY <2>1 DEF DatesOf, Note
<1>3. /\ SharedDates \subseteq SharedDates'
      /\ \A r \in Requests : asked[r] # NoOperation => asked'[r] = asked[r]
  BY SharedStay, CallsPersist
<1>4. ASSUME applied \subseteq applied', NEW date \in DatesOf(doc.notes)
      PROVE  \/ IsOld(date)'
             \/ \E q \in applied' : IsAppending(asked'[q]) /\ asked'[q].note.creationDate = date
  <2>1. CASE IsOld(date)
    BY <1>2, <2>1, OldStays
  <2>2. CASE \E q \in applied : IsAppending(asked[q]) /\ asked[q].note.creationDate = date
    <3>1. PICK q \in applied : IsAppending(asked[q]) /\ asked[q].note.creationDate = date
      BY <2>2
    <3>2. asked'[q] = asked[q] /\ q \in applied'
      BY <1>1, <1>3, <1>4
    <3>3. IsAppending(asked'[q]) /\ asked'[q].note.creationDate = date
      BY <3>1, <3>2
    <3> QED
      BY <3>2, <3>3
  <2> QED
    BY <2>1, <2>2 DEF ArrayInv
<1>5. faults' = 0 => \A date \in Dates : IsTwin(doc.notes, date) => date \in SharedDates'
  BY <1>3, FaultsStay DEF ArrayInv
<1>6. CASE UNCHANGED <<doc, applied>>
  <2>1. \A date \in DatesOf(doc'.notes) :
           \/ IsOld(date)'
           \/ \E q \in applied' : IsAppending(asked'[q]) /\ asked'[q].note.creationDate = date
    BY <1>4, <1>6
  <2>2. faults' = 0 => \A date \in Dates : IsTwin(doc'.notes, date) => date \in SharedDates'
    BY <1>5, <1>6
  <2> QED
    BY <2>1, <2>2 DEF ArrayInv
<1>7. ASSUME NEW r \in Requests, ServerApplies(r) PROVE ArrayInv'
  <2>1. /\ asked[r] # NoOperation /\ doc' = Effect(doc, asked[r])
        /\ applied' = applied \cup {r} /\ UNCHANGED asked
        /\ faults = 0 /\ r \in applied => faults' # 0
    BY <1>7, LogActions DEF ServerApplies
  <2>2. asked[r] \in Operation
    BY <2>1, TypeFacts
  <2>3. ASSUME NEW date \in DatesOf(doc'.notes)
        PROVE  \/ date \in DatesOf(doc.notes)
               \/ IsAppending(asked[r]) /\ date = asked[r].note.creationDate
    <3>1. IsAppending(asked[r]) \/ asked[r].kind \in {"updateNoteOfDevice", "deleteNotesOfDevice"}
      BY <2>2 DEF Operation, AppendingOperation, TransactionOperation, IsAppending, AppendingKinds
    <3> QED
      BY <1>1, <2>1, <2>2, <3>1, DatesOfEffect
  <2>4. ASSUME NEW date \in DatesOf(doc'.notes)
        PROVE  \/ IsOld(date)'
               \/ \E q \in applied' : IsAppending(asked'[q]) /\ asked'[q].note.creationDate = date
    <3>1. CASE date \in DatesOf(doc.notes)
      BY <1>4, <2>1, <3>1
    <3>2. CASE IsAppending(asked[r]) /\ date = asked[r].note.creationDate
      BY <2>1, <3>2
    <3> QED
      BY <2>3, <3>1, <3>2
  <2>5. ASSUME faults' = 0, NEW date \in Dates, IsTwin(doc'.notes, date)
        PROVE  date \in SharedDates'
    <3>1. r \notin applied
      BY <2>1, <2>5, FaultsStay
    <3>2. CASE IsTwin(doc.notes, date)
      BY <1>5, <2>5, <3>2
    <3>3. CASE IsAppending(asked[r]) /\ date = asked[r].note.creationDate /\ date \in DatesOf(doc.notes)
      BY <1>3, <3>1, <3>3, RepeatedAppend
    <3> QED
      BY <1>1, <2>1, <2>2, <2>5, <3>2, <3>3, TwinsOfEffect
  <2> QED
    BY <2>4, <2>5 DEF ArrayInv
<1>8. ASSUME NEW dates \in (SUBSET Dates) \ {{}}, OthersDelete(dates) PROVE ArrayInv'
  <2>1. /\ doc' = WriteNotes(doc, RemoveDates(doc.notes, dates)) /\ UNCHANGED applied
        /\ faults' = faults + 1
    BY <1>8 DEF OthersDelete
  <2>2. DatesOf(doc'.notes) \subseteq DatesOf(doc.notes)
    BY <2>1, DatesOfRemovedDates DEF WriteNotes
  <2>3. faults' # 0
    BY <2>1, ScreenBounds DEF TypeInv, TypeOK
  <2>4. \A date \in DatesOf(doc'.notes) :
           \/ IsOld(date)'
           \/ \E q \in applied' : IsAppending(asked'[q]) /\ asked'[q].note.creationDate = date
    BY <1>4, <2>1, <2>2
  <2> QED
    BY <2>3, <2>4 DEF ArrayInv
<1> QED
  BY <1>6, <1>7, <1>8, DocumentCases

IsTaking(r) == IsCall(r, "updateNoteOfDevice") /\ IsPending(r) /\ r \in applied

IsDoublyEdited(date) ==
    \E q, r \in Requests :
        /\ q # r /\ IsCall(q, "updateNoteOfDevice") /\ IsCall(r, "updateNoteOfDevice")
        /\ asked[q].note.creationDate = date /\ asked[r].note.creationDate = date

(* The note of the array is that of the edit that has taken effect and is  *)
(* not answered, and without such an edit that of the screen.              *)
Matches(shown, note) ==
    /\ \A r \in Requests :
          IsTaking(r) /\ asked[r].note.creationDate = note.creationDate => note = asked[r].note
    /\ (\A r \in Requests : IsTaking(r) => asked[r].note.creationDate # note.creationDate) =>
          note = shown

(* Without faults: an edit failed only if its note is not in the array; an *)
(* append that is not confirmed is in the array as it was written; and     *)
(* what the screen shows matches the array.                                *)
CommentInv ==
    faults = 0 /\ trap = "none" =>
        /\ \A r \in Requests :
              /\ IsCall(r, "updateNoteOfDevice") /\ answer[r] = "failed"
              /\ asked[r].note.creationDate \in DatesOf(doc.notes)
              => asked[r].note.creationDate \in SharedDates
        /\ \A r \in applied, note \in NotesOf(doc.notes) :
              /\ IsAppending(asked[r]) /\ answer[r] # "ok"
              /\ note.creationDate = asked[r].note.creationDate
              => note = asked[r].note \/ note.creationDate \in SharedDates
        /\ \A shown \in NotesOf(notes) \cup NotesOf(deletedNotes), note \in NotesOf(doc.notes) :
              /\ note.creationDate = shown.creationDate
              /\ note.creationDate \notin SharedDates /\ ~ IsDoublyEdited(note.creationDate)
              => Matches(shown, note)

LEMMA TrapStays == [Next]_vars /\ trap' = "none" => trap = "none"
  BY BlockCases
     DEF Next, User, Handler, AddNote, NoteChanged, StartEditing, Done, DeleteAll, SwipeDelete,
         Cancel, AppendSucceeds, UpdateSucceeds, DeleteSucceeds, CallFails, DeleteFails,
         RunBlock, ServerApplies, OthersDelete, Tick, vars, IsRunning

LEMMA DoublyEditedStays ==
    ASSUME TypeInv, [Next]_vars, NEW date, IsDoublyEdited(date)
    PROVE  IsDoublyEdited(date)'
<1>1. PICK q \in Requests, r \in Requests :
        /\ q # r /\ IsCall(q, "updateNoteOfDevice") /\ IsCall(r, "updateNoteOfDevice")
        /\ asked[q].note.creationDate = date /\ asked[r].note.creationDate = date
  BY DEF IsDoublyEdited
<1>2. asked[q] # NoOperation /\ asked[r] # NoOperation
  BY <1>1 DEF IsCall, NoOperation
<1>3. asked'[q] = asked[q] /\ asked'[r] = asked[r]
  BY <1>2, CallsPersist
<1> QED
  BY <1>1, <1>3 DEF IsDoublyEdited, IsCall

(* How the edits that have taken effect change *)
LEMMA TakingStep ==
    ASSUME TypeInv, [Next]_vars, faults' = 0, NEW r \in Requests
    PROVE  /\ IsTaking(r)' =>
                 /\ asked'[r] = asked[r]
                 /\ IsTaking(r) \/ (ServerApplies(r) /\ r \notin applied)
           /\ IsTaking(r) => UpdateSucceeds(r) \/ (IsTaking(r)' /\ asked'[r] = asked[r])
<1>1. /\ faults = 0 /\ answer \in [Requests -> {"none", "ok", "failed"}]
      /\ \A q \in applied : asked[q] # NoOperation
      /\ asked[r] # NoOperation => asked'[r] = asked[r]
      /\ answer[r] # "none" => answer'[r] = answer[r]
  BY FaultsStay, TypeFacts, CallsPersist, OperationKinds
<1>2. ASSUME NEW dates, OthersDelete(dates) PROVE FALSE
  BY <1>1, <1>2 DEF OthersDelete
<1>3. ASSUME NEW q \in Requests, ServerApplies(q)
      PROVE  applied' = applied \cup {q} /\ UNCHANGED <<asked, answer>> /\ q \notin applied
  BY <1>1, <1>3, LogActions DEF ServerApplies
<1>4. ASSUME IsTaking(r)'
      PROVE  /\ asked'[r] = asked[r]
             /\ IsTaking(r) \/ (ServerApplies(r) /\ r \notin applied)
  <2>1. asked'[r].kind = "updateNoteOfDevice" /\ answer'[r] = "none" /\ r \in applied'
    BY <1>4 DEF IsTaking, IsCall, IsPending
  <2>2. ASSUME r \in applied PROVE asked'[r] = asked[r] /\ IsTaking(r)
    <3>1. asked'[r] = asked[r] /\ answer[r] = "none" /\ asked[r] # NoOperation
      BY <1>1, <2>1, <2>2
    <3> QED
      BY <2>1, <2>2, <3>1 DEF IsTaking, IsCall, IsPending
  <2>3. ASSUME r \notin applied PROVE asked'[r] = asked[r] /\ ServerApplies(r)
    <3>1. PICK q \in Requests : ServerApplies(q)
      BY <1>2, <2>1, <2>3, DocumentCases
    <3> QED
      BY <1>3, <2>1, <2>3, <3>1
  <2> QED
    BY <2>2, <2>3
<1>5. ASSUME IsTaking(r) PROVE UpdateSucceeds(r) \/ (IsTaking(r)' /\ asked'[r] = asked[r])
  <2>1. /\ asked[r].kind = "updateNoteOfDevice" /\ answer[r] = "none" /\ r \in applied
        /\ asked[r] # NoOperation
    BY <1>5 DEF IsTaking, IsCall, IsPending
  <2>2. asked'[r] = asked[r] /\ r \in applied'
    BY <1>1, <1>2, <1>3, <2>1, DocumentCases
  <2>3. CASE answer'[r] = "none"
    BY <2>1, <2>2, <2>3 DEF IsTaking, IsCall, IsPending
  <2>4. CASE answer'[r] # "none"
    <3>1. answer'[r] # "failed"
      BY <2>1, FailuresWithoutFault
    <3>2. PICK q \in Requests : Handler(q) /\ (Log!Confirm(q) \/ Log!Refuse(q))
      BY <2>1, <2>4, AnswerCases
    <3>3. q = r /\ ~ Log!Refuse(r)
      BY <1>1, <2>1, <2>4, <3>1, <3>2, LogActions
    <3>4. ~ IsAppending(asked[r]) /\ ~ IsCall(r, "deleteNotesOfDevice")
      BY <2>1 DEF IsAppending, AppendingKinds, IsCall
    <3> QED
      BY <3>2, <3>3, <3>4
         DEF Handler, AppendSucceeds, DeleteSucceeds, CallFails, DeleteFails
  <2> QED
    BY <2>3, <2>4
<1> QED
  BY <1>4, <1>5

(* The notes that the screen shows after a step are those it showed, but   *)
(* for one that was confirmed and one that was edited.                     *)
LEMMA ShownNotes ==
    ASSUME TypeInv, [Next]_vars, NEW a \in Seq(Note), NEW b \in Seq(Note),
           a = notes', b = deletedNotes', NEW shown \in NotesOf(a) \cup NotesOf(b)
    PROVE  \/ shown \in NotesOf(notes) \cup NotesOf(deletedNotes)
           \/ \E r \in Requests : AppendSucceeds(r) /\ shown = asked[r].note
           \/ \E r \in Requests : UpdateSucceeds(r)
<1>1. /\ notes \in Seq(Note) /\ deletedNotes \in Seq(Note)
      /\ \A r \in Requests : IsAppending(asked[r]) => asked[r].note \in Note
  BY TypeFacts
<1>2. CASE UNCHANGED <<notes, deletedNotes>>
  BY <1>2
<1>3. CASE notes' \in Sortings(notes \o deletedNotes) /\ deletedNotes' = << >>
  <2>1. a \in Sortings(notes \o deletedNotes) /\ b = << >>
    BY <1>3
  <2> QED
    BY <1>1, <2>1, NotesMove
<1>4. CASE notes' = << >> /\ deletedNotes' = deletedNotes \o notes
  <2>1. a = << >> /\ b = deletedNotes \o notes
    BY <1>4
  <2> QED
    BY <1>1, <2>1, NotesMove
<1>5. ASSUME NEW i \in DOMAIN notes, notes' = RemoveAt(notes, i),
             deletedNotes' = deletedNotes \o <<notes[i]>>
      PROVE  shown \in NotesOf(notes) \cup NotesOf(deletedNotes)
  <2>1. notes[i] \in Note
    BY <1>1
  <2>2. PICK one \in Seq(Note) : one = <<notes[i]>>
    BY <1>1, <2>1, NotesMove
  <2>3. NotesOf(one) = {notes[i]}
    BY <1>1, <2>1, <2>2, NotesMove
  <2>4. a = RemoveAt(notes, i) /\ b = deletedNotes \o one
    BY <1>5, <2>2
  <2>5. NotesOf(a) \subseteq NotesOf(notes) /\ NotesOf(b) \subseteq NotesOf(deletedNotes) \cup NotesOf(one)
    BY <1>1, <2>4, NotesMove
  <2>6. notes[i] \in NotesOf(notes)
    BY DEF NotesOf
  <2> QED
    BY <2>3, <2>5, <2>6
<1>6. ASSUME NEW r \in Requests, AppendSucceeds(r)
      PROVE  shown \in NotesOf(notes) \cup NotesOf(deletedNotes) \/ shown = asked[r].note
  <2>1. /\ asked[r].note \in Note /\ UNCHANGED deletedNotes
        /\ notes' = <<asked[r].note>> \o notes
    BY <1>1, <1>6 DEF AppendSucceeds
  <2>2. PICK one \in Seq(Note) : one = <<asked[r].note>>
    BY <1>1, <2>1, NotesMove
  <2>3. NotesOf(one) = {asked[r].note}
    BY <1>1, <2>1, <2>2, NotesMove
  <2>4. a = one \o notes /\ b = deletedNotes
    BY <2>1, <2>2
  <2>5. NotesOf(a) \subseteq NotesOf(one) \cup NotesOf(notes)
    BY <1>1, <2>4, NotesMove
  <2> QED
    BY <2>3, <2>4, <2>5
<1>7. CASE UNCHANGED notes /\ deletedNotes' = << >>
  <2>1. a = notes /\ b = << >>
    BY <1>7
  <2> QED
    BY <1>1, <2>1, NotesMove
<1> QED
  BY <1>2, <1>3, <1>4, <1>5, <1>6, <1>7, ListCases

LEMMA CommentInit == Init => CommentInv
<1> SUFFICES ASSUME Init PROVE CommentInv
  OBVIOUS
<1>1. /\ TypeInv /\ doc.notes \in Seq(Note) /\ \A date : ~ IsTwin(doc.notes, date)
      /\ notes \in Sortings(doc.notes) /\ deletedNotes = << >> /\ applied = {}
      /\ answer = [r \in Requests |-> "none"]
  BY InitialArray DEF Init
<1>2. NotesOf(notes) \cup NotesOf(deletedNotes) \subseteq NotesOf(doc.notes)
  <2>1. PICK p \in Bijection(DOMAIN doc.notes, DOMAIN doc.notes) :
           notes = [i \in DOMAIN doc.notes |-> doc.notes[p[i]]]
    BY <1>1, SortingElements
  <2>2. p \in [DOMAIN doc.notes -> DOMAIN doc.notes]
    BY <2>1 DEF Bijection, Injection
  <2>3. NotesOf(notes) \subseteq NotesOf(doc.notes)
    BY <2>1, <2>2 DEF NotesOf
  <2>4. NotesOf(deletedNotes) = {}
    BY <1>1 DEF NotesOf
  <2> QED
    BY <2>3, <2>4
<1>3. ASSUME NEW m \in NotesOf(doc.notes), NEW n \in NotesOf(doc.notes),
             m.creationDate = n.creationDate
      PROVE  m = n
  <2>1. PICK i \in DOMAIN doc.notes, j \in DOMAIN doc.notes : m = doc.notes[i] /\ n = doc.notes[j]
    BY DEF NotesOf
  <2>2. i = j
    BY <1>1, <1>3, <2>1 DEF IsTwin
  <2> QED
    BY <2>1, <2>2
<1>4. \A r \in Requests : ~ IsTaking(r)
  BY <1>1 DEF IsTaking
<1>5. \A shown \in NotesOf(notes) \cup NotesOf(deletedNotes), note \in NotesOf(doc.notes) :
         note.creationDate = shown.creationDate => Matches(shown, note)
  BY <1>2, <1>3, <1>4 DEF Matches
<1> QED
  BY <1>1, <1>5 DEF CommentInv

(* An edit that failed has no note in the array that it could change. *)
LEMMA FailedEditStep ==
    ASSUME TypeInv, DeletionInv, OriginInv, FieldInv, CommentInv, [Next]_vars,
           faults' = 0, trap' = "none",
           NEW r \in Requests, IsCall(r, "updateNoteOfDevice")', answer'[r] = "failed",
           asked'[r].note.creationDate \in DatesOf(doc'.notes)
    PROVE  asked'[r].note.creationDate \in SharedDates'
<1>1. /\ faults = 0 /\ trap = "none" /\ IsDocument(doc) /\ SharedDates \subseteq SharedDates'
  BY FaultsStay, TrapStays, TypeFacts, SharedStay
<1>2. CASE answer[r] # "failed"
  <2>1. /\ ~ Applicable(doc, asked[r]) /\ asked[r] # NoOperation /\ UNCHANGED <<doc, asked>>
    BY <1>2, FailuresWithoutFault
  <2>2. asked[r].kind = "updateNoteOfDevice"
    BY <2>1 DEF IsCall
  <2>3. ~ IsAppending(asked[r])
    BY <2>2 DEF IsAppending, AppendingKinds
  <2>4. doc.hasNotes
    BY <2>1, <2>3 DEF FieldInv
  <2>5. ~ \E s \in DOMAIN doc.notes : doc.notes[s].creationDate = asked[r].note.creationDate
    BY <2>1, <2>4 DEF Applicable, BlockSucceeds
  <2> QED
    BY <2>1, <2>5 DEF DatesOf
<1>3. CASE answer[r] = "failed"
  <2>1. asked[r] # NoOperation
    BY <1>3 DEF DeletionInv
  <2>2. asked'[r] = asked[r] /\ IsCall(r, "updateNoteOfDevice")
    BY <2>1, CallsPersist DEF IsCall
  <2>3. CASE asked[r].note.creationDate \in DatesOf(doc.notes)
    BY <1>1, <1>3, <2>2, <2>3 DEF CommentInv
  <2>4. CASE asked[r].note.creationDate \notin DatesOf(doc.notes)
    <3>1. PICK q \in Requests : ServerApplies(q)
      <4>1. ASSUME NEW dates, OthersDelete(dates) PROVE FALSE
        BY <1>1, <4>1 DEF OthersDelete
      <4> QED
        BY <2>2, <2>4, <4>1, DocumentCases
    <3>2. /\ asked[q] # NoOperation /\ answer[q] # "ok" /\ doc' = Effect(doc, asked[q])
      BY <3>1, LogActions DEF ServerApplies
    <3>3. asked[q] \in Operation
      BY <3>2, TypeFacts
    <3>4. IsAppending(asked[q]) \/ asked[q].kind \in {"updateNoteOfDevice", "deleteNotesOfDevice"}
      BY <3>3 DEF Operation, AppendingOperation, TransactionOperation, IsAppending, AppendingKinds
    <3>5. IsAppending(asked[q]) /\ asked[q].note.creationDate = asked[r].note.creationDate
      BY <1>1, <2>2, <2>4, <3>2, <3>3, <3>4, DatesOfEffect
    <3>6. IsKnown(asked[r].note.creationDate)
      BY <2>2 DEF OriginInv
    <3>7. asked[q].note.creationDate \in SharedDates
      BY <3>2, <3>5, <3>6, KnownAppend
    <3> QED
      BY <1>1, <2>2, <3>5, <3>7
  <2> QED
    BY <2>3, <2>4
<1> QED
  BY <1>2, <1>3

(* An append that is not confirmed is in the array as it was written. *)
LEMMA UnconfirmedNoteStep ==
    ASSUME TypeInv, OriginInv, ArrayInv, CommentInv, [Next]_vars, faults' = 0, trap' = "none",
           NEW r \in applied', IsAppending(asked'[r]), answer'[r] # "ok",
           NEW m \in NotesOf(doc'.notes), m.creationDate = asked'[r].note.creationDate
    PROVE  m = asked'[r].note \/ m.creationDate \in SharedDates'
<1>1. /\ faults = 0 /\ trap = "none" /\ IsDocument(doc) /\ SharedDates \subseteq SharedDates'
      /\ \A q \in applied : q \in Requests /\ asked[q] # NoOperation
  BY FaultsStay, TrapStays, TypeFacts, SharedStay, OperationKinds
<1>2. ASSUME NEW q \in applied, IsAppending(asked[q]), answer[q] # "ok",
             m \in NotesOf(doc.notes), m.creationDate = asked[q].note.creationDate
      PROVE  m = asked[q].note \/ m.creationDate \in SharedDates'
  BY <1>1, <1>2 DEF CommentInv
<1>3. CASE UNCHANGED <<doc, applied>>
  <2>1. asked[r] # NoOperation /\ r \in applied /\ r \in Requests /\ m \in NotesOf(doc.notes)
    BY <1>1, <1>3
  <2>2. asked'[r] = asked[r] /\ answer[r] # "ok"
    BY <2>1, CallsPersist
  <2>3. IsAppending(asked[r])
    BY <2>2
  <2> QED
    BY <1>2, <2>1, <2>2, <2>3
<1>4. ASSUME NEW q \in Requests, ServerApplies(q)
      PROVE  m = asked'[r].note \/ m.creationDate \in SharedDates'
  <2>1. /\ asked[q] # NoOperation /\ answer[q] # "ok" /\ doc' = Effect(doc, asked[q])
        /\ applied' = applied \cup {q} /\ UNCHANGED <<asked, answer>> /\ q \notin applied
    BY <1>1, <1>4, LogActions DEF ServerApplies
  <2>2. asked[q] \in Operation
    BY <2>1, TypeFacts
  <2>3. m \in NotesOf(Effect(doc, asked[q]).notes)
    BY <2>1
  <2>4. /\ IsAppending(asked[r]) /\ answer[r] # "ok" /\ (r = q \/ r \in applied) /\ r \in Requests
        /\ m.creationDate = asked[r].note.creationDate
    BY <1>1, <2>1
  <2>5. CASE IsAppending(asked[q])
    <3>1. CASE m \in NotesOf(doc.notes) /\ r = q
      <4>1. m.creationDate \in DatesOf(doc.notes)
        BY <3>1 DEF NotesOf, DatesOf
      <4> QED
        BY <1>1, <2>1, <2>4, <2>5, <3>1, <4>1, RepeatedAppend
    <3>2. CASE m \in NotesOf(doc.notes) /\ r # q
      BY <1>2, <2>1, <2>4, <3>2
    <3>3. CASE m = asked[q].note /\ r # q
      BY <1>1, <2>4, <2>5, <3>3, SharedPair
    <3>4. CASE m = asked[q].note /\ r = q
      BY <2>1, <3>4
    <3> QED
      BY <1>1, <2>2, <2>3, <2>5, <3>1, <3>2, <3>3, <3>4, NotesOfEffect
  <2>6. CASE asked[q].kind = "updateNoteOfDevice"
    <3>1. r # q
      BY <2>4, <2>6 DEF IsAppending, AppendingKinds
    <3>2. m = asked[q].note \/ m \in NotesOf(doc.notes)
      BY <1>1, <2>2, <2>3, <2>6, NotesOfEffect, NotesOfAnyEdit
    <3>3. CASE m = asked[q].note
      <4>1. IsKnown(asked[q].note.creationDate)
        BY <2>6 DEF OriginInv, IsCall
      <4>2. asked[r].note.creationDate \in SharedDates
        BY <2>4, <3>3, <4>1, KnownAppend
      <4> QED
        BY <1>1, <2>4, <4>2
    <3>4. CASE m \in NotesOf(doc.notes)
      BY <1>2, <2>1, <2>4, <3>1, <3>4
    <3> QED
      BY <3>2, <3>3, <3>4
  <2>7. CASE asked[q].kind = "deleteNotesOfDevice"
    <3>1. r # q
      BY <2>4, <2>7 DEF IsAppending, AppendingKinds
    <3>2. m \in NotesOf(doc.notes)
      BY <1>1, <2>2, <2>3, <2>7, NotesOfEffect
    <3> QED
      BY <1>2, <2>1, <2>4, <3>1, <3>2
  <2> QED
    BY <2>2, <2>5, <2>6, <2>7
       DEF Operation, AppendingOperation, TransactionOperation, IsAppending, AppendingKinds
<1>5. ASSUME NEW dates, OthersDelete(dates) PROVE FALSE
  BY <1>1, <1>5 DEF OthersDelete
<1> QED
  BY <1>3, <1>4, <1>5, DocumentCases

(* What the screen shows matches the array: first of a step that leaves    *)
(* the array alone.                                                        *)
LEMMA ShownNoteStep ==
    ASSUME TypeInv, OriginInv, CommentInv, [Next]_vars, faults' = 0, trap' = "none",
           UNCHANGED <<doc, applied>>,
           NEW a \in Seq(Note), NEW b \in Seq(Note), a = notes', b = deletedNotes',
           NEW n \in NotesOf(a) \cup NotesOf(b), NEW m \in NotesOf(doc.notes),
           m.creationDate = n.creationDate,
           m.creationDate \notin SharedDates, ~ IsDoublyEdited(m.creationDate)
    PROVE  Matches(n, m)'
<1>1. /\ faults = 0 /\ trap = "none" /\ notes \in Seq(Note) /\ deletedNotes \in Seq(Note)
      /\ \A r \in applied : r \in Requests /\ asked[r] # NoOperation /\ asked[r] \in Operation
      /\ \A r \in Requests : IsCall(r, "updateNoteOfDevice") => asked[r].note \in Note
      /\ answer \in [Requests -> {"none", "ok", "failed"}]
  BY FaultsStay, TrapStays, TypeFacts, OperationKinds
<1>2. \A k \in NotesOf(notes) \cup NotesOf(deletedNotes) :
         m.creationDate = k.creationDate => Matches(k, m)
  BY <1>1 DEF CommentInv
<1>3. \A r \in Requests : IsTaking(r)' => IsTaking(r) /\ asked'[r] = asked[r]
  <2> SUFFICES ASSUME NEW r \in Requests, IsTaking(r)'
               PROVE  IsTaking(r) /\ asked'[r] = asked[r]
    OBVIOUS
  <2>1. r \in applied
    BY DEF IsTaking
  <2> QED
    BY <2>1, TakingStep
<1>4. ASSUME n \in NotesOf(notes) \cup NotesOf(deletedNotes),
             \A r \in Requests : UpdateSucceeds(r) => asked[r].note.creationDate # m.creationDate
      PROVE  Matches(n, m)'
  <2>1. Matches(n, m)
    BY <1>2, <1>4
  <2>2. ASSUME NEW r \in Requests, IsTaking(r)', asked'[r].note.creationDate = m.creationDate
        PROVE  m = asked'[r].note
    BY <1>3, <2>1, <2>2 DEF Matches
  <2>3. ASSUME \A r \in Requests : IsTaking(r)' => asked'[r].note.creationDate # m.creationDate
        PROVE  m = n
    <3>1. ASSUME NEW r \in Requests, IsTaking(r), asked[r].note.creationDate = m.creationDate
          PROVE  FALSE
      <4>1. IsTaking(r)' /\ asked'[r] = asked[r]
        BY <1>4, <3>1, TakingStep
      <4> QED
        BY <2>3, <3>1, <4>1
    <3> QED
      BY <2>1, <3>1 DEF Matches
  <2> QED
    BY <2>2, <2>3 DEF Matches
<1>5. CASE \A r \in Requests : ~ UpdateSucceeds(r)
  <2>1. CASE n \in NotesOf(notes) \cup NotesOf(deletedNotes)
    BY <1>4, <1>5, <2>1
  <2>2. CASE \E r \in Requests : AppendSucceeds(r) /\ n = asked[r].note
    <3>1. PICK r \in Requests : AppendSucceeds(r) /\ n = asked[r].note
      BY <2>2
    <3>2. IsAppending(asked[r]) /\ r \in applied /\ answer[r] # "ok"
      BY <3>1, LogActions DEF AppendSucceeds
    <3>3. m = n
      BY <1>1, <3>1, <3>2 DEF CommentInv
    <3>4. ASSUME NEW u \in Requests, IsTaking(u)', asked'[u].note.creationDate = m.creationDate
          PROVE  FALSE
      <4>1. IsTaking(u) /\ asked'[u] = asked[u]
        BY <1>3, <3>4
      <4>2. IsKnown(asked[u].note.creationDate)
        BY <4>1 DEF OriginInv, IsTaking
      <4>3. asked[u].note.creationDate = asked[r].note.creationDate
        BY <3>1, <3>4, <4>1
      <4>4. IsKnown(asked[r].note.creationDate)
        BY <4>2, <4>3
      <4> QED
        BY <3>1, <3>2, <4>4, KnownAppend
    <3> QED
      BY <3>3, <3>4 DEF Matches
  <2> QED
    BY <1>5, <2>1, <2>2, ShownNotes
<1>6. ASSUME NEW u \in Requests, UpdateSucceeds(u) PROVE Matches(n, m)'
  <2> DEFINE e == asked[u].note.creationDate
  <2>1. /\ IsCall(u, "updateNoteOfDevice") /\ Log!Confirm(u) /\ UNCHANGED deletedNotes
        /\ notes' = ReplaceComment(notes, asked[u].note)
        /\ \E i \in DOMAIN notes : notes[i].creationDate = e
    BY <1>6 DEF UpdateSucceeds
  <2>2. /\ answer[u] = "none" /\ u \in applied /\ answer'[u] = "ok" /\ UNCHANGED asked
        /\ \A q \in Requests : q # u => answer'[q] = answer[q]
    BY <1>1, <2>1, LogActions
  <2>3. \A r \in Requests : UpdateSucceeds(r) => r = u
    <3> SUFFICES ASSUME NEW r \in Requests, UpdateSucceeds(r) PROVE r = u
      OBVIOUS
    <3>1. answer[r] = "none" /\ answer'[r] = "ok"
      BY <1>1, LogActions DEF UpdateSucceeds
    <3> QED
      BY <2>2, <3>1
  <2>4. IsTaking(u)
    BY <1>1, <2>1, <2>2 DEF IsTaking, IsPending
  <2>5. a = ReplaceComment(notes, asked[u].note) /\ b = deletedNotes
    BY <2>1
  <2>6. CASE m.creationDate # e
    <3>1. n \in NotesOf(notes) \cup NotesOf(deletedNotes)
      BY <2>5, <2>6, NotesOfAnyEdit
    <3>2. \A r \in Requests : UpdateSucceeds(r) => asked[r].note.creationDate # m.creationDate
      BY <2>3, <2>6
    <3> QED
      BY <1>4, <3>1, <3>2
  <2>7. CASE m.creationDate = e
    <3>1. ~ IsAmbiguous(notes, deletedNotes, e)
      <4>1. e \in Dates
        BY <1>1, <2>1 DEF Note
      <4> QED
        BY <2>7, <4>1 DEF OriginInv
    <3>2. DOMAIN notes \subseteq Nat
      BY <1>1
    <3>3. n = asked[u].note
      <4>1. CASE n \in NotesOf(a)
        BY <2>5, <2>7, <3>1, <3>2, <4>1, NotesOfEdit DEF IsAmbiguous
      <4>2. CASE n \in NotesOf(b)
        <5>1. e \in DatesOf(deletedNotes)
          BY <2>5, <2>7, <4>2 DEF NotesOf, DatesOf
        <5>2. e \in DatesOf(notes)
          BY <2>1 DEF DatesOf
        <5> QED
          BY <3>1, <5>1, <5>2 DEF IsAmbiguous
      <4> QED
        BY <4>1, <4>2
    <3>4. PICK i \in DOMAIN notes : notes[i].creationDate = e
      BY <2>1
    <3>5. Matches(notes[i], m)
      BY <1>2, <2>7, <3>4 DEF NotesOf
    <3>6. m = asked[u].note
      BY <2>4, <2>7, <3>5 DEF Matches
    <3>7. ASSUME NEW r \in Requests, IsTaking(r)', asked'[r].note.creationDate = m.creationDate
          PROVE  FALSE
      <4>1. IsTaking(r) /\ asked'[r] = asked[r] /\ answer'[r] = "none"
        BY <1>3, <3>7 DEF IsTaking, IsPending
      <4>2. r # u
        BY <2>2, <4>1
      <4> QED
        BY <2>1, <2>7, <3>7, <4>1, <4>2 DEF IsDoublyEdited, IsTaking
    <3> QED
      BY <3>3, <3>6, <3>7 DEF Matches
  <2> QED
    BY <2>6, <2>7
<1> QED
  BY <1>5, <1>6

(* Then of an operation that takes effect.                                 *)
LEMMA AppliedNoteStep ==
    ASSUME TypeInv, OriginInv, ArrayInv, CommentInv, [Next]_vars, faults' = 0, trap' = "none",
           NEW q \in Requests, ServerApplies(q),
           NEW n \in NotesOf(notes) \cup NotesOf(deletedNotes), NEW m \in NotesOf(doc'.notes),
           m.creationDate = n.creationDate,
           m.creationDate \notin SharedDates, ~ IsDoublyEdited(m.creationDate)
    PROVE  Matches(n, m)'
<1>1. /\ faults = 0 /\ trap = "none" /\ IsDocument(doc)
      /\ notes \in Seq(Note) /\ deletedNotes \in Seq(Note)
      /\ answer \in [Requests -> {"none", "ok", "failed"}]
  BY FaultsStay, TrapStays, TypeFacts
<1>2. /\ asked[q] # NoOperation /\ answer[q] # "ok" /\ doc' = Effect(doc, asked[q])
      /\ Applicable(doc, asked[q])
      /\ applied' = applied \cup {q} /\ UNCHANGED <<asked, answer>> /\ q \notin applied
  BY <1>1, LogActions DEF ServerApplies
<1>3. asked[q] \in Operation
  BY <1>2, TypeFacts
<1>4. m \in NotesOf(Effect(doc, asked[q]).notes)
  BY <1>2
<1>5. \A r \in Requests : IsTaking(r)' <=>
         IsTaking(r) \/ (r = q /\ IsCall(q, "updateNoteOfDevice") /\ answer[q] = "none")
  BY <1>2 DEF IsTaking, IsCall, IsPending
<1>6. DatesOf(notes) \cup DatesOf(deletedNotes) \subseteq Dates
  BY <1>1, DatesAreDates
<1>7. n.creationDate \in DatesOf(notes) \cup DatesOf(deletedNotes)
  BY DEF NotesOf, DatesOf
<1>8. ASSUME m \in NotesOf(doc.notes),
             IsCall(q, "updateNoteOfDevice") => asked[q].note.creationDate # m.creationDate
      PROVE  Matches(n, m)'
  <2>1. Matches(n, m)
    BY <1>1, <1>8 DEF CommentInv
  <2> QED
    BY <1>2, <1>5, <1>8, <2>1 DEF Matches
<1>9. CASE IsAppending(asked[q])
  <2>1. ~ IsCall(q, "updateNoteOfDevice")
    BY <1>9 DEF IsAppending, AppendingKinds, IsCall
  <2>2. CASE m \in NotesOf(doc.notes)
    BY <1>8, <2>1, <2>2
  <2>3. CASE m = asked[q].note
    <3>1. IsKnown(asked[q].note.creationDate)
      BY <1>7, <2>3 DEF OriginInv
    <3> QED
      BY <1>2, <1>9, <2>3, <3>1, KnownAppend
  <2> QED
    BY <1>1, <1>3, <1>4, <1>9, <2>2, <2>3, NotesOfEffect
<1>10. CASE asked[q].kind = "updateNoteOfDevice"
  <2>1. /\ doc'.notes = ReplaceComment(doc.notes, asked[q].note) /\ DOMAIN doc.notes \subseteq Nat
    BY <1>1, <1>2, <1>3, <1>4, <1>10, NotesOfEffect
  <2>2. CASE m.creationDate # asked[q].note.creationDate
    <3>1. m \in NotesOf(doc.notes)
      BY <2>1, <2>2, NotesOfAnyEdit
    <3> QED
      BY <1>8, <2>2, <3>1
  <2>3. CASE m.creationDate = asked[q].note.creationDate
    <3>1. ~ IsTwin(doc.notes, m.creationDate)
      BY <1>1, <1>6, <1>7 DEF ArrayInv
    <3>2. m = asked[q].note
      BY <2>1, <2>3, <3>1, NotesOfEdit
    <3>3. answer[q] = "none"
      <4>1. asked[q].note.creationDate \in DatesOf(doc.notes)
        BY <1>2, <1>10 DEF Applicable, BlockSucceeds, IsAppending, AppendingKinds, DatesOf
      <4>2. answer[q] # "failed"
        BY <1>1, <1>10, <2>3, <4>1 DEF CommentInv, IsCall
      <4> QED
        BY <1>1, <1>2, <4>2
    <3>4. IsTaking(q)' /\ asked'[q] = asked[q]
      BY <1>2, <1>5, <1>10, <3>3 DEF IsCall
    <3>5. ASSUME NEW r \in Requests, IsTaking(r)', asked'[r].note.creationDate = m.creationDate
          PROVE  r = q
      <4>1. IsCall(r, "updateNoteOfDevice") /\ asked[r].note.creationDate = m.creationDate
        BY <1>2, <3>5 DEF IsTaking, IsCall
      <4> QED
        BY <1>10, <2>3, <4>1 DEF IsDoublyEdited, IsCall
    <3> QED
      BY <2>3, <3>2, <3>4, <3>5 DEF Matches
  <2> QED
    BY <2>2, <2>3
<1>11. CASE asked[q].kind = "deleteNotesOfDevice"
  <2>1. m \in NotesOf(doc.notes)
    BY <1>1, <1>3, <1>4, <1>11, NotesOfEffect
  <2> QED
    BY <1>8, <1>11, <2>1 DEF IsCall
<1> QED
  BY <1>3, <1>9, <1>10, <1>11
     DEF Operation, AppendingOperation, TransactionOperation, IsAppending, AppendingKinds

LEMMA CommentStep ==
    /\ TypeInv /\ DeletionInv /\ OriginInv /\ FieldInv /\ ArrayInv /\ CommentInv /\ [Next]_vars
    => CommentInv'
<1> SUFFICES ASSUME TypeInv, DeletionInv, OriginInv, FieldInv, ArrayInv, CommentInv, [Next]_vars,
                    faults' = 0, trap' = "none"
             PROVE  CommentInv'
  BY DEF CommentInv
<1>1. \A r \in Requests :
         /\ IsCall(r, "updateNoteOfDevice")' /\ answer'[r] = "failed"
         /\ asked'[r].note.creationDate \in DatesOf(doc'.notes)
         => asked'[r].note.creationDate \in SharedDates'
  BY FailedEditStep
<1>2. \A r \in applied', m \in NotesOf(doc'.notes) :
         /\ IsAppending(asked'[r]) /\ answer'[r] # "ok"
         /\ m.creationDate = asked'[r].note.creationDate
         => m = asked'[r].note \/ m.creationDate \in SharedDates'
  BY UnconfirmedNoteStep
<1>3. PICK a \in Seq(Note), b \in Seq(Note) : a = notes' /\ b = deletedNotes'
  BY TypeStep DEF TypeInv, TypeOK
<1>4. ASSUME NEW n \in NotesOf(a) \cup NotesOf(b), NEW m \in NotesOf(doc'.notes),
             m.creationDate = n.creationDate,
             m.creationDate \notin SharedDates', ~ IsDoublyEdited(m.creationDate)'
      PROVE  Matches(n, m)'
  <2>1. m.creationDate \notin SharedDates /\ ~ IsDoublyEdited(m.creationDate)
    BY <1>4, SharedStay, DoublyEditedStays
  <2>2. CASE UNCHANGED <<doc, applied>>
    <3>1. m \in NotesOf(doc.notes)
      BY <2>2
    <3> QED
      BY <1>3, <1>4, <2>1, <2>2, <3>1, ShownNoteStep
  <2>3. ASSUME NEW q \in Requests, ServerApplies(q) PROVE Matches(n, m)'
    <3>1. UNCHANGED <<notes, deletedNotes>>
      BY <2>3 DEF ServerApplies, listVars
    <3>2. n \in NotesOf(notes) \cup NotesOf(deletedNotes)
      BY <1>3, <3>1
    <3> QED
      BY <1>4, <2>1, <2>3, <3>2, AppliedNoteStep
  <2>4. ASSUME NEW dates, OthersDelete(dates) PROVE FALSE
    BY <2>4, FaultsStay DEF OthersDelete
  <2> QED
    BY <2>2, <2>3, <2>4, DocumentCases
<1>5. \A n \in NotesOf(notes') \cup NotesOf(deletedNotes'), m \in NotesOf(doc'.notes) :
         /\ m.creationDate = n.creationDate
         /\ m.creationDate \notin SharedDates' /\ ~ IsDoublyEdited(m.creationDate)'
         => Matches(n, m)'
  BY <1>3, <1>4
<1> QED
  BY <1>1, <1>2, <1>5 DEF CommentInv

(* Without faults, and of a user who waits for the end of a deletion: once *)
(* every call is answered a note of the list is one of the cloud, comment  *)
(* and all, unless it shares its second with another or was edited twice;  *)
(* whatever the order in which the calls took effect and were answered.    *)
(* An edit that failed never takes effect later, for the note it would     *)
(* change was not there (DataCenter.swift:172-193).                        *)
THEOREM CommentsAlwaysAgree == Spec => []CommentsAgree
<1>1. TypeInv /\ PhantomInv /\ CommentInv => CommentsAgree
  <2> SUFFICES ASSUME TypeInv, PhantomInv, CommentInv, trap = "none", faults = 0,
                      \A r \in Requests : ~ IsPending(r), NEW i \in DOMAIN notes,
                      notes[i].creationDate \notin SharedDates, ~ hurried,
                      ~ IsDoublyEdited(notes[i].creationDate)
               PROVE  \E s \in DOMAIN doc.notes : doc.notes[s] = notes[i]
    BY DEF CommentsAgree, IsDoublyEdited
  <2>1. notes[i].creationDate \in DatesOf(doc.notes)
    BY DEF PhantomInv, DatesOf
  <2>2. PICK s \in DOMAIN doc.notes : doc.notes[s].creationDate = notes[i].creationDate
    BY <2>1 DEF DatesOf
  <2>3. doc.notes[s] \in NotesOf(doc.notes) /\ notes[i] \in NotesOf(notes)
    BY DEF NotesOf
  <2>4. Matches(notes[i], doc.notes[s])
    BY <2>2, <2>3 DEF CommentInv
  <2>5. \A r \in Requests : ~ IsTaking(r)
    BY DEF IsTaking
  <2>6. doc.notes[s] = notes[i]
    BY <2>4, <2>5 DEF Matches
  <2> QED
    BY <2>6
<1> QED
  BY <1>1, TypeInit, TypeStep, SettledInit, DeletionStep, EditStep, OriginInit, OriginStep,
     FieldInit, FieldStep, PhantomInit, PhantomStep, ArrayInit, ArrayStep, CommentInit, CommentStep,
     PTL DEF Spec
=============================================================================
