-------------------------- MODULE DataCenter_proofs --------------------------
(***************************************************************************)
(* Proof that the write pipelines and the transactions implement the       *)
(* abstract log, for any number of clients, requests, retries and faults.  *)
(***************************************************************************)
EXTENDS DataCenter, SequenceTheorems, TLAPS

LogProofs == INSTANCE MaintenanceLog_proofs WITH asked <- op

-----------------------------------------------------------------------------
(* The operators on a document, as they are proved about with the log.     *)

LEMMA OperationKinds ==
    /\ \A o \in Operation : IsAppending(o) => o \in AppendingOperation
    /\ \A o \in Operation : ~ IsAppending(o) => o \in TransactionOperation
    /\ \A o \in AppendingOperation :
          /\ o.note \in Note
          /\ o.kind = "setDevicePeriod" => o.newPeriod \in Periods
    /\ \A o \in TransactionOperation :
          o.kind = "updateNoteOfDevice" => o.note \in Note
    /\ NoOperation \notin Operation
  BY DEF Operation, AppendingOperation, TransactionOperation, IsAppending, AppendingKinds,
         NoOperation

LEMMA UpdateDataType ==
    ASSUME NEW d, IsDocument(d), NEW o \in AppendingOperation
    PROVE  IsDocument(UpdateData(d, o))
  BY LogProofs!UpdateDataType, BoundsAreNumbers DEF AppendingOperation, Note, Dates,
     UpdateData, ArrayUnion, IsDocument, IsArray, LogProofs!AppendingOperation,
     LogProofs!Note, LogProofs!Dates, LogProofs!UpdateData, LogProofs!ArrayUnion,
     LogProofs!IsDocument, LogProofs!IsArray

LEMMA RewrittenNotesType ==
    ASSUME NEW notes, NEW version \in Nat, IsArray(notes, version),
           NEW o \in TransactionOperation
    PROVE  IsArray(RewrittenNotes(notes, o), version)
  BY LogProofs!RewrittenNotesType, BoundsAreNumbers DEF TransactionOperation, Note,
     Dates, RewrittenNotes, ReplaceComment, IsFirstIndex, RemoveDates, IsArray,
     LogProofs!TransactionOperation, LogProofs!Note, LogProofs!Dates,
     LogProofs!RewrittenNotes, LogProofs!ReplaceComment, LogProofs!IsFirstIndex,
     LogProofs!RemoveDates, LogProofs!IsArray, Restrict, LogProofs!Restrict

LEMMA WriteNotesType ==
    ASSUME NEW d, IsDocument(d), NEW notes, IsArray(notes, d.version)
    PROVE  IsDocument(WriteNotes(d, notes))
  BY DEF WriteNotes, IsDocument, IsArray

LEMMA InitialDocumentsType ==
    ASSUME NEW d \in InitialDocuments
    PROVE  IsDocument(d)
  BY LogProofs!InitialDocumentsType, BoundsAreNumbers DEF InitialDocuments, Note, Dates,
     IsDocument, IsArray, LogProofs!InitialDocuments, LogProofs!Note, LogProofs!Dates,
     LogProofs!IsDocument, LogProofs!IsArray

-----------------------------------------------------------------------------
(* The write pipelines: every entry is an append of its own client that    *)
(* waits for an answer, no request stands there twice, and those before    *)
(* the mark of the server have taken effect.                               *)
PipeInv ==
    \A c \in Clients :
        /\ \A i \in 1 .. Len(pipe[c]) :
              /\ Caller[pipe[c][i]] = c
              /\ phase[pipe[c][i]] \in {"queued", "orphaned"}
              /\ i <= onServer[c] => pipe[c][i] \in applied
        /\ \A i, j \in 1 .. Len(pipe[c]) : pipe[c][i] = pipe[c][j] => i = j

InTransaction == {"begun", "committing", "committed", "aborted"}

(* How far a request has come, and what it is. *)
PhaseInv ==
    \A r \in Requests :
        /\ phase[r] = "unused" <=> op[r] = NoOperation
        /\ phase[r] \in {"queued", "orphaned"} => IsAppending(op[r])
        /\ phase[r] \in InTransaction => ~ IsAppending(op[r])
        /\ answer[r] # "none" => phase[r] = "finished"
        /\ phase[r] = "committed" => r \in applied
        /\ answer[r] = "ok" => r \in applied

(* The heart of the matter: a commit that could still take effect carries  *)
(* exactly what its operation would make of the document as it is now.     *)
WireInv ==
    \A m \in wire :
        /\ op[m.request] \in Operation /\ ~ IsAppending(op[m.request])
        /\ m.version <= doc.version
        /\ m.version = doc.version =>
              /\ answer[m.request] # "ok"
              /\ phase[m.request] # "committed"
              /\ BlockSucceeds(doc, op[m.request])
              /\ m.notes = RewrittenNotes(doc.notes, op[m.request])

IInv == TypeOK /\ PipeInv /\ PhaseInv /\ WireInv

-----------------------------------------------------------------------------
(* Types.                                                                  *)

LEMMA FinishType ==
    ASSUME TypeOK, NEW r \in Requests, NEW result \in {"ok", "failed"},
           Finish(r, result)
    PROVE  /\ phase' \in [Requests -> Phases]
           /\ answer' \in [Requests -> {"none", "ok", "failed"}]
BY DEF Finish, TypeOK, Phases

LEMMA RetryType ==
    ASSUME TypeOK, NEW r \in Requests, Retry(r)
    PROVE  /\ phase' \in [Requests -> Phases]
           /\ retries' \in [Requests -> 0 .. RetryCount]
           /\ answer' \in [Requests -> {"none", "ok", "failed"}]
<1>1. CASE retries[r] > 0
  <2>1. retries[r] - 1 \in 0 .. RetryCount
    BY <1>1, ConstantsAssumption DEF TypeOK
  <2> QED
    BY <1>1, <2>1 DEF Retry, TypeOK, Phases
<1>2. CASE ~ retries[r] > 0
  BY <1>2, FinishType DEF Retry, TypeOK
<1> QED
  BY <1>1, <1>2

(* Every step keeps the types. *)
LEMMA TypeStep == IInv /\ [Next]_vars => TypeOK'
<1> SUFFICES ASSUME IInv, [Next]_vars PROVE TypeOK'
  OBVIOUS
<1> USE ConstantsAssumption DEF IInv
<1>1. ASSUME NEW r \in Requests, NEW o \in Operations, Call(r, o) PROVE TypeOK'
  <2>1. o \in Operation
    BY DEF Operations
  <2>2. op' \in [Requests -> Operation \cup {NoOperation}]
    BY <1>1, <2>1 DEF Call, TypeOK
  <2>3. CASE IsAppending(o)
    <3>1. /\ phase' = [phase EXCEPT ![r] = "queued"]
          /\ pipe' = [pipe EXCEPT ![Caller[r]] = Append(pipe[Caller[r]], r)]
      BY <1>1, <2>3 DEF Call
    <3>2. pipe' \in [Clients -> Seq(Requests)]
      BY <3>1 DEF TypeOK
    <3>3. \A c \in Clients : Len(pipe[c]) <= Len(pipe'[c])
      BY <3>1 DEF TypeOK
    <3>4. \A c \in Clients : Len(pipe[c]) \in Nat /\ Len(pipe'[c]) \in Nat
      BY <3>2, LenProperties DEF TypeOK
    <3>5. \A c \in Clients : onServer[c] <= Len(pipe'[c])
      BY <3>3, <3>4 DEF TypeOK
    <3> QED
      BY <1>1, <2>2, <3>1, <3>2, <3>5 DEF Call, TypeOK, Phases
  <2>4. CASE ~ IsAppending(o)
    BY <1>1, <2>2, <2>4 DEF Call, TypeOK, Phases
  <2> QED
    BY <2>3, <2>4
<1>2. ASSUME NEW r \in Requests, RunUpdateBlock(r) PROVE TypeOK'
  <2>1. CASE BlockSucceeds(doc, op[r])
    <3> DEFINE m == [request |-> r, attempt |-> retries[r], version |-> doc.version,
                     notes |-> RewrittenNotes(doc.notes, op[r])]
    <3>1. doc.version \in Nat /\ IsArray(doc.notes, doc.version)
      BY DEF TypeOK, IsDocument
    <3>2. op[r] \in TransactionOperation
      BY <1>2, OperationKinds DEF RunUpdateBlock, PhaseInv, InTransaction, TypeOK
    <3>3. IsArray(RewrittenNotes(doc.notes, op[r]), doc.version)
      BY <3>1, <3>2, RewrittenNotesType
    <3>4. wire' = wire \cup {m} /\ phase' = [phase EXCEPT ![r] = "committing"]
      BY <1>2, <2>1 DEF RunUpdateBlock
    <3> QED
      BY <1>2, <2>1, <3>1, <3>3, <3>4 DEF RunUpdateBlock, TypeOK, Phases
  <2>2. CASE ~ BlockSucceeds(doc, op[r])
    BY <1>2, <2>2, FinishType DEF RunUpdateBlock, TypeOK
  <2> QED
    BY <2>1, <2>2
<1>3. ASSUME NEW r \in Requests, CommitSucceeds(r) PROVE TypeOK'
  BY <1>3, FinishType DEF CommitSucceeds, TypeOK
<1>4. ASSUME NEW r \in Requests, CommitAborted(r) PROVE TypeOK'
  BY <1>4, RetryType DEF CommitAborted, TypeOK
<1>5. ASSUME NEW r \in Requests, NetworkError(r) PROVE TypeOK'
  <2>1. faults' \in 0 .. MaxFaults
    BY <1>5 DEF NetworkError, TypeOK
  <2> QED
    BY <1>5, <2>1, RetryType DEF NetworkError, TypeOK
<1>6. ASSUME NEW r \in Requests, PermanentError(r) PROVE TypeOK'
  <2>1. faults' \in 0 .. MaxFaults
    BY <1>6 DEF PermanentError, TypeOK
  <2> QED
    BY <1>6, <2>1, FinishType DEF PermanentError, TypeOK
<1>7. ASSUME NEW c \in Clients, ServerAppliesWrite(c) PROVE TypeOK'
  <2> DEFINE r == pipe[c][onServer[c] + 1]
  <2>0. Len(pipe[c]) \in Nat /\ onServer[c] \in Nat
    BY LenProperties DEF TypeOK
  <2>1. onServer[c] + 1 \in 1 .. Len(pipe[c])
    BY <1>7, <2>0 DEF ServerAppliesWrite
  <2>2. r \in Requests /\ phase[r] \in {"queued", "orphaned"}
    BY <2>1, ElementOfSeq DEF TypeOK, PipeInv
  <2>3. op[r] \in AppendingOperation
    BY <2>2, OperationKinds DEF PhaseInv, TypeOK
  <2>4. IsDocument(doc')
    BY <1>7, <2>3, UpdateDataType DEF ServerAppliesWrite, TypeOK
  <2>5. \A x \in Clients : onServer'[x] \in Nat /\ onServer'[x] <= Len(pipe[x])
    BY <1>7, <2>1 DEF ServerAppliesWrite, TypeOK
  <2> QED
    BY <1>7, <2>2, <2>4, <2>5 DEF ServerAppliesWrite, TypeOK
<1>8. ASSUME NEW c \in Clients, WriteAcknowledged(c) PROVE TypeOK'
  <2>1. pipe[c] # << >> /\ Head(pipe[c]) \in Requests
    BY <1>8, HeadTailProperties, EmptySeq DEF WriteAcknowledged, TypeOK
  <2>2. pipe' \in [Clients -> Seq(Requests)] /\ Len(pipe'[c]) = Len(pipe[c]) - 1
    BY <1>8, <2>1, HeadTailProperties DEF WriteAcknowledged, TypeOK
  <2>3. \A x \in Clients : onServer'[x] \in Nat /\ onServer'[x] <= Len(pipe'[x])
    BY <1>8, <2>2, LenProperties DEF WriteAcknowledged, TypeOK
  <2> QED
    BY <1>8, <2>1, <2>2, <2>3, FinishType DEF WriteAcknowledged, TypeOK
<1>9. ASSUME NEW c \in Clients, WriteRejected(c) PROVE TypeOK'
  <2>1. Head(pipe[c]) \in Requests
    BY <1>9, HeadTailProperties DEF WriteRejected, TypeOK
  <2>2. pipe' \in [Clients -> Seq(Requests)] /\ Len(pipe'[c]) \in Nat
    BY <1>9, HeadTailProperties, LenProperties DEF WriteRejected, TypeOK
  <2>3. \A x \in Clients : onServer'[x] <= Len(pipe'[x])
    BY <1>9, <2>2 DEF WriteRejected, TypeOK
  <2>4. faults' \in 0 .. MaxFaults
    BY <1>9 DEF WriteRejected, TypeOK
  <2> QED
    BY <1>9, <2>1, <2>2, <2>3, <2>4, FinishType DEF WriteRejected, TypeOK
<1>10. ASSUME NEW c \in Clients, WriteStreamBreaks(c) PROVE TypeOK'
  <2>1. \A x \in Clients : Len(pipe[x]) \in Nat
    BY LenProperties DEF TypeOK
  <2>2. faults' \in 0 .. MaxFaults
    BY <1>10 DEF WriteStreamBreaks, TypeOK
  <2>3. \A x \in Clients : onServer'[x] \in Nat /\ onServer'[x] <= Len(pipe[x])
    BY <1>10, <2>1 DEF WriteStreamBreaks, TypeOK
  <2> QED
    BY <1>10, <2>2, <2>3 DEF WriteStreamBreaks, TypeOK
<1>11. ASSUME NEW c \in Clients, Restart(c) PROVE TypeOK'
  <2>1. phase' \in [Requests -> Phases]
    BY <1>11 DEF Restart, TypeOK, Phases
  <2>2. \A x \in Clients : Len(pipe[x]) \in Nat
    BY LenProperties DEF TypeOK
  <2> QED
    BY <1>11, <2>1, <2>2 DEF Restart, TypeOK
<1>12. ASSUME NEW m \in wire, ServerCommits(m) PROVE TypeOK'
  <2>1. IsDocument(doc')
    BY <1>12, WriteNotesType DEF ServerCommits, TypeOK
  <2> QED
    BY <1>12, <2>1 DEF ServerCommits, TypeOK, Phases
<1>13. ASSUME NEW m \in wire, ServerAborts(m) PROVE TypeOK'
  BY <1>13 DEF ServerAborts, TypeOK, Phases
<1>14. CASE Report
  <2>1. IsDocument(doc')
    BY <1>14, BoundsAreNumbers DEF Report, Reported, TypeOK, IsDocument, IsArray
  <2> QED
    BY <1>14, <2>1 DEF Report, TypeOK
<1>15. CASE Tick
  BY <1>15, BoundsAreNumbers DEF Tick, TypeOK, Dates
<1>16. CASE UNCHANGED vars
  BY <1>16 DEF vars, TypeOK
<1> QED
  BY <1>1, <1>2, <1>3, <1>4, <1>5, <1>6, <1>7, <1>8, <1>9, <1>10, <1>11, <1>12,
     <1>13, <1>14, <1>15, <1>16 DEF Next
-----------------------------------------------------------------------------
(* How far the requests have come.                                         *)

(* Entries of a pipeline, and the oldest one in particular. *)
LEMMA PipeEntries ==
    ASSUME IInv, NEW c \in Clients
    PROVE  /\ Len(pipe[c]) \in Nat
           /\ pipe[c] # << >> =>
                 /\ Len(pipe[c]) >= 1
                 /\ Head(pipe[c]) = pipe[c][1]
                 /\ Head(pipe[c]) \in Requests
                 /\ phase[Head(pipe[c])] \in {"queued", "orphaned"}
                 /\ answer[Head(pipe[c])] = "none"
                 /\ onServer[c] > 0 => Head(pipe[c]) \in applied
           /\ onServer[c] > 0 => pipe[c] # << >>
           /\ \A i \in 1 .. Len(pipe[c]) : pipe[c][i] \in Requests
<1>1. pipe[c] \in Seq(Requests) /\ onServer[c] \in Nat /\ onServer[c] <= Len(pipe[c])
  BY DEF IInv, TypeOK
<1>2. Len(pipe[c]) \in Nat
  BY <1>1, LenProperties
<1>3. \A i \in 1 .. Len(pipe[c]) : pipe[c][i] \in Requests
  BY <1>1, ElementOfSeq
<1>4. onServer[c] > 0 => pipe[c] # << >>
  BY <1>1, EmptySeq
<1>5. ASSUME pipe[c] # << >>
      PROVE  /\ Len(pipe[c]) >= 1
             /\ Head(pipe[c]) = pipe[c][1]
             /\ Head(pipe[c]) \in Requests
             /\ phase[Head(pipe[c])] \in {"queued", "orphaned"}
             /\ answer[Head(pipe[c])] = "none"
             /\ onServer[c] > 0 => Head(pipe[c]) \in applied
  <2>1. Len(pipe[c]) >= 1
    BY <1>1, <1>2, <1>5, EmptySeq
  <2>2. Head(pipe[c]) = pipe[c][1]
    BY <1>1, <1>5
  <2>3. 1 \in 1 .. Len(pipe[c]) /\ (onServer[c] > 0 => 1 <= onServer[c])
    BY <1>1, <1>2, <2>1
  <2>4. phase[Head(pipe[c])] \in {"queued", "orphaned"}
        /\ (onServer[c] > 0 => Head(pipe[c]) \in applied)
    BY <2>2, <2>3 DEF IInv, PipeInv
  <2>5. Head(pipe[c]) \in Requests
    BY <1>3, <2>2, <2>3
  <2>6. answer[Head(pipe[c])] = "none"
    BY <2>4, <2>5 DEF IInv, PhaseInv
  <2> QED
    BY <2>1, <2>2, <2>4, <2>5, <2>6
<1> QED
  BY <1>2, <1>3, <1>4, <1>5

LEMMA PhaseStep == IInv /\ [Next]_vars => PhaseInv'
<1> SUFFICES ASSUME IInv, [Next]_vars PROVE PhaseInv'
  OBVIOUS
<1>0. /\ phase \in [Requests -> Phases] /\ op \in [Requests -> Operation \cup {NoOperation}]
      /\ answer \in [Requests -> {"none", "ok", "failed"}] /\ PhaseInv
  BY DEF IInv, TypeOK
<1>1. ASSUME NEW r \in Requests, NEW o \in Operations, Call(r, o) PROVE PhaseInv'
  <2>1. o \in Operation /\ o # NoOperation
    BY OperationKinds DEF Operations
  <2> QED
    BY <1>0, <1>1, <2>1 DEF Call, PhaseInv, InTransaction
<1>2. ASSUME NEW r \in Requests, RunUpdateBlock(r) PROVE PhaseInv'
  BY <1>0, <1>2 DEF RunUpdateBlock, Finish, PhaseInv, InTransaction
<1>3. ASSUME NEW r \in Requests, CommitSucceeds(r) PROVE PhaseInv'
  BY <1>0, <1>3 DEF CommitSucceeds, Finish, PhaseInv, InTransaction
<1>4. ASSUME NEW r \in Requests, CommitAborted(r) PROVE PhaseInv'
  BY <1>0, <1>4 DEF CommitAborted, Retry, Finish, PhaseInv, InTransaction
<1>5. ASSUME NEW r \in Requests, NetworkError(r) PROVE PhaseInv'
  BY <1>0, <1>5 DEF NetworkError, Retry, Finish, PhaseInv, InTransaction
<1>6. ASSUME NEW r \in Requests, PermanentError(r) PROVE PhaseInv'
  BY <1>0, <1>6 DEF PermanentError, Finish, PhaseInv, InTransaction
<1>7. ASSUME NEW c \in Clients, ServerAppliesWrite(c) PROVE PhaseInv'
  BY <1>0, <1>7 DEF ServerAppliesWrite, PhaseInv
<1>8. ASSUME NEW c \in Clients, WriteAcknowledged(c) PROVE PhaseInv'
  <2>1. /\ Head(pipe[c]) \in Requests /\ Head(pipe[c]) \in applied
        /\ phase[Head(pipe[c])] \in {"queued", "orphaned"}
    BY <1>8, PipeEntries DEF WriteAcknowledged
  <2> QED
    BY <1>0, <1>8, <2>1 DEF WriteAcknowledged, Finish, PhaseInv, InTransaction
<1>9. ASSUME NEW c \in Clients, WriteRejected(c) PROVE PhaseInv'
  <2>1. Head(pipe[c]) \in Requests /\ phase[Head(pipe[c])] \in {"queued", "orphaned"}
    BY <1>9, PipeEntries DEF WriteRejected
  <2> QED
    BY <1>0, <1>9, <2>1 DEF WriteRejected, Finish, PhaseInv, InTransaction
<1>10. ASSUME NEW c \in Clients, WriteStreamBreaks(c) PROVE PhaseInv'
  BY <1>0, <1>10 DEF WriteStreamBreaks, PhaseInv
<1>11. ASSUME NEW c \in Clients, Restart(c) PROVE PhaseInv'
  <2>1. \A r \in Requests :
           \/ phase'[r] = phase[r] /\ (Caller[r] # c \/ phase[r] = "unused")
           \/ phase'[r] = "orphaned" /\ phase[r] \in {"queued", "orphaned"}
           \/ phase'[r] = "finished" /\ phase[r] \notin {"unused", "queued", "orphaned"}
    BY <1>0, <1>11 DEF Restart
  <2> QED
    BY <1>0, <1>11, <2>1 DEF Restart, PhaseInv, InTransaction
<1>12. ASSUME NEW m \in wire, ServerCommits(m) PROVE PhaseInv'
  <2>1. m.request \in Requests
    BY DEF IInv, TypeOK
  <2> QED
    BY <1>0, <1>12, <2>1 DEF ServerCommits, IsAwaited, PhaseInv, InTransaction
<1>13. ASSUME NEW m \in wire, ServerAborts(m) PROVE PhaseInv'
  <2>1. m.request \in Requests
    BY DEF IInv, TypeOK
  <2> QED
    BY <1>0, <1>13, <2>1 DEF ServerAborts, IsAwaited, PhaseInv, InTransaction
<1>14. CASE Report
  BY <1>0, <1>14 DEF Report, PhaseInv
<1>15. CASE Tick
  BY <1>0, <1>15 DEF Tick, PhaseInv
<1>16. CASE UNCHANGED vars
  BY <1>0, <1>16 DEF vars, PhaseInv
<1> QED
  BY <1>1, <1>2, <1>3, <1>4, <1>5, <1>6, <1>7, <1>8, <1>9, <1>10, <1>11, <1>12,
     <1>13, <1>14, <1>15, <1>16 DEF Next
-----------------------------------------------------------------------------
(* The write pipelines.                                                    *)

(* Steps that leave the pipelines alone, keep the phases of what is in     *)
(* them, and forget nothing that took effect.                              *)
LEMMA PipeFrame ==
    ASSUME IInv, pipe' = pipe, applied \subseteq applied',
           \A c \in Clients : onServer'[c] = onServer[c] \/ onServer'[c] = 0,
           \A r \in Requests : phase[r] \in {"queued", "orphaned"} =>
                                   phase'[r] \in {"queued", "orphaned"}
    PROVE  PipeInv'
<1> SUFFICES ASSUME NEW c \in Clients
             PROVE  /\ \A i \in 1 .. Len(pipe[c]) :
                          /\ Caller[pipe[c][i]] = c
                          /\ phase'[pipe[c][i]] \in {"queued", "orphaned"}
                          /\ i <= onServer'[c] => pipe[c][i] \in applied'
                    /\ \A i, j \in 1 .. Len(pipe[c]) : pipe[c][i] = pipe[c][j] => i = j
  BY DEF PipeInv
<1>1. \A i \in 1 .. Len(pipe[c]) : pipe[c][i] \in Requests
  BY PipeEntries
<1>2. \A i \in 1 .. Len(pipe[c]) : i <= onServer'[c] => pipe[c][i] \in applied'
  BY DEF IInv, PipeInv
<1> QED
  BY <1>1, <1>2 DEF IInv, PipeInv

(* The oldest write gets its answer and leaves its pipeline. *)
LEMMA PipePop ==
    ASSUME IInv, NEW c \in Clients, pipe[c] # << >>,
           NEW result \in {"ok", "failed"}, Finish(Head(pipe[c]), result),
           pipe' = [pipe EXCEPT ![c] = Tail(@)],
           onServer'[c] = IF onServer[c] > 0 THEN onServer[c] - 1 ELSE 0,
           \A d \in Clients \ {c} : onServer'[d] = onServer[d],
           applied' = applied
    PROVE  PipeInv'
<1> DEFINE h == Head(pipe[c])
<1>1. /\ Len(pipe[c]) \in Nat /\ Len(pipe[c]) >= 1 /\ h = pipe[c][1] /\ h \in Requests
      /\ Caller[h] = c
  BY PipeEntries DEF IInv, PipeInv
<1>2. \A r \in Requests \ {h} : phase'[r] = phase[r]
  BY DEF IInv, TypeOK, Finish
<1>3. SUFFICES ASSUME NEW d \in Clients
               PROVE  /\ \A i \in 1 .. Len(pipe'[d]) :
                            /\ Caller[pipe'[d][i]] = d
                            /\ phase'[pipe'[d][i]] \in {"queued", "orphaned"}
                            /\ i <= onServer'[d] => pipe'[d][i] \in applied'
                      /\ \A i, j \in 1 .. Len(pipe'[d]) :
                            pipe'[d][i] = pipe'[d][j] => i = j
  BY DEF PipeInv
<1>4. CASE d # c
  <2>1. pipe'[d] = pipe[d] /\ onServer'[d] = onServer[d]
    BY <1>4 DEF IInv, TypeOK
  <2>2. \A i \in 1 .. Len(pipe[d]) : pipe[d][i] \in Requests /\ pipe[d][i] # h
    BY <1>1, <1>4, PipeEntries DEF IInv, PipeInv
  <2> QED
    BY <1>2, <2>1, <2>2 DEF IInv, PipeInv
<1>5. CASE d = c
  <2>1. /\ pipe'[c] = Tail(pipe[c])
        /\ Len(pipe'[c]) = Len(pipe[c]) - 1
        /\ \A i \in 1 .. Len(pipe'[c]) : pipe'[c][i] = pipe[c][i + 1]
    BY HeadTailProperties DEF IInv, TypeOK
  <2>2. \A i \in 1 .. Len(pipe'[c]) : i + 1 \in 1 .. Len(pipe[c]) /\ i + 1 # 1
    BY <1>1, <2>1
  <2>3. \A i \in 1 .. Len(pipe'[c]) :
           pipe'[c][i] \in Requests /\ pipe'[c][i] # h
    <3>1. 1 \in 1 .. Len(pipe[c])
      BY <1>1
    <3>2. \A i \in 2 .. Len(pipe[c]) : pipe[c][i] # pipe[c][1]
      BY <1>1, <3>1 DEF IInv, PipeInv
    <3>3. \A i \in 1 .. Len(pipe'[c]) : i + 1 \in 2 .. Len(pipe[c])
      BY <1>1, <2>1
    <3>4. \A i \in 1 .. Len(pipe[c]) : pipe[c][i] \in Requests
      BY PipeEntries
    <3> QED
      BY <1>1, <2>1, <2>2, <3>2, <3>3, <3>4
  <2>4. \A i \in 1 .. Len(pipe'[c]) :
           Caller[pipe'[c][i]] = c /\ phase'[pipe'[c][i]] \in {"queued", "orphaned"}
    <3>1. \A i \in 1 .. Len(pipe[c]) :
             Caller[pipe[c][i]] = c /\ phase[pipe[c][i]] \in {"queued", "orphaned"}
      BY DEF IInv, PipeInv
    <3>2. \A i \in 1 .. Len(pipe'[c]) :
             /\ Caller[pipe'[c][i]] = c
             /\ phase[pipe'[c][i]] \in {"queued", "orphaned"}
      BY <2>1, <2>2, <3>1
    <3> QED
      BY <1>2, <2>3, <3>2
  <2>5. \A i \in 1 .. Len(pipe'[c]) : i <= onServer'[c] => pipe'[c][i] \in applied'
    <3>1. onServer[c] \in Nat
      BY DEF IInv, TypeOK
    <3>2. \A i \in 1 .. Len(pipe'[c]) : i \in Nat /\ i >= 1
      BY <1>1, <2>1
    <3>3. \A i \in 1 .. Len(pipe'[c]) : i <= onServer'[c] => i + 1 <= onServer[c]
      BY <3>1, <3>2
    <3> QED
      BY <2>1, <2>2, <3>3 DEF IInv, PipeInv
  <2>6. \A i, j \in 1 .. Len(pipe'[c]) : pipe'[c][i] = pipe'[c][j] => i = j
    <3>1. \A i \in 1 .. Len(pipe'[c]) : i \in Nat /\ i + 1 \in 1 .. Len(pipe[c])
      BY <1>1, <2>1
    <3>2. \A i, j \in 1 .. Len(pipe[c]) : pipe[c][i] = pipe[c][j] => i = j
      BY DEF IInv, PipeInv
    <3>3. SUFFICES ASSUME NEW i \in 1 .. Len(pipe'[c]), NEW j \in 1 .. Len(pipe'[c]),
                          pipe'[c][i] = pipe'[c][j]
                   PROVE  i = j
      OBVIOUS
    <3>4. i + 1 = j + 1
      BY <2>2, <3>1, <3>2, <3>3
    <3> QED
      BY <3>1, <3>4
  <2> QED
    BY <1>5, <2>4, <2>5, <2>6
<1> QED
  BY <1>4, <1>5

(* A new write joins the pipeline of its client. *)
LEMMA PipePush ==
    ASSUME IInv, NEW r \in Requests, NEW o \in Operations, Call(r, o), IsAppending(o)
    PROVE  PipeInv'
<1> DEFINE c == Caller[r]
<1>0. c \in Clients /\ pipe[c] \in Seq(Requests) /\ Len(pipe[c]) \in Nat
  BY ConstantsAssumption, LenProperties DEF IInv, TypeOK
<1>1. /\ pipe' = [pipe EXCEPT ![c] = Append(pipe[c], r)]
      /\ phase' = [phase EXCEPT ![r] = "queued"]
      /\ onServer' = onServer /\ applied' = applied /\ phase[r] = "unused"
  BY DEF Call
<1>2. /\ pipe'[c] = Append(pipe[c], r) /\ Len(pipe'[c]) = Len(pipe[c]) + 1
      /\ pipe'[c][Len(pipe[c]) + 1] = r
      /\ \A i \in 1 .. Len(pipe[c]) : pipe'[c][i] = pipe[c][i]
  BY <1>0, <1>1 DEF IInv, TypeOK
<1>3. \A d \in Clients : \A i \in 1 .. Len(pipe[d]) :
         /\ pipe[d][i] \in Requests /\ pipe[d][i] # r /\ phase'[pipe[d][i]] = phase[pipe[d][i]]
         /\ phase[pipe[d][i]] \in {"queued", "orphaned"}
  BY <1>1, PipeEntries DEF IInv, TypeOK, PipeInv
<1>4. phase'[r] = "queued"
  BY <1>1 DEF IInv, TypeOK
<1>5. SUFFICES ASSUME NEW d \in Clients
               PROVE  /\ \A i \in 1 .. Len(pipe'[d]) :
                            /\ Caller[pipe'[d][i]] = d
                            /\ phase'[pipe'[d][i]] \in {"queued", "orphaned"}
                            /\ i <= onServer[d] => pipe'[d][i] \in applied
                      /\ \A i, j \in 1 .. Len(pipe'[d]) :
                            pipe'[d][i] = pipe'[d][j] => i = j
  BY <1>1 DEF PipeInv
<1>6. CASE d # c
  <2>1. pipe'[d] = pipe[d]
    BY <1>1, <1>6 DEF IInv, TypeOK
  <2> QED
    BY <1>3, <2>1 DEF IInv, PipeInv
<1>7. CASE d = c
  <2>1. onServer[c] \in Nat /\ onServer[c] <= Len(pipe[c])
    BY <1>0 DEF IInv, TypeOK
  <2>2. \A i \in 1 .. Len(pipe'[c]) : i \in 1 .. Len(pipe[c]) \/ i = Len(pipe[c]) + 1
    BY <1>0, <1>2
  <2>3. \A i \in 1 .. Len(pipe'[c]) :
           /\ Caller[pipe'[c][i]] = c
           /\ phase'[pipe'[c][i]] \in {"queued", "orphaned"}
           /\ i <= onServer[c] => pipe'[c][i] \in applied
    BY <1>0, <1>2, <1>3, <1>4, <2>1, <2>2 DEF IInv, PipeInv
  <2>4. \A i, j \in 1 .. Len(pipe'[c]) : pipe'[c][i] = pipe'[c][j] => i = j
    BY <1>0, <1>2, <1>3, <2>2 DEF IInv, PipeInv
  <2> QED
    BY <1>7, <2>3, <2>4
<1> QED
  BY <1>6, <1>7

LEMMA PipeStep == IInv /\ [Next]_vars => PipeInv'
<1> SUFFICES ASSUME IInv, [Next]_vars PROVE PipeInv'
  OBVIOUS
<1>0. /\ phase \in [Requests -> Phases] /\ pipe \in [Clients -> Seq(Requests)]
      /\ onServer \in [Clients -> Nat]
  BY DEF IInv, TypeOK
<1>1. ASSUME NEW r \in Requests, NEW o \in Operations, Call(r, o) PROVE PipeInv'
  <2>1. CASE ~ IsAppending(o)
    BY <1>0, <1>1, <2>1, PipeFrame DEF Call
  <2> QED
    BY <1>1, <2>1, PipePush
<1>2. ASSUME NEW r \in Requests, RunUpdateBlock(r) PROVE PipeInv'
  BY <1>0, <1>2, PipeFrame DEF RunUpdateBlock, Finish
<1>3. ASSUME NEW r \in Requests, CommitSucceeds(r) PROVE PipeInv'
  BY <1>0, <1>3, PipeFrame DEF CommitSucceeds, Finish
<1>4. ASSUME NEW r \in Requests, CommitAborted(r) PROVE PipeInv'
  BY <1>0, <1>4, PipeFrame DEF CommitAborted, Retry, Finish
<1>5. ASSUME NEW r \in Requests, NetworkError(r) PROVE PipeInv'
  BY <1>0, <1>5, PipeFrame DEF NetworkError, Retry, Finish
<1>6. ASSUME NEW r \in Requests, PermanentError(r) PROVE PipeInv'
  BY <1>0, <1>6, PipeFrame DEF PermanentError, Finish
<1>7. ASSUME NEW c \in Clients, ServerAppliesWrite(c) PROVE PipeInv'
  <2> DEFINE r == pipe[c][onServer[c] + 1]
  <2>1. /\ pipe' = pipe /\ phase' = phase /\ applied' = applied \cup {r}
        /\ onServer' = [onServer EXCEPT ![c] = onServer[c] + 1]
    BY <1>7 DEF ServerAppliesWrite
  <2>2. \A d \in Clients : \A i \in 1 .. Len(pipe[d]) :
           i <= onServer'[d] => pipe[d][i] \in applied'
    BY <1>0, <2>1 DEF IInv, PipeInv
  <2> QED
    BY <2>1, <2>2 DEF IInv, PipeInv
<1>8. ASSUME NEW c \in Clients, WriteAcknowledged(c) PROVE PipeInv'
  <2>1. pipe[c] # << >>
    BY <1>8, PipeEntries DEF WriteAcknowledged
  <2>2. /\ onServer'[c] = IF onServer[c] > 0 THEN onServer[c] - 1 ELSE 0
        /\ \A d \in Clients \ {c} : onServer'[d] = onServer[d]
    BY <1>0, <1>8 DEF WriteAcknowledged
  <2>3. /\ pipe' = [pipe EXCEPT ![c] = Tail(@)] /\ applied' = applied
        /\ Finish(Head(pipe[c]), "ok")
    BY <1>8 DEF WriteAcknowledged
  <2> QED
    BY <2>1, <2>2, <2>3, PipePop
<1>9. ASSUME NEW c \in Clients, WriteRejected(c) PROVE PipeInv'
  <2>1. onServer'[c] = (IF onServer[c] > 0 THEN onServer[c] - 1 ELSE 0)
    BY <1>0, <1>9 DEF WriteRejected
  <2> QED
    BY <1>9, <2>1, PipePop DEF WriteRejected
<1>10. ASSUME NEW c \in Clients, WriteStreamBreaks(c) PROVE PipeInv'
  BY <1>0, <1>10, PipeFrame DEF WriteStreamBreaks
<1>11. ASSUME NEW c \in Clients, Restart(c) PROVE PipeInv'
  <2>1. \A r \in Requests : phase[r] \in {"queued", "orphaned"} =>
                               phase'[r] \in {"queued", "orphaned"}
    BY <1>0, <1>11 DEF Restart
  <2> QED
    BY <1>0, <1>11, <2>1, PipeFrame DEF Restart
<1>12. ASSUME NEW m \in wire, ServerCommits(m) PROVE PipeInv'
  BY <1>0, <1>12, PipeFrame DEF ServerCommits, IsAwaited
<1>13. ASSUME NEW m \in wire, ServerAborts(m) PROVE PipeInv'
  BY <1>0, <1>13, PipeFrame DEF ServerAborts, IsAwaited
<1>14. CASE Report
  BY <1>14, PipeFrame DEF Report
<1>15. CASE Tick
  BY <1>15, PipeFrame DEF Tick
<1>16. CASE UNCHANGED vars
  BY <1>16, PipeFrame DEF vars
<1> QED
  BY <1>1, <1>2, <1>3, <1>4, <1>5, <1>6, <1>7, <1>8, <1>9, <1>10, <1>11, <1>12,
     <1>13, <1>14, <1>15, <1>16 DEF Next
-----------------------------------------------------------------------------
(* The commits on the wire.                                                *)

(* Whatever changes the document makes every commit on the wire stale. *)
LEMMA WireStale ==
    ASSUME IInv, op' = op, wire' \subseteq wire,
           doc'.version = doc.version + 1
    PROVE  WireInv'
<1>1. doc.version \in Nat /\ \A m \in wire : m.version \in Nat
  BY DEF IInv, TypeOK, IsDocument
<1>2. \A m \in wire' : m.version <= doc.version
  BY DEF IInv, WireInv
<1>3. \A m \in wire' : m.version <= doc'.version /\ m.version # doc'.version
  BY <1>1, <1>2
<1> QED
  BY <1>3 DEF IInv, WireInv

(* Steps that leave the document alone, put nothing on the wire, and       *)
(* neither confirm nor commit a request that has a commit in flight.       *)
LEMMA WireFrame ==
    ASSUME IInv, doc' = doc, wire' \subseteq wire,
           \A r \in Requests : op[r] # NoOperation => op'[r] = op[r],
           \A m \in wire : m.version = doc.version =>
                 /\ answer'[m.request] # "ok"
                 /\ phase'[m.request] # "committed"
    PROVE  WireInv'
<1>1. \A m \in wire : m.request \in Requests /\ op[m.request] # NoOperation
  BY OperationKinds DEF IInv, TypeOK, WireInv
<1>2. \A m \in wire : op'[m.request] = op[m.request]
  BY <1>1
<1> QED
  BY <1>2 DEF IInv, WireInv

LEMMA WireStep == IInv /\ [Next]_vars => WireInv'
<1> SUFFICES ASSUME IInv, [Next]_vars PROVE WireInv'
  OBVIOUS
<1>0. /\ phase \in [Requests -> Phases] /\ answer \in [Requests -> {"none", "ok", "failed"}]
      /\ op \in [Requests -> Operation \cup {NoOperation}]
      /\ \A m \in wire : m.request \in Requests
      /\ \A m \in wire : m.version = doc.version =>
            answer[m.request] # "ok" /\ phase[m.request] # "committed"
  BY DEF IInv, TypeOK, WireInv
<1>1. ASSUME NEW r \in Requests, NEW o \in Operations, Call(r, o) PROVE WireInv'
  <2>1. op[r] = NoOperation
    BY <1>1 DEF Call, IInv, PhaseInv
  <2>2. \A q \in Requests : op[q] # NoOperation => op'[q] = op[q]
    BY <1>0, <1>1, <2>1 DEF Call
  <2>3. \A q \in Requests : phase'[q] # "committed" \/ phase'[q] = phase[q]
    BY <1>0, <1>1 DEF Call
  <2> QED
    BY <1>0, <1>1, <2>2, <2>3, WireFrame DEF Call
<1>2. ASSUME NEW r \in Requests, RunUpdateBlock(r) PROVE WireInv'
  <2>1. CASE ~ BlockSucceeds(doc, op[r])
    BY <1>0, <1>2, <2>1, WireFrame DEF RunUpdateBlock, Finish
  <2>2. CASE BlockSucceeds(doc, op[r])
    <3> DEFINE n == [request |-> r, attempt |-> retries[r], version |-> doc.version,
                     notes |-> RewrittenNotes(doc.notes, op[r])]
    <3>1. /\ wire' = wire \cup {n} /\ doc' = doc /\ op' = op /\ answer' = answer
          /\ phase' = [phase EXCEPT ![r] = "committing"]
      BY <1>2, <2>2 DEF RunUpdateBlock
    <3>2. op[r] \in Operation /\ ~ IsAppending(op[r]) /\ answer[r] = "none"
      BY <1>2, <1>0 DEF RunUpdateBlock, IInv, PhaseInv, InTransaction
    <3>3. \A m \in wire :
             /\ op'[m.request] \in Operation /\ ~ IsAppending(op'[m.request])
             /\ m.version <= doc'.version
             /\ m.version = doc'.version =>
                   /\ answer'[m.request] # "ok"
                   /\ phase'[m.request] # "committed"
                   /\ BlockSucceeds(doc', op'[m.request])
                   /\ m.notes = RewrittenNotes(doc'.notes, op'[m.request])
      BY <1>0, <3>1 DEF IInv, WireInv
    <3>4. doc.version \in Nat
      BY DEF IInv, TypeOK, IsDocument
    <3>5. /\ n.request = r /\ n.version = doc.version
          /\ n.notes = RewrittenNotes(doc.notes, op[r])
          /\ n.version <= doc.version
      BY <3>4
    <3>6. phase'[r] = "committing"
      BY <1>0, <3>1
    <3> HIDE DEF n
    <3> QED
      BY <2>2, <3>1, <3>2, <3>3, <3>5, <3>6 DEF WireInv
  <2> QED
    BY <2>1, <2>2
<1>3. ASSUME NEW r \in Requests, CommitSucceeds(r) PROVE WireInv'
  <2>1. \A m \in wire : m.version = doc.version => m.request # r
    BY <1>0, <1>3 DEF CommitSucceeds
  <2> QED
    BY <1>0, <1>3, <2>1, WireFrame DEF CommitSucceeds, Finish
<1>4. ASSUME NEW r \in Requests, CommitAborted(r) PROVE WireInv'
  BY <1>0, <1>4, WireFrame DEF CommitAborted, Retry, Finish
<1>5. ASSUME NEW r \in Requests, NetworkError(r) PROVE WireInv'
  BY <1>0, <1>5, WireFrame DEF NetworkError, Retry, Finish
<1>6. ASSUME NEW r \in Requests, PermanentError(r) PROVE WireInv'
  BY <1>0, <1>6, WireFrame DEF PermanentError, Finish
<1>7. ASSUME NEW c \in Clients, ServerAppliesWrite(c) PROVE WireInv'
  BY <1>7, WireStale DEF ServerAppliesWrite, UpdateData
<1>8. ASSUME NEW c \in Clients, WriteAcknowledged(c) PROVE WireInv'
  <2> DEFINE h == Head(pipe[c])
  <2>1. h \in Requests /\ phase[h] \in {"queued", "orphaned"}
    BY <1>8, PipeEntries DEF WriteAcknowledged
  <2>2. \A m \in wire : m.request # h
    BY <1>0, <2>1 DEF IInv, WireInv, PhaseInv
  <2>3. /\ Finish(h, "ok") /\ doc' = doc /\ wire' = wire /\ op' = op
    BY <1>8 DEF WriteAcknowledged
  <2> HIDE DEF h
  <2>4. \A m \in wire : answer'[m.request] = answer[m.request]
                        /\ phase'[m.request] = phase[m.request]
    BY <1>0, <2>2, <2>3 DEF Finish
  <2> QED
    BY <1>0, <2>3, <2>4, WireFrame
<1>9. ASSUME NEW c \in Clients, WriteRejected(c) PROVE WireInv'
  <2>1. Head(pipe[c]) \in Requests
    BY <1>9, PipeEntries DEF WriteRejected
  <2> QED
    BY <1>0, <1>9, <2>1, WireFrame DEF WriteRejected, Finish
<1>10. ASSUME NEW c \in Clients, WriteStreamBreaks(c) PROVE WireInv'
  BY <1>0, <1>10, WireFrame DEF WriteStreamBreaks
<1>11. ASSUME NEW c \in Clients, Restart(c) PROVE WireInv'
  <2>1. \A r \in Requests : phase'[r] # "committed" \/ phase'[r] = phase[r]
    BY <1>0, <1>11 DEF Restart
  <2> QED
    BY <1>0, <1>11, <2>1, WireFrame DEF Restart
<1>12. ASSUME NEW m \in wire, ServerCommits(m) PROVE WireInv'
  BY <1>12, WireStale DEF ServerCommits, WriteNotes
<1>13. ASSUME NEW m \in wire, ServerAborts(m) PROVE WireInv'
  BY <1>0, <1>13, WireFrame DEF ServerAborts
<1>14. CASE Report
  BY <1>14, WireStale DEF Report, Reported
<1>15. CASE Tick
  BY <1>0, <1>15, WireFrame DEF Tick
<1>16. CASE UNCHANGED vars
  BY <1>0, <1>16, WireFrame DEF vars
<1> QED
  BY <1>1, <1>2, <1>3, <1>4, <1>5, <1>6, <1>7, <1>8, <1>9, <1>10, <1>11, <1>12,
     <1>13, <1>14, <1>15, <1>16 DEF Next

-----------------------------------------------------------------------------
LEMMA InitIInv == Init => IInv
<1> SUFFICES ASSUME Init PROVE IInv
  OBVIOUS
<1>1. TypeOK
  BY InitialDocumentsType, BoundsAreNumbers, ConstantsAssumption
     DEF Init, TypeOK, Dates, Phases
<1>2. PipeInv
  BY DEF Init, PipeInv
<1>3. PhaseInv
  BY DEF Init, PhaseInv, InTransaction
<1>4. WireInv
  BY DEF Init, WireInv
<1> QED
  BY <1>1, <1>2, <1>3, <1>4 DEF IInv

(* The invariant that makes whole-array rewrites safe: a commit that the   *)
(* server would still accept was computed from the array as it is now.     *)
THEOREM DataCenterInvariant == Spec => []IInv
<1>1. IInv /\ [Next]_vars => IInv'
  BY TypeStep, PipeStep, PhaseStep, WireStep DEF IInv
<1> QED
  BY <1>1, InitIInv, PTL DEF Spec

(* All variables have their types. *)
THEOREM DataCenterTypeOK == Spec => []TypeOK
BY DataCenterInvariant, PTL DEF IInv
-----------------------------------------------------------------------------
(* Every step is a step of the abstract log or changes nothing there.      *)

LEMMA FinishRefines ==
    ASSUME IInv, NEW r \in Requests, NEW result \in {"ok", "failed"}, Finish(r, result),
           phase[r] \notin {"unused", "finished"},
           result = "ok" => r \in applied,
           doc' = doc, op' = op, applied' = applied
    PROVE  [Log!Next]_Log!vars
<1>1. answer[r] = "none" /\ op[r] # NoOperation
  BY DEF IInv, PhaseInv
<1>2. CASE phase[r] = "orphaned"
  BY <1>2 DEF Finish, Log!vars
<1>3. CASE phase[r] # "orphaned" /\ result = "ok"
  <2>1. Log!Confirm(r)
    BY <1>1, <1>3 DEF Finish, Log!Confirm
  <2> QED
    BY <2>1 DEF Log!Next
<1>4. CASE phase[r] # "orphaned" /\ result = "failed"
  <2>1. Log!Refuse(r)
    BY <1>1, <1>4 DEF Finish, Log!Refuse, Log!NoOperation, NoOperation
  <2> QED
    BY <2>1 DEF Log!Next
<1> QED
  BY <1>2, <1>3, <1>4

LEMMA RetryRefines ==
    ASSUME IInv, NEW r \in Requests, Retry(r), phase[r] \in InTransaction,
           doc' = doc, op' = op, applied' = applied
    PROVE  [Log!Next]_Log!vars
<1>1. CASE retries[r] > 0
  BY <1>1 DEF Retry, Log!vars
<1>2. CASE ~ retries[r] > 0
  BY <1>2, FinishRefines DEF Retry, InTransaction
<1> QED
  BY <1>1, <1>2

LEMMA RefinementStep == IInv /\ [Next]_vars => [Log!Next]_Log!vars
<1> SUFFICES ASSUME IInv, [Next]_vars PROVE [Log!Next]_Log!vars
  OBVIOUS
<1>1. ASSUME NEW r \in Requests, NEW o \in Operations, Call(r, o)
      PROVE  [Log!Next]_Log!vars
  <2>1. o \in Log!Operation
    BY DEF Operations, Operation, AppendingOperation, TransactionOperation, Note, Dates,
           Log!Operation, Log!AppendingOperation, Log!TransactionOperation, Log!Note, Log!Dates
  <2>2. op[r] = NoOperation
    BY <1>1 DEF Call, IInv, PhaseInv
  <2>3. Log!Ask(r, o)
    BY <1>1, <2>2 DEF Call, Log!Ask, Log!NoOperation, NoOperation
  <2> QED
    BY <2>1, <2>3 DEF Log!Next
<1>2. ASSUME NEW r \in Requests, RunUpdateBlock(r) PROVE [Log!Next]_Log!vars
  <2>1. CASE BlockSucceeds(doc, op[r])
    BY <1>2, <2>1 DEF RunUpdateBlock, Log!vars
  <2>2. CASE ~ BlockSucceeds(doc, op[r])
    BY <1>2, <2>2, FinishRefines DEF RunUpdateBlock
  <2> QED
    BY <2>1, <2>2
<1>3. ASSUME NEW r \in Requests, CommitSucceeds(r) PROVE [Log!Next]_Log!vars
  BY <1>3, FinishRefines DEF CommitSucceeds, IInv, PhaseInv
<1>4. ASSUME NEW r \in Requests, CommitAborted(r) PROVE [Log!Next]_Log!vars
  BY <1>4, RetryRefines DEF CommitAborted, InTransaction
<1>5. ASSUME NEW r \in Requests, NetworkError(r) PROVE [Log!Next]_Log!vars
  BY <1>5, RetryRefines DEF NetworkError, InTransaction
<1>6. ASSUME NEW r \in Requests, PermanentError(r) PROVE [Log!Next]_Log!vars
  BY <1>6, FinishRefines DEF PermanentError
<1>7. ASSUME NEW c \in Clients, ServerAppliesWrite(c) PROVE [Log!Next]_Log!vars
  <2> DEFINE r == pipe[c][onServer[c] + 1]
  <2>1. r \in Requests /\ phase[r] \in {"queued", "orphaned"}
    <3>1. Len(pipe[c]) \in Nat /\ onServer[c] \in Nat
      BY PipeEntries DEF IInv, TypeOK
    <3>2. onServer[c] + 1 \in 1 .. Len(pipe[c])
      BY <1>7, <3>1 DEF ServerAppliesWrite
    <3> QED
      BY <3>2, PipeEntries DEF IInv, PipeInv
  <2>2. IsAppending(op[r]) /\ answer[r] = "none" /\ op[r] # NoOperation
    BY <2>1 DEF IInv, PhaseInv
  <2>3. /\ doc' = UpdateData(doc, op[r]) /\ applied' = applied \cup {r}
        /\ op' = op /\ answer' = answer
    BY <1>7 DEF ServerAppliesWrite
  <2> HIDE DEF r
  <2>4. Log!Apply(r)
    BY <2>1, <2>2, <2>3
       DEF Log!Apply, Log!Applicable, Log!Effect, Log!IsAppending, Log!AppendingKinds,
           Log!UpdateData, Log!ArrayUnion, Log!NoOperation, IsAppending, AppendingKinds,
           UpdateData, ArrayUnion, NoOperation
  <2> QED
    BY <2>1, <2>4 DEF Log!Next
<1>8. ASSUME NEW c \in Clients, WriteAcknowledged(c) PROVE [Log!Next]_Log!vars
  <2>1. /\ Head(pipe[c]) \in Requests /\ Head(pipe[c]) \in applied
        /\ phase[Head(pipe[c])] \in {"queued", "orphaned"}
    BY <1>8, PipeEntries DEF WriteAcknowledged
  <2> QED
    BY <1>8, <2>1, FinishRefines DEF WriteAcknowledged
<1>9. ASSUME NEW c \in Clients, WriteRejected(c) PROVE [Log!Next]_Log!vars
  <2>1. Head(pipe[c]) \in Requests /\ phase[Head(pipe[c])] \in {"queued", "orphaned"}
    BY <1>9, PipeEntries DEF WriteRejected
  <2> QED
    BY <1>9, <2>1, FinishRefines DEF WriteRejected
<1>10. ASSUME NEW c \in Clients, WriteStreamBreaks(c) PROVE [Log!Next]_Log!vars
  BY <1>10 DEF WriteStreamBreaks, Log!vars
<1>11. ASSUME NEW c \in Clients, Restart(c) PROVE [Log!Next]_Log!vars
  BY <1>11 DEF Restart, Log!vars
<1>12. ASSUME NEW m \in wire, ServerCommits(m) PROVE [Log!Next]_Log!vars
  <2> DEFINE r == m.request
  <2>1. /\ r \in Requests /\ op[r] \in Operation /\ ~ IsAppending(op[r])
        /\ answer[r] # "ok" /\ BlockSucceeds(doc, op[r])
        /\ m.notes = RewrittenNotes(doc.notes, op[r])
    BY <1>12 DEF ServerCommits, IInv, TypeOK, WireInv
  <2>2. op[r] # NoOperation
    BY <2>1, OperationKinds
  <2>3. /\ doc' = WriteNotes(doc, RewrittenNotes(doc.notes, op[r]))
        /\ applied' = applied \cup {r} /\ op' = op /\ answer' = answer
    BY <1>12, <2>1 DEF ServerCommits
  <2> HIDE DEF r
  <2>4. Log!Apply(r)
    BY <2>1, <2>2, <2>3
       DEF Log!Apply, Log!Applicable, Log!Effect, Log!IsAppending, Log!AppendingKinds,
           Log!WriteNotes, Log!RewrittenNotes, Log!BlockSucceeds, Log!ReplaceComment,
           Log!IsFirstIndex, Log!RemoveDates, Log!Restrict, Log!NoOperation,
           IsAppending, AppendingKinds, WriteNotes, RewrittenNotes, BlockSucceeds,
           ReplaceComment, IsFirstIndex, RemoveDates, Restrict, NoOperation
  <2> QED
    BY <2>1, <2>4 DEF Log!Next
<1>13. ASSUME NEW m \in wire, ServerAborts(m) PROVE [Log!Next]_Log!vars
  BY <1>13 DEF ServerAborts, Log!vars
<1>14. CASE Report
  <2>1. Log!Report
    BY <1>14 DEF Report, Reported, Log!Report, Log!Reported
  <2> QED
    BY <2>1 DEF Log!Next
<1>15. CASE Tick
  BY <1>15 DEF Tick, Log!vars
<1>16. CASE UNCHANGED vars
  BY <1>16 DEF vars, Log!vars
<1> QED
  BY <1>1, <1>2, <1>3, <1>4, <1>5, <1>6, <1>7, <1>8, <1>9, <1>10, <1>11, <1>12,
     <1>13, <1>14, <1>15, <1>16 DEF Next

(* The pipelines and the transactions implement the abstract log. *)
THEOREM DataCenterImplementsLog == Spec => ImplementsLog
<1>1. Init => Log!Init
  BY DEF Init, Log!Init, InitialDocuments, Note, Dates, NoOperation,
         Log!InitialDocuments, Log!Note, Log!Dates, Log!NoOperation
<1>2. Spec => []IInv
  BY DataCenterInvariant
<1> QED
  BY <1>1, <1>2, RefinementStep, PTL DEF Spec, ImplementsLog, Log!Spec

-----------------------------------------------------------------------------
(* What is proved of the abstract log holds of every implementation. *)

(* The two instances of the abstract log are the same state machine. *)
LEMMA SameInit == Log!Init <=> LogProofs!Init
  BY DEF Log!Init, LogProofs!Init, Log!InitialDocuments, LogProofs!InitialDocuments,
         Log!Note, LogProofs!Note, Log!Dates, LogProofs!Dates,
         Log!NoOperation, LogProofs!NoOperation

LEMMA SameNext == [Log!Next]_Log!vars <=> [LogProofs!Next]_LogProofs!vars
  BY DEF Log!Next, LogProofs!Next, Log!Ask, LogProofs!Ask, Log!Apply, LogProofs!Apply,
         Log!Confirm, LogProofs!Confirm, Log!Refuse, LogProofs!Refuse,
         Log!Report, LogProofs!Report, Log!vars, LogProofs!vars,
         Log!Applicable, LogProofs!Applicable, Log!Effect, LogProofs!Effect,
         Log!Operation, LogProofs!Operation, Log!AppendingOperation,
         LogProofs!AppendingOperation, Log!TransactionOperation,
         LogProofs!TransactionOperation, Log!Note, LogProofs!Note, Log!Dates,
         LogProofs!Dates, Log!IsAppending, LogProofs!IsAppending,
         Log!AppendingKinds, LogProofs!AppendingKinds, Log!UpdateData,
         LogProofs!UpdateData, Log!ArrayUnion, LogProofs!ArrayUnion,
         Log!BlockSucceeds, LogProofs!BlockSucceeds, Log!RewrittenNotes,
         LogProofs!RewrittenNotes, Log!ReplaceComment,
         LogProofs!ReplaceComment, Log!IsFirstIndex, LogProofs!IsFirstIndex,
         Log!RemoveDates, LogProofs!RemoveDates, Log!Restrict,
         LogProofs!Restrict, Log!WriteNotes, LogProofs!WriteNotes,
         Log!Reported, LogProofs!Reported, Log!NoOperation,
         LogProofs!NoOperation

(* No note is lost to the whole-array rewrites, for any number of clients. *)
THEOREM DataCenterKeepsNotes == Spec => []NotesAreKept
<1>1. Log!NotesAreKept <=> LogProofs!NotesAreKept
  BY DEF Log!NotesAreKept, LogProofs!NotesAreKept, Log!Names, LogProofs!Names,
         Log!IsAppending, LogProofs!IsAppending, Log!AppendingKinds,
         LogProofs!AppendingKinds
<1>2. LogProofs!Spec => []LogProofs!NotesAreKept
  BY LogProofs!LogKeepsNotes, BoundsAreNumbers, PTL
<1> QED
  BY <1>1, <1>2, SameInit, SameNext, DataCenterImplementsLog, PTL
     DEF NotesAreKept, ImplementsLog, Log!Spec, LogProofs!Spec

(* Every service date in the document has its entry in the log, however    *)
(* often the write of serviceDevice is sent.                               *)
THEOREM DataCenterKeepsServices == Spec => []ServicesAreLogged
<1>1. Log!ServicesAreLogged <=> LogProofs!ServicesAreLogged
  BY DEF Log!ServicesAreLogged, LogProofs!ServicesAreLogged, Log!Names, LogProofs!Names
<1>2. LogProofs!Spec => []LogProofs!ServicesAreLogged
  BY LogProofs!LogKeepsServices, BoundsAreNumbers, PTL
<1> QED
  BY <1>1, <1>2, SameInit, SameNext, DataCenterImplementsLog, PTL
     DEF ServicesAreLogged, ImplementsLog, Log!Spec, LogProofs!Spec

(* Writes that are sent again leave no double entries. *)
THEOREM DataCenterHasNoDoubles == Spec => []NoDoubleEntries
<1>1. Log!NoDoubleEntries <=> LogProofs!NoDoubleEntries
  BY DEF Log!NoDoubleEntries, LogProofs!NoDoubleEntries
<1>2. LogProofs!Spec => []LogProofs!NoDoubleEntries
  BY LogProofs!LogHasNoDoubles, BoundsAreNumbers, PTL
<1> QED
  BY <1>1, <1>2, SameInit, SameNext, DataCenterImplementsLog, PTL
     DEF NoDoubleEntries, ImplementsLog, Log!Spec, LogProofs!Spec
-----------------------------------------------------------------------------
(* Failures, as long as nothing goes wrong on the way.                     *)

(* Without faults and restarts a client waits for every commit on the      *)
(* wire, for one at a time, and whatever took effect is still waiting for  *)
(* its answer or was confirmed.                                            *)
CleanInv ==
    faults = 0 /\ restarts = 0 =>
        /\ \A m \in wire : IsAwaited(m)
        /\ \A m, n \in wire : m.request = n.request => m = n
        /\ \A r \in applied : phase[r] \in {"queued", "committed"} \/ answer[r] = "ok"
        /\ \A r \in Requests : phase[r] # "orphaned"

(* Requests that wait for no commit, and did not take effect. *)
LEMMA NothingSent ==
    ASSUME IInv, CleanInv, faults = 0, restarts = 0, NEW r \in Requests,
           phase[r] \in {"begun", "aborted"}
    PROVE  r \notin applied /\ \A m \in wire : m.request # r
BY DEF IInv, PhaseInv, InTransaction, CleanInv, IsAwaited

LEMMA CleanStep == IInv /\ CleanInv /\ [Next]_vars => CleanInv'
<1> SUFFICES ASSUME IInv, CleanInv, [Next]_vars, faults' = 0, restarts' = 0
             PROVE  CleanInv'
  BY DEF CleanInv
<1>0. /\ phase \in [Requests -> Phases] /\ retries \in [Requests -> 0 .. RetryCount]
      /\ answer \in [Requests -> {"none", "ok", "failed"}] /\ applied \subseteq Requests
      /\ faults \in Nat /\ restarts \in Nat
      /\ \A m \in wire : m.request \in Requests
  BY ConstantsAssumption DEF IInv, TypeOK
<1>1. ASSUME NEW r \in Requests, NEW o \in Operations, Call(r, o) PROVE CleanInv'
  <2>1. r \notin applied /\ \A m \in wire : m.request # r
    BY <1>0, <1>1 DEF Call, CleanInv, IInv, PhaseInv, IsAwaited
  <2> QED
    BY <1>0, <1>1, <2>1 DEF Call, CleanInv, IsAwaited
<1>2. ASSUME NEW r \in Requests, RunUpdateBlock(r) PROVE CleanInv'
  <2>1. r \notin applied /\ \A m \in wire : m.request # r
    BY <1>2, NothingSent DEF RunUpdateBlock
  <2>2. CASE BlockSucceeds(doc, op[r])
    <3> DEFINE n == [request |-> r, attempt |-> retries[r], version |-> doc.version,
                     notes |-> RewrittenNotes(doc.notes, op[r])]
    <3>1. /\ wire' = wire \cup {n} /\ phase' = [phase EXCEPT ![r] = "committing"]
          /\ UNCHANGED <<retries, answer, applied, faults, restarts>>
      BY <1>2, <2>2 DEF RunUpdateBlock
    <3>2. n.request = r /\ n.attempt = retries[r]
      OBVIOUS
    <3> HIDE DEF n
    <3> QED
      BY <1>0, <2>1, <3>1, <3>2 DEF CleanInv, IsAwaited
  <2>3. CASE ~ BlockSucceeds(doc, op[r])
    BY <1>0, <1>2, <2>1, <2>3 DEF RunUpdateBlock, Finish, CleanInv, IsAwaited
  <2> QED
    BY <2>2, <2>3
<1>3. ASSUME NEW r \in Requests, CommitSucceeds(r) PROVE CleanInv'
  <2>1. \A m \in wire : m.request # r
    BY <1>3 DEF CommitSucceeds, CleanInv, IsAwaited
  <2> QED
    BY <1>0, <1>3, <2>1 DEF CommitSucceeds, Finish, CleanInv, IsAwaited
<1>4. ASSUME NEW r \in Requests, CommitAborted(r) PROVE CleanInv'
  <2>1. r \notin applied /\ \A m \in wire : m.request # r
    BY <1>4, NothingSent DEF CommitAborted
  <2> QED
    BY <1>0, <1>4, <2>1 DEF CommitAborted, Retry, Finish, CleanInv, IsAwaited
<1>5. ASSUME NEW r \in Requests, NetworkError(r) PROVE CleanInv'
  BY <1>0, <1>5 DEF NetworkError
<1>6. ASSUME NEW r \in Requests, PermanentError(r) PROVE CleanInv'
  BY <1>0, <1>6 DEF PermanentError
<1>7. ASSUME NEW c \in Clients, ServerAppliesWrite(c) PROVE CleanInv'
  <2> DEFINE r == pipe[c][onServer[c] + 1]
  <2>1. Len(pipe[c]) \in Nat /\ onServer[c] \in Nat
    BY PipeEntries DEF IInv, TypeOK
  <2>2. onServer[c] + 1 \in 1 .. Len(pipe[c])
    BY <1>7, <2>1 DEF ServerAppliesWrite
  <2>3. r \in Requests /\ phase[r] \in {"queued", "orphaned"}
    BY <2>2, PipeEntries DEF IInv, PipeInv
  <2>4. applied' = applied \cup {r} /\ UNCHANGED <<phase, retries, wire, answer, faults, restarts>>
    BY <1>7 DEF ServerAppliesWrite
  <2> HIDE DEF r
  <2> QED
    BY <2>3, <2>4 DEF CleanInv, IsAwaited
<1>8. ASSUME NEW c \in Clients, WriteAcknowledged(c) PROVE CleanInv'
  <2> DEFINE h == Head(pipe[c])
  <2>1. h \in Requests /\ phase[h] \in {"queued", "orphaned"}
    BY <1>8, PipeEntries DEF WriteAcknowledged
  <2>2. Finish(h, "ok") /\ UNCHANGED <<retries, wire, applied, faults, restarts>>
    BY <1>8 DEF WriteAcknowledged
  <2> HIDE DEF h
  <2>3. phase[h] = "queued" /\ \A m \in wire : m.request # h
    BY <2>1, <2>2 DEF CleanInv, IsAwaited
  <2> QED
    BY <1>0, <2>1, <2>2, <2>3 DEF Finish, CleanInv, IsAwaited
<1>9. ASSUME NEW c \in Clients, WriteRejected(c) PROVE CleanInv'
  BY <1>0, <1>9 DEF WriteRejected
<1>10. ASSUME NEW c \in Clients, WriteStreamBreaks(c) PROVE CleanInv'
  BY <1>0, <1>10 DEF WriteStreamBreaks
<1>11. ASSUME NEW c \in Clients, Restart(c) PROVE CleanInv'
  BY <1>0, <1>11 DEF Restart
<1>12. ASSUME NEW m \in wire, ServerCommits(m) PROVE CleanInv'
  <2>1. IsAwaited(m) /\ m.request \in Requests
    BY <1>0, <1>12 DEF ServerCommits, CleanInv
  <2>2. \A n \in wire' : n \in wire /\ n.request # m.request
    BY <1>12 DEF ServerCommits, CleanInv
  <2> QED
    BY <1>0, <1>12, <2>1, <2>2 DEF ServerCommits, CleanInv, IsAwaited
<1>13. ASSUME NEW m \in wire, ServerAborts(m) PROVE CleanInv'
  <2>1. IsAwaited(m) /\ m.request \in Requests
    BY <1>0, <1>13 DEF ServerAborts, CleanInv
  <2>2. \A n \in wire' : n \in wire /\ n.request # m.request
    BY <1>13 DEF ServerAborts, CleanInv
  <2>3. m.request \notin applied
    BY <1>13, <2>1 DEF ServerAborts, CleanInv, IsAwaited, IInv, PhaseInv, InTransaction
  <2> QED
    BY <1>0, <1>13, <2>1, <2>2, <2>3 DEF ServerAborts, CleanInv, IsAwaited
<1>14. CASE Report
  BY <1>14 DEF Report, CleanInv, IsAwaited
<1>15. CASE Tick
  BY <1>15 DEF Tick, CleanInv, IsAwaited
<1>16. CASE UNCHANGED vars
  BY <1>16 DEF vars, CleanInv, IsAwaited
<1> QED
  BY <1>1, <1>2, <1>3, <1>4, <1>5, <1>6, <1>7, <1>8, <1>9, <1>10, <1>11, <1>12,
     <1>13, <1>14, <1>15, <1>16 DEF Next

(* Without a fault, completion(false) means that nothing was written. *)
THEOREM DataCenterFailsCleanly == Spec => []CleanFailure
<1>1. Init => CleanInv
  BY DEF Init, CleanInv
<1>2. IInv /\ CleanInv => CleanFailure
  BY DEF IInv, PhaseInv, CleanInv, CleanFailure
<1> QED
  BY <1>1, <1>2, CleanStep, DataCenterInvariant, PTL DEF Spec
-----------------------------------------------------------------------------
(* The order of the appends of one app.                                    *)

Earlier(q, r) ==
    /\ Caller[q] = Caller[r]
    /\ IsAppending(op[q]) /\ IsAppending(op[r])
    /\ op[q].note.creationDate < op[r].note.creationDate

(* An append waits in the pipeline of its client until it is answered, and *)
(* a pipeline is in the order of time, so that answers come in that order. *)
OrderInv ==
    /\ \A r \in applied : phase[r] # "unused"
    /\ \A r \in Requests : IsAppending(op[r]) => op[r].note.creationDate <= clock
    /\ \A r \in Requests : phase[r] \in {"queued", "orphaned"} =>
          \E i \in 1 .. Len(pipe[Caller[r]]) : pipe[Caller[r]][i] = r
    /\ \A q, r \in Requests : Earlier(q, r) =>
          \A c \in Clients : \A i, j \in 1 .. Len(pipe[c]) :
             pipe[c][i] = q /\ pipe[c][j] = r => i < j
    /\ \A q, r \in Requests :
          Earlier(q, r) /\ phase[r] = "finished" => phase[q] = "finished"

LEMMA AppendDate ==
    ASSUME IInv, NEW r \in Requests, IsAppending(op[r])
    PROVE  /\ op[r].note \in Note /\ op[r].note.creationDate \in Nat
           /\ phase[r] \in {"queued", "orphaned", "finished"}
<1>1. op[r] # NoOperation
  BY DEF IsAppending, AppendingKinds, NoOperation
<1>2. op[r] \in AppendingOperation
  BY <1>1, OperationKinds DEF IInv, TypeOK
<1>3. op[r].note \in Note
  BY <1>2, OperationKinds
<1>4. op[r].note.creationDate \in Nat
  BY <1>3, BoundsAreNumbers DEF Note, Dates
<1>5. phase[r] \in {"queued", "orphaned", "finished"}
  BY <1>1 DEF IInv, TypeOK, Phases, PhaseInv, InTransaction
<1> QED
  BY <1>3, <1>4, <1>5

(* What an app appended before an entry of its pipeline has its answer, or *)
(* stands before that entry.                                               *)
LEMMA WaitingBefore ==
    ASSUME IInv, OrderInv, NEW c \in Clients, NEW j \in 1 .. Len(pipe[c]),
           NEW q \in Requests, Earlier(q, pipe[c][j])
    PROVE  phase[q] = "finished" \/ \E i \in 1 .. (j - 1) : pipe[c][i] = q
<1>1. Caller[q] = c
  BY DEF Earlier, IInv, PipeInv
<1>2. phase[q] \in {"queued", "orphaned", "finished"}
  BY AppendDate DEF Earlier
<1>3. CASE phase[q] # "finished"
  <2>1. PICK i \in 1 .. Len(pipe[c]) : pipe[c][i] = q
    BY <1>1, <1>2, <1>3 DEF OrderInv
  <2>2. pipe[c][j] \in Requests /\ i < j
    BY <2>1, PipeEntries DEF OrderInv
  <2>3. i \in 1 .. (j - 1)
    BY <2>2, PipeEntries
  <2> QED
    BY <2>1, <2>3
<1> QED
  BY <1>3

(* Steps that leave the operations and the pipelines alone. *)
LEMMA OrderFrame ==
    ASSUME IInv, OrderInv, op' = op, pipe' = pipe, clock' \in Nat, clock <= clock',
           \A r \in Requests : phase[r] # "unused" => phase'[r] # "unused",
           \A r \in applied' : r \in Requests /\ phase[r] # "unused",
           \A r \in Requests :
              phase'[r] \in {"queued", "orphaned"} => phase[r] \in {"queued", "orphaned"},
           \A r \in Requests :
              IsAppending(op[r]) /\ phase'[r] # phase[r] =>
                  phase[r] # "finished" /\ phase'[r] # "finished"
    PROVE  OrderInv'
<1>1. \A q, r : Earlier(q, r)' <=> Earlier(q, r)
  BY DEF Earlier
<1>2. \A r \in Requests : IsAppending(op[r]) => op[r].note.creationDate <= clock'
  <2>1. clock \in Nat
    BY BoundsAreNumbers DEF IInv, TypeOK, Dates
  <2> QED
    BY <2>1, AppendDate DEF OrderInv
<1>3. \A q, r \in Requests :
         Earlier(q, r) /\ phase'[r] = "finished" => phase'[q] = "finished"
  BY DEF OrderInv, Earlier
<1> QED
  BY <1>1, <1>2, <1>3 DEF OrderInv

(* A new append is the last of its pipeline, and none of its app is later. *)
LEMMA OrderPush ==
    ASSUME IInv, OrderInv, NEW r \in Requests, NEW o \in Operations,
           Call(r, o), IsAppending(o)
    PROVE  OrderInv'
<1> DEFINE c == Caller[r]
<1>0. c \in Clients /\ pipe[c] \in Seq(Requests) /\ Len(pipe[c]) \in Nat
  BY ConstantsAssumption, LenProperties DEF IInv, TypeOK
<1>1. /\ pipe' = [pipe EXCEPT ![c] = Append(pipe[c], r)]
      /\ phase' = [phase EXCEPT ![r] = "queued"] /\ op' = [op EXCEPT ![r] = o]
      /\ applied' = applied /\ clock' = clock /\ phase[r] = "unused"
      /\ o.note.creationDate = clock
  BY DEF Call, Operations
<1>2. /\ pipe'[c] = Append(pipe[c], r) /\ Len(pipe'[c]) = Len(pipe[c]) + 1
      /\ pipe'[c][Len(pipe[c]) + 1] = r
      /\ \A i \in 1 .. Len(pipe[c]) : pipe'[c][i] = pipe[c][i]
      /\ \A d \in Clients \ {c} : pipe'[d] = pipe[d]
  BY <1>0, <1>1 DEF IInv, TypeOK
<1>3. \A d \in Clients : \A i \in 1 .. Len(pipe[d]) :
         pipe[d][i] \in Requests /\ pipe[d][i] # r
  BY <1>1, PipeEntries DEF IInv, PipeInv
<1>4. /\ phase'[r] = "queued" /\ op'[r] = o
      /\ \A q \in Requests \ {r} : phase'[q] = phase[q] /\ op'[q] = op[q]
  BY <1>1 DEF IInv, TypeOK
<1>5. \A q, p \in Requests \ {r} : Earlier(q, p)' <=> Earlier(q, p)
  BY <1>4 DEF Earlier
<1>6. \A q \in Requests : ~ Earlier(r, q)'
  <2>1. clock \in Nat
    BY BoundsAreNumbers DEF IInv, TypeOK, Dates
  <2>2. \A q \in Requests \ {r} : IsAppending(op[q]) => ~ (clock < op[q].note.creationDate)
    BY <2>1, AppendDate DEF OrderInv
  <2> QED
    BY <1>1, <1>4, <2>1, <2>2 DEF Earlier
<1>7. \A q \in applied' : phase'[q] # "unused"
  BY <1>1, <1>4 DEF OrderInv, IInv, TypeOK
<1>8. \A q \in Requests : IsAppending(op'[q]) => op'[q].note.creationDate <= clock'
  <2>1. clock \in Nat
    BY BoundsAreNumbers DEF IInv, TypeOK, Dates
  <2> QED
    BY <1>1, <1>4, <2>1 DEF OrderInv
<1>9. ASSUME NEW q \in Requests, phase'[q] \in {"queued", "orphaned"}
      PROVE  \E i \in 1 .. Len(pipe'[Caller[q]]) : pipe'[Caller[q]][i] = q
  <2>1. CASE q = r
    BY <1>0, <1>2, <2>1
  <2>2. CASE q # r
    <3>1. PICK i \in 1 .. Len(pipe[Caller[q]]) : pipe[Caller[q]][i] = q
      BY <1>4, <1>9, <2>2 DEF OrderInv
    <3>2. Caller[q] \in Clients
      BY ConstantsAssumption
    <3>3. i \in 1 .. Len(pipe'[Caller[q]]) /\ pipe'[Caller[q]][i] = q
      BY <1>0, <1>2, <3>1, <3>2
    <3> QED
      BY <3>3
  <2> QED
    BY <2>1, <2>2
<1>10. ASSUME NEW p \in Requests, NEW q \in Requests, Earlier(p, q)', NEW d \in Clients,
              NEW i \in 1 .. Len(pipe'[d]), NEW j \in 1 .. Len(pipe'[d]),
              pipe'[d][i] = p, pipe'[d][j] = q
       PROVE  i < j
  <2>0. p # r
    BY <1>6, <1>10
  <2>1. CASE d # c
    <3>1. p # r /\ q # r
      BY <1>2, <1>3, <1>10, <2>1
    <3> QED
      BY <1>2, <1>5, <1>10, <2>1, <3>1 DEF OrderInv
  <2>2. CASE d = c
    <3>1. \A k \in 1 .. Len(pipe'[c]) : k \in 1 .. Len(pipe[c]) \/ k = Len(pipe[c]) + 1
      BY <1>0, <1>2
    <3>2. i \in 1 .. Len(pipe[c])
      BY <1>2, <1>10, <2>0, <2>2, <3>1
    <3>3. CASE j \in 1 .. Len(pipe[c])
      <4>1. pipe[c][i] = p /\ pipe[c][j] = q
        BY <1>2, <1>10, <2>2, <3>2, <3>3
      <4>2. q # r
        BY <1>0, <1>3, <3>3, <4>1
      <4> QED
        BY <1>0, <1>5, <1>10, <2>0, <3>2, <3>3, <4>1, <4>2 DEF OrderInv
    <3>4. CASE j = Len(pipe[c]) + 1
      BY <1>0, <3>2, <3>4
    <3> QED
      BY <2>2, <3>1, <3>3, <3>4
  <2> QED
    BY <2>1, <2>2
<1>11. ASSUME NEW q \in Requests, NEW p \in Requests, Earlier(q, p)', phase'[p] = "finished"
       PROVE  phase'[q] = "finished"
  BY <1>4, <1>5, <1>6, <1>11 DEF OrderInv
<1> QED
  BY <1>7, <1>8, <1>9, <1>10, <1>11 DEF OrderInv

(* The oldest write of a pipeline is answered: all earlier ones were. *)
LEMMA OrderPop ==
    ASSUME IInv, OrderInv, NEW c \in Clients, pipe[c] # << >>,
           NEW result \in {"ok", "failed"}, Finish(Head(pipe[c]), result),
           pipe' = [pipe EXCEPT ![c] = Tail(@)],
           op' = op, clock' = clock, applied' = applied
    PROVE  OrderInv'
<1> DEFINE h == Head(pipe[c])
<1>1. /\ Len(pipe[c]) \in Nat /\ 1 \in 1 .. Len(pipe[c]) /\ h = pipe[c][1]
      /\ h \in Requests /\ Caller[h] = c
  BY PipeEntries DEF IInv, PipeInv
<1>2. phase'[h] = "finished" /\ \A r \in Requests \ {h} : phase'[r] = phase[r]
  BY <1>1 DEF IInv, TypeOK, Finish
<1>3. /\ Len(pipe'[c]) = Len(pipe[c]) - 1
      /\ \A i \in 1 .. Len(pipe'[c]) : pipe'[c][i] = pipe[c][i + 1]
      /\ \A d \in Clients \ {c} : pipe'[d] = pipe[d]
  BY HeadTailProperties DEF IInv, TypeOK
<1>4. \A i \in 1 .. Len(pipe'[c]) : i + 1 \in 1 .. Len(pipe[c])
  BY <1>1, <1>3
<1>5. \A q, r : Earlier(q, r)' <=> Earlier(q, r)
  BY DEF Earlier
<1>6. \A r \in applied' : phase'[r] # "unused"
  BY <1>2 DEF OrderInv, IInv, TypeOK
<1>7. ASSUME NEW r \in Requests, phase'[r] \in {"queued", "orphaned"}
      PROVE  \E i \in 1 .. Len(pipe'[Caller[r]]) : pipe'[Caller[r]][i] = r
  <2>1. r # h /\ phase[r] \in {"queued", "orphaned"} /\ Caller[r] \in Clients
    BY <1>2, <1>7, ConstantsAssumption
  <2>2. PICK i \in 1 .. Len(pipe[Caller[r]]) : pipe[Caller[r]][i] = r
    BY <2>1 DEF OrderInv
  <2>3. CASE Caller[r] # c
    BY <1>3, <2>1, <2>2, <2>3
  <2>4. CASE Caller[r] = c
    <3>1. i # 1 /\ i \in Nat /\ i >= 1 /\ i <= Len(pipe[c])
      BY <1>1, <2>1, <2>2, <2>4
    <3>2. i - 1 \in 1 .. Len(pipe'[c]) /\ (i - 1) + 1 = i
      BY <1>1, <1>3, <3>1
    <3>3. pipe'[c][i - 1] = r
      BY <1>3, <2>2, <2>4, <3>2
    <3> QED
      BY <2>4, <3>2, <3>3
  <2> QED
    BY <2>3, <2>4
<1>8. ASSUME NEW p \in Requests, NEW q \in Requests, Earlier(p, q), NEW d \in Clients,
             NEW i \in 1 .. Len(pipe'[d]), NEW j \in 1 .. Len(pipe'[d]),
             pipe'[d][i] = p, pipe'[d][j] = q
      PROVE  i < j
  <2>1. CASE d # c
    <3>1. pipe'[d] = pipe[d]
      BY <1>3, <2>1
    <3>2. /\ i \in 1 .. Len(pipe[d]) /\ j \in 1 .. Len(pipe[d])
          /\ pipe[d][i] = p /\ pipe[d][j] = q
      BY <1>8, <3>1
    <3> QED
      BY <1>8, <3>2 DEF OrderInv
  <2>2. CASE d = c
    <3>1. i + 1 \in 1 .. Len(pipe[c]) /\ j + 1 \in 1 .. Len(pipe[c])
      BY <1>4, <2>2
    <3>2. pipe[c][i + 1] = p /\ pipe[c][j + 1] = q
      BY <1>3, <1>8, <2>2
    <3>3. i + 1 < j + 1
      BY <1>8, <3>1, <3>2 DEF OrderInv
    <3> QED
      BY <1>1, <1>3, <2>2, <3>3
  <2> QED
    BY <2>1, <2>2
<1>9. ASSUME NEW q \in Requests, NEW r \in Requests, Earlier(q, r), phase'[r] = "finished"
      PROVE  phase'[q] = "finished"
  <2>1. CASE r = h
    <3>1. phase[q] = "finished" \/ \E i \in 1 .. (1 - 1) : pipe[c][i] = q
      BY <1>1, <1>9, <2>1, WaitingBefore
    <3> QED
      BY <1>2, <3>1
  <2>2. CASE r # h
    BY <1>2, <1>9, <2>2 DEF OrderInv
  <2> QED
    BY <2>1, <2>2
<1> QED
  BY <1>5, <1>6, <1>7, <1>8, <1>9 DEF OrderInv

LEMMA OrderStep == IInv /\ OrderInv /\ [Next]_vars => OrderInv'
<1> SUFFICES ASSUME IInv, OrderInv, [Next]_vars PROVE OrderInv'
  OBVIOUS
<1>0. /\ phase \in [Requests -> Phases] /\ applied \subseteq Requests
      /\ clock \in Nat /\ clock <= clock
      /\ \A r \in applied : r \in Requests /\ phase[r] # "unused"
      /\ \A r \in Requests : phase[r] \in InTransaction => ~ IsAppending(op[r])
      /\ \A r \in Requests : op[r] = NoOperation => ~ IsAppending(op[r])
  BY BoundsAreNumbers
     DEF IInv, TypeOK, Dates, PhaseInv, OrderInv, IsAppending, AppendingKinds, NoOperation
<1>1. ASSUME NEW r \in Requests, NEW o \in Operations, Call(r, o) PROVE OrderInv'
  <2>1. CASE ~ IsAppending(o)
    <3>1. /\ op' = [op EXCEPT ![r] = o] /\ phase' = [phase EXCEPT ![r] = "begun"]
          /\ UNCHANGED <<pipe, applied, clock>> /\ phase[r] = "unused"
      BY <1>1, <2>1 DEF Call
    <3>2. ~ IsAppending(op[r]) /\ ~ IsAppending(op'[r])
      BY <1>0, <2>1, <3>1 DEF IInv, PhaseInv, TypeOK
    <3>3. \A q \in Requests \ {r} : op'[q] = op[q] /\ phase'[q] = phase[q]
      BY <1>0, <3>1 DEF IInv, TypeOK
    <3>4. \A q, p \in Requests : Earlier(q, p)' <=> Earlier(q, p)
      BY <3>2, <3>3 DEF Earlier
    <3>5. \A q, p \in Requests : Earlier(q, p)' =>
             \A c \in Clients : \A i, j \in 1 .. Len(pipe[c]) :
                pipe[c][i] = q /\ pipe[c][j] = p => i < j
      BY <3>4 DEF OrderInv
    <3>6. phase'[r] = "begun"
      BY <1>0, <3>1
    <3>7. \A q \in Requests : IsAppending(op'[q]) => op'[q].note.creationDate <= clock
      BY <3>2, <3>3 DEF OrderInv
    <3>8. \A q \in Requests : phase'[q] \in {"queued", "orphaned"} =>
             \E i \in 1 .. Len(pipe[Caller[q]]) : pipe[Caller[q]][i] = q
      BY <3>3, <3>6 DEF OrderInv
    <3>9. \A q, p \in Requests :
             Earlier(q, p)' /\ phase'[p] = "finished" => phase'[q] = "finished"
      BY <3>2, <3>3, <3>4 DEF OrderInv, Earlier
    <3>10. \A q \in applied : phase'[q] # "unused"
      BY <1>0, <3>3, <3>6
    <3> QED
      BY <3>1, <3>5, <3>7, <3>8, <3>9, <3>10 DEF OrderInv
  <2> QED
    BY <1>1, <2>1, OrderPush
<1>2. ASSUME NEW r \in Requests, RunUpdateBlock(r) PROVE OrderInv'
  BY <1>0, <1>2, OrderFrame DEF RunUpdateBlock, Finish, InTransaction
<1>3. ASSUME NEW r \in Requests, CommitSucceeds(r) PROVE OrderInv'
  BY <1>0, <1>3, OrderFrame DEF CommitSucceeds, Finish, InTransaction
<1>4. ASSUME NEW r \in Requests, CommitAborted(r) PROVE OrderInv'
  BY <1>0, <1>4, OrderFrame DEF CommitAborted, Retry, Finish, InTransaction
<1>5. ASSUME NEW r \in Requests, NetworkError(r) PROVE OrderInv'
  BY <1>0, <1>5, OrderFrame DEF NetworkError, Retry, Finish, InTransaction
<1>6. ASSUME NEW r \in Requests, PermanentError(r) PROVE OrderInv'
  BY <1>0, <1>6, OrderFrame DEF PermanentError, Finish, InTransaction
<1>7. ASSUME NEW c \in Clients, ServerAppliesWrite(c) PROVE OrderInv'
  <2>1. pipe[c][onServer[c] + 1] \in Requests
        /\ phase[pipe[c][onServer[c] + 1]] \in {"queued", "orphaned"}
    <3>1. Len(pipe[c]) \in Nat /\ onServer[c] \in Nat
      BY PipeEntries DEF IInv, TypeOK
    <3>2. onServer[c] + 1 \in 1 .. Len(pipe[c])
      BY <1>7, <3>1 DEF ServerAppliesWrite
    <3> QED
      BY <3>2, PipeEntries DEF IInv, PipeInv
  <2> QED
    BY <1>0, <1>7, <2>1, OrderFrame DEF ServerAppliesWrite
<1>8. ASSUME NEW c \in Clients, WriteAcknowledged(c) PROVE OrderInv'
  BY <1>8, PipeEntries, OrderPop DEF WriteAcknowledged
<1>9. ASSUME NEW c \in Clients, WriteRejected(c) PROVE OrderInv'
  BY <1>9, OrderPop DEF WriteRejected
<1>10. ASSUME NEW c \in Clients, WriteStreamBreaks(c) PROVE OrderInv'
  BY <1>0, <1>10, OrderFrame DEF WriteStreamBreaks
<1>11. ASSUME NEW c \in Clients, Restart(c) PROVE OrderInv'
  <2>1. \A r \in Requests :
           \/ phase'[r] = phase[r] /\ (Caller[r] # c \/ phase[r] = "unused")
           \/ phase'[r] = "orphaned" /\ phase[r] \in {"queued", "orphaned"}
           \/ phase'[r] = "finished" /\ phase[r] \notin {"unused", "queued", "orphaned"}
    BY <1>0, <1>11 DEF Restart
  <2>2. \A r \in Requests : IsAppending(op[r]) =>
           phase[r] \in {"queued", "orphaned", "finished"}
    BY AppendDate
  <2> QED
    BY <1>0, <1>11, <2>1, <2>2, OrderFrame DEF Restart
<1>12. ASSUME NEW m \in wire, ServerCommits(m) PROVE OrderInv'
  <2>1. m.request \in Requests /\ ~ IsAppending(op[m.request]) /\ phase[m.request] # "unused"
    BY OperationKinds DEF IInv, TypeOK, WireInv, PhaseInv
  <2> QED
    BY <1>0, <1>12, <2>1, OrderFrame DEF ServerCommits, IsAwaited
<1>13. ASSUME NEW m \in wire, ServerAborts(m) PROVE OrderInv'
  <2>1. m.request \in Requests /\ ~ IsAppending(op[m.request])
    BY DEF IInv, TypeOK, WireInv
  <2> QED
    BY <1>0, <1>13, <2>1, OrderFrame DEF ServerAborts, IsAwaited
<1>14. CASE Report
  BY <1>0, <1>14, OrderFrame DEF Report
<1>15. CASE Tick
  BY <1>0, <1>15, OrderFrame DEF Tick
<1>16. CASE UNCHANGED vars
  BY <1>0, <1>16, OrderFrame DEF vars
<1> QED
  BY <1>1, <1>2, <1>3, <1>4, <1>5, <1>6, <1>7, <1>8, <1>9, <1>10, <1>11, <1>12,
     <1>13, <1>14, <1>15, <1>16 DEF Next

LEMMA OrderInvariant == Spec => []OrderInv
<1>1. Init => OrderInv
  <2> SUFFICES ASSUME Init PROVE OrderInv
    OBVIOUS
  <2>1. \A r \in Requests : ~ IsAppending(op[r])
    BY DEF Init, IsAppending, AppendingKinds, NoOperation
  <2>2. \A c \in Clients : Len(pipe[c]) = 0
    BY DEF Init
  <2> QED
    BY <2>1, <2>2 DEF Init, OrderInv, Earlier
<1> QED
  BY <1>1, OrderStep, DataCenterInvariant, PTL DEF Spec

(* The completion handlers of one app run in the order of its calls. *)
THEOREM DataCenterAnswersInOrder == Spec => []AnswersComeInOrder
<1>1. IInv /\ OrderInv => AnswersComeInOrder
  BY DEF IInv, PhaseInv, OrderInv, Earlier, AnswersComeInOrder
<1> QED
  BY <1>1, OrderInvariant, DataCenterInvariant, PTL
-----------------------------------------------------------------------------
(* The order of the log, while nobody edits or deletes notes.              *)

OnlyAppends == \A q \in Requests : op[q].kind \notin TransactionKinds

(* Every note is there because of an append that took effect, apart from   *)
(* the one of date 0 a document may start with; every append that took     *)
(* effect has its note; and none took effect before an earlier one of its  *)
(* app, unless that was refused.                                           *)
LogInv ==
    OnlyAppends =>
        /\ \A s \in DOMAIN doc.notes :
              \/ doc.notes[s].creationDate = 0
              \/ \E p \in applied : doc.notes[s] = op[p].note
        /\ \A r \in applied : \E s \in DOMAIN doc.notes : doc.notes[s] = op[r].note
        /\ \A q, r \in Requests :
              Earlier(q, r) /\ r \in applied => q \in applied \/ phase[q] = "finished"

(* Only appends are called, so nothing is on the wire. *)
LEMMA NothingOnWire == IInv /\ OnlyAppends => wire = {}
<1> SUFFICES ASSUME IInv, OnlyAppends, NEW m \in wire PROVE FALSE
  OBVIOUS
<1>1. op[m.request] \in TransactionOperation /\ m.request \in Requests
  BY OperationKinds DEF IInv, TypeOK, WireInv
<1> QED
  BY <1>1 DEF OnlyAppends, TransactionOperation, TransactionKinds

LEMMA AppliedAppends ==
    ASSUME IInv, OrderInv, OnlyAppends, NEW r \in applied
    PROVE  r \in Requests /\ IsAppending(op[r]) /\ op[r].note.creationDate \in Nat
<1>1. r \in Requests /\ op[r] # NoOperation
  BY DEF IInv, TypeOK, PhaseInv, OrderInv
<1>2. IsAppending(op[r])
  BY <1>1, OperationKinds
     DEF OnlyAppends, IInv, TypeOK, TransactionOperation, TransactionKinds
<1> QED
  BY <1>1, <1>2, AppendDate

(* Steps that change no note and let no request take effect. *)
LEMMA LogFrame ==
    ASSUME IInv, OrderInv, LogInv, WritesStayInOrder,
           doc'.notes = doc.notes, applied' = applied, op' = op,
           \A r \in Requests : IsAppending(op[r]) /\ phase[r] = "finished" =>
                                   phase'[r] = "finished"
    PROVE  LogInv' /\ WritesStayInOrder'
<1>1. LogInv'
  BY DEF LogInv, OnlyAppends, Earlier
<1>2. WritesStayInOrder'
  BY DEF WritesStayInOrder
<1> QED
  BY <1>1, <1>2

(* A call of an operation. *)
LEMMA LogCall ==
    ASSUME IInv, OrderInv, LogInv, WritesStayInOrder,
           NEW r \in Requests, NEW o \in Operations, Call(r, o)
    PROVE  LogInv' /\ WritesStayInOrder'
<1>1. /\ op' = [op EXCEPT ![r] = o] /\ phase[r] = "unused"
      /\ UNCHANGED <<clock, doc, applied>>
  BY DEF Call
<1>2. op[r] = NoOperation /\ r \notin applied
  BY <1>1 DEF IInv, PhaseInv, OrderInv
<1>3. op'[r] = o /\ \A q \in Requests \ {r} : op'[q] = op[q] /\ phase'[q] = phase[q]
  BY <1>1 DEF IInv, TypeOK, Call
<1>4. applied \subseteq Requests \ {r}
  BY <1>2 DEF IInv, TypeOK
<1>5. OnlyAppends' => OnlyAppends
  BY <1>2, <1>3 DEF OnlyAppends, NoOperation, TransactionKinds
<1>6. WritesStayInOrder'
  BY <1>1, <1>3, <1>4, <1>5 DEF WritesStayInOrder, OnlyAppends
<1>7. ASSUME OnlyAppends', NEW q \in Requests, NEW p \in applied, Earlier(q, p)'
      PROVE  q \in applied \/ phase'[q] = "finished"
  <2>0. p \in Requests \ {r}
    BY <1>4
  <2>1. CASE q = r
    <3>1. o.note.creationDate = clock /\ op[p].note.creationDate <= clock
      BY <1>3, <1>7, <2>0, <2>1 DEF Earlier, Operations, OrderInv
    <3>2. clock \in Nat /\ op[p].note.creationDate \in Nat
      BY <1>5, <1>7, AppliedAppends, BoundsAreNumbers DEF IInv, TypeOK, Dates
    <3> QED
      BY <1>3, <1>7, <2>0, <2>1, <3>1, <3>2 DEF Earlier
  <2>2. CASE q # r
    BY <1>3, <1>5, <1>7, <2>0, <2>2 DEF LogInv, Earlier
  <2> QED
    BY <2>1, <2>2
<1>8. LogInv'
  BY <1>1, <1>3, <1>4, <1>5, <1>7 DEF LogInv
<1> QED
  BY <1>6, <1>8

(* The server applies a write: what its client appended before is there,   *)
(* and the note goes to the end, or was there before.                      *)
LEMMA LogApply ==
    ASSUME IInv, OrderInv, LogInv, WritesStayInOrder,
           NEW c \in Clients, ServerAppliesWrite(c)
    PROVE  LogInv' /\ WritesStayInOrder'
<1> DEFINE k == onServer[c] + 1
           x == pipe[c][k]
<1>1. /\ k \in 1 .. Len(pipe[c]) /\ onServer[c] \in Nat
      /\ x \in Requests /\ phase[x] \in {"queued", "orphaned"}
  <2>1. Len(pipe[c]) \in Nat /\ onServer[c] \in Nat
    BY PipeEntries DEF IInv, TypeOK
  <2>2. k \in 1 .. Len(pipe[c])
    BY <2>1 DEF ServerAppliesWrite
  <2> QED
    BY <2>1, <2>2, PipeEntries DEF IInv, PipeInv
<1>2. /\ doc' = UpdateData(doc, op[x]) /\ applied' = applied \cup {x}
      /\ op' = op /\ phase' = phase
  BY DEF ServerAppliesWrite
<1> DEFINE old == doc.notes
           new == doc'.notes
           v == doc.version + 1
<1>3. new = ArrayUnion(old, op[x].note, v)
  BY <1>2 DEF UpdateData
<1>4. doc.version \in Nat /\ DOMAIN old \subseteq 1 .. doc.version
  BY DEF IInv, TypeOK, IsDocument, IsArray
<1>5. \A q \in Requests : Earlier(q, x) => q \in applied \/ phase[q] = "finished"
  <2> SUFFICES ASSUME NEW q \in Requests, Earlier(q, x), phase[q] # "finished"
               PROVE  q \in applied
    OBVIOUS
  <2>1. PICK i \in 1 .. (k - 1) : pipe[c][i] = q
    BY <1>1, WaitingBefore
  <2>2. i \in 1 .. Len(pipe[c]) /\ i <= onServer[c]
    BY <1>1, <2>1, PipeEntries
  <2> QED
    BY <2>1, <2>2 DEF IInv, PipeInv
<1>6. SUFFICES ASSUME OnlyAppends PROVE LogInv' /\ WritesStayInOrder'
  BY <1>2 DEF OnlyAppends, LogInv, WritesStayInOrder
<1> HIDE DEF x, k
<1>7. CASE \E s \in DOMAIN old : old[s] = op[x].note
  <2>1. new = old
    BY <1>3, <1>7 DEF ArrayUnion
  <2>2. LogInv'
    BY <1>1, <1>2, <1>5, <1>6, <1>7, <2>1 DEF LogInv, Earlier, OnlyAppends
  <2>3. ASSUME NEW q \in applied', NEW r \in applied', Caller[q] = Caller[r],
               op[q].note.creationDate < op[r].note.creationDate,
               \A p \in applied' \ {q, r} : op[p].note \notin {op[q].note, op[r].note},
               NEW s \in DOMAIN old, NEW t \in DOMAIN old,
               old[s] = op[q].note, old[t] = op[r].note
        PROVE  s < t
    <3>1. r = x \/ r \in applied
      BY <1>2, <2>3
    <3>2. q = x \/ q \in applied
      BY <1>2, <2>3
    <3>3. /\ IsAppending(op[q]) /\ op[q].note.creationDate \in Nat /\ q \in Requests
          /\ IsAppending(op[r]) /\ op[r].note.creationDate \in Nat /\ r \in Requests
      BY <1>1, <1>6, <3>1, <3>2, AppliedAppends, AppendDate DEF IInv, PhaseInv
    <3>4. Earlier(q, r)
      BY <2>3, <3>3 DEF Earlier
    <3>5. r \in applied
      <4> SUFFICES ASSUME r \notin applied PROVE FALSE
        OBVIOUS
      <4>1. op[r].note.creationDate # 0
        BY <2>3, <3>3
      <4>2. PICK p \in applied : old[t] = op[p].note
        BY <1>6, <2>3, <4>1 DEF LogInv
      <4>3. p # r /\ p # q /\ p \in applied'
        BY <1>2, <2>3, <3>3, <4>2
      <4> QED
        BY <2>3, <4>2, <4>3
    <3>6. q \in applied
      BY <1>1, <1>6, <3>2, <3>3, <3>4, <3>5 DEF LogInv
    <3> QED
      BY <1>2, <1>6, <2>3, <3>5, <3>6 DEF WritesStayInOrder, OnlyAppends
  <2>4. WritesStayInOrder'
    BY <1>2, <2>1, <2>3 DEF WritesStayInOrder
  <2> QED
    BY <2>2, <2>4
<1>8. CASE ~ \E s \in DOMAIN old : old[s] = op[x].note
  <2>1. new = [s \in DOMAIN old \cup {v} |-> IF s = v THEN op[x].note ELSE old[s]]
    BY <1>3, <1>8 DEF ArrayUnion
  <2>2. /\ DOMAIN new = DOMAIN old \cup {v} /\ v \notin DOMAIN old
        /\ new[v] = op[x].note
        /\ \A s \in DOMAIN old : new[s] = old[s] /\ s < v
    BY <1>4, <2>1
  <2> HIDE DEF v
  <2>3. x \notin applied
    BY <1>6, <1>8 DEF LogInv
  <2>4. LogInv'
    <3>1. \A s \in DOMAIN new :
             new[s].creationDate = 0 \/ \E p \in applied' : new[s] = op[p].note
      BY <1>2, <1>6, <2>2 DEF LogInv
    <3>2. \A r \in applied' : \E s \in DOMAIN new : new[s] = op[r].note
      BY <1>2, <1>6, <2>2 DEF LogInv
    <3>3. \A q, r \in Requests :
             Earlier(q, r) /\ r \in applied' => q \in applied' \/ phase[q] = "finished"
      BY <1>2, <1>5, <1>6 DEF LogInv
    <3> QED
      BY <1>2, <3>1, <3>2, <3>3 DEF LogInv, Earlier
  <2>5. ASSUME NEW q \in applied', NEW r \in applied', Caller[q] = Caller[r],
               op[q].note.creationDate < op[r].note.creationDate,
               \A p \in applied' \ {q, r} : op[p].note \notin {op[q].note, op[r].note},
               NEW s \in DOMAIN new, NEW t \in DOMAIN new,
               new[s] = op[q].note, new[t] = op[r].note
        PROVE  s < t
    <3>1. r = x \/ r \in applied
      BY <1>2, <2>5
    <3>2. q = x \/ q \in applied
      BY <1>2, <2>5
    <3>3. /\ IsAppending(op[q]) /\ op[q].note.creationDate \in Nat /\ q \in Requests
          /\ IsAppending(op[r]) /\ op[r].note.creationDate \in Nat /\ r \in Requests
      BY <1>1, <1>6, <3>1, <3>2, AppliedAppends, AppendDate DEF IInv, PhaseInv
    <3>4. Earlier(q, r) /\ op[q].note # op[r].note /\ q # r
      BY <2>5, <3>3 DEF Earlier
    <3>5. q \in applied
      <4> SUFFICES ASSUME q = x, r \in applied PROVE FALSE
        BY <3>1, <3>2, <3>4
      <4> QED
        BY <1>1, <1>6, <2>3, <3>3, <3>4 DEF LogInv
    <3>6. s \in DOMAIN old /\ old[s] = op[q].note
      <4>1. q # x
        BY <2>3, <3>5
      <4>2. s # v
        <5> SUFFICES ASSUME s = v PROVE FALSE
          OBVIOUS
        <5>1. op[q].note = op[x].note
          BY <2>2, <2>5
        <5>2. x # r /\ x \in applied'
          BY <1>2, <3>4, <5>1
        <5> QED
          BY <2>5, <4>1, <5>1, <5>2
      <4> QED
        BY <2>2, <2>5, <4>2
    <3>7. CASE t = v
      BY <2>2, <3>6, <3>7
    <3>8. CASE t # v
      <4>1. t \in DOMAIN old /\ old[t] = op[r].note
        BY <2>2, <2>5, <3>8
      <4>2. r \in applied
        BY <1>8, <3>1, <4>1
      <4> QED
        BY <1>2, <1>6, <2>5, <3>5, <3>6, <4>1, <4>2 DEF WritesStayInOrder, OnlyAppends
    <3> QED
      BY <3>7, <3>8
  <2>6. WritesStayInOrder'
    BY <1>2, <2>5 DEF WritesStayInOrder
  <2> QED
    BY <2>4, <2>6
<1> QED
  BY <1>7, <1>8

LEMMA LogStep ==
    IInv /\ OrderInv /\ LogInv /\ WritesStayInOrder /\ [Next]_vars =>
        LogInv' /\ WritesStayInOrder'
<1> SUFFICES ASSUME IInv, OrderInv, LogInv, WritesStayInOrder, [Next]_vars
             PROVE  LogInv' /\ WritesStayInOrder'
  OBVIOUS
<1>0. /\ phase \in [Requests -> Phases]
      /\ \A r \in Requests : phase[r] \in InTransaction => ~ IsAppending(op[r])
  BY DEF IInv, TypeOK, PhaseInv
<1>1. ASSUME NEW r \in Requests, NEW o \in Operations, Call(r, o)
      PROVE  LogInv' /\ WritesStayInOrder'
  BY <1>1, LogCall
<1>2. ASSUME NEW r \in Requests, RunUpdateBlock(r) PROVE LogInv' /\ WritesStayInOrder'
  BY <1>0, <1>2, LogFrame DEF RunUpdateBlock, Finish
<1>3. ASSUME NEW r \in Requests, CommitSucceeds(r) PROVE LogInv' /\ WritesStayInOrder'
  BY <1>0, <1>3, LogFrame DEF CommitSucceeds, Finish
<1>4. ASSUME NEW r \in Requests, CommitAborted(r) PROVE LogInv' /\ WritesStayInOrder'
  BY <1>0, <1>4, LogFrame DEF CommitAborted, Retry, Finish
<1>5. ASSUME NEW r \in Requests, NetworkError(r) PROVE LogInv' /\ WritesStayInOrder'
  BY <1>0, <1>5, LogFrame DEF NetworkError, Retry, Finish, InTransaction
<1>6. ASSUME NEW r \in Requests, PermanentError(r) PROVE LogInv' /\ WritesStayInOrder'
  BY <1>0, <1>6, LogFrame DEF PermanentError, Finish
<1>7. ASSUME NEW c \in Clients, ServerAppliesWrite(c) PROVE LogInv' /\ WritesStayInOrder'
  BY <1>7, LogApply
<1>8. ASSUME NEW c \in Clients, WriteAcknowledged(c) PROVE LogInv' /\ WritesStayInOrder'
  BY <1>0, <1>8, LogFrame DEF WriteAcknowledged, Finish
<1>9. ASSUME NEW c \in Clients, WriteRejected(c) PROVE LogInv' /\ WritesStayInOrder'
  BY <1>0, <1>9, LogFrame DEF WriteRejected, Finish
<1>10. ASSUME NEW c \in Clients, WriteStreamBreaks(c) PROVE LogInv' /\ WritesStayInOrder'
  BY <1>10, LogFrame DEF WriteStreamBreaks
<1>11. ASSUME NEW c \in Clients, Restart(c) PROVE LogInv' /\ WritesStayInOrder'
  BY <1>0, <1>11, LogFrame DEF Restart
<1>12. ASSUME NEW m \in wire, ServerCommits(m) PROVE LogInv' /\ WritesStayInOrder'
  <2>1. ~ OnlyAppends /\ op' = op
    BY <1>12, NothingOnWire DEF ServerCommits
  <2> QED
    BY <2>1 DEF OnlyAppends, LogInv, WritesStayInOrder
<1>13. ASSUME NEW m \in wire, ServerAborts(m) PROVE LogInv' /\ WritesStayInOrder'
  <2>1. ~ OnlyAppends /\ op' = op
    BY <1>13, NothingOnWire DEF ServerAborts
  <2> QED
    BY <2>1 DEF OnlyAppends, LogInv, WritesStayInOrder
<1>14. CASE Report
  BY <1>14, LogFrame DEF Report, Reported
<1>15. CASE Tick
  BY <1>15, LogFrame DEF Tick
<1>16. CASE UNCHANGED vars
  BY <1>16, LogFrame DEF vars
<1> QED
  BY <1>1, <1>2, <1>3, <1>4, <1>5, <1>6, <1>7, <1>8, <1>9, <1>10, <1>11, <1>12,
     <1>13, <1>14, <1>15, <1>16 DEF Next

(* What an app logs stands in the array in the order of time. *)
THEOREM DataCenterWritesInOrder == Spec => []WritesStayInOrder
<1>1. Init => LogInv /\ WritesStayInOrder
  <2> SUFFICES ASSUME Init PROVE LogInv /\ WritesStayInOrder
    OBVIOUS
  <2>1. \A s \in DOMAIN doc.notes : doc.notes[s].creationDate = 0
    BY DEF Init, InitialDocuments
  <2> QED
    BY <2>1 DEF Init, LogInv, WritesStayInOrder
<1> QED
  BY <1>1, LogStep, OrderInvariant, DataCenterInvariant, PTL DEF Spec
=============================================================================
