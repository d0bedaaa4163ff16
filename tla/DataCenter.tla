----------------------------- MODULE DataCenter -----------------------------
(***************************************************************************)
(* The write operations of DataCenter.swift as several running copies of   *)
(* the app carry them out on the document of one device, through the       *)
(* Firestore SDK in Pods.                                                  *)
(*                                                                         *)
(*  - updateData puts a write into the client's persistent write pipeline. *)
(*    The pipeline is sent in order over a stream; the server applies the  *)
(*    writes in order and acknowledges them in order; when the stream      *)
(*    breaks, everything without an acknowledgement is sent again.         *)
(*  - runTransaction reads the document, lets the update block compute the *)
(*    new array, and sends a commit that holds only if the document still  *)
(*    has the version that was read; otherwise, or after a network error,  *)
(*    it starts over, at most RetryCount times.                            *)
(*                                                                         *)
(* A commit message whose reply is given up on stays on the wire and may   *)
(* reach the server at any later time.  The app may be killed: its         *)
(* pipeline survives, its completion handlers and transactions do not.     *)
(***************************************************************************)
EXTENDS DeviceDocument, Sequences

CONSTANTS
    Clients,           \* running copies of the app
    Requests,          \* calls of an operation
    Caller,            \* the client that makes each of them
    Kinds,             \* the kinds of operations called in this instance
    RetryCount,        \* kRetryCount in transaction_runner.cc
    MaxPendingWrites,  \* kMaxPendingWrites in remote_store.cc
    MaxFaults,         \* bound: lost replies, broken streams and failed reads
    MaxRestarts        \* bound: times an app is killed

ASSUME ConstantsAssumption ==
    /\ Caller \in [Requests -> Clients]
    /\ RetryCount \in Nat /\ MaxPendingWrites \in Nat \ {0}
    /\ MaxFaults \in Nat /\ MaxRestarts \in Nat

VARIABLES
    clock,     \* Int(Date().timeIntervalSince1970), the same for all clients
    doc,       \* the document at the server
    phase,     \* how far each request has come
    op,        \* the operation of the request
    retries,   \* retries_left_ of the request's transaction
    pipe,      \* write_pipeline_ of each client: requests without an answer
    onServer,  \* how many writes of the pipeline the server has applied
    wire,      \* commit messages that have not reached the server
    answer,    \* what the completion handler of each request was told
    applied,   \* history: the requests that took effect
    faults,    \* how many faults there have been
    restarts   \* how many restarts there have been

vars == <<clock, doc, phase, op, retries, pipe, onServer, wire, answer,
          applied, faults, restarts>>

Phases == {"unused",
           "queued",       \* in the write pipeline
           "orphaned",     \* in the write pipeline of an app that was killed since
           "begun",        \* a transaction that has asked for the document
           "committing",   \* its commit is on the wire
           "committed",    \* the server has applied it, the reply is on its way
           "aborted",      \* the server has refused it, the reply is on its way
           "finished"}

TypeOK ==
    /\ clock \in Dates
    /\ IsDocument(doc)
    /\ phase \in [Requests -> Phases]
    /\ op \in [Requests -> Operation \cup {NoOperation}]
    /\ retries \in [Requests -> 0 .. RetryCount]
    /\ pipe \in [Clients -> Seq(Requests)]
    /\ onServer \in [Clients -> Nat]
    /\ answer \in [Requests -> {"none", "ok", "failed"}]
    /\ applied \subseteq Requests
    /\ faults \in 0 .. MaxFaults
    /\ restarts \in 0 .. MaxRestarts
    /\ \A m \in wire :
          /\ m = [request |-> m.request, attempt |-> m.attempt,
                  version |-> m.version, notes |-> m.notes]
          /\ m.request \in Requests /\ m.attempt \in 0 .. RetryCount
          /\ m.version \in Nat /\ IsArray(m.notes, m.version)
    /\ \A c \in Clients : onServer[c] <= Len(pipe[c])

Init ==
    /\ clock = 0
    /\ doc \in InitialDocuments
    /\ phase = [r \in Requests |-> "unused"]
    /\ op = [r \in Requests |-> NoOperation]
    /\ retries = [r \in Requests |-> RetryCount]
    /\ pipe = [c \in Clients |-> << >>]
    /\ onServer = [c \in Clients |-> 0]
    /\ wire = {}
    /\ answer = [r \in Requests |-> "none"]
    /\ applied = {}
    /\ faults = 0
    /\ restarts = 0

-----------------------------------------------------------------------------
(* What both kinds of requests share.                                      *)

(* The completion handler runs, if the app that has it still runs. *)
Finish(r, result) ==
    /\ phase' = [phase EXCEPT ![r] = "finished"]
    /\ answer' = IF phase[r] = "orphaned" THEN answer
                                         ELSE [answer EXCEPT ![r] = result]

Operations ==
    {o \in Operation :
        /\ o.kind \in Kinds
        /\ IsAppending(o) => o.note.creationDate = clock
        /\ o.kind = "updateNoteOfDevice" => o.note.creationDate <= clock
        /\ o.kind = "deleteNotesOfDevice" => o.creationDates \subseteq 0 .. clock}

(* Mutant: the write goes to the front of the pipeline. *)
CallAheadOfOthers(r, o) ==
    /\ phase[r] = "unused"
    /\ op' = [op EXCEPT ![r] = o]
    /\ IF IsAppending(o)
       THEN /\ phase' = [phase EXCEPT ![r] = "queued"]
            /\ pipe' = [pipe EXCEPT ![Caller[r]] = <<r>> \o @]
       ELSE /\ phase' = [phase EXCEPT ![r] = "begun"]
            /\ UNCHANGED pipe
    /\ UNCHANGED <<clock, doc, retries, onServer, wire, answer, applied, faults,
                   restarts>>

(* A screen calls one of the five operations. *)
Call(r, o) ==
    /\ phase[r] = "unused"
    /\ op' = [op EXCEPT ![r] = o]
    /\ IF IsAppending(o)
       THEN /\ phase' = [phase EXCEPT ![r] = "queued"]
            /\ pipe' = [pipe EXCEPT ![Caller[r]] = Append(@, r)]
       ELSE /\ phase' = [phase EXCEPT ![r] = "begun"]
            /\ UNCHANGED pipe
    /\ UNCHANGED <<clock, doc, retries, onServer, wire, answer, applied, faults,
                   restarts>>

-----------------------------------------------------------------------------
(* The write pipeline of a client.                                         *)

ServerAppliesWrite(c) ==
    /\ onServer[c] < Len(pipe[c])
    /\ onServer[c] < MaxPendingWrites
    /\ LET r == pipe[c][onServer[c] + 1] IN
          /\ doc' = UpdateData(doc, op[r])
          /\ applied' = applied \cup {r}
    /\ onServer' = [onServer EXCEPT ![c] = @ + 1]
    /\ UNCHANGED <<clock, phase, op, retries, pipe, wire, answer, faults, restarts>>

(* Mutant: the acknowledgement leaves the count of sent writes as it is. *)
WriteAcknowledgedUncounted(c) ==
    /\ onServer[c] > 0
    /\ Finish(Head(pipe[c]), "ok")
    /\ pipe' = [pipe EXCEPT ![c] = Tail(@)]
    /\ UNCHANGED <<clock, doc, op, retries, onServer, wire, applied, faults, restarts>>

(* Mutant: the completion handler is told of an error when there is none. *)
WriteAcknowledgedAsError(c) ==
    /\ onServer[c] > 0
    /\ Finish(Head(pipe[c]), "failed")
    /\ pipe' = [pipe EXCEPT ![c] = Tail(@)]
    /\ onServer' = [onServer EXCEPT ![c] = @ - 1]
    /\ UNCHANGED <<clock, doc, op, retries, wire, applied, faults, restarts>>

WriteAcknowledged(c) ==
    /\ onServer[c] > 0
    /\ Finish(Head(pipe[c]), "ok")
    /\ pipe' = [pipe EXCEPT ![c] = Tail(@)]
    /\ onServer' = [onServer EXCEPT ![c] = @ - 1]
    /\ UNCHANGED <<clock, doc, op, retries, wire, applied, faults, restarts>>

(* A permanent error, which the SDK attributes to the oldest write. *)
WriteRejected(c) ==
    /\ pipe[c] # << >> /\ onServer[c] = 0
    /\ faults < MaxFaults
    /\ Finish(Head(pipe[c]), "failed")
    /\ pipe' = [pipe EXCEPT ![c] = Tail(@)]
    /\ faults' = faults + 1
    /\ UNCHANGED <<clock, doc, op, retries, onServer, wire, applied, restarts>>

(* The stream breaks with acknowledgements on it: the writes are sent again. *)
WriteStreamBreaks(c) ==
    /\ onServer[c] > 0
    /\ faults < MaxFaults
    /\ onServer' = [onServer EXCEPT ![c] = 0]
    /\ faults' = faults + 1
    /\ UNCHANGED <<clock, doc, phase, op, retries, pipe, wire, answer, applied,
                   restarts>>

-----------------------------------------------------------------------------
(* Transactions.                                                           *)

(* Mutant: the last failed attempt ends the transaction without a word. *)
RetryWithoutAnswer(r) ==
    IF retries[r] > 0
    THEN /\ retries' = [retries EXCEPT ![r] = @ - 1]
         /\ phase' = [phase EXCEPT ![r] = "begun"]
         /\ UNCHANGED answer
    ELSE /\ phase' = [phase EXCEPT ![r] = "finished"]
         /\ UNCHANGED <<retries, answer>>

Retry(r) ==
    IF retries[r] > 0
    THEN /\ retries' = [retries EXCEPT ![r] = @ - 1]
         /\ phase' = [phase EXCEPT ![r] = "begun"]
         /\ UNCHANGED answer
    ELSE /\ Finish(r, "failed")
         /\ UNCHANGED retries

(* getDocument returns, and the update block runs on what it returns.  An  *)
(* error the block reports itself ends the transaction without a retry.    *)
RunUpdateBlock(r) ==
    /\ phase[r] = "begun"
    /\ IF BlockSucceeds(doc, op[r])
       THEN /\ phase' = [phase EXCEPT ![r] = "committing"]
            /\ wire' = wire \cup
                  {[request |-> r, attempt |-> retries[r], version |-> doc.version,
                    notes |-> RewrittenNotes(doc.notes, op[r])]}
            /\ UNCHANGED answer
       ELSE /\ Finish(r, "failed")
            /\ UNCHANGED wire
    /\ UNCHANGED <<clock, doc, op, retries, pipe, onServer, applied, faults, restarts>>

(* The client still waits for the reply to this very commit. *)
IsAwaited(m) == phase[m.request] = "committing" /\ retries[m.request] = m.attempt

(* Mutant: the commit carries no precondition on the update time. *)
ServerCommitsUnchecked(m) ==
    /\ wire' = wire \ {m}
    /\ doc' = WriteNotes(doc, m.notes)
    /\ applied' = applied \cup {m.request}
    /\ phase' = IF IsAwaited(m) THEN [phase EXCEPT ![m.request] = "committed"]
                               ELSE phase
    /\ UNCHANGED <<clock, op, retries, pipe, onServer, answer, faults, restarts>>

(* The document still has the update time of the read: it is replaced. *)
ServerCommits(m) ==
    /\ m.version = doc.version
    /\ wire' = wire \ {m}
    /\ doc' = WriteNotes(doc, m.notes)
    /\ applied' = applied \cup {m.request}
    /\ phase' = IF IsAwaited(m) THEN [phase EXCEPT ![m.request] = "committed"]
                               ELSE phase
    /\ UNCHANGED <<clock, op, retries, pipe, onServer, answer, faults, restarts>>

ServerAborts(m) ==
    /\ m.version # doc.version
    /\ wire' = wire \ {m}
    /\ phase' = IF IsAwaited(m) THEN [phase EXCEPT ![m.request] = "aborted"]
                               ELSE phase
    /\ UNCHANGED <<clock, doc, op, retries, pipe, onServer, answer, applied, faults,
                   restarts>>

(* Mutant: the handler looks at the arrival of a reply, not at its status. *)
CommitSucceedsUnconditionally(r) ==
    /\ phase[r] \in {"committed", "aborted"}
    /\ Finish(r, "ok")
    /\ UNCHANGED <<clock, doc, op, retries, pipe, onServer, wire, applied, faults,
                   restarts>>

CommitSucceeds(r) ==
    /\ phase[r] = "committed"
    /\ Finish(r, "ok")
    /\ UNCHANGED <<clock, doc, op, retries, pipe, onServer, wire, applied, faults,
                   restarts>>

CommitAborted(r) ==
    /\ phase[r] = "aborted"
    /\ Retry(r)
    /\ UNCHANGED <<clock, doc, op, pipe, onServer, wire, applied, faults, restarts>>

(* The read fails, or no reply to the commit comes back. *)
NetworkError(r) ==
    /\ phase[r] \in {"begun", "committing", "committed", "aborted"}
    /\ faults < MaxFaults
    /\ faults' = faults + 1
    /\ Retry(r)
    /\ UNCHANGED <<clock, doc, op, pipe, onServer, wire, applied, restarts>>

(* The server refuses the read, or the commit, for good. *)
PermanentError(r) ==
    /\ phase[r] \in {"begun", "committing"}
    /\ faults < MaxFaults
    /\ faults' = faults + 1
    /\ wire' = {m \in wire : ~(m.request = r /\ IsAwaited(m))}
    /\ Finish(r, "failed")
    /\ UNCHANGED <<clock, doc, op, retries, pipe, onServer, applied, restarts>>

-----------------------------------------------------------------------------
(* The rest of the world.                                                  *)

(* The app is killed and started again. *)
Restart(c) ==
    /\ restarts < MaxRestarts
    /\ restarts' = restarts + 1
    /\ phase' = [r \in Requests |->
          CASE Caller[r] # c \/ phase[r] = "unused"      -> phase[r]
            [] Caller[r] = c /\ phase[r] \in {"queued", "orphaned"} -> "orphaned"
            [] OTHER                                     -> "finished"]
    /\ onServer' = [onServer EXCEPT ![c] = 0]
    /\ UNCHANGED <<clock, doc, op, retries, pipe, wire, answer, applied, faults>>

(* The device reports its operation time. *)
Report ==
    /\ doc.operationTime < MaxHours
    /\ doc' = Reported(doc)
    /\ UNCHANGED <<clock, phase, op, retries, pipe, onServer, wire, answer, applied,
                   faults, restarts>>

Tick ==
    /\ clock < MaxTime
    /\ clock' = clock + 1
    /\ UNCHANGED <<doc, phase, op, retries, pipe, onServer, wire, answer, applied,
                   faults, restarts>>

Next ==
    \/ \E r \in Requests :
          \/ \E o \in Operations : Call(r, o)
          \/ RunUpdateBlock(r)
          \/ CommitSucceeds(r)
          \/ CommitAborted(r)
          \/ NetworkError(r)
          \/ PermanentError(r)
    \/ \E c \in Clients :
          \/ ServerAppliesWrite(c)
          \/ WriteAcknowledged(c)
          \/ WriteRejected(c)
          \/ WriteStreamBreaks(c)
          \/ Restart(c)
    \/ \E m \in wire : ServerCommits(m) \/ ServerAborts(m)
    \/ Report
    \/ Tick

Spec == Init /\ [][Next]_vars

(* The network is up often enough, and the SDK goes on with what it has to *)
(* do; nothing obliges a user, the device or a fault to act.               *)
Fairness ==
    /\ \A r \in Requests :
          WF_vars(RunUpdateBlock(r) \/ CommitSucceeds(r) \/ CommitAborted(r))
    /\ \A c \in Clients : WF_vars(ServerAppliesWrite(c) \/ WriteAcknowledged(c))
    /\ WF_vars(\E m \in wire : ServerCommits(m) \/ ServerAborts(m))

FairSpec == Spec /\ Fairness

-----------------------------------------------------------------------------
(* Properties.                                                             *)

Log == INSTANCE MaintenanceLog WITH asked <- op

(* The pipeline and the transactions together implement the abstract log:  *)
(* every change of the document is one whole operation on the current      *)
(* document, none takes effect after its success was reported, and a       *)
(* completion handler hears of success only after the effect               *)
(* (DataCenter.swift:84, :110, :134, :151 and :202 with their handlers).   *)
ImplementsLog == Log!Spec

(* DataCenter.swift:186 and :225 write the whole array back; nevertheless  *)
(* no note that another client, or this one, has appended is lost.         *)
NotesAreKept == Log!NotesAreKept

(* The three fields of DataCenter.swift:84-88 stay in step, although the   *)
(* write may be sent again and the log may be rewritten meanwhile.         *)
ServicesAreLogged == Log!ServicesAreLogged

(* A write that is sent again does not log the same event twice. *)
NoDoubleEntries == Log!NoDoubleEntries

(* While nobody edits or deletes notes, what one copy of the app logs      *)
(* stands in the array in the order of time, whatever is sent again; so    *)
(* the first note of a date, which DataCenter.swift:172 picks, is then its *)
(* oldest one.  (A note equal to one that another copy has logged is not   *)
(* appended at all, and is left aside.)                                    *)
WritesStayInOrder ==
    (\A q \in Requests : op[q].kind \notin TransactionKinds) =>
        \A q, r \in applied :
            (/\ Caller[q] = Caller[r]
             /\ op[q].note.creationDate < op[r].note.creationDate
             /\ \A p \in applied \ {q, r} : op[p].note \notin {op[q].note, op[r].note}) =>
                \A s, t \in DOMAIN doc.notes :
                    doc.notes[s] = op[q].note /\ doc.notes[t] = op[r].note => s < t

(* The completion handlers of the appends of one app run in the order of   *)
(* the calls, so that Device.addNote, which inserts at the front without   *)
(* sorting, keeps the notes in order (Device.swift:63-65).                 *)
AnswersComeInOrder ==
    \A q, r \in Requests :
        /\ Caller[q] = Caller[r] /\ IsAppending(op[q]) /\ IsAppending(op[r])
        /\ op[q].note.creationDate < op[r].note.creationDate
        /\ answer[r] # "none"
        => phase[q] = "finished"

(* Without a network error or a restart, completion(false) means that the  *)
(* document was not touched by the request: an aborted commit leaves no    *)
(* trace (DataCenter.swift:189-191, :227-229).                             *)
CleanFailure ==
    faults = 0 /\ restarts = 0 =>
        \A r \in Requests : answer[r] = "failed" => r \notin applied

(* Every call is answered: no completion handler is forgotten by a running *)
(* app, and NotesViewController.swift:79 does not wait forever.            *)
EveryCallIsAnswered ==
    \A r \in Requests :
        phase[r] # "unused" ~> answer[r] # "none" \/ restarts > 0
=============================================================================
