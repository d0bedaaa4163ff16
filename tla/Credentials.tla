---------------------------- MODULE Credentials ----------------------------
(***************************************************************************)
(* Whose writes are sent under whose name.  FirebaseAuth has one current   *)
(* user at a time; Firestore keeps the pending writes of every user apart, *)
(* and its write stream carries the token of one user.                     *)
(*                                                                         *)
(* Three queues run side by side.  FIRAuth changes its user on a queue of  *)
(* its own; notifications, tokens and the handlers of writes go through    *)
(* the main queue; SyncEngine, RemoteStore and the write stream live on    *)
(* the worker queue of Firestore.  A write is made on the main thread,      *)
(* between any two blocks.                                                 *)
(*                                                                         *)
(* Session has the same users from the side of the screens.                *)
(***************************************************************************)
EXTENDS Naturals, Sequences

CONSTANTS
    Accounts,     \* registered users
    Nobody,       \* no user
    Writes,       \* calls of updateData
    MaxChanges,   \* bound: logins and logouts
    MaxFaults     \* bound: broken streams, rejected writes and restarts

(* A token request that FIRAuth has not looked at, a write not yet made *)
Unread == "unread"

ASSUME CredentialsConstants ==
    /\ Nobody \notin Accounts /\ Unread \notin Accounts \cup {Nobody}
    /\ MaxChanges \in Nat /\ MaxFaults \in Nat

VARIABLES
    authUser,       \* FIRAuth._currentUser
    mainQueue,      \* blocks given to the main queue
    tokenRequests,  \* calls of GetToken not yet posted to the main queue
    credUser,       \* FirebaseCredentialsProvider: current_user
    tokenCounter,   \* FirebaseCredentialsProvider: token_counter
    workQueue,      \* tasks on the worker queue of Firestore
    syncUser,       \* SyncEngine: current_user_
    mutationQueue,  \* the persistent writes of each user, sent or not
    callbacks,      \* mutation_callbacks_: writes with a handler
    stream,         \* the write stream: state, close count and whose token
    onServer,       \* writes applied in this stream and not acknowledged
    owner,          \* history: who was signed in when the write was made
    sentAs,         \* history: under whose token each write was applied
    answered,       \* history: how often the handler of each write has run
    changes, faults, restarts

authVars == <<authUser, changes>>
credVars == <<credUser, tokenCounter>>
sdkVars  == <<syncUser, mutationQueue, callbacks, stream, onServer, sentAs>>
vars     == <<authVars, credVars, sdkVars, mainQueue, tokenRequests, workQueue,
              owner, answered, faults, restarts>>

Users == Accounts \cup {Nobody}

(* Blocks of the main queue and tasks of the worker queue *)
Notification(u) == [kind |-> "notification", user |-> u]
TokenBlock(t)   == [kind |-> "token", token |-> t]
Answer(w)       == [kind |-> "answer", write |-> w]
Blocks ==
    {Notification(u) : u \in Users} \cup {Answer(w) : w \in Writes}
        \cup [kind : {"token"}, token : [counter : Nat, closes : Nat, user : Users]]

Tasks ==
    [kind : {"user"}, user : Users] \cup [kind : {"write"}, write : Writes]
        \cup [kind : {"token"}, ok : BOOLEAN, closes : Nat, user : Users]

Started == {"starting", "backoff", "open"}

TypeOK ==
    /\ {authUser, credUser, syncUser} \subseteq Users
    /\ mainQueue \in Seq(Blocks) /\ workQueue \in Seq(Tasks)
    /\ tokenRequests \subseteq [counter : Nat, closes : Nat, user : Users \cup {Unread}]
    /\ tokenCounter \in Nat
    /\ mutationQueue \in [Users -> Seq(Writes)]
    /\ callbacks \subseteq Writes
    /\ stream \in [state : {"initial", "error"} \cup Started, closes : Nat, user : Users]
    /\ onServer \in 0 .. Len(mutationQueue[syncUser])
    /\ owner \in [Writes -> Users \cup {Unread}]
    /\ sentAs \in [Writes -> SUBSET Users]
    /\ answered \in [Writes -> Nat]
    /\ changes \in 0 .. MaxChanges
    /\ {faults, restarts} \subseteq 0 .. MaxFaults

-----------------------------------------------------------------------------
(* The write stream.                                                       *)

(* RemoteStore::FillWritePipeline, with the writes in queue and the stream *)
(* in that state: it is started if it is needed and not running.           *)
FillWritePipeline(queue, state, closes, counter) ==
    LET next == IF queue = << >> \/ state \in Started THEN state
                ELSE IF state = "error" THEN "backoff" ELSE "starting"
        request == [counter |-> counter, closes |-> closes, user |-> Unread]
    IN
    /\ stream' = [state |-> next, closes |-> closes,
                  user |-> IF next = "open" THEN stream.user ELSE Nobody]
    /\ tokenRequests' = IF next = "starting" /\ state = "initial"
                        THEN tokenRequests \cup {request} ELSE tokenRequests

IsOpen == stream.state = "open"

Pipeline == mutationQueue[syncUser]

BackoffElapsed ==
    /\ stream.state = "backoff"
    /\ FillWritePipeline(Pipeline, "initial", stream.closes, tokenCounter)
    /\ UNCHANGED <<authVars, credVars, syncUser, mutationQueue, callbacks, onServer,
                   sentAs, mainQueue, workQueue, owner, answered, faults, restarts>>

ServerAppliesWrite ==
    /\ IsOpen /\ onServer < Len(Pipeline)
    /\ onServer' = onServer + 1
    /\ sentAs' = [sentAs EXCEPT ![Pipeline[onServer + 1]] = @ \cup {stream.user}]
    /\ UNCHANGED <<authVars, credVars, syncUser, mutationQueue, callbacks, stream,
                   mainQueue, tokenRequests, workQueue, owner, answered, faults, restarts>>

(* SyncEngine::NotifyUser and the removal of the oldest write *)
FinishWrite(w) ==
    /\ mutationQueue' = [mutationQueue EXCEPT ![syncUser] = Tail(@)]
    /\ callbacks' = callbacks \ {w}
    /\ mainQueue' = IF w \in callbacks THEN Append(mainQueue, Answer(w)) ELSE mainQueue

(* Mutant: the acknowledgement leaves the count as it is. *)
WriteAcknowledgedUncounted ==
    /\ IsOpen /\ onServer > 0
    /\ FinishWrite(Head(Pipeline))
    /\ UNCHANGED <<authVars, credVars, syncUser, stream, onServer, sentAs, tokenRequests,
                   workQueue, owner, answered, faults, restarts>>

WriteAcknowledged ==
    /\ IsOpen /\ onServer > 0
    /\ FinishWrite(Head(Pipeline))
    /\ onServer' = onServer - 1
    /\ UNCHANGED <<authVars, credVars, syncUser, stream, sentAs, tokenRequests,
                   workQueue, owner, answered, faults, restarts>>

(* A permanent error: the stream is restarted without backoff. *)
WriteRejected ==
    /\ IsOpen /\ onServer = 0 /\ Pipeline # << >>
    /\ faults + restarts < MaxFaults
    /\ faults' = faults + 1
    /\ FinishWrite(Head(Pipeline))
    /\ FillWritePipeline(Tail(Pipeline), "initial", stream.closes + 1, tokenCounter)
    /\ UNCHANGED <<authVars, credVars, syncUser, onServer, sentAs, workQueue, owner,
                   answered, restarts>>

WriteStreamBreaks ==
    /\ IsOpen
    /\ faults + restarts < MaxFaults
    /\ faults' = faults + 1
    /\ onServer' = 0
    /\ FillWritePipeline(Pipeline, "error", stream.closes + 1, tokenCounter)
    /\ UNCHANGED <<authVars, credVars, syncUser, mutationQueue, callbacks, sentAs,
                   mainQueue, workQueue, owner, answered, restarts>>

(* MarkIdle: an open stream with nothing to send is stopped after a minute. *)
IdleTimeout ==
    /\ IsOpen /\ Pipeline = << >>
    /\ stream' = [state |-> "initial", closes |-> stream.closes + 1, user |-> Nobody]
    /\ UNCHANGED <<authVars, credVars, syncUser, mutationQueue, callbacks, onServer,
                   sentAs, mainQueue, tokenRequests, workQueue, owner, answered, faults,
                   restarts>>

-----------------------------------------------------------------------------
(* Tokens: GetToken on the worker queue, FIRAuth on its own, and back      *)
(* through the main queue.                                                 *)

(* FIRAuth looks at its user; without one it answers at once. *)
ReadToken(t) ==
    /\ t.user = Unread
    /\ IF authUser = Nobody
       THEN /\ tokenRequests' = tokenRequests \ {t}
            /\ mainQueue' = Append(mainQueue, TokenBlock([t EXCEPT !.user = Nobody]))
       ELSE /\ tokenRequests' = (tokenRequests \ {t}) \cup {[t EXCEPT !.user = authUser]}
            /\ UNCHANGED mainQueue
    /\ UNCHANGED <<authVars, credVars, sdkVars, workQueue, owner, answered, faults, restarts>>

(* The token is there, from the cache or refreshed over the network. *)
PostToken(t) ==
    /\ t.user # Unread
    /\ tokenRequests' = tokenRequests \ {t}
    /\ mainQueue' = Append(mainQueue, TokenBlock(t))
    /\ UNCHANGED <<authVars, credVars, sdkVars, workQueue, owner, answered, faults, restarts>>

(* The callback of GetToken: a change of user since then aborts it. *)
TokenReceived(t) ==
    /\ workQueue' = Append(workQueue, [kind |-> "token", ok |-> t.counter = tokenCounter,
                                       closes |-> t.closes, user |-> t.user])
    /\ UNCHANGED <<credVars, answered>>

UserNotified(u) ==
    /\ credUser' = u
    /\ tokenCounter' = tokenCounter + 1
    /\ workQueue' = Append(workQueue, [kind |-> "user", user |-> u])
    /\ UNCHANGED answered

-----------------------------------------------------------------------------
(* The worker queue of Firestore.                                          *)

(* Stream::Stop leaves a stream alone that is not running. *)
Stopped == IF stream.state \in Started THEN "initial" ELSE stream.state

(* SyncEngine::WriteMutations *)
WriteMutations(w) ==
    /\ mutationQueue' = [mutationQueue EXCEPT ![syncUser] = Append(@, w)]
    /\ callbacks' = callbacks \cup {w}
    /\ FillWritePipeline(Append(Pipeline, w), stream.state, stream.closes, tokenCounter)
    /\ UNCHANGED <<syncUser, onServer, sentAs>>

(* Mutant: Stop() does not count. *)
HandleCredentialChangeUncounted(u) ==
    /\ syncUser' = u /\ onServer' = 0
    /\ FillWritePipeline(mutationQueue[u], Stopped, stream.closes, tokenCounter)
    /\ UNCHANGED <<mutationQueue, callbacks, sentAs>>

(* Mutant: the streams go on. *)
HandleCredentialChangeUnstopped(u) ==
    /\ syncUser' = u /\ onServer' = 0
    /\ FillWritePipeline(mutationQueue[u], stream.state, stream.closes, tokenCounter)
    /\ UNCHANGED <<mutationQueue, callbacks, sentAs>>

(* Mutant: the network is enabled without filling the pipeline again. *)
HandleCredentialChangeUnfilled(u) ==
    /\ syncUser' = u /\ onServer' = 0
    /\ FillWritePipeline(<< >>, Stopped, stream.closes + 1, tokenCounter)
    /\ UNCHANGED <<mutationQueue, callbacks, sentAs>>

(* SyncEngine and RemoteStore: the mutation queue is swapped, the stream   *)
(* stopped, and started again for what the new user has pending.           *)
HandleCredentialChange(u) ==
    /\ syncUser' = u /\ onServer' = 0
    /\ FillWritePipeline(mutationQueue[u], Stopped,
          IF stream.state \in Started THEN stream.closes + 1 ELSE stream.closes, tokenCounter)
    /\ UNCHANGED <<mutationQueue, callbacks, sentAs>>

(* The task of Stream::RequestCredentials, and ResumeStartWithCredentials *)
ResumeStart(task) ==
    /\ IF task.closes # stream.closes
       THEN UNCHANGED <<stream, tokenRequests>>
       ELSE IF task.ok
       THEN /\ stream' = [stream EXCEPT !.state = "open", !.user = task.user]
            /\ UNCHANGED tokenRequests
       ELSE FillWritePipeline(Pipeline, "error", stream.closes + 1, tokenCounter)
    /\ UNCHANGED <<syncUser, mutationQueue, callbacks, onServer, sentAs>>

RunTask ==
    /\ workQueue # << >>
    /\ workQueue' = Tail(workQueue)
    /\ LET task == Head(workQueue) IN
          \/ task.kind = "write" /\ WriteMutations(task.write)
          \/ task.kind = "user"  /\ HandleCredentialChange(task.user)
          \/ task.kind = "token" /\ ResumeStart(task)
    /\ UNCHANGED <<authVars, credVars, mainQueue, owner, answered, faults, restarts>>

-----------------------------------------------------------------------------
(* Users, writes and the main queue.                                       *)

(* FIRAuth signs a user in, in place of the one before or of nobody, or    *)
(* out: updateCurrentUser posts a notification with the new user.          *)
UpdateCurrentUser(u) ==
    /\ changes < MaxChanges
    /\ changes' = changes + 1
    /\ u = Nobody => authUser # Nobody
    /\ authUser' = u
    /\ mainQueue' = Append(mainQueue, Notification(u))
    /\ UNCHANGED <<credVars, sdkVars, tokenRequests, workQueue, owner, answered, faults,
                   restarts>>

(* updateData, on the main thread *)
MakeWrite(w) ==
    /\ owner[w] = Unread
    /\ owner' = [owner EXCEPT ![w] = credUser]
    /\ workQueue' = Append(workQueue, [kind |-> "write", write |-> w])
    /\ UNCHANGED <<authVars, credVars, sdkVars, mainQueue, tokenRequests, answered, faults,
                   restarts>>

RunBlock ==
    /\ mainQueue # << >>
    /\ mainQueue' = Tail(mainQueue)
    /\ LET block == Head(mainQueue) IN
          \/ block.kind = "notification" /\ UserNotified(block.user)
          \/ block.kind = "token" /\ TokenReceived(block.token)
          \/ /\ block.kind = "answer"
             /\ answered' = [answered EXCEPT ![block.write] = @ + 1]
             /\ UNCHANGED <<credVars, workQueue>>
    /\ UNCHANGED <<authVars, sdkVars, tokenRequests, owner, faults, restarts>>

(* Firestore asks FIRAuth for its user once, when it starts; whether that  *)
(* is before or after FIRAuth has restored it from the keychain is open,   *)
(* and FIRAuth notifies of it in both cases.                               *)
LaunchUsers == {Nobody, authUser}

LaunchNotifications ==
    IF authUser = Nobody THEN << >> ELSE <<Notification(authUser)>>

(* The app is killed and started again: only FIRAuth's user and the        *)
(* mutation queues are on disk.                                            *)
Restart ==
    /\ faults + restarts < MaxFaults
    /\ restarts' = restarts + 1
    /\ mainQueue' = LaunchNotifications /\ workQueue' = << >>
    /\ tokenCounter' = 0
    /\ callbacks' = {} /\ onServer' = 0
    /\ \E u \in LaunchUsers :
          /\ credUser' = u /\ syncUser' = u
          /\ LET writes == mutationQueue[u] IN
             /\ stream' = [state |-> IF writes = << >> THEN "initial" ELSE "starting",
                           closes |-> 0, user |-> Nobody]
             /\ tokenRequests' = IF writes = << >> THEN {}
                                 ELSE {[counter |-> 0, closes |-> 0, user |-> Unread]}
    /\ UNCHANGED <<authVars, mutationQueue, sentAs, owner, answered, faults>>

Init ==
    /\ authUser \in Users
    /\ mainQueue = LaunchNotifications /\ workQueue = << >>
    /\ credUser \in LaunchUsers /\ syncUser = credUser /\ tokenCounter = 0
    /\ mutationQueue = [u \in Users |-> << >>]
    /\ callbacks = {} /\ onServer = 0 /\ tokenRequests = {}
    /\ stream = [state |-> "initial", closes |-> 0, user |-> Nobody]
    /\ owner = [w \in Writes |-> Unread] /\ sentAs = [w \in Writes |-> {}]
    /\ answered = [w \in Writes |-> 0]
    /\ changes = 0 /\ faults = 0 /\ restarts = 0

(* What the SDK and the server do by themselves *)
Network ==
    \/ ServerAppliesWrite \/ WriteAcknowledged \/ BackoffElapsed
    \/ \E t \in tokenRequests : ReadToken(t) \/ PostToken(t)

Next ==
    \/ Network \/ RunBlock \/ RunTask
    \/ \E u \in Users : UpdateCurrentUser(u)
    \/ \E w \in Writes : MakeWrite(w)
    \/ WriteRejected \/ WriteStreamBreaks \/ IdleTimeout
    \/ Restart

Spec == Init /\ [][Next]_vars

(* The two queues are served, tokens arrive, and the network is up often   *)
(* enough.                                                                 *)
FairSpec == Spec /\ WF_vars(RunBlock) /\ WF_vars(RunTask) /\ WF_vars(Network)

-----------------------------------------------------------------------------
(* Properties.                                                             *)

(* An open stream carries the token of the user whose writes it sends: the *)
(* token counter (firebase_credentials_provider_apple.mm:83-96) and the    *)
(* close count (stream.cc:103-120) sort out the tokens that were on their  *)
(* way while users changed.                                                *)
StreamActsForItsUser == IsOpen => stream.user = syncUser

(* A write reaches the server only under the user who was signed in, as    *)
(* far as the app had been notified, when it was made, whoever logs in or  *)
(* out before it is sent (sync_engine.cc:159-170, remote_store.cc:527).    *)
WritesGoOutUnderTheirUser == \A w \in Writes : sentAs[w] \subseteq {owner[w]}

(* HARD_ASSERT in ResumeStartWithCredentials (stream.cc:125): a token with *)
(* the current close count finds the stream waiting for it.                *)
TokensAreAwaited ==
    workQueue # << >> /\ Head(workQueue).kind = "token" /\ Head(workQueue).closes = stream.closes
        => stream.state = "starting"

(* The handler of a write runs once its user stays signed in, or comes     *)
(* back for good; only a restart forgets it.  While another user is signed *)
(* in it has to wait (sync_engine.cc:379-395).                             *)
HandlersWaitForTheirUser ==
    \A u \in Users :
        <>[](authUser = u) =>
            \A w \in Writes : owner[w] = u ~> answered[w] = 1 \/ restarts > 0
=============================================================================
