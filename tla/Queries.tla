------------------------------ MODULE Queries ------------------------------
(***************************************************************************)
(* How Firestore answers getDocuments: the listeners of the one query that *)
(* getDevices makes, the watch stream, and the online state, which decides *)
(* when the cache has to do.                                               *)
(*                                                                         *)
(* getDocuments adds a listener that removes itself at its first event.    *)
(* Listeners are added and removed on the worker queue of Firestore, their *)
(* events run on the main queue; the calls of one query share one target.  *)
(* The target keeps its number when it is given up and taken again, so     *)
(* that messages for the former listener may still arrive for the next,    *)
(* also the one that says that the server rejects the target.              *)
(*                                                                         *)
(* Documents are a version number: how many changes of the cloud they show.*)
(***************************************************************************)
EXTENDS Integers, SequencesExt

CONSTANTS
    MaxCalls,    \* bound: calls of getDocuments
    MaxChanges,  \* bound: changes of the documents in the cloud
    MaxBreaks    \* bound: failures of the watch stream, rejected targets, and
                 \* changes of the user, which stop the stream

ASSUME QueriesBounds == {MaxCalls, MaxChanges, MaxBreaks} \subseteq Nat

VARIABLES
    calls,       \* how many calls were made
    askedAt,     \* history: the version of the cloud when each was made
    answers,     \* how often the handler of each has run
    workQueue,   \* listeners to add or remove, on the worker queue
    mainQueue,   \* events of listeners on the main queue
    muted,       \* listeners that let no further event through
    listeners,   \* the listeners of the query
    raised,      \* those that have raised their first event
    joined,      \* history: calls that found the query listened to
    misled,      \* history: calls told by a stream on which a rejection crossed
    view,        \* the view of the query
    cache,       \* version of the documents in the local cache
    cloud,       \* version of the documents at the server
    stream,      \* state_ of the watch stream
    idle,        \* idleness_timer_ is running
    toServer, fromServer, \* messages on the stream
    served,      \* what the server does with the target
    target,      \* TargetState of the aggregator, with the documents collected
    tracker,     \* OnlineStateTracker
    inherited,   \* history: the listen found an attempt made for another one
    crossed,     \* history: a rejection crossed requests on this stream
    failed,      \* a HARD_ASSERT has failed
    breaks

callVars   == <<calls, askedAt, answers>>
queueVars  == <<workQueue, mainQueue, muted>>
listenVars == <<listeners, raised, joined, misled, view>>
streamVars == <<stream, idle, toServer, fromServer, served, target, crossed>>
vars == <<callVars, queueVars, listenVars, cache, cloud, streamVars, tracker, inherited,
          failed, breaks>>

Calls    == 1 .. MaxCalls
Versions == 0 .. MaxChanges

Task    == [do : {"add", "remove"}, call : Calls]
Event   == [call : Calls, result : {"synced", "cached", "error"}, version : Versions]
View    == [current : BOOLEAN, version : Versions]
Target  == [known : BOOLEAN, pending : Int, current : BOOLEAN, changed : BOOLEAN,
            documents : Versions]
Served  == [phase : {"none", "added", "current"}, version : Versions]
Tracker == [state : {"Unknown", "Online", "Offline"}, failures : 0 .. MaxBreaks,
            timer : BOOLEAN]

NoView    == [current |-> FALSE, version |-> 0]
NotServed == [phase |-> "none", version |-> 0]

(* A target without an entry in target_states_, and the entry it gets *)
NewTarget == [known |-> FALSE, pending |-> 0, current |-> FALSE, changed |-> TRUE,
              documents |-> 0]
Ensured(t) == [t EXCEPT !.known = TRUE]

(* RemoveTarget erases the entry; documents that were collected stay. *)
Erased(t) == [NewTarget EXCEPT !.documents = t.documents]

RecordPendingTargetRequest(t) == [Ensured(t) EXCEPT !.pending = @ + 1]

(* No handler runs twice. *)
TypeOK ==
    /\ calls \in 0 .. MaxCalls
    /\ askedAt \in [Calls -> Versions] /\ answers \in [Calls -> 0 .. 1]
    /\ workQueue \in Seq(Task) /\ mainQueue \in Seq(Event)
    /\ muted \subseteq 1 .. calls /\ {joined, misled} \subseteq SUBSET (1 .. calls)
    /\ listeners \subseteq 1 .. calls /\ raised \subseteq listeners
    /\ view \in View /\ cache \in Versions /\ cloud \in Versions
    /\ stream \in {"Initial", "Starting", "Backoff", "Open", "Error"}
    /\ {idle, inherited, crossed, failed} \subseteq BOOLEAN
    /\ toServer \in Seq({"watch", "unwatch"})
    /\ served \in Served
    /\ target \in Target
    /\ tracker \in Tracker
    /\ breaks \in 0 .. MaxBreaks

IsListening == listeners # {}
IsOpen      == stream = "Open"
IsStarted   == stream \in {"Starting", "Backoff", "Open"}

(* Listeners lie in the order in which they were added. *)
InOrder(set) ==
    CHOOSE order \in SetToSeqs(set) : \A i, j \in DOMAIN order : i <= j => order[i] <= order[j]

(* One event for each listener of a set *)
Events(set, result, version) ==
    [i \in DOMAIN InOrder(set) |->
        [call |-> InOrder(set)[i], result |-> result, version |-> version]]

Init ==
    /\ calls = 0 /\ askedAt = [c \in Calls |-> 0] /\ answers = [c \in Calls |-> 0]
    /\ workQueue = << >> /\ mainQueue = << >> /\ muted = {}
    /\ listeners = {} /\ raised = {} /\ joined = {} /\ misled = {} /\ view = NoView
    /\ cloud = 0 /\ cache = 0
    /\ stream = "Initial" /\ idle = FALSE /\ toServer = << >> /\ fromServer = << >>
    /\ served = NotServed /\ target = NewTarget
    /\ tracker = [state |-> "Unknown", failures |-> 0, timer |-> FALSE]
    /\ inherited = FALSE /\ crossed = FALSE /\ failed = FALSE
    /\ breaks = 0

-----------------------------------------------------------------------------
(* OnlineStateTracker: what its handlers make of the tracker.              *)

UpdateState(state) == [state |-> state, failures |-> 0, timer |-> FALSE]

(* Mutant: the timer is forgotten. *)
HandleWatchStreamStartUntimed(t) ==
    IF t.failures # 0 THEN t
    ELSE [state |-> "Unknown", failures |-> 0, timer |-> FALSE]

HandleWatchStreamStart(t) ==
    IF t.failures # 0 THEN t
    ELSE [state |-> "Unknown", failures |-> 0, timer |-> TRUE]

HandleWatchStreamFailure(t) ==
    IF t.state = "Online" THEN [t EXCEPT !.state = "Unknown"]
    ELSE [state |-> "Offline", failures |-> t.failures + 1, timer |-> FALSE]

(* The HARD_ASSERTs of the two: no timer may be running yet. *)
StartAsserts(t)   == t.failures = 0 => ~ t.timer
FailureAsserts(t) == t.state = "Online" => t.failures = 0 /\ ~ t.timer

(* SyncEngine and EventManager hear of the state; only Offline has an      *)
(* effect: the view is no longer current, and who still waits gets it.     *)
Broadcast(t) ==
    /\ tracker' = t
    /\ IF t.state = "Offline" /\ tracker.state # "Offline"
       THEN /\ view' = [view EXCEPT !.current = FALSE]
            /\ raised' = listeners
            /\ mainQueue' = mainQueue \o
                 Events(IF view.current THEN listeners ELSE listeners \ raised,
                        "cached", view.version)
       ELSE UNCHANGED <<view, raised, mainQueue>>

-----------------------------------------------------------------------------
(* The calls, on the main queue.                                           *)

GetDocuments ==
    /\ calls < MaxCalls
    /\ calls' = calls + 1
    /\ askedAt' = [askedAt EXCEPT ![calls'] = cloud]
    /\ workQueue' = Append(workQueue, [do |-> "add", call |-> calls'])
    /\ UNCHANGED <<answers, mainQueue, muted, listenVars, cache, cloud, streamVars,
                   tracker, inherited, failed, breaks>>

(* Mutant: the listener is removed, but not muted. *)
OnEventUnmuted(c, result) ==
    /\ answers' = [answers EXCEPT ![c] = @ + 1]
    /\ IF result = "error" THEN UNCHANGED workQueue
       ELSE workQueue' = Append(workQueue, [do |-> "remove", call |-> c])
    /\ UNCHANGED muted

(* ListenOnce: the listener is muted and its removal asked for, unless an  *)
(* error has removed it already; then the handler runs.                    *)
OnEvent(c, result) ==
    /\ answers' = [answers EXCEPT ![c] = @ + 1]
    /\ IF result = "error" THEN UNCHANGED <<muted, workQueue>>
       ELSE /\ muted' = muted \cup {c}
            /\ workQueue' = Append(workQueue, [do |-> "remove", call |-> c])

RunEvent ==
    /\ mainQueue # << >>
    /\ LET event == Head(mainQueue) IN
       IF event.call \in muted THEN UNCHANGED <<answers, muted, workQueue>>
       ELSE OnEvent(event.call, event.result)
    /\ mainQueue' = Tail(mainQueue)
    /\ UNCHANGED <<calls, askedAt, listenVars, cache, cloud, streamVars, tracker,
                   inherited, failed, breaks>>

-----------------------------------------------------------------------------
(* The worker queue: EventManager, SyncEngine and RemoteStore.             *)

(* A listener of a query that is listened to gets its view at once if it   *)
(* is synchronised or Firestore is offline.                                *)
JoinQuery(c) ==
    /\ joined' = joined \cup {c}
    /\ listeners' = listeners \cup {c}
    /\ IF view.current \/ tracker.state = "Offline"
       THEN /\ raised' = raised \cup {c}
            /\ mainQueue' = mainQueue \o
                 Events({c}, IF view.current THEN "synced" ELSE "cached", view.version)
       ELSE UNCHANGED <<raised, mainQueue>>
    /\ UNCHANGED <<misled, view, streamVars, tracker, inherited, failed>>

(* Mutant: the request does not stop the idleness timer. *)
SendWatchRequestIdling ==
    /\ toServer' = Append(toServer, "watch")
    /\ target' = RecordPendingTargetRequest(target)
    /\ UNCHANGED idle

(* RecordPendingTargetRequest, and Write stops the idleness timer. *)
SendWatchRequest ==
    /\ toServer' = Append(toServer, "watch")
    /\ target' = RecordPendingTargetRequest(target)
    /\ idle' = FALSE

(* Start() of a stream that has failed waits first. *)
StartedStream(state) == IF state = "Error" THEN "Backoff" ELSE "Starting"

(* The first listener: a view from the cache, then RemoteStore::Listen. *)
Listen(c) ==
    /\ listeners' = {c}
    /\ view' = [current |-> FALSE, version |-> cache]
    /\ IF tracker.state = "Offline"
       THEN raised' = {c} /\ mainQueue' = mainQueue \o Events({c}, "cached", cache)
       ELSE raised' = {} /\ UNCHANGED mainQueue
    /\ IF ~ IsStarted
       THEN /\ stream' = StartedStream(stream)
            /\ target' = NewTarget
            /\ tracker' = HandleWatchStreamStart(tracker)
            /\ failed' = (failed \/ ~ StartAsserts(tracker))
            /\ UNCHANGED <<idle, toServer, inherited>>
       ELSE IF IsOpen
       THEN SendWatchRequest /\ UNCHANGED <<stream, tracker, inherited, failed>>
       ELSE /\ inherited' = TRUE
            /\ UNCHANGED <<stream, idle, toServer, target, tracker, failed>>
    /\ UNCHANGED <<joined, misled, fromServer, served, crossed>>

AddQueryListener(c) == IF IsListening THEN JoinQuery(c) ELSE Listen(c)

(* SendUnwatchRequest and MarkIdle; without an open stream nothing is      *)
(* known of the connection any more.                                       *)
StopListening ==
    /\ IF IsOpen
       THEN /\ toServer' = Append(toServer, "unwatch")
            /\ target' = RecordPendingTargetRequest(target)
            /\ idle' = TRUE
            /\ UNCHANGED tracker
       ELSE /\ tracker' = UpdateState("Unknown")
            /\ UNCHANGED <<toServer, target, idle>>
    /\ view' = NoView

RemoveQueryListener(c) ==
    /\ listeners' = listeners \ {c} /\ raised' = raised \ {c}
    /\ IF listeners = {c}
       THEN StopListening /\ inherited' = FALSE
       ELSE UNCHANGED <<toServer, target, idle, tracker, view, inherited>>
    /\ UNCHANGED <<joined, misled, mainQueue, stream, fromServer, served, crossed, failed>>

RunTask ==
    /\ workQueue # << >>
    /\ LET task == Head(workQueue) IN
       \/ task.do = "add" /\ AddQueryListener(task.call)
       \/ task.do = "remove" /\ RemoveQueryListener(task.call)
    /\ workQueue' = Tail(workQueue)
    /\ UNCHANGED <<callVars, muted, cache, cloud, breaks>>

OnlineTimeout ==
    /\ tracker.timer
    /\ failed' = (failed \/ tracker.state # "Unknown")
    /\ Broadcast([tracker EXCEPT !.state = "Offline", !.timer = FALSE])
    /\ UNCHANGED <<callVars, workQueue, muted, listeners, joined, misled, cache, cloud,
                   streamVars, inherited, breaks>>

-----------------------------------------------------------------------------
(* The watch stream.                                                       *)

OnlyStream ==
    UNCHANGED <<callVars, workQueue, muted, listeners, joined, misled, cache, cloud>>

(* OnWatchStreamOpen sends the target. *)
StreamOpens ==
    /\ stream = "Starting"
    /\ stream' = "Open"
    /\ IF IsListening THEN SendWatchRequest ELSE UNCHANGED <<toServer, target, idle>>
    /\ inherited' = FALSE
    /\ UNCHANGED <<fromServer, served, crossed, view, raised, mainQueue, tracker, failed, breaks>>
    /\ OnlyStream

BackoffElapses ==
    /\ stream = "Backoff"
    /\ stream' = "Starting"
    /\ UNCHANGED <<idle, toServer, fromServer, served, target, crossed, view, raised, mainQueue,
                   tracker, inherited, failed, breaks>>
    /\ OnlyStream

(* Close(): nothing that was on the stream arrives any more. *)
Disconnected ==
    /\ idle' = FALSE /\ toServer' = << >> /\ fromServer' = << >>
    /\ served' = NotServed /\ target' = NewTarget
    /\ inherited' = FALSE /\ crossed' = FALSE

(* OnStreamFinish with an error: a stream that is needed starts again. *)
StreamFails ==
    /\ stream \in {"Starting", "Open"}
    /\ breaks < MaxBreaks
    /\ breaks' = breaks + 1
    /\ Disconnected
    /\ IF IsListening
       THEN LET t == HandleWatchStreamFailure(tracker) IN
            /\ stream' = "Backoff"
            /\ Broadcast(HandleWatchStreamStart(t))
            /\ failed' = (failed \/ ~ FailureAsserts(tracker) \/ ~ StartAsserts(t))
       ELSE /\ stream' = "Error"
            /\ Broadcast(UpdateState("Unknown"))
            /\ UNCHANGED failed
    /\ OnlyStream

(* "Watch stream was stopped gracefully while still needed." *)
IdleTimeout ==
    /\ idle
    /\ stream' = "Initial"
    /\ Disconnected
    /\ failed' = (failed \/ IsListening)
    /\ Broadcast(UpdateState("Unknown"))
    /\ UNCHANGED breaks
    /\ OnlyStream

(* RemoteStore::HandleCredentialChange: the stream is stopped, whatever it *)
(* was doing, and started again if it is needed.                           *)
HandleCredentialChange ==
    /\ breaks < MaxBreaks
    /\ breaks' = breaks + 1
    /\ Disconnected
    /\ LET stopped == IF IsStarted THEN "Initial" ELSE stream IN
       IF IsListening
       THEN /\ stream' = StartedStream(stopped)
            /\ Broadcast(HandleWatchStreamStart(UpdateState("Unknown")))
       ELSE /\ stream' = stopped
            /\ Broadcast(UpdateState("Unknown"))
    /\ UNCHANGED <<callVars, workQueue, muted, listeners, joined, misled, cache, cloud, failed>>

-----------------------------------------------------------------------------
(* The messages.                                                           *)

(* A message marks Firestore online before it is looked at. *)
Received ==
    /\ IsOpen /\ fromServer # << >>
    /\ fromServer' = Tail(fromServer)
    /\ tracker' = UpdateState("Online")
    /\ UNCHANGED <<callVars, workQueue, muted, joined, cloud, stream, idle, toServer, served,
                   inherited, failed, breaks>>

(* Mutant: answers to requests are not awaited. *)
IsActiveTargetAtOnce == IsListening

(* QueryDataForActiveTarget: not while answers to requests are due *)
IsActiveTarget == IsListening /\ target.pending = 0

(* The acks are counted, whether the target is listened to or not. *)
HandleTargetChange ==
    /\ Received
    /\ LET state == Ensured(target)
           left  == target.pending - 1 IN
       \/ /\ Head(fromServer).kind = "added"
          /\ target' = [state EXCEPT !.pending = left,
                                     !.changed = IF left = 0 THEN FALSE ELSE @]
       \/ /\ Head(fromServer).kind = "removed"
          /\ target' = IF left = 0 THEN Erased(target) ELSE [state EXCEPT !.pending = left]
       \/ /\ Head(fromServer).kind = "current"
          /\ target' = IF IsActiveTarget THEN [state EXCEPT !.current = TRUE, !.changed = TRUE]
                       ELSE state
    /\ UNCHANGED <<listeners, raised, misled, view, mainQueue, cache, crossed>>

HandleDocumentChange ==
    /\ Received
    /\ Head(fromServer).kind = "documents"
    /\ target' = IF IsActiveTarget
                 THEN [Ensured(target) EXCEPT !.documents = Head(fromServer).version,
                                              !.changed = TRUE]
                 ELSE target
    /\ UNCHANGED <<listeners, raised, misled, view, mainQueue, cache, crossed>>

(* CreateRemoteEvent and ApplyRemoteEvent: the documents that were         *)
(* collected go to the cache, and the view gets them; its listeners hear   *)
(* of it the first time when it is synchronised, then of every change.     *)
RaiseWatchSnapshot ==
    /\ Received
    /\ Head(fromServer).kind = "snapshot"
    /\ cache' = IF target.documents > cache THEN target.documents ELSE cache
    /\ LET isReported == IsActiveTarget /\ target.known /\ target.changed
           current    == IF isReported THEN target.current ELSE view.current
           after      == [current |-> current, version |-> cache']
           told       == IF after = view THEN {} ELSE IF current THEN listeners ELSE raised IN
       /\ target' = IF isReported THEN [target EXCEPT !.changed = FALSE] ELSE target
       /\ IF IsListening
          THEN /\ view' = after
               /\ raised' = raised \cup told
               /\ mainQueue' = mainQueue \o
                    Events(told, IF current THEN "synced" ELSE "cached", cache')
               /\ misled' = IF crossed THEN misled \cup told ELSE misled
          ELSE UNCHANGED <<view, raised, mainQueue, misled>>
    /\ UNCHANGED <<listeners, crossed>>

(* Answers to requests among messages *)
HasAnswers(messages) ==
    \E i \in DOMAIN messages : messages[i].kind \in {"added", "removed"}

(* ProcessTargetError: whoever listens now hears of the error and is gone, *)
(* with the count of answers that are due; requests may be under way.      *)
ProcessTargetError ==
    /\ Received
    /\ Head(fromServer).kind = "rejected"
    /\ IF IsListening
       THEN /\ target' = Erased(target)
            /\ mainQueue' = mainQueue \o Events(listeners, "error", 0)
            /\ listeners' = {} /\ raised' = {} /\ view' = NoView
       ELSE UNCHANGED <<target, mainQueue, listeners, raised, view>>
    /\ crossed' = (crossed \/ ~ IsListening \/ toServer # << >> \/ HasAnswers(Tail(fromServer)))
    /\ UNCHANGED <<misled, cache>>

-----------------------------------------------------------------------------
(* The server: it answers requests in order, sends the documents of a new  *)
(* target and calls it current, and goes on with changes.  It sends a      *)
(* snapshot only when all of the target has been sent.  It may reject a    *)
(* target when it is asked for, or at any time later.                      *)

OnlyServer ==
    UNCHANGED <<callVars, queueVars, listenVars, cache, stream, idle, target, tracker,
                inherited, crossed, failed>>

CloudChanges ==
    /\ cloud < MaxChanges
    /\ cloud' = cloud + 1
    /\ UNCHANGED <<toServer, fromServer, served, breaks>> /\ OnlyServer

Reject ==
    /\ breaks < MaxBreaks
    /\ breaks' = breaks + 1
    /\ fromServer' = Append(fromServer, [kind |-> "rejected"])
    /\ served' = NotServed

(* A request to remove a target that was rejected may go unanswered. *)
ServerReceives ==
    /\ IsOpen /\ toServer # << >>
    /\ \/ /\ Head(toServer) = "watch"
          /\ fromServer' = Append(fromServer, [kind |-> "added"])
          /\ served' = [NotServed EXCEPT !.phase = "added"]
          /\ UNCHANGED breaks
       \/ Head(toServer) = "watch" /\ Reject
       \/ /\ Head(toServer) = "unwatch"
          /\ \/ fromServer' = Append(fromServer, [kind |-> "removed"])
             \/ served.phase = "none" /\ UNCHANGED fromServer
          /\ served' = NotServed
          /\ UNCHANGED breaks
    /\ toServer' = Tail(toServer)
    /\ UNCHANGED cloud /\ OnlyServer

ServerSends ==
    /\ IsOpen /\ served.phase # "none" /\ served # [phase |-> "current", version |-> cloud]
    /\ fromServer' = fromServer
         \o <<[kind |-> "documents", version |-> cloud]>>
         \o (IF served.phase = "added" THEN <<[kind |-> "current"]>> ELSE << >>)
         \o <<[kind |-> "snapshot"]>>
    /\ served' = [phase |-> "current", version |-> cloud]
    /\ UNCHANGED <<cloud, toServer, breaks>> /\ OnlyServer

ServerRejects ==
    /\ IsOpen /\ served.phase # "none"
    /\ Reject
    /\ UNCHANGED <<cloud, toServer>> /\ OnlyServer

Exchange ==
    \/ HandleTargetChange \/ HandleDocumentChange \/ RaiseWatchSnapshot
    \/ ProcessTargetError
    \/ ServerReceives \/ ServerSends

Next ==
    \/ GetDocuments \/ RunEvent \/ RunTask
    \/ OnlineTimeout
    \/ StreamOpens \/ BackoffElapses \/ StreamFails \/ IdleTimeout
    \/ HandleCredentialChange
    \/ Exchange
    \/ ServerRejects
    \/ CloudChanges

Spec == Init /\ [][Next]_vars

(* Queues and timers run, and what is sent on an open stream arrives and   *)
(* is dealt with unless the stream breaks.  An attempt to open one may     *)
(* take for ever, and no target need be rejected.                          *)
FairSpec ==
    /\ Spec
    /\ WF_vars(RunEvent) /\ WF_vars(RunTask)
    /\ WF_vars(OnlineTimeout) /\ WF_vars(BackoffElapses)
    /\ WF_vars(Exchange)

-----------------------------------------------------------------------------
(* Properties.                                                             *)

(* None of the assertions of online_state_tracker.cc:62, :68 and :88-90    *)
(* and of remote_store.cc:214 fails, however listeners come and go while   *)
(* the stream is opened, breaks, idles or is stopped for another user.     *)
NoAssertionFails == ~ failed

(* What is given as synchronised shows all that the cloud had when it was  *)
(* asked for: messages for the listener before, with the same target       *)
(* number, are not taken for answers (remote_event.cc:142-176).  A call    *)
(* that joins the listener of another may get what that one has got; and   *)
(* when a rejection has crossed requests, the count of answers that are    *)
(* due is wrong for as long as the stream lasts (remote_store.cc:339).     *)
AnswersAreFresh ==
    \A i \in DOMAIN mainQueue :
        LET event == mainQueue[i] IN
        event.result = "synced" /\ event.call \notin joined \cup misled =>
            event.version >= askedAt[event.call]

(* "We only consider targets active that have no outstanding responses"    *)
(* (remote_event.h:199): no request and no answer is under way then.       *)
ActiveTargetsAreAnswered ==
    IsActiveTarget /\ IsOpen => toServer = << >> /\ ~ HasAnswers(fromServer)

(* Every getDocuments is answered, by the server, with an error, or from   *)
(* the cache after a failure or ten seconds, with two exceptions.  A query *)
(* that is made while an attempt to connect is under way that was made for *)
(* a query before gets no timer of its own (remote_store.cc:141,           *)
(* online_state_tracker.cc:44-46), and waits as long as that attempt       *)
(* takes.  A query on a stream on which a rejection has crossed requests   *)
(* may wait as long as the stream lasts: its answers stay pending.         *)
EveryQueryIsAnswered ==
    \/ <>[](inherited /\ stream = "Starting")
    \/ <>[](crossed /\ IsListening)
    \/ \A c \in Calls : calls >= c ~> answers[c] = 1
=============================================================================
