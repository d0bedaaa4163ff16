--------------------------- MODULE Queries_proofs ---------------------------
(***************************************************************************)
(* getDocuments, for any number of calls, changes, failures, rejections    *)
(* and users: no handler runs twice, no assertion of the SDK fails, and    *)
(* what is called synchronised is not older than the call, unless a        *)
(* rejection has crossed requests on the stream that told it.              *)
(***************************************************************************)
EXTENDS Queries, FiniteSetTheorems, SequenceTheorems, TLAPS

-----------------------------------------------------------------------------
(* Sequences, and sets in their order.                                     *)

LEMMA AppendedElements ==
    ASSUME NEW S, NEW q \in Seq(S), NEW e \in S
    PROVE  /\ Append(q, e) \in Seq(S) /\ Len(Append(q, e)) = Len(q) + 1 /\ Len(q) \in Nat
           /\ DOMAIN q = 1 .. Len(q) /\ DOMAIN Append(q, e) = 1 .. Len(q) + 1
           /\ \A i \in 1 .. Len(q) : Append(q, e)[i] = q[i]
           /\ Append(q, e)[Len(q) + 1] = e
  OBVIOUS

LEMMA TailElements ==
    ASSUME NEW S, NEW q \in Seq(S), q # << >>
    PROVE  /\ Head(q) \in S /\ Tail(q) \in Seq(S) /\ Head(q) = q[1] /\ 1 \in DOMAIN q
           /\ Len(q) \in Nat \ {0} /\ Len(Tail(q)) = Len(q) - 1
           /\ DOMAIN q = 1 .. Len(q) /\ DOMAIN Tail(q) = 1 .. Len(q) - 1
           /\ \A i \in 1 .. Len(q) - 1 : Tail(q)[i] = q[i + 1]
           /\ \A i \in 2 .. Len(q) : q[i] = Tail(q)[i - 1]
  OBVIOUS

LEMMA ConcatElements ==
    ASSUME NEW S, NEW a \in Seq(S), NEW b \in Seq(S)
    PROVE  /\ a \o b \in Seq(S) /\ Len(a) \in Nat /\ Len(b) \in Nat
           /\ DOMAIN a = 1 .. Len(a) /\ DOMAIN b = 1 .. Len(b)
           /\ DOMAIN (a \o b) = 1 .. Len(a) + Len(b)
           /\ \A i \in DOMAIN a : i \in DOMAIN (a \o b) /\ (a \o b)[i] = a[i]
           /\ \A i \in DOMAIN (a \o b) : \/ i \in DOMAIN a /\ (a \o b)[i] = a[i]
                                         \/ /\ i \notin DOMAIN a /\ i - Len(a) \in DOMAIN b
                                            /\ (a \o b)[i] = b[i - Len(a)]
  OBVIOUS

(* The calls of a set have an order: each has its place by the number of   *)
(* those up to it.                                                         *)
LEMMA OrderExists ==
    ASSUME NEW S \in SUBSET Nat, IsFiniteSet(S)
    PROVE  /\ InOrder(S) \in [1 .. Cardinality(S) -> S] /\ Cardinality(S) \in Nat
           /\ \A i, j \in 1 .. Cardinality(S) : i # j => InOrder(S)[i] # InOrder(S)[j]
<1> DEFINE n == Cardinality(S)
           UpTo(x) == {y \in S : y <= x}
           place == [x \in S |-> Cardinality(UpTo(x))]
           order == [i \in 1 .. n |-> CHOOSE x \in S : place[x] = i]
<1>1. n \in Nat
  BY FS_CardinalityType
<1>2. ASSUME NEW x \in S
      PROVE  place[x] \in 1 .. n
  <2>1. UpTo(x) \in SUBSET S /\ x \in UpTo(x)
    OBVIOUS
  <2>2. IsFiniteSet(UpTo(x)) /\ Cardinality(UpTo(x)) <= n /\ Cardinality(UpTo(x)) \in Nat
    BY <2>1, FS_Subset, FS_CardinalityType
  <2>3. Cardinality(UpTo(x)) # 0
    BY <2>1, <2>2, FS_EmptySet
  <2> HIDE DEF UpTo
  <2> QED
    BY <1>1, <2>2, <2>3
<1>3. ASSUME NEW x \in S, NEW z \in S, x < z
      PROVE  place[x] < place[z]
  <2>0. x \in Nat /\ z \in Nat /\ \A y \in S : y \in Nat
    OBVIOUS
  <2>1. UpTo(x) \in SUBSET UpTo(z) /\ UpTo(z) \in SUBSET S /\ z \in UpTo(z) /\ z \notin UpTo(x)
    <3>1. \A y \in S : y <= x => y <= z
      BY <1>3, <2>0
    <3>2. ~ z <= x /\ z <= z
      BY <1>3, <2>0
    <3> QED
      BY <3>1, <3>2
  <2> HIDE DEF UpTo
  <2>2. IsFiniteSet(UpTo(z)) /\ IsFiniteSet(UpTo(x))
    BY <2>1, FS_Subset
  <2>3. /\ Cardinality(UpTo(x)) <= Cardinality(UpTo(z))
        /\ Cardinality(UpTo(z)) = Cardinality(UpTo(x)) => UpTo(z) = UpTo(x)
        /\ Cardinality(UpTo(x)) \in Nat /\ Cardinality(UpTo(z)) \in Nat
    BY <2>1, <2>2, FS_Subset, FS_CardinalityType
  <2> QED
    BY <2>1, <2>3
<1> HIDE DEF UpTo
<1>4. place \in [S -> 1 .. n] /\ \A x, z \in S : place[x] = place[z] => x = z
  <2>1. place \in [S -> 1 .. n]
    BY <1>2
  <2>2. ASSUME NEW x \in S, NEW z \in S, place[x] = place[z] PROVE x = z
    <3>1. place[x] \in Nat /\ place[z] \in Nat /\ x \in Nat /\ z \in Nat
      BY <1>1, <1>2
    <3>2. ~ x < z /\ ~ z < x
      BY <1>3, <2>2, <3>1
    <3> QED
      BY <3>1, <3>2
  <2> QED
    BY <2>1, <2>2
<1> HIDE DEF place
<1>5. place \in Surjection(S, 1 .. n)
  <2>1. place \in Injection(S, 1 .. n)
    BY <1>4 DEF Injection, IsInjective
  <2>2. IsFiniteSet(1 .. n) /\ Cardinality(1 .. n) = n
    BY <1>1, FS_Interval
  <2> QED
    BY <2>1, <2>2, FS_Injection
<1>6. \A i \in 1 .. n : order[i] \in S /\ place[order[i]] = i
  BY <1>5 DEF Surjection
<1>7. order \in [1 .. n -> S] /\ DOMAIN order = 1 .. n
  BY <1>6
<1> HIDE DEF order
<1>8. \A i, j \in 1 .. n : i # j => order[i] # order[j]
  BY <1>6
<1>9. ASSUME NEW i \in 1 .. n, NEW j \in 1 .. n, i <= j
      PROVE  order[i] <= order[j]
  <2>1. /\ order[i] \in S /\ order[j] \in S /\ place[order[i]] = i /\ place[order[j]] = j
    BY <1>6
  <2>2. order[i] \in Nat /\ order[j] \in Nat
    BY <2>1
  <2>3. ASSUME order[j] < order[i] PROVE FALSE
    <3>1. place[order[j]] < place[order[i]]
      BY <1>3, <2>1, <2>3
    <3> QED
      BY <1>1, <1>9, <2>1, <3>1
  <2> QED
    BY <2>2, <2>3
<1>10. order \in SetToSeqs(S)
  BY <1>7, <1>8 DEF SetToSeqs
<1>11. \E o \in SetToSeqs(S) : \A i, j \in DOMAIN o : i <= j => o[i] <= o[j]
  BY <1>7, <1>9, <1>10
<1>12. InOrder(S) \in SetToSeqs(S)
  BY <1>11 DEF InOrder
<1> QED
  BY <1>1, <1>12 DEF SetToSeqs

(* An event of the kind for calls of the set, for each at most one *)
AreEvents(events, set, result, version) ==
    /\ events \in Seq(Event)
    /\ \A i \in DOMAIN events : /\ events[i].call \in set
                                /\ events[i].result = result /\ events[i].version = version
    /\ \A i, j \in DOMAIN events : i # j => events[i].call # events[j].call

LEMMA EventsOfSet ==
    ASSUME NEW n \in Nat, n <= MaxCalls, NEW set \in SUBSET (1 .. n),
           NEW result \in {"synced", "cached", "error"}, NEW version \in Versions
    PROVE  AreEvents(Events(set, result, version), set, result, version)
<1> PICK events : events = Events(set, result, version)
  OBVIOUS
<1> DEFINE order == InOrder(set)
           m     == Cardinality(set)
<1>1. IsFiniteSet(set) /\ set \in SUBSET Nat /\ set \in SUBSET Calls
  <2>1. IsFiniteSet(1 .. n) /\ MaxCalls \in Nat
    BY FS_Interval, QueriesBounds
  <2>2. IsFiniteSet(set)
    BY <2>1, FS_Subset
  <2>3. \A c \in 1 .. n : c \in Nat /\ c \in 1 .. MaxCalls
    BY <2>1
  <2> QED
    BY <2>2, <2>3 DEF Calls
<1>2. /\ order \in [1 .. m -> set] /\ m \in Nat
      /\ \A i, j \in 1 .. m : i # j => order[i] # order[j]
  BY <1>1, OrderExists
<1> HIDE DEF order, m
<1>4. events = [i \in 1 .. m |-> [call |-> order[i], result |-> result, version |-> version]]
  BY <1>2 DEF Events, order
<1>5. \A i \in 1 .. m : order[i] \in set /\ order[i] \in Calls
  BY <1>1, <1>2
<1>6. \A i \in 1 .. m : events[i] \in Event /\ events[i].call = order[i]
                        /\ events[i].result = result /\ events[i].version = version
  BY <1>4, <1>5 DEF Event
<1>7. events \in [1 .. m -> Event] /\ DOMAIN events = 1 .. m
  BY <1>4, <1>6
<1>8. events \in Seq(Event)
  BY <1>2, <1>7
<1> QED
  BY <1>2, <1>5, <1>6, <1>7, <1>8 DEF AreEvents

-----------------------------------------------------------------------------
(* What every state has.                                                   *)

Message == [kind : {"added", "removed", "rejected", "current", "snapshot"}]
              \cup [kind : {"documents"}, version : Versions]

TypeInv ==
    /\ TypeOK
    /\ fromServer \in Seq(Message)
    /\ \A i \in DOMAIN workQueue : workQueue[i].call \in 1 .. calls
    /\ \A i \in DOMAIN mainQueue : mainQueue[i].call \in 1 .. calls

(* The messages that answer a request *)
Due(messages) == {i \in DOMAIN messages : messages[i].kind \in {"added", "removed"}}

(* pending counts the requests and answers that are under way, and what    *)
(* the server left unanswered, unless a rejection has crossed requests;    *)
(* nothing is known of a closed stream.                                    *)
StreamInv ==
    /\ ~ crossed => target.pending >= Len(toServer) + Cardinality(Due(fromServer))
    /\ ~ IsOpen => toServer = << >> /\ fromServer = << >> /\ target = NewTarget /\ ~ crossed

(* A listener that is to be added *)
IsToBeAdded(c) == \E i \in DOMAIN workQueue : workQueue[i] = [do |-> "add", call |-> c]

(* An event of it is queued *)
IsTold(c) == \E i \in DOMAIN mainQueue : mainQueue[i].call = c

(* A call that is answered is muted, or nothing of it is left. *)
AnswersEnd ==
    \A c \in Calls : answers[c] = 1 =>
        /\ c <= calls
        /\ c \in muted \/ (c \notin listeners /\ ~ IsToBeAdded(c) /\ ~ IsTold(c))

(* An error is the last event of its listener, which is gone. *)
ErrorsAreLast ==
    \A i \in DOMAIN mainQueue : mainQueue[i].result = "error" =>
        /\ mainQueue[i].call \notin listeners
        /\ \A j \in DOMAIN mainQueue : i < j => mainQueue[i].call # mainQueue[j].call

(* The task that adds a listener is the only one and ahead of all events. *)
AddsComeFirst ==
    /\ \A i, j \in DOMAIN workQueue :
          workQueue[i].do = "add" /\ workQueue[j] = workQueue[i] => i = j
    /\ \A c \in Calls : IsToBeAdded(c) => c \notin listeners /\ ~ IsTold(c)

OnceInv == AnswersEnd /\ ErrorsAreLast /\ AddsComeFirst

(* A tracker whose timer runs knows nothing, and one that is online has    *)
(* seen no failure since.                                                  *)
IsSound(t, seen) ==
    /\ t \in [state : {"Unknown", "Online", "Offline"}, failures : Nat, timer : BOOLEAN]
    /\ t.timer => t.state = "Unknown"
    /\ t.state = "Online" => t.failures = 0
    /\ t.failures <= seen

(* The timer runs only while an attempt to connect or a stream is there,   *)
(* the idleness timer only on an open stream that nobody listens to.       *)
TrackerInv ==
    /\ IsSound(tracker, breaks)
    /\ tracker.timer => IsStarted
    /\ idle => IsOpen /\ ~ IsListening
    /\ NoAssertionFails

(* Of the types: what the calls are about, and what the stream *)
CallTypes ==
    /\ calls \in 0 .. MaxCalls
    /\ askedAt \in [Calls -> Versions] /\ answers \in [Calls -> 0 .. 1]
    /\ workQueue \in Seq(Task) /\ mainQueue \in Seq(Event)
    /\ muted \subseteq 1 .. calls /\ joined \subseteq 1 .. calls /\ misled \subseteq 1 .. calls
    /\ listeners \subseteq 1 .. calls /\ raised \subseteq listeners
    /\ \A i \in DOMAIN workQueue : workQueue[i].call \in 1 .. calls
    /\ \A i \in DOMAIN mainQueue : mainQueue[i].call \in 1 .. calls

StreamTypes ==
    /\ view \in View /\ cache \in Versions /\ cloud \in Versions
    /\ stream \in {"Initial", "Starting", "Backoff", "Open", "Error"}
    /\ {idle, inherited, crossed, failed} \subseteq BOOLEAN
    /\ toServer \in Seq({"watch", "unwatch"}) /\ fromServer \in Seq(Message)
    /\ served \in Served
    /\ target \in Target
    /\ tracker \in Tracker
    /\ breaks \in 0 .. MaxBreaks

LEMMA TwoKindsOfTypes == TypeInv <=> CallTypes /\ StreamTypes
  BY DEF TypeInv, TypeOK, CallTypes, StreamTypes

LEMMA Bounds == {MaxCalls, MaxChanges, MaxBreaks} \subseteq Nat
                /\ MaxCalls \in Nat /\ MaxChanges \in Nat /\ MaxBreaks \in Nat
  BY QueriesBounds

LEMMA TypeFacts ==
    ASSUME TypeInv
    PROVE  /\ calls \in Nat /\ calls <= MaxCalls
           /\ askedAt \in [Calls -> Versions] /\ answers \in [Calls -> 0 .. 1]
           /\ workQueue \in Seq(Task) /\ mainQueue \in Seq(Event) /\ fromServer \in Seq(Message)
           /\ toServer \in Seq({"watch", "unwatch"})
           /\ listeners \in SUBSET (1 .. calls) /\ raised \in SUBSET listeners
           /\ muted \in SUBSET (1 .. calls) /\ joined \in SUBSET (1 .. calls)
           /\ misled \in SUBSET (1 .. calls)
           /\ view \in View /\ view.version \in Versions /\ view.current \in BOOLEAN
           /\ cache \in Versions /\ cloud \in Versions
           /\ target \in Target /\ target.pending \in Int /\ target.documents \in Versions
           /\ \A c \in 1 .. calls : c \in Calls
  BY Bounds DEF TypeInv, TypeOK, View, Target, Calls

-----------------------------------------------------------------------------
(* What the steps do to the listeners and their queues.                    *)

Quiet == UNCHANGED <<callVars, workQueue, muted, joined>>

(* Events for some listeners *)
Tells(set, result, version) == mainQueue' = mainQueue \o Events(set, result, version)

LEMMA NoEvents ==
    ASSUME TypeInv, UNCHANGED mainQueue
    PROVE  Tells({}, "cached", view.version)
<1>1. Events({}, "cached", view.version) = << >>
  <2>1. IsFiniteSet({}) /\ Cardinality({}) = 0 /\ {} \in SUBSET Nat
    BY FS_EmptySet
  <2>2. InOrder({}) \in [1 .. 0 -> {}]
    BY <2>1, OrderExists
  <2> QED
    BY <2>2 DEF Events
<1> QED
  BY <1>1, TypeFacts DEF Tells

LEMMA BroadcastTells ==
    ASSUME TypeInv, NEW t, Broadcast(t)
    PROVE  /\ \E set \in SUBSET listeners : Tells(set, "cached", view.version)
           /\ tracker' = t
           /\ view' = view \/ view' = [view EXCEPT !.current = FALSE]
           /\ raised' = raised \/ raised' = listeners
<1>1. {} \in SUBSET listeners
  OBVIOUS
<1>2. CASE UNCHANGED mainQueue
  BY <1>1, <1>2, NoEvents DEF Broadcast
<1>3. CASE mainQueue' = mainQueue \o
                 Events(IF view.current THEN listeners ELSE listeners \ raised,
                        "cached", view.version)
  <2>1. (IF view.current THEN listeners ELSE listeners \ raised) \in SUBSET listeners
    OBVIOUS
  <2> QED
    BY <1>3, <2>1 DEF Broadcast, Tells
<1> QED
  BY <1>2, <1>3 DEF Broadcast

(* The task that is next *)
IsNext(task) == workQueue # << >> /\ Head(workQueue) = task

Adds(c) ==
    /\ IsNext([do |-> "add", call |-> c]) /\ workQueue' = Tail(workQueue)
    /\ UNCHANGED <<callVars, muted>>
    /\ listeners' = listeners \cup {c} /\ raised' \in SUBSET listeners'
    /\ UNCHANGED misled /\ (joined' = joined \/ joined' = joined \cup {c})
    /\ \E set \in SUBSET {c}, result \in {"synced", "cached"}, version \in Versions :
          Tells(set, result, version)

Removes(c) ==
    /\ IsNext([do |-> "remove", call |-> c]) /\ workQueue' = Tail(workQueue)
    /\ UNCHANGED <<callVars, muted, joined, misled, mainQueue>>
    /\ listeners' = listeners \ {c} /\ raised' = raised \ {c}

(* Some listeners hear of a change. *)
Changes ==
    /\ Quiet /\ listeners' = listeners /\ raised' \in SUBSET listeners
    /\ misled' \in SUBSET (misled \cup listeners)
    /\ \E set \in SUBSET listeners, result \in {"synced", "cached"}, version \in Versions :
          Tells(set, result, version)

(* All listeners hear of an error and are gone. *)
Fails ==
    /\ Quiet /\ listeners' = {} /\ raised' = {} /\ UNCHANGED misled
    /\ Tells(listeners, "error", 0)

LEMMA NothingChanges ==
    ASSUME TypeInv, UNCHANGED <<callVars, queueVars, listeners, raised, joined, misled>>
    PROVE  Changes
<1>1. Tells({}, "cached", view.version)
  BY NoEvents DEF queueVars
<1>2. {} \in SUBSET listeners /\ view.version \in Versions /\ raised \in SUBSET listeners
  BY TypeFacts
<1> QED
  BY <1>1, <1>2 DEF Changes, Quiet, queueVars, callVars

LEMMA BroadcastChanges ==
    ASSUME TypeInv, NEW t, Broadcast(t),
           UNCHANGED <<callVars, workQueue, muted, listeners, joined, misled>>
    PROVE  Changes
<1>1. \E set \in SUBSET listeners : Tells(set, "cached", view.version)
  BY BroadcastTells
<1>2. raised' \in SUBSET listeners
  BY BroadcastTells, TypeFacts
<1>3. view.version \in Versions
  BY TypeFacts
<1> QED
  BY <1>1, <1>2, <1>3 DEF Changes, Quiet, callVars

LEMMA TaskCases ==
    ASSUME TypeInv, RunTask
    PROVE  \E c \in 1 .. calls : Adds(c) \/ Removes(c)
<1>1. PICK task : workQueue # << >> /\ task = Head(workQueue)
  BY DEF RunTask
<1>2. /\ task \in Task /\ task.call \in 1 .. calls /\ workQueue' = Tail(workQueue)
      /\ UNCHANGED <<callVars, muted, cache, cloud, breaks>>
      /\ task.do = "add" => task = [do |-> "add", call |-> task.call]
      /\ task.do = "remove" => task = [do |-> "remove", call |-> task.call]
  <2>1. workQueue \in Seq(Task)
    BY TypeFacts
  <2>2. task \in Task /\ task = workQueue[1] /\ 1 \in DOMAIN workQueue
    BY <1>1, <2>1, TailElements
  <2>3. task.call \in 1 .. calls
    BY <2>2 DEF TypeInv
  <2> QED
    BY <2>2, <2>3 DEF RunTask, Task
<1>3. \/ task.do = "add" /\ AddQueryListener(task.call)
      \/ task.do = "remove" /\ RemoveQueryListener(task.call)
  BY <1>1 DEF RunTask
<1>4. PICK c \in 1 .. calls : c = task.call
  BY <1>2
<1>5. raised \in SUBSET listeners /\ view.version \in Versions /\ cache \in Versions
  BY TypeFacts
<1>6. ASSUME UNCHANGED mainQueue
      PROVE  \E set \in SUBSET {c}, result \in {"synced", "cached"}, version \in Versions :
                Tells(set, result, version)
  <2>1. {} \in SUBSET {c}
    OBVIOUS
  <2> QED
    BY <1>5, <1>6, <2>1, NoEvents
<1>7. {c} \in SUBSET {c}
  OBVIOUS
<1>8. ASSUME task.do = "add", IsListening, JoinQuery(c) PROVE Adds(c)
  <2>1. \E set \in SUBSET {c}, result \in {"synced", "cached"}, version \in Versions :
           Tells(set, result, version)
    BY <1>5, <1>6, <1>7, <1>8 DEF JoinQuery, Tells
  <2>2. /\ listeners' = listeners \cup {c} /\ joined' = joined \cup {c} /\ UNCHANGED misled
        /\ raised' \in SUBSET listeners'
    BY <1>5, <1>8 DEF JoinQuery
  <2> QED
    BY <1>1, <1>2, <1>4, <1>8, <2>1, <2>2 DEF Adds, IsNext
<1>9. ASSUME task.do = "add", ~ IsListening, Listen(c) PROVE Adds(c)
  <2>1. \E set \in SUBSET {c}, result \in {"synced", "cached"}, version \in Versions :
           Tells(set, result, version)
    BY <1>5, <1>6, <1>7, <1>9 DEF Listen, Tells
  <2>2. /\ listeners' = listeners \cup {c} /\ UNCHANGED <<joined, misled>>
        /\ raised' \in SUBSET listeners'
    BY <1>5, <1>9 DEF Listen, IsListening
  <2> QED
    BY <1>1, <1>2, <1>4, <1>9, <2>1, <2>2 DEF Adds, IsNext
<1>10. ASSUME task.do = "remove", RemoveQueryListener(c) PROVE Removes(c)
  BY <1>1, <1>2, <1>4, <1>10 DEF Removes, IsNext, RemoveQueryListener
<1> QED
  BY <1>3, <1>4, <1>8, <1>9, <1>10 DEF AddQueryListener

LEMMA SnapshotChanges ==
    ASSUME TypeInv, RaiseWatchSnapshot
    PROVE  Changes
<1>1. Quiet /\ listeners' = listeners
  BY DEF RaiseWatchSnapshot, Received, Quiet, callVars
<1>2. cache' \in Versions /\ raised \in SUBSET listeners
  BY TypeFacts DEF RaiseWatchSnapshot
<1>3. CASE IsListening
  <2>1. PICK current, told :
           /\ told = {} \/ told = listeners \/ told = raised
           /\ raised' = raised \cup told /\ (misled' = misled \/ misled' = misled \cup told)
           /\ mainQueue' = mainQueue \o
                 Events(told, IF current THEN "synced" ELSE "cached", cache')
    BY <1>3 DEF RaiseWatchSnapshot
  <2>2. /\ told \in SUBSET listeners /\ raised' \in SUBSET listeners
        /\ misled' \in SUBSET (misled \cup listeners)
    BY <1>2, <2>1
  <2>3. Tells(told, "synced", cache') \/ Tells(told, "cached", cache')
    BY <2>1 DEF Tells
  <2> QED
    BY <1>1, <1>2, <2>2, <2>3 DEF Changes
<1>4. CASE ~ IsListening
  <2>1. UNCHANGED <<view, raised, mainQueue, misled>>
    BY <1>4 DEF RaiseWatchSnapshot
  <2> QED
    BY <1>1, <2>1, NothingChanges DEF Quiet, queueVars, callVars
<1> QED
  BY <1>3, <1>4

LEMMA EventCases ==
    ASSUME TypeInv, [Next]_vars
    PROVE  \/ GetDocuments \/ RunEvent
           \/ \E c \in 1 .. calls : Adds(c) \/ Removes(c)
           \/ Changes \/ Fails
<1>1. CASE GetDocuments \/ RunEvent
  BY <1>1
<1>2. CASE RunTask
  BY <1>2, TaskCases
<1>3. CASE OnlineTimeout
  BY <1>3, BroadcastChanges DEF OnlineTimeout
<1>4. CASE StreamOpens
  BY <1>4, NothingChanges DEF StreamOpens, OnlyStream, queueVars
<1>5. CASE BackoffElapses
  BY <1>5, NothingChanges DEF BackoffElapses, OnlyStream, queueVars
<1>6. CASE StreamFails
  <2>1. \E t : Broadcast(t)
    BY <1>6 DEF StreamFails
  <2> QED
    BY <1>6, <2>1, BroadcastChanges DEF StreamFails, OnlyStream
<1>7. CASE IdleTimeout
  BY <1>7, BroadcastChanges DEF IdleTimeout, OnlyStream
<1>8. CASE HandleCredentialChange
  <2>1. \E t : Broadcast(t)
    BY <1>8 DEF HandleCredentialChange
  <2> QED
    BY <1>8, <2>1, BroadcastChanges DEF HandleCredentialChange
<1>9. CASE HandleTargetChange
  BY <1>9, NothingChanges DEF HandleTargetChange, Received, queueVars
<1>10. CASE HandleDocumentChange
  BY <1>10, NothingChanges DEF HandleDocumentChange, Received, queueVars
<1>11. CASE RaiseWatchSnapshot
  BY <1>11, SnapshotChanges
<1>12. CASE ProcessTargetError
  <2>1. CASE IsListening
    BY <1>12, <2>1 DEF ProcessTargetError, Received, Fails, Quiet, Tells, callVars
  <2>2. CASE ~ IsListening
    BY <1>12, <2>2, NothingChanges DEF ProcessTargetError, Received, queueVars
  <2> QED
    BY <2>1, <2>2
<1>13. CASE ServerReceives
  BY <1>13, NothingChanges DEF ServerReceives, OnlyServer, listenVars
<1>14. CASE ServerSends
  BY <1>14, NothingChanges DEF ServerSends, OnlyServer, listenVars
<1>15. CASE CloudChanges \/ ServerRejects
  BY <1>15, NothingChanges DEF CloudChanges, ServerRejects, OnlyServer, listenVars
<1>16. CASE UNCHANGED vars
  BY <1>16, NothingChanges DEF vars, listenVars
<1> QED
  BY <1>1, <1>2, <1>3, <1>4, <1>5, <1>6, <1>7, <1>8, <1>9, <1>10, <1>11, <1>12, <1>13,
     <1>14, <1>15, <1>16 DEF Next, Exchange

-----------------------------------------------------------------------------
(* No handler runs twice.                                                  *)

(* The events that are there stay ahead of those that are added. *)
ToldTo(set, result, version) ==
    /\ mainQueue' \in Seq(Event)
    /\ \A i \in DOMAIN mainQueue : i \in DOMAIN mainQueue' /\ mainQueue'[i] = mainQueue[i]
    /\ \A i \in DOMAIN mainQueue' : i \notin DOMAIN mainQueue =>
          /\ mainQueue'[i].call \in set
          /\ mainQueue'[i].result = result /\ mainQueue'[i].version = version
          /\ \A j \in DOMAIN mainQueue : j < i
          /\ \A j \in DOMAIN mainQueue' : j \notin DOMAIN mainQueue /\ i # j =>
                mainQueue'[i].call # mainQueue'[j].call
    /\ \A i \in DOMAIN mainQueue' : mainQueue'[i].call \in 1 .. calls

LEMMA Told ==
    ASSUME TypeInv, NEW set \in SUBSET (1 .. calls),
           NEW result \in {"synced", "cached", "error"}, NEW version \in Versions,
           Tells(set, result, version)
    PROVE  ToldTo(set, result, version)
<1> DEFINE n == Len(mainQueue)
<1> PICK events : events = Events(set, result, version)
  OBVIOUS
<1>1. /\ events \in Seq(Event)
      /\ \A i \in DOMAIN events : /\ events[i].call \in set
                                  /\ events[i].result = result /\ events[i].version = version
      /\ \A i, j \in DOMAIN events : i # j => events[i].call # events[j].call
  <2>1. calls \in Nat /\ calls <= MaxCalls
    BY TypeFacts
  <2>2. AreEvents(events, set, result, version)
    BY <2>1, EventsOfSet
  <2> QED
    BY <2>2 DEF AreEvents
<1>2. mainQueue \in Seq(Event) /\ mainQueue' = mainQueue \o events
  BY TypeFacts DEF Tells
<1>3. /\ mainQueue' \in Seq(Event) /\ n \in Nat
      /\ DOMAIN mainQueue = 1 .. n /\ DOMAIN mainQueue' = 1 .. n + Len(events) /\ Len(events) \in Nat
      /\ \A i \in DOMAIN mainQueue : i \in DOMAIN mainQueue' /\ mainQueue'[i] = mainQueue[i]
      /\ \A i \in DOMAIN mainQueue' : \/ i \in DOMAIN mainQueue /\ mainQueue'[i] = mainQueue[i]
                                      \/ /\ i \notin DOMAIN mainQueue /\ i - n \in DOMAIN events
                                         /\ mainQueue'[i] = events[i - n]
  BY <1>1, <1>2, ConcatElements
<1>4. ASSUME NEW i \in DOMAIN mainQueue', i \notin DOMAIN mainQueue
      PROVE  /\ mainQueue'[i].call \in set
             /\ mainQueue'[i].result = result /\ mainQueue'[i].version = version
             /\ \A j \in DOMAIN mainQueue : j < i
             /\ \A j \in DOMAIN mainQueue' : j \notin DOMAIN mainQueue /\ i # j =>
                   mainQueue'[i].call # mainQueue'[j].call
  <2>1. i - n \in DOMAIN events /\ mainQueue'[i] = events[i - n]
    BY <1>3, <1>4
  <2>2. \A j \in DOMAIN mainQueue : j < i
    BY <1>3, <1>4
  <2>3. ASSUME NEW j \in DOMAIN mainQueue', j \notin DOMAIN mainQueue, i # j
        PROVE  mainQueue'[i].call # mainQueue'[j].call
    <3>1. j - n \in DOMAIN events /\ mainQueue'[j] = events[j - n]
      BY <1>3, <2>3
    <3>2. i - n # j - n
      BY <1>3, <2>3
    <3> QED
      BY <1>1, <2>1, <3>1, <3>2
  <2> QED
    BY <1>1, <2>1, <2>2, <2>3
<1>5. \A i \in DOMAIN mainQueue : mainQueue[i].call \in 1 .. calls
  BY DEF TypeInv
<1>6. \A i \in DOMAIN mainQueue' : mainQueue'[i].call \in 1 .. calls
  <2> SUFFICES ASSUME NEW i \in DOMAIN mainQueue' PROVE mainQueue'[i].call \in 1 .. calls
    OBVIOUS
  <2>1. CASE i \in DOMAIN mainQueue
    BY <1>3, <1>5, <2>1
  <2>2. CASE i \notin DOMAIN mainQueue
    BY <1>4, <2>2
  <2> QED
    BY <2>1, <2>2
<1> QED
  BY <1>3, <1>4, <1>6 DEF ToldTo

LEMMA CallInit == Init => CallTypes /\ OnceInv
<1> SUFFICES ASSUME Init PROVE CallTypes /\ OnceInv
  OBVIOUS
<1>1. /\ calls = 0 /\ askedAt = [c \in Calls |-> 0] /\ answers = [c \in Calls |-> 0]
      /\ workQueue = << >> /\ mainQueue = << >> /\ muted = {} /\ listeners = {} /\ raised = {}
      /\ joined = {} /\ misled = {}
  BY DEF Init
<1>2. 0 \in Versions /\ 0 \in 0 .. MaxCalls
  BY Bounds DEF Versions
<1>3. \A c \in Calls : answers[c] # 1 /\ ~ IsToBeAdded(c)
  BY <1>1 DEF IsToBeAdded
<1>4. OnceInv
  BY <1>1, <1>3 DEF OnceInv, AnswersEnd, ErrorsAreLast, AddsComeFirst
<1>5. CallTypes
  BY <1>1, <1>2 DEF CallTypes
<1> QED
  BY <1>4, <1>5

LEMMA AskStep ==
    ASSUME TypeInv, OnceInv, GetDocuments
    PROVE  CallTypes' /\ OnceInv'
<1> DEFINE c == calls + 1
           task == [do |-> "add", call |-> c]
           n == Len(workQueue)
<1>1. /\ calls \in Nat /\ calls < MaxCalls /\ calls' = c /\ c \in Calls /\ c \notin 1 .. calls
      /\ c \in 1 .. calls' /\ \A d \in 1 .. calls : d \in 1 .. calls'
      /\ calls' \in 0 .. MaxCalls
  BY TypeFacts, Bounds DEF GetDocuments, Calls
<1>2. /\ askedAt' = [askedAt EXCEPT ![c] = cloud] /\ workQueue' = Append(workQueue, task)
      /\ UNCHANGED <<answers, mainQueue, muted, listeners, raised, joined, misled>>
  BY <1>1 DEF GetDocuments, listenVars
<1>3. task \in Task /\ workQueue \in Seq(Task)
  BY <1>1, TypeFacts DEF Task
<1> HIDE DEF c, task
<1>4. /\ workQueue' \in Seq(Task) /\ n \in Nat /\ DOMAIN workQueue = 1 .. n
      /\ DOMAIN workQueue' = 1 .. n + 1 /\ workQueue'[n + 1] = task
      /\ \A i \in 1 .. n : workQueue'[i] = workQueue[i]
  BY <1>2, <1>3, AppendedElements
<1> HIDE DEF n
<1>5. /\ \A i \in DOMAIN workQueue : workQueue[i].call \in 1 .. calls
      /\ \A i \in DOMAIN mainQueue : mainQueue[i].call \in 1 .. calls
  BY DEF TypeInv
<1>6. task.do = "add" /\ task.call = c
  BY DEF task
<1>7. CallTypes'
  <2>1. askedAt' \in [Calls -> Versions]
    BY <1>1, <1>2, TypeFacts
  <2>2. \A i \in DOMAIN workQueue' : workQueue'[i].call \in 1 .. calls'
    BY <1>1, <1>4, <1>5, <1>6
  <2>3. \A i \in DOMAIN mainQueue' : mainQueue'[i].call \in 1 .. calls'
    BY <1>1, <1>2, <1>5
  <2>4. /\ muted' \subseteq 1 .. calls' /\ listeners' \subseteq 1 .. calls'
        /\ joined' \subseteq 1 .. calls' /\ misled' \subseteq 1 .. calls'
    BY <1>1, <1>2, TypeFacts
  <2> QED
    BY <1>1, <1>2, <1>4, <2>1, <2>2, <2>3, <2>4, TypeFacts DEF CallTypes
<1>8. \A d \in Calls : IsToBeAdded(d)' => IsToBeAdded(d) \/ d = c
  BY <1>4, <1>6 DEF IsToBeAdded
<1>9. c \notin muted /\ c \notin listeners /\ ~ IsTold(c) /\ ~ IsToBeAdded(c)
  BY <1>1, <1>5, TypeFacts DEF IsTold, IsToBeAdded
<1>10. answers[c] # 1
  BY <1>1 DEF OnceInv, AnswersEnd, c
<1>11. AnswersEnd'
  <2> SUFFICES ASSUME NEW d \in Calls, answers[d] = 1
               PROVE  /\ d <= calls'
                      /\ d \in muted \/ (d \notin listeners /\ ~ IsToBeAdded(d)' /\ ~ IsTold(d))
    BY <1>2 DEF AnswersEnd, IsTold
  <2>1. d # c /\ d <= calls
    BY <1>10 DEF OnceInv, AnswersEnd
  <2>2. d \in 1 .. calls
    BY <2>1, TypeFacts DEF Calls
  <2>3. d <= calls'
    BY <1>1, <2>2
  <2> QED
    BY <1>8, <2>1, <2>3 DEF OnceInv, AnswersEnd
<1>12. ErrorsAreLast'
  BY <1>2 DEF OnceInv, ErrorsAreLast
<1>13. AddsComeFirst'
  <2>1. ASSUME NEW i \in DOMAIN workQueue', NEW j \in DOMAIN workQueue',
               workQueue'[i].do = "add", workQueue'[j] = workQueue'[i]
        PROVE  i = j
    <3>1. \A k \in 1 .. n : workQueue'[k] # task
      BY <1>1, <1>4, <1>5, <1>6
    <3>2. i = n + 1 \/ i \in 1 .. n
      BY <1>4
    <3>3. j = n + 1 \/ j \in 1 .. n
      BY <1>4
    <3>4. (i \in 1 .. n /\ j \in 1 .. n) \/ i = j
      BY <1>4, <2>1, <3>1, <3>2, <3>3
    <3> QED
      BY <1>4, <2>1, <3>4 DEF OnceInv, AddsComeFirst
  <2>2. \A d \in Calls : IsToBeAdded(d)' => d \notin listeners' /\ ~ IsTold(d)'
    BY <1>2, <1>8, <1>9 DEF OnceInv, AddsComeFirst, IsTold
  <2> QED
    BY <2>1, <2>2 DEF AddsComeFirst
<1> QED
  BY <1>7, <1>11, <1>12, <1>13 DEF OnceInv

LEMMA RunEventStep ==
    ASSUME TypeInv, OnceInv, RunEvent
    PROVE  CallTypes' /\ OnceInv'
<1> PICK event : event = Head(mainQueue)
  OBVIOUS
<1> DEFINE c == event.call
           n == Len(workQueue)
           task == [do |-> "remove", call |-> c]
<1>1. /\ mainQueue # << >> /\ mainQueue' = Tail(mainQueue)
      /\ UNCHANGED <<calls, askedAt, listeners, raised, joined, misled>>
      /\ IF c \in muted THEN UNCHANGED <<answers, muted, workQueue>> ELSE OnEvent(c, event.result)
  BY DEF RunEvent, listenVars
<1>2. mainQueue \in Seq(Event) /\ workQueue \in Seq(Task)
  BY TypeFacts
<1>3. /\ event \in Event /\ event = mainQueue[1] /\ 1 \in DOMAIN mainQueue
      /\ mainQueue' \in Seq(Event)
      /\ \A i \in DOMAIN mainQueue' : /\ i \in Nat \ {0} /\ i + 1 \in DOMAIN mainQueue /\ 1 < i + 1
                                      /\ mainQueue'[i] = mainQueue[i + 1]
  BY <1>1, <1>2, TailElements
<1>4. /\ c \in 1 .. calls /\ c \in Calls /\ IsTold(c)
      /\ \A i \in DOMAIN workQueue : workQueue[i].call \in 1 .. calls
  BY <1>3, TypeFacts DEF TypeInv, IsTold
<1>5. \A d \in Calls : IsTold(d)' => IsTold(d)
  BY <1>3 DEF IsTold
<1>6. event.result = "error" => c \notin listeners /\ ~ IsTold(c)'
  BY <1>3 DEF OnceInv, ErrorsAreLast, IsTold
<1>7. ~ IsToBeAdded(c)
  BY <1>4 DEF OnceInv, AddsComeFirst
<1>8. ErrorsAreLast'
  <2> SUFFICES ASSUME NEW i \in DOMAIN mainQueue', mainQueue'[i].result = "error"
               PROVE  /\ mainQueue'[i].call \notin listeners
                      /\ \A j \in DOMAIN mainQueue' : i < j => mainQueue'[i].call # mainQueue'[j].call
    BY <1>1 DEF ErrorsAreLast
  <2>1. /\ mainQueue[i + 1].call \notin listeners
        /\ \A j \in DOMAIN mainQueue : i + 1 < j => mainQueue[i + 1].call # mainQueue[j].call
    BY <1>3 DEF OnceInv, ErrorsAreLast
  <2>2. \A j \in DOMAIN mainQueue' : i < j => i + 1 < j + 1 /\ j + 1 \in DOMAIN mainQueue
    BY <1>3
  <2> QED
    BY <1>3, <2>1, <2>2
<1>9. /\ \A i \in DOMAIN mainQueue' : mainQueue'[i].call \in 1 .. calls
      /\ muted \subseteq 1 .. calls /\ joined \subseteq 1 .. calls /\ misled \subseteq 1 .. calls
      /\ calls \in 0 .. MaxCalls /\ listeners \subseteq 1 .. calls /\ raised \subseteq listeners
      /\ askedAt \in [Calls -> Versions]
  BY <1>3, TypeFacts DEF TypeInv, TypeOK
<1>10. CASE c \in muted
  <2>1. UNCHANGED <<answers, muted, workQueue>>
    BY <1>1, <1>10
  <2>2. CallTypes'
    BY <1>1, <1>2, <1>3, <1>4, <1>9, <2>1, TypeFacts DEF CallTypes
  <2>3. AnswersEnd'
    BY <1>1, <1>5, <2>1 DEF OnceInv, AnswersEnd, IsToBeAdded
  <2>4. AddsComeFirst'
    BY <1>1, <1>5, <2>1 DEF OnceInv, AddsComeFirst, IsToBeAdded
  <2> QED
    BY <1>8, <2>2, <2>3, <2>4 DEF OnceInv
<1>11. CASE c \notin muted
  <2>1. /\ answers' = [answers EXCEPT ![c] = @ + 1]
        /\ \/ event.result = "error" /\ UNCHANGED <<muted, workQueue>>
           \/ /\ muted' = muted \cup {c} /\ workQueue' = Append(workQueue, task)
    BY <1>1, <1>11 DEF OnEvent
  <2>2. answers \in [Calls -> 0 .. 1] /\ answers[c] # 1
    BY <1>4, <1>11, TypeFacts DEF OnceInv, AnswersEnd
  <2>3. answers' \in [Calls -> 0 .. 1] /\ \A d \in Calls : d # c => answers'[d] = answers[d]
    BY <1>4, <2>1, <2>2
  <2>4. task \in Task /\ task.call = c /\ task.do = "remove"
    BY <1>4 DEF Task
  <2> HIDE DEF task
  <2>5. CASE event.result = "error" /\ UNCHANGED <<muted, workQueue>>
    <3>1. CallTypes'
      BY <1>1, <1>2, <1>3, <1>4, <1>9, <2>3, <2>5 DEF CallTypes
    <3>2. \A d \in Calls : IsToBeAdded(d)' <=> IsToBeAdded(d)
      BY <2>5 DEF IsToBeAdded
    <3>3. AnswersEnd'
      <4> SUFFICES ASSUME NEW d \in Calls, answers'[d] = 1
                   PROVE  /\ d <= calls
                          /\ d \in muted \/ (d \notin listeners /\ ~ IsToBeAdded(d)' /\ ~ IsTold(d)')
        BY <1>1, <2>5 DEF AnswersEnd
      <4>1. CASE d = c
        BY <1>4, <1>6, <1>7, <2>5, <3>2, <4>1
      <4>2. CASE d # c
        BY <1>5, <2>3, <3>2, <4>2 DEF OnceInv, AnswersEnd
      <4> QED
        BY <4>1, <4>2
    <3>4. AddsComeFirst'
      BY <1>1, <1>5, <2>5, <3>2 DEF OnceInv, AddsComeFirst
    <3> QED
      BY <1>8, <3>1, <3>3, <3>4 DEF OnceInv
  <2>6. CASE muted' = muted \cup {c} /\ workQueue' = Append(workQueue, task)
    <3>1. /\ workQueue' \in Seq(Task) /\ n \in Nat /\ DOMAIN workQueue = 1 .. n
          /\ DOMAIN workQueue' = 1 .. n + 1 /\ workQueue'[n + 1] = task
          /\ \A i \in 1 .. n : workQueue'[i] = workQueue[i]
      BY <1>2, <2>4, <2>6, AppendedElements
    <3> HIDE DEF n
    <3>2. \A i \in DOMAIN workQueue' : workQueue'[i].call \in 1 .. calls
      BY <1>4, <2>4, <3>1
    <3>3. CallTypes'
      BY <1>1, <1>3, <1>4, <1>9, <2>3, <2>6, <3>1, <3>2 DEF CallTypes
    <3>4. \A d \in Calls : IsToBeAdded(d)' => IsToBeAdded(d)
      BY <2>4, <3>1 DEF IsToBeAdded
    <3>5. AnswersEnd'
      <4> SUFFICES ASSUME NEW d \in Calls, answers'[d] = 1
                   PROVE  /\ d <= calls
                          /\ d \in muted' \/ (d \notin listeners /\ ~ IsToBeAdded(d)' /\ ~ IsTold(d)')
        BY <1>1 DEF AnswersEnd
      <4>1. CASE d = c
        BY <1>4, <2>6, <4>1
      <4>2. CASE d # c
        BY <1>5, <2>3, <2>6, <3>4, <4>2 DEF OnceInv, AnswersEnd
      <4> QED
        BY <4>1, <4>2
    <3>6. AddsComeFirst'
      <4>1. ASSUME NEW i \in DOMAIN workQueue', NEW j \in DOMAIN workQueue',
                   workQueue'[i].do = "add", workQueue'[j] = workQueue'[i]
            PROVE  i = j
        <5>1. i \in 1 .. n /\ j \in 1 .. n
          BY <2>4, <3>1, <4>1
        <5> QED
          BY <3>1, <4>1, <5>1 DEF OnceInv, AddsComeFirst
      <4>2. \A d \in Calls : IsToBeAdded(d)' => d \notin listeners' /\ ~ IsTold(d)'
        BY <1>1, <1>5, <3>4 DEF OnceInv, AddsComeFirst
      <4> QED
        BY <4>1, <4>2 DEF AddsComeFirst
    <3> QED
      BY <1>8, <3>3, <3>5, <3>6 DEF OnceInv
  <2> QED
    BY <2>1, <2>5, <2>6
<1> QED
  BY <1>10, <1>11

(* The next task is taken from the work queue. *)
LEMMA TaskTaken ==
    ASSUME TypeInv, OnceInv, NEW task \in Task, IsNext(task), workQueue' = Tail(workQueue)
    PROVE  /\ workQueue' \in Seq(Task) /\ task.call \in 1 .. calls /\ task.call \in Calls
           /\ \A i \in DOMAIN workQueue' : workQueue'[i].call \in 1 .. calls
           /\ task.do = "add" => IsToBeAdded(task.call) /\ ~ IsToBeAdded(task.call)'
           /\ \A d \in Calls : IsToBeAdded(d)' => IsToBeAdded(d)
           /\ \A i, j \in DOMAIN workQueue' :
                 workQueue'[i].do = "add" /\ workQueue'[j] = workQueue'[i] => i = j
<1>1. workQueue \in Seq(Task) /\ workQueue # << >> /\ task = Head(workQueue)
  BY TypeFacts DEF IsNext
<1>2. /\ task = workQueue[1] /\ 1 \in DOMAIN workQueue /\ workQueue' \in Seq(Task)
      /\ \A i \in DOMAIN workQueue' : /\ i \in Nat \ {0} /\ i + 1 \in DOMAIN workQueue /\ i + 1 # 1
                                      /\ workQueue'[i] = workQueue[i + 1]
  BY <1>1, TailElements
<1>3. task.call \in 1 .. calls /\ \A i \in DOMAIN workQueue' : workQueue'[i].call \in 1 .. calls
  BY <1>2 DEF TypeInv
<1>4. task.call \in Calls
  BY <1>3, TypeFacts
<1>5. \A d \in Calls : IsToBeAdded(d)' => IsToBeAdded(d)
  BY <1>2 DEF IsToBeAdded
<1>6. ASSUME task.do = "add" PROVE IsToBeAdded(task.call) /\ ~ IsToBeAdded(task.call)'
  <2>1. task = [do |-> "add", call |-> task.call]
    BY <1>6 DEF Task
  <2>2. \A i \in DOMAIN workQueue' : workQueue'[i] # task
    BY <1>2, <1>6 DEF OnceInv, AddsComeFirst
  <2> QED
    BY <1>2, <2>1, <2>2 DEF IsToBeAdded
<1>7. ASSUME NEW i \in DOMAIN workQueue', NEW j \in DOMAIN workQueue',
             workQueue'[i].do = "add", workQueue'[j] = workQueue'[i]
      PROVE  i = j
  <2>1. i + 1 = j + 1
    BY <1>2, <1>7 DEF OnceInv, AddsComeFirst
  <2> QED
    BY <1>2, <2>1
<1> QED
  BY <1>2, <1>3, <1>4, <1>5, <1>6, <1>7

LEMMA AddsStep ==
    ASSUME TypeInv, OnceInv, NEW c \in 1 .. calls, Adds(c)
    PROVE  CallTypes' /\ OnceInv'
<1> DEFINE task == [do |-> "add", call |-> c]
<1>1. task \in Task /\ task.call = c /\ task.do = "add"
  BY TypeFacts DEF Task
<1>2. /\ IsNext(task) /\ workQueue' = Tail(workQueue)
      /\ UNCHANGED <<calls, askedAt, answers, muted>>
      /\ listeners' = listeners \cup {c} /\ raised' \in SUBSET listeners'
      /\ UNCHANGED misled /\ (joined' = joined \/ joined' = joined \cup {c})
  BY DEF Adds, callVars
<1> HIDE DEF task
<1>3. /\ workQueue' \in Seq(Task) /\ c \in Calls
      /\ \A i \in DOMAIN workQueue' : workQueue'[i].call \in 1 .. calls
      /\ IsToBeAdded(c) /\ ~ IsToBeAdded(c)'
      /\ \A d \in Calls : IsToBeAdded(d)' => IsToBeAdded(d)
      /\ \A i, j \in DOMAIN workQueue' :
            workQueue'[i].do = "add" /\ workQueue'[j] = workQueue'[i] => i = j
  BY <1>1, <1>2, TaskTaken
<1>4. c \notin listeners /\ ~ IsTold(c)
  BY <1>3 DEF OnceInv, AddsComeFirst
<1>5. PICK set \in SUBSET {c}, result \in {"synced", "cached"}, version \in Versions :
         Tells(set, result, version)
  BY DEF Adds
<1>6. /\ mainQueue' \in Seq(Event)
      /\ \A i \in DOMAIN mainQueue : i \in DOMAIN mainQueue' /\ mainQueue'[i] = mainQueue[i]
      /\ \A i \in DOMAIN mainQueue' : i \notin DOMAIN mainQueue =>
            mainQueue'[i].call \in set /\ mainQueue'[i].result = result
      /\ \A i \in DOMAIN mainQueue' : mainQueue'[i].call \in 1 .. calls
  <2>1. set \in SUBSET (1 .. calls) /\ result \in {"synced", "cached", "error"}
    OBVIOUS
  <2>2. ToldTo(set, result, version)
    BY <1>5, <2>1, Told
  <2> QED
    BY <2>2 DEF ToldTo
<1>7. \A i \in DOMAIN mainQueue' : i \notin DOMAIN mainQueue =>
         mainQueue'[i].call = c /\ mainQueue'[i].result # "error"
  BY <1>6
<1>8. CallTypes'
  <2>1. /\ muted' \subseteq 1 .. calls' /\ listeners' \subseteq 1 .. calls'
        /\ joined' \subseteq 1 .. calls' /\ misled' \subseteq 1 .. calls'
    BY <1>2, TypeFacts
  <2>2. /\ calls' \in 0 .. MaxCalls /\ askedAt' \in [Calls -> Versions]
        /\ answers' \in [Calls -> 0 .. 1]
    BY <1>2 DEF TypeInv, TypeOK
  <2> QED
    BY <1>2, <1>3, <1>6, <2>1, <2>2 DEF CallTypes
<1>9. AnswersEnd'
  <2> SUFFICES ASSUME NEW d \in Calls, answers[d] = 1
               PROVE  /\ d <= calls
                      /\ d \in muted \/ (d \notin listeners' /\ ~ IsToBeAdded(d)' /\ ~ IsTold(d)')
    BY <1>2 DEF AnswersEnd
  <2>1. CASE d = c
    BY <1>3, <2>1 DEF OnceInv, AnswersEnd
  <2>2. CASE d # c
    <3>1. IsTold(d)' => IsTold(d)
      BY <1>6, <1>7, <2>2 DEF IsTold
    <3> QED
      BY <1>2, <1>3, <2>2, <3>1 DEF OnceInv, AnswersEnd
  <2> QED
    BY <2>1, <2>2
<1>10. ErrorsAreLast'
  <2> SUFFICES ASSUME NEW i \in DOMAIN mainQueue', mainQueue'[i].result = "error"
               PROVE  /\ mainQueue'[i].call \notin listeners'
                      /\ \A j \in DOMAIN mainQueue' : i < j => mainQueue'[i].call # mainQueue'[j].call
    BY DEF ErrorsAreLast
  <2>1. i \in DOMAIN mainQueue /\ mainQueue'[i] = mainQueue[i]
    BY <1>6, <1>7
  <2>2. mainQueue[i].call # c
    BY <1>4, <2>1 DEF IsTold
  <2>3. /\ mainQueue[i].call \notin listeners
        /\ \A j \in DOMAIN mainQueue : i < j => mainQueue[i].call # mainQueue[j].call
    BY <2>1 DEF OnceInv, ErrorsAreLast
  <2> QED
    BY <1>2, <1>6, <1>7, <2>1, <2>2, <2>3
<1>11. AddsComeFirst'
  <2>1. ASSUME NEW d \in Calls, IsToBeAdded(d)' PROVE d \notin listeners' /\ ~ IsTold(d)'
    <3>1. d # c /\ d \notin listeners /\ ~ IsTold(d)
      BY <1>3, <2>1 DEF OnceInv, AddsComeFirst
    <3> QED
      BY <1>2, <1>6, <1>7, <3>1 DEF IsTold
  <2> QED
    BY <1>3, <2>1 DEF AddsComeFirst
<1> QED
  BY <1>8, <1>9, <1>10, <1>11 DEF OnceInv

LEMMA RemovesStep ==
    ASSUME TypeInv, OnceInv, NEW c \in 1 .. calls, Removes(c)
    PROVE  CallTypes' /\ OnceInv'
<1> DEFINE task == [do |-> "remove", call |-> c]
<1>1. task \in Task
  BY TypeFacts DEF Task
<1>2. /\ IsNext(task) /\ workQueue' = Tail(workQueue)
      /\ UNCHANGED <<calls, askedAt, answers, muted, joined, misled, mainQueue>>
      /\ listeners' = listeners \ {c} /\ raised' = raised \ {c}
  BY DEF Removes, callVars
<1> HIDE DEF task
<1>3. /\ workQueue' \in Seq(Task)
      /\ \A i \in DOMAIN workQueue' : workQueue'[i].call \in 1 .. calls
      /\ \A d \in Calls : IsToBeAdded(d)' => IsToBeAdded(d)
      /\ \A i, j \in DOMAIN workQueue' :
            workQueue'[i].do = "add" /\ workQueue'[j] = workQueue'[i] => i = j
  BY <1>1, <1>2, TaskTaken
<1>4. CallTypes'
  <2>1. listeners' \subseteq 1 .. calls' /\ raised' \subseteq listeners'
    BY <1>2, TypeFacts
  <2> QED
    BY <1>2, <1>3, <2>1, TypeFacts DEF CallTypes, TypeInv, TypeOK
<1>5. \A d : IsTold(d)' <=> IsTold(d)
  BY <1>2 DEF IsTold
<1>6. AnswersEnd'
  BY <1>2, <1>3, <1>5 DEF OnceInv, AnswersEnd
<1>7. ErrorsAreLast'
  BY <1>2 DEF OnceInv, ErrorsAreLast
<1>8. AddsComeFirst'
  BY <1>2, <1>3, <1>5 DEF OnceInv, AddsComeFirst
<1> QED
  BY <1>4, <1>6, <1>7, <1>8 DEF OnceInv

LEMMA TellStep ==
    ASSUME TypeInv, OnceInv, Quiet, listeners' \in SUBSET listeners, raised' \in SUBSET listeners',
           NEW set \in SUBSET listeners, NEW result \in {"synced", "cached", "error"},
           NEW version \in Versions, Tells(set, result, version),
           result = "error" => listeners' = {}, misled' \in SUBSET (misled \cup listeners)
    PROVE  CallTypes' /\ OnceInv'
<1>1. UNCHANGED <<calls, askedAt, answers, workQueue, muted, joined>>
  BY DEF Quiet, callVars
<1>2. /\ mainQueue' \in Seq(Event)
      /\ \A i \in DOMAIN mainQueue : i \in DOMAIN mainQueue' /\ mainQueue'[i] = mainQueue[i]
      /\ \A i \in DOMAIN mainQueue' : i \notin DOMAIN mainQueue =>
            /\ mainQueue'[i].call \in set /\ mainQueue'[i].result = result
            /\ \A j \in DOMAIN mainQueue : j < i
            /\ \A j \in DOMAIN mainQueue' : j \notin DOMAIN mainQueue /\ i # j =>
                  mainQueue'[i].call # mainQueue'[j].call
      /\ \A i \in DOMAIN mainQueue' : mainQueue'[i].call \in 1 .. calls
  <2>1. set \in SUBSET (1 .. calls)
    BY TypeFacts
  <2>2. ToldTo(set, result, version)
    BY <2>1, Told
  <2> QED
    BY <2>2 DEF ToldTo
<1>3. CallTypes'
  <2>1. /\ listeners' \subseteq 1 .. calls' /\ joined' \subseteq 1 .. calls'
        /\ misled' \subseteq 1 .. calls'
    BY <1>1, TypeFacts
  <2>2. /\ calls' \in 0 .. MaxCalls /\ askedAt' \in [Calls -> Versions]
        /\ answers' \in [Calls -> 0 .. 1] /\ workQueue' \in Seq(Task)
        /\ muted' \subseteq 1 .. calls'
        /\ \A i \in DOMAIN workQueue' : workQueue'[i].call \in 1 .. calls'
    BY <1>1 DEF TypeInv, TypeOK
  <2> QED
    BY <1>1, <1>2, <2>1, <2>2 DEF CallTypes
<1>4. \A d : IsTold(d)' => IsTold(d) \/ d \in listeners
  BY <1>2 DEF IsTold
<1>5. \A d : IsToBeAdded(d)' <=> IsToBeAdded(d)
  BY <1>1 DEF IsToBeAdded
<1>6. AnswersEnd'
  BY <1>1, <1>4, <1>5 DEF OnceInv, AnswersEnd
<1>7. ErrorsAreLast'
  <2> SUFFICES ASSUME NEW i \in DOMAIN mainQueue', mainQueue'[i].result = "error"
               PROVE  /\ mainQueue'[i].call \notin listeners'
                      /\ \A j \in DOMAIN mainQueue' : i < j => mainQueue'[i].call # mainQueue'[j].call
    BY DEF ErrorsAreLast
  <2>1. CASE i \in DOMAIN mainQueue
    <3>1. /\ mainQueue[i].call \notin listeners /\ mainQueue'[i] = mainQueue[i]
          /\ \A j \in DOMAIN mainQueue : i < j => mainQueue[i].call # mainQueue[j].call
      BY <1>2, <2>1 DEF OnceInv, ErrorsAreLast
    <3> QED
      BY <1>2, <3>1
  <2>2. CASE i \notin DOMAIN mainQueue
    <3>1. result = "error" /\ listeners' = {}
      BY <1>2, <2>2
    <3>2. ASSUME NEW j \in DOMAIN mainQueue', i < j PROVE mainQueue'[i].call # mainQueue'[j].call
      <4>1. i \in Nat /\ j \in Nat
        BY <1>2
      <4>2. j \notin DOMAIN mainQueue /\ i # j
        BY <1>2, <2>2, <3>2, <4>1
      <4> QED
        BY <1>2, <2>2, <4>2
    <3> QED
      BY <3>1, <3>2
  <2> QED
    BY <2>1, <2>2
<1>8. AddsComeFirst'
  <2>1. \A d \in Calls : IsToBeAdded(d)' => d \notin listeners' /\ ~ IsTold(d)'
    BY <1>4, <1>5 DEF OnceInv, AddsComeFirst
  <2> QED
    BY <1>1, <2>1 DEF OnceInv, AddsComeFirst
<1> QED
  BY <1>3, <1>6, <1>7, <1>8 DEF OnceInv

LEMMA CallStep == TypeInv /\ OnceInv /\ [Next]_vars => CallTypes' /\ OnceInv'
<1> SUFFICES ASSUME TypeInv, OnceInv, [Next]_vars PROVE CallTypes' /\ OnceInv'
  OBVIOUS
<1>1. CASE GetDocuments
  BY <1>1, AskStep
<1>2. CASE RunEvent
  BY <1>2, RunEventStep
<1>3. ASSUME NEW c \in 1 .. calls, Adds(c) \/ Removes(c) PROVE CallTypes' /\ OnceInv'
  BY <1>3, AddsStep, RemovesStep
<1>4. CASE Changes
  <2>1. PICK set \in SUBSET listeners, result \in {"synced", "cached"}, version \in Versions :
           Tells(set, result, version)
    BY <1>4 DEF Changes
  <2>2. /\ Quiet /\ listeners' \in SUBSET listeners /\ raised' \in SUBSET listeners'
        /\ misled' \in SUBSET (misled \cup listeners)
    BY <1>4 DEF Changes
  <2>3. result \in {"synced", "cached", "error"} /\ result # "error"
    OBVIOUS
  <2> QED
    BY <2>1, <2>2, <2>3, TellStep
<1>5. CASE Fails
  <2>1. /\ Quiet /\ listeners' = {} /\ raised' = {} /\ Tells(listeners, "error", 0)
        /\ listeners' \in SUBSET listeners /\ raised' \in SUBSET listeners'
        /\ misled' \in SUBSET (misled \cup listeners)
    BY <1>5 DEF Fails
  <2>2. 0 \in Versions /\ "error" \in {"synced", "cached", "error"} /\ listeners \in SUBSET listeners
    BY Bounds DEF Versions
  <2> QED
    BY <2>1, <2>2, TellStep
<1> QED
  BY <1>1, <1>2, <1>3, <1>4, <1>5, EventCases

-----------------------------------------------------------------------------
(* The answers among the messages of the server.                           *)

IsAnswer(message) == message.kind \in {"added", "removed"}

LEMMA DueIsFinite ==
    ASSUME NEW q \in Seq(Message)
    PROVE  IsFiniteSet(Due(q)) /\ Cardinality(Due(q)) \in Nat
<1>1. DOMAIN q = 1 .. Len(q) /\ Len(q) \in Nat
  OBVIOUS
<1>2. IsFiniteSet(1 .. Len(q))
  BY <1>1, FS_Interval
<1>3. Due(q) \in SUBSET (1 .. Len(q))
  BY <1>1 DEF Due
<1> QED
  BY <1>2, <1>3, FS_Subset, FS_CardinalityType

LEMMA DueOfNone == Due(<< >>) = {} /\ Cardinality(Due(<< >>)) = 0
<1>1. Due(<< >>) = {}
  BY DEF Due
<1> QED
  BY <1>1, FS_EmptySet

LEMMA DueAppend ==
    ASSUME NEW q \in Seq(Message), NEW e \in Message
    PROVE  /\ IsAnswer(e) => Cardinality(Due(Append(q, e))) = Cardinality(Due(q)) + 1
           /\ ~ IsAnswer(e) => Due(Append(q, e)) = Due(q)
<1> PICK p : p = Append(q, e)
  OBVIOUS
<1>1. /\ DOMAIN q = 1 .. Len(q) /\ Len(q) \in Nat /\ DOMAIN p = 1 .. Len(q) + 1
      /\ \A i \in 1 .. Len(q) : p[i] = q[i]
      /\ p[Len(q) + 1] = e
  BY AppendedElements
<1>2. ASSUME IsAnswer(e) PROVE Cardinality(Due(p)) = Cardinality(Due(q)) + 1
  <2>1. Due(p) = Due(q) \cup {Len(q) + 1} /\ Len(q) + 1 \notin Due(q)
    BY <1>1, <1>2 DEF Due, IsAnswer
  <2> QED
    BY <2>1, DueIsFinite, FS_AddElement
<1>3. ASSUME ~ IsAnswer(e) PROVE Due(p) = Due(q)
  BY <1>1, <1>3 DEF Due, IsAnswer
<1> QED
  BY <1>2, <1>3

LEMMA DueTail ==
    ASSUME NEW q \in Seq(Message), q # << >>
    PROVE  /\ IsAnswer(q[1]) => /\ Cardinality(Due(q)) = Cardinality(Due(Tail(q))) + 1
           /\ ~ IsAnswer(q[1]) => Cardinality(Due(q)) = Cardinality(Due(Tail(q)))
           /\ \A i \in Due(q) : i = 1 \/ i - 1 \in Due(Tail(q))
<1> PICK p : p = Tail(q)
  OBVIOUS
<1> DEFINE rest == Due(q) \ {1}
           f    == [i \in Due(p) |-> i + 1]
<1>1. /\ DOMAIN q = 1 .. Len(q) /\ Len(q) \in Nat \ {0} /\ DOMAIN p = 1 .. Len(q) - 1
      /\ \A i \in 1 .. Len(q) - 1 : p[i] = q[i + 1]
      /\ p \in Seq(Message) /\ 1 \in DOMAIN q
  BY TailElements
<1>2. \A i \in Due(p) : i \in Nat /\ i + 1 \in rest
  BY <1>1 DEF Due
<1>3. \A j \in rest : j \in Nat /\ j - 1 \in Due(p) /\ (j - 1) + 1 = j
  BY <1>1 DEF Due
<1>4. f \in [Due(p) -> rest] /\ (\A i, j \in Due(p) : f[i] = f[j] => i = j)
  BY <1>2
<1>5. \A j \in rest : f[j - 1] = j
  BY <1>2, <1>3
<1> HIDE DEF f, rest
<1>6. f \in Bijection(Due(p), rest)
  BY <1>3, <1>4, <1>5 DEF Bijection, Injection, Surjection, IsInjective
<1>7. Cardinality(Due(p)) = Cardinality(rest)
  BY <1>1, <1>6, DueIsFinite, FS_Bijection DEF ExistsBijection
<1>8. 1 \in Due(q) <=> IsAnswer(q[1])
  BY <1>1 DEF Due, IsAnswer
<1>9. Cardinality(rest) = IF 1 \in Due(q) THEN Cardinality(Due(q)) - 1
                          ELSE Cardinality(Due(q))
  BY DueIsFinite, FS_RemoveElement DEF rest
<1>10. \A i \in Due(q) : i = 1 \/ i - 1 \in Due(p)
  BY <1>3 DEF rest
<1>11. Cardinality(Due(q)) \in Nat /\ Cardinality(Due(p)) \in Nat
  BY <1>1, DueIsFinite
<1> QED
  BY <1>7, <1>8, <1>9, <1>10, <1>11

(* What the server sends of a change *)
IsSent(m) ==
    LET n == Len(fromServer) IN
    /\ fromServer' \in Seq(Message) /\ DOMAIN fromServer' = 1 .. n + m
    /\ Due(fromServer') = Due(fromServer)
    /\ \A i \in 1 .. n : fromServer'[i] = fromServer[i]
    /\ fromServer'[n + 1] = [kind |-> "documents", version |-> cloud]
    /\ m = 3 => fromServer'[n + 2] = [kind |-> "current"]
    /\ fromServer'[n + m] = [kind |-> "snapshot"]

LEMMA Sent ==
    ASSUME TypeInv, ServerSends
    PROVE  \E m \in {2, 3} : IsSent(m)
<1> DEFINE n == Len(fromServer)
           documents == [kind |-> "documents", version |-> cloud]
           current   == [kind |-> "current"]
           snapshot  == [kind |-> "snapshot"]
<1> PICK one : one = Append(fromServer, documents)
  OBVIOUS
<1> PICK two : two = Append(one, current)
  OBVIOUS
<1>1. fromServer \in Seq(Message) /\ cloud \in Versions
  BY TypeFacts
<1>2. /\ documents \in Message /\ current \in Message /\ snapshot \in Message
      /\ ~ IsAnswer(documents) /\ ~ IsAnswer(current) /\ ~ IsAnswer(snapshot)
  BY <1>1 DEF Message, IsAnswer
<1> HIDE DEF documents, current, snapshot
<1>3. /\ one \in Seq(Message) /\ Len(one) = n + 1 /\ n \in Nat
      /\ \A i \in 1 .. n : one[i] = fromServer[i]
      /\ one[n + 1] = documents
  BY <1>1, <1>2, AppendedElements
<1>4. /\ two \in Seq(Message) /\ Len(two) = n + 2
      /\ \A i \in 1 .. n + 1 : two[i] = one[i]
      /\ two[n + 2] = current
  BY <1>2, <1>3, AppendedElements
<1>5. Due(one) = Due(fromServer) /\ Due(two) = Due(one)
  BY <1>1, <1>2, <1>3, DueAppend
<1>6. fromServer' = Append(one, snapshot) \/ fromServer' = Append(two, snapshot)
  <2>1. \/ fromServer' = fromServer \o <<documents>> \o <<current>> \o <<snapshot>>
        \/ fromServer' = fromServer \o <<documents>> \o << >> \o <<snapshot>>
    BY DEF ServerSends, documents, current, snapshot
  <2>2. fromServer \o <<documents>> = one
    BY <1>1, <1>2
  <2>3. one \o <<current>> = two /\ one \o << >> = one
    BY <1>2, <1>3
  <2>4. one \o <<snapshot>> = Append(one, snapshot) /\ two \o <<snapshot>> = Append(two, snapshot)
    BY <1>2, <1>3, <1>4
  <2> QED
    BY <2>1, <2>2, <2>3, <2>4
<1> HIDE DEF n
<1>7. CASE fromServer' = Append(one, snapshot)
  <2>1. /\ fromServer' \in Seq(Message) /\ DOMAIN fromServer' = 1 .. n + 2
        /\ \A i \in 1 .. n + 1 : fromServer'[i] = one[i]
        /\ fromServer'[n + 2] = snapshot
    <3>1. (n + 1) + 1 = n + 2
      BY <1>3
    <3> QED
      BY <1>2, <1>3, <1>7, <3>1, AppendedElements
  <2>2. Due(fromServer') = Due(fromServer)
    BY <1>2, <1>3, <1>5, <1>7, DueAppend
  <2>3. \A i \in 1 .. n : fromServer'[i] = fromServer[i]
    BY <1>3, <2>1
  <2>4. fromServer'[n + 1] = documents
    BY <1>3, <2>1
  <2>5. IsSent(2)
    BY <2>1, <2>2, <2>3, <2>4 DEF IsSent, n, documents, snapshot
  <2> QED
    BY <2>5
<1>8. CASE fromServer' = Append(two, snapshot)
  <2>1. /\ fromServer' \in Seq(Message) /\ DOMAIN fromServer' = 1 .. n + 3
        /\ \A i \in 1 .. n + 2 : fromServer'[i] = two[i]
        /\ fromServer'[n + 3] = snapshot
    <3>1. (n + 2) + 1 = n + 3
      BY <1>3
    <3> QED
      BY <1>2, <1>4, <1>8, <3>1, AppendedElements
  <2>2. Due(fromServer') = Due(fromServer)
    BY <1>2, <1>4, <1>5, <1>8, DueAppend
  <2>3. \A i \in 1 .. n : fromServer'[i] = fromServer[i]
    BY <1>3, <1>4, <2>1
  <2>4. fromServer'[n + 1] = documents /\ fromServer'[n + 2] = current
    BY <1>3, <1>4, <2>1
  <2>5. IsSent(3)
    BY <2>1, <2>2, <2>3, <2>4 DEF IsSent, n, documents, current, snapshot
  <2> QED
    BY <2>5
<1> QED
  BY <1>6, <1>7, <1>8

-----------------------------------------------------------------------------
(* What the steps do to the stream and the target.                         *)

StreamStates == {"Initial", "Starting", "Backoff", "Open", "Error"}

(* The listeners that found the query not listened to, and were told of    *)
(* nothing by a stream on which a rejection has crossed requests           *)
Owners == listeners \ (joined \cup misled)

OwnersKept == Owners' \subseteq Owners /\ \A c \in Owners : askedAt'[c] = askedAt[c]

LinkSame == UNCHANGED <<stream, toServer, fromServer, target, crossed>> /\ OwnersKept

(* Nothing is on the stream, or there is none. *)
LinkClean ==
    /\ stream' \in StreamStates /\ toServer' = << >> /\ fromServer' = << >>
    /\ target' = NewTarget /\ crossed' = FALSE

LinkAsks ==
    /\ stream' = "Open" /\ UNCHANGED <<fromServer, crossed>>
    /\ \E request \in {"watch", "unwatch"} : toServer' = Append(toServer, request)
    /\ target' = RecordPendingTargetRequest(target)

(* A request is answered, or it is not and a rejection may be sent. *)
LinkAnswers ==
    /\ toServer # << >> /\ toServer' = Tail(toServer)
    /\ \E kind \in {"added", "removed"} : fromServer' = Append(fromServer, [kind |-> kind])

LinkSkips ==
    /\ toServer # << >> /\ toServer' = Tail(toServer)
    /\ \/ UNCHANGED fromServer
       \/ fromServer' = Append(fromServer, [kind |-> "rejected"])

ClientReceives == HandleTargetChange \/ HandleDocumentChange \/ RaiseWatchSnapshot

LEMMA NewTargetType == NewTarget \in Target /\ NewTarget.pending = 0 /\ ~ NewTarget.known
  BY Bounds DEF NewTarget, Target, Versions

LEMMA RecordTypes ==
    ASSUME NEW t \in Target
    PROVE  /\ RecordPendingTargetRequest(t) \in Target
           /\ RecordPendingTargetRequest(t).pending = t.pending + 1
           /\ Erased(t) \in Target /\ Erased(t).pending = 0 /\ ~ Erased(t).known
           /\ Ensured(t) \in Target /\ Ensured(t).pending = t.pending
           /\ Ensured(t).changed = t.changed /\ Ensured(t).documents = t.documents
<1>1. /\ Ensured(t) \in Target /\ Ensured(t).pending = t.pending
      /\ Ensured(t).changed = t.changed /\ Ensured(t).documents = t.documents
  BY DEF Ensured, Target
<1>2. Erased(t) \in Target /\ Erased(t).pending = 0 /\ ~ Erased(t).known
  <2>1. /\ NewTarget \in Target /\ NewTarget.pending = 0 /\ ~ NewTarget.known
        /\ t.documents \in Versions
    BY NewTargetType DEF Target
  <2> QED
    BY <2>1 DEF Erased, Target
<1>3. /\ RecordPendingTargetRequest(t) \in Target
      /\ RecordPendingTargetRequest(t).pending = t.pending + 1
  BY <1>1 DEF RecordPendingTargetRequest, Target
<1> QED
  BY <1>1, <1>2, <1>3

(* A closed stream stays clean, whatever becomes of it. *)
LEMMA ClosedIsClean ==
    ASSUME TypeInv, StreamInv, ~ IsOpen, UNCHANGED <<toServer, fromServer, target, crossed>>,
           stream' \in StreamStates
    PROVE  LinkClean
<1>1. toServer = << >> /\ fromServer = << >> /\ target = NewTarget /\ crossed = FALSE
  BY DEF StreamInv
<1> QED
  BY <1>1 DEF LinkClean

LEMMA TaskLink ==
    ASSUME TypeInv, StreamInv, RunTask
    PROVE  LinkSame \/ LinkClean \/ LinkAsks
<1> PICK c : c = Head(workQueue).call
  OBVIOUS
<1>1. JoinQuery(c) \/ Listen(c) \/ RemoveQueryListener(c)
  BY DEF RunTask, AddQueryListener
<1>2. UNCHANGED askedAt
  BY DEF RunTask, callVars
<1>3. stream \in StreamStates
  BY DEF TypeInv, TypeOK, StreamStates
<1>4. CASE JoinQuery(c)
  BY <1>2, <1>4 DEF JoinQuery, streamVars, LinkSame, OwnersKept, Owners
<1>5. CASE Listen(c)
  <2>1. CASE ~ IsStarted
    <3>1. ~ IsOpen
      BY <2>1 DEF IsStarted, IsOpen
    <3>2. toServer = << >> /\ fromServer = << >> /\ crossed = FALSE
      BY <3>1 DEF StreamInv
    <3>3. stream' \in StreamStates /\ target' = NewTarget
          /\ UNCHANGED <<toServer, fromServer, crossed>>
      BY <1>5, <2>1 DEF Listen, StartedStream, StreamStates
    <3> QED
      BY <3>2, <3>3 DEF LinkClean
  <2>2. CASE IsStarted /\ IsOpen
    BY <1>5, <2>2 DEF Listen, SendWatchRequest, LinkAsks, IsOpen
  <2>3. CASE IsStarted /\ ~ IsOpen
    <3>1. UNCHANGED <<stream, toServer, fromServer, target, crossed>>
      BY <1>5, <2>3 DEF Listen
    <3> QED
      BY <1>3, <2>3, <3>1, ClosedIsClean
  <2> QED
    BY <2>1, <2>2, <2>3
<1>6. CASE RemoveQueryListener(c)
  <2>1. UNCHANGED <<stream, fromServer, crossed, joined, misled>> /\ listeners' = listeners \ {c}
    BY <1>6 DEF RemoveQueryListener
  <2>2. CASE UNCHANGED <<toServer, target>>
    BY <1>2, <2>1, <2>2 DEF LinkSame, OwnersKept, Owners
  <2>3. CASE IsOpen /\ toServer' = Append(toServer, "unwatch")
             /\ target' = RecordPendingTargetRequest(target)
    BY <2>1, <2>3 DEF LinkAsks, IsOpen
  <2> QED
    BY <1>6, <2>2, <2>3 DEF RemoveQueryListener, StopListening
<1> QED
  BY <1>1, <1>4, <1>5, <1>6

LEMMA DisconnectedIsClean ==
    ASSUME Disconnected, stream' \in StreamStates
    PROVE  LinkClean
  BY DEF Disconnected, LinkClean

LEMMA LinkCases ==
    ASSUME TypeInv, StreamInv, [Next]_vars
    PROVE  \/ LinkSame \/ LinkClean \/ LinkAsks
           \/ ClientReceives \/ ProcessTargetError
           \/ ServerReceives \/ ServerSends \/ ServerRejects
<1>0. stream \in StreamStates /\ listeners \in SUBSET (1 .. calls) /\ calls \in Nat
      /\ askedAt \in [Calls -> Versions]
  BY TypeFacts DEF TypeInv, TypeOK, StreamStates
<1>1. CASE GetDocuments
  <2>1. UNCHANGED <<stream, toServer, fromServer, target, crossed, listeners, joined, misled>>
        /\ askedAt' = [askedAt EXCEPT ![calls + 1] = cloud]
    BY <1>1 DEF GetDocuments, streamVars, listenVars
  <2>2. calls + 1 \notin Owners
    BY <1>0 DEF Owners
  <2>3. \A c \in Owners : askedAt'[c] = askedAt[c]
    BY <1>0, <2>1, <2>2
  <2> QED
    BY <2>1, <2>3 DEF LinkSame, OwnersKept, Owners
<1>2. CASE RunEvent
  BY <1>2 DEF RunEvent, streamVars, listenVars, LinkSame, OwnersKept, Owners
<1>3. CASE RunTask
  BY <1>3, TaskLink
<1>4. CASE OnlineTimeout
  BY <1>4 DEF OnlineTimeout, callVars, streamVars, LinkSame, OwnersKept, Owners
<1>5. CASE StreamOpens
  <2>1. stream = "Starting" /\ stream' = "Open" /\ UNCHANGED <<fromServer, crossed>>
    BY <1>5 DEF StreamOpens
  <2>2. CASE IsListening
    BY <1>5, <2>1, <2>2 DEF StreamOpens, SendWatchRequest, LinkAsks
  <2>3. CASE ~ IsListening
    <3>1. UNCHANGED <<toServer, target>>
      BY <1>5, <2>3 DEF StreamOpens
    <3>2. stream' \in StreamStates /\ ~ IsOpen
      BY <2>1 DEF StreamStates, IsOpen
    <3> QED
      BY <2>1, <3>1, <3>2, ClosedIsClean
  <2> QED
    BY <2>2, <2>3
<1>6. CASE BackoffElapses
  <2>1. stream' \in StreamStates /\ ~ IsOpen /\ UNCHANGED <<toServer, fromServer, target, crossed>>
    BY <1>6 DEF BackoffElapses, StreamStates, IsOpen
  <2> QED
    BY <2>1, ClosedIsClean
<1>7. CASE StreamFails
  <2>1. Disconnected /\ stream' \in StreamStates
    BY <1>7 DEF StreamFails, StreamStates
  <2> QED
    BY <2>1, DisconnectedIsClean
<1>8. CASE IdleTimeout
  <2>1. Disconnected /\ stream' \in StreamStates
    BY <1>8 DEF IdleTimeout, StreamStates
  <2> QED
    BY <2>1, DisconnectedIsClean
<1>9. CASE HandleCredentialChange
  <2>1. Disconnected /\ stream' \in StreamStates
    BY <1>0, <1>9 DEF HandleCredentialChange, StartedStream, StreamStates
  <2> QED
    BY <2>1, DisconnectedIsClean
<1>10. CASE Exchange \/ ServerRejects
  BY <1>10 DEF Exchange, ClientReceives
<1>11. CASE CloudChanges
  BY <1>11 DEF CloudChanges, OnlyServer, callVars, listenVars, LinkSame, OwnersKept, Owners
<1>12. CASE UNCHANGED vars
  BY <1>12 DEF vars, callVars, listenVars, streamVars, LinkSame, OwnersKept, Owners
<1> QED
  BY <1>1, <1>2, <1>3, <1>4, <1>5, <1>6, <1>7, <1>8, <1>9, <1>10, <1>11, <1>12 DEF Next

(* The client has taken a message from the stream. *)
LEMMA MessageTaken ==
    ASSUME TypeInv, ClientReceives
    PROVE  /\ IsOpen /\ UNCHANGED <<stream, toServer>> /\ fromServer # << >>
           /\ fromServer' = Tail(fromServer) /\ fromServer' \in Seq(Message)
           /\ Head(fromServer) = fromServer[1] /\ fromServer[1] \in Message
           /\ UNCHANGED <<listeners, joined, askedAt, cloud, served, crossed>>
<1>1. Received /\ UNCHANGED <<listeners, crossed>>
  BY DEF ClientReceives, HandleTargetChange, HandleDocumentChange, RaiseWatchSnapshot
<1> QED
  BY <1>1, TypeFacts, TailElements DEF Received, callVars

LEMMA PendingTaken ==
    ASSUME TypeInv, ClientReceives
    PROVE  /\ target' \in Target
           /\ IsAnswer(fromServer[1]) => target.pending = target'.pending + 1
           /\ ~ IsAnswer(fromServer[1]) => target.pending = target'.pending
<1> PICK message : message = fromServer[1]
  OBVIOUS
<1> PICK state : state = Ensured(target)
  OBVIOUS
<1>1. message \in Message /\ message = Head(fromServer)
  BY MessageTaken
<1>2. target \in Target /\ target.pending \in Int
  BY TypeFacts
<1>3. state \in Target /\ state.pending = target.pending
  BY <1>2, RecordTypes
<1>4. CASE HandleTargetChange
  <2>1. CASE /\ message.kind = "added"
             /\ target' = [state EXCEPT !.pending = target.pending - 1,
                              !.changed = IF target.pending - 1 = 0 THEN FALSE ELSE @]
    <3>1. ASSUME NEW flag \in BOOLEAN,
                 target' = [state EXCEPT !.pending = target.pending - 1, !.changed = flag]
          PROVE  target' \in Target /\ target'.pending = target.pending - 1
      <4>1. target' = [known |-> state.known, pending |-> target.pending - 1,
                       current |-> state.current, changed |-> flag,
                       documents |-> state.documents]
        BY <1>3, <3>1 DEF Target
      <4>2. /\ state.known \in BOOLEAN /\ state.current \in BOOLEAN
            /\ state.documents \in Versions /\ target.pending - 1 \in Int
        BY <1>2, <1>3 DEF Target
      <4> QED
        BY <4>1, <4>2 DEF Target
    <3>2. (IF target.pending - 1 = 0 THEN FALSE ELSE state.changed) \in BOOLEAN
      BY <1>3 DEF Target
    <3>3. target' = [state EXCEPT !.pending = target.pending - 1,
                       !.changed = IF target.pending - 1 = 0 THEN FALSE ELSE state.changed]
      BY <1>3, <2>1 DEF Target
    <3>4. target' \in Target /\ target'.pending = target.pending - 1
      BY <3>1, <3>2, <3>3
    <3> QED
      BY <1>2, <2>1, <3>4 DEF IsAnswer
  <2>2. CASE /\ message.kind = "removed"
             /\ target' = IF target.pending - 1 = 0 THEN Erased(target)
                          ELSE [state EXCEPT !.pending = target.pending - 1]
    <3>1. CASE target.pending - 1 = 0
      <4>1. target'.pending = 0 /\ target' \in Target
        BY <1>2, <2>2, <3>1, RecordTypes
      <4> QED
        BY <1>2, <2>2, <3>1, <4>1 DEF IsAnswer
    <3>2. CASE target.pending - 1 # 0
      BY <1>2, <1>3, <2>2, <3>2 DEF IsAnswer, Target
    <3> QED
      BY <3>1, <3>2
  <2>3. CASE /\ message.kind = "current"
             /\ target' = IF IsActiveTarget THEN [state EXCEPT !.current = TRUE, !.changed = TRUE]
                          ELSE state
    BY <1>2, <1>3, <2>3 DEF IsAnswer, Target
  <2> QED
    BY <1>1, <1>4, <2>1, <2>2, <2>3 DEF HandleTargetChange
<1>5. CASE HandleDocumentChange
  <2>1. message.kind = "documents" /\ message \in Message
    BY <1>1, <1>5 DEF HandleDocumentChange
  <2>2. message.version \in Versions
    BY <2>1 DEF Message
  <2>3. \/ target' = [state EXCEPT !.documents = message.version, !.changed = TRUE]
        \/ target' = target
    BY <1>1, <1>5 DEF HandleDocumentChange
  <2> QED
    BY <1>2, <1>3, <2>1, <2>2, <2>3 DEF IsAnswer, Target
<1>6. CASE RaiseWatchSnapshot
  <2>1. message.kind = "snapshot"
        /\ (target' = [target EXCEPT !.changed = FALSE] \/ target' = target)
    BY <1>1, <1>6 DEF RaiseWatchSnapshot
  <2> QED
    BY <1>2, <2>1 DEF IsAnswer, Target
<1> QED
  BY <1>4, <1>5, <1>6 DEF ClientReceives

(* What the server does with a request *)
LEMMA RequestTaken ==
    ASSUME TypeInv, ServerReceives
    PROVE  LinkAnswers \/ LinkSkips
  BY DEF ServerReceives, Reject, LinkAnswers, LinkSkips

LEMMA RejectionSent ==
    ASSUME NEW q \in Seq(Message)
    PROVE  LET p == Append(q, [kind |-> "rejected"])
           IN  /\ p \in Seq(Message) /\ Due(p) = Due(q) /\ Len(q) \in Nat
               /\ DOMAIN q = 1 .. Len(q) /\ DOMAIN p = 1 .. Len(q) + 1
               /\ \A i \in 1 .. Len(q) : p[i] = q[i]
               /\ p[Len(q) + 1] = [kind |-> "rejected"]
<1>1. [kind |-> "rejected"] \in Message /\ ~ IsAnswer([kind |-> "rejected"])
  BY DEF Message, IsAnswer
<1> QED
  BY <1>1, AppendedElements, DueAppend

LinkTypes ==
    /\ stream \in StreamStates
    /\ toServer \in Seq({"watch", "unwatch"}) /\ fromServer \in Seq(Message)
    /\ target \in Target /\ crossed \in BOOLEAN

LEMMA LinkInit == Init => LinkTypes /\ StreamInv
<1> SUFFICES ASSUME Init PROVE LinkTypes /\ StreamInv
  OBVIOUS
<1>1. /\ toServer = << >> /\ fromServer = << >> /\ target = NewTarget /\ stream = "Initial"
      /\ crossed = FALSE
  BY DEF Init
<1>2. Len(toServer) = 0 /\ Cardinality(Due(fromServer)) = 0
  BY <1>1, DueOfNone
<1>3. crossed \in BOOLEAN /\ target \in Target /\ target.pending = 0
  BY <1>1, NewTargetType
<1>4. StreamInv
  BY <1>1, <1>2, <1>3 DEF StreamInv
<1> QED
  BY <1>1, <1>3, <1>4 DEF LinkTypes, StreamStates

(* Every request that is sent is counted, until its answer is there. *)
LEMMA LinkStep ==
    ASSUME TypeInv, StreamInv, [Next]_vars
    PROVE  LinkTypes' /\ StreamInv'
<1>1. /\ stream \in StreamStates /\ toServer \in Seq({"watch", "unwatch"})
      /\ fromServer \in Seq(Message) /\ target \in Target /\ target.pending \in Int
      /\ crossed \in BOOLEAN
  BY TypeFacts DEF TypeInv, TypeOK, StreamStates
<1>2. /\ ~ crossed => target.pending >= Len(toServer) + Cardinality(Due(fromServer))
      /\ Len(toServer) \in Nat /\ Cardinality(Due(fromServer)) \in Nat
  BY <1>1, DueIsFinite DEF StreamInv
<1>3. CASE LinkSame
  BY <1>1, <1>3 DEF LinkSame, LinkTypes, StreamInv, IsOpen
<1>4. CASE LinkClean
  <2>1. toServer' = << >> /\ fromServer' = << >> /\ target' = NewTarget /\ crossed' = FALSE
    BY <1>4 DEF LinkClean
  <2>2. Len(toServer') = 0 /\ Cardinality(Due(fromServer')) = 0
    BY <2>1, DueOfNone
  <2>3. target'.pending = 0 /\ target' \in Target /\ crossed' \in BOOLEAN
    BY <2>1, NewTargetType
  <2>4. StreamInv'
    BY <2>1, <2>2, <2>3 DEF StreamInv
  <2> QED
    BY <1>4, <2>1, <2>3, <2>4 DEF LinkClean, LinkTypes
<1>5. CASE LinkAsks
  <2>1. PICK request \in {"watch", "unwatch"} : toServer' = Append(toServer, request)
    BY <1>5 DEF LinkAsks
  <2>2. toServer' \in Seq({"watch", "unwatch"}) /\ Len(toServer') = Len(toServer) + 1
    BY <1>1, <2>1
  <2>3. target' \in Target /\ target'.pending = target.pending + 1
    BY <1>1, <1>5, RecordTypes DEF LinkAsks
  <2>4. UNCHANGED <<fromServer, crossed>> /\ stream' = "Open"
    BY <1>5 DEF LinkAsks
  <2>5. StreamInv'
    BY <1>1, <1>2, <2>2, <2>3, <2>4 DEF StreamInv, IsOpen
  <2> QED
    BY <1>1, <2>2, <2>3, <2>4, <2>5 DEF LinkTypes, StreamStates
<1>6. CASE ClientReceives
  <2>1. /\ IsOpen /\ UNCHANGED <<stream, toServer, crossed>> /\ fromServer # << >>
        /\ fromServer' = Tail(fromServer) /\ fromServer' \in Seq(Message)
    BY <1>6, MessageTaken
  <2>2. /\ target' \in Target
        /\ IsAnswer(fromServer[1]) => target.pending = target'.pending + 1
        /\ ~ IsAnswer(fromServer[1]) => target.pending = target'.pending
    BY <1>6, PendingTaken
  <2>3. /\ IsAnswer(fromServer[1]) =>
              Cardinality(Due(fromServer)) = Cardinality(Due(fromServer')) + 1
        /\ ~ IsAnswer(fromServer[1]) => Cardinality(Due(fromServer)) = Cardinality(Due(fromServer'))
    BY <1>1, <2>1, DueTail
  <2>4. target'.pending \in Int /\ Cardinality(Due(fromServer')) \in Nat
    BY <2>1, <2>2, DueIsFinite DEF Target
  <2>5. ~ crossed => target'.pending >= Len(toServer) + Cardinality(Due(fromServer'))
    BY <1>1, <1>2, <2>2, <2>3, <2>4
  <2>6. StreamInv'
    BY <2>1, <2>5 DEF StreamInv, IsOpen
  <2> QED
    BY <1>1, <2>1, <2>2, <2>6 DEF LinkTypes
<1>7. CASE ProcessTargetError
  <2>1. /\ IsOpen /\ UNCHANGED <<stream, toServer>> /\ fromServer # << >>
        /\ fromServer' = Tail(fromServer)
        /\ target' = Erased(target) \/ target' = target
        /\ ~ crossed' => /\ target' = Erased(target) /\ toServer = << >>
                         /\ ~ HasAnswers(fromServer')
        /\ crossed' \in BOOLEAN
    BY <1>1, <1>7 DEF ProcessTargetError, Received
  <2>2. fromServer' \in Seq(Message)
    BY <1>1, <2>1, TailElements
  <2>3. target' \in Target /\ (target' = Erased(target) => target'.pending = 0)
    BY <1>1, <2>1, RecordTypes
  <2>4. ASSUME ~ crossed' PROVE target'.pending >= Len(toServer') + Cardinality(Due(fromServer'))
    <3>1. Due(fromServer') = {}
      BY <2>1, <2>4 DEF HasAnswers, Due
    <3>2. Cardinality(Due(fromServer')) = 0
      BY <3>1, FS_EmptySet
    <3>3. Len(toServer') = 0
      BY <2>1, <2>4
    <3> QED
      BY <2>1, <2>3, <2>4, <3>2, <3>3
  <2>5. StreamInv'
    BY <2>1, <2>4 DEF StreamInv, IsOpen
  <2> QED
    BY <1>1, <2>1, <2>2, <2>3, <2>5 DEF LinkTypes
<1>8. CASE ServerReceives
  <2>1. UNCHANGED <<stream, target, crossed>> /\ IsOpen
    BY <1>8 DEF ServerReceives, OnlyServer
  <2>2. toServer # << >> /\ toServer' = Tail(toServer)
    BY <1>8 DEF ServerReceives
  <2>3. toServer' \in Seq({"watch", "unwatch"}) /\ Len(toServer') = Len(toServer) - 1
    BY <1>1, <2>2
  <2>4. /\ fromServer' \in Seq(Message)
        /\ Cardinality(Due(fromServer')) \in Nat
        /\ Cardinality(Due(fromServer')) <= Cardinality(Due(fromServer)) + 1
    <3>1. ASSUME NEW kind \in {"added", "removed"}, fromServer' = Append(fromServer, [kind |-> kind])
          PROVE  /\ fromServer' \in Seq(Message)
                 /\ Cardinality(Due(fromServer')) = Cardinality(Due(fromServer)) + 1
      <4>1. [kind |-> kind] \in Message /\ IsAnswer([kind |-> kind])
        BY DEF Message, IsAnswer
      <4> QED
        BY <1>1, <3>1, <4>1, DueAppend, AppendedElements
    <3>2. ASSUME fromServer' = Append(fromServer, [kind |-> "rejected"])
          PROVE  fromServer' \in Seq(Message) /\ Due(fromServer') = Due(fromServer)
      BY <1>1, <3>2, RejectionSent
    <3> QED
      BY <1>1, <1>2, <1>8, <3>1, <3>2, RequestTaken DEF LinkAnswers, LinkSkips
  <2>5. ~ crossed => target.pending >= Len(toServer') + Cardinality(Due(fromServer'))
    BY <1>1, <1>2, <2>3, <2>4
  <2>6. StreamInv'
    BY <2>1, <2>5 DEF StreamInv, IsOpen
  <2> QED
    BY <1>1, <2>1, <2>3, <2>4, <2>6 DEF LinkTypes
<1>9. CASE ServerSends
  <2>1. UNCHANGED <<stream, target, toServer, crossed>> /\ IsOpen
    BY <1>9 DEF ServerSends, OnlyServer
  <2>2. PICK m \in {2, 3} : IsSent(m)
    BY <1>9, Sent
  <2>3. fromServer' \in Seq(Message) /\ Due(fromServer') = Due(fromServer)
    BY <2>2 DEF IsSent
  <2> QED
    BY <1>1, <1>2, <2>1, <2>3 DEF LinkTypes, StreamInv, IsOpen
<1>10. CASE ServerRejects
  <2>1. UNCHANGED <<stream, target, toServer, crossed>> /\ IsOpen
    BY <1>10 DEF ServerRejects, OnlyServer
  <2>2. fromServer' = Append(fromServer, [kind |-> "rejected"])
    BY <1>10 DEF ServerRejects, Reject
  <2>3. fromServer' \in Seq(Message) /\ Due(fromServer') = Due(fromServer)
    BY <1>1, <2>2, RejectionSent
  <2> QED
    BY <1>1, <1>2, <2>1, <2>3 DEF LinkTypes, StreamInv, IsOpen
<1> QED
  BY <1>3, <1>4, <1>5, <1>6, <1>7, <1>8, <1>9, <1>10, LinkCases

-----------------------------------------------------------------------------
(* No assertion fails.                                                     *)

LEMMA UpdateIsSound ==
    ASSUME NEW state \in {"Unknown", "Online"}, NEW seen \in Nat
    PROVE  IsSound(UpdateState(state), seen) /\ ~ UpdateState(state).timer
  BY DEF IsSound, UpdateState

LEMMA StartIsSound ==
    ASSUME NEW seen \in Nat, NEW t, IsSound(t, seen), ~ t.timer
    PROVE  IsSound(HandleWatchStreamStart(t), seen) /\ StartAsserts(t)
  BY DEF IsSound, HandleWatchStreamStart, StartAsserts

LEMMA FailureIsSound ==
    ASSUME NEW seen \in Nat, NEW t, IsSound(t, seen)
    PROVE  /\ IsSound(HandleWatchStreamFailure(t), seen + 1)
           /\ ~ HandleWatchStreamFailure(t).timer /\ FailureAsserts(t)
<1>1. /\ t \in [state : {"Unknown", "Online", "Offline"}, failures : Nat, timer : BOOLEAN]
      /\ t.failures \in Nat /\ t.failures <= seen /\ t.failures + 1 <= seen + 1
      /\ t.failures <= seen + 1
  BY DEF IsSound
<1>2. CASE t.state = "Online"
  <2>1. t.failures = 0 /\ ~ t.timer
    BY <1>2 DEF IsSound
  <2>2. HandleWatchStreamFailure(t) = [t EXCEPT !.state = "Unknown"]
    BY <1>2 DEF HandleWatchStreamFailure
  <2>3. IsSound([t EXCEPT !.state = "Unknown"], seen + 1) /\ ~ [t EXCEPT !.state = "Unknown"].timer
    BY <1>1, <2>1 DEF IsSound
  <2> QED
    BY <2>1, <2>2, <2>3 DEF FailureAsserts
<1>3. CASE t.state # "Online"
  <2>1. HandleWatchStreamFailure(t) =
           [state |-> "Offline", failures |-> t.failures + 1, timer |-> FALSE]
    BY <1>3 DEF HandleWatchStreamFailure
  <2> QED
    BY <1>1, <1>3, <2>1 DEF IsSound, FailureAsserts
<1> QED
  BY <1>2, <1>3

TrackerTypes ==
    /\ {idle, inherited, failed} \subseteq BOOLEAN
    /\ tracker \in Tracker
    /\ breaks \in 0 .. MaxBreaks

LEMMA SoundTypes ==
    ASSUME NEW seen \in 0 .. MaxBreaks, NEW t, IsSound(t, seen)
    PROVE  t \in Tracker
<1>1. t.failures \in 0 .. MaxBreaks
  BY Bounds DEF IsSound
<1> QED
  BY <1>1 DEF IsSound, Tracker

(* Neither the tracker nor the stream change; the query is not listened to *)
(* anew.                                                                   *)
TrackerSame ==
    /\ UNCHANGED <<tracker, stream, idle, failed, breaks>> /\ inherited' \in BOOLEAN
    /\ ~ IsListening => ~ IsListening'

(* What the invariant and the types come to *)
TrackerNext ==
    /\ IsSound(tracker', breaks')
    /\ tracker'.timer => IsStarted'
    /\ idle' => IsOpen' /\ ~ IsListening'
    /\ idle' \in BOOLEAN /\ inherited' \in BOOLEAN /\ failed' = FALSE
    /\ breaks' \in 0 .. MaxBreaks

LEMMA TrackerFacts ==
    ASSUME TypeInv, TrackerInv
    PROVE  /\ idle \in BOOLEAN /\ inherited \in BOOLEAN /\ failed = FALSE
           /\ breaks \in 0 .. MaxBreaks /\ breaks \in Nat
           /\ stream \in StreamStates
           /\ IsSound(tracker, breaks) /\ (tracker.timer => IsStarted)
           /\ idle => IsOpen /\ ~ IsListening
<1>1. {idle, inherited, failed} \subseteq BOOLEAN /\ ~ failed
  BY DEF TypeInv, TypeOK, TrackerInv, NoAssertionFails
<1>2. failed = FALSE
  BY <1>1
<1> QED
  BY <1>1, <1>2 DEF TypeInv, TypeOK, TrackerInv, StreamStates

LEMMA SameTracker ==
    ASSUME TypeInv, TrackerInv, TrackerSame
    PROVE  TrackerNext
  BY TrackerFacts DEF TrackerSame, TrackerNext, IsStarted, IsOpen

LEMMA TaskTracker ==
    ASSUME TypeInv, TrackerInv, RunTask
    PROVE  TrackerNext
<1> PICK c : c = Head(workQueue).call
  OBVIOUS
<1>1. UNCHANGED breaks
  BY DEF RunTask
<1>2. /\ idle \in BOOLEAN /\ inherited \in BOOLEAN /\ failed = FALSE /\ breaks \in Nat
      /\ breaks' \in 0 .. MaxBreaks
      /\ IsSound(tracker, breaks) /\ (tracker.timer => IsStarted)
      /\ idle => IsOpen /\ ~ IsListening
  BY <1>1, TrackerFacts
<1>3. CASE IsListening /\ JoinQuery(c)
  <2>1. TrackerSame
    BY <1>1, <1>2, <1>3 DEF JoinQuery, TrackerSame, streamVars
  <2> QED
    BY <2>1, SameTracker
<1>4. CASE Listen(c)
  <2>1. CASE ~ IsStarted
    <3>1. /\ stream' = StartedStream(stream) /\ tracker' = HandleWatchStreamStart(tracker)
          /\ failed' = (failed \/ ~ StartAsserts(tracker)) /\ UNCHANGED <<idle, inherited>>
      BY <1>4, <2>1 DEF Listen
    <3>2. ~ tracker.timer /\ ~ idle
      BY <1>2, <2>1 DEF IsStarted, IsOpen
    <3>3. IsSound(tracker', breaks') /\ StartAsserts(tracker)
      BY <1>1, <1>2, <3>1, <3>2, StartIsSound
    <3>4. IsStarted'
      BY <3>1 DEF IsStarted, StartedStream
    <3>5. failed' = FALSE
      BY <1>2, <3>1, <3>3
    <3> QED
      BY <1>2, <3>1, <3>2, <3>3, <3>4, <3>5 DEF TrackerNext
  <2>2. CASE IsStarted /\ IsOpen
    <3>1. idle' = FALSE /\ UNCHANGED <<stream, tracker, inherited, failed>>
      BY <1>4, <2>2 DEF Listen, SendWatchRequest
    <3> QED
      BY <1>1, <1>2, <2>2, <3>1 DEF TrackerNext, IsStarted
  <2>3. CASE IsStarted /\ ~ IsOpen
    <3>1. inherited' = TRUE /\ UNCHANGED <<stream, idle, tracker, failed>>
      BY <1>4, <2>3 DEF Listen
    <3> QED
      BY <1>1, <1>2, <2>3, <3>1 DEF TrackerNext, IsStarted
  <2> QED
    BY <2>1, <2>2, <2>3
<1>5. CASE RemoveQueryListener(c)
  <2>1. UNCHANGED <<stream, failed>> /\ listeners' = listeners \ {c}
    BY <1>5 DEF RemoveQueryListener
  <2>2. CASE listeners = {c}
    <3>1. StopListening /\ inherited' = FALSE
      BY <1>5, <2>2 DEF RemoveQueryListener
    <3>2. ~ IsListening' /\ IsListening
      BY <2>1, <2>2 DEF IsListening
    <3>3. CASE IsOpen
      <4>1. idle' = TRUE /\ UNCHANGED tracker
        BY <3>1, <3>3 DEF StopListening
      <4> QED
        BY <1>1, <1>2, <2>1, <3>1, <3>2, <3>3, <4>1 DEF TrackerNext, IsStarted, IsOpen
    <3>4. CASE ~ IsOpen
      <4>1. tracker' = UpdateState("Unknown") /\ UNCHANGED idle
        BY <3>1, <3>4 DEF StopListening
      <4>2. IsSound(tracker', breaks') /\ ~ tracker'.timer
        BY <1>1, <1>2, <4>1, UpdateIsSound
      <4> QED
        BY <1>2, <2>1, <3>1, <3>2, <4>1, <4>2 DEF TrackerNext
    <3> QED
      BY <3>3, <3>4
  <2>3. CASE listeners # {c}
    <3>1. UNCHANGED <<idle, tracker, inherited>>
      BY <1>5, <2>3 DEF RemoveQueryListener
    <3>2. ~ IsListening => ~ IsListening'
      BY <2>1 DEF IsListening
    <3>3. TrackerSame
      BY <1>1, <1>2, <2>1, <3>1, <3>2 DEF TrackerSame
    <3> QED
      BY <3>3, SameTracker
  <2> QED
    BY <2>2, <2>3
<1> QED
  BY <1>3, <1>4, <1>5 DEF RunTask, AddQueryListener

LEMMA OpenTracker ==
    ASSUME TypeInv, TrackerInv, StreamOpens \/ BackoffElapses
    PROVE  TrackerNext
<1>1. /\ idle \in BOOLEAN /\ inherited \in BOOLEAN /\ failed = FALSE
      /\ breaks \in 0 .. MaxBreaks
      /\ IsSound(tracker, breaks)
      /\ idle => IsOpen
  BY TrackerFacts
<1>2. /\ stream \in {"Starting", "Backoff"} /\ stream' \in {"Open", "Starting"}
      /\ UNCHANGED <<tracker, failed, breaks>> /\ inherited' \in BOOLEAN
      /\ idle' = idle \/ idle' = FALSE
  BY <1>1 DEF StreamOpens, BackoffElapses, SendWatchRequest, OnlyStream
<1>3. idle = FALSE
  BY <1>1, <1>2 DEF IsOpen
<1>4. idle' = FALSE
  BY <1>2, <1>3
<1>5. IsStarted'
  BY <1>2 DEF IsStarted
<1> QED
  BY <1>1, <1>2, <1>4, <1>5 DEF TrackerNext

LEMMA TimeoutTracker ==
    ASSUME TypeInv, TrackerInv, OnlineTimeout
    PROVE  TrackerNext
<1>1. /\ tracker.timer /\ failed' = (failed \/ tracker.state # "Unknown")
      /\ UNCHANGED <<stream, idle, listeners, inherited, breaks>>
      /\ Broadcast([tracker EXCEPT !.state = "Offline", !.timer = FALSE])
  BY DEF OnlineTimeout, streamVars
<1>2. tracker' = [tracker EXCEPT !.state = "Offline", !.timer = FALSE]
  BY <1>1 DEF Broadcast
<1>3. IsSound(tracker', breaks) /\ ~ tracker'.timer
  BY <1>2, TrackerFacts DEF IsSound
<1>4. failed' = FALSE
  <2>1. tracker.state = "Unknown" /\ failed = FALSE
    BY <1>1, TrackerFacts DEF IsSound
  <2> QED
    BY <1>1, <2>1
<1> QED
  BY <1>1, <1>3, <1>4, TrackerFacts DEF TrackerNext, IsOpen, IsListening

LEMMA CloseTracker ==
    ASSUME TypeInv, TrackerInv, StreamFails \/ IdleTimeout \/ HandleCredentialChange
    PROVE  TrackerNext
<1>1. /\ failed = FALSE /\ IsSound(tracker, breaks) /\ breaks \in Nat
      /\ breaks \in 0 .. MaxBreaks
      /\ idle => ~ IsListening
  BY TrackerFacts
<1>2. idle' = FALSE /\ inherited' = FALSE
  BY DEF StreamFails, IdleTimeout, HandleCredentialChange, Disconnected
<1>3. /\ IsSound(UpdateState("Unknown"), breaks) /\ ~ UpdateState("Unknown").timer
      /\ IsSound(HandleWatchStreamStart(UpdateState("Unknown")), breaks)
  BY <1>1, UpdateIsSound, StartIsSound
<1>4. CASE StreamFails
  <2>1. breaks < MaxBreaks /\ breaks' = breaks + 1
    BY <1>4 DEF StreamFails, OnlyStream
  <2>2. breaks' \in 0 .. MaxBreaks /\ breaks' \in Nat
    BY <1>1, <2>1, Bounds
  <2>3. CASE IsListening
    <3> DEFINE t == HandleWatchStreamFailure(tracker)
    <3>1. /\ stream' = "Backoff" /\ Broadcast(HandleWatchStreamStart(t))
          /\ failed' = (failed \/ ~ FailureAsserts(tracker) \/ ~ StartAsserts(t))
      BY <1>4, <2>3 DEF StreamFails
    <3>2. IsSound(t, breaks + 1) /\ ~ t.timer /\ FailureAsserts(tracker)
      BY <1>1, FailureIsSound
    <3> HIDE DEF t
    <3>3. IsSound(HandleWatchStreamStart(t), breaks') /\ StartAsserts(t)
      BY <2>1, <2>2, <3>2, StartIsSound
    <3>4. tracker' = HandleWatchStreamStart(t)
      BY <3>1 DEF Broadcast
    <3>5. failed' = FALSE
      BY <1>1, <3>1, <3>2, <3>3
    <3> QED
      BY <1>1, <1>2, <2>1, <2>2, <3>1, <3>3, <3>4, <3>5 DEF TrackerNext, IsStarted
  <2>4. CASE ~ IsListening
    <3>1. Broadcast(UpdateState("Unknown")) /\ UNCHANGED failed
      BY <1>4, <2>4 DEF StreamFails
    <3>2. tracker' = UpdateState("Unknown")
      BY <3>1 DEF Broadcast
    <3>3. IsSound(tracker', breaks') /\ ~ tracker'.timer
      BY <2>2, <3>2, UpdateIsSound
    <3> QED
      BY <1>1, <1>2, <2>1, <2>2, <3>1, <3>3 DEF TrackerNext
  <2> QED
    BY <2>3, <2>4
<1>5. CASE IdleTimeout
  <2>1. /\ idle /\ failed' = (failed \/ IsListening) /\ UNCHANGED breaks
        /\ Broadcast(UpdateState("Unknown"))
    BY <1>5 DEF IdleTimeout, OnlyStream
  <2>2. tracker' = UpdateState("Unknown")
    BY <2>1 DEF Broadcast
  <2>3. failed' = FALSE
    BY <1>1, <2>1
  <2> QED
    BY <1>1, <1>2, <1>3, <2>1, <2>2, <2>3 DEF TrackerNext
<1>6. CASE HandleCredentialChange
  <2>1. breaks < MaxBreaks /\ breaks' = breaks + 1 /\ UNCHANGED failed
    BY <1>6 DEF HandleCredentialChange
  <2>2. breaks' \in 0 .. MaxBreaks /\ breaks' \in Nat
    BY <1>1, <2>1, Bounds
  <2>3. /\ IsSound(UpdateState("Unknown"), breaks')
        /\ IsSound(HandleWatchStreamStart(UpdateState("Unknown")), breaks')
    BY <1>3, <2>2, UpdateIsSound, StartIsSound
  <2>4. CASE IsListening
    <3>1. Broadcast(HandleWatchStreamStart(UpdateState("Unknown")))
          /\ \E stopped : stream' = StartedStream(stopped)
      BY <1>6, <2>4 DEF HandleCredentialChange
    <3>2. tracker' = HandleWatchStreamStart(UpdateState("Unknown")) /\ IsStarted'
      BY <3>1 DEF Broadcast, StartedStream, IsStarted
    <3> QED
      BY <1>1, <1>2, <1>3, <2>1, <2>2, <2>3, <3>2 DEF TrackerNext
  <2>5. CASE ~ IsListening
    <3>1. Broadcast(UpdateState("Unknown"))
      BY <1>6, <2>5 DEF HandleCredentialChange
    <3>2. tracker' = UpdateState("Unknown")
      BY <3>1 DEF Broadcast
    <3> QED
      BY <1>1, <1>2, <1>3, <2>1, <2>2, <2>3, <3>2 DEF TrackerNext
  <2> QED
    BY <2>4, <2>5
<1> QED
  BY <1>4, <1>5, <1>6

LEMMA MessageTracker ==
    ASSUME TypeInv, TrackerInv, ClientReceives \/ ProcessTargetError
    PROVE  TrackerNext
<1>1. /\ idle \in BOOLEAN /\ inherited \in BOOLEAN /\ failed = FALSE /\ breaks \in Nat
      /\ breaks \in 0 .. MaxBreaks
      /\ idle => IsOpen /\ ~ IsListening
  BY TrackerFacts
<1>2. /\ IsOpen /\ tracker' = UpdateState("Online")
      /\ UNCHANGED <<stream, idle, inherited, failed, breaks>>
      /\ UNCHANGED listeners \/ listeners' = {}
  BY DEF ClientReceives, HandleTargetChange, HandleDocumentChange, RaiseWatchSnapshot, Received,
         ProcessTargetError
<1>3. breaks' \in 0 .. MaxBreaks /\ breaks' \in Nat
  BY <1>1, <1>2
<1>4. IsSound(tracker', breaks') /\ ~ tracker'.timer
  BY <1>2, <1>3, UpdateIsSound
<1>5. idle' => IsOpen' /\ ~ IsListening'
  BY <1>1, <1>2 DEF IsOpen, IsListening
<1> QED
  BY <1>1, <1>2, <1>3, <1>4, <1>5 DEF TrackerNext

(* The server touches neither, but a rejection counts as a failure. *)
LEMMA ServerTracker ==
    ASSUME TypeInv, TrackerInv, ServerReceives \/ ServerSends \/ ServerRejects \/ CloudChanges
    PROVE  TrackerNext
<1>1. /\ idle \in BOOLEAN /\ inherited \in BOOLEAN /\ failed = FALSE
      /\ breaks \in Nat /\ breaks \in 0 .. MaxBreaks
      /\ IsSound(tracker, breaks) /\ (tracker.timer => IsStarted)
      /\ idle => IsOpen /\ ~ IsListening
  BY TrackerFacts
<1>2. UNCHANGED <<tracker, stream, idle, inherited, failed, listeners>>
  BY DEF ServerReceives, ServerSends, ServerRejects, CloudChanges, OnlyServer, listenVars
<1>3. UNCHANGED breaks \/ (breaks < MaxBreaks /\ breaks' = breaks + 1)
  BY DEF ServerReceives, ServerSends, ServerRejects, CloudChanges, Reject
<1>4. breaks' \in 0 .. MaxBreaks /\ breaks <= breaks'
  BY <1>1, <1>3, Bounds
<1>5. IsSound(tracker, breaks')
  BY <1>1, <1>4, Bounds DEF IsSound
<1> QED
  BY <1>1, <1>2, <1>4, <1>5 DEF TrackerNext, IsStarted, IsOpen, IsListening

LEMMA TrackerStep ==
    ASSUME TypeInv, TrackerInv, [Next]_vars
    PROVE  TrackerTypes' /\ TrackerInv'
<1>1. inherited \in BOOLEAN
  BY TrackerFacts
<1>2. ASSUME GetDocuments \/ RunEvent \/ UNCHANGED vars PROVE TrackerSame
  BY <1>1, <1>2 DEF GetDocuments, RunEvent, vars, listenVars, streamVars, TrackerSame,
                    IsListening
<1>3. TrackerNext
  BY <1>2, SameTracker, TaskTracker, OpenTracker, TimeoutTracker, CloseTracker, MessageTracker,
     ServerTracker
     DEF Next, Exchange, ClientReceives
<1> PICK t, seen : t = tracker' /\ seen = breaks'
  OBVIOUS
<1>4. seen \in 0 .. MaxBreaks /\ IsSound(t, seen)
  BY <1>3 DEF TrackerNext
<1>5. t \in Tracker
  BY <1>4, SoundTypes
<1>6. {idle, inherited, failed}' \subseteq BOOLEAN /\ ~ failed'
  BY <1>3 DEF TrackerNext
<1> QED
  BY <1>3, <1>5, <1>6 DEF TrackerNext, TrackerTypes, TrackerInv, NoAssertionFails

LEMMA TrackerInit == Init => TrackerTypes /\ TrackerInv
<1> SUFFICES ASSUME Init PROVE TrackerTypes /\ TrackerInv
  OBVIOUS
<1>1. /\ tracker = UpdateState("Unknown") /\ idle = FALSE /\ inherited = FALSE /\ failed = FALSE
      /\ breaks = 0
  BY DEF Init, UpdateState
<1>2. breaks \in 0 .. MaxBreaks /\ breaks \in Nat
  BY <1>1, Bounds
<1>3. IsSound(tracker, breaks) /\ ~ tracker.timer
  BY <1>1, <1>2, UpdateIsSound
<1>4. tracker \in Tracker
  BY <1>2, <1>3, SoundTypes
<1> QED
  BY <1>1, <1>2, <1>3, <1>4 DEF TrackerTypes, TrackerInv, NoAssertionFails

-----------------------------------------------------------------------------
(* Whose messages the messages are.                                        *)

Fresh(version) == \A c \in Owners : version >= askedAt[c]

CloudInv == \A c \in Calls : askedAt[c] <= cloud

ViewInv == view.version <= cache /\ (view.current => Fresh(view.version))

(* With no answer due, what was collected was sent for the present         *)
(* listeners.                                                              *)
IsCollected == target.pending = 0 /\ target.known /\ target.changed

TargetInv == ~ crossed /\ IsCollected => Fresh(target.documents)

(* The message stands behind the answers to all requests, and no request   *)
(* goes unanswered.                                                        *)
IsOwn(i) ==
    /\ toServer = << >> /\ target.pending = Cardinality(Due(fromServer))
    /\ \A j \in Due(fromServer) : j <= i

(* Documents behind all answers are for the present listeners, and the     *)
(* target is not called current before it has documents.                   *)
MessageInv ==
    ~ crossed /\ Owners # {} => \A i \in DOMAIN fromServer : IsOwn(i) =>
        /\ fromServer[i].kind = "documents" => Fresh(fromServer[i].version)
        /\ fromServer[i].kind = "current" =>
              IF i = 1 THEN IsCollected ELSE fromServer[i - 1].kind = "documents"

FreshInv == CloudInv /\ ViewInv /\ TargetInv /\ MessageInv /\ AnswersAreFresh

Versioned ==
    /\ view \in View /\ cache \in Versions /\ cloud \in Versions /\ served \in Served

(* Only the first listener of a query is an owner that was none before. *)
LEMMA OwnersCases ==
    ASSUME TypeInv, [Next]_vars
    PROVE  \/ OwnersKept
           \/ \E c : RunTask /\ Listen(c)
<1>0. listeners \in SUBSET (1 .. calls) /\ calls \in Nat /\ askedAt \in [Calls -> Versions]
  BY TypeFacts
<1>1. CASE GetDocuments
  <2>1. UNCHANGED <<listeners, joined, misled>> /\ askedAt' = [askedAt EXCEPT ![calls + 1] = cloud]
    BY <1>1 DEF GetDocuments, listenVars
  <2>2. calls + 1 \notin Owners
    BY <1>0 DEF Owners
  <2>3. \A c \in Owners : askedAt'[c] = askedAt[c]
    BY <1>0, <2>1, <2>2
  <2> QED
    BY <2>1, <2>3 DEF OwnersKept, Owners
<1>2. CASE RunTask
  <2> PICK c : c = Head(workQueue).call
    OBVIOUS
  <2>1. UNCHANGED askedAt
    BY <1>2 DEF RunTask, callVars
  <2>2. JoinQuery(c) \/ RemoveQueryListener(c) => OwnersKept
    BY <2>1 DEF JoinQuery, RemoveQueryListener, OwnersKept, Owners
  <2> QED
    BY <1>2, <2>2 DEF RunTask, AddQueryListener
<1>3. CASE UNCHANGED <<listeners, joined, askedAt>> /\ misled \subseteq misled'
  BY <1>3 DEF OwnersKept, Owners
<1>4. CASE ProcessTargetError
  BY <1>4 DEF ProcessTargetError, Received, callVars, OwnersKept, Owners
<1>5. CASE RaiseWatchSnapshot
  <2>1. UNCHANGED <<listeners, joined, askedAt>> /\ misled \subseteq misled'
    BY <1>5 DEF RaiseWatchSnapshot, Received, callVars
  <2> QED
    BY <1>3, <2>1
<1>6. ASSUME ~ GetDocuments, ~ RunTask, ~ ProcessTargetError, ~ RaiseWatchSnapshot
      PROVE  UNCHANGED <<listeners, joined, misled, askedAt>>
  BY <1>6 DEF Next, Exchange, RunEvent, OnlineTimeout, StreamOpens, BackoffElapses, StreamFails,
              IdleTimeout, OnlyStream, HandleCredentialChange, HandleTargetChange,
              HandleDocumentChange, Received, ServerReceives, ServerSends, ServerRejects,
              CloudChanges, OnlyServer, vars, callVars, listenVars
<1> QED
  BY <1>1, <1>2, <1>3, <1>4, <1>5, <1>6

(* What becomes of the view, other than by a snapshot *)
ViewKept ==
    /\ UNCHANGED cache
    /\ \/ view' = view /\ OwnersKept
       \/ /\ ~ view'.current /\ view' \in View
          /\ view'.version = 0 \/ view'.version = view.version \/ view'.version = cache

LEMMA BroadcastView ==
    ASSUME TypeInv, NEW t, Broadcast(t), OwnersKept, UNCHANGED cache
    PROVE  ViewKept
<1>1. view' = view \/ view' = [view EXCEPT !.current = FALSE]
  BY BroadcastTells
<1>2. [view EXCEPT !.current = FALSE] \in View /\ ~ [view EXCEPT !.current = FALSE].current
      /\ [view EXCEPT !.current = FALSE].version = view.version
  BY TypeFacts DEF View
<1> QED
  BY <1>1, <1>2 DEF ViewKept

LEMMA NoViewType == NoView \in View /\ ~ NoView.current /\ NoView.version = 0
  BY Bounds DEF NoView, View, Versions

LEMMA ViewCases ==
    ASSUME TypeInv, [Next]_vars
    PROVE  ViewKept \/ RaiseWatchSnapshot
<1>1. CASE RunTask
  <2> PICK c : c = Head(workQueue).call
    OBVIOUS
  <2>1. UNCHANGED <<askedAt, cache>> /\ cache \in Versions
    BY <1>1, TypeFacts DEF RunTask, callVars
  <2>2. CASE JoinQuery(c)
    BY <2>1, <2>2 DEF JoinQuery, ViewKept, OwnersKept, Owners
  <2>3. CASE Listen(c)
    <3>1. view' = [current |-> FALSE, version |-> cache]
      BY <2>3 DEF Listen
    <3>2. view' \in View /\ ~ view'.current /\ view'.version = cache
      BY <2>1, <3>1 DEF View
    <3> QED
      BY <2>1, <3>2 DEF ViewKept
  <2>4. CASE RemoveQueryListener(c)
    <3>1. UNCHANGED view \/ view' = NoView
      BY <2>4 DEF RemoveQueryListener, StopListening
    <3>2. OwnersKept
      BY <2>1, <2>4 DEF RemoveQueryListener, OwnersKept, Owners
    <3> QED
      BY <2>1, <3>1, <3>2, NoViewType DEF ViewKept
  <2> QED
    BY <1>1, <2>2, <2>3, <2>4 DEF RunTask, AddQueryListener
<1>2. CASE ProcessTargetError
  <2>1. OwnersKept /\ UNCHANGED cache
    BY <1>2 DEF ProcessTargetError, Received, callVars, OwnersKept, Owners
  <2>2. view' = NoView \/ view' = view
    BY <1>2 DEF ProcessTargetError
  <2> QED
    BY <2>1, <2>2, NoViewType DEF ViewKept
<1>3. ASSUME ~ RunTask PROVE OwnersKept
  BY <1>3, OwnersCases
<1>4. ASSUME ~ RunTask, UNCHANGED <<view, cache>> PROVE ViewKept
  BY <1>3, <1>4 DEF ViewKept
<1>5. ASSUME ~ RunTask, NEW t, Broadcast(t), UNCHANGED cache PROVE ViewKept
  BY <1>3, <1>5, BroadcastView
<1>6. \/ RunTask \/ ProcessTargetError \/ RaiseWatchSnapshot
      \/ UNCHANGED <<view, cache>>
      \/ UNCHANGED cache /\ \E t : Broadcast(t)
  <2>1. ASSUME OnlineTimeout \/ StreamFails \/ IdleTimeout \/ HandleCredentialChange
        PROVE  UNCHANGED cache /\ \E t : Broadcast(t)
    BY <2>1 DEF OnlineTimeout, StreamFails, IdleTimeout, HandleCredentialChange, OnlyStream
  <2>2. ASSUME \/ GetDocuments \/ RunEvent \/ StreamOpens \/ BackoffElapses
               \/ HandleTargetChange \/ HandleDocumentChange \/ ServerReceives \/ ServerSends
               \/ ServerRejects \/ CloudChanges \/ UNCHANGED vars
        PROVE  UNCHANGED <<view, cache>>
    BY <2>2 DEF GetDocuments, RunEvent, StreamOpens, BackoffElapses, OnlyStream, HandleTargetChange,
           HandleDocumentChange, ServerReceives, ServerSends, ServerRejects, CloudChanges,
           OnlyServer, vars, listenVars
  <2> QED
    BY <2>1, <2>2 DEF Next, Exchange
<1> QED
  BY <1>1, <1>2, <1>4, <1>5, <1>6

LEMMA VersionsAreNumbers == \A version \in Versions : version \in Nat
  BY Bounds DEF Versions

LEMMA FreshStays ==
    ASSUME TypeInv, OwnersKept, NEW v \in Versions, NEW w \in Versions, v <= w, Fresh(v)
    PROVE  \A c \in Owners' : w >= askedAt'[c]
<1> SUFFICES ASSUME NEW c \in Owners' PROVE w >= askedAt'[c]
  OBVIOUS
<1>1. c \in Owners /\ askedAt'[c] = askedAt[c]
  BY DEF OwnersKept
<1>2. askedAt[c] \in Nat /\ v \in Nat /\ w \in Nat
  BY <1>1, TypeFacts, VersionsAreNumbers DEF Owners
<1>3. v >= askedAt[c]
  BY <1>1 DEF Fresh
<1> QED
  BY <1>1, <1>2, <1>3

(* A snapshot that changes the view *)
SnapshotOf(current, told) ==
    /\ current \in BOOLEAN /\ told \in SUBSET listeners
    /\ view' = [current |-> current, version |-> cache']
    /\ Tells(told, IF current THEN "synced" ELSE "cached", cache')
    /\ IF crossed THEN misled' = misled \cup told ELSE UNCHANGED misled
    /\ view' = view \/ (current => told = listeners)
    /\ current => view.current \/ IsCollected

LEMMA SnapshotCases ==
    ASSUME TypeInv, RaiseWatchSnapshot
    PROVE  \/ UNCHANGED <<view, mainQueue, misled>>
           \/ \E current, told : SnapshotOf(current, told)
<1>1. CASE ~ IsListening
  BY <1>1 DEF RaiseWatchSnapshot
<1>2. CASE IsListening
  <2>0. view.current \in BOOLEAN /\ target.current \in BOOLEAN /\ raised \in SUBSET listeners
    BY TypeFacts DEF Target
  <2> DEFINE current == IF IsActiveTarget /\ target.known /\ target.changed THEN target.current
                        ELSE view.current
             after == [current |-> current, version |-> cache']
  <2>1. PICK told :
           /\ told = IF after = view THEN {} ELSE IF current THEN listeners ELSE raised
           /\ view' = after
           /\ mainQueue' = mainQueue \o
                 Events(told, IF current THEN "synced" ELSE "cached", cache')
           /\ misled' = IF crossed THEN misled \cup told ELSE misled
    BY <1>2 DEF RaiseWatchSnapshot
  <2>2. /\ current \in BOOLEAN /\ told \in SUBSET listeners
        /\ view' = view \/ (current => told = listeners)
    BY <2>0, <2>1
  <2>3. current => view.current \/ IsCollected
    BY DEF IsActiveTarget, IsCollected
  <2> HIDE DEF current
  <2>4. SnapshotOf(current, told)
    BY <2>1, <2>2, <2>3 DEF SnapshotOf, Tells
  <2> QED
    BY <2>4
<1> QED
  BY <1>1, <1>2

LEMMA SnapshotCache ==
    ASSUME TypeInv, RaiseWatchSnapshot
    PROVE  cache' \in Versions /\ cache <= cache' /\ target.documents <= cache'
<1>1. cache \in Versions /\ target.documents \in Versions
  BY TypeFacts
<1>2. cache \in Nat /\ target.documents \in Nat
  BY <1>1, VersionsAreNumbers
<1>3. cache' = IF target.documents > cache THEN target.documents ELSE cache
  BY DEF RaiseWatchSnapshot
<1> QED
  BY <1>1, <1>2, <1>3

(* What a snapshot gives as synchronised is fresh. *)
LEMMA SnapshotIsFresh ==
    ASSUME TypeInv, ViewInv, TargetInv, RaiseWatchSnapshot, ~ crossed,
           view.current \/ IsCollected
    PROVE  \A c \in Owners' : cache' >= askedAt'[c]
<1>1. OwnersKept
  BY DEF RaiseWatchSnapshot, Received, callVars, OwnersKept, Owners
<1>2. /\ cache' \in Versions /\ cache <= cache' /\ target.documents <= cache'
      /\ cache \in Versions /\ target.documents \in Versions /\ view.version \in Versions
  BY SnapshotCache, TypeFacts
<1> PICK after : after = cache'
  OBVIOUS
<1>3. CASE view.current
  <2>1. Fresh(view.version) /\ view.version <= cache
    BY <1>3 DEF ViewInv
  <2>2. view.version <= after
    BY <1>2, <2>1, VersionsAreNumbers
  <2> QED
    BY <1>1, <1>2, <2>1, <2>2, FreshStays
<1>4. CASE IsCollected
  <2>1. Fresh(target.documents)
    BY <1>4 DEF TargetInv
  <2> QED
    BY <1>1, <1>2, <2>1, FreshStays
<1> QED
  BY <1>3, <1>4

LEMMA ViewStep ==
    ASSUME TypeInv, ViewInv, TargetInv, [Next]_vars
    PROVE  view' \in View /\ cache' \in Versions /\ ViewInv'
<1>0. /\ view \in View /\ cache \in Versions /\ view.version \in Versions /\ view.version <= cache
      /\ cache \in Nat /\ view.version \in Nat
  BY TypeFacts, VersionsAreNumbers DEF ViewInv
<1>1. CASE ViewKept
  <2>1. UNCHANGED cache
    BY <1>1 DEF ViewKept
  <2>2. CASE view' = view /\ OwnersKept
    <3>1. view.current => \A c \in Owners' : view.version >= askedAt'[c]
      BY <1>0, <2>2, FreshStays DEF ViewInv
    <3> QED
      BY <1>0, <2>1, <2>2, <3>1 DEF ViewInv, Fresh
  <2>3. CASE /\ ~ view'.current /\ view' \in View
             /\ view'.version = 0 \/ view'.version = view.version \/ view'.version = cache
    BY <1>0, <2>1, <2>3 DEF ViewInv
  <2> QED
    BY <1>1, <2>2, <2>3 DEF ViewKept
<1>2. CASE RaiseWatchSnapshot
  <2>0. cache' \in Versions /\ cache <= cache' /\ cache' \in Nat
    BY <1>2, SnapshotCache, VersionsAreNumbers
  <2>1. OwnersKept
    BY <1>2 DEF RaiseWatchSnapshot, Received, callVars, OwnersKept, Owners
  <2>2. CASE UNCHANGED view
    <3>1. view.current => \A c \in Owners' : view.version >= askedAt'[c]
      BY <1>0, <2>1, FreshStays DEF ViewInv
    <3>2. view.version <= cache'
      BY <1>0, <2>0
    <3> QED
      BY <1>0, <2>0, <2>2, <3>1, <3>2 DEF ViewInv, Fresh
  <2>3. ASSUME NEW current, NEW told, SnapshotOf(current, told)
        PROVE  view' \in View /\ ViewInv'
    <3>1. /\ current \in BOOLEAN /\ view' = [current |-> current, version |-> cache']
          /\ current => view.current \/ IsCollected
      BY <2>3 DEF SnapshotOf
    <3>2. view' \in View /\ view'.version = cache' /\ view'.current = current
      BY <2>0, <3>1 DEF View
    <3>3. CASE crossed /\ view' # view /\ current
      <4>1. listeners \subseteq misled' /\ UNCHANGED listeners
        BY <1>2, <2>3, <3>3 DEF SnapshotOf, RaiseWatchSnapshot
      <4>2. Owners' = {}
        BY <4>1 DEF Owners
      <4> QED
        BY <2>0, <3>2, <4>2 DEF ViewInv, Fresh
    <3>4. CASE ~ crossed \/ ~ current
      <4>1. current => \A c \in Owners' : cache' >= askedAt'[c]
        BY <1>2, <3>1, <3>4, SnapshotIsFresh
      <4> QED
        BY <2>0, <3>2, <4>1 DEF ViewInv, Fresh
    <3>5. CASE view' = view
      BY <2>2, <3>5
    <3> QED
      BY <3>3, <3>4, <3>5
  <2> QED
    BY <1>2, <2>0, <2>2, <2>3, SnapshotCases
<1> QED
  BY <1>1, <1>2, ViewCases

(* What was there when a call was made stays there. *)
LEMMA CloudStep ==
    ASSUME TypeInv, CloudInv, [Next]_vars
    PROVE  cloud' \in Versions /\ CloudInv'
<1>0. cloud \in Versions /\ askedAt \in [Calls -> Versions] /\ cloud \in Nat
      /\ \A c \in Calls : askedAt[c] \in Nat
  BY TypeFacts, VersionsAreNumbers
<1>1. CASE GetDocuments
  <2>1. askedAt' = [askedAt EXCEPT ![calls'] = cloud] /\ UNCHANGED cloud
    BY <1>1 DEF GetDocuments
  <2>2. \A c \in Calls : askedAt'[c] = askedAt[c] \/ askedAt'[c] = cloud
    BY <1>0, <2>1
  <2> QED
    BY <1>0, <2>1, <2>2 DEF CloudInv
<1>2. CASE CloudChanges
  <2>1. cloud < MaxChanges /\ cloud' = cloud + 1 /\ UNCHANGED askedAt
    BY <1>2 DEF CloudChanges, OnlyServer, callVars
  <2>2. cloud' \in Versions
    BY <1>0, <2>1, Bounds DEF Versions
  <2> QED
    BY <1>0, <2>1, <2>2 DEF CloudInv
<1>3. CASE UNCHANGED <<cloud, askedAt>>
  BY <1>0, <1>3 DEF CloudInv
<1>4. ASSUME ~ GetDocuments, ~ CloudChanges PROVE UNCHANGED <<cloud, askedAt>>
  BY <1>4 DEF Next, Exchange, RunEvent, RunTask, OnlineTimeout, StreamOpens, BackoffElapses,
              StreamFails, IdleTimeout, OnlyStream, HandleCredentialChange, HandleTargetChange,
              HandleDocumentChange, RaiseWatchSnapshot, Received, ProcessTargetError,
              ServerReceives, ServerSends, ServerRejects, OnlyServer, vars, callVars
<1> QED
  BY <1>1, <1>2, <1>3, <1>4

LEMMA ServedStep ==
    ASSUME TypeInv, [Next]_vars
    PROVE  served' \in Served
<1>0. served \in Served /\ cloud \in Versions
  BY DEF TypeInv, TypeOK
<1>1. NotServed \in Served /\ [NotServed EXCEPT !.phase = "added"] \in Served
  BY Bounds DEF NotServed, Served, Versions
<1>2. [phase |-> "current", version |-> cloud] \in Served
  BY <1>0 DEF Served
<1>3. \/ UNCHANGED served \/ served' = NotServed
      \/ served' = [NotServed EXCEPT !.phase = "added"]
      \/ served' = [phase |-> "current", version |-> cloud]
  BY DEF Next, Exchange, GetDocuments, RunEvent, RunTask, AddQueryListener, JoinQuery, Listen,
         RemoveQueryListener, OnlineTimeout, StreamOpens, BackoffElapses,
         StreamFails, IdleTimeout, Disconnected, HandleCredentialChange, HandleTargetChange,
         HandleDocumentChange, RaiseWatchSnapshot, Received, ProcessTargetError,
         ServerReceives, ServerSends, ServerRejects, Reject, CloudChanges, OnlyServer, vars,
         streamVars
<1> QED
  BY <1>0, <1>1, <1>2, <1>3

(* The next message: with no answer due, it is an own one, and the one     *)
(* behind it was an own one.                                               *)
LEMMA OwnMessages ==
    ASSUME TypeInv, StreamInv, ClientReceives, ~ crossed
    PROVE  /\ target.pending = 0 => IsOwn(1)
           /\ \A i \in DOMAIN fromServer' :
                 /\ i \in Nat \ {0} /\ i + 1 \in DOMAIN fromServer
                 /\ fromServer'[i] = fromServer[i + 1]
                 /\ IsOwn(i)' => IsOwn(i + 1)
<1>1. /\ fromServer \in Seq(Message) /\ fromServer # << >> /\ fromServer' = Tail(fromServer)
      /\ fromServer' \in Seq(Message) /\ UNCHANGED toServer /\ toServer \in Seq({"watch", "unwatch"})
      /\ target.pending \in Int
  BY MessageTaken, TypeFacts
<1>2. /\ Cardinality(Due(fromServer)) \in Nat /\ IsFiniteSet(Due(fromServer))
      /\ Cardinality(Due(fromServer')) \in Nat
  BY <1>1, DueIsFinite
<1>3. target'.pending = Cardinality(Due(fromServer')) <=> target.pending = Cardinality(Due(fromServer))
  <2>1. /\ target' \in Target
        /\ IsAnswer(fromServer[1]) => target.pending = target'.pending + 1
        /\ ~ IsAnswer(fromServer[1]) => target.pending = target'.pending
    BY PendingTaken
  <2>2. /\ IsAnswer(fromServer[1]) =>
              Cardinality(Due(fromServer)) = Cardinality(Due(fromServer')) + 1
        /\ ~ IsAnswer(fromServer[1]) => Cardinality(Due(fromServer)) = Cardinality(Due(fromServer'))
    BY <1>1, DueTail
  <2>3. target'.pending \in Int
    BY <2>1 DEF Target
  <2> QED
    BY <1>1, <1>2, <2>1, <2>2, <2>3
<1>4. ASSUME target.pending = 0 PROVE IsOwn(1)
  <2>1. Len(toServer) \in Nat
    BY <1>1
  <2>2. target.pending >= Len(toServer) + Cardinality(Due(fromServer))
    BY DEF StreamInv
  <2>3. Len(toServer) = 0 /\ Cardinality(Due(fromServer)) = 0
    BY <1>2, <1>4, <2>1, <2>2
  <2>4. toServer = << >>
    BY <1>1, <2>3
  <2>5. Due(fromServer) = {}
    BY <1>2, <2>3, FS_EmptySet
  <2> QED
    BY <1>4, <2>3, <2>4, <2>5 DEF IsOwn
<1>5. ASSUME NEW i \in DOMAIN fromServer'
      PROVE  /\ i \in Nat \ {0} /\ i + 1 \in DOMAIN fromServer
             /\ fromServer'[i] = fromServer[i + 1]
             /\ IsOwn(i)' => IsOwn(i + 1)
  <2>1. i \in Nat \ {0} /\ i + 1 \in DOMAIN fromServer /\ fromServer'[i] = fromServer[i + 1]
    BY <1>1, TailElements
  <2>2. ASSUME IsOwn(i)' PROVE IsOwn(i + 1)
    <3>1. /\ toServer = << >> /\ \A j \in Due(fromServer') : j <= i
          /\ target.pending = Cardinality(Due(fromServer))
      BY <1>1, <1>3, <2>2 DEF IsOwn
    <3>2. \A j \in Due(fromServer) : j = 1 \/ j - 1 \in Due(fromServer')
      BY <1>1, DueTail
    <3>3. \A j \in Due(fromServer) : j \in Nat
      BY <1>1 DEF Due
    <3>4. ASSUME NEW j \in Due(fromServer) PROVE j <= i + 1
      <4>1. CASE j = 1
        BY <2>1, <4>1
      <4>2. CASE j - 1 \in Due(fromServer')
        BY <2>1, <3>1, <3>3, <4>2
      <4> QED
        BY <3>2, <4>1, <4>2
    <3> QED
      BY <3>1, <3>4 DEF IsOwn
  <2> QED
    BY <2>1, <2>2
<1> QED
  BY <1>4, <1>5

LEMMA ReceiveKeeps ==
    ASSUME TypeInv, ClientReceives, ~ crossed
    PROVE  OwnersKept /\ Owners' = Owners /\ UNCHANGED <<askedAt, crossed>>
<1>1. UNCHANGED misled
  BY DEF ClientReceives, HandleTargetChange, HandleDocumentChange, RaiseWatchSnapshot
<1> QED
  BY <1>1, MessageTaken DEF OwnersKept, Owners

(* What a message makes of the target, as far as the next snapshot goes *)
LEMMA CollectedStep ==
    ASSUME TypeInv, StreamInv, TargetInv, MessageInv, ClientReceives, ~ crossed
    PROVE  TargetInv'
<1> PICK message : message = fromServer[1]
  OBVIOUS
<1> PICK state : state = Ensured(target)
  OBVIOUS
<1>0. /\ fromServer \in Seq(Message) /\ fromServer # << >> /\ message = Head(fromServer)
      /\ 1 \in DOMAIN fromServer /\ message \in Message
      /\ target \in Target /\ target.pending \in Int
  BY MessageTaken, TypeFacts, TailElements
<1>1. Owners' = Owners /\ UNCHANGED <<askedAt, crossed>>
  BY ReceiveKeeps
<1>2. \A v : Fresh(v) => \A c \in Owners' : v >= askedAt'[c]
  BY <1>1 DEF Fresh
<1>3. target.pending = 0 /\ Owners # {} =>
         /\ message.kind = "documents" => Fresh(message.version)
         /\ message.kind = "current" => IsCollected
  <2>1. target.pending = 0 => IsOwn(1)
    BY OwnMessages
  <2> QED
    BY <1>0, <2>1 DEF MessageInv
<1>4. Owners = {} => TargetInv'
  BY <1>1 DEF TargetInv, Fresh
<1>5. ~ IsCollected' => TargetInv'
  BY DEF TargetInv
<1>6. ASSUME NEW v, Fresh(v), target'.documents = v PROVE TargetInv'
  BY <1>2, <1>6 DEF TargetInv, Fresh
<1>7. target' = target => TargetInv'
  BY <1>2 DEF TargetInv, Fresh, IsCollected
<1>8. state \in Target /\ state.pending = target.pending /\ state.documents = target.documents
  BY <1>0, RecordTypes
<1>9. CASE HandleTargetChange
  <2>1. CASE /\ message.kind = "added"
             /\ target' = [state EXCEPT !.pending = target.pending - 1,
                              !.changed = IF target.pending - 1 = 0 THEN FALSE ELSE @]
    <3>1. target'.pending = target.pending - 1
          /\ (target.pending - 1 = 0 => target'.changed = FALSE)
      BY <1>8, <2>1 DEF Target
    <3> QED
      BY <1>5, <3>1 DEF IsCollected
  <2>2. CASE /\ message.kind = "removed"
             /\ target' = IF target.pending - 1 = 0 THEN Erased(target)
                          ELSE [state EXCEPT !.pending = target.pending - 1]
    <3>1. target.pending - 1 = 0 => ~ target'.known
      BY <1>0, <2>2, RecordTypes
    <3>2. target.pending - 1 # 0 => target'.pending = target.pending - 1
      BY <1>8, <2>2 DEF Target
    <3> QED
      BY <1>5, <3>1, <3>2 DEF IsCollected
  <2>3. CASE message.kind = "current" /\ IsActiveTarget
             /\ target' = [state EXCEPT !.current = TRUE, !.changed = TRUE]
    <3>1. target.pending = 0 /\ target'.documents = target.documents
      BY <1>8, <2>3 DEF IsActiveTarget, Target
    <3>2. CASE Owners # {}
      <4>1. Fresh(target.documents)
        BY <1>3, <2>3, <3>1, <3>2 DEF TargetInv
      <4> QED
        BY <1>6, <3>1, <4>1
    <3> QED
      BY <1>4, <3>2
  <2>4. CASE ~ IsActiveTarget /\ target' = state
    <3>1. CASE target.pending = 0
      BY <1>4, <2>4, <3>1 DEF IsActiveTarget, IsListening, Owners
    <3>2. CASE target.pending # 0
      BY <1>5, <1>8, <2>4, <3>2 DEF IsCollected
    <3> QED
      BY <3>1, <3>2
  <2> QED
    BY <1>0, <1>9, <2>1, <2>2, <2>3, <2>4 DEF HandleTargetChange
<1>10. CASE HandleDocumentChange
  <2>1. CASE IsActiveTarget
    <3>1. /\ message.kind = "documents" /\ target.pending = 0
          /\ target' = [state EXCEPT !.documents = message.version, !.changed = TRUE]
      BY <1>0, <1>10, <2>1 DEF HandleDocumentChange, IsActiveTarget
    <3>2. target'.documents = message.version
      BY <1>8, <3>1 DEF Target
    <3> QED
      BY <1>3, <1>4, <1>6, <3>1, <3>2
  <2>2. CASE ~ IsActiveTarget
    BY <1>7, <1>10, <2>2 DEF HandleDocumentChange
  <2> QED
    BY <2>1, <2>2
<1>11. CASE RaiseWatchSnapshot
  <2>1. target' = [target EXCEPT !.changed = FALSE] \/ target' = target
    BY <1>11 DEF RaiseWatchSnapshot
  <2>2. target' = [target EXCEPT !.changed = FALSE] => target'.changed = FALSE
    BY <1>0 DEF Target
  <2> QED
    BY <1>5, <1>7, <2>1, <2>2 DEF IsCollected
<1> QED
  BY <1>9, <1>10, <1>11 DEF ClientReceives

(* The messages behind it are as they were. *)
LEMMA RemainingStep ==
    ASSUME TypeInv, StreamInv, MessageInv, ClientReceives, ~ crossed
    PROVE  MessageInv'
<1>1. Owners' = Owners /\ UNCHANGED <<askedAt, crossed>>
  BY ReceiveKeeps
<1>2. SUFFICES ASSUME Owners # {}, NEW i \in DOMAIN fromServer', IsOwn(i)'
               PROVE  /\ fromServer'[i].kind = "documents" =>
                            \A c \in Owners : fromServer'[i].version >= askedAt[c]
                      /\ fromServer'[i].kind = "current" =>
                            IF i = 1 THEN IsCollected'
                            ELSE fromServer'[i - 1].kind = "documents"
  BY <1>1 DEF MessageInv, Fresh
<1>3. /\ i \in Nat \ {0} /\ i + 1 \in DOMAIN fromServer
      /\ fromServer'[i] = fromServer[i + 1] /\ IsOwn(i + 1)
  BY <1>2, OwnMessages
<1>4. /\ fromServer[i + 1].kind = "documents" => Fresh(fromServer[i + 1].version)
      /\ fromServer[i + 1].kind = "current" => fromServer[i].kind = "documents"
  <2>1. i + 1 # 1 /\ (i + 1) - 1 = i
    BY <1>3
  <2> QED
    BY <1>2, <1>3, <2>1 DEF MessageInv
<1>5. ASSUME fromServer'[i].kind = "current", i # 1
      PROVE  fromServer'[i - 1].kind = "documents"
  <2>1. i - 1 \in DOMAIN fromServer'
    <3>1. fromServer' \in Seq(Message)
      BY MessageTaken
    <3> QED
      BY <1>3, <1>5, <3>1
  <2>2. fromServer'[i - 1] = fromServer[(i - 1) + 1] /\ (i - 1) + 1 = i
    BY <1>3, <2>1, OwnMessages
  <2> QED
    BY <1>3, <1>4, <1>5, <2>2
<1>6. ASSUME fromServer'[i].kind = "current", i = 1
      PROVE  IsCollected'
  <2>1. fromServer[1].kind = "documents"
    BY <1>3, <1>4, <1>6
  <2>2. HandleDocumentChange
    BY <2>1, MessageTaken DEF ClientReceives, HandleTargetChange, RaiseWatchSnapshot
  <2>3. IsActiveTarget
    <3>1. IsListening
      BY <1>2 DEF Owners, IsListening
    <3>2. /\ toServer = << >> /\ target.pending = Cardinality(Due(fromServer))
          /\ \A j \in Due(fromServer) : j <= 2
      BY <1>3, <1>6 DEF IsOwn
    <3>3. fromServer[2].kind = "current"
      BY <1>3, <1>6
    <3>4. fromServer \in Seq(Message)
      BY TypeFacts
    <3>5. Due(fromServer) = {}
      <4> SUFFICES ASSUME NEW j \in Due(fromServer) PROVE FALSE
        OBVIOUS
      <4>1. j \in Nat \ {0} /\ fromServer[j].kind \in {"added", "removed"}
        BY <3>4 DEF Due
      <4>2. j = 1 \/ j = 2
        BY <3>2, <4>1
      <4> QED
        BY <2>1, <3>3, <4>1, <4>2
    <3>6. target.pending = 0
      BY <3>2, <3>5, FS_EmptySet
    <3> QED
      BY <3>1, <3>6 DEF IsActiveTarget
  <2>4. target' = [Ensured(target) EXCEPT !.documents = Head(fromServer).version, !.changed = TRUE]
    BY <2>2, <2>3 DEF HandleDocumentChange
  <2>5. Ensured(target) \in Target /\ Ensured(target).pending = 0 /\ Ensured(target).known
    <3>1. target \in Target /\ target.pending = 0
      BY <2>3, TypeFacts DEF IsActiveTarget
    <3> QED
      BY <3>1, RecordTypes DEF Ensured, Target
  <2> QED
    BY <2>4, <2>5 DEF Target, IsCollected
<1> QED
  BY <1>3, <1>4, <1>5, <1>6 DEF Fresh

(* An unanswered request leaves no message that counts as own. *)
LEMMA UnansweredStep ==
    ASSUME TypeInv, StreamInv, ~ crossed, UNCHANGED target, LinkSkips
    PROVE  \A i : ~ IsOwn(i)'
<1>1. /\ fromServer \in Seq(Message) /\ toServer \in Seq({"watch", "unwatch"})
      /\ target.pending \in Int
  BY TypeFacts
<1>2. Due(fromServer') = Due(fromServer)
  BY <1>1, RejectionSent DEF LinkSkips
<1>3. Len(toServer) \in Nat \ {0}
  BY <1>1 DEF LinkSkips
<1>4. Cardinality(Due(fromServer)) \in Nat
  BY <1>1, DueIsFinite
<1>5. target.pending # Cardinality(Due(fromServer))
  BY <1>1, <1>3, <1>4 DEF StreamInv
<1> QED
  BY <1>2, <1>5 DEF IsOwn

LEMMA OwnershipStep ==
    ASSUME TypeInv, StreamInv, CloudInv, TargetInv, MessageInv, [Next]_vars
    PROVE  TargetInv' /\ MessageInv'
<1>0. /\ fromServer \in Seq(Message) /\ toServer \in Seq({"watch", "unwatch"})
      /\ target \in Target /\ target.pending \in Int
  BY TypeFacts
<1>1. CASE LinkSame
  <2>1. UNCHANGED <<toServer, fromServer, target, crossed>> /\ OwnersKept
    BY <1>1 DEF LinkSame
  <2>2. \A v : Fresh(v) => \A c \in Owners' : v >= askedAt'[c]
    BY <2>1 DEF Fresh, OwnersKept
  <2>3. TargetInv'
    BY <2>1, <2>2 DEF TargetInv, Fresh, IsCollected
  <2>4. Owners' # {} => Owners # {}
    BY <2>1 DEF OwnersKept
  <2>5. MessageInv'
    BY <2>1, <2>2, <2>4 DEF MessageInv, IsOwn, Fresh, IsCollected
  <2> QED
    BY <2>3, <2>5
<1>2. CASE LinkClean
  <2>1. ~ target'.known /\ fromServer' = << >>
    BY <1>2, NewTargetType DEF LinkClean
  <2> QED
    BY <2>1 DEF TargetInv, MessageInv, IsCollected
<1>3. CASE LinkAsks
  <2>1. PICK request \in {"watch", "unwatch"} : toServer' = Append(toServer, request)
    BY <1>3 DEF LinkAsks
  <2>2. toServer' # << >>
    BY <1>0, <2>1
  <2>3. target'.pending = target.pending + 1 /\ UNCHANGED crossed
    BY <1>0, <1>3, RecordTypes DEF LinkAsks
  <2>4. ~ crossed => target.pending >= 0
    <3>1. Len(toServer) \in Nat /\ Cardinality(Due(fromServer)) \in Nat
      BY <1>0, DueIsFinite
    <3> QED
      BY <1>0, <3>1 DEF StreamInv
  <2>5. ~ crossed' => target'.pending # 0
    BY <1>0, <2>3, <2>4
  <2> QED
    BY <2>2, <2>5 DEF TargetInv, MessageInv, IsOwn, IsCollected
<1>4. CASE ClientReceives
  <2>1. CASE ~ crossed
    BY <1>4, <2>1, CollectedStep, RemainingStep
  <2>2. CASE crossed
    <3>1. UNCHANGED crossed
      BY <1>4, MessageTaken
    <3> QED
      BY <2>2, <3>1 DEF TargetInv, MessageInv
  <2> QED
    BY <2>1, <2>2
<1>5. CASE ProcessTargetError
  <2>1. Owners' = {}
    BY <1>5 DEF ProcessTargetError, IsListening, Owners
  <2> QED
    BY <2>1 DEF TargetInv, MessageInv, Fresh
<1>6. CASE ServerReceives
  <2>1. UNCHANGED <<listeners, joined, misled, askedAt, target, crossed>>
    BY <1>6 DEF ServerReceives, OnlyServer, callVars, listenVars
  <2>2. TargetInv'
    BY <2>1 DEF TargetInv, Fresh, Owners, IsCollected
  <2>3. CASE LinkAnswers
    <3>1. PICK kind \in {"added", "removed"} : fromServer' = Append(fromServer, [kind |-> kind])
      BY <2>3 DEF LinkAnswers
    <3>2. [kind |-> kind] \in Message
      BY DEF Message
    <3> DEFINE n == Len(fromServer)
    <3>3. /\ n \in Nat /\ DOMAIN fromServer' = 1 .. n + 1 /\ fromServer'[n + 1] = [kind |-> kind]
      BY <1>0, <3>1, <3>2, AppendedElements
    <3> HIDE DEF n
    <3>4. n + 1 \in Due(fromServer')
      BY <3>3 DEF Due
    <3>5. ASSUME NEW i \in DOMAIN fromServer', IsOwn(i)' PROVE fromServer'[i].kind = kind
      <4>1. n + 1 <= i
        BY <3>4, <3>5 DEF IsOwn
      <4>2. i = n + 1
        BY <3>3, <4>1
      <4> QED
        BY <3>3, <4>2
    <3>6. MessageInv'
      BY <3>5 DEF MessageInv
    <3> QED
      BY <2>2, <3>6
  <2>4. CASE LinkSkips
    BY <2>1, <2>2, <2>4, UnansweredStep DEF MessageInv
  <2> QED
    BY <1>6, <2>3, <2>4, RequestTaken
<1>7. CASE ServerSends
  <2>1. UNCHANGED <<listeners, joined, misled, askedAt, target, toServer, crossed>>
    BY <1>7 DEF ServerSends, OnlyServer, callVars, listenVars
  <2>2. PICK m \in {2, 3} : IsSent(m)
    BY <1>7, Sent
  <2> DEFINE n == Len(fromServer)
  <2>3. /\ n \in Nat /\ DOMAIN fromServer' = 1 .. n + m /\ DOMAIN fromServer = 1 .. n
        /\ Due(fromServer') = Due(fromServer)
        /\ \A i \in 1 .. n : fromServer'[i] = fromServer[i]
        /\ fromServer'[n + 1] = [kind |-> "documents", version |-> cloud]
        /\ m = 3 => fromServer'[n + 2] = [kind |-> "current"]
        /\ fromServer'[n + m] = [kind |-> "snapshot"]
    BY <1>0, <2>2 DEF IsSent
  <2> HIDE DEF n
  <2>4. Fresh(cloud)
    BY TypeFacts DEF CloudInv, Fresh, Owners
  <2>5. SUFFICES ASSUME ~ crossed, Owners # {}, NEW i \in DOMAIN fromServer', IsOwn(i)'
                 PROVE  /\ fromServer'[i].kind = "documents" => Fresh(fromServer'[i].version)
                        /\ fromServer'[i].kind = "current" =>
                              IF i = 1 THEN IsCollected
                              ELSE fromServer'[i - 1].kind = "documents"
    BY <2>1 DEF TargetInv, MessageInv, Fresh, Owners, IsCollected
  <2>6. CASE i \in 1 .. n
    <3>1. IsOwn(i) /\ fromServer'[i] = fromServer[i] /\ i \in DOMAIN fromServer
      BY <2>1, <2>3, <2>5, <2>6 DEF IsOwn
    <3>2. i # 1 => fromServer'[i - 1] = fromServer[i - 1]
      BY <2>3, <2>6
    <3> QED
      BY <2>5, <3>1, <3>2 DEF MessageInv
  <2>7. CASE i = n + 1
    BY <2>3, <2>4, <2>7
  <2>8. CASE i = n + 2 /\ m = 3
    <3>1. i # 1 /\ i - 1 = n + 1
      BY <2>3, <2>8
    <3> QED
      BY <2>3, <2>8, <3>1
  <2>9. CASE i = n + m
    BY <2>3, <2>9
  <2>10. i \in 1 .. n \/ i = n + 1 \/ (i = n + 2 /\ m = 3) \/ i = n + m
    BY <2>3
  <2> QED
    BY <2>6, <2>7, <2>8, <2>9, <2>10
<1>8. CASE ServerRejects
  <2>1. /\ UNCHANGED <<listeners, joined, misled, askedAt, target, toServer, crossed>>
        /\ fromServer' = Append(fromServer, [kind |-> "rejected"])
    BY <1>8 DEF ServerRejects, Reject, OnlyServer, callVars, listenVars
  <2> DEFINE n == Len(fromServer)
  <2>2. /\ n \in Nat /\ DOMAIN fromServer' = 1 .. n + 1 /\ DOMAIN fromServer = 1 .. n
        /\ Due(fromServer') = Due(fromServer)
        /\ \A i \in 1 .. n : fromServer'[i] = fromServer[i]
        /\ fromServer'[n + 1] = [kind |-> "rejected"]
    BY <1>0, <2>1, RejectionSent
  <2> HIDE DEF n
  <2>3. SUFFICES ASSUME ~ crossed, Owners # {}, NEW i \in DOMAIN fromServer', IsOwn(i)'
                 PROVE  /\ fromServer'[i].kind = "documents" => Fresh(fromServer'[i].version)
                        /\ fromServer'[i].kind = "current" =>
                              IF i = 1 THEN IsCollected
                              ELSE fromServer'[i - 1].kind = "documents"
    BY <2>1 DEF TargetInv, MessageInv, Fresh, Owners, IsCollected
  <2>4. CASE i \in 1 .. n
    <3>1. IsOwn(i) /\ fromServer'[i] = fromServer[i] /\ i \in DOMAIN fromServer
      BY <2>1, <2>2, <2>3, <2>4 DEF IsOwn
    <3>2. i # 1 => fromServer'[i - 1] = fromServer[i - 1]
      BY <2>2, <2>4
    <3> QED
      BY <2>3, <3>1, <3>2 DEF MessageInv
  <2>5. CASE i = n + 1
    BY <2>2, <2>5
  <2> QED
    BY <2>2, <2>4, <2>5
<1> QED
  BY <1>1, <1>2, <1>3, <1>4, <1>5, <1>6, <1>7, <1>8, LinkCases

-----------------------------------------------------------------------------
(* What is called synchronised is fresh.                                   *)

FreshAnswer(event) ==
    event.result = "synced" /\ event.call \notin joined \cup misled =>
        event.version >= askedAt[event.call]

LEMMA FreshIsEach == AnswersAreFresh <=> \A i \in DOMAIN mainQueue : FreshAnswer(mainQueue[i])
  BY DEF AnswersAreFresh, FreshAnswer

LEMMA ToldFresh ==
    ASSUME TypeInv, AnswersAreFresh, UNCHANGED askedAt,
           joined \subseteq joined', misled \subseteq misled',
           NEW set \in SUBSET (1 .. calls), NEW result \in {"synced", "cached", "error"},
           NEW version \in Versions, Tells(set, result, version),
           result = "synced" => \A c \in set \ (joined' \cup misled') : version >= askedAt[c]
    PROVE  AnswersAreFresh'
<1>1. ToldTo(set, result, version)
  BY Told
<1>2. /\ \A i \in DOMAIN mainQueue : mainQueue'[i] = mainQueue[i]
      /\ \A i \in DOMAIN mainQueue' : i \notin DOMAIN mainQueue =>
            /\ mainQueue'[i].call \in set
            /\ mainQueue'[i].result = result /\ mainQueue'[i].version = version
  BY <1>1 DEF ToldTo
<1>3. ASSUME NEW i \in DOMAIN mainQueue' PROVE FreshAnswer(mainQueue[i])'
  <2>1. CASE i \in DOMAIN mainQueue
    <3>1. FreshAnswer(mainQueue[i]) /\ mainQueue'[i] = mainQueue[i]
      BY <1>2, <2>1, FreshIsEach
    <3> QED
      BY <3>1 DEF FreshAnswer
  <2>2. CASE i \notin DOMAIN mainQueue
    BY <1>2, <2>2 DEF FreshAnswer
  <2> QED
    BY <2>1, <2>2
<1> QED
  BY <1>3 DEF AnswersAreFresh, FreshAnswer

LEMMA QueueSame ==
    ASSUME TypeInv, AnswersAreFresh, UNCHANGED <<askedAt, mainQueue>>,
           joined \subseteq joined', misled \subseteq misled'
    PROVE  AnswersAreFresh'
  BY DEF AnswersAreFresh

LEMMA AnswerStep ==
    ASSUME TypeInv, ViewInv, TargetInv, AnswersAreFresh, [Next]_vars
    PROVE  AnswersAreFresh'
<1>0. /\ listeners \in SUBSET (1 .. calls) /\ view.version \in Versions /\ cache \in Versions
      /\ mainQueue \in Seq(Event) /\ calls \in Nat /\ askedAt \in [Calls -> Versions]
  BY TypeFacts
<1>1. CASE GetDocuments
  <2>1. UNCHANGED <<mainQueue, joined, misled>> /\ askedAt' = [askedAt EXCEPT ![calls + 1] = cloud]
    BY <1>1 DEF GetDocuments, listenVars
  <2>2. ASSUME NEW i \in DOMAIN mainQueue PROVE FreshAnswer(mainQueue[i])'
    <3>1. mainQueue[i].call \in 1 .. calls
      BY DEF TypeInv
    <3>2. askedAt'[mainQueue[i].call] = askedAt[mainQueue[i].call]
      BY <1>0, <2>1, <3>1, TypeFacts
    <3>3. FreshAnswer(mainQueue[i])
      BY FreshIsEach
    <3> QED
      BY <2>1, <3>2, <3>3 DEF FreshAnswer
  <2> QED
    BY <2>1, <2>2 DEF AnswersAreFresh, FreshAnswer
<1>2. CASE RunEvent
  <2>1. UNCHANGED <<askedAt, joined, misled>> /\ mainQueue # << >> /\ mainQueue' = Tail(mainQueue)
    BY <1>2 DEF RunEvent, listenVars
  <2>2. \A i \in DOMAIN mainQueue' : i + 1 \in DOMAIN mainQueue /\ mainQueue'[i] = mainQueue[i + 1]
    BY <1>0, <2>1, TailElements
  <2> QED
    BY <2>1, <2>2 DEF AnswersAreFresh
<1>3. CASE RunTask
  <2> PICK c : c = Head(workQueue).call
    OBVIOUS
  <2>0. UNCHANGED askedAt /\ c \in 1 .. calls
    <3>1. workQueue # << >> /\ workQueue \in Seq(Task)
      BY <1>3, TypeFacts DEF RunTask
    <3>2. 1 \in DOMAIN workQueue /\ Head(workQueue) = workQueue[1]
      BY <3>1, TailElements
    <3> QED
      BY <1>3, <3>2 DEF RunTask, callVars, TypeInv
  <2>1. CASE JoinQuery(c)
    <3>1. joined' = joined \cup {c} /\ UNCHANGED misled
      BY <2>1 DEF JoinQuery
    <3>2. CASE UNCHANGED mainQueue
      BY <2>0, <3>1, <3>2, QueueSame
    <3>3. CASE mainQueue' = mainQueue \o
                  Events({c}, IF view.current THEN "synced" ELSE "cached", view.version)
      <4>1. PICK result \in {"synced", "cached", "error"} : Tells({c}, result, view.version)
        BY <3>3 DEF Tells
      <4>2. /\ {c} \in SUBSET (1 .. calls) /\ {c} \ (joined' \cup misled') = {}
            /\ joined \subseteq joined' /\ misled \subseteq misled'
        BY <2>0, <3>1
      <4> QED
        BY <1>0, <2>0, <4>1, <4>2, ToldFresh
    <3> QED
      BY <2>1, <3>2, <3>3 DEF JoinQuery
  <2>2. CASE Listen(c)
    <3>1. UNCHANGED <<joined, misled>>
      BY <2>2 DEF Listen
    <3>2. CASE UNCHANGED mainQueue
      BY <2>0, <3>1, <3>2, QueueSame
    <3>3. CASE mainQueue' = mainQueue \o Events({c}, "cached", cache)
      <4>1. Tells({c}, "cached", cache) /\ {c} \in SUBSET (1 .. calls)
        BY <2>0, <3>3 DEF Tells
      <4> QED
        BY <1>0, <2>0, <3>1, <4>1, ToldFresh
    <3> QED
      BY <2>2, <3>2, <3>3 DEF Listen
  <2>3. CASE RemoveQueryListener(c)
    BY <2>0, <2>3, QueueSame DEF RemoveQueryListener
  <2> QED
    BY <1>3, <2>1, <2>2, <2>3 DEF RunTask, AddQueryListener
<1>4. ASSUME NEW t, Broadcast(t), UNCHANGED <<askedAt, joined, misled>> PROVE AnswersAreFresh'
  <2>1. PICK set \in SUBSET listeners : Tells(set, "cached", view.version)
    BY <1>4, BroadcastTells
  <2> QED
    BY <1>0, <1>4, <2>1, ToldFresh
<1>5. CASE OnlineTimeout \/ StreamFails \/ IdleTimeout \/ HandleCredentialChange
  <2>1. UNCHANGED <<askedAt, joined, misled>> /\ \E t : Broadcast(t)
    BY <1>5 DEF OnlineTimeout, StreamFails, IdleTimeout, HandleCredentialChange, OnlyStream,
                callVars
  <2> QED
    BY <1>4, <2>1
<1>6. CASE RaiseWatchSnapshot
  <2>1. UNCHANGED <<listeners, joined, askedAt>>
    BY <1>6 DEF RaiseWatchSnapshot, Received, callVars
  <2>2. CASE UNCHANGED <<mainQueue, misled>>
    BY <2>1, <2>2, QueueSame
  <2>3. ASSUME NEW current, NEW told, SnapshotOf(current, told) PROVE AnswersAreFresh'
    <3>1. /\ told \in SUBSET listeners /\ Tells(told, IF current THEN "synced" ELSE "cached", cache')
          /\ current => view.current \/ IsCollected
          /\ misled \subseteq misled' /\ (crossed => told \subseteq misled')
      BY <2>3 DEF SnapshotOf
    <3>2. cache' \in Versions
      BY <1>6, SnapshotCache
    <3>3. told \in SUBSET (1 .. calls) /\ misled \subseteq misled'
      BY <1>0, <3>1
    <3>4. CASE current
      <4>1. Tells(told, "synced", cache')
        BY <3>1, <3>4
      <4>2. ~ crossed => \A c \in Owners' : cache' >= askedAt'[c]
        BY <1>6, <3>1, <3>4, SnapshotIsFresh
      <4>3. \A c \in told \ (joined' \cup misled') : cache' >= askedAt[c]
        BY <2>1, <3>1, <4>2 DEF Owners
      <4> QED
        BY <2>1, <3>2, <3>3, <4>1, <4>3, ToldFresh
    <3>5. CASE ~ current
      <4>1. Tells(told, "cached", cache')
        BY <3>1, <3>5
      <4> QED
        BY <2>1, <3>2, <3>3, <4>1, ToldFresh
    <3> QED
      BY <3>4, <3>5
  <2> QED
    BY <1>6, <2>2, <2>3, SnapshotCases
<1>7. CASE ProcessTargetError
  <2>1. /\ UNCHANGED <<askedAt, joined, misled>>
        /\ Tells(listeners, "error", 0) \/ UNCHANGED mainQueue
    BY <1>7 DEF ProcessTargetError, Received, callVars, Tells
  <2>2. 0 \in Versions
    BY Bounds DEF Versions
  <2> QED
    BY <1>0, <2>1, <2>2, ToldFresh, QueueSame
<1>8. CASE \/ StreamOpens \/ BackoffElapses \/ HandleTargetChange \/ HandleDocumentChange
           \/ ServerReceives \/ ServerSends \/ ServerRejects \/ CloudChanges \/ UNCHANGED vars
  <2>1. UNCHANGED <<askedAt, joined, misled, mainQueue>>
    BY <1>8 DEF StreamOpens, BackoffElapses, OnlyStream, HandleTargetChange,
                HandleDocumentChange, Received, ServerReceives, ServerSends, ServerRejects,
                CloudChanges, OnlyServer, vars, callVars, queueVars, listenVars
  <2> QED
    BY <2>1, QueueSame
<1> QED
  BY <1>1, <1>2, <1>3, <1>5, <1>6, <1>7, <1>8 DEF Next, Exchange

-----------------------------------------------------------------------------
(* The invariant.                                                          *)

(* Everything that holds in every state, and that every step keeps *)
QueryInv == TypeInv /\ StreamInv /\ OnceInv /\ TrackerInv /\ FreshInv

LEMMA AllTypes ==
    CallTypes /\ LinkTypes /\ TrackerTypes /\ Versioned <=> TypeInv
  BY TwoKindsOfTypes DEF StreamTypes, LinkTypes, TrackerTypes, Versioned, StreamStates

LEMMA QueryInit == Init => QueryInv
<1> SUFFICES ASSUME Init PROVE QueryInv
  OBVIOUS
<1>1. /\ view = NoView /\ cache = 0 /\ cloud = 0 /\ served = NotServed /\ target = NewTarget
      /\ fromServer = << >> /\ mainQueue = << >> /\ askedAt = [c \in Calls |-> 0]
  BY DEF Init
<1>2. 0 \in Versions /\ NotServed \in Served
  BY Bounds DEF Versions, NotServed, Served
<1>3. Versioned
  BY <1>1, <1>2, NoViewType DEF Versioned
<1>4. FreshInv
  BY <1>1, NoViewType, NewTargetType
     DEF FreshInv, CloudInv, ViewInv, TargetInv, MessageInv, AnswersAreFresh, IsCollected
<1> QED
  BY <1>3, <1>4, CallInit, LinkInit, TrackerInit, AllTypes DEF QueryInv

LEMMA QueryStep == QueryInv /\ [Next]_vars => QueryInv'
<1> SUFFICES ASSUME QueryInv, [Next]_vars PROVE QueryInv'
  OBVIOUS
<1>1. TypeInv /\ StreamInv /\ OnceInv /\ TrackerInv
      /\ CloudInv /\ ViewInv /\ TargetInv /\ MessageInv /\ AnswersAreFresh
  BY DEF QueryInv, FreshInv
<1>2. CallTypes' /\ OnceInv'
  BY <1>1, CallStep
<1>3. LinkTypes' /\ StreamInv'
  BY <1>1, LinkStep
<1>4. TrackerTypes' /\ TrackerInv'
  BY <1>1, TrackerStep
<1>5. view' \in View /\ cache' \in Versions /\ ViewInv'
  BY <1>1, ViewStep
<1>6. cloud' \in Versions /\ CloudInv' /\ served' \in Served
  BY <1>1, CloudStep, ServedStep
<1>7. TargetInv' /\ MessageInv' /\ AnswersAreFresh'
  BY <1>1, OwnershipStep, AnswerStep
<1>8. TypeInv'
  BY <1>2, <1>3, <1>4, <1>5, <1>6, AllTypes DEF Versioned, CallTypes, LinkTypes, TrackerTypes,
     TypeInv, TypeOK, StreamStates
<1> QED
  BY <1>2, <1>3, <1>4, <1>5, <1>6, <1>7, <1>8 DEF QueryInv, FreshInv

LEMMA QueriesInvariant == Spec => []QueryInv
  BY QueryInit, QueryStep, PTL DEF Spec

(* The types, and with them that no handler of getDocuments runs twice:    *)
(* the listener is muted before its handler runs, an error is the last of  *)
(* its events, and no event of it is there before it is added              *)
(* (query_core.cc, ListenOnce).                                            *)
THEOREM QueriesTypeOK == Spec => []TypeOK
<1>1. QueryInv => TypeOK
  BY DEF QueryInv, TypeInv
<1> QED
  BY <1>1, QueriesInvariant, PTL

(* None of the HARD_ASSERTs of OnlineStateTracker and of RemoteStore fails, *)
(* whatever the order of listeners, failures, timeouts and users.          *)
THEOREM NoAssertionEverFails == Spec => []NoAssertionFails
<1>1. QueryInv => NoAssertionFails
  BY DEF QueryInv, TrackerInv
<1> QED
  BY <1>1, QueriesInvariant, PTL

(* What getDocuments gives as synchronised is not older than the call:     *)
(* messages for the listener before are told apart by the answers that are *)
(* due (TargetState::IsPending).  Rejections may arrive at any time; only  *)
(* what a stream told on which one crossed requests is left out, and a     *)
(* later stream counts again.                                              *)
THEOREM AnswersAreAlwaysFresh == Spec => []AnswersAreFresh
<1>1. QueryInv => AnswersAreFresh
  BY DEF QueryInv, FreshInv
<1> QED
  BY <1>1, QueriesInvariant, PTL

(* Until a rejection crosses requests, a target is active only with no     *)
(* request and no answer under way, as remote_event.h:199 has it, although *)
(* the server may leave requests unanswered and reject targets it serves.  *)
THEOREM ActiveTargetsAreAnsweredUntilCrossed ==
    Spec => [](~ crossed => ActiveTargetsAreAnswered)
<1>1. ASSUME QueryInv, ~ crossed PROVE ActiveTargetsAreAnswered
  <2> SUFFICES ASSUME target.pending = 0 PROVE toServer = << >> /\ ~ HasAnswers(fromServer)
    BY DEF ActiveTargetsAreAnswered, IsActiveTarget
  <2>1. /\ toServer \in Seq({"watch", "unwatch"}) /\ Len(toServer) \in Nat
        /\ fromServer \in Seq(Message)
    BY <1>1, TypeFacts DEF QueryInv
  <2>2. Cardinality(Due(fromServer)) \in Nat /\ IsFiniteSet(Due(fromServer))
    BY <2>1, DueIsFinite
  <2>3. Len(toServer) = 0 /\ Cardinality(Due(fromServer)) = 0
    BY <1>1, <2>1, <2>2 DEF QueryInv, StreamInv
  <2>4. Due(fromServer) = {}
    BY <2>2, <2>3, FS_EmptySet
  <2> QED
    BY <2>1, <2>3, <2>4 DEF Due, HasAnswers
<1>2. QueryInv => (~ crossed => ActiveTargetsAreAnswered)
  BY <1>1
<1> QED
  BY <1>2, QueriesInvariant, PTL
=============================================================================
