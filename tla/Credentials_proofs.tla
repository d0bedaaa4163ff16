-------------------------- MODULE Credentials_proofs --------------------------
(***************************************************************************)
(* Writes are sent under the name of the user who made them, for all       *)
(* users, writes, faults and restarts.                                     *)
(*                                                                         *)
(* Two queues separate FIRAuth from the write stream: the notifications on *)
(* the main queue lead from credUser to authUser, the tasks on the worker  *)
(* queue from syncUser to credUser.  A write is made for the user in       *)
(* effect at its place on the worker queue.  A token with the current      *)
(* close count and no change of user before it names syncUser, and once a  *)
(* change has reached syncUser the count has gone on; the token counter    *)
(* is not needed for this.                                                 *)
(***************************************************************************)
EXTENDS Credentials, SequenceTheorems, TLAPS

IsChange(q, kind, j) == q[j].kind = kind

(* The user in effect before place i of queue q, if from holds at its head *)
InEffect(q, kind, from, i, u) ==
    \/ u = from /\ \A j \in DOMAIN q : j < i => ~ IsChange(q, kind, j)
    \/ \E k \in DOMAIN q :
          /\ k < i /\ IsChange(q, kind, k) /\ q[k].user = u
          /\ \A j \in DOMAIN q : k < j /\ j < i => ~ IsChange(q, kind, j)

UsersAgree ==
    /\ InEffect(mainQueue, "notification", credUser, Len(mainQueue) + 1, authUser)
    /\ InEffect(workQueue, "user", syncUser, Len(workQueue) + 1, credUser)

WritesAreOwned ==
    /\ \A i \in DOMAIN workQueue :
          workQueue[i].kind = "write" =>
             /\ owner[workQueue[i].write] \in Users
             /\ InEffect(workQueue, "user", syncUser, i, owner[workQueue[i].write])
    /\ \A u \in Users : \A i \in DOMAIN mutationQueue[u] : owner[mutationQueue[u][i]] = u
    /\ \A w \in Writes : sentAs[w] \subseteq {owner[w]} \cap Users

(* A token's close count is out of date, or the stream still wants it. *)
IsCurrent(closes, str) ==
    closes <= str.closes /\ (closes = str.closes => str.state \in {"starting", "open"})

TokensAreCurrent(requests, blocks, tasks, str) ==
    /\ \A t \in requests : IsCurrent(t.closes, str)
    /\ \A i \in DOMAIN blocks :
          blocks[i].kind = "token" => IsCurrent(blocks[i].token.closes, str)
    /\ \A i \in DOMAIN tasks :
          tasks[i].kind = "token" => IsCurrent(tasks[i].closes, str)

NoChange(q, kind) == \A j \in DOMAIN q : ~ IsChange(q, kind, j)

NoChangeBefore(q, kind, i) == \A j \in DOMAIN q : j < i => ~ IsChange(q, kind, j)

(* A token with this close count and no change of user before it names u. *)
RequestsName(requests, blocks, tasks, closes, u) ==
    \A t \in requests :
       /\ t.user # Unread /\ t.closes = closes
       /\ NoChange(blocks, "notification") /\ NoChange(tasks, "user")
       => t.user = u

BlocksName(blocks, tasks, closes, u) ==
    \A i \in DOMAIN blocks :
       /\ blocks[i].kind = "token" /\ blocks[i].token.closes = closes
       /\ NoChangeBefore(blocks, "notification", i) /\ NoChange(tasks, "user")
       => blocks[i].token.user = u

TasksName(tasks, closes, u) ==
    \A i \in DOMAIN tasks :
       /\ tasks[i].kind = "token" /\ tasks[i].closes = closes
       /\ NoChangeBefore(tasks, "user", i)
       => tasks[i].user = u

Tokens ==
    /\ TokensAreCurrent(tokenRequests, mainQueue, workQueue, stream)
    /\ RequestsName(tokenRequests, mainQueue, workQueue, stream.closes, syncUser)
    /\ BlocksName(mainQueue, workQueue, stream.closes, syncUser)
    /\ TasksName(workQueue, stream.closes, syncUser)
    /\ StreamActsForItsUser

Inv == TypeOK /\ UsersAgree /\ WritesAreOwned /\ Tokens

-----------------------------------------------------------------------------
(* Queues.                                                                 *)

LEMMA AppendedElements ==
    ASSUME NEW S, NEW q \in Seq(S), NEW e \in S
    PROVE  /\ Append(q, e) \in Seq(S) /\ Len(Append(q, e)) = Len(q) + 1 /\ Len(q) \in Nat
           /\ DOMAIN q = 1 .. Len(q) /\ DOMAIN Append(q, e) = 1 .. Len(q) + 1
           /\ \A i \in 1 .. Len(q) : Append(q, e)[i] = q[i]
           /\ Append(q, e)[Len(q) + 1] = e
  OBVIOUS

LEMMA TailElements ==
    ASSUME NEW S, NEW q \in Seq(S), q # << >>
    PROVE  /\ Tail(q) \in Seq(S) /\ Head(q) \in S /\ Head(q) = q[1] /\ 1 \in DOMAIN q
           /\ DOMAIN q = 1 .. Len(q) /\ DOMAIN Tail(q) = 1 .. Len(q) - 1
           /\ Len(Tail(q)) = Len(q) - 1 /\ Len(q) \in Nat \ {0}
           /\ \A i \in 1 .. Len(q) - 1 : Tail(q)[i] = q[i + 1]
           /\ \A i \in 2 .. Len(q) : q[i] = Tail(q)[i - 1]
  OBVIOUS

(* A change appended is in effect at the end, anything else keeps the user. *)
LEMMA EffectOfAppend ==
    ASSUME NEW S, NEW q \in Seq(S), NEW e \in S, NEW kind, NEW from, NEW u,
           NEW i \in 1 .. Len(q) + 1, InEffect(q, kind, from, i, u)
    PROVE  /\ InEffect(Append(q, e), kind, from, i, u)
           /\ e.kind # kind /\ i = Len(q) + 1 =>
                 InEffect(Append(q, e), kind, from, Len(q) + 2, u)
<1> DEFINE p == Append(q, e)
           n == Len(q)
<1>1. /\ n \in Nat /\ DOMAIN q = 1 .. n /\ DOMAIN p = 1 .. n + 1
      /\ \A j \in 1 .. n : p[j] = q[j]
      /\ p[n + 1] = e
  BY AppendedElements
<1> HIDE DEF p, n
<1>2. \A j \in DOMAIN p : \/ j \in DOMAIN q /\ (IsChange(p, kind, j) <=> IsChange(q, kind, j))
                          \/ j = n + 1 /\ (IsChange(p, kind, j) <=> e.kind = kind)
  BY <1>1 DEF IsChange
<1>3. i \in 1 .. n + 1
  BY DEF n
<1>4. CASE u = from /\ \A j \in DOMAIN q : j < i => ~ IsChange(q, kind, j)
  <2>1. \A j \in DOMAIN p : j < i => ~ IsChange(p, kind, j)
    BY <1>1, <1>2, <1>3, <1>4
  <2>2. e.kind # kind /\ i = n + 1 => \A j \in DOMAIN p : j < n + 2 => ~ IsChange(p, kind, j)
    BY <1>1, <1>2, <1>3, <1>4
  <2> QED
    BY <1>4, <2>1, <2>2 DEF InEffect, p, n
<1>5. ASSUME NEW k \in DOMAIN q, k < i, IsChange(q, kind, k), q[k].user = u,
             \A j \in DOMAIN q : k < j /\ j < i => ~ IsChange(q, kind, j)
      PROVE  /\ InEffect(p, kind, from, i, u)
             /\ e.kind # kind /\ i = n + 1 => InEffect(p, kind, from, n + 2, u)
  <2>1. k \in DOMAIN p /\ IsChange(p, kind, k) /\ p[k].user = u /\ k < n + 2
    BY <1>1, <1>3, <1>5 DEF IsChange
  <2>2. \A j \in DOMAIN p : k < j /\ j < i => ~ IsChange(p, kind, j)
    BY <1>1, <1>2, <1>3, <1>5
  <2>3. e.kind # kind /\ i = n + 1 =>
           \A j \in DOMAIN p : k < j /\ j < n + 2 => ~ IsChange(p, kind, j)
    BY <1>1, <1>2, <1>3, <1>5
  <2> QED
    BY <1>5, <2>1, <2>2, <2>3 DEF InEffect
<1> QED
  BY <1>4, <1>5 DEF InEffect, p, n

LEMMA EffectOfChange ==
    ASSUME NEW S, NEW q \in Seq(S), NEW e \in S, NEW kind, NEW from, e.kind = kind
    PROVE  InEffect(Append(q, e), kind, from, Len(q) + 2, e.user)
<1> DEFINE p == Append(q, e)
           n == Len(q)
<1>1. n \in Nat /\ DOMAIN p = 1 .. n + 1 /\ p[n + 1] = e
  BY AppendedElements
<1> HIDE DEF p, n
<1>2. /\ n + 1 \in DOMAIN p /\ n + 1 < n + 2 /\ IsChange(p, kind, n + 1)
      /\ p[n + 1].user = e.user
      /\ \A j \in DOMAIN p : n + 1 < j /\ j < n + 2 => ~ IsChange(p, kind, j)
  BY <1>1 DEF IsChange
<1> QED
  BY <1>2 DEF InEffect, p, n

(* What leaves the queue passes its user on. *)
LEMMA EffectOfTail ==
    ASSUME NEW S, NEW q \in Seq(S), q # << >>, NEW kind, NEW from, NEW after, NEW u,
           after = (IF q[1].kind = kind THEN q[1].user ELSE from),
           NEW i \in 1 .. Len(q), InEffect(q, kind, from, i + 1, u)
    PROVE  InEffect(Tail(q), kind, after, i, u)
<1> DEFINE p == Tail(q)
           n == Len(q)
<1>1. /\ n \in Nat \ {0} /\ DOMAIN q = 1 .. n /\ DOMAIN p = 1 .. n - 1
      /\ \A j \in 1 .. n - 1 : p[j] = q[j + 1]
      /\ \A j \in 2 .. n : q[j] = p[j - 1]
  BY TailElements
<1> HIDE DEF p
<1>2. /\ \A j \in DOMAIN p : /\ j \in Nat /\ j + 1 \in DOMAIN q /\ j + 1 # 1
                             /\ IsChange(p, kind, j) <=> IsChange(q, kind, j + 1)
      /\ i \in Nat /\ 1 \in DOMAIN q /\ 1 < i + 1
  BY <1>1 DEF IsChange
<1>3. CASE u = from /\ \A j \in DOMAIN q : j < i + 1 => ~ IsChange(q, kind, j)
  <2>1. \A j \in DOMAIN p : j < i => ~ IsChange(p, kind, j)
    BY <1>2, <1>3
  <2>2. after = from
    BY <1>2, <1>3 DEF IsChange
  <2> QED
    BY <1>3, <2>1, <2>2 DEF InEffect, p
<1>4. ASSUME NEW k \in DOMAIN q, k < i + 1, IsChange(q, kind, k), q[k].user = u,
             \A j \in DOMAIN q : k < j /\ j < i + 1 => ~ IsChange(q, kind, j)
      PROVE  InEffect(p, kind, after, i, u)
  <2>1. CASE k = 1
    <3>1. after = u
      BY <1>4, <2>1 DEF IsChange
    <3>2. \A j \in DOMAIN p : j < i => ~ IsChange(p, kind, j)
      BY <1>1, <1>2, <1>4, <2>1
    <3> QED
      BY <3>1, <3>2 DEF InEffect
  <2>2. CASE k # 1
    <3>1. /\ k - 1 \in DOMAIN p /\ k - 1 < i /\ IsChange(p, kind, k - 1) /\ p[k - 1].user = u
      BY <1>1, <1>2, <1>4, <2>2 DEF IsChange
    <3>2. \A j \in DOMAIN p : k - 1 < j /\ j < i => ~ IsChange(p, kind, j)
      BY <1>1, <1>2, <1>4
    <3> QED
      BY <3>1, <3>2 DEF InEffect
  <2> QED
    BY <2>1, <2>2
<1> QED
  BY <1>3, <1>4 DEF InEffect, p

-----------------------------------------------------------------------------
(* Types.                                                                  *)

Streams  == [state : {"initial", "error"} \cup Started, closes : Nat, user : Users]
Requests == [counter : Nat, closes : Nat, user : Users \cup {Unread}]

LEMMA BlockFields ==
    ASSUME NEW block \in Blocks
    PROVE  /\ block.kind \in {"notification", "token", "answer"}
           /\ block.kind = "notification" => block.user \in Users
           /\ block.kind = "answer" => block.write \in Writes
           /\ block.kind = "token" =>
                 /\ block.token \in [counter : Nat, closes : Nat, user : Users]
                 /\ block.token.counter \in Nat /\ block.token.closes \in Nat
                 /\ block.token.user \in Users
  BY DEF Blocks, Notification, Answer

LEMMA AreBlocks ==
    /\ \A u \in Users : /\ Notification(u) \in Blocks
                        /\ Notification(u).kind = "notification" /\ Notification(u).user = u
    /\ \A w \in Writes : Answer(w) \in Blocks /\ Answer(w).kind = "answer"
    /\ \A t \in [counter : Nat, closes : Nat, user : Users] :
          /\ TokenBlock(t) \in Blocks
          /\ TokenBlock(t).kind = "token" /\ TokenBlock(t).token = t
  BY DEF Blocks, Notification, Answer, TokenBlock

LEMMA TaskFields ==
    ASSUME NEW task \in Tasks
    PROVE  /\ task.kind \in {"user", "write", "token"}
           /\ task.kind = "user" => task.user \in Users
           /\ task.kind = "write" => task.write \in Writes
           /\ task.kind = "token" => /\ task.ok \in BOOLEAN /\ task.closes \in Nat
                                     /\ task.user \in Users
  BY DEF Tasks

(* A pipeline that is filled keeps an open stream, and asks for a token    *)
(* only when it starts a stream.                                           *)
LEMMA PipelineFilled ==
    ASSUME stream \in Streams, tokenRequests \subseteq Requests,
           NEW queue, NEW state \in {"initial", "error"} \cup Started,
           NEW closes \in Nat, NEW counter \in Nat,
           FillWritePipeline(queue, state, closes, counter)
    PROVE  /\ stream' \in Streams /\ tokenRequests' \subseteq Requests
           /\ stream'.closes = closes
           /\ stream'.state = "open" <=> state = "open"
           /\ state = "open" => stream'.user = stream.user
           /\ state = "starting" => stream'.state = "starting"
           /\ \A t \in tokenRequests' : \/ t \in tokenRequests
                                        \/ /\ t.closes = closes /\ t.user = Unread
                                           /\ stream'.state = "starting"
<1> DEFINE next == IF queue = << >> \/ state \in Started THEN state
                   ELSE IF state = "error" THEN "backoff" ELSE "starting"
           request == [counter |-> counter, closes |-> closes, user |-> Unread]
<1>1. /\ stream' = [state |-> next, closes |-> closes,
                    user |-> IF next = "open" THEN stream.user ELSE Nobody]
      /\ tokenRequests' = IF next = "starting" /\ state = "initial"
                          THEN tokenRequests \cup {request} ELSE tokenRequests
  BY DEF FillWritePipeline
<1>2. /\ next \in {"initial", "error"} \cup Started
      /\ next = "open" <=> state = "open"
      /\ state = "starting" => next = "starting"
  BY DEF Started
<1>3. request \in Requests /\ request.closes = closes /\ request.user = Unread
  BY DEF Requests
<1>4. stream.user \in Users /\ Nobody \in Users
  BY DEF Streams, Users
<1> HIDE DEF next, request
<1>5. stream' \in Streams /\ stream'.closes = closes /\ stream'.state = next
      /\ (next = "open" => stream'.user = stream.user)
  BY <1>1, <1>2, <1>4 DEF Streams
<1>6. /\ tokenRequests' \subseteq Requests
      /\ \A t \in tokenRequests' : t \in tokenRequests \/ (t = request /\ next = "starting")
  BY <1>1, <1>3
<1> QED
  BY <1>2, <1>3, <1>5, <1>6

(* What the type says of each part of the state *)
LEMMA TypeParts ==
    ASSUME TypeOK
    PROVE  /\ stream \in Streams /\ tokenRequests \subseteq Requests
           /\ stream.closes \in Nat /\ stream.user \in Users
           /\ stream.state \in {"initial", "error"} \cup Started
           /\ mainQueue \in Seq(Blocks) /\ workQueue \in Seq(Tasks)
           /\ authUser \in Users /\ credUser \in Users /\ syncUser \in Users
           /\ tokenCounter \in Nat
           /\ \A u \in Users : mutationQueue[u] \in Seq(Writes)
           /\ Pipeline \in Seq(Writes) /\ onServer \in 0 .. Len(Pipeline)
  BY DEF TypeOK, Streams, Requests, Pipeline

LEMMA InitType == Init => TypeOK
<1> SUFFICES ASSUME Init PROVE TypeOK
  OBVIOUS
<1>1. {authUser, credUser, syncUser} \subseteq Users
  BY DEF Init, LaunchUsers, Users
<1>2. mainQueue \in Seq(Blocks) /\ workQueue \in Seq(Tasks)
  <2>1. mainQueue = << >> \/ mainQueue = <<Notification(authUser)>>
    BY DEF Init, LaunchNotifications
  <2>2. Notification(authUser) \in Blocks
    BY <1>1, AreBlocks
  <2>3. mainQueue \in Seq(Blocks)
    <3>1. << >> \in Seq(Blocks) /\ \A b \in Blocks : <<b>> \in Seq(Blocks)
      OBVIOUS
    <3> QED
      BY <2>1, <2>2, <3>1
  <2> QED
    BY <2>3 DEF Init
<1>3. /\ mutationQueue \in [Users -> Seq(Writes)] /\ onServer \in 0 .. Len(mutationQueue[syncUser])
  <2>1. \A u \in Users : mutationQueue[u] = << >>
    BY DEF Init
  <2>2. mutationQueue \in [Users -> Seq(Writes)]
    BY DEF Init
  <2>3. Len(mutationQueue[syncUser]) = 0
    BY <1>1, <2>1
  <2> QED
    BY <2>2, <2>3 DEF Init
<1>4. stream \in [state : {"initial", "error"} \cup Started, closes : Nat, user : Users]
  BY DEF Init, Users
<1>5. /\ owner \in [Writes -> Users \cup {Unread}] /\ sentAs \in [Writes -> SUBSET Users]
      /\ answered \in [Writes -> Nat]
  BY DEF Init
<1>6. /\ changes \in 0 .. MaxChanges /\ {faults, restarts} \subseteq 0 .. MaxFaults
  BY CredentialsConstants DEF Init
<1> QED
  BY <1>1, <1>2, <1>3, <1>4, <1>5, <1>6 DEF Init, TypeOK

(* The user whose write leaves the pipeline *)
LEMMA FinishedType ==
    ASSUME TypeOK, Pipeline # << >>, FinishWrite(Head(Pipeline))
    PROVE  /\ mutationQueue' \in [Users -> Seq(Writes)]
           /\ mutationQueue'[syncUser] = Tail(Pipeline) /\ Tail(Pipeline) \in Seq(Writes)
           /\ Len(Tail(Pipeline)) = Len(Pipeline) - 1
           /\ callbacks' \subseteq Writes
           /\ mainQueue' \in Seq(Blocks)
           /\ \/ mainQueue' = mainQueue
              \/ \E w \in Writes : mainQueue' = Append(mainQueue, Answer(w))
<1>1. Pipeline \in Seq(Writes) /\ syncUser \in Users /\ mainQueue \in Seq(Blocks)
  BY TypeParts
<1>2. /\ Tail(Pipeline) \in Seq(Writes) /\ Head(Pipeline) \in Writes
      /\ Len(Tail(Pipeline)) = Len(Pipeline) - 1
  BY <1>1, TailElements
<1>3. mutationQueue' = [mutationQueue EXCEPT ![syncUser] = Tail(Pipeline)]
  BY DEF FinishWrite, Pipeline
<1>4. /\ mutationQueue' \in [Users -> Seq(Writes)]
      /\ mutationQueue'[syncUser] = Tail(Pipeline)
  BY <1>1, <1>2, <1>3 DEF TypeOK
<1>5. /\ callbacks' \subseteq Writes
      /\ mainQueue' = mainQueue \/ mainQueue' = Append(mainQueue, Answer(Head(Pipeline)))
  BY DEF FinishWrite, TypeOK
<1>6. Append(mainQueue, Answer(Head(Pipeline))) \in Seq(Blocks)
  <2>1. Answer(Head(Pipeline)) \in Blocks
    BY <1>2, AreBlocks
  <2> QED
    BY <1>1, <2>1, AppendedElements
<1> QED
  BY <1>1, <1>2, <1>4, <1>5, <1>6

LEMMA TypeNetwork ==
    ASSUME TypeOK,
           \/ BackoffElapsed \/ ServerAppliesWrite \/ WriteAcknowledged \/ WriteRejected
           \/ WriteStreamBreaks \/ IdleTimeout
    PROVE  TypeOK'
<1> USE CredentialsConstants
<1>1. CASE BackoffElapsed
  <2>1. stream' \in Streams /\ tokenRequests' \subseteq Requests
    <3>1. /\ FillWritePipeline(Pipeline, "initial", stream.closes, tokenCounter)
          /\ "initial" \in {"initial", "error"} \cup Started
      BY <1>1 DEF BackoffElapsed
    <3> QED
      BY <3>1, TypeParts, PipelineFilled
  <2>2. UNCHANGED <<authVars, credVars, syncUser, mutationQueue, callbacks, onServer,
                    sentAs, mainQueue, workQueue, owner, answered, faults, restarts>>
    BY <1>1 DEF BackoffElapsed
  <2> QED
    BY <2>1, <2>2 DEF TypeOK, Streams, Requests, authVars, credVars
<1>2. CASE ServerAppliesWrite
  <2>1. onServer' \in 0 .. Len(mutationQueue'[syncUser'])
    BY <1>2, TypeParts DEF ServerAppliesWrite, Pipeline
  <2>2. sentAs' \in [Writes -> SUBSET Users]
    <3>1. sentAs' = [sentAs EXCEPT ![Pipeline[onServer + 1]] =
                        sentAs[Pipeline[onServer + 1]] \cup {stream.user}]
      BY <1>2 DEF ServerAppliesWrite
    <3> QED
      BY <3>1, TypeParts DEF TypeOK
  <2>3. UNCHANGED <<authVars, credVars, syncUser, mutationQueue, callbacks, stream, mainQueue,
                    tokenRequests, workQueue, owner, answered, faults, restarts>>
    BY <1>2 DEF ServerAppliesWrite
  <2> QED
    BY <2>1, <2>2, <2>3 DEF TypeOK, authVars, credVars
<1>3. CASE WriteAcknowledged
  <2>1. Pipeline # << >> /\ FinishWrite(Head(Pipeline)) /\ onServer' = onServer - 1 /\ onServer > 0
    BY <1>3, TypeParts DEF WriteAcknowledged
  <2>2. UNCHANGED <<authVars, credVars, syncUser, stream, sentAs, tokenRequests, workQueue,
                    owner, answered, faults, restarts>>
    BY <1>3 DEF WriteAcknowledged
  <2>3. onServer' \in 0 .. Len(mutationQueue'[syncUser'])
    <3>1. mutationQueue'[syncUser] = Tail(Pipeline) /\ Len(Tail(Pipeline)) = Len(Pipeline) - 1
      BY <2>1, FinishedType
    <3>2. onServer \in 0 .. Len(Pipeline) /\ Len(Pipeline) \in Nat
      BY TypeParts
    <3> QED
      BY <2>1, <2>2, <3>1, <3>2
  <2>4. /\ mutationQueue' \in [Users -> Seq(Writes)] /\ callbacks' \subseteq Writes
        /\ mainQueue' \in Seq(Blocks)
    BY <2>1, FinishedType
  <2> QED
    BY <2>2, <2>3, <2>4 DEF TypeOK, authVars, credVars
<1>4. CASE WriteRejected
  <2>1. /\ Pipeline # << >> /\ FinishWrite(Head(Pipeline)) /\ onServer = 0
        /\ FillWritePipeline(Tail(Pipeline), "initial", stream.closes + 1, tokenCounter)
        /\ faults' = faults + 1 /\ faults + restarts < MaxFaults
    BY <1>4 DEF WriteRejected
  <2>2. UNCHANGED <<authVars, credVars, syncUser, onServer, sentAs, workQueue, owner, answered,
                    restarts>>
    BY <1>4 DEF WriteRejected
  <2>3. stream' \in Streams /\ tokenRequests' \subseteq Requests
    <3>1. "initial" \in {"initial", "error"} \cup Started /\ stream.closes + 1 \in Nat
      BY TypeParts
    <3> QED
      BY <2>1, <3>1, TypeParts, PipelineFilled
  <2>4. onServer' \in 0 .. Len(mutationQueue'[syncUser'])
    <3>1. mutationQueue'[syncUser] = Tail(Pipeline) /\ Tail(Pipeline) \in Seq(Writes)
      BY <2>1, FinishedType
    <3>2. Len(Tail(Pipeline)) \in Nat
      BY <3>1
    <3> QED
      BY <2>1, <2>2, <3>1, <3>2
  <2>5. /\ mutationQueue' \in [Users -> Seq(Writes)] /\ callbacks' \subseteq Writes
        /\ mainQueue' \in Seq(Blocks)
    BY <2>1, FinishedType
  <2>6. faults' \in 0 .. MaxFaults
    BY <2>1 DEF TypeOK
  <2> QED
    BY <2>2, <2>3, <2>4, <2>5, <2>6 DEF TypeOK, Streams, Requests, authVars, credVars
<1>5. CASE WriteStreamBreaks
  <2>1. /\ FillWritePipeline(Pipeline, "error", stream.closes + 1, tokenCounter)
        /\ faults' = faults + 1 /\ faults + restarts < MaxFaults /\ onServer' = 0
    BY <1>5 DEF WriteStreamBreaks
  <2>2. UNCHANGED <<authVars, credVars, syncUser, mutationQueue, callbacks, sentAs, mainQueue,
                    workQueue, owner, answered, restarts>>
    BY <1>5 DEF WriteStreamBreaks
  <2>3. stream' \in Streams /\ tokenRequests' \subseteq Requests
    <3>1. "error" \in {"initial", "error"} \cup Started /\ stream.closes + 1 \in Nat
      BY TypeParts
    <3> QED
      BY <2>1, <3>1, TypeParts, PipelineFilled
  <2>4. onServer' \in 0 .. Len(mutationQueue'[syncUser'])
    BY <2>1, <2>2, TypeParts DEF Pipeline
  <2>5. faults' \in 0 .. MaxFaults
    BY <2>1 DEF TypeOK
  <2> QED
    BY <2>2, <2>3, <2>4, <2>5 DEF TypeOK, Streams, Requests, authVars, credVars
<1>6. CASE IdleTimeout
  <2>1. stream' \in Streams
    <3>1. stream' = [state |-> "initial", closes |-> stream.closes + 1, user |-> Nobody]
      BY <1>6 DEF IdleTimeout
    <3>2. stream.closes + 1 \in Nat /\ Nobody \in Users
      BY TypeParts DEF Users
    <3> QED
      BY <3>1, <3>2 DEF Streams
  <2>2. UNCHANGED <<authVars, credVars, syncUser, mutationQueue, callbacks, onServer, sentAs,
                    mainQueue, tokenRequests, workQueue, owner, answered, faults, restarts>>
    BY <1>6 DEF IdleTimeout
  <2> QED
    BY <2>1, <2>2 DEF TypeOK, Streams, authVars, credVars
<1> QED
  BY <1>1, <1>2, <1>3, <1>4, <1>5, <1>6

(* A token takes the user FIRAuth has when it looks. *)
LEMMA TokenRead ==
    ASSUME NEW t \in Requests, NEW u \in Users
    PROVE  /\ [t EXCEPT !.user = u] \in [counter : Nat, closes : Nat, user : Users]
           /\ [t EXCEPT !.user = u] \in Requests
           /\ [t EXCEPT !.user = u].user = u /\ [t EXCEPT !.user = u].closes = t.closes
  BY DEF Requests

LEMMA ReadIsToken ==
    ASSUME NEW t \in Requests, t.user # Unread
    PROVE  t \in [counter : Nat, closes : Nat, user : Users]
  BY DEF Requests

LEMMA TypeRead ==
    ASSUME TypeOK, NEW t \in tokenRequests, ReadToken(t) \/ PostToken(t)
    PROVE  TypeOK'
<1>1. t \in Requests /\ tokenRequests \subseteq Requests /\ authUser \in Users /\ Nobody \in Users
  BY TypeParts DEF Users
<1>2. tokenRequests' \subseteq Requests
  <2>1. tokenRequests' \subseteq tokenRequests \cup {[t EXCEPT !.user = authUser]}
    BY DEF ReadToken, PostToken
  <2>2. [t EXCEPT !.user = authUser] \in Requests
    BY <1>1, TokenRead
  <2> QED
    BY <1>1, <2>1, <2>2
<1>3. mainQueue' \in Seq(Blocks)
  <2>1. mainQueue \in Seq(Blocks)
    BY TypeParts
  <2>2. CASE ReadToken(t)
    <3>1. \/ mainQueue' = mainQueue
          \/ mainQueue' = Append(mainQueue, TokenBlock([t EXCEPT !.user = Nobody]))
      BY <2>2 DEF ReadToken
    <3>2. TokenBlock([t EXCEPT !.user = Nobody]) \in Blocks
      BY <1>1, TokenRead, AreBlocks
    <3> QED
      BY <2>1, <3>1, <3>2, AppendedElements
  <2>3. CASE PostToken(t)
    <3>1. mainQueue' = Append(mainQueue, TokenBlock(t)) /\ t.user # Unread
      BY <2>3 DEF PostToken
    <3>2. TokenBlock(t) \in Blocks
      BY <1>1, <3>1, ReadIsToken, AreBlocks
    <3> QED
      BY <2>1, <3>1, <3>2, AppendedElements
  <2> QED
    BY <2>2, <2>3
<1>4. UNCHANGED <<authVars, credVars, sdkVars, workQueue, owner, answered, faults, restarts>>
  BY DEF ReadToken, PostToken
<1> QED
  BY <1>2, <1>3, <1>4 DEF TypeOK, Requests, authVars, credVars, sdkVars

(* What a task does, as far as its type goes *)
LEMMA TypeRunTask ==
    ASSUME TypeOK, RunTask
    PROVE  TypeOK'
<1> DEFINE task == Head(workQueue)
<1>1. /\ workQueue # << >> /\ workQueue' = Tail(workQueue)
      /\ UNCHANGED <<authVars, credVars, mainQueue, owner, answered, faults, restarts>>
      /\ \/ task.kind = "write" /\ WriteMutations(task.write)
         \/ task.kind = "user"  /\ HandleCredentialChange(task.user)
         \/ task.kind = "token" /\ ResumeStart(task)
  BY DEF RunTask
<1>2. task \in Tasks /\ workQueue' \in Seq(Tasks)
  BY <1>1, TailElements, TypeParts
<1> HIDE DEF task
<1>3. SUFFICES /\ syncUser' \in Users /\ mutationQueue' \in [Users -> Seq(Writes)]
               /\ callbacks' \subseteq Writes
               /\ stream' \in Streams /\ tokenRequests' \subseteq Requests
               /\ onServer' \in 0 .. Len(mutationQueue'[syncUser'])
               /\ sentAs' \in [Writes -> SUBSET Users]
  BY <1>1, <1>2 DEF TypeOK, Streams, Requests, authVars, credVars
<1>4. CASE task.kind = "write" /\ WriteMutations(task.write)
  <2>1. task.write \in Writes
    BY <1>2, <1>4, TaskFields
  <2>2. /\ mutationQueue' = [mutationQueue EXCEPT ![syncUser] = Append(Pipeline, task.write)]
        /\ callbacks' = callbacks \cup {task.write}
        /\ FillWritePipeline(Append(Pipeline, task.write), stream.state, stream.closes,
                             tokenCounter)
        /\ UNCHANGED <<syncUser, onServer, sentAs>>
    BY <1>4 DEF WriteMutations, Pipeline
  <2>3. /\ Append(Pipeline, task.write) \in Seq(Writes)
        /\ Len(Append(Pipeline, task.write)) = Len(Pipeline) + 1 /\ Len(Pipeline) \in Nat
    BY <2>1, TypeParts, AppendedElements
  <2>4. /\ mutationQueue' \in [Users -> Seq(Writes)]
        /\ mutationQueue'[syncUser] = Append(Pipeline, task.write)
    BY <2>2, <2>3 DEF TypeOK
  <2>5. onServer' \in 0 .. Len(mutationQueue'[syncUser'])
    BY <2>2, <2>3, <2>4, TypeParts
  <2>6. stream' \in Streams /\ tokenRequests' \subseteq Requests
    BY <2>2, TypeParts, PipelineFilled
  <2> QED
    BY <2>1, <2>2, <2>4, <2>5, <2>6 DEF TypeOK
<1>5. CASE task.kind = "user" /\ HandleCredentialChange(task.user)
  <2>1. task.user \in Users
    BY <1>2, <1>5, TaskFields
  <2> DEFINE closes == IF stream.state \in Started THEN stream.closes + 1 ELSE stream.closes
  <2>2. /\ syncUser' = task.user /\ onServer' = 0
        /\ FillWritePipeline(mutationQueue[task.user], Stopped, closes, tokenCounter)
        /\ UNCHANGED <<mutationQueue, callbacks, sentAs>>
    BY <1>5 DEF HandleCredentialChange
  <2>3. Stopped \in {"initial", "error"} \cup Started /\ closes \in Nat
    BY TypeParts DEF Stopped
  <2> HIDE DEF closes
  <2>4. stream' \in Streams /\ tokenRequests' \subseteq Requests
    BY <2>2, <2>3, TypeParts, PipelineFilled
  <2>5. onServer' \in 0 .. Len(mutationQueue'[syncUser'])
    <3>1. mutationQueue'[syncUser'] \in Seq(Writes)
      BY <2>1, <2>2, TypeParts
    <3> QED
      BY <2>2, <3>1
  <2> QED
    BY <2>1, <2>2, <2>4, <2>5 DEF TypeOK
<1>6. CASE task.kind = "token" /\ ResumeStart(task)
  <2>1. UNCHANGED <<syncUser, mutationQueue, callbacks, onServer, sentAs>>
    BY <1>6 DEF ResumeStart
  <2>2. stream' \in Streams /\ tokenRequests' \subseteq Requests
    <3>1. CASE UNCHANGED <<stream, tokenRequests>>
      BY <3>1, TypeParts
    <3>2. CASE stream' = [stream EXCEPT !.state = "open", !.user = task.user]
               /\ UNCHANGED tokenRequests
      <4>1. task.user \in Users
        BY <1>2, <1>6, TaskFields
      <4>2. stream' \in Streams
        BY <3>2, <4>1, TypeParts DEF Streams, Started
      <4> QED
        BY <3>2, <4>2, TypeParts
    <3>3. CASE FillWritePipeline(Pipeline, "error", stream.closes + 1, tokenCounter)
      <4>1. "error" \in {"initial", "error"} \cup Started /\ stream.closes + 1 \in Nat
        BY TypeParts
      <4> QED
        BY <3>3, <4>1, TypeParts, PipelineFilled
    <3> QED
      BY <1>6, <3>1, <3>2, <3>3 DEF ResumeStart
  <2> QED
    BY <2>1, <2>2, TypeParts DEF TypeOK
<1> QED
  BY <1>1, <1>4, <1>5, <1>6

LEMMA TypeRunBlock ==
    ASSUME TypeOK, RunBlock
    PROVE  TypeOK'
<1> DEFINE block == Head(mainQueue)
<1>1. /\ mainQueue # << >> /\ mainQueue' = Tail(mainQueue)
      /\ UNCHANGED <<authVars, sdkVars, tokenRequests, owner, faults, restarts>>
      /\ \/ block.kind = "notification" /\ UserNotified(block.user)
         \/ block.kind = "token" /\ TokenReceived(block.token)
         \/ /\ block.kind = "answer"
            /\ answered' = [answered EXCEPT ![block.write] = answered[block.write] + 1]
            /\ UNCHANGED <<credVars, workQueue>>
  BY DEF RunBlock
<1>2. block \in Blocks /\ mainQueue' \in Seq(Blocks)
  BY <1>1, TailElements, TypeParts
<1> HIDE DEF block
<1>3. SUFFICES /\ credUser' \in Users /\ tokenCounter' \in Nat /\ workQueue' \in Seq(Tasks)
               /\ answered' \in [Writes -> Nat]
  BY <1>1, <1>2 DEF TypeOK, authVars, sdkVars
<1>4. CASE block.kind = "notification" /\ UserNotified(block.user)
  <2>1. block.user \in Users
    BY <1>2, <1>4, BlockFields
  <2>2. [kind |-> "user", user |-> block.user] \in Tasks
    BY <2>1 DEF Tasks
  <2>3. workQueue' \in Seq(Tasks)
    <3>1. workQueue' = Append(workQueue, [kind |-> "user", user |-> block.user])
      BY <1>4 DEF UserNotified
    <3> QED
      BY <2>2, <3>1, TypeParts, AppendedElements
  <2>4. credUser' = block.user /\ tokenCounter' = tokenCounter + 1 /\ answered' = answered
    BY <1>4 DEF UserNotified
  <2> QED
    BY <2>1, <2>3, <2>4 DEF TypeOK
<1>5. CASE block.kind = "token" /\ TokenReceived(block.token)
  <2> DEFINE task == [kind |-> "token", ok |-> block.token.counter = tokenCounter,
                      closes |-> block.token.closes, user |-> block.token.user]
  <2>1. task \in Tasks
    BY <1>2, <1>5, BlockFields DEF Tasks
  <2>2. /\ workQueue' = Append(workQueue, task)
        /\ UNCHANGED <<credVars, answered>>
    BY <1>5 DEF TokenReceived
  <2> HIDE DEF task
  <2>3. workQueue' \in Seq(Tasks)
    BY <2>1, <2>2, TypeParts, AppendedElements
  <2> QED
    BY <2>2, <2>3 DEF TypeOK, credVars
<1>6. CASE /\ block.kind = "answer"
           /\ answered' = [answered EXCEPT ![block.write] = answered[block.write] + 1]
           /\ UNCHANGED <<credVars, workQueue>>
  <2>1. block.write \in Writes
    BY <1>2, <1>6, BlockFields
  <2> QED
    BY <1>6, <2>1 DEF TypeOK, credVars
<1> QED
  BY <1>1, <1>4, <1>5, <1>6

LEMMA TypeUser ==
    ASSUME TypeOK,
           \/ \E u \in Users : UpdateCurrentUser(u)
           \/ \E w \in Writes : MakeWrite(w)
    PROVE  TypeOK'
<1>1. ASSUME NEW u \in Users, UpdateCurrentUser(u)
      PROVE  TypeOK'
  <2>1. changes' \in 0 .. MaxChanges
    BY <1>1, CredentialsConstants DEF UpdateCurrentUser, TypeOK
  <2>2. mainQueue' \in Seq(Blocks)
    <3>1. mainQueue' = Append(mainQueue, Notification(u)) /\ Notification(u) \in Blocks
      BY <1>1, AreBlocks DEF UpdateCurrentUser
    <3> QED
      BY <3>1, TypeParts, AppendedElements
  <2>3. authUser' = u /\ UNCHANGED <<credVars, sdkVars, tokenRequests, workQueue, owner,
                                     answered, faults, restarts>>
    BY <1>1 DEF UpdateCurrentUser
  <2> QED
    BY <2>1, <2>2, <2>3 DEF TypeOK, credVars, sdkVars
<1>2. ASSUME NEW w \in Writes, MakeWrite(w)
      PROVE  TypeOK'
  <2>1. workQueue' \in Seq(Tasks)
    <3>1. /\ workQueue' = Append(workQueue, [kind |-> "write", write |-> w])
          /\ [kind |-> "write", write |-> w] \in Tasks
      BY <1>2 DEF MakeWrite, Tasks
    <3> QED
      BY <3>1, TypeParts, AppendedElements
  <2>2. owner' \in [Writes -> Users \cup {Unread}]
    BY <1>2 DEF MakeWrite, TypeOK
  <2>3. UNCHANGED <<authVars, credVars, sdkVars, mainQueue, tokenRequests, answered, faults,
                    restarts>>
    BY <1>2 DEF MakeWrite
  <2> QED
    BY <2>1, <2>2, <2>3 DEF TypeOK, authVars, credVars, sdkVars
<1> QED
  BY <1>1, <1>2

(* A launch leaves what FIRAuth and the disk have kept. *)
LEMMA TypeRestart ==
    ASSUME TypeOK, Restart
    PROVE  TypeOK'
<1>1. PICK u \in LaunchUsers :
         /\ credUser' = u /\ syncUser' = u
         /\ stream' = [state |-> IF mutationQueue[u] = << >> THEN "initial" ELSE "starting",
                       closes |-> 0, user |-> Nobody]
         /\ tokenRequests' = IF mutationQueue[u] = << >> THEN {}
                             ELSE {[counter |-> 0, closes |-> 0, user |-> Unread]}
  BY DEF Restart
<1>2. /\ faults + restarts < MaxFaults /\ restarts' = restarts + 1
      /\ mainQueue' = LaunchNotifications /\ workQueue' = << >>
      /\ tokenCounter' = 0 /\ callbacks' = {} /\ onServer' = 0
      /\ UNCHANGED <<authVars, mutationQueue, sentAs, owner, answered, faults>>
  BY DEF Restart
<1>3. u \in Users /\ authUser \in Users /\ Nobody \in Users
  BY DEF LaunchUsers, TypeOK, Users
<1>4. mainQueue' \in Seq(Blocks)
  <2>1. mainQueue' = << >> \/ mainQueue' = <<Notification(authUser)>>
    BY <1>2 DEF LaunchNotifications
  <2>2. << >> \in Seq(Blocks) /\ \A b \in Blocks : <<b>> \in Seq(Blocks)
    OBVIOUS
  <2> QED
    BY <1>3, <2>1, <2>2, AreBlocks
<1>5. stream' \in Streams /\ tokenRequests' \subseteq Requests
  BY <1>1, <1>3 DEF Streams, Started, Requests
<1>6. onServer' \in 0 .. Len(mutationQueue'[syncUser'])
  <2>1. mutationQueue'[syncUser'] \in Seq(Writes)
    BY <1>1, <1>2, <1>3, TypeParts
  <2> QED
    BY <1>2, <2>1
<1>7. {faults', restarts'} \subseteq 0 .. MaxFaults
  BY <1>2, CredentialsConstants DEF TypeOK
<1>8. /\ authUser' \in Users /\ credUser' \in Users /\ syncUser' \in Users
      /\ workQueue' \in Seq(Tasks) /\ tokenCounter' \in Nat /\ callbacks' \subseteq Writes
  BY <1>1, <1>2, <1>3 DEF authVars
<1>9. /\ mutationQueue' \in [Users -> Seq(Writes)]
      /\ owner' \in [Writes -> Users \cup {Unread}]
      /\ sentAs' \in [Writes -> SUBSET Users]
      /\ answered' \in [Writes -> Nat]
  BY <1>2 DEF TypeOK
<1>10. changes' \in 0 .. MaxChanges
  BY <1>2 DEF TypeOK, authVars
<1> QED
  BY <1>4, <1>5, <1>6, <1>7, <1>8, <1>9, <1>10 DEF TypeOK, Streams, Requests

LEMMA TypeStep == TypeOK /\ [Next]_vars => TypeOK'
<1>1. TypeOK /\ UNCHANGED vars => TypeOK'
  BY DEF vars, TypeOK, authVars, credVars, sdkVars
<1> QED
  BY <1>1, TypeNetwork, TypeRead, TypeRunTask, TypeRunBlock, TypeUser, TypeRestart
  DEF Next, Network

-----------------------------------------------------------------------------
(* The users the queues lead to.                                           *)

(* Blocks and tasks that change no user may be appended. *)
LEMMA UsersKept ==
    ASSUME TypeOK, UsersAgree, UNCHANGED <<authUser, credUser, syncUser>>,
           \/ mainQueue' = mainQueue
           \/ \E e \in Blocks : e.kind # "notification" /\ mainQueue' = Append(mainQueue, e),
           \/ workQueue' = workQueue
           \/ \E e \in Tasks : e.kind # "user" /\ workQueue' = Append(workQueue, e)
    PROVE  UsersAgree'
<1>1. InEffect(mainQueue, "notification", credUser, Len(mainQueue) + 1, authUser)'
  <2>1. CASE mainQueue' = mainQueue
    BY <2>1 DEF UsersAgree, InEffect, IsChange
  <2>2. ASSUME NEW e \in Blocks, e.kind # "notification", mainQueue' = Append(mainQueue, e)
        PROVE  InEffect(mainQueue, "notification", credUser, Len(mainQueue) + 1, authUser)'
    <3>1. /\ mainQueue \in Seq(Blocks) /\ Len(mainQueue) + 1 \in 1 .. Len(mainQueue) + 1
          /\ Len(mainQueue') + 1 = Len(mainQueue) + 2
      BY <2>2, TypeParts, AppendedElements
    <3>2. InEffect(Append(mainQueue, e), "notification", credUser, Len(mainQueue) + 2, authUser)
      BY <2>2, <3>1, EffectOfAppend DEF UsersAgree
    <3> QED
      BY <2>2, <3>1, <3>2 DEF InEffect, IsChange
  <2> QED
    BY <2>1, <2>2
<1>2. InEffect(workQueue, "user", syncUser, Len(workQueue) + 1, credUser)'
  <2>1. CASE workQueue' = workQueue
    BY <2>1 DEF UsersAgree, InEffect, IsChange
  <2>2. ASSUME NEW e \in Tasks, e.kind # "user", workQueue' = Append(workQueue, e)
        PROVE  InEffect(workQueue, "user", syncUser, Len(workQueue) + 1, credUser)'
    <3>1. /\ workQueue \in Seq(Tasks) /\ Len(workQueue) + 1 \in 1 .. Len(workQueue) + 1
          /\ Len(workQueue') + 1 = Len(workQueue) + 2
      BY <2>2, TypeParts, AppendedElements
    <3>2. InEffect(Append(workQueue, e), "user", syncUser, Len(workQueue) + 2, credUser)
      BY <2>2, <3>1, EffectOfAppend DEF UsersAgree
    <3> QED
      BY <2>2, <3>1, <3>2 DEF InEffect, IsChange
  <2> QED
    BY <2>1, <2>2
<1> QED
  BY <1>1, <1>2 DEF UsersAgree

LEMMA UsersChanged ==
    ASSUME TypeOK, UsersAgree, NEW u \in Users, UpdateCurrentUser(u)
    PROVE  UsersAgree'
<1>1. /\ authUser' = u /\ mainQueue' = Append(mainQueue, Notification(u))
      /\ UNCHANGED <<credUser, syncUser, workQueue>>
  BY DEF UpdateCurrentUser, credVars, sdkVars
<1>2. /\ mainQueue \in Seq(Blocks) /\ Notification(u) \in Blocks
      /\ Notification(u).kind = "notification" /\ Notification(u).user = u
  BY AreBlocks, TypeParts
<1>3. InEffect(mainQueue', "notification", credUser', Len(mainQueue') + 1, authUser')
  <2>1. Len(mainQueue') + 1 = Len(mainQueue) + 2
    BY <1>1, <1>2, AppendedElements
  <2> QED
    BY <1>1, <1>2, <2>1, EffectOfChange
<1>4. InEffect(workQueue', "user", syncUser', Len(workQueue') + 1, credUser')
  BY <1>1 DEF UsersAgree
<1> QED
  BY <1>3, <1>4 DEF UsersAgree

LEMMA UsersRunBlock ==
    ASSUME TypeOK, UsersAgree, RunBlock
    PROVE  UsersAgree'
<1> DEFINE block == Head(mainQueue)
<1>1. /\ mainQueue # << >> /\ mainQueue' = Tail(mainQueue)
      /\ authUser' = authUser /\ syncUser' = syncUser
      /\ \/ block.kind = "notification" /\ UserNotified(block.user)
         \/ block.kind = "token" /\ TokenReceived(block.token)
         \/ block.kind = "answer" /\ UNCHANGED <<credVars, workQueue>>
  BY DEF RunBlock, authVars, sdkVars
<1>2. /\ mainQueue \in Seq(Blocks) /\ block \in Blocks /\ block = mainQueue[1]
      /\ Len(mainQueue) \in 1 .. Len(mainQueue) /\ Len(mainQueue') + 1 = Len(mainQueue)
  BY <1>1, TailElements, TypeParts
<1> HIDE DEF block
<1>3. credUser' = IF block.kind = "notification" THEN block.user ELSE credUser
  BY <1>1 DEF UserNotified, TokenReceived, credVars
<1>4. InEffect(mainQueue', "notification", credUser', Len(mainQueue') + 1, authUser')
  <2>1. InEffect(mainQueue, "notification", credUser, Len(mainQueue) + 1, authUser)
    BY DEF UsersAgree
  <2>2. credUser' = IF mainQueue[1].kind = "notification" THEN mainQueue[1].user ELSE credUser
    BY <1>2, <1>3
  <2>3. InEffect(Tail(mainQueue), "notification", credUser', Len(mainQueue), authUser)
    BY <1>1, <1>2, <2>1, <2>2, EffectOfTail
  <2> QED
    BY <1>1, <1>2, <2>3
<1>5. InEffect(workQueue', "user", syncUser', Len(workQueue') + 1, credUser')
  <2>1. workQueue \in Seq(Tasks) /\ Len(workQueue) + 1 \in 1 .. Len(workQueue) + 1
    BY TypeParts
  <2>2. CASE block.kind = "notification" /\ UserNotified(block.user)
    <3> DEFINE e == [kind |-> "user", user |-> block.user]
    <3>1. workQueue' = Append(workQueue, e) /\ credUser' = block.user
      BY <2>2 DEF UserNotified
    <3>2. e \in Tasks /\ e.kind = "user" /\ e.user = block.user
      BY <1>2, <2>2, BlockFields DEF Tasks
    <3> HIDE DEF e
    <3>3. Len(workQueue') + 1 = Len(workQueue) + 2
      BY <2>1, <3>1, <3>2, AppendedElements
    <3>4. InEffect(Append(workQueue, e), "user", syncUser, Len(workQueue) + 2, e.user)
      BY <2>1, <3>2, EffectOfChange
    <3> QED
      BY <1>1, <3>1, <3>2, <3>3, <3>4
  <2>3. CASE block.kind = "token" /\ TokenReceived(block.token)
    <3> DEFINE e == [kind |-> "token", ok |-> block.token.counter = tokenCounter,
                     closes |-> block.token.closes, user |-> block.token.user]
    <3>1. workQueue' = Append(workQueue, e) /\ credUser' = credUser
      BY <2>3 DEF TokenReceived, credVars
    <3>2. e \in Tasks /\ e.kind # "user"
      BY <1>2, <2>3, BlockFields DEF Tasks
    <3> HIDE DEF e
    <3>3. Len(workQueue') + 1 = Len(workQueue) + 2
      BY <2>1, <3>1, <3>2, AppendedElements
    <3>4. InEffect(Append(workQueue, e), "user", syncUser, Len(workQueue) + 2, credUser)
      BY <2>1, <3>2, EffectOfAppend DEF UsersAgree
    <3> QED
      BY <1>1, <3>1, <3>3, <3>4
  <2>4. CASE block.kind = "answer" /\ UNCHANGED <<credVars, workQueue>>
    BY <1>1, <2>4 DEF UsersAgree, credVars
  <2> QED
    BY <1>1, <2>2, <2>3, <2>4
<1> QED
  BY <1>4, <1>5 DEF UsersAgree

(* Only a change of user on the worker queue changes syncUser. *)
LEMMA SyncUserOfTask ==
    ASSUME TypeOK, RunTask
    PROVE  /\ workQueue # << >> /\ workQueue' = Tail(workQueue)
           /\ Head(workQueue) \in Tasks /\ Head(workQueue) = workQueue[1]
           /\ workQueue \in Seq(Tasks)
           /\ UNCHANGED <<authUser, credUser, mainQueue, owner>>
           /\ syncUser' = IF workQueue[1].kind = "user" THEN workQueue[1].user ELSE syncUser
<1>1. /\ workQueue # << >> /\ workQueue' = Tail(workQueue)
      /\ UNCHANGED <<authUser, credUser, mainQueue, owner>>
  BY DEF RunTask, authVars, credVars
<1>2. Head(workQueue) \in Tasks /\ Head(workQueue) = workQueue[1] /\ workQueue \in Seq(Tasks)
  BY <1>1, TailElements, TypeParts
<1>3. syncUser' = IF Head(workQueue).kind = "user" THEN Head(workQueue).user ELSE syncUser
  BY DEF RunTask, WriteMutations, HandleCredentialChange, ResumeStart
<1> QED
  BY <1>1, <1>2, <1>3

LEMMA UsersRunTask ==
    ASSUME TypeOK, UsersAgree, RunTask
    PROVE  UsersAgree'
<1>1. /\ Len(workQueue) \in 1 .. Len(workQueue) /\ Len(workQueue') + 1 = Len(workQueue)
  BY SyncUserOfTask, TailElements
<1>2. InEffect(Tail(workQueue), "user", syncUser', Len(workQueue), credUser)
  <2>1. InEffect(workQueue, "user", syncUser, Len(workQueue) + 1, credUser)
    BY DEF UsersAgree
  <2> QED
    BY <1>1, <2>1, SyncUserOfTask, EffectOfTail
<1>3. InEffect(workQueue', "user", syncUser', Len(workQueue') + 1, credUser')
  BY <1>1, <1>2, SyncUserOfTask
<1>4. InEffect(mainQueue', "notification", credUser', Len(mainQueue') + 1, authUser')
  BY SyncUserOfTask DEF UsersAgree
<1> QED
  BY <1>3, <1>4 DEF UsersAgree

(* A launch notifies of FIRAuth's user, if there is one. *)
LEMMA LaunchEffect ==
    ASSUME NEW u \in LaunchUsers
    PROVE  /\ InEffect(LaunchNotifications, "notification", u, Len(LaunchNotifications) + 1,
                       authUser)
           /\ InEffect(<< >>, "user", u, Len(<< >>) + 1, u)
<1>1. InEffect(<< >>, "user", u, Len(<< >>) + 1, u)
  BY DEF InEffect
<1>2. CASE authUser = Nobody
  <2>1. LaunchNotifications = << >> /\ u = authUser
    BY <1>2 DEF LaunchNotifications, LaunchUsers
  <2> QED
    BY <1>1, <2>1 DEF InEffect
<1>3. CASE authUser # Nobody
  <2> DEFINE q == <<Notification(authUser)>>
  <2>1. LaunchNotifications = q
    BY <1>3 DEF LaunchNotifications
  <2>2. /\ DOMAIN q = {1} /\ q[1] = Notification(authUser) /\ Len(q) = 1
    OBVIOUS
  <2>3. q[1].kind = "notification" /\ q[1].user = authUser
    BY <2>2 DEF Notification
  <2> HIDE DEF q
  <2>4. /\ 1 \in DOMAIN q /\ 1 < Len(q) + 1 /\ IsChange(q, "notification", 1)
        /\ q[1].user = authUser
        /\ \A j \in DOMAIN q : 1 < j /\ j < Len(q) + 1 => ~ IsChange(q, "notification", j)
    BY <2>2, <2>3 DEF IsChange
  <2>5. InEffect(q, "notification", u, Len(q) + 1, authUser)
    BY <2>4 DEF InEffect
  <2> QED
    BY <1>1, <2>1, <2>5
<1> QED
  BY <1>1, <1>2, <1>3

LEMMA UsersInit == Init => UsersAgree
<1> SUFFICES ASSUME Init PROVE UsersAgree
  OBVIOUS
<1>1. /\ credUser \in LaunchUsers /\ syncUser = credUser
      /\ mainQueue = LaunchNotifications /\ workQueue = << >>
  BY DEF Init
<1> QED
  BY <1>1, LaunchEffect DEF UsersAgree

LEMMA UsersRestart ==
    ASSUME Restart
    PROVE  UsersAgree'
<1>1. /\ credUser' \in LaunchUsers /\ syncUser' = credUser' /\ authUser' = authUser
      /\ mainQueue' = LaunchNotifications /\ workQueue' = << >>
  BY DEF Restart, authVars
<1>2. /\ InEffect(LaunchNotifications, "notification", credUser', Len(LaunchNotifications) + 1,
                  authUser)
      /\ InEffect(<< >>, "user", credUser', Len(<< >>) + 1, credUser')
  BY <1>1, LaunchEffect
<1> QED
  BY <1>1, <1>2 DEF UsersAgree

(* What the write stream and the tokens do to the main queue *)
LEMMA QueueOfNetwork ==
    ASSUME TypeOK,
           \/ Network \/ WriteRejected \/ WriteStreamBreaks \/ IdleTimeout
    PROVE  /\ UNCHANGED <<authUser, credUser, syncUser, workQueue, owner>>
           /\ \/ mainQueue' = mainQueue
              \/ \E e \in Blocks : e.kind # "notification" /\ mainQueue' = Append(mainQueue, e)
<1>1. CASE BackoffElapsed \/ ServerAppliesWrite \/ WriteStreamBreaks \/ IdleTimeout
  BY <1>1 DEF BackoffElapsed, ServerAppliesWrite, WriteStreamBreaks, IdleTimeout, authVars,
              credVars
<1>2. CASE WriteAcknowledged \/ WriteRejected
  <2>1. Pipeline # << >> /\ FinishWrite(Head(Pipeline))
    BY <1>2, TypeParts DEF WriteAcknowledged, WriteRejected
  <2>2. \/ mainQueue' = mainQueue
        \/ \E w \in Writes : mainQueue' = Append(mainQueue, Answer(w))
    BY <2>1, FinishedType
  <2>3. UNCHANGED <<authUser, credUser, syncUser, workQueue, owner>>
    BY <1>2 DEF WriteAcknowledged, WriteRejected, authVars, credVars
  <2> QED
    BY <2>2, <2>3, AreBlocks
<1>3. ASSUME NEW t \in tokenRequests, ReadToken(t) \/ PostToken(t)
      PROVE  /\ UNCHANGED <<authUser, credUser, syncUser, workQueue, owner>>
             /\ \/ mainQueue' = mainQueue
                \/ \E e \in Blocks : /\ e.kind # "notification"
                                     /\ mainQueue' = Append(mainQueue, e)
  <2>1. t \in Requests /\ Nobody \in Users
    BY TypeParts DEF Users
  <2>2. UNCHANGED <<authUser, credUser, syncUser, workQueue, owner>>
    BY <1>3 DEF ReadToken, PostToken, authVars, credVars, sdkVars
  <2>3. CASE ReadToken(t)
    <3>1. \/ mainQueue' = mainQueue
          \/ mainQueue' = Append(mainQueue, TokenBlock([t EXCEPT !.user = Nobody]))
      BY <2>3 DEF ReadToken
    <3>2. [t EXCEPT !.user = Nobody] \in [counter : Nat, closes : Nat, user : Users]
      BY <2>1, TokenRead
    <3> QED
      BY <2>2, <3>1, <3>2, AreBlocks
  <2>4. CASE PostToken(t)
    <3>1. mainQueue' = Append(mainQueue, TokenBlock(t)) /\ t.user # Unread
      BY <2>4 DEF PostToken
    <3>2. t \in [counter : Nat, closes : Nat, user : Users]
      BY <2>1, <3>1, ReadIsToken
    <3> QED
      BY <2>2, <3>1, <3>2, AreBlocks
  <2> QED
    BY <1>3, <2>3, <2>4
<1> QED
  BY <1>1, <1>2, <1>3 DEF Network

LEMMA UsersStep == TypeOK /\ UsersAgree /\ [Next]_vars => UsersAgree'
<1> SUFFICES ASSUME TypeOK, UsersAgree, [Next]_vars PROVE UsersAgree'
  OBVIOUS
<1>1. CASE Network \/ WriteRejected \/ WriteStreamBreaks \/ IdleTimeout
  BY <1>1, QueueOfNetwork, UsersKept
<1>2. ASSUME NEW w \in Writes, MakeWrite(w)
      PROVE  UsersAgree'
  <2> DEFINE e == [kind |-> "write", write |-> w]
  <2>1. /\ UNCHANGED <<authUser, credUser, syncUser, mainQueue>>
        /\ workQueue' = Append(workQueue, e)
    BY <1>2 DEF MakeWrite, authVars, credVars, sdkVars
  <2>2. e \in Tasks /\ e.kind # "user"
    BY DEF Tasks
  <2> HIDE DEF e
  <2> QED
    BY <2>1, <2>2, UsersKept
<1>3. CASE UNCHANGED vars
  BY <1>3, UsersKept DEF vars, authVars, credVars, sdkVars
<1> QED
  BY <1>1, <1>2, <1>3, UsersChanged, UsersRunBlock, UsersRunTask, UsersRestart DEF Next

-----------------------------------------------------------------------------
(* The owners of the writes.                                               *)

TasksAreOwned(q, from, owners) ==
    \A i \in DOMAIN q :
       q[i].kind = "write" =>
          owners[q[i].write] \in Users /\ InEffect(q, "user", from, i, owners[q[i].write])

PipelinesAreOwned ==
    \A u \in Users : \A i \in DOMAIN mutationQueue[u] : owner[mutationQueue[u][i]] = u

SentIsOwned == \A w \in Writes : sentAs[w] \subseteq {owner[w]} \cap Users

LEMMA OwnedParts ==
    WritesAreOwned <=> /\ TasksAreOwned(workQueue, syncUser, owner)
                       /\ PipelinesAreOwned /\ SentIsOwned
  BY DEF WritesAreOwned, TasksAreOwned, PipelinesAreOwned, SentIsOwned

LEMMA OwnedAppend ==
    ASSUME NEW q \in Seq(Tasks), NEW from, NEW owners, NEW e \in Tasks,
           TasksAreOwned(q, from, owners),
           e.kind = "write" =>
              /\ owners[e.write] \in Users
              /\ InEffect(q, "user", from, Len(q) + 1, owners[e.write])
    PROVE  TasksAreOwned(Append(q, e), from, owners)
<1> DEFINE p == Append(q, e)
           n == Len(q)
<1>1. /\ n \in Nat /\ DOMAIN q = 1 .. n /\ DOMAIN p = 1 .. n + 1
      /\ \A j \in 1 .. n : p[j] = q[j]
      /\ p[n + 1] = e
  BY AppendedElements
<1>2. ASSUME NEW i \in DOMAIN p, p[i].kind = "write"
      PROVE  owners[p[i].write] \in Users /\ InEffect(p, "user", from, i, owners[p[i].write])
  <2>1. CASE i \in DOMAIN q
    <3>1. /\ owners[q[i].write] \in Users /\ InEffect(q, "user", from, i, owners[q[i].write])
          /\ i \in 1 .. Len(q) + 1 /\ p[i] = q[i]
      BY <1>1, <1>2, <2>1 DEF TasksAreOwned
    <3> QED
      BY <3>1, EffectOfAppend
  <2>2. CASE i = n + 1
    <3>1. /\ owners[e.write] \in Users /\ InEffect(q, "user", from, i, owners[e.write])
          /\ i \in 1 .. Len(q) + 1 /\ p[i] = e
      BY <1>1, <1>2, <2>2
    <3> QED
      BY <3>1, EffectOfAppend
  <2> QED
    BY <1>1, <1>2, <2>1, <2>2
<1> QED
  BY <1>2 DEF TasksAreOwned

LEMMA OwnedTail ==
    ASSUME NEW q \in Seq(Tasks), q # << >>, NEW from, NEW owners, NEW after,
           after = (IF q[1].kind = "user" THEN q[1].user ELSE from),
           TasksAreOwned(q, from, owners)
    PROVE  TasksAreOwned(Tail(q), after, owners)
<1>1. /\ DOMAIN q = 1 .. Len(q) /\ DOMAIN Tail(q) = 1 .. Len(q) - 1 /\ Len(q) \in Nat \ {0}
      /\ \A i \in 1 .. Len(q) - 1 : Tail(q)[i] = q[i + 1]
  BY TailElements
<1>2. ASSUME NEW i \in DOMAIN Tail(q), Tail(q)[i].kind = "write"
      PROVE  /\ owners[Tail(q)[i].write] \in Users
             /\ InEffect(Tail(q), "user", after, i, owners[Tail(q)[i].write])
  <2>1. i + 1 \in DOMAIN q /\ i \in 1 .. Len(q) /\ Tail(q)[i] = q[i + 1]
    BY <1>1
  <2>2. /\ owners[q[i + 1].write] \in Users
        /\ InEffect(q, "user", from, i + 1, owners[q[i + 1].write])
    BY <1>2, <2>1 DEF TasksAreOwned
  <2> QED
    BY <2>1, <2>2, EffectOfTail
<1> QED
  BY <1>2 DEF TasksAreOwned

(* A write takes the user in effect, and was nowhere before. *)
LEMMA OwnedMakeWrite ==
    ASSUME TypeOK, UsersAgree, WritesAreOwned, NEW w \in Writes, MakeWrite(w)
    PROVE  WritesAreOwned'
<1> DEFINE e == [kind |-> "write", write |-> w]
<1>1. /\ owner[w] = Unread /\ owner' = [owner EXCEPT ![w] = credUser]
      /\ workQueue' = Append(workQueue, e)
      /\ UNCHANGED <<syncUser, mutationQueue, sentAs>>
  BY DEF MakeWrite, sdkVars
<1>2. Unread \notin Users /\ credUser \in Users /\ workQueue \in Seq(Tasks)
  BY CredentialsConstants, TypeParts DEF Users
<1>3. /\ owner'[w] = credUser
      /\ \A v : v \in Writes /\ owner[v] \in Users => owner'[v] = owner[v]
      /\ \A v \in Writes : v # w => owner'[v] = owner[v]
  BY <1>1, <1>2 DEF TypeOK
<1>4. TasksAreOwned(workQueue, syncUser, owner')
  <2>1. \A i \in DOMAIN workQueue :
           workQueue[i].kind = "write" => workQueue[i].write \in Writes
    <3>1. \A i \in DOMAIN workQueue : workQueue[i] \in Tasks
      BY <1>2
    <3> QED
      BY <3>1, TaskFields
  <2>2. TasksAreOwned(workQueue, syncUser, owner)
    BY OwnedParts
  <2> QED
    BY <1>3, <2>1, <2>2 DEF TasksAreOwned
<1>5. TasksAreOwned(workQueue', syncUser', owner')
  <2>1. e \in Tasks /\ e.kind = "write" /\ e.write = w
    BY DEF Tasks
  <2> HIDE DEF e
  <2>2. InEffect(workQueue, "user", syncUser, Len(workQueue) + 1, credUser)
    BY DEF UsersAgree
  <2>3. TasksAreOwned(Append(workQueue, e), syncUser, owner')
    BY <1>2, <1>3, <1>4, <2>1, <2>2, OwnedAppend
  <2> QED
    BY <1>1, <2>3
<1>6. PipelinesAreOwned'
  <2>1. \A u \in Users : \A i \in DOMAIN mutationQueue[u] :
           mutationQueue[u][i] \in Writes /\ owner[mutationQueue[u][i]] = u
    BY OwnedParts, TypeParts DEF PipelinesAreOwned
  <2> QED
    BY <1>1, <1>3, <2>1 DEF PipelinesAreOwned
<1>7. SentIsOwned'
  <2>1. SentIsOwned
    BY OwnedParts
  <2>2. sentAs[w] = {}
    BY <1>1, <1>2, <2>1 DEF SentIsOwned
  <2> QED
    BY <1>1, <1>2, <1>3, <2>1, <2>2 DEF SentIsOwned
<1> QED
  BY <1>5, <1>6, <1>7 DEF WritesAreOwned, TasksAreOwned, PipelinesAreOwned, SentIsOwned

LEMMA OwnedRunBlock ==
    ASSUME TypeOK, WritesAreOwned, RunBlock
    PROVE  WritesAreOwned'
<1>1. UNCHANGED <<syncUser, mutationQueue, sentAs, owner>>
  BY DEF RunBlock, sdkVars
<1>2. \/ workQueue' = workQueue
      \/ \E e \in Tasks : e.kind # "write" /\ workQueue' = Append(workQueue, e)
  <2> DEFINE block == Head(mainQueue)
  <2>1. /\ block \in Blocks
        /\ \/ block.kind = "notification" /\ UserNotified(block.user)
           \/ block.kind = "token" /\ TokenReceived(block.token)
           \/ UNCHANGED workQueue
    BY TailElements, TypeParts DEF RunBlock
  <2>2. CASE block.kind = "notification" /\ UserNotified(block.user)
    <3>1. block.user \in Users
      BY <2>1, <2>2, BlockFields
    <3> QED
      BY <2>2, <3>1 DEF UserNotified, Tasks
  <2>3. CASE block.kind = "token" /\ TokenReceived(block.token)
    <3>1. block.token.closes \in Nat /\ block.token.user \in Users
      BY <2>1, <2>3, BlockFields
    <3> DEFINE e == [kind |-> "token", ok |-> block.token.counter = tokenCounter,
                     closes |-> block.token.closes, user |-> block.token.user]
    <3>2. e \in Tasks /\ e.kind # "write"
      BY <3>1 DEF Tasks
    <3>3. workQueue' = Append(workQueue, e)
      BY <2>3 DEF TokenReceived
    <3> QED
      BY <3>2, <3>3
  <2> QED
    BY <2>1, <2>2, <2>3
<1>3. TasksAreOwned(workQueue', syncUser', owner')
  <2>1. TasksAreOwned(workQueue, syncUser, owner) /\ workQueue \in Seq(Tasks)
    BY OwnedParts, TypeParts
  <2>2. TasksAreOwned(workQueue', syncUser, owner)
    BY <1>2, <2>1, OwnedAppend
  <2> QED
    BY <1>1, <2>2
<1>4. PipelinesAreOwned' /\ SentIsOwned'
  BY <1>1, OwnedParts DEF PipelinesAreOwned, SentIsOwned
<1> QED
  BY <1>3, <1>4 DEF WritesAreOwned, TasksAreOwned, PipelinesAreOwned, SentIsOwned

(* A write at the head of the worker queue belongs to syncUser. *)
LEMMA OwnedRunTask ==
    ASSUME TypeOK, WritesAreOwned, RunTask
    PROVE  WritesAreOwned'
<1> DEFINE task == Head(workQueue)
<1>1. TasksAreOwned(workQueue', syncUser', owner')
  <2>1. TasksAreOwned(workQueue, syncUser, owner)
    BY OwnedParts
  <2>2. TasksAreOwned(Tail(workQueue), syncUser', owner)
    BY <2>1, SyncUserOfTask, OwnedTail
  <2> QED
    BY <2>2, SyncUserOfTask
<1>2. /\ sentAs' = sentAs /\ owner' = owner
      /\ \/ mutationQueue' = mutationQueue
         \/ task.kind = "write" /\ WriteMutations(task.write)
  BY SyncUserOfTask
     DEF RunTask, WriteMutations, HandleCredentialChange, ResumeStart
<1>3. SentIsOwned'
  BY <1>2, OwnedParts DEF SentIsOwned
<1>4. PipelinesAreOwned'
  <2>1. PipelinesAreOwned
    BY OwnedParts
  <2>2. CASE mutationQueue' = mutationQueue
    BY <1>2, <2>1, <2>2 DEF PipelinesAreOwned
  <2>3. CASE task.kind = "write" /\ WriteMutations(task.write)
    <3>1. task \in Tasks /\ task = workQueue[1] /\ 1 \in DOMAIN workQueue
      BY SyncUserOfTask, TailElements
    <3>2. task.write \in Writes
      BY <2>3, <3>1, TaskFields
    <3>3. owner[task.write] = syncUser
      <4>1. InEffect(workQueue, "user", syncUser, 1, owner[task.write])
        BY <2>3, <3>1, OwnedParts DEF TasksAreOwned
      <4>2. \A k \in DOMAIN workQueue : ~ k < 1
        BY TypeParts
      <4> QED
        BY <4>1, <4>2 DEF InEffect
    <3>4. mutationQueue' = [mutationQueue EXCEPT ![syncUser] = Append(Pipeline, task.write)]
      BY <2>3 DEF WriteMutations, Pipeline
    <3>5. /\ mutationQueue'[syncUser] = Append(Pipeline, task.write)
          /\ \A u \in Users : u # syncUser => mutationQueue'[u] = mutationQueue[u]
      BY <3>4, TypeParts DEF TypeOK
    <3>6. \A i \in DOMAIN Append(Pipeline, task.write) :
             owner[Append(Pipeline, task.write)[i]] = syncUser
      <4>1. /\ DOMAIN Append(Pipeline, task.write) = 1 .. Len(Pipeline) + 1
            /\ DOMAIN Pipeline = 1 .. Len(Pipeline) /\ Len(Pipeline) \in Nat
            /\ \A i \in 1 .. Len(Pipeline) : Append(Pipeline, task.write)[i] = Pipeline[i]
            /\ Append(Pipeline, task.write)[Len(Pipeline) + 1] = task.write
        BY <3>2, TypeParts, AppendedElements
      <4>2. \A i \in DOMAIN Pipeline : owner[Pipeline[i]] = syncUser
        BY <2>1, TypeParts DEF PipelinesAreOwned, Pipeline
      <4>3. \A i \in 1 .. Len(Pipeline) + 1 : i \in 1 .. Len(Pipeline) \/ i = Len(Pipeline) + 1
        BY <4>1
      <4> QED
        BY <3>3, <4>1, <4>2, <4>3
    <3> QED
      BY <1>2, <2>1, <3>5, <3>6 DEF PipelinesAreOwned
  <2> QED
    BY <1>2, <2>2, <2>3
<1> QED
  BY <1>1, <1>3, <1>4 DEF WritesAreOwned, TasksAreOwned, PipelinesAreOwned, SentIsOwned

(* The server applies what the user of the stream has made. *)
LEMMA OwnedNetwork ==
    ASSUME TypeOK, WritesAreOwned, StreamActsForItsUser,
           \/ Network \/ WriteRejected \/ WriteStreamBreaks \/ IdleTimeout
    PROVE  WritesAreOwned'
<1>1. /\ PipelinesAreOwned /\ SentIsOwned
      /\ TasksAreOwned(workQueue, syncUser, owner)
  BY OwnedParts
<1>2. UNCHANGED <<syncUser, workQueue, owner>>
  BY QueueOfNetwork
<1>3. TasksAreOwned(workQueue', syncUser', owner')
  BY <1>1, <1>2
<1>4. PipelinesAreOwned'
  <2>1. CASE mutationQueue' = mutationQueue
    BY <1>1, <1>2, <2>1 DEF PipelinesAreOwned
  <2>2. CASE Pipeline # << >> /\ FinishWrite(Head(Pipeline))
    <3>1. mutationQueue' = [mutationQueue EXCEPT ![syncUser] = Tail(Pipeline)]
      BY <2>2 DEF FinishWrite, Pipeline
    <3>2. /\ mutationQueue'[syncUser] = Tail(Pipeline)
          /\ \A u \in Users : u # syncUser => mutationQueue'[u] = mutationQueue[u]
      BY <3>1, TypeParts DEF TypeOK
    <3>3. \A i \in DOMAIN Tail(Pipeline) :
             i + 1 \in DOMAIN Pipeline /\ Tail(Pipeline)[i] = Pipeline[i + 1]
      BY <2>2, TypeParts, TailElements
    <3>4. \A i \in DOMAIN Pipeline : owner[Pipeline[i]] = syncUser
      BY <1>1, TypeParts DEF PipelinesAreOwned, Pipeline
    <3>5. \A i \in DOMAIN Tail(Pipeline) : owner[Tail(Pipeline)[i]] = syncUser
      BY <3>3, <3>4
    <3> QED
      BY <1>1, <1>2, <3>2, <3>5 DEF PipelinesAreOwned
  <2>3. \/ mutationQueue' = mutationQueue
        \/ Pipeline # << >> /\ FinishWrite(Head(Pipeline))
    <3>1. CASE WriteAcknowledged \/ WriteRejected
      BY <3>1, TypeParts DEF WriteAcknowledged, WriteRejected
    <3>2. CASE ~ (WriteAcknowledged \/ WriteRejected)
      BY <3>2 DEF Network, BackoffElapsed, ServerAppliesWrite, WriteStreamBreaks, IdleTimeout,
                  ReadToken, PostToken, sdkVars
    <3> QED
      BY <3>1, <3>2
  <2> QED
    BY <2>1, <2>2, <2>3
<1>5. SentIsOwned'
  <2>1. CASE ServerAppliesWrite
    <3> DEFINE w == Pipeline[onServer + 1]
    <3>1. /\ IsOpen /\ onServer + 1 \in DOMAIN Pipeline
          /\ sentAs' = [sentAs EXCEPT ![w] = sentAs[w] \cup {stream.user}]
      BY <2>1, TypeParts DEF ServerAppliesWrite
    <3>2. w \in Writes /\ owner[w] = syncUser /\ syncUser \in Users
      BY <1>1, <3>1, TypeParts DEF PipelinesAreOwned, Pipeline
    <3> HIDE DEF w
    <3>3. stream.user = syncUser
      BY <3>1 DEF StreamActsForItsUser
    <3>4. /\ sentAs'[w] = sentAs[w] \cup {syncUser}
          /\ \A v \in Writes : v # w => sentAs'[v] = sentAs[v]
      BY <3>1, <3>2, <3>3 DEF TypeOK
    <3> QED
      BY <1>1, <1>2, <3>2, <3>4 DEF SentIsOwned
  <2>2. CASE ~ ServerAppliesWrite
    <3>1. sentAs' = sentAs
      BY <2>2 DEF Network, BackoffElapsed, WriteAcknowledged, WriteRejected, WriteStreamBreaks,
                  IdleTimeout, ReadToken, PostToken, sdkVars
    <3> QED
      BY <1>1, <1>2, <3>1 DEF SentIsOwned
  <2> QED
    BY <2>1, <2>2
<1> QED
  BY <1>3, <1>4, <1>5 DEF WritesAreOwned, TasksAreOwned, PipelinesAreOwned, SentIsOwned

LEMMA OwnedStep ==
    TypeOK /\ UsersAgree /\ WritesAreOwned /\ StreamActsForItsUser /\ [Next]_vars
        => WritesAreOwned'
<1> SUFFICES ASSUME TypeOK, UsersAgree, WritesAreOwned, StreamActsForItsUser, [Next]_vars
             PROVE  WritesAreOwned'
  OBVIOUS
<1>1. CASE Restart
  <2>1. workQueue' = << >> /\ UNCHANGED <<mutationQueue, sentAs, owner>>
    BY <1>1 DEF Restart
  <2> QED
    BY <2>1 DEF WritesAreOwned
<1>2. CASE UNCHANGED vars \/ \E u \in Users : UpdateCurrentUser(u)
  <2>1. UNCHANGED <<workQueue, syncUser, mutationQueue, sentAs, owner>>
    BY <1>2 DEF vars, UpdateCurrentUser, sdkVars
  <2>2. /\ TasksAreOwned(workQueue, syncUser, owner)
        /\ PipelinesAreOwned /\ SentIsOwned
    BY OwnedParts
  <2>3. /\ TasksAreOwned(workQueue', syncUser', owner')
        /\ PipelinesAreOwned' /\ SentIsOwned'
    BY <2>1, <2>2 DEF PipelinesAreOwned, SentIsOwned
  <2> QED
    BY <2>3 DEF WritesAreOwned, TasksAreOwned, PipelinesAreOwned, SentIsOwned
<1> QED
  BY <1>1, <1>2, OwnedMakeWrite, OwnedRunBlock, OwnedRunTask, OwnedNetwork DEF Next

-----------------------------------------------------------------------------
(* Tokens.                                                                 *)

LEMMA NoChangeOfAppend ==
    ASSUME NEW S, NEW q \in Seq(S), NEW e \in S, NEW kind
    PROVE  /\ NoChange(Append(q, e), kind) <=> NoChange(q, kind) /\ e.kind # kind
           /\ \A i \in DOMAIN q :
                 NoChangeBefore(Append(q, e), kind, i) <=> NoChangeBefore(q, kind, i)
           /\ NoChangeBefore(Append(q, e), kind, Len(q) + 1) <=> NoChange(q, kind)
<1> DEFINE p == Append(q, e)
           n == Len(q)
<1>1. /\ n \in Nat /\ DOMAIN q = 1 .. n /\ DOMAIN p = 1 .. n + 1
      /\ \A j \in 1 .. n : p[j] = q[j]
      /\ p[n + 1] = e
  BY AppendedElements
<1> HIDE DEF p, n
<1>2. /\ \A j \in DOMAIN q : j \in DOMAIN p /\ (IsChange(p, kind, j) <=> IsChange(q, kind, j))
      /\ n + 1 \in DOMAIN p /\ (IsChange(p, kind, n + 1) <=> e.kind = kind)
      /\ \A j \in DOMAIN p : j \in DOMAIN q \/ j = n + 1
  BY <1>1 DEF IsChange
<1>3. NoChange(p, kind) <=> NoChange(q, kind) /\ e.kind # kind
  BY <1>2 DEF NoChange
<1>4. \A i \in DOMAIN q : NoChangeBefore(p, kind, i) <=> NoChangeBefore(q, kind, i)
  <2> TAKE i \in DOMAIN q
  <2>1. \A j \in DOMAIN p : j < i => j \in DOMAIN q
    BY <1>1
  <2> QED
    BY <1>2, <2>1 DEF NoChangeBefore
<1>5. NoChangeBefore(p, kind, n + 1) <=> NoChange(q, kind)
  <2>1. \A j \in DOMAIN p : j < n + 1 <=> j \in DOMAIN q
    BY <1>1
  <2> QED
    BY <1>2, <2>1 DEF NoChangeBefore, NoChange
<1> QED
  BY <1>3, <1>4, <1>5 DEF p, n

LEMMA NoChangeOfTail ==
    ASSUME NEW S, NEW q \in Seq(S), q # << >>, NEW kind, q[1].kind # kind
    PROVE  /\ NoChange(Tail(q), kind) => NoChange(q, kind)
           /\ \A i \in DOMAIN Tail(q) :
                 /\ i + 1 \in DOMAIN q /\ Tail(q)[i] = q[i + 1]
                 /\ NoChangeBefore(Tail(q), kind, i) => NoChangeBefore(q, kind, i + 1)
<1> DEFINE p == Tail(q)
           n == Len(q)
<1>1. /\ n \in Nat \ {0} /\ DOMAIN q = 1 .. n /\ DOMAIN p = 1 .. n - 1
      /\ \A j \in 1 .. n - 1 : p[j] = q[j + 1]
      /\ \A j \in 2 .. n : q[j] = p[j - 1]
  BY TailElements
<1> HIDE DEF p, n
<1>2. \A j \in DOMAIN q : /\ j \in Nat
                          /\ \/ j = 1
                             \/ /\ j - 1 \in DOMAIN p
                                /\ IsChange(p, kind, j - 1) <=> IsChange(q, kind, j)
  BY <1>1 DEF IsChange
<1>3. ~ IsChange(q, kind, 1)
  BY DEF IsChange
<1>4. NoChange(p, kind) => NoChange(q, kind)
  BY <1>2, <1>3 DEF NoChange
<1>5. \A i \in DOMAIN p : /\ i + 1 \in DOMAIN q /\ p[i] = q[i + 1]
                          /\ NoChangeBefore(p, kind, i) => NoChangeBefore(q, kind, i + 1)
  <2> TAKE i \in DOMAIN p
  <2>1. i + 1 \in DOMAIN q /\ p[i] = q[i + 1] /\ i \in Nat
    BY <1>1
  <2>2. ASSUME NoChangeBefore(p, kind, i), NEW j \in DOMAIN q, j < i + 1
        PROVE  ~ IsChange(q, kind, j)
    <3>1. j # 1 => j - 1 < i
      BY <1>2, <2>1, <2>2
    <3> QED
      BY <1>2, <1>3, <2>2, <3>1 DEF NoChangeBefore
  <2> QED
    BY <2>1, <2>2 DEF NoChangeBefore
<1> QED
  BY <1>4, <1>5 DEF p

LEMMA NothingInEffect ==
    ASSUME NEW q, NEW kind, NEW from, NEW i, NEW u,
           InEffect(q, kind, from, i, u), NoChange(q, kind)
    PROVE  u = from
  BY DEF InEffect, NoChange

(* Tokens that were out of date stay so, and a new stream asks for its own. *)
LEMMA TokensOutdated ==
    ASSUME TypeOK, TypeOK', Tokens,
           \/ stream'.closes = stream.closes + 1
           \/ stream'.closes = stream.closes /\ stream.state \notin {"starting", "open"},
           stream'.state # "open",
           \A t \in tokenRequests' : \/ t \in tokenRequests
                                     \/ /\ t.closes = stream'.closes /\ t.user = Unread
                                        /\ stream'.state = "starting",
           \A i \in DOMAIN mainQueue' : mainQueue'[i].kind = "token" =>
              \E j \in DOMAIN mainQueue : mainQueue[j] = mainQueue'[i],
           \A i \in DOMAIN workQueue' : workQueue'[i].kind = "token" =>
              \E j \in DOMAIN workQueue : workQueue[j] = workQueue'[i]
    PROVE  Tokens'
<1>1. /\ stream.closes \in Nat /\ stream'.closes \in Nat
      /\ \A t \in tokenRequests : t.closes \in Nat
      /\ \A i \in DOMAIN mainQueue :
            mainQueue[i].kind = "token" => mainQueue[i].token.closes \in Nat
      /\ \A i \in DOMAIN workQueue :
            workQueue[i].kind = "token" => workQueue[i].closes \in Nat
  <2>1. stream'.closes \in Nat
    BY DEF TypeOK
  <2>2. \A i \in DOMAIN mainQueue : mainQueue[i] \in Blocks
    BY TypeParts
  <2>3. \A i \in DOMAIN workQueue : workQueue[i] \in Tasks
    BY TypeParts
  <2>4. \A t \in tokenRequests : t.closes \in Nat
    BY TypeParts DEF Requests
  <2> QED
    BY <2>1, <2>2, <2>3, <2>4, TypeParts, BlockFields, TaskFields
<1>2. \A closes \in Nat : IsCurrent(closes, stream) =>
         IsCurrent(closes, stream') /\ closes # stream'.closes
  BY <1>1 DEF IsCurrent
<1>3. TokensAreCurrent(tokenRequests, mainQueue, workQueue, stream)
  BY DEF Tokens
<1>4. TokensAreCurrent(tokenRequests', mainQueue', workQueue', stream')
  <2>1. \A t \in tokenRequests' : IsCurrent(t.closes, stream')
    <3> TAKE t \in tokenRequests'
    <3>1. CASE t \in tokenRequests
      BY <1>1, <1>2, <1>3, <3>1 DEF TokensAreCurrent
    <3>2. CASE t.closes = stream'.closes /\ stream'.state = "starting"
      BY <1>1, <3>2 DEF IsCurrent
    <3> QED
      BY <3>1, <3>2
  <2> QED
    BY <1>1, <1>2, <1>3, <2>1 DEF TokensAreCurrent
<1>5. RequestsName(tokenRequests', mainQueue', workQueue', stream'.closes, syncUser')
  BY <1>1, <1>2, <1>3 DEF RequestsName, TokensAreCurrent
<1>6. BlocksName(mainQueue', workQueue', stream'.closes, syncUser')
  BY <1>1, <1>2, <1>3 DEF BlocksName, TokensAreCurrent
<1>7. TasksName(workQueue', stream'.closes, syncUser')
  BY <1>1, <1>2, <1>3 DEF TasksName, TokensAreCurrent
<1> QED
  BY <1>4, <1>5, <1>6, <1>7 DEF Tokens, StreamActsForItsUser, IsOpen

LEMMA TokensOfStream ==
    ASSUME TypeOK, TypeOK', Tokens,
           BackoffElapsed \/ WriteRejected \/ WriteStreamBreaks \/ IdleTimeout
    PROVE  Tokens'
<1>1. /\ stream \in Streams /\ tokenRequests \subseteq Requests /\ stream.closes + 1 \in Nat
      /\ stream.closes \in Nat /\ tokenCounter \in Nat
      /\ {"initial", "error"} \subseteq {"initial", "error"} \cup Started
  BY TypeParts
<1>2. /\ workQueue' = workQueue
      /\ \/ mainQueue' = mainQueue
         \/ \E e \in Blocks : e.kind = "answer" /\ mainQueue' = Append(mainQueue, e)
  <2>1. CASE WriteRejected
    <3>1. Pipeline # << >> /\ FinishWrite(Head(Pipeline)) /\ workQueue' = workQueue
      BY <2>1 DEF WriteRejected
    <3> QED
      BY <3>1, FinishedType, AreBlocks
  <2>2. CASE ~ WriteRejected
    BY <2>2 DEF BackoffElapsed, WriteStreamBreaks, IdleTimeout
  <2> QED
    BY <2>1, <2>2
<1>3. \A i \in DOMAIN mainQueue' : mainQueue'[i].kind = "token" =>
         \E j \in DOMAIN mainQueue : mainQueue[j] = mainQueue'[i]
  <2>1. ASSUME NEW e \in Blocks, e.kind = "answer", mainQueue' = Append(mainQueue, e),
               NEW i \in DOMAIN mainQueue', mainQueue'[i].kind = "token"
        PROVE  \E j \in DOMAIN mainQueue : mainQueue[j] = mainQueue'[i]
    <3>1. /\ DOMAIN mainQueue = 1 .. Len(mainQueue) /\ Len(mainQueue) \in Nat
          /\ DOMAIN mainQueue' = 1 .. Len(mainQueue) + 1
          /\ \A j \in 1 .. Len(mainQueue) : mainQueue'[j] = mainQueue[j]
          /\ mainQueue'[Len(mainQueue) + 1] = e
      BY <2>1, TypeParts, AppendedElements
    <3>2. i \in DOMAIN mainQueue
      BY <2>1, <3>1
    <3> QED
      BY <3>1, <3>2
  <2> QED
    BY <1>2, <2>1
<1>4. /\ \/ stream'.closes = stream.closes + 1
         \/ stream'.closes = stream.closes /\ stream.state \notin {"starting", "open"}
      /\ stream'.state # "open"
      /\ \A t \in tokenRequests' : \/ t \in tokenRequests
                                   \/ /\ t.closes = stream'.closes /\ t.user = Unread
                                      /\ stream'.state = "starting"
  <2>1. CASE BackoffElapsed
    <3>1. /\ stream.state = "backoff"
          /\ FillWritePipeline(Pipeline, "initial", stream.closes, tokenCounter)
      BY <2>1 DEF BackoffElapsed
    <3> QED
      BY <1>1, <3>1, PipelineFilled
  <2>2. CASE WriteRejected
    <3>1. FillWritePipeline(Tail(Pipeline), "initial", stream.closes + 1, tokenCounter)
      BY <2>2 DEF WriteRejected
    <3> QED
      BY <1>1, <3>1, PipelineFilled
  <2>3. CASE WriteStreamBreaks
    <3>1. FillWritePipeline(Pipeline, "error", stream.closes + 1, tokenCounter)
      BY <2>3 DEF WriteStreamBreaks
    <3> QED
      BY <1>1, <3>1, PipelineFilled
  <2>4. CASE IdleTimeout
    BY <2>4 DEF IdleTimeout
  <2> QED
    BY <2>1, <2>2, <2>3, <2>4
<1> QED
  BY <1>2, <1>3, <1>4, TokensOutdated

(* Answers, writes and changes of FIRAuth's user are no tokens. *)
LEMMA TokensKept ==
    ASSUME TypeOK, Tokens, UNCHANGED <<stream, syncUser, tokenRequests>>,
           \/ mainQueue' = mainQueue
           \/ \E e \in Blocks : e.kind # "token" /\ mainQueue' = Append(mainQueue, e),
           \/ workQueue' = workQueue
           \/ \E e \in Tasks : e.kind = "write" /\ workQueue' = Append(workQueue, e)
    PROVE  Tokens'
<1> DEFINE MQ ==
             /\ NoChange(mainQueue', "notification") => NoChange(mainQueue, "notification")
             /\ \A i \in DOMAIN mainQueue' : mainQueue'[i].kind = "token" =>
                   /\ i \in DOMAIN mainQueue /\ mainQueue'[i] = mainQueue[i]
                   /\ NoChangeBefore(mainQueue', "notification", i)
                         => NoChangeBefore(mainQueue, "notification", i)
           WQ ==
             /\ NoChange(workQueue', "user") => NoChange(workQueue, "user")
             /\ \A i \in DOMAIN workQueue' : workQueue'[i].kind = "token" =>
                   /\ i \in DOMAIN workQueue /\ workQueue'[i] = workQueue[i]
                   /\ NoChangeBefore(workQueue', "user", i)
                         => NoChangeBefore(workQueue, "user", i)
<1>1. MQ
  <2>1. ASSUME NEW e \in Blocks, e.kind # "token", mainQueue' = Append(mainQueue, e)
        PROVE  MQ
    <3>1. /\ DOMAIN mainQueue = 1 .. Len(mainQueue) /\ Len(mainQueue) \in Nat
          /\ DOMAIN mainQueue' = 1 .. Len(mainQueue) + 1
          /\ \A j \in 1 .. Len(mainQueue) : mainQueue'[j] = mainQueue[j]
          /\ mainQueue'[Len(mainQueue) + 1] = e
      BY <2>1, TypeParts, AppendedElements
    <3>2. \A i \in DOMAIN mainQueue' : i \in DOMAIN mainQueue \/ mainQueue'[i] = e
      BY <3>1
    <3> QED
      BY <2>1, <3>1, <3>2, TypeParts, NoChangeOfAppend
  <2> QED
    BY <2>1
<1>2. WQ
  <2>1. ASSUME NEW e \in Tasks, e.kind = "write", workQueue' = Append(workQueue, e)
        PROVE  WQ
    <3>1. /\ DOMAIN workQueue = 1 .. Len(workQueue) /\ Len(workQueue) \in Nat
          /\ DOMAIN workQueue' = 1 .. Len(workQueue) + 1
          /\ \A j \in 1 .. Len(workQueue) : workQueue'[j] = workQueue[j]
          /\ workQueue'[Len(workQueue) + 1] = e
      BY <2>1, TypeParts, AppendedElements
    <3>2. \A i \in DOMAIN workQueue' : i \in DOMAIN workQueue \/ workQueue'[i] = e
      BY <3>1
    <3> QED
      BY <2>1, <3>1, <3>2, TypeParts, NoChangeOfAppend
  <2> QED
    BY <2>1
<1>3. TokensAreCurrent(tokenRequests', mainQueue', workQueue', stream')
  BY <1>1, <1>2 DEF Tokens, TokensAreCurrent
<1>4. RequestsName(tokenRequests', mainQueue', workQueue', stream'.closes, syncUser')
  BY <1>1, <1>2 DEF Tokens, RequestsName
<1>5. BlocksName(mainQueue', workQueue', stream'.closes, syncUser')
  BY <1>1, <1>2 DEF Tokens, BlocksName
<1>6. TasksName(workQueue', stream'.closes, syncUser')
  BY <1>2 DEF Tokens, TasksName
<1> QED
  BY <1>3, <1>4, <1>5, <1>6 DEF Tokens, StreamActsForItsUser, IsOpen

(* A token request is answered at once, gets its user, or is posted. *)
LEMMA TokenMoves ==
    ASSUME TypeOK, NEW t \in tokenRequests, ReadToken(t) \/ PostToken(t)
    PROVE  \/ /\ mainQueue' = mainQueue
              /\ tokenRequests' = (tokenRequests \ {t}) \cup {[t EXCEPT !.user = authUser]}
           \/ \E token \in [counter : Nat, closes : Nat, user : Users] :
                 /\ mainQueue' = Append(mainQueue, TokenBlock(token))
                 /\ tokenRequests' = tokenRequests \ {t} /\ token.closes = t.closes
                 /\ \/ token.user = authUser
                    \/ token.user = t.user /\ t.user # Unread
<1>1. t \in Requests /\ Nobody \in Users /\ authUser \in Users
  BY TypeParts DEF Users
<1>2. CASE ReadToken(t)
  <2>1. CASE authUser = Nobody
    <3> DEFINE token == [t EXCEPT !.user = Nobody]
    <3>1. /\ token \in [counter : Nat, closes : Nat, user : Users]
          /\ token.closes = t.closes /\ token.user = Nobody
      BY <1>1, TokenRead
    <3>2. /\ mainQueue' = Append(mainQueue, TokenBlock(token))
          /\ tokenRequests' = tokenRequests \ {t}
      BY <1>2, <2>1 DEF ReadToken
    <3> HIDE DEF token
    <3> QED
      BY <2>1, <3>1, <3>2
  <2>2. CASE authUser # Nobody
    BY <1>2, <2>2 DEF ReadToken
  <2> QED
    BY <2>1, <2>2
<1>3. CASE PostToken(t)
  <2>1. /\ t.user # Unread /\ tokenRequests' = tokenRequests \ {t}
        /\ mainQueue' = Append(mainQueue, TokenBlock(t))
    BY <1>3 DEF PostToken
  <2> QED
    BY <1>1, <2>1, ReadIsToken
<1> QED
  BY <1>2, <1>3

(* FIRAuth's user is syncUser if no change of user is on its way. *)
LEMMA TokensRead ==
    ASSUME TypeOK, UsersAgree, Tokens, NEW t \in tokenRequests, ReadToken(t) \/ PostToken(t)
    PROVE  Tokens'
<1>1. UNCHANGED <<stream, syncUser, workQueue>>
  BY DEF ReadToken, PostToken, sdkVars
<1>2. /\ t \in Requests /\ IsCurrent(t.closes, stream)
      /\ mainQueue \in Seq(Blocks) /\ authUser \in Users /\ Nobody \in Users
  BY TypeParts DEF Tokens, TokensAreCurrent, Users
<1>3. NoChange(mainQueue, "notification") /\ NoChange(workQueue, "user") => authUser = syncUser
  BY NothingInEffect DEF UsersAgree
<1>4. \/ /\ mainQueue' = mainQueue
         /\ tokenRequests' = (tokenRequests \ {t}) \cup {[t EXCEPT !.user = authUser]}
      \/ \E token \in [counter : Nat, closes : Nat, user : Users] :
            /\ mainQueue' = Append(mainQueue, TokenBlock(token))
            /\ tokenRequests' = tokenRequests \ {t} /\ token.closes = t.closes
            /\ \/ token.user = authUser
               \/ token.user = t.user /\ t.user # Unread
  BY TokenMoves
<1>5. CASE /\ mainQueue' = mainQueue
           /\ tokenRequests' = (tokenRequests \ {t}) \cup {[t EXCEPT !.user = authUser]}
  <2> DEFINE r == [t EXCEPT !.user = authUser]
  <2>1. r.closes = t.closes /\ r.user = authUser
    BY <1>2, TokenRead
  <2>2. \A s \in tokenRequests' : s \in tokenRequests \/ s = r
    BY <1>5
  <2> HIDE DEF r
  <2>3. TokensAreCurrent(tokenRequests', mainQueue', workQueue', stream')
    BY <1>1, <1>2, <1>5, <2>1, <2>2 DEF Tokens, TokensAreCurrent
  <2>4. RequestsName(tokenRequests', mainQueue', workQueue', stream'.closes, syncUser')
    BY <1>1, <1>3, <1>5, <2>1, <2>2 DEF Tokens, RequestsName
  <2> QED
    BY <1>1, <1>5, <2>3, <2>4 DEF Tokens, StreamActsForItsUser, IsOpen
<1>6. ASSUME NEW token \in [counter : Nat, closes : Nat, user : Users],
             mainQueue' = Append(mainQueue, TokenBlock(token)),
             tokenRequests' = tokenRequests \ {t}, token.closes = t.closes,
             token.user = authUser \/ (token.user = t.user /\ t.user # Unread)
      PROVE  Tokens'
  <2> DEFINE e == TokenBlock(token)
  <2>1. e \in Blocks /\ e.kind = "token" /\ e.token = token
    BY AreBlocks
  <2>2. mainQueue' = Append(mainQueue, e)
    BY <1>6
  <2> HIDE DEF e
  <2>3. /\ DOMAIN mainQueue = 1 .. Len(mainQueue) /\ Len(mainQueue) \in Nat
        /\ DOMAIN mainQueue' = 1 .. Len(mainQueue) + 1
        /\ \A j \in 1 .. Len(mainQueue) : mainQueue'[j] = mainQueue[j]
        /\ mainQueue'[Len(mainQueue) + 1] = e
    BY <1>2, <2>1, <2>2, AppendedElements
  <2>4. /\ NoChange(mainQueue', "notification") => NoChange(mainQueue, "notification")
        /\ \A i \in DOMAIN mainQueue : NoChangeBefore(mainQueue', "notification", i) =>
                                       NoChangeBefore(mainQueue, "notification", i)
        /\ NoChangeBefore(mainQueue', "notification", Len(mainQueue) + 1) =>
                                       NoChange(mainQueue, "notification")
    BY <1>2, <2>1, <2>2, NoChangeOfAppend
  <2>5. \A i \in DOMAIN mainQueue' : i \in DOMAIN mainQueue \/ i = Len(mainQueue) + 1
    BY <2>3
  <2>6. TokensAreCurrent(tokenRequests', mainQueue', workQueue', stream')
    <3>1. /\ \A s \in tokenRequests : IsCurrent(s.closes, stream)
          /\ \A i \in DOMAIN mainQueue :
                mainQueue[i].kind = "token" => IsCurrent(mainQueue[i].token.closes, stream)
          /\ \A i \in DOMAIN workQueue :
                workQueue[i].kind = "token" => IsCurrent(workQueue[i].closes, stream)
      BY DEF Tokens, TokensAreCurrent
    <3>2. \A s \in tokenRequests' : IsCurrent(s.closes, stream)
      BY <1>6, <3>1
    <3>3. \A i \in DOMAIN mainQueue' :
             mainQueue'[i].kind = "token" => IsCurrent(mainQueue'[i].token.closes, stream)
      BY <1>2, <1>6, <2>1, <2>3, <2>5, <3>1
    <3> QED
      BY <1>1, <3>1, <3>2, <3>3 DEF TokensAreCurrent
  <2>7. RequestsName(tokenRequests', mainQueue', workQueue', stream'.closes, syncUser')
    BY <1>1, <1>6, <2>4 DEF Tokens, RequestsName
  <2>8. BlocksName(mainQueue', workQueue', stream'.closes, syncUser')
    <3>1. ASSUME t.closes = stream.closes, NoChange(mainQueue, "notification"),
                 NoChange(workQueue, "user")
          PROVE  token.user = syncUser
      BY <1>3, <1>6, <3>1 DEF Tokens, RequestsName
    <3>2. ASSUME NEW i \in DOMAIN mainQueue', mainQueue'[i].kind = "token",
                 mainQueue'[i].token.closes = stream.closes,
                 NoChangeBefore(mainQueue', "notification", i), NoChange(workQueue, "user")
          PROVE  mainQueue'[i].token.user = syncUser
      <4>1. CASE i \in DOMAIN mainQueue
        BY <2>3, <2>4, <3>2, <4>1 DEF Tokens, BlocksName
      <4>2. CASE i = Len(mainQueue) + 1
        BY <1>6, <2>1, <2>3, <2>4, <3>1, <3>2, <4>2
      <4> QED
        BY <2>5, <4>1, <4>2
    <3> QED
      BY <1>1, <3>2 DEF BlocksName
  <2> QED
    BY <1>1, <2>6, <2>7, <2>8 DEF Tokens, StreamActsForItsUser, IsOpen
<1> QED
  BY <1>4, <1>5, <1>6

(* A notification becomes a change on the worker queue; a token that is    *)
(* received has had no notification before it.                             *)
LEMMA TokensRunBlock ==
    ASSUME TypeOK, Tokens, RunBlock
    PROVE  Tokens'
<1> DEFINE block == Head(mainQueue)
<1>1. /\ mainQueue # << >> /\ mainQueue' = Tail(mainQueue)
      /\ UNCHANGED <<stream, syncUser, tokenRequests>>
      /\ \/ block.kind = "notification" /\ UserNotified(block.user)
         \/ block.kind = "token" /\ TokenReceived(block.token)
         \/ block.kind = "answer" /\ UNCHANGED workQueue
  BY DEF RunBlock, sdkVars
<1>2. /\ mainQueue \in Seq(Blocks) /\ workQueue \in Seq(Tasks)
      /\ block \in Blocks /\ block = mainQueue[1] /\ 1 \in DOMAIN mainQueue
      /\ \A i \in DOMAIN mainQueue' :
            i + 1 \in DOMAIN mainQueue /\ mainQueue'[i] = mainQueue[i + 1]
  BY <1>1, TailElements, TypeParts
<1> HIDE DEF block
<1>3. block.kind # "notification" =>
         /\ NoChange(mainQueue', "notification") => NoChange(mainQueue, "notification")
         /\ \A i \in DOMAIN mainQueue' :
               NoChangeBefore(mainQueue', "notification", i) =>
                  NoChangeBefore(mainQueue, "notification", i + 1)
  BY <1>1, <1>2, NoChangeOfTail
<1>4. \/ \E e \in Tasks :
            /\ workQueue' = Append(workQueue, e)
            /\ \/ block.kind = "notification" /\ e.kind = "user"
               \/ /\ block.kind = "token" /\ e.kind = "token"
                  /\ e.closes = block.token.closes /\ e.user = block.token.user
      \/ block.kind = "answer" /\ workQueue' = workQueue
  <2>1. CASE block.kind = "notification" /\ UserNotified(block.user)
    <3>1. block.user \in Users
      BY <1>2, <2>1, BlockFields
    <3> QED
      BY <2>1, <3>1 DEF UserNotified, Tasks
  <2>2. CASE block.kind = "token" /\ TokenReceived(block.token)
    <3> DEFINE e == [kind |-> "token", ok |-> block.token.counter = tokenCounter,
                     closes |-> block.token.closes, user |-> block.token.user]
    <3>1. block.token.closes \in Nat /\ block.token.user \in Users
      BY <1>2, <2>2, BlockFields
    <3>2. /\ e \in Tasks /\ e.kind = "token"
          /\ e.closes = block.token.closes /\ e.user = block.token.user
      BY <3>1 DEF Tasks
    <3>3. workQueue' = Append(workQueue, e)
      BY <2>2 DEF TokenReceived
    <3> HIDE DEF e
    <3> QED
      BY <2>2, <3>2, <3>3
  <2>3. CASE block.kind = "answer" /\ UNCHANGED workQueue
    BY <2>3
  <2> QED
    BY <1>1, <2>1, <2>2, <2>3
<1>5. /\ \A t \in tokenRequests : IsCurrent(t.closes, stream)
      /\ \A i \in DOMAIN mainQueue :
            mainQueue[i].kind = "token" => IsCurrent(mainQueue[i].token.closes, stream)
      /\ \A i \in DOMAIN workQueue :
            workQueue[i].kind = "token" => IsCurrent(workQueue[i].closes, stream)
  BY DEF Tokens, TokensAreCurrent
<1>6. CASE block.kind = "answer" /\ workQueue' = workQueue
  <2>1. TokensAreCurrent(tokenRequests', mainQueue', workQueue', stream')
    BY <1>1, <1>2, <1>5, <1>6 DEF TokensAreCurrent
  <2>2. RequestsName(tokenRequests', mainQueue', workQueue', stream'.closes, syncUser')
    BY <1>1, <1>3, <1>6 DEF Tokens, RequestsName
  <2>3. BlocksName(mainQueue', workQueue', stream'.closes, syncUser')
    BY <1>1, <1>2, <1>3, <1>6 DEF Tokens, BlocksName
  <2> QED
    BY <1>1, <1>6, <2>1, <2>2, <2>3 DEF Tokens, StreamActsForItsUser, IsOpen
<1>7. ASSUME NEW e \in Tasks, workQueue' = Append(workQueue, e),
             \/ block.kind = "notification" /\ e.kind = "user"
             \/ /\ block.kind = "token" /\ e.kind = "token"
                /\ e.closes = block.token.closes /\ e.user = block.token.user
      PROVE  Tokens'
  <2>1. /\ DOMAIN workQueue = 1 .. Len(workQueue) /\ Len(workQueue) \in Nat
        /\ DOMAIN workQueue' = 1 .. Len(workQueue) + 1
        /\ \A j \in 1 .. Len(workQueue) : workQueue'[j] = workQueue[j]
        /\ workQueue'[Len(workQueue) + 1] = e
    BY <1>2, <1>7, AppendedElements
  <2>2. /\ NoChange(workQueue', "user") => NoChange(workQueue, "user") /\ e.kind # "user"
        /\ \A i \in DOMAIN workQueue :
              NoChangeBefore(workQueue', "user", i) => NoChangeBefore(workQueue, "user", i)
        /\ NoChangeBefore(workQueue', "user", Len(workQueue) + 1) => NoChange(workQueue, "user")
    BY <1>2, <1>7, NoChangeOfAppend
  <2>3. \A i \in DOMAIN workQueue' : i \in DOMAIN workQueue \/ i = Len(workQueue) + 1
    BY <2>1
  <2>4. TokensAreCurrent(tokenRequests', mainQueue', workQueue', stream')
    <3>1. e.kind = "token" => IsCurrent(e.closes, stream)
      BY <1>2, <1>5, <1>7
    <3>2. \A i \in DOMAIN workQueue' :
             workQueue'[i].kind = "token" => IsCurrent(workQueue'[i].closes, stream)
      BY <1>5, <2>1, <2>3, <3>1
    <3> QED
      BY <1>1, <1>2, <1>5, <3>2 DEF TokensAreCurrent
  <2>5. RequestsName(tokenRequests', mainQueue', workQueue', stream'.closes, syncUser')
    BY <1>1, <1>3, <1>7, <2>2 DEF Tokens, RequestsName
  <2>6. BlocksName(mainQueue', workQueue', stream'.closes, syncUser')
    BY <1>1, <1>2, <1>3, <1>7, <2>2 DEF Tokens, BlocksName
  <2>7. TasksName(workQueue', stream'.closes, syncUser')
    <3>1. ASSUME e.kind = "token", e.closes = stream.closes, NoChange(workQueue, "user")
          PROVE  e.user = syncUser
      <4>1. NoChangeBefore(mainQueue, "notification", 1)
        <5>1. \A j \in DOMAIN mainQueue : ~ j < 1
          BY <1>2
        <5> QED
          BY <5>1 DEF NoChangeBefore
      <4> QED
        BY <1>2, <1>7, <3>1, <4>1 DEF Tokens, BlocksName
    <3>2. ASSUME NEW i \in DOMAIN workQueue', workQueue'[i].kind = "token",
                 workQueue'[i].closes = stream.closes, NoChangeBefore(workQueue', "user", i)
          PROVE  workQueue'[i].user = syncUser
      <4>1. CASE i \in DOMAIN workQueue
        BY <2>1, <2>2, <3>2, <4>1 DEF Tokens, TasksName
      <4>2. CASE i = Len(workQueue) + 1
        BY <2>1, <2>2, <3>1, <3>2, <4>2
      <4> QED
        BY <2>3, <4>1, <4>2
    <3> QED
      BY <1>1, <3>2 DEF TasksName
  <2> QED
    BY <1>1, <2>4, <2>5, <2>6, <2>7 DEF Tokens, StreamActsForItsUser, IsOpen
<1> QED
  BY <1>4, <1>6, <1>7

(* The stream goes on, and no change of user has left the worker queue. *)
LEMMA TokensOfTask ==
    ASSUME TypeOK, Tokens, workQueue # << >>, workQueue' = Tail(workQueue),
           workQueue[1].kind # "user",
           UNCHANGED <<syncUser, mainQueue>>,
           stream'.closes = stream.closes,
           stream.state \in {"starting", "open"} => stream'.state \in {"starting", "open"},
           StreamActsForItsUser',
           \A t \in tokenRequests' : \/ t \in tokenRequests
                                     \/ /\ t.closes = stream'.closes /\ t.user = Unread
                                        /\ stream'.state = "starting"
    PROVE  Tokens'
<1>1. /\ NoChange(workQueue', "user") => NoChange(workQueue, "user")
      /\ \A i \in DOMAIN workQueue' :
            /\ i + 1 \in DOMAIN workQueue /\ workQueue'[i] = workQueue[i + 1]
            /\ NoChangeBefore(workQueue', "user", i) => NoChangeBefore(workQueue, "user", i + 1)
  BY TypeParts, NoChangeOfTail
<1>2. \A closes : IsCurrent(closes, stream) => IsCurrent(closes, stream')
  BY DEF IsCurrent
<1>3. TokensAreCurrent(tokenRequests', mainQueue', workQueue', stream')
  <2>1. \A t \in tokenRequests' : IsCurrent(t.closes, stream')
    <3> TAKE t \in tokenRequests'
    <3>1. CASE t \in tokenRequests
      BY <1>2, <3>1 DEF Tokens, TokensAreCurrent
    <3>2. CASE t.closes = stream'.closes /\ stream'.state = "starting"
      <4>1. t.closes <= stream'.closes
        BY <3>2, TypeParts
      <4> QED
        BY <3>2, <4>1 DEF IsCurrent
    <3> QED
      BY <3>1, <3>2
  <2> QED
    BY <1>1, <1>2, <2>1 DEF Tokens, TokensAreCurrent
<1>4. RequestsName(tokenRequests', mainQueue', workQueue', stream'.closes, syncUser')
  BY <1>1 DEF Tokens, RequestsName
<1>5. BlocksName(mainQueue', workQueue', stream'.closes, syncUser')
  BY <1>1 DEF Tokens, BlocksName
<1>6. TasksName(workQueue', stream'.closes, syncUser')
  BY <1>1 DEF Tokens, TasksName
<1> QED
  BY <1>3, <1>4, <1>5, <1>6 DEF Tokens

(* A change of user makes every token out of date; a token that opens the  *)
(* stream had none before it.                                              *)
LEMMA TokensRunTask ==
    ASSUME TypeOK, TypeOK', Tokens, RunTask
    PROVE  Tokens'
<1> DEFINE task == Head(workQueue)
<1>1. /\ workQueue # << >> /\ workQueue' = Tail(workQueue) /\ workQueue \in Seq(Tasks)
      /\ task \in Tasks /\ task = workQueue[1] /\ mainQueue' = mainQueue
      /\ syncUser' = IF task.kind = "user" THEN task.user ELSE syncUser
      /\ \/ task.kind = "write" /\ WriteMutations(task.write)
         \/ task.kind = "user"  /\ HandleCredentialChange(task.user)
         \/ task.kind = "token" /\ ResumeStart(task)
  BY SyncUserOfTask DEF RunTask
<1>2. /\ stream \in Streams /\ tokenRequests \subseteq Requests
      /\ stream.closes \in Nat /\ stream.closes + 1 \in Nat /\ tokenCounter \in Nat
      /\ stream.state \in {"initial", "error"} \cup Started
      /\ Stopped \in {"initial", "error"} \cup Started
      /\ "error" \in {"initial", "error"} \cup Started
  BY TypeParts DEF Stopped
<1> HIDE DEF task
<1>3. /\ 1 \in DOMAIN workQueue
      /\ \A i \in DOMAIN workQueue' :
            i + 1 \in DOMAIN workQueue /\ workQueue'[i] = workQueue[i + 1]
  BY <1>1, TailElements
<1>4. ASSUME \/ stream'.closes = stream.closes + 1
             \/ stream'.closes = stream.closes /\ stream.state \notin {"starting", "open"},
             stream'.state # "open",
             \A t \in tokenRequests' : \/ t \in tokenRequests
                                       \/ /\ t.closes = stream'.closes /\ t.user = Unread
                                          /\ stream'.state = "starting"
      PROVE  Tokens'
  BY <1>1, <1>3, <1>4, TokensOutdated
<1>5. CASE task.kind = "user" /\ HandleCredentialChange(task.user)
  <2> DEFINE closes == IF stream.state \in Started THEN stream.closes + 1 ELSE stream.closes
  <2>1. FillWritePipeline(mutationQueue[task.user], Stopped, closes, tokenCounter)
    BY <1>5 DEF HandleCredentialChange
  <2>2. closes \in Nat /\ Stopped # "open"
    BY <1>2 DEF Stopped, Started
  <2>3. /\ stream'.closes = closes /\ stream'.state # "open"
        /\ \A t \in tokenRequests' : \/ t \in tokenRequests
                                     \/ /\ t.closes = closes /\ t.user = Unread
                                        /\ stream'.state = "starting"
    <3> HIDE DEF closes
    <3> QED
      BY <1>2, <2>1, <2>2, PipelineFilled
  <2> QED
    BY <1>4, <2>3 DEF Started
<1>6. CASE task.kind = "write" /\ WriteMutations(task.write)
  <2>1. FillWritePipeline(Append(Pipeline, task.write), stream.state, stream.closes,
                          tokenCounter)
    BY <1>6 DEF WriteMutations
  <2>2. /\ stream'.closes = stream.closes
        /\ stream'.state = "open" <=> stream.state = "open"
        /\ stream.state = "open" => stream'.user = stream.user
        /\ stream.state = "starting" => stream'.state = "starting"
        /\ \A t \in tokenRequests' : \/ t \in tokenRequests
                                     \/ /\ t.closes = stream.closes /\ t.user = Unread
                                        /\ stream'.state = "starting"
    BY <1>2, <2>1, PipelineFilled
  <2>3. CASE stream.state \in {"starting", "open"}
    <3>1. StreamActsForItsUser'
      BY <1>1, <1>6, <2>2 DEF Tokens, StreamActsForItsUser, IsOpen
    <3> QED
      BY <1>1, <1>6, <2>2, <2>3, <3>1, TokensOfTask
  <2>4. CASE stream.state \notin {"starting", "open"}
    BY <1>4, <2>2, <2>4
  <2> QED
    BY <2>3, <2>4
<1>7. CASE task.kind = "token" /\ ResumeStart(task)
  <2>1. CASE UNCHANGED <<stream, tokenRequests>>
    <3>1. StreamActsForItsUser'
      BY <1>1, <1>7, <2>1 DEF Tokens, StreamActsForItsUser, IsOpen
    <3> QED
      BY <1>1, <1>7, <2>1, <3>1, TokensOfTask
  <2>2. CASE /\ task.closes = stream.closes /\ UNCHANGED tokenRequests
             /\ stream' = [stream EXCEPT !.state = "open", !.user = task.user]
    <3>1. task.user = syncUser
      <4>1. NoChangeBefore(workQueue, "user", 1)
        <5>1. \A j \in DOMAIN workQueue : ~ j < 1
          BY <1>1
        <5> QED
          BY <5>1 DEF NoChangeBefore
      <4> QED
        BY <1>1, <1>3, <1>7, <2>2, <4>1 DEF Tokens, TasksName
    <3>2. stream'.closes = stream.closes /\ stream'.state = "open" /\ stream'.user = task.user
      BY <1>2, <2>2 DEF Streams
    <3>3. StreamActsForItsUser'
      BY <1>1, <1>7, <3>1, <3>2 DEF StreamActsForItsUser
    <3> QED
      BY <1>1, <1>7, <2>2, <3>2, <3>3, TokensOfTask
  <2>3. CASE FillWritePipeline(Pipeline, "error", stream.closes + 1, tokenCounter)
    <3>1. /\ stream'.closes = stream.closes + 1 /\ stream'.state # "open"
          /\ \A t \in tokenRequests' : \/ t \in tokenRequests
                                       \/ /\ t.closes = stream.closes + 1 /\ t.user = Unread
                                          /\ stream'.state = "starting"
      BY <1>2, <2>3, PipelineFilled
    <3> QED
      BY <1>4, <3>1
  <2> QED
    BY <1>7, <2>1, <2>2, <2>3 DEF ResumeStart
<1> QED
  BY <1>1, <1>5, <1>6, <1>7

LEMMA LaunchTokens ==
    ASSUME NEW u, NEW closes, NEW str, NEW requests,
           \A t \in requests : t.user = Unread /\ IsCurrent(t.closes, str)
    PROVE  /\ TokensAreCurrent(requests, LaunchNotifications, << >>, str)
           /\ RequestsName(requests, LaunchNotifications, << >>, closes, u)
           /\ BlocksName(LaunchNotifications, << >>, closes, u)
           /\ TasksName(<< >>, closes, u)
<1>1. \A i \in DOMAIN LaunchNotifications : LaunchNotifications[i].kind # "token"
  <2>1. CASE LaunchNotifications = << >>
    BY <2>1
  <2>2. CASE LaunchNotifications = <<Notification(authUser)>>
    BY <2>2 DEF Notification
  <2> QED
    BY <2>1, <2>2 DEF LaunchNotifications
<1> HIDE DEF LaunchNotifications
<1> QED
  BY <1>1 DEF TokensAreCurrent, RequestsName, BlocksName, TasksName

LEMMA TokensInit == Init => Tokens
<1> SUFFICES ASSUME Init PROVE Tokens
  OBVIOUS
<1>1. /\ tokenRequests = {} /\ mainQueue = LaunchNotifications /\ workQueue = << >>
      /\ stream.state = "initial"
  BY DEF Init
<1> QED
  BY <1>1, LaunchTokens DEF Tokens, StreamActsForItsUser, IsOpen

LEMMA TokensRestart ==
    ASSUME Restart
    PROVE  Tokens'
<1>1. /\ mainQueue' = LaunchNotifications /\ workQueue' = << >>
      /\ stream'.state # "open" /\ stream'.closes = 0
      /\ \A t \in tokenRequests' : /\ t.user = Unread /\ t.closes = 0
                                   /\ stream'.state = "starting"
  BY DEF Restart
<1>2. \A t \in tokenRequests' : t.user = Unread /\ IsCurrent(t.closes, stream')
  BY <1>1 DEF IsCurrent
<1> QED
  BY <1>1, <1>2, LaunchTokens DEF Tokens, StreamActsForItsUser, IsOpen

LEMMA TokensStep ==
    TypeOK /\ TypeOK' /\ UsersAgree /\ Tokens /\ [Next]_vars => Tokens'
<1> SUFFICES ASSUME TypeOK, TypeOK', UsersAgree, Tokens, [Next]_vars PROVE Tokens'
  OBVIOUS
<1>1. CASE ServerAppliesWrite \/ WriteAcknowledged \/ UNCHANGED vars
  <2>1. UNCHANGED <<stream, syncUser, tokenRequests, workQueue>>
    BY <1>1 DEF ServerAppliesWrite, WriteAcknowledged, vars, sdkVars
  <2>2. \/ mainQueue' = mainQueue
        \/ \E e \in Blocks : e.kind # "token" /\ mainQueue' = Append(mainQueue, e)
    <3>1. CASE WriteAcknowledged
      <4>1. Pipeline # << >> /\ FinishWrite(Head(Pipeline))
        BY <3>1, TypeParts DEF WriteAcknowledged
      <4> QED
        BY <4>1, FinishedType, AreBlocks
    <3>2. CASE ~ WriteAcknowledged
      BY <1>1, <3>2 DEF ServerAppliesWrite, vars
    <3> QED
      BY <3>1, <3>2
  <2> QED
    BY <2>1, <2>2, TokensKept
<1>2. ASSUME NEW u \in Users, UpdateCurrentUser(u)
      PROVE  Tokens'
  <2>1. /\ UNCHANGED <<stream, syncUser, tokenRequests, workQueue>>
        /\ mainQueue' = Append(mainQueue, Notification(u))
    BY <1>2 DEF UpdateCurrentUser, sdkVars
  <2> QED
    BY <2>1, AreBlocks, TokensKept
<1>3. ASSUME NEW w \in Writes, MakeWrite(w)
      PROVE  Tokens'
  <2> DEFINE e == [kind |-> "write", write |-> w]
  <2>1. /\ UNCHANGED <<stream, syncUser, tokenRequests, mainQueue>>
        /\ workQueue' = Append(workQueue, e)
    BY <1>3 DEF MakeWrite, sdkVars
  <2>2. e \in Tasks /\ e.kind = "write"
    BY DEF Tasks
  <2> HIDE DEF e
  <2> QED
    BY <2>1, <2>2, TokensKept
<1> QED
  BY <1>1, <1>2, <1>3, TokensOfStream, TokensRead, TokensRunBlock, TokensRunTask, TokensRestart
     DEF Next, Network

-----------------------------------------------------------------------------
(* Theorems.                                                               *)

LEMMA Invariance == Spec => []Inv
<1>1. Init => Inv
  <2>1. Init => WritesAreOwned
    BY DEF Init, WritesAreOwned
  <2> QED
    BY <2>1, InitType, UsersInit, TokensInit DEF Inv
<1>2. Inv /\ [Next]_vars => Inv'
  <2>1. Tokens => StreamActsForItsUser
    BY DEF Tokens
  <2> QED
    BY <2>1, TypeStep, UsersStep, OwnedStep, TokensStep DEF Inv
<1> QED
  BY <1>1, <1>2, PTL DEF Spec

(* The state keeps its type; in particular no acknowledgement finds the    *)
(* pipeline empty.                                                         *)
THEOREM CredentialsTypeOK == Spec => []TypeOK
<1>1. Inv => TypeOK
  BY DEF Inv
<1> QED
  BY <1>1, Invariance, PTL

(* An open write stream carries the token of the user whose writes it      *)
(* sends, however tokens, notifications and changes of user are ordered.   *)
THEOREM StreamAlwaysActsForItsUser == Spec => []StreamActsForItsUser
<1>1. Inv => StreamActsForItsUser
  BY DEF Inv, Tokens
<1> QED
  BY <1>1, Invariance, PTL

(* A write is sent under the user it was made under, and no other.         *)
THEOREM WritesAlwaysGoOutUnderTheirUser == Spec => []WritesGoOutUnderTheirUser
<1>1. Inv => WritesGoOutUnderTheirUser
  BY DEF Inv, WritesAreOwned, WritesGoOutUnderTheirUser
<1> QED
  BY <1>1, Invariance, PTL
-----------------------------------------------------------------------------
(* At most one token with the close count of the stream is on its way, and *)
(* then the stream waits for it.                                           *)

RequestsAt(requests, closes) == {t \in requests : t.closes = closes}

BlocksAt(blocks, closes) ==
    {i \in DOMAIN blocks : blocks[i].kind = "token" /\ blocks[i].token.closes = closes}

TasksAt(tasks, closes) ==
    {i \in DOMAIN tasks : tasks[i].kind = "token" /\ tasks[i].closes = closes}

Single(S) == \A x, y \in S : x = y

(* Requests, blocks and tasks of one close count; a stream in this state *)
OnlyToken(requests, blocks, tasks, state) ==
    /\ Single(requests) /\ Single(blocks) /\ Single(tasks)
    /\ requests = {} \/ blocks = {}
    /\ requests = {} \/ tasks = {}
    /\ blocks = {} \/ tasks = {}
    /\ state # "starting" => requests = {} /\ blocks = {} /\ tasks = {}

OneToken ==
    OnlyToken(RequestsAt(tokenRequests, stream.closes), BlocksAt(mainQueue, stream.closes),
              TasksAt(workQueue, stream.closes), stream.state)

LEMMA BlocksAtAppend ==
    ASSUME NEW q \in Seq(Blocks), NEW e \in Blocks, NEW closes
    PROVE  /\ BlocksAt(Append(q, e), closes) =
                  BlocksAt(q, closes) \cup
                     (IF e.kind = "token" /\ e.token.closes = closes THEN {Len(q) + 1} ELSE {})
           /\ e.kind # "token" => BlocksAt(Append(q, e), closes) = BlocksAt(q, closes)
<1>1. /\ DOMAIN q = 1 .. Len(q) /\ Len(q) \in Nat
      /\ DOMAIN Append(q, e) = DOMAIN q \cup {Len(q) + 1} /\ Len(q) + 1 \notin DOMAIN q
      /\ \A i \in DOMAIN q : Append(q, e)[i] = q[i]
      /\ Append(q, e)[Len(q) + 1] = e
  BY AppendedElements
<1> DEFINE p == Append(q, e)
<1> HIDE DEF p
<1> QED
  BY <1>1 DEF BlocksAt, p

LEMMA TasksAtAppend ==
    ASSUME NEW q \in Seq(Tasks), NEW e \in Tasks, NEW closes
    PROVE  /\ TasksAt(Append(q, e), closes) =
                  TasksAt(q, closes) \cup
                     (IF e.kind = "token" /\ e.closes = closes THEN {Len(q) + 1} ELSE {})
           /\ e.kind # "token" => TasksAt(Append(q, e), closes) = TasksAt(q, closes)
<1>1. /\ DOMAIN q = 1 .. Len(q) /\ Len(q) \in Nat
      /\ DOMAIN Append(q, e) = DOMAIN q \cup {Len(q) + 1} /\ Len(q) + 1 \notin DOMAIN q
      /\ \A i \in DOMAIN q : Append(q, e)[i] = q[i]
      /\ Append(q, e)[Len(q) + 1] = e
  BY AppendedElements
<1> DEFINE p == Append(q, e)
<1> HIDE DEF p
<1> QED
  BY <1>1 DEF TasksAt, p

(* What is left when the head has gone. *)
LEMMA BlocksAtTail ==
    ASSUME NEW q \in Seq(Blocks), q # << >>, NEW closes, Single(BlocksAt(q, closes))
    PROVE  /\ Single(BlocksAt(Tail(q), closes))
           /\ BlocksAt(q, closes) = {} => BlocksAt(Tail(q), closes) = {}
           /\ q[1].kind = "token" /\ q[1].token.closes = closes =>
                 BlocksAt(q, closes) # {} /\ BlocksAt(Tail(q), closes) = {}
<1>1. /\ 1 \in DOMAIN q
      /\ \A i \in DOMAIN Tail(q) : /\ i + 1 \in DOMAIN q /\ i \in Nat /\ i + 1 # 1
                                   /\ Tail(q)[i] = q[i + 1]
  BY TailElements
<1>2. \A i \in BlocksAt(Tail(q), closes) :
         i \in Nat /\ i + 1 \in BlocksAt(q, closes) /\ i + 1 # 1
  BY <1>1 DEF BlocksAt
<1>3. q[1].kind = "token" /\ q[1].token.closes = closes => 1 \in BlocksAt(q, closes)
  BY <1>1 DEF BlocksAt
<1> QED
  BY <1>2, <1>3 DEF Single

LEMMA TasksAtTail ==
    ASSUME NEW q \in Seq(Tasks), q # << >>, NEW closes, Single(TasksAt(q, closes))
    PROVE  /\ Single(TasksAt(Tail(q), closes))
           /\ TasksAt(q, closes) = {} => TasksAt(Tail(q), closes) = {}
           /\ q[1].kind = "token" /\ q[1].closes = closes =>
                 TasksAt(q, closes) # {} /\ TasksAt(Tail(q), closes) = {}
<1>1. /\ 1 \in DOMAIN q
      /\ \A i \in DOMAIN Tail(q) : /\ i + 1 \in DOMAIN q /\ i \in Nat /\ i + 1 # 1
                                   /\ Tail(q)[i] = q[i + 1]
  BY TailElements
<1>2. \A i \in TasksAt(Tail(q), closes) :
         i \in Nat /\ i + 1 \in TasksAt(q, closes) /\ i + 1 # 1
  BY <1>1 DEF TasksAt
<1>3. q[1].kind = "token" /\ q[1].closes = closes => 1 \in TasksAt(q, closes)
  BY <1>1 DEF TasksAt
<1> QED
  BY <1>2, <1>3 DEF Single

(* No token is ahead of the stream, and a stream that does not wait for    *)
(* one has none of its count.                                              *)
LEMMA NothingAt ==
    ASSUME TypeOK, Tokens, OneToken, NEW closes,
           closes = stream.closes + 1 \/ (closes = stream.closes /\ stream.state # "starting")
    PROVE  /\ RequestsAt(tokenRequests, closes) = {}
           /\ BlocksAt(mainQueue, closes) = {}
           /\ TasksAt(workQueue, closes) = {}
<1>1. CASE closes = stream.closes + 1
  <2>1. stream.closes \in Nat
    BY TypeParts
  <2>2. ~ (stream.closes + 1 <= stream.closes)
    BY <2>1
  <2> QED
    BY <1>1, <2>2 DEF Tokens, TokensAreCurrent, IsCurrent, RequestsAt, BlocksAt, TasksAt
<1>2. CASE closes = stream.closes /\ stream.state # "starting"
  BY <1>2 DEF OneToken, OnlyToken
<1> QED
  BY <1>1, <1>2

(* A pipeline that is filled asks for the first token of its count. *)
LEMMA OneTokenAsked ==
    ASSUME stream \in Streams, NEW queue, NEW state \in {"initial", "error"} \cup Started,
           NEW closes \in Nat, NEW counter, FillWritePipeline(queue, state, closes, counter),
           RequestsAt(tokenRequests, closes) = {},
           BlocksAt(mainQueue', closes) = {}, TasksAt(workQueue', closes) = {}
    PROVE  OneToken'
<1> DEFINE next == IF queue = << >> \/ state \in Started THEN state
                   ELSE IF state = "error" THEN "backoff" ELSE "starting"
           request == [counter |-> counter, closes |-> closes, user |-> Unread]
<1>1. /\ stream'.state = next /\ stream'.closes = closes
      /\ tokenRequests' = IF next = "starting" /\ state = "initial"
                          THEN tokenRequests \cup {request} ELSE tokenRequests
  BY DEF FillWritePipeline
<1>2. \/ RequestsAt(tokenRequests', closes) = {}
      \/ next = "starting" /\ RequestsAt(tokenRequests', closes) = {request}
  BY <1>1 DEF RequestsAt
<1> HIDE DEF next, request
<1> QED
  BY <1>1, <1>2 DEF OneToken, OnlyToken, Single

(* Steps that leave the tokens where they are. *)
LEMMA OneTokenKept ==
    ASSUME TypeOK, OneToken,
           stream'.closes = stream.closes, stream'.state = stream.state,
           tokenRequests' = tokenRequests,
           \/ mainQueue' = mainQueue
           \/ \E e \in Blocks : e.kind # "token" /\ mainQueue' = Append(mainQueue, e),
           \/ workQueue' = workQueue
           \/ \E e \in Tasks : e.kind # "token" /\ workQueue' = Append(workQueue, e)
    PROVE  OneToken'
<1>1. mainQueue \in Seq(Blocks) /\ workQueue \in Seq(Tasks)
  BY TypeParts
<1>2. BlocksAt(mainQueue', stream.closes) = BlocksAt(mainQueue, stream.closes)
  <2>1. ASSUME NEW e \in Blocks, e.kind # "token", mainQueue' = Append(mainQueue, e)
        PROVE  BlocksAt(mainQueue', stream.closes) = BlocksAt(mainQueue, stream.closes)
    BY <1>1, <2>1, BlocksAtAppend, Zenon
  <2> QED
    BY <2>1
<1>3. TasksAt(workQueue', stream.closes) = TasksAt(workQueue, stream.closes)
  <2>1. ASSUME NEW e \in Tasks, e.kind # "token", workQueue' = Append(workQueue, e)
        PROVE  TasksAt(workQueue', stream.closes) = TasksAt(workQueue, stream.closes)
    BY <1>1, <2>1, TasksAtAppend, Zenon
  <2> QED
    BY <2>1
<1> QED
  BY <1>2, <1>3 DEF OneToken

LEMMA OneTokenOfStream ==
    ASSUME TypeOK, Tokens, OneToken,
           BackoffElapsed \/ WriteRejected \/ WriteStreamBreaks \/ IdleTimeout
    PROVE  OneToken'
<1>1. /\ stream \in Streams /\ stream.closes \in Nat /\ stream.closes + 1 \in Nat
      /\ mainQueue \in Seq(Blocks)
      /\ {"initial", "error"} \subseteq {"initial", "error"} \cup Started
  BY TypeParts
<1>2. /\ RequestsAt(tokenRequests, stream.closes + 1) = {}
      /\ BlocksAt(mainQueue, stream.closes + 1) = {}
      /\ TasksAt(workQueue, stream.closes + 1) = {}
  BY NothingAt
<1>3. CASE BackoffElapsed
  <2>1. /\ stream.state = "backoff" /\ UNCHANGED <<mainQueue, workQueue>>
        /\ FillWritePipeline(Pipeline, "initial", stream.closes, tokenCounter)
    BY <1>3 DEF BackoffElapsed
  <2> QED
    BY <1>1, <2>1, NothingAt, OneTokenAsked
<1>4. CASE WriteRejected
  <2>1. /\ FillWritePipeline(Tail(Pipeline), "initial", stream.closes + 1, tokenCounter)
        /\ Pipeline # << >> /\ FinishWrite(Head(Pipeline)) /\ workQueue' = workQueue
    BY <1>4 DEF WriteRejected
  <2>2. \/ mainQueue' = mainQueue
        \/ \E e \in Blocks : e.kind = "answer" /\ mainQueue' = Append(mainQueue, e)
    BY <2>1, FinishedType, AreBlocks
  <2>3. BlocksAt(mainQueue', stream.closes + 1) = {}
    <3>1. ASSUME NEW e \in Blocks, e.kind = "answer", mainQueue' = Append(mainQueue, e)
          PROVE  BlocksAt(mainQueue', stream.closes + 1) =
                     BlocksAt(mainQueue, stream.closes + 1)
      <4>1. e.kind # "token"
        BY <3>1
      <4> QED
        BY <1>1, <3>1, <4>1, BlocksAtAppend, Zenon
    <3> QED
      BY <1>2, <2>2, <3>1
  <2> QED
    BY <1>1, <1>2, <2>1, <2>3, OneTokenAsked
<1>5. CASE WriteStreamBreaks
  <2>1. /\ FillWritePipeline(Pipeline, "error", stream.closes + 1, tokenCounter)
        /\ UNCHANGED <<mainQueue, workQueue>>
    BY <1>5 DEF WriteStreamBreaks
  <2> QED
    BY <1>1, <1>2, <2>1, OneTokenAsked
<1>6. CASE IdleTimeout
  <2>1. /\ stream'.closes = stream.closes + 1
        /\ UNCHANGED <<mainQueue, workQueue, tokenRequests>>
    BY <1>6 DEF IdleTimeout
  <2> QED
    BY <1>2, <2>1 DEF OneToken, OnlyToken, Single
<1> QED
  BY <1>3, <1>4, <1>5, <1>6

(* The token goes from FIRAuth to the main queue. *)
LEMMA OneTokenRead ==
    ASSUME TypeOK, OneToken, NEW t \in tokenRequests, ReadToken(t) \/ PostToken(t)
    PROVE  OneToken'
<1> DEFINE c == stream.closes
           R == RequestsAt(tokenRequests, c)
           B == BlocksAt(mainQueue, c)
<1>1. UNCHANGED <<stream, workQueue>>
  BY DEF ReadToken, PostToken, sdkVars
<1>2. t \in Requests /\ mainQueue \in Seq(Blocks) /\ authUser \in Users
  BY TypeParts
<1>3. ASSUME mainQueue' = mainQueue,
             tokenRequests' = (tokenRequests \ {t}) \cup {[t EXCEPT !.user = authUser]}
      PROVE  OneToken'
  <2>1. [t EXCEPT !.user = authUser].closes = t.closes
    BY <1>2, TokenRead
  <2>2. \/ t.closes # c /\ RequestsAt(tokenRequests', c) = R
        \/ t \in R /\ RequestsAt(tokenRequests', c) =
                         (R \ {t}) \cup {[t EXCEPT !.user = authUser]}
    BY <1>3, <2>1 DEF RequestsAt
  <2> QED
    BY <1>1, <1>3, <2>2 DEF OneToken, OnlyToken, Single
<1>4. ASSUME NEW token \in [counter : Nat, closes : Nat, user : Users],
             mainQueue' = Append(mainQueue, TokenBlock(token)),
             tokenRequests' = tokenRequests \ {t}, token.closes = t.closes
      PROVE  OneToken'
  <2>1. /\ TokenBlock(token) \in Blocks /\ TokenBlock(token).kind = "token"
        /\ TokenBlock(token).token.closes = t.closes
    BY <1>4, AreBlocks
  <2>2. BlocksAt(mainQueue', c) =
           B \cup (IF t.closes = c THEN {Len(mainQueue) + 1} ELSE {})
    BY <1>2, <1>4, <2>1, BlocksAtAppend
  <2>3. RequestsAt(tokenRequests', c) = R \ {t} /\ (t.closes = c => t \in R)
    BY <1>4 DEF RequestsAt
  <2> QED
    BY <1>1, <2>2, <2>3 DEF OneToken, OnlyToken, Single
<1> QED
  BY <1>3, <1>4, TokenMoves

(* And from there to the worker queue. *)
LEMMA OneTokenRunBlock ==
    ASSUME TypeOK, OneToken, RunBlock
    PROVE  OneToken'
<1> DEFINE c == stream.closes
           B == BlocksAt(mainQueue, c)
           T == TasksAt(workQueue, c)
           block == Head(mainQueue)
<1>1. /\ mainQueue # << >> /\ mainQueue' = Tail(mainQueue)
      /\ UNCHANGED <<stream, tokenRequests>>
      /\ \/ block.kind = "notification" /\ UserNotified(block.user)
         \/ block.kind = "token" /\ TokenReceived(block.token)
         \/ block.kind = "answer" /\ workQueue' = workQueue
  BY DEF RunBlock, sdkVars
<1>2. /\ mainQueue \in Seq(Blocks) /\ workQueue \in Seq(Tasks)
      /\ block \in Blocks /\ block = mainQueue[1]
  BY <1>1, TypeParts, TailElements
<1> HIDE DEF block
<1>3. Single(B)
  BY DEF OneToken, OnlyToken
<1>4. /\ Single(BlocksAt(mainQueue', c)) /\ (B = {} => BlocksAt(mainQueue', c) = {})
      /\ block.kind = "token" /\ block.token.closes = c =>
            B # {} /\ BlocksAt(mainQueue', c) = {}
  BY <1>1, <1>2, <1>3, BlocksAtTail
<1>5. TasksAt(workQueue', c) = T \cup (IF block.kind = "token" /\ block.token.closes = c
                                       THEN {Len(workQueue) + 1} ELSE {})
  <2>1. CASE block.kind = "notification" /\ UserNotified(block.user)
    <3> DEFINE e == [kind |-> "user", user |-> block.user]
    <3>1. e \in Tasks /\ e.kind = "user" /\ workQueue' = Append(workQueue, e)
      BY <1>2, <2>1, BlockFields DEF UserNotified, Tasks
    <3> HIDE DEF e
    <3> QED
      BY <1>2, <2>1, <3>1, TasksAtAppend
  <2>2. CASE block.kind = "token" /\ TokenReceived(block.token)
    <3> DEFINE e == [kind |-> "token", ok |-> block.token.counter = tokenCounter,
                     closes |-> block.token.closes, user |-> block.token.user]
    <3>0. (block.token.counter = tokenCounter) \in BOOLEAN
      OBVIOUS
    <3>1. e \in Tasks
      BY <1>2, <2>2, <3>0, BlockFields DEF Tasks
    <3>2. e.kind = "token" /\ e.closes = block.token.closes /\ workQueue' = Append(workQueue, e)
      BY <2>2 DEF TokenReceived
    <3> HIDE DEF e
    <3> QED
      BY <1>2, <2>2, <3>1, <3>2, TasksAtAppend
  <2>3. CASE block.kind = "answer" /\ workQueue' = workQueue
    BY <2>3
  <2> QED
    BY <1>1, <2>1, <2>2, <2>3
<1> QED
  BY <1>1, <1>4, <1>5 DEF OneToken, OnlyToken, Single

(* The token opens the stream, or was out of date. *)
LEMMA OneTokenRunTask ==
    ASSUME TypeOK, Tokens, OneToken, RunTask
    PROVE  OneToken'
<1> DEFINE c == stream.closes
           T == TasksAt(workQueue, c)
           task == Head(workQueue)
<1>1. /\ workQueue # << >> /\ workQueue' = Tail(workQueue) /\ mainQueue' = mainQueue
      /\ \/ task.kind = "write" /\ WriteMutations(task.write)
         \/ task.kind = "user"  /\ HandleCredentialChange(task.user)
         \/ task.kind = "token" /\ ResumeStart(task)
  BY DEF RunTask
<1>2. /\ workQueue \in Seq(Tasks) /\ task = workQueue[1]
      /\ stream \in Streams /\ c \in Nat /\ c + 1 \in Nat /\ tokenCounter \in Nat
      /\ stream.state \in {"initial", "error"} \cup Started
      /\ Stopped \in {"initial", "error"} \cup Started
      /\ "error" \in {"initial", "error"} \cup Started
  BY <1>1, TypeParts, TailElements DEF Stopped
<1> HIDE DEF task
<1>3. \A closes : TasksAt(workQueue, closes) = {} => TasksAt(workQueue', closes) = {}
  BY <1>1, <1>2, TasksAtTail DEF Single
<1>4. /\ Single(TasksAt(workQueue', c)) /\ (T = {} => TasksAt(workQueue', c) = {})
      /\ task.kind = "token" /\ task.closes = c => T # {} /\ TasksAt(workQueue', c) = {}
  BY <1>1, <1>2, TasksAtTail DEF OneToken, OnlyToken
<1>5. ASSUME NEW queue, NEW state \in {"initial", "error"} \cup Started, NEW closes \in Nat,
             FillWritePipeline(queue, state, closes, tokenCounter),
             closes = c + 1 \/ (closes = c /\ stream.state # "starting")
      PROVE  OneToken'
  <2>1. /\ RequestsAt(tokenRequests, closes) = {} /\ BlocksAt(mainQueue', closes) = {}
        /\ TasksAt(workQueue', closes) = {}
    BY <1>1, <1>3, <1>5, NothingAt
  <2> QED
    BY <1>2, <1>5, <2>1, OneTokenAsked
<1>6. CASE task.kind = "write" /\ WriteMutations(task.write)
  <2>1. FillWritePipeline(Append(Pipeline, task.write), stream.state, c, tokenCounter)
    BY <1>6 DEF WriteMutations
  <2>2. CASE stream.state = "starting"
    <3>1. stream'.state = "starting" /\ stream'.closes = c /\ tokenRequests' = tokenRequests
      BY <2>1, <2>2 DEF FillWritePipeline, Started
    <3> QED
      BY <1>1, <1>4, <2>2, <3>1 DEF OneToken, OnlyToken
  <2> QED
    BY <1>2, <1>5, <2>1, <2>2
<1>7. CASE task.kind = "user" /\ HandleCredentialChange(task.user)
  <2> DEFINE closes == IF stream.state \in Started THEN c + 1 ELSE c
  <2>1. FillWritePipeline(mutationQueue[task.user], Stopped, closes, tokenCounter)
    BY <1>7 DEF HandleCredentialChange
  <2>2. closes \in Nat /\ (closes = c + 1 \/ (closes = c /\ stream.state # "starting"))
    BY <1>2 DEF Started
  <2> HIDE DEF closes
  <2> QED
    BY <1>2, <1>5, <2>1, <2>2
<1>8. CASE task.kind = "token" /\ ResumeStart(task)
  <2>1. CASE UNCHANGED <<stream, tokenRequests>>
    BY <1>1, <1>4, <2>1 DEF OneToken, OnlyToken
  <2>2. CASE /\ task.closes = c /\ UNCHANGED tokenRequests
             /\ stream' = [stream EXCEPT !.state = "open", !.user = task.user]
    <3>1. stream'.closes = c
      BY <1>2, <2>2 DEF Streams
    <3> QED
      BY <1>1, <1>4, <1>8, <2>2, <3>1 DEF OneToken, OnlyToken
  <2>3. CASE FillWritePipeline(Pipeline, "error", c + 1, tokenCounter)
    BY <1>2, <1>5, <2>3
  <2> QED
    BY <1>8, <2>1, <2>2, <2>3 DEF ResumeStart
<1> QED
  BY <1>1, <1>6, <1>7, <1>8

LEMMA OneTokenAtLaunch ==
    /\ \A closes : BlocksAt(LaunchNotifications, closes) = {}
    /\ \A closes : TasksAt(<< >>, closes) = {}
<1>1. \A i \in DOMAIN LaunchNotifications : LaunchNotifications[i].kind # "token"
  <2>1. CASE LaunchNotifications = << >>
    BY <2>1
  <2>2. CASE LaunchNotifications = <<Notification(authUser)>>
    BY <2>2 DEF Notification
  <2> QED
    BY <2>1, <2>2 DEF LaunchNotifications
<1> HIDE DEF LaunchNotifications
<1> QED
  BY <1>1 DEF BlocksAt, TasksAt

LEMMA OneTokenStep == TypeOK /\ Tokens /\ OneToken /\ [Next]_vars => OneToken'
<1> SUFFICES ASSUME TypeOK, Tokens, OneToken, [Next]_vars PROVE OneToken'
  OBVIOUS
<1>1. CASE ServerAppliesWrite \/ WriteAcknowledged \/ UNCHANGED vars
  <2>1. UNCHANGED <<stream, tokenRequests, workQueue>>
    BY <1>1 DEF ServerAppliesWrite, WriteAcknowledged, vars, sdkVars
  <2>2. \/ mainQueue' = mainQueue
        \/ \E e \in Blocks : e.kind # "token" /\ mainQueue' = Append(mainQueue, e)
    <3>1. CASE WriteAcknowledged
      <4>1. Pipeline # << >> /\ FinishWrite(Head(Pipeline))
        BY <3>1, TypeParts DEF WriteAcknowledged
      <4> QED
        BY <4>1, FinishedType, AreBlocks
    <3>2. CASE ~ WriteAcknowledged
      BY <1>1, <3>2 DEF ServerAppliesWrite, vars
    <3> QED
      BY <3>1, <3>2
  <2> QED
    BY <2>1, <2>2, OneTokenKept
<1>2. ASSUME NEW u \in Users, UpdateCurrentUser(u)
      PROVE  OneToken'
  <2>1. /\ UNCHANGED <<stream, tokenRequests, workQueue>>
        /\ mainQueue' = Append(mainQueue, Notification(u))
    BY <1>2 DEF UpdateCurrentUser, sdkVars
  <2> QED
    BY <2>1, AreBlocks, OneTokenKept
<1>3. ASSUME NEW w \in Writes, MakeWrite(w)
      PROVE  OneToken'
  <2> DEFINE e == [kind |-> "write", write |-> w]
  <2>1. /\ UNCHANGED <<stream, tokenRequests, mainQueue>>
        /\ workQueue' = Append(workQueue, e)
    BY <1>3 DEF MakeWrite, sdkVars
  <2>2. e \in Tasks /\ e.kind = "write"
    BY DEF Tasks
  <2> HIDE DEF e
  <2> QED
    BY <2>1, <2>2, OneTokenKept
<1>4. CASE Restart
  <2>1. /\ mainQueue' = LaunchNotifications /\ workQueue' = << >>
        /\ \/ tokenRequests' = {}
           \/ /\ tokenRequests' = {[counter |-> 0, closes |-> 0, user |-> Unread]}
              /\ stream'.state = "starting"
    BY <1>4 DEF Restart
  <2>2. \/ RequestsAt(tokenRequests', stream'.closes) = {}
        \/ /\ Single(RequestsAt(tokenRequests', stream'.closes))
           /\ stream'.state = "starting"
    BY <2>1 DEF RequestsAt, Single
  <2> QED
    BY <2>1, <2>2, OneTokenAtLaunch DEF OneToken, OnlyToken, Single
<1> QED
  BY <1>1, <1>2, <1>3, <1>4, OneTokenOfStream, OneTokenRead, OneTokenRunBlock, OneTokenRunTask
     DEF Next, Network

(* The assertion of ResumeStartWithCredentials (stream.cc:125) holds: a    *)
(* token of the current close count finds the stream waiting for it.       *)
THEOREM TokensAreAlwaysAwaited == Spec => []TokensAreAwaited
<1>1. Init => OneToken
  <2> SUFFICES ASSUME Init PROVE OneToken
    OBVIOUS
  <2>1. tokenRequests = {} /\ mainQueue = LaunchNotifications /\ workQueue = << >>
    BY DEF Init
  <2> QED
    BY <2>1, OneTokenAtLaunch DEF OneToken, OnlyToken, Single, RequestsAt
<1>2. Inv /\ OneToken /\ [Next]_vars => OneToken'
  BY OneTokenStep DEF Inv
<1>3. Inv /\ OneToken => TokensAreAwaited
  <2> SUFFICES ASSUME Inv, OneToken, workQueue # << >>, Head(workQueue).kind = "token",
                      Head(workQueue).closes = stream.closes
               PROVE  stream.state = "starting"
    BY DEF TokensAreAwaited
  <2>1. 1 \in DOMAIN workQueue /\ Head(workQueue) = workQueue[1]
    BY TypeParts, TailElements DEF Inv
  <2>2. 1 \in TasksAt(workQueue, stream.closes)
    BY <2>1 DEF TasksAt
  <2> QED
    BY <2>2 DEF OneToken, OnlyToken
<1> QED
  BY <1>1, <1>2, <1>3, Invariance, PTL DEF Spec
=============================================================================
