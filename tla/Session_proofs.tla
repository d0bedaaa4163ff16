--------------------------- MODULE Session_proofs ---------------------------
(***************************************************************************)
(* DataCenter, FIRAuth and Firestore agree who is signed in, and screens   *)
(* allow what their user may, for all accounts, calls and dialogs.         *)
(*                                                                         *)
(* SessionAgrees speaks of the empty main queue; the invariant says what   *)
(* the queue will lead to: its last notification names FIRAuth's user, and *)
(* its last handler that tells DataCenter of a user tells it of that one.  *)
(***************************************************************************)
EXTENDS Session, SequenceTheorems, TLAPS

(* A block that is a notification *)
Notifies(block) == block.kind = "notification"

(* A handler that changes user, or records that it is left behind *)
TellsIn(block, calls, passed) ==
    /\ block.kind = "completion" /\ block.ok
    /\ calls[block.call].kind = "login" \/ block.call \notin passed

Tells(block) == TellsIn(block, call, overtaken)

(* Calls with a handler on the queue, or overtaken, have been answered. *)
HandlersAreAnswers ==
    /\ \A i \in DOMAIN mainQueue :
          mainQueue[i].kind = "completion" =>
             /\ mainQueue[i].call \in DOMAIN call
             /\ call[mainQueue[i].call].answered
    /\ \A c \in overtaken : c \in DOMAIN call /\ call[c].answered

(* The last notification names FIRAuth's user. *)
NotificationsEndWell ==
    /\ (\A i \in DOMAIN mainQueue : ~ Notifies(mainQueue[i])) => credUser = authUser
    /\ \A i \in DOMAIN mainQueue :
          /\ Notifies(mainQueue[i])
          /\ \A j \in DOMAIN mainQueue : j > i => ~ Notifies(mainQueue[j])
          => mainQueue[i].user = authUser

(* The last handler that tells DataCenter of a user tells of that one. *)
HandlersEndWell ==
    /\ (\A i \in DOMAIN mainQueue : ~ Tells(mainQueue[i])) => diverged \/ user = authUser
    /\ \A i \in DOMAIN mainQueue :
          /\ Tells(mainQueue[i]) /\ mainQueue[i].call \notin overtaken
          /\ \A j \in DOMAIN mainQueue : j > i => ~ Tells(mainQueue[j])
          => call[mainQueue[i].call].account = authUser

(* ScreensKnowTheirUser, of every dialog *)
ScreensInv ==
    /\ details = "open" => user # Nobody
    /\ \A i \in DOMAIN dialogs : dialogs[i].link /\ ~ late => user = Admin

Answers == HandlersAreAnswers /\ NotificationsEndWell /\ HandlersEndWell

Inv == TypeOK /\ Answers /\ ScreensInv

-----------------------------------------------------------------------------
(* Sequences.                                                              *)

LEMMA AppendedElements ==
    ASSUME NEW S, NEW q \in Seq(S), NEW e \in S
    PROVE  /\ Append(q, e) \in Seq(S) /\ Len(Append(q, e)) = Len(q) + 1
           /\ DOMAIN q = 1 .. Len(q) /\ DOMAIN Append(q, e) = 1 .. Len(q) + 1
           /\ \A i \in 1 .. Len(q) : Append(q, e)[i] = q[i]
           /\ Append(q, e)[Len(q) + 1] = e
  OBVIOUS

LEMMA TwoElements ==
    ASSUME NEW S, NEW q \in Seq(S), NEW e \in S, NEW f \in S
    PROVE  /\ q \o <<e, f>> \in Seq(S) /\ DOMAIN q = 1 .. Len(q) /\ Len(q) \in Nat
           /\ DOMAIN (q \o <<e, f>>) = 1 .. Len(q) + 2
           /\ \A i \in 1 .. Len(q) : (q \o <<e, f>>)[i] = q[i]
           /\ (q \o <<e, f>>)[Len(q) + 1] = e /\ (q \o <<e, f>>)[Len(q) + 2] = f
<1>1. <<e, f>> \in Seq(S) /\ Len(<<e, f>>) = 2 /\ <<e, f>>[1] = e /\ <<e, f>>[2] = f
  OBVIOUS
<1> QED
  BY <1>1

LEMMA TailElements ==
    ASSUME NEW S, NEW q \in Seq(S), q # << >>
    PROVE  /\ Tail(q) \in Seq(S) /\ Head(q) \in S /\ Head(q) = q[1] /\ 1 \in DOMAIN q
           /\ DOMAIN q = 1 .. Len(q) /\ DOMAIN Tail(q) = 1 .. Len(q) - 1
           /\ Len(q) \in Nat \ {0}
           /\ \A i \in 1 .. Len(q) - 1 : Tail(q)[i] = q[i + 1]
           /\ \A i \in 2 .. Len(q) : q[i] = Tail(q)[i - 1]
  OBVIOUS

(* dismiss() leaves a beginning of the stack of dialogs. *)
LEMMA DismissedElements ==
    ASSUME dialogs \in Seq(Dialog), NEW id
    PROVE  /\ Dismissed(id) \in Seq(Dialog) /\ Len(Dismissed(id)) <= Len(dialogs)
           /\ DOMAIN Dismissed(id) \subseteq DOMAIN dialogs
           /\ \A i \in DOMAIN Dismissed(id) : Dismissed(id)[i] = dialogs[i]
<1>1. CASE \E i \in DOMAIN dialogs : dialogs[i].id = id
  <2> DEFINE k == CHOOSE i \in DOMAIN dialogs : dialogs[i].id = id
             n == IF k = Len(dialogs) THEN k - 1 ELSE k
  <2>1. k \in 1 .. Len(dialogs) /\ Len(dialogs) \in Nat
    BY <1>1
  <2>2. n \in 0 .. Len(dialogs)
    BY <2>1
  <2>3. Dismissed(id) = SubSeq(dialogs, 1, n)
    BY <1>1 DEF Dismissed
  <2> HIDE DEF k, n
  <2>4. /\ SubSeq(dialogs, 1, n) \in Seq(Dialog)
        /\ Len(SubSeq(dialogs, 1, n)) = n
        /\ \A i \in 1 .. n : SubSeq(dialogs, 1, n)[i] = dialogs[i]
    BY <2>2
  <2> QED
    BY <2>1, <2>2, <2>3, <2>4
<1>2. CASE ~ \E i \in DOMAIN dialogs : dialogs[i].id = id
  BY <1>2 DEF Dismissed
<1> QED
  BY <1>1, <1>2

-----------------------------------------------------------------------------
(* Types.                                                                  *)

LEMMA BlockFields ==
    ASSUME NEW block \in Blocks
    PROVE  /\ block.kind \in {"notification", "completion"}
           /\ block.kind = "notification" => block.user \in Users
           /\ block.kind = "completion" =>
                 /\ block.call \in Calls /\ block.ok \in BOOLEAN
                 /\ block.ok => block = Completion(block.call, TRUE)
  BY DEF Blocks, Notification, Completion

LEMMA AreBlocks ==
    /\ \A u \in Users : Notification(u) \in Blocks
    /\ \A c \in Calls, ok \in BOOLEAN : Completion(c, ok) \in Blocks
  BY DEF Blocks

LEMMA LaunchIsQueue ==
    ASSUME authUser \in Users
    PROVE  LaunchNotifications \in Seq(Blocks)
  BY AreBlocks DEF LaunchNotifications

LEMMA InitType == Init => TypeOK
<1> SUFFICES ASSUME Init PROVE TypeOK
  OBVIOUS
<1>1. mainQueue \in Seq(Blocks)
  BY LaunchIsQueue DEF Init
<1>2. {user, authUser, credUser} \subseteq Users
  BY DEF Init, Users
<1>3. dialogs \in Seq(Dialog) /\ Len(dialogs) <= 2
  BY DEF Init
<1>4. call \in Seq(Call) /\ Len(call) <= MaxCalls
  BY SessionConstants DEF Init
<1>5. {logoutEnabled, diverged, late} \subseteq BOOLEAN
  BY DEF Init
<1>6. opened \in 0 .. MaxDialogs /\ restarts \in 0 .. MaxRestarts
  BY SessionConstants DEF Init
<1>7. overtaken \subseteq Calls /\ details \in {"closed", "open", "locked"}
  BY DEF Init
<1> QED
  BY <1>1, <1>2, <1>3, <1>4, <1>5, <1>6, <1>7 DEF TypeOK

(* What an answer does to the calls. *)
LEMMA AnsweredCall ==
    ASSUME call \in Seq(Call), NEW c \in DOMAIN call,
           NEW new, new = [call EXCEPT ![c].answered = TRUE]
    PROVE  /\ new \in Seq(Call) /\ Len(new) = Len(call) /\ DOMAIN new = DOMAIN call
           /\ \A d \in DOMAIN call :
                 /\ new[d].kind = call[d].kind
                 /\ new[d].account = call[d].account
                 /\ (new[d].answered <=> d = c \/ call[d].answered)
<1> DEFINE yes(r) == [r EXCEPT !.answered = TRUE]
<1>1. \A r \in Call : /\ yes(r) \in Call /\ yes(r).kind = r.kind
                      /\ yes(r).account = r.account /\ yes(r).answered = TRUE
  BY DEF Call
<1>2. /\ DOMAIN new = DOMAIN call
      /\ \A d \in DOMAIN call : new[d] = IF d = c THEN yes(call[c]) ELSE call[d]
  OBVIOUS
<1>6. new = [d \in DOMAIN call |-> new[d]]
  OBVIOUS
<1> HIDE DEF yes
<1>3. DOMAIN call = 1 .. Len(call) /\ Len(call) \in Nat /\ \A d \in DOMAIN call : call[d] \in Call
  OBVIOUS
<1>4. \A d \in DOMAIN call : new[d] \in Call
  BY <1>1, <1>2, <1>3
<1>5. new \in [1 .. Len(call) -> Call]
  BY <1>2, <1>3, <1>4, <1>6, Zenon
<1>7. new \in Seq(Call) /\ Len(new) = Len(call)
  BY <1>3, <1>5
<1>9. ASSUME NEW d \in DOMAIN call
      PROVE  /\ new[d].kind = call[d].kind
             /\ new[d].account = call[d].account
             /\ new[d].answered <=> d = c \/ call[d].answered
  <2>1. CASE d = c
    BY <2>1, <1>1, <1>2, <1>3
  <2>2. CASE d # c
    BY <2>2, <1>2
  <2> QED
    BY <2>1, <2>2
<1> QED
  BY <1>2, <1>7, <1>9

(* A restart answers them all. *)
LEMMA ForgottenCalls ==
    ASSUME call \in Seq(Call),
           NEW new, new = [c \in DOMAIN call |-> [call[c] EXCEPT !.answered = TRUE]]
    PROVE  new \in Seq(Call) /\ Len(new) = Len(call)
<1>1. \A r \in Call : [r EXCEPT !.answered = TRUE] \in Call
  BY DEF Call
<1>2. DOMAIN call = 1 .. Len(call) /\ Len(call) \in Nat /\ \A c \in DOMAIN call : call[c] \in Call
  OBVIOUS
<1>3. new \in [1 .. Len(call) -> Call]
  BY <1>1, <1>2, Zenon
<1> QED
  BY <1>2, <1>3

LEMMA TypeStep == TypeOK /\ HandlersAreAnswers /\ [Next]_vars => TypeOK'
<1> SUFFICES ASSUME TypeOK, HandlersAreAnswers, [Next]_vars
             PROVE  TypeOK'
  OBVIOUS
<1> USE SessionConstants
<1>1. CASE OpenLogin
  <2>1. opened' \in 1 .. MaxDialogs /\ opened' \in 0 .. MaxDialogs
    BY <1>1 DEF OpenLogin, TypeOK
  <2>2. dialogs' \in Seq(Dialog) /\ Len(dialogs') = 1
    BY <1>1, <2>1 DEF OpenLogin, Dialog
  <2>3. UNCHANGED <<user, logoutEnabled, details, call, authUser, credUser, mainQueue,
                    diverged, overtaken, restarts>> /\ late' = FALSE
    BY <1>1 DEF OpenLogin, OnlyScreens, historyVars
  <2>4. Len(dialogs') <= 2
    BY <2>2
  <2> QED
    BY <2>1, <2>2, <2>3, <2>4 DEF TypeOK
<1>2. CASE OpenSignUp
  <2>1. opened' \in 1 .. MaxDialogs
    BY <1>2 DEF OpenSignUp, TypeOK
  <2>2. dialogs' \in Seq(Dialog) /\ Len(dialogs') = 2
    <3> DEFINE d == [kind |-> "signUp", id |-> opened', link |-> TRUE]
    <3>1. d \in Dialog
      BY <2>1 DEF Dialog
    <3>2. dialogs' = Append(dialogs, d) /\ Len(dialogs) = 1
      BY <1>2 DEF OpenSignUp
    <3> HIDE DEF d
    <3>3. dialogs \in Seq(Dialog)
      BY DEF TypeOK
    <3>4. Append(dialogs, d) \in Seq(Dialog) /\ Len(Append(dialogs, d)) = Len(dialogs) + 1
      BY <3>1, <3>3, AppendedElements
    <3> QED
      BY <3>2, <3>4
  <2>3. UNCHANGED <<user, logoutEnabled, details, call, authUser, credUser, mainQueue,
                    diverged, overtaken, restarts, late>>
    BY <1>2 DEF OpenSignUp, OnlyScreens, historyVars
  <2> QED
    BY <2>1, <2>2, <2>3 DEF TypeOK
<1>3. CASE Cancel
  <2>1. dialogs' \in Seq(Dialog) /\ Len(dialogs') <= 2
    BY <1>3, DismissedElements DEF Cancel, TypeOK
  <2> QED
    BY <1>3, <2>1 DEF Cancel, TypeOK, OnlyScreens, historyVars
<1>4. CASE SelectRow \/ GoBack
  BY <1>4 DEF SelectRow, GoBack, TypeOK, OnlyScreens, historyVars
<1>5. ASSUME NEW account \in Accounts, Submit(account)
      PROVE  TypeOK'
  <2>1. Last(dialogs) \in Dialog
    BY <1>5 DEF Submit, TypeOK, Last
  <2>2. call' \in Seq(Call) /\ Len(call') <= MaxCalls
    BY <1>5, <2>1 DEF Submit, TypeOK, Dialog, Call
  <2> QED
    BY <1>5, <2>2 DEF Submit, TypeOK, screenVars, historyVars
<1>6. ASSUME NEW c \in Calls, SignedIn(c)
      PROVE  TypeOK'
  <2>1. c \in DOMAIN call
    BY <1>6 DEF SignedIn, IsUnderWay
  <2>2. call \in Seq(Call) /\ call' = [call EXCEPT ![c].answered = TRUE]
    BY <1>6 DEF SignedIn, TypeOK
  <2>3. call' \in Seq(Call) /\ Len(call') = Len(call)
    BY <2>1, <2>2, AnsweredCall
  <2>4. authUser' = call[c].account /\ authUser' \in Users
    <3>1. call[c] \in Call
      BY <2>1, <2>2
    <3>2. authUser' = call[c].account
      BY <1>6 DEF SignedIn
    <3> QED
      BY <3>1, <3>2 DEF Call, Users
  <2>5. mainQueue' \in Seq(Blocks)
    <3>1. mainQueue' = mainQueue \o <<Notification(authUser'), Completion(c, TRUE)>>
      BY <1>6 DEF SignedIn
    <3>2. Notification(authUser') \in Blocks /\ Completion(c, TRUE) \in Blocks
      BY <1>6, <2>4, AreBlocks
    <3>3. mainQueue \in Seq(Blocks)
      BY DEF TypeOK
    <3> QED
      BY <3>1, <3>2, <3>3, TwoElements
  <2>6. UNCHANGED <<user, logoutEnabled, details, dialogs, opened, late, credUser, diverged,
                    overtaken, restarts>>
    BY <1>6 DEF SignedIn, screenVars, historyVars
  <2> QED
    BY <2>3, <2>4, <2>5, <2>6 DEF TypeOK
<1>7. ASSUME NEW c \in Calls, Refused(c)
      PROVE  TypeOK'
  <2>1. /\ c \in DOMAIN call /\ call \in Seq(Call)
        /\ call' = [call EXCEPT ![c].answered = TRUE]
    BY <1>7 DEF Refused, IsUnderWay, TypeOK
  <2>2. call' \in Seq(Call) /\ Len(call') = Len(call)
    BY <2>1, AnsweredCall
  <2>3. mainQueue' \in Seq(Blocks)
    <3>1. mainQueue' = Append(mainQueue, Completion(c, FALSE))
      BY <1>7 DEF Refused
    <3>2. mainQueue \in Seq(Blocks) /\ Completion(c, FALSE) \in Blocks
      BY <1>7, AreBlocks DEF TypeOK
    <3> QED
      BY <3>1, <3>2, AppendedElements
  <2>4. UNCHANGED <<user, logoutEnabled, details, dialogs, opened, late, authUser, credUser,
                    diverged, overtaken, restarts>>
    BY <1>7 DEF Refused, screenVars, historyVars
  <2> QED
    BY <2>2, <2>3, <2>4 DEF TypeOK
<1>8. CASE Logout
  <2>1. mainQueue' \in Seq(Blocks)
    <3>1. mainQueue' \in {mainQueue, Append(mainQueue, Notification(Nobody))}
      BY <1>8 DEF Logout
    <3>2. mainQueue \in Seq(Blocks) /\ Notification(Nobody) \in Blocks
      BY AreBlocks DEF TypeOK, Users
    <3> QED
      BY <3>1, <3>2, AppendedElements
  <2>2. overtaken' \subseteq Calls
    <3>1. overtaken' \subseteq DOMAIN call
      BY <1>8 DEF Logout
    <3> QED
      BY <3>1 DEF TypeOK, Calls
  <2>3. /\ UNCHANGED <<details, dialogs, opened, late, call, credUser, restarts>>
        /\ user' = Nobody /\ authUser' = Nobody /\ logoutEnabled' = FALSE /\ diverged' = FALSE
    BY <1>8 DEF Logout, screenVars
  <2> QED
    BY <2>1, <2>2, <2>3 DEF TypeOK, Users
<1>9. CASE RunBlock
  <2> DEFINE block == Head(mainQueue)
  <2>1. /\ block \in Blocks /\ mainQueue' \in Seq(Blocks)
        /\ 1 \in DOMAIN mainQueue /\ block = mainQueue[1]
    BY <1>9, TailElements DEF RunBlock, TypeOK
  <2>5. UNCHANGED <<details, opened, call, authUser, overtaken, restarts>>
    BY <1>9 DEF RunBlock
  <2>2. CASE block.kind = "notification" /\ credUser' = block.user
             /\ UNCHANGED <<user, logoutEnabled, dialogs, late, diverged>>
    BY <2>1, <2>2, <2>5, BlockFields DEF TypeOK
  <2>3. CASE block.kind = "completion" /\ LoginCompleted(block.call, block.ok)
             /\ UNCHANGED credUser
    <3>1. block.call \in DOMAIN call
      BY <2>1, <2>3 DEF HandlersAreAnswers
    <3>2. call[block.call].account \in Users
      <4>1. call[block.call] \in Call
        BY <3>1 DEF TypeOK
      <4> QED
        BY <4>1 DEF Call, Users
    <3>3. dialogs' \in Seq(Dialog) /\ Len(dialogs') <= 2
      BY <2>3, DismissedElements DEF LoginCompleted, TypeOK
    <3>4. late' \in BOOLEAN /\ diverged' \in BOOLEAN
      <4>1. CASE block.ok
        BY <2>3, <4>1 DEF LoginCompleted, TypeOK
      <4>2. CASE ~ block.ok
        BY <2>3, <4>2 DEF LoginCompleted, TypeOK
      <4> QED
        BY <4>1, <4>2
    <3>5. user' \in Users /\ logoutEnabled' \in BOOLEAN
      BY <2>3, <3>2 DEF LoginCompleted, TypeOK
    <3> QED
      BY <2>1, <2>3, <2>5, <3>3, <3>4, <3>5 DEF TypeOK
  <2>4. CASE block.kind = "completion" /\ SignUpCompleted(block.call, block.ok)
             /\ UNCHANGED credUser
    <3>1. dialogs' \in Seq(Dialog) /\ Len(dialogs') <= 2
      BY <2>4, DismissedElements DEF SignUpCompleted, TypeOK
    <3>2. diverged' \in BOOLEAN /\ UNCHANGED <<user, logoutEnabled, late>>
      BY <2>4 DEF SignUpCompleted, TypeOK
    <3> QED
      BY <2>1, <2>4, <2>5, <3>1, <3>2 DEF TypeOK
  <2> QED
    BY <1>9, <2>2, <2>3, <2>4 DEF RunBlock
<1>10. CASE Restart
  <2>1. call' \in Seq(Call) /\ Len(call') = Len(call)
    <3>1. call' = [c \in DOMAIN call |-> [call[c] EXCEPT !.answered = TRUE]]
      BY <1>10 DEF Restart
    <3> QED
      BY <3>1, ForgottenCalls DEF TypeOK
  <2>2. mainQueue' \in Seq(Blocks)
    BY <1>10, LaunchIsQueue DEF Restart, TypeOK
  <2>3. restarts' \in 0 .. MaxRestarts /\ credUser' \in Users
    BY <1>10 DEF Restart, TypeOK, Users
  <2>4. /\ user' = Nobody /\ logoutEnabled' = FALSE /\ details' = "closed"
        /\ dialogs' = << >> /\ late' = FALSE /\ diverged' \in BOOLEAN /\ overtaken' = {}
        /\ UNCHANGED <<opened, authUser>>
    BY <1>10 DEF Restart
  <2>5. dialogs' \in Seq(Dialog) /\ Len(dialogs') <= 2
    BY <2>4
  <2> QED
    BY <2>1, <2>2, <2>3, <2>4, <2>5 DEF TypeOK, Users
<1>11. CASE UNCHANGED vars
  BY <1>11 DEF vars, TypeOK, screenVars, historyVars
<1> QED
  BY <1>1, <1>2, <1>3, <1>4, <1>5, <1>6, <1>7, <1>8, <1>9, <1>10, <1>11 DEF Next

-----------------------------------------------------------------------------
(* What the queue leads to.                                                *)

LEMMA AnswersUnchanged ==
    ASSUME Answers,
           UNCHANGED <<mainQueue, call, overtaken, credUser, authUser, user, diverged>>
    PROVE  Answers'
  BY DEF Answers, HandlersAreAnswers, NotificationsEndWell, HandlersEndWell, Tells, TellsIn,
         Notifies

(* A call that is made tells nobody of anything yet. *)
LEMMA AnswersSubmit ==
    ASSUME TypeOK, Answers, NEW account \in Accounts, Submit(account)
    PROVE  Answers'
<1>1. /\ UNCHANGED <<mainQueue, overtaken, credUser, authUser, user, diverged>>
      /\ DOMAIN call \subseteq DOMAIN call'
      /\ \A c \in DOMAIN call : call'[c] = call[c]
  <2>1. PICK e : call' = Append(call, e)
    BY DEF Submit
  <2>2. /\ DOMAIN call \subseteq DOMAIN call'
        /\ \A c \in DOMAIN call : call'[c] = call[c]
    BY <2>1 DEF TypeOK
  <2> QED
    BY <2>2 DEF Submit, historyVars
<1>2. \A i \in DOMAIN mainQueue : Tells(mainQueue[i])' <=> Tells(mainQueue[i])
  BY <1>1 DEF Answers, HandlersAreAnswers, Tells, TellsIn
<1>3. HandlersAreAnswers'
  BY <1>1 DEF Answers, HandlersAreAnswers
<1>4. NotificationsEndWell'
  BY <1>1 DEF Answers, NotificationsEndWell, Notifies
<1>5. HandlersEndWell'
  <2>1. \A i \in DOMAIN mainQueue :
           Tells(mainQueue[i]) => mainQueue[i].call \in DOMAIN call
    BY DEF Tells, TellsIn, Answers, HandlersAreAnswers
  <2> QED
    BY <1>1, <1>2, <2>1 DEF Answers, HandlersEndWell
<1> QED
  BY <1>3, <1>4, <1>5 DEF Answers

(* An answer is the first its call gets, so it is not overtaken. *)
LEMMA FirstAnswer ==
    ASSUME TypeOK, Answers, NEW c \in Calls, IsUnderWay(c),
           call' = [call EXCEPT ![c].answered = TRUE], overtaken' = overtaken
    PROVE  /\ c \in DOMAIN call /\ c \notin overtaken
           /\ DOMAIN call' = DOMAIN call /\ call'[c].answered
           /\ \A d \in DOMAIN call : /\ call'[d].kind = call[d].kind
                                     /\ call'[d].account = call[d].account
                                     /\ call[d].answered => call'[d].answered
           /\ \A i \in DOMAIN mainQueue : LET block == mainQueue[i] IN
                 /\ block.kind = "completion" =>
                       block.call \in DOMAIN call /\ call'[block.call].answered
                 /\ TellsIn(block, call', overtaken) <=> Tells(block)
           /\ \A d \in overtaken : d \in DOMAIN call /\ call'[d].answered
<1>1. c \in DOMAIN call /\ ~ call[c].answered
  BY DEF IsUnderWay
<1>2. /\ DOMAIN call' = DOMAIN call
      /\ \A d \in DOMAIN call : /\ call'[d].kind = call[d].kind
                                /\ call'[d].account = call[d].account
                                /\ call'[d].answered <=> d = c \/ call[d].answered
  BY <1>1, AnsweredCall DEF TypeOK
<1> QED
  BY <1>1, <1>2 DEF Answers, HandlersAreAnswers, Tells, TellsIn

LEMMA AnswersSignedIn ==
    ASSUME TypeOK, TypeOK', Answers, NEW c \in Calls, SignedIn(c)
    PROVE  Answers'
<1> DEFINE q == mainQueue
           n == Len(mainQueue)
           told == Notification(authUser')
           done == Completion(c, TRUE)
<1>1. /\ IsUnderWay(c) /\ call' = [call EXCEPT ![c].answered = TRUE]
      /\ authUser' = call[c].account
      /\ UNCHANGED <<user, credUser, diverged, overtaken>>
  BY DEF SignedIn, historyVars
<1>2. /\ n \in Nat /\ DOMAIN q = 1 .. n /\ DOMAIN mainQueue' = 1 .. n + 2
      /\ \A i \in 1 .. n : mainQueue'[i] = q[i]
      /\ mainQueue'[n + 1] = told /\ mainQueue'[n + 2] = done
  <2>1. told \in Blocks /\ done \in Blocks
    BY AreBlocks DEF TypeOK
  <2>2. mainQueue' = mainQueue \o <<told, done>>
    BY DEF SignedIn
  <2> HIDE DEF told, done
  <2> QED
    BY <2>1, <2>2, TwoElements DEF TypeOK
<1>3. /\ told.kind = "notification" /\ told.user = authUser'
      /\ done.kind = "completion" /\ done.call = c /\ done.ok
  BY DEF Notification, Completion
<1>4. /\ c \in DOMAIN call /\ c \notin overtaken
      /\ DOMAIN call' = DOMAIN call /\ call'[c].answered
      /\ call'[c].account = call[c].account
      /\ \A d \in overtaken : d \in DOMAIN call /\ call'[d].answered
  BY <1>1, FirstAnswer
<1>5. \A i \in 1 .. n :
         q[i].kind = "completion" => q[i].call \in DOMAIN call /\ call'[q[i].call].answered
  BY <1>1, <1>2, FirstAnswer
<1> HIDE DEF told, done, n
<1>6. HandlersAreAnswers'
  <2>1. \A i \in 1 .. n + 2 : i \in 1 .. n \/ i = n + 1 \/ i = n + 2
    BY <1>2
  <2>2. \A i \in DOMAIN mainQueue' : mainQueue'[i].kind = "completion" =>
           /\ mainQueue'[i].call \in DOMAIN call'
           /\ call'[mainQueue'[i].call].answered
    BY <1>2, <1>3, <1>4, <1>5, <2>1
  <2> QED
    BY <1>1, <1>4, <2>2 DEF HandlersAreAnswers
<1>7. NotificationsEndWell'
  <2>1. n + 1 \in DOMAIN mainQueue' /\ Notifies(mainQueue'[n + 1])
    BY <1>2, <1>3 DEF Notifies
  <2>2. ~ Notifies(mainQueue'[n + 2])
    BY <1>2, <1>3 DEF Notifies
  <2>3. ASSUME NEW i \in DOMAIN mainQueue', Notifies(mainQueue'[i]),
               \A j \in DOMAIN mainQueue' : j > i => ~ Notifies(mainQueue'[j])
        PROVE  mainQueue'[i].user = authUser'
    <3>1. i = n + 1
      BY <1>2, <2>1, <2>2, <2>3
    <3> QED
      BY <3>1, <1>2, <1>3
  <2> QED
    BY <2>1, <2>3 DEF NotificationsEndWell, Notifies
<1>8. HandlersEndWell'
  <2>1. n + 2 \in DOMAIN mainQueue' /\ TellsIn(mainQueue'[n + 2], call', overtaken')
    BY <1>1, <1>2, <1>3, <1>4 DEF TellsIn
  <2>2. ASSUME NEW i \in DOMAIN mainQueue',
               \A j \in DOMAIN mainQueue' : j > i => ~ TellsIn(mainQueue'[j], call', overtaken')
        PROVE  call'[mainQueue'[i].call].account = authUser'
    <3>1. i = n + 2
      BY <1>2, <2>1, <2>2
    <3> QED
      BY <3>1, <1>1, <1>2, <1>3, <1>4
  <2> QED
    BY <2>1, <2>2 DEF HandlersEndWell, Tells
<1> QED
  BY <1>6, <1>7, <1>8 DEF Answers

LEMMA AnswersRefused ==
    ASSUME TypeOK, Answers, NEW c \in Calls, Refused(c)
    PROVE  Answers'
<1> DEFINE q == mainQueue
           n == Len(mainQueue)
           done == Completion(c, FALSE)
           T(block) == TellsIn(block, call', overtaken')
<1>1. /\ IsUnderWay(c) /\ call' = [call EXCEPT ![c].answered = TRUE]
      /\ UNCHANGED <<user, authUser, credUser, diverged, overtaken>>
  BY DEF Refused, historyVars
<1>2. /\ n \in Nat /\ DOMAIN q = 1 .. n /\ DOMAIN mainQueue' = 1 .. n + 1
      /\ \A i \in 1 .. n : mainQueue'[i] = q[i]
      /\ mainQueue'[n + 1] = done
  <2>1. done \in Blocks
    BY AreBlocks
  <2>2. mainQueue' = Append(mainQueue, done)
    BY DEF Refused
  <2> HIDE DEF done
  <2> QED
    BY <2>1, <2>2, AppendedElements DEF TypeOK
<1>3. done.kind = "completion" /\ done.call = c /\ ~ done.ok
  BY DEF Completion
<1>4. /\ c \in DOMAIN call /\ DOMAIN call' = DOMAIN call /\ call'[c].answered
      /\ \A d \in DOMAIN call : call'[d].account = call[d].account
      /\ \A d \in overtaken : d \in DOMAIN call /\ call'[d].answered
  BY <1>1, FirstAnswer
<1>5. \A i \in 1 .. n :
         /\ q[i].kind = "completion" =>
               q[i].call \in DOMAIN call /\ call'[q[i].call].answered
         /\ TellsIn(q[i], call', overtaken) <=> Tells(q[i])
  BY <1>1, <1>2, FirstAnswer
<1>9. \A i \in 1 .. n + 1 : i \in 1 .. n \/ i = n + 1
  BY <1>2
<1> HIDE DEF done, n
<1>6. HandlersAreAnswers'
  <2>1. \A i \in DOMAIN mainQueue' : mainQueue'[i].kind = "completion" =>
           /\ mainQueue'[i].call \in DOMAIN call'
           /\ call'[mainQueue'[i].call].answered
    BY <1>2, <1>3, <1>4, <1>5, <1>9
  <2> QED
    BY <1>1, <1>4, <2>1 DEF HandlersAreAnswers
<1>7. NotificationsEndWell'
  <2>1. ~ Notifies(mainQueue'[n + 1])
    BY <1>2, <1>3 DEF Notifies
  <2>2. \A i \in 1 .. n : i \in DOMAIN mainQueue /\ i \in DOMAIN mainQueue'
    BY <1>2
  <2>3. (\A i \in DOMAIN mainQueue' : ~ Notifies(mainQueue'[i])) => credUser' = authUser'
    BY <1>1, <1>2, <2>2 DEF Answers, NotificationsEndWell
  <2>4. ASSUME NEW i \in DOMAIN mainQueue', Notifies(mainQueue'[i]),
               \A j \in DOMAIN mainQueue' : j > i => ~ Notifies(mainQueue'[j])
        PROVE  mainQueue'[i].user = authUser'
    <3>1. i \in 1 .. n
      BY <1>2, <1>9, <2>1, <2>4
    <3>2. Notifies(q[i]) /\ \A j \in DOMAIN q : j > i => ~ Notifies(q[j])
      BY <1>2, <2>2, <2>4, <3>1
    <3> QED
      BY <1>1, <1>2, <2>2, <3>1, <3>2 DEF Answers, NotificationsEndWell
  <2> QED
    BY <2>3, <2>4 DEF NotificationsEndWell, Notifies
<1>8. HandlersEndWell'
  <2>1. ~ T(mainQueue'[n + 1])
    BY <1>2, <1>3 DEF TellsIn
  <2>2. \A i \in 1 .. n : /\ i \in DOMAIN mainQueue /\ i \in DOMAIN mainQueue'
                          /\ T(mainQueue'[i]) <=> Tells(q[i])
    BY <1>1, <1>2, <1>5 DEF TellsIn
  <2> HIDE DEF T
  <2>3. (\A i \in DOMAIN mainQueue' : ~ T(mainQueue'[i])) => diverged' \/ user' = authUser'
    BY <1>1, <1>2, <2>2 DEF Answers, HandlersEndWell
  <2>4. ASSUME NEW i \in DOMAIN mainQueue', T(mainQueue'[i]),
               mainQueue'[i].call \notin overtaken',
               \A j \in DOMAIN mainQueue' : j > i => ~ T(mainQueue'[j])
        PROVE  call'[mainQueue'[i].call].account = authUser'
    <3>1. i \in 1 .. n
      BY <1>2, <1>9, <2>1, <2>4
    <3>2. Tells(q[i]) /\ \A j \in DOMAIN q : j > i => ~ Tells(q[j])
      BY <1>2, <2>2, <2>4, <3>1
    <3>3. q[i].call \in DOMAIN call
      BY <1>5, <3>1, <3>2 DEF Tells, TellsIn
    <3>4. call[q[i].call].account = authUser
      BY <1>1, <1>2, <2>2, <2>4, <3>1, <3>2 DEF Answers, HandlersEndWell
    <3> QED
      BY <1>1, <1>2, <1>4, <3>1, <3>3, <3>4
  <2>5. \A i \in DOMAIN mainQueue' :
           /\ T(mainQueue'[i]) /\ mainQueue'[i].call \notin overtaken'
           /\ \A j \in DOMAIN mainQueue' : j > i => ~ T(mainQueue'[j])
           => call'[mainQueue'[i].call].account = authUser'
    BY <2>4, Zenon
  <2>6. \A block : T(block) <=> Tells(block)'
    BY DEF Tells, T
  <2> QED
    BY <2>3, <2>5, <2>6 DEF HandlersEndWell
<1> QED
  BY <1>6, <1>7, <1>8 DEF Answers

(* Every success still on the queue is overtaken by a logout. *)
LEMMA AnswersLogout ==
    ASSUME TypeOK, Answers, Logout
    PROVE  Answers'
<1> DEFINE q == mainQueue
           n == Len(mainQueue)
<1>1. /\ user' = Nobody /\ authUser' = Nobody /\ diverged' = FALSE
      /\ UNCHANGED <<call, credUser>>
      /\ overtaken' = {c \in DOMAIN call : IsQueued(Completion(c, TRUE))}
      /\ IF authUser = Nobody THEN mainQueue' = mainQueue
         ELSE mainQueue' = Append(mainQueue, Notification(Nobody))
  BY DEF Logout
<1>2. DOMAIN q = 1 .. n /\ n \in Nat /\ \A i \in DOMAIN q : q[i] \in Blocks
  BY DEF TypeOK
<1>4. authUser # Nobody =>
         /\ DOMAIN mainQueue' = 1 .. n + 1
         /\ \A i \in 1 .. n : mainQueue'[i] = q[i]
         /\ mainQueue'[n + 1] = Notification(Nobody)
  <2>1. Notification(Nobody) \in Blocks
    BY AreBlocks DEF Users
  <2> QED
    BY <1>1, <2>1, AppendedElements DEF TypeOK
<1>5. /\ Notification(Nobody).kind = "notification" /\ Notification(Nobody).user = Nobody
  BY DEF Notification
<1> HIDE DEF n
<1>6. \A i \in DOMAIN mainQueue' :
         \/ i \in DOMAIN q /\ mainQueue'[i] = q[i]
         \/ i = n + 1 /\ mainQueue'[i] = Notification(Nobody) /\ authUser # Nobody
  BY <1>1, <1>2, <1>4
<1>7. HandlersAreAnswers'
  <2>1. \A c \in overtaken' : c \in DOMAIN call /\ call[c].answered
    <3> TAKE c \in overtaken'
    <3>1. PICK i \in DOMAIN q : q[i] = Completion(c, TRUE)
      BY <1>1 DEF IsQueued
    <3>2. q[i].kind = "completion" /\ q[i].call = c
      BY <3>1 DEF Completion
    <3> QED
      BY <3>2 DEF Answers, HandlersAreAnswers
  <2> QED
    BY <1>1, <1>5, <1>6, <2>1 DEF Answers, HandlersAreAnswers
<1>8. NotificationsEndWell'
  <2>1. CASE authUser = Nobody
    BY <1>1, <2>1 DEF Answers, NotificationsEndWell, Notifies
  <2>2. CASE authUser # Nobody
    <3>1. n + 1 \in DOMAIN mainQueue' /\ Notifies(mainQueue'[n + 1])
      BY <1>2, <1>4, <1>5, <2>2 DEF Notifies
    <3>2. ASSUME NEW i \in DOMAIN mainQueue',
                 \A j \in DOMAIN mainQueue' : j > i => ~ Notifies(mainQueue'[j])
          PROVE  mainQueue'[i].user = authUser'
      <4>1. i = n + 1
        BY <1>2, <1>4, <2>2, <3>1, <3>2
      <4> QED
        BY <1>1, <1>4, <1>5, <2>2, <4>1
    <3> QED
      BY <3>1, <3>2 DEF NotificationsEndWell, Notifies
  <2> QED
    BY <2>1, <2>2
<1>9. HandlersEndWell'
  <2>1. ASSUME NEW i \in DOMAIN mainQueue', TellsIn(mainQueue'[i], call', overtaken')
        PROVE  mainQueue'[i].call \in overtaken'
    <3>1. mainQueue'[i].kind = "completion" /\ mainQueue'[i].ok
      BY <2>1 DEF TellsIn
    <3>2. i \in DOMAIN q /\ mainQueue'[i] = q[i]
      BY <1>5, <1>6, <3>1
    <3>3. q[i] = Completion(q[i].call, TRUE)
      BY <1>2, <3>1, <3>2, BlockFields
    <3>4. q[i].call \in DOMAIN call
      BY <3>1, <3>2 DEF Answers, HandlersAreAnswers
    <3> QED
      BY <1>1, <3>2, <3>3, <3>4 DEF IsQueued
  <2> QED
    BY <1>1, <2>1 DEF HandlersEndWell, Tells
<1> QED
  BY <1>7, <1>8, <1>9 DEF Answers

(* The head of the queue leaves it, the others move up. *)
LEMMA AnswersRunBlock ==
    ASSUME TypeOK, Answers, RunBlock
    PROVE  Answers'
<1> DEFINE q == mainQueue
           n == Len(mainQueue)
           block == Head(mainQueue)
<1>1. /\ UNCHANGED <<call, authUser, overtaken>>
      /\ mainQueue # << >> /\ mainQueue' = Tail(mainQueue)
  BY DEF RunBlock
<1>2. /\ block \in Blocks /\ block = q[1] /\ 1 \in DOMAIN q
      /\ n \in Nat \ {0} /\ DOMAIN q = 1 .. n /\ DOMAIN mainQueue' = 1 .. n - 1
      /\ \A i \in 1 .. n - 1 : mainQueue'[i] = q[i + 1]
      /\ \A i \in 2 .. n : q[i] = mainQueue'[i - 1]
  BY <1>1, TailElements DEF TypeOK
<1> HIDE DEF n
<1>3. /\ \A i \in DOMAIN mainQueue' : /\ i + 1 \in DOMAIN q /\ mainQueue'[i] = q[i + 1]
                                      /\ i \in Nat
      /\ \A j \in DOMAIN q : /\ j \in Nat
                             /\ j # 1 => j - 1 \in DOMAIN mainQueue' /\ q[j] = mainQueue'[j - 1]
  BY <1>2
<1>4. \/ /\ block.kind = "notification" /\ credUser' = block.user
         /\ UNCHANGED <<user, diverged>>
      \/ /\ block.kind = "completion" /\ credUser' = credUser
         /\ \/ /\ call[block.call].kind = "login"
               /\ LoginCompleted(block.call, block.ok)
            \/ /\ call[block.call].kind # "login"
               /\ SignUpCompleted(block.call, block.ok)
  BY DEF RunBlock
<1> HIDE DEF block
<1>5. HandlersAreAnswers'
  BY <1>1, <1>3 DEF Answers, HandlersAreAnswers
<1>6. NotificationsEndWell'
  <2>1. ASSUME \A i \in DOMAIN mainQueue' : ~ Notifies(mainQueue'[i])
        PROVE  credUser' = authUser'
    <3>1. \A j \in DOMAIN q : j # 1 => ~ Notifies(q[j])
      BY <1>3, <2>1
    <3>2. CASE block.kind = "notification"
      <4>1. block.user = authUser
        <5>1. Notifies(q[1])
          BY <1>2, <3>2 DEF Notifies
        <5>2. \A j \in DOMAIN q : j > 1 => ~ Notifies(q[j])
          BY <1>3, <3>1
        <5> QED
          BY <1>2, <5>1, <5>2 DEF Answers, NotificationsEndWell
      <4> QED
        BY <1>1, <1>4, <3>2, <4>1
    <3>3. CASE block.kind # "notification"
      <4>1. \A j \in DOMAIN q : ~ Notifies(q[j])
        BY <1>2, <3>1, <3>3 DEF Notifies
      <4> QED
        BY <1>1, <1>4, <3>3, <4>1 DEF Answers, NotificationsEndWell
    <3> QED
      BY <3>2, <3>3
  <2>2. ASSUME NEW i \in DOMAIN mainQueue', Notifies(mainQueue'[i]),
               \A j \in DOMAIN mainQueue' : j > i => ~ Notifies(mainQueue'[j])
        PROVE  mainQueue'[i].user = authUser'
    <3>1. i + 1 \in DOMAIN q /\ Notifies(q[i + 1]) /\ mainQueue'[i] = q[i + 1] /\ i \in Nat
      BY <1>3, <2>2
    <3>2. ASSUME NEW j \in DOMAIN q, j > i + 1 PROVE ~ Notifies(q[j])
      <4>1. j # 1 /\ j - 1 > i
        BY <1>3, <3>1, <3>2
      <4> QED
        BY <1>3, <2>2, <4>1
    <3>3. q[i + 1].user = authUser
      BY <3>1, <3>2 DEF Answers, NotificationsEndWell
    <3> QED
      BY <1>1, <3>1, <3>3
  <2> QED
    BY <2>1, <2>2 DEF NotificationsEndWell, Notifies
<1>7. HandlersEndWell'
  <2>1. ASSUME \A i \in DOMAIN mainQueue' : ~ Tells(mainQueue'[i])
        PROVE  diverged' \/ user' = authUser'
    <3>1. \A j \in DOMAIN q : j # 1 => ~ Tells(q[j])
      BY <1>3, <2>1
    <3>2. CASE ~ Tells(block)
      <4>1. diverged \/ user = authUser
        <5>1. \A j \in DOMAIN q : ~ Tells(q[j])
          BY <1>2, <3>1, <3>2
        <5> QED
          BY <5>1 DEF Answers, HandlersEndWell
      <4>2. user' = user /\ (diverged => diverged')
        BY <1>4, <3>2 DEF Tells, TellsIn, LoginCompleted, SignUpCompleted
      <4> QED
        BY <1>1, <4>1, <4>2
    <3>3. CASE Tells(block)
      <4>1. block.call \notin overtaken => call[block.call].account = authUser
        <5>1. Tells(q[1]) /\ \A j \in DOMAIN q : j > 1 => ~ Tells(q[j])
          BY <1>2, <1>3, <3>1, <3>3
        <5> QED
          BY <1>2, <5>1 DEF Answers, HandlersEndWell
      <4>2. /\ block.kind = "completion" /\ block.ok
            /\ call[block.call].kind = "login" \/ block.call \notin overtaken
        BY <3>3 DEF Tells, TellsIn
      <4>3. CASE call[block.call].kind = "login"
        <5>1. user' = call[block.call].account /\ diverged' = (block.call \in overtaken)
          BY <1>4, <4>2, <4>3 DEF LoginCompleted
        <5> QED
          BY <1>1, <4>1, <5>1
      <4>4. CASE call[block.call].kind # "login"
        <5>1. diverged' = (diverged \/ (block.ok /\ block.call \notin overtaken))
          BY <1>4, <4>2, <4>4 DEF SignUpCompleted
        <5> QED
          BY <4>2, <4>4, <5>1
      <4> QED
        BY <4>3, <4>4
    <3> QED
      BY <3>2, <3>3
  <2>2. ASSUME NEW i \in DOMAIN mainQueue', Tells(mainQueue'[i]),
               mainQueue'[i].call \notin overtaken,
               \A j \in DOMAIN mainQueue' : j > i => ~ Tells(mainQueue'[j])
        PROVE  call[mainQueue'[i].call].account = authUser
    <3>1. i + 1 \in DOMAIN q /\ Tells(q[i + 1]) /\ mainQueue'[i] = q[i + 1] /\ i \in Nat
      BY <1>3, <2>2
    <3>2. ASSUME NEW j \in DOMAIN q, j > i + 1 PROVE ~ Tells(q[j])
      <4>1. j # 1 /\ j - 1 > i
        BY <1>3, <3>1, <3>2
      <4> QED
        BY <1>3, <2>2, <4>1
    <3> QED
      BY <2>2, <3>1, <3>2 DEF Answers, HandlersEndWell
  <2>3. \A b : Tells(b)' <=> Tells(b)
    BY <1>1 DEF Tells, TellsIn
  <2> QED
    BY <1>1, <2>1, <2>2, <2>3 DEF HandlersEndWell
<1> QED
  BY <1>5, <1>6, <1>7 DEF Answers

(* After a launch only FIRAuth's user is told of. *)
LEMMA LaunchElements ==
    /\ authUser = Nobody => DOMAIN LaunchNotifications = {}
    /\ authUser # Nobody => /\ DOMAIN LaunchNotifications = {1}
                            /\ LaunchNotifications[1].kind = "notification"
                            /\ LaunchNotifications[1].user = authUser
<1>1. CASE authUser = Nobody
  BY <1>1 DEF LaunchNotifications
<1>2. CASE authUser # Nobody
  <2>1. LaunchNotifications = <<Notification(authUser)>>
    BY <1>2 DEF LaunchNotifications
  <2>2. /\ DOMAIN <<Notification(authUser)>> = {1}
        /\ <<Notification(authUser)>>[1] = Notification(authUser)
    OBVIOUS
  <2> QED
    BY <1>2, <2>1, <2>2 DEF Notification
<1> QED
  BY <1>1, <1>2

LEMMA AnswersInit == Init => Answers
  BY LaunchElements
  DEF Init, Answers, HandlersAreAnswers, NotificationsEndWell, HandlersEndWell, Tells, TellsIn,
      Notifies

LEMMA AnswersRestart ==
    ASSUME Restart
    PROVE  Answers'
<1>1. /\ mainQueue' = LaunchNotifications /\ credUser' \in {Nobody, authUser}
      /\ authUser' = authUser /\ user' = Nobody /\ overtaken' = {}
      /\ diverged' = (authUser # Nobody)
  BY DEF Restart
<1>2. \A i \in DOMAIN mainQueue' : /\ i = 1 /\ mainQueue'[i].kind = "notification"
                                   /\ mainQueue'[i].user = authUser
  BY <1>1, LaunchElements
<1>3. (\A i \in DOMAIN mainQueue' : mainQueue'[i].kind # "notification") => authUser = Nobody
  BY <1>1, LaunchElements
<1>4. HandlersAreAnswers'
  BY <1>1, <1>2 DEF HandlersAreAnswers
<1>5. NotificationsEndWell'
  BY <1>1, <1>2, <1>3 DEF NotificationsEndWell, Notifies
<1>6. HandlersEndWell'
  BY <1>1, <1>2 DEF HandlersEndWell, Tells, TellsIn
<1> QED
  BY <1>4, <1>5, <1>6 DEF Answers

LEMMA AnswersStep == TypeOK /\ TypeOK' /\ Answers /\ [Next]_vars => Answers'
<1> SUFFICES ASSUME TypeOK, TypeOK', Answers, [Next]_vars PROVE Answers'
  OBVIOUS
<1>1. CASE OpenLogin \/ OpenSignUp \/ Cancel \/ SelectRow \/ GoBack
  <2>1. UNCHANGED <<mainQueue, call, overtaken, credUser, authUser, user, diverged>>
    BY <1>1 DEF OpenLogin, OpenSignUp, Cancel, SelectRow, GoBack, OnlyScreens, historyVars
  <2> QED
    BY <2>1, AnswersUnchanged
<1>2. CASE UNCHANGED vars
  <2>1. UNCHANGED <<mainQueue, call, overtaken, credUser, authUser, user, diverged>>
    BY <1>2 DEF vars, historyVars
  <2> QED
    BY <2>1, AnswersUnchanged
<1> QED
  BY <1>1, <1>2, AnswersSubmit, AnswersSignedIn, AnswersRefused, AnswersLogout,
     AnswersRunBlock, AnswersRestart DEF Next

-----------------------------------------------------------------------------
(* What the screens allow.                                                 *)

LEMMA ScreensStep == TypeOK /\ HandlersAreAnswers /\ ScreensInv /\ [Next]_vars => ScreensInv'
<1> SUFFICES ASSUME TypeOK, HandlersAreAnswers, ScreensInv, [Next]_vars PROVE ScreensInv'
  OBVIOUS
<1>1. CASE OpenLogin
  <2>1. /\ user' = user /\ details' # "open"
        /\ DOMAIN dialogs' = {1} /\ dialogs'[1].link = (user = Admin)
    BY <1>1 DEF OpenLogin, OnList, OnlyScreens
  <2> QED
    BY <2>1 DEF ScreensInv
<1>2. CASE OpenSignUp
  <2>1. user' = user /\ details' = details /\ late' = late
    BY <1>2 DEF OpenSignUp, OnlyScreens
  <2>2. 1 \in DOMAIN dialogs /\ dialogs[1].link
    BY <1>2 DEF OpenSignUp, TypeOK, Last
  <2> QED
    BY <2>1, <2>2 DEF ScreensInv
<1>3. CASE Cancel
  <2>1. user' = user /\ details' = details /\ late' = late
    BY <1>3 DEF Cancel, OnlyScreens
  <2>2. /\ DOMAIN dialogs' \subseteq DOMAIN dialogs
        /\ \A i \in DOMAIN dialogs' : dialogs'[i] = dialogs[i]
    BY <1>3, DismissedElements DEF Cancel, TypeOK
  <2> QED
    BY <2>1, <2>2 DEF ScreensInv
<1>4. CASE SelectRow
  BY <1>4 DEF SelectRow, OnlyScreens, ScreensInv
<1>5. CASE GoBack
  BY <1>5 DEF GoBack, OnlyScreens, ScreensInv
<1>6. CASE \/ \E account \in Accounts : Submit(account)
           \/ \E c \in Calls : SignedIn(c) \/ Refused(c)
  <2>1. UNCHANGED <<user, details, dialogs, late>>
    BY <1>6 DEF Submit, SignedIn, Refused, screenVars
  <2> QED
    BY <2>1 DEF ScreensInv
<1>7. CASE Logout
  BY <1>7 DEF Logout, OnList, screenVars, ScreensInv
<1>8. CASE RunBlock
  <2> DEFINE block == Head(mainQueue)
  <2>1. block = mainQueue[1] /\ 1 \in DOMAIN mainQueue /\ details' = details
    BY <1>8, TailElements DEF RunBlock, TypeOK
  <2>2. \/ UNCHANGED <<user, dialogs, late>>
        \/ block.kind = "completion" /\ block.ok /\ LoginCompleted(block.call, block.ok)
        \/ SignUpCompleted(block.call, block.ok)
    BY <1>8 DEF RunBlock, LoginCompleted
  <2>3. ASSUME block.kind = "completion", block.ok, LoginCompleted(block.call, block.ok)
        PROVE  ScreensInv'
    <3>1. call[block.call].account \in Accounts
      <4>1. call[block.call] \in Call
        BY <2>1, <2>3 DEF HandlersAreAnswers, TypeOK
      <4> QED
        BY <4>1 DEF Call
    <3>2. user' = call[block.call].account /\ late' = (late \/ dialogs' # << >>)
      BY <2>3 DEF LoginCompleted
    <3>3. user' # Nobody
      BY <3>1, <3>2, SessionConstants
    <3>4. late' \/ dialogs' = << >>
      BY <3>2
    <3> QED
      BY <3>3, <3>4 DEF ScreensInv
  <2>4. ASSUME SignUpCompleted(block.call, block.ok)
        PROVE  ScreensInv'
    <3>1. /\ UNCHANGED <<user, late>>
          /\ DOMAIN dialogs' \subseteq DOMAIN dialogs
          /\ \A i \in DOMAIN dialogs' : dialogs'[i] = dialogs[i]
      BY <2>4, DismissedElements DEF SignUpCompleted, TypeOK
    <3> QED
      BY <2>1, <3>1 DEF ScreensInv
  <2>5. ASSUME UNCHANGED <<user, dialogs, late>>
        PROVE  ScreensInv'
    BY <2>1, <2>5 DEF ScreensInv
  <2> QED
    BY <2>2, <2>3, <2>4, <2>5
<1>9. CASE Restart
  BY <1>9 DEF Restart, ScreensInv
<1>10. CASE UNCHANGED vars
  BY <1>10 DEF vars, screenVars, ScreensInv
<1> QED
  BY <1>1, <1>2, <1>3, <1>4, <1>5, <1>6, <1>7, <1>8, <1>9, <1>10 DEF Next

-----------------------------------------------------------------------------
(* Theorems.                                                               *)

LEMMA Invariance == Spec => []Inv
<1>1. Init => Inv
  BY InitType, AnswersInit DEF Inv, Answers, ScreensInv, Init
<1>2. Inv /\ [Next]_vars => Inv'
  BY TypeStep, AnswersStep, ScreensStep DEF Inv, Answers
<1> QED
  BY <1>1, <1>2, PTL DEF Spec

(* The state of the session has its type, whatever is tapped and answered. *)
THEOREM SessionTypeOK == Spec => []TypeOK
<1>1. Inv => TypeOK
  BY DEF Inv
<1> QED
  BY <1>1, Invariance, PTL

(* When everything that was handed to the main queue has run, DataCenter,  *)
(* FIRAuth and Firestore name the same user, but for the recorded cases    *)
(* (DataCenter.swift:225-274), with any number of calls under way.         *)
THEOREM SessionAlwaysAgrees == Spec => []SessionAgrees
<1>1. Inv => SessionAgrees
  BY DEF Inv, Answers, NotificationsEndWell, HandlersEndWell, SessionAgrees
<1> QED
  BY <1>1, Invariance, PTL

(* An open Details screen has a user, and sign-up is open to the admin     *)
(* only, unless a login was answered under another dialog.                 *)
THEOREM ScreensAlwaysKnow == Spec => []ScreensKnowTheirUser
<1>1. Inv => ScreensKnowTheirUser
  <2>1. ASSUME TypeOK, dialogs # << >>
        PROVE  Len(dialogs) \in DOMAIN dialogs /\ Last(dialogs) = dialogs[Len(dialogs)]
    BY <2>1 DEF TypeOK, Last
  <2> QED
    BY <2>1 DEF Inv, ScreensInv, ScreensKnowTheirUser
<1> QED
  BY <1>1, Invariance, PTL
=============================================================================
