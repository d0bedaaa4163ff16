------------------------------- MODULE Session -------------------------------
(***************************************************************************)
(* Login, logout and sign-up: the dialogs, the logout button and the       *)
(* Details screen over DataCenter.user, with FirebaseAuth underneath.      *)
(*                                                                         *)
(* FIRAuth changes its user on a queue of its own and hands a notification *)
(* and the completion handler to the main queue; what the user taps runs   *)
(* between any two of them.  The dialogs can be cancelled while a call is  *)
(* under way, and their buttons tapped again.  A restart forgets the role, *)
(* but FIRAuth restores its user from the keychain.                        *)
(*                                                                         *)
(* The role of an account is a function of its address, so user holds the  *)
(* account whose role DataCenter.user is.                                  *)
(***************************************************************************)
EXTENDS Naturals, Sequences, SequencesExt

CONSTANTS
    Accounts,     \* registered users
    Admin,        \* the one with the address admin@admin.com
    Nobody,       \* no user
    MaxCalls,     \* bound: calls of loginUser and signupUser
    MaxDialogs,   \* bound: dialogs opened
    MaxRestarts   \* bound: times the app is killed

ASSUME SessionConstants ==
    /\ Admin \in Accounts /\ Nobody \notin Accounts
    /\ {MaxCalls, MaxDialogs, MaxRestarts} \subseteq Nat

VARIABLES
    user,           \* DataCenter.user
    logoutEnabled,  \* rightBarButtonItem.isEnabled of the device list
    details,        \* DetailsViewController: "closed", "open", or "locked"
    dialogs,        \* the dialogs presented, the last one on top
    call,           \* the calls of loginUser and signupUser made so far
    authUser,       \* FIRAuth._currentUser
    credUser,       \* the user of the last notification
    mainQueue,      \* blocks given to the main queue
    diverged,       \* history: what happened last leaves user behind authUser
    overtaken,      \* history: calls answered, but not heard of before a logout
    late,           \* history: a login was answered under another dialog
    opened, restarts

screenVars  == <<details, dialogs, opened, late>>
historyVars == <<diverged, overtaken>>
vars == <<user, logoutEnabled, screenVars, call, authUser, credUser, mainQueue,
          historyVars, restarts>>

Users == Accounts \cup {Nobody}

Calls  == 1 .. MaxCalls
Call   == [kind : {"login", "signUp"}, account : Accounts, dialog : 1 .. MaxDialogs,
           answered : BOOLEAN]
Dialog == [kind : {"login", "signUp"}, id : 1 .. MaxDialogs, link : BOOLEAN]

(* Blocks of the main queue; a handler hears of success or of a failure. *)
Notification(u)   == [kind |-> "notification", user |-> u]
Completion(c, ok) == [kind |-> "completion", call |-> c, ok |-> ok]
Blocks ==
    {Notification(u) : u \in Users} \cup {Completion(c, ok) : c \in Calls, ok \in BOOLEAN}

TypeOK ==
    /\ {user, authUser, credUser} \subseteq Users
    /\ {logoutEnabled, diverged, late} \subseteq BOOLEAN
    /\ details \in {"closed", "open", "locked"}
    /\ dialogs \in Seq(Dialog) /\ Len(dialogs) <= 2
    /\ call \in Seq(Call) /\ Len(call) <= MaxCalls
    /\ mainQueue \in Seq(Blocks)
    /\ overtaken \subseteq Calls
    /\ opened \in 0 .. MaxDialogs /\ restarts \in 0 .. MaxRestarts

IsQueued(block) == \E i \in DOMAIN mainQueue : mainQueue[i] = block

IsUnderWay(c) == c \in DOMAIN call /\ ~ call[c].answered

(* FIRAuth restores its user from the keychain and notifies of it. *)
LaunchNotifications ==
    IF authUser = Nobody THEN << >> ELSE <<Notification(authUser)>>

Init ==
    /\ user = Nobody /\ logoutEnabled = FALSE /\ details = "closed"
    /\ dialogs = << >> /\ opened = 0 /\ late = FALSE
    /\ call = << >>
    /\ authUser \in Users /\ credUser \in {Nobody, authUser}
    /\ mainQueue = LaunchNotifications
    /\ diverged = (authUser # Nobody) /\ overtaken = {}
    /\ restarts = 0

-----------------------------------------------------------------------------
(* The screens.                                                            *)

OnList == dialogs = << >> /\ details = "closed"

OnlyScreens ==
    UNCHANGED <<user, logoutEnabled, call, authUser, credUser, mainQueue, historyVars,
                restarts>>

(* Mutant: the link is offered to everyone who is logged in. *)
OpenLoginForAll ==
    /\ OnList /\ opened < MaxDialogs
    /\ opened' = opened + 1
    /\ dialogs' = <<[kind |-> "login", id |-> opened', link |-> user # Nobody]>>
    /\ late' = FALSE
    /\ UNCHANGED details /\ OnlyScreens

(* LoginViewController.viewDidLoad offers the sign-up link to admins. *)
OpenLogin ==
    /\ OnList /\ opened < MaxDialogs
    /\ opened' = opened + 1
    /\ dialogs' = <<[kind |-> "login", id |-> opened', link |-> user = Admin]>>
    /\ late' = FALSE
    /\ UNCHANGED details /\ OnlyScreens

(* Mutant: the link works under an open dialog too. *)
OpenSignUpAgain ==
    /\ dialogs # << >> /\ dialogs[1].link /\ opened < MaxDialogs
    /\ opened' = opened + 1
    /\ dialogs' = Append(dialogs, [kind |-> "signUp", id |-> opened', link |-> TRUE])
    /\ UNCHANGED <<details, late>> /\ OnlyScreens

OpenSignUp ==
    /\ Len(dialogs) = 1 /\ Last(dialogs).link /\ opened < MaxDialogs
    /\ opened' = opened + 1
    /\ dialogs' = Append(dialogs, [kind |-> "signUp", id |-> opened', link |-> TRUE])
    /\ UNCHANGED <<details, late>> /\ OnlyScreens

(* dismiss() of UIKit: a dialog under another one dismisses that one, the  *)
(* top one itself, and one that is gone nothing.                           *)
Dismissed(id) ==
    IF \E i \in DOMAIN dialogs : dialogs[i].id = id
    THEN LET i == CHOOSE i \in DOMAIN dialogs : dialogs[i].id = id
         IN  SubSeq(dialogs, 1, IF i = Len(dialogs) THEN i - 1 ELSE i)
    ELSE dialogs

Cancel ==
    /\ dialogs # << >>
    /\ dialogs' = Dismissed(Last(dialogs).id)
    /\ UNCHANGED <<details, opened, late>> /\ OnlyScreens

(* DetailsViewController.viewDidLoad looks once who is logged in. *)
SelectRow ==
    /\ OnList
    /\ details' = IF user = Nobody THEN "locked" ELSE "open"
    /\ UNCHANGED <<dialogs, opened, late>> /\ OnlyScreens

GoBack ==
    /\ details # "closed"
    /\ details' = "closed"
    /\ UNCHANGED <<dialogs, opened, late>> /\ OnlyScreens

-----------------------------------------------------------------------------
(* Calls and their handlers.                                               *)

(* The button of the dialog on top, which may be tapped again at any time. *)
Submit(account) ==
    /\ dialogs # << >>
    /\ Len(call) < MaxCalls
    /\ Last(dialogs).kind = "signUp" => account # Admin
    /\ call' = Append(call, [kind |-> Last(dialogs).kind, account |-> account,
                             dialog |-> Last(dialogs).id, answered |-> FALSE])
    /\ UNCHANGED <<user, logoutEnabled, screenVars, authUser, credUser, mainQueue,
                   historyVars, restarts>>

(* signIn and createUser both make the account the current user. *)
SignedIn(c) ==
    /\ IsUnderWay(c)
    /\ call' = [call EXCEPT ![c].answered = TRUE]
    /\ authUser' = call[c].account
    /\ mainQueue' = mainQueue \o <<Notification(authUser'), Completion(c, TRUE)>>
    /\ UNCHANGED <<user, logoutEnabled, screenVars, credUser, historyVars, restarts>>

Refused(c) ==
    /\ IsUnderWay(c)
    /\ call' = [call EXCEPT ![c].answered = TRUE]
    /\ mainQueue' = Append(mainQueue, Completion(c, FALSE))
    /\ UNCHANGED <<user, logoutEnabled, screenVars, authUser, credUser, historyVars, restarts>>

(* Mutant: the handler stops if its dialog is gone. *)
LoginCompletedInDialog(c, ok) ==
    IF ok /\ Dismissed(call[c].dialog) # dialogs
    THEN /\ user' = call[c].account
         /\ logoutEnabled' = TRUE
         /\ dialogs' = Dismissed(call[c].dialog)
         /\ late' = (late \/ dialogs' # << >>)
         /\ diverged' = (c \in overtaken)
    ELSE UNCHANGED <<user, logoutEnabled, dialogs, late, diverged>>

(* The completion handler of loginUser, and those of its dialog and of the *)
(* device list.  A failure is only shown.                                  *)
LoginCompleted(c, ok) ==
    IF ok
    THEN /\ user' = call[c].account
         /\ logoutEnabled' = TRUE
         /\ dialogs' = Dismissed(call[c].dialog)
         /\ late' = (late \/ dialogs' # << >>)
         /\ diverged' = (c \in overtaken)
    ELSE UNCHANGED <<user, logoutEnabled, dialogs, late, diverged>>

SignUpCompleted(c, ok) ==
    /\ dialogs' = IF ok THEN Dismissed(call[c].dialog) ELSE dialogs
    /\ diverged' = (diverged \/ (ok /\ c \notin overtaken))
    /\ UNCHANGED <<user, logoutEnabled, late>>

(* Mutant: the role is kept. *)
LogoutKeepingRole ==
    /\ OnList /\ logoutEnabled
    /\ logoutEnabled' = FALSE
    /\ authUser' = Nobody
    /\ mainQueue' = IF authUser = Nobody THEN mainQueue
                    ELSE Append(mainQueue, Notification(Nobody))
    /\ diverged' = FALSE
    /\ overtaken' = {c \in DOMAIN call : IsQueued(Completion(c, TRUE))}
    /\ UNCHANGED <<user, screenVars, call, credUser, restarts>>

(* logoutUser: signOut waits for the queue of FIRAuth, the rest follows    *)
(* at once.                                                                *)
Logout ==
    /\ OnList /\ logoutEnabled
    /\ user' = Nobody /\ logoutEnabled' = FALSE
    /\ authUser' = Nobody
    /\ mainQueue' = IF authUser = Nobody THEN mainQueue
                    ELSE Append(mainQueue, Notification(Nobody))
    /\ diverged' = FALSE
    /\ overtaken' = {c \in DOMAIN call : IsQueued(Completion(c, TRUE))}
    /\ UNCHANGED <<screenVars, call, credUser, restarts>>

RunBlock ==
    /\ mainQueue # << >>
    /\ mainQueue' = Tail(mainQueue)
    /\ LET block == Head(mainQueue) IN
          \/ /\ block.kind = "notification"
             /\ credUser' = block.user
             /\ UNCHANGED <<user, logoutEnabled, dialogs, late, diverged>>
          \/ /\ block.kind = "completion"
             /\ IF call[block.call].kind = "login"
                THEN LoginCompleted(block.call, block.ok)
                ELSE SignUpCompleted(block.call, block.ok)
             /\ UNCHANGED credUser
    /\ UNCHANGED <<details, opened, call, authUser, overtaken, restarts>>

(* The app is killed and started again; calls under way are forgotten. *)
Restart ==
    /\ restarts < MaxRestarts
    /\ restarts' = restarts + 1
    /\ user' = Nobody /\ logoutEnabled' = FALSE /\ details' = "closed"
    /\ dialogs' = << >> /\ late' = FALSE
    /\ call' = [c \in DOMAIN call |-> [call[c] EXCEPT !.answered = TRUE]]
    /\ mainQueue' = LaunchNotifications
    /\ credUser' \in {Nobody, authUser}
    /\ diverged' = (authUser # Nobody) /\ overtaken' = {}
    /\ UNCHANGED <<opened, authUser>>

Next ==
    \/ OpenLogin \/ OpenSignUp \/ Cancel \/ SelectRow \/ GoBack
    \/ \E account \in Accounts : Submit(account)
    \/ \E c \in Calls : SignedIn(c) \/ Refused(c)
    \/ Logout
    \/ RunBlock
    \/ Restart

Spec == Init /\ [][Next]_vars

(* The main queue is served, and FIRAuth answers one way or the other; as  *)
(* there are finitely many calls, fairness to all of them is enough.       *)
FairSpec ==
    /\ Spec
    /\ WF_vars(RunBlock)
    /\ WF_vars(\E c \in Calls : SignedIn(c) \/ Refused(c))

-----------------------------------------------------------------------------
(* Properties.                                                             *)

(* Once the main queue is empty DataCenter, FIRAuth and Firestore agree    *)
(* who is signed in, however many logins were under way.  Three things set *)
(* the app apart until the next login or logout, all recorded in diverged: *)
(* creating a user signs the new one in (DataCenter.swift:265), a logout   *)
(* overtakes the handler of a login (:241-246), and a restart forgets the  *)
(* role but not the user (:15).                                            *)
SessionAgrees ==
    mainQueue = << >> => credUser = authUser /\ (~ diverged => user = authUser)

(* What a screen has allowed when it was opened is still allowed: nobody   *)
(* logs out over an open Details screen (DetailsViewController.swift:61),  *)
(* and sign-up stays with the admin (LoginViewController.swift:70) unless  *)
(* a login was answered under another dialog, which does not close.        *)
ScreensKnowTheirUser ==
    /\ details = "open" => user # Nobody
    /\ dialogs # << >> /\ Last(dialogs).link /\ ~ late => user = Admin

(* A login that succeeds gives its role, even if its dialog was cancelled  *)
(* (LoginViewController.swift:158-163): no answer is lost but by a restart.*)
LoginTakesEffect ==
    \A c \in Calls, account \in Accounts :
        /\ IsUnderWay(c)
        /\ call[c].kind = "login" /\ call[c].account = account
        ~>
        \/ user = account
        \/ IsQueued(Completion(c, FALSE))
        \/ restarts > 0
=============================================================================
