------------------------------ MODULE Session ------------------------------
(***************************************************************************)
(* Registering, signing in, signing out and restarting (RegisterController,*)
(* SignInController, UserProfileController.logOut, MainTabBarController).  *)
(*                                                                         *)
(* Auth keeps the current user on disk; the tab bar builds its pages once  *)
(* for the user of that moment.  A registration makes the account first    *)
(* and its Users document last, four answers later, while a HUD that only  *)
(* some of the answers take away covers the screen.                        *)
(***************************************************************************)
EXTENDS Naturals

CONSTANTS
    Accounts,      \* e-mail addresses
    Nobody,        \* Auth.auth().currentUser == nil
    MaxFailures,   \* bound: calls that fail although they could succeed
    MaxNaps,       \* bound: times the scene leaves foregroundActive
    MaxRelaunches, \* bound: restarts of the application
    MaxLogOuts     \* bound: times somebody logs out

ASSUME SessionAssumption ==
    /\ Nobody \notin Accounts
    /\ MaxFailures \in Nat /\ MaxNaps \in Nat /\ MaxRelaunches \in Nat /\ MaxLogOuts \in Nat

VARIABLES
    registered, \* the accounts Auth knows
    profiles,   \* the accounts with a document in Users
    queue,      \* accounts whose Users document is in the SDK's queue of writes
    me,         \* Auth.auth().currentUser
    tabs,       \* the user the pages of the tab bar were created for
    modal,      \* what covers the tab bar: nothing, "due", "signin" or "register"
    hud,        \* what the HUD over the modal's screen says
    scene,      \* activationState of the scene
    regStep,    \* which answer a registration waits for
    regWho,     \* its account; signedUserId once createUser has answered
    signing,    \* the account a sign-in waits for
    failures, naps, relaunches, logOuts

firebase == <<registered, profiles, queue>>
screen   == <<tabs, modal, hud>>
waiting  == <<regStep, regWho, signing>>
counts   == <<failures, naps, relaunches, logOuts>>
vars     == <<firebase, me, screen, scene, waiting, counts>>

Steps == {"none", "create", "put", "url", "save"}

Init ==
    /\ registered \in SUBSET Accounts
    /\ profiles = registered /\ queue = {}
    /\ me = Nobody /\ tabs = Nobody
    /\ modal = "due" /\ hud = "none" /\ scene = "foregroundActive"
    /\ regStep = "none" /\ regWho = Nobody /\ signing = Nobody
    /\ failures = 0 /\ naps = 0 /\ relaunches = 0 /\ logOuts = 0

----------------------------------------------------------------------------
\* viewDidLoad presents the sign-in screen in a later turn of the main queue.
PresentSignIn ==
    /\ modal = "due"
    /\ modal' = "signin"
    /\ UNCHANGED <<firebase, me, tabs, hud, scene, waiting, counts>>

\* MainTabBarController of a new process.
Relaunch ==
    /\ relaunches < MaxRelaunches
    /\ relaunches' = relaunches + 1
    /\ tabs' = me
    /\ modal' = IF me = Nobody THEN "due" ELSE "none"
    /\ hud' = "none" /\ scene' = "foregroundActive"
    /\ regStep' = "none" /\ regWho' = Nobody /\ signing' = Nobody
    /\ UNCHANGED <<firebase, me, failures, naps, logOuts>>

\* An incoming call, the notification centre, the home screen.
Nap ==
    /\ scene = "foregroundActive" /\ naps < MaxNaps
    /\ scene' = "foregroundInactive"
    /\ naps' = naps + 1
    /\ UNCHANGED <<firebase, me, screen, waiting, failures, relaunches, logOuts>>

WakeUp ==
    /\ scene # "foregroundActive"
    /\ scene' = "foregroundActive"
    /\ UNCHANGED <<firebase, me, screen, waiting, counts>>

logOut ==
    /\ scene = "foregroundActive" /\ modal = "none" /\ me # Nobody /\ logOuts < MaxLogOuts
    /\ me' = Nobody
    /\ modal' = "signin" /\ hud' = "none"
    /\ logOuts' = logOuts + 1
    /\ UNCHANGED <<firebase, tabs, scene, waiting, failures, naps, relaunches>>

----------------------------------------------------------------------------
(* The HUD takes all the touches of the screen it covers. *)

btnRegisterPressed ==
    /\ scene = "foregroundActive" /\ modal = "signin" /\ hud = "none"
    /\ modal' = "register"
    /\ UNCHANGED <<firebase, me, tabs, hud, scene, waiting, counts>>

\* Mutant: the HUD lets touches through, and back is the sign-in screen.
BackUnderHud ==
    /\ scene = "foregroundActive" /\ modal = "register"
    /\ modal' = "signin" /\ hud' = "none"
    /\ UNCHANGED <<firebase, me, tabs, scene, waiting, counts>>

btnHaveAccountPressed ==
    /\ scene = "foregroundActive" /\ modal = "register" /\ hud = "none"
    /\ modal' = "signin"
    /\ UNCHANGED <<firebase, me, tabs, hud, scene, waiting, counts>>

btnSignInPressed(a) ==
    /\ scene = "foregroundActive" /\ modal = "signin" /\ hud = "none"
    /\ hud' = "Signing in ..."
    /\ signing' = a
    /\ UNCHANGED <<firebase, me, tabs, modal, scene, regStep, regWho, counts>>

btnSignUpPressed(a) ==
    /\ scene = "foregroundActive" /\ modal = "register" /\ hud = "none"
    /\ hud' = "Signing..."
    /\ regStep' = "create" /\ regWho' = a
    /\ UNCHANGED <<firebase, me, tabs, modal, scene, signing, counts>>

----------------------------------------------------------------------------
(* Answers. *)

\* Mutant: the pages of the user before are kept.
SignInKeepsPages ==
    /\ signing \in registered
    /\ me' = signing
    /\ signing' = Nobody
    /\ IF scene = "foregroundActive"
       THEN modal' = "none" /\ hud' = "none"
       ELSE UNCHANGED <<modal, hud>>
    /\ UNCHANGED <<firebase, tabs, scene, regStep, regWho, counts>>

\* Signed in: new pages, and the modal is dismissed; but only if a scene is active,
\* otherwise the handler ends here, with the HUD over the screen.
SignInDone ==
    /\ signing \in registered
    /\ me' = signing
    /\ signing' = Nobody
    /\ IF scene = "foregroundActive"
       THEN tabs' = signing /\ modal' = "none" /\ hud' = "none"
       ELSE UNCHANGED screen
    /\ UNCHANGED <<firebase, scene, regStep, regWho, counts>>

SignInFails ==
    /\ signing # Nobody
    /\ \/ signing \notin registered /\ failures' = failures
       \/ failures < MaxFailures /\ failures' = failures + 1
    /\ signing' = Nobody
    /\ hud' = "none"
    /\ UNCHANGED <<firebase, me, tabs, modal, scene, regStep, regWho, naps, relaunches, logOuts>>

\* Mutant: the new user enters at once.
CreateEnters ==
    /\ regStep = "create" /\ regWho \notin registered
    /\ registered' = registered \cup {regWho}
    /\ me' = regWho
    /\ regStep' = "put"
    /\ tabs' = regWho /\ modal' = "none" /\ hud' = "none"
    /\ UNCHANGED <<profiles, queue, scene, regWho, signing, counts>>

\* createUser makes the account and signs it in.
CreateDone ==
    /\ regStep = "create" /\ regWho \notin registered
    /\ registered' = registered \cup {regWho}
    /\ me' = regWho
    /\ regStep' = "put"
    /\ UNCHANGED <<profiles, queue, screen, scene, regWho, signing, counts>>

\* The address is taken, or the call fails, or only its answer does (made).
CreateFails(made) ==
    /\ regStep = "create"
    /\ \/ regWho \in registered /\ made = {} /\ failures' = failures
       \/ failures < MaxFailures /\ failures' = failures + 1
    /\ registered' = registered \cup made
    /\ regStep' = "none" /\ regWho' = Nobody
    /\ hud' = "none"
    /\ UNCHANGED <<profiles, queue, me, tabs, modal, scene, signing, naps, relaunches, logOuts>>

PutDone ==
    /\ regStep = "put"
    /\ regStep' = "url"
    /\ UNCHANGED <<firebase, me, screen, scene, regWho, signing, counts>>

UrlDone ==
    /\ regStep = "url"
    /\ regStep' = "save"
    /\ queue' = queue \cup {regWho}
    /\ UNCHANGED <<registered, profiles, me, screen, scene, regWho, signing, counts>>

\* Mutant: the HUD goes away after a registration only with the screen.
SaveLeavesHud(a) ==
    /\ a \in queue /\ me = a
    /\ queue' = queue \ {a}
    /\ profiles' = profiles \cup {a}
    /\ IF regStep = "save" /\ regWho = a
       THEN /\ regStep' = "none" /\ regWho' = Nobody
            /\ tabs' = a
            /\ UNCHANGED <<modal, hud>>
       ELSE UNCHANGED <<screen, regStep, regWho>>
    /\ UNCHANGED <<registered, me, scene, signing, counts>>

\* The backend has the Users document, sent while its user is signed in.  The
\* registration it belongs to, if the process still has it, clears the screen and,
\* if a scene is active, creates the pages and dismisses the modal.
SaveDone(a) ==
    /\ a \in queue /\ me = a
    /\ queue' = queue \ {a}
    /\ profiles' = profiles \cup {a}
    /\ IF regStep = "save" /\ regWho = a
       THEN /\ regStep' = "none" /\ regWho' = Nobody
            /\ hud' = "none"
            /\ IF scene = "foregroundActive"
               THEN tabs' = a /\ modal' = "none"
               ELSE UNCHANGED <<tabs, modal>>
       ELSE UNCHANGED <<screen, regStep, regWho>>
    /\ UNCHANGED <<registered, me, scene, signing, counts>>

\* putData or downloadURL fails: the handler prints and ends.
StepFails ==
    /\ failures < MaxFailures
    /\ regStep \in {"put", "url"}
    /\ regStep' = "none" /\ regWho' = Nobody
    /\ failures' = failures + 1
    /\ UNCHANGED <<firebase, me, screen, scene, signing, naps, relaunches, logOuts>>

\* The backend refuses the Users document; the completion prints and ends.
SaveRefused(a) ==
    /\ a \in queue /\ me = a /\ failures < MaxFailures
    /\ queue' = queue \ {a}
    /\ IF regStep = "save" /\ regWho = a
       THEN regStep' = "none" /\ regWho' = Nobody
       ELSE UNCHANGED <<regStep, regWho>>
    /\ failures' = failures + 1
    /\ UNCHANGED <<registered, profiles, me, screen, scene, signing, naps, relaunches, logOuts>>

----------------------------------------------------------------------------
Pressing ==
    \/ logOut \/ btnRegisterPressed \/ btnHaveAccountPressed
    \/ \E a \in Accounts : btnSignInPressed(a) \/ btnSignUpPressed(a)

Answering ==
    \/ SignInDone \/ SignInFails
    \/ CreateDone \/ \E made \in {{}, {regWho}} : CreateFails(made)
    \/ PutDone \/ UrlDone \/ StepFails
    \/ \E a \in Accounts : SaveDone(a) \/ SaveRefused(a)

Next == PresentSignIn \/ Relaunch \/ Nap \/ WakeUp \/ Pressing \/ Answering

Spec == Init /\ [][Next]_vars

\* Every call is answered; the writes of the signed-in user are sent.
Fairness ==
    /\ WF_vars(SignInDone \/ SignInFails)
    /\ WF_vars(CreateDone \/ \E made \in {{}, {regWho}} : CreateFails(made))
    /\ WF_vars(PutDone) /\ WF_vars(UrlDone)
    /\ \A a \in Accounts : WF_vars(SaveDone(a))

FairSpec == Spec /\ Fairness

----------------------------------------------------------------------------
TypeOK ==
    /\ registered \in SUBSET Accounts
    /\ profiles \in SUBSET Accounts
    /\ queue \in SUBSET Accounts
    /\ me \in Accounts \cup {Nobody}
    /\ tabs \in Accounts \cup {Nobody}
    /\ modal \in {"none", "due", "signin", "register"}
    /\ hud \in {"none", "Signing...", "Signing in ..."}
    /\ scene \in {"foregroundActive", "foregroundInactive"}
    /\ regStep \in Steps
    /\ regWho \in Accounts \cup {Nobody}
    /\ signing \in Accounts \cup {Nobody}
    /\ failures \in Nat /\ naps \in Nat /\ relaunches \in Nat /\ logOuts \in Nat

\* The pages in sight are those of the user who is signed in: not of the user
\* before, and not of nobody, after any mix of registrations, sign-ins, log-outs,
\* interruptions and restarts.
PagesAreMine == modal = "none" => me # Nobody /\ tabs = me

\* A registration puts its photo and its Users document as the user it is for:
\* Auth's user does not change hands between its answers.
ActsAsItsUser == regStep \in {"put", "url", "save"} => me = regWho

\* A press of Sign In or Sign Up is over some day, if Firebase fails nothing and
\* the application stays active.
HudGoesAway == hud # "none" ~> hud = "none" \/ failures > 0 \/ naps > 0

\* README.md, "You can view and follow the individuals who have entered the
\* application through the search button": who is in has a Users document, at
\* least queued.  A registration that fails after createUser, or is cut off by the
\* end of the process, lets a user in without one.
EnteredCanBeFound ==
    modal = "none" /\ failures = 0 /\ relaunches = 0 => me \in profiles \cup queue
=============================================================================
