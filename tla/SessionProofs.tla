--------------------------- MODULE SessionProofs ---------------------------
(***************************************************************************)
(* For any set of accounts: the user does not change under a registration, *)
(* and the pages in sight are those of the signed-in user.  Neither is     *)
(* inductive alone.  What makes them so is that an answer can only be      *)
(* waited for by the screen in sight, under its HUD (Covered), so that one *)
(* call at a time can change Auth's user.  And whoever is in has a Users   *)
(* document unless something failed, since a registration under way is     *)
(* the only account that may lack one, and nobody is in under it.          *)
(***************************************************************************)
EXTENDS Session, TLAPS

Covered ==
    /\ signing # Nobody => modal = "signin" /\ hud # "none" /\ regStep = "none"
    /\ regStep # "none" => modal = "register" /\ hud # "none" /\ regWho \in Accounts

IInv == TypeOK /\ Covered /\ PagesAreMine /\ ActsAsItsUser

LEMMA Initially == Init => IInv
  BY SessionAssumption DEF Init, IInv, TypeOK, Covered, PagesAreMine, ActsAsItsUser, Steps

Counters == failures \in Nat /\ naps \in Nat /\ relaunches \in Nat /\ logOuts \in Nat

LEMMA CountersNext == Counters /\ [Next]_vars => Counters'
  <1>. SUFFICES ASSUME Counters, [Next]_vars PROVE Counters'
    OBVIOUS
  <1>. USE DEF Counters, counts
  <1>0. CASE logOut
    BY <1>0 DEF logOut
  <1>1. CASE Pressing /\ ~logOut
    BY <1>1 DEF Pressing, btnRegisterPressed, btnHaveAccountPressed, btnSignInPressed,
                btnSignUpPressed
  <1>2. CASE Answering
    BY <1>2 DEF Answering, SignInDone, SignInFails, CreateDone, CreateFails, PutDone, UrlDone,
                StepFails, SaveDone, SaveRefused
  <1>3. CASE PresentSignIn \/ Relaunch \/ Nap \/ WakeUp
    BY <1>3 DEF PresentSignIn, Relaunch, Nap, WakeUp
  <1>4. CASE UNCHANGED vars
    BY <1>4 DEF vars
  <1>. QED
    BY <1>0, <1>1, <1>2, <1>3, <1>4 DEF Next

\* What a person does.
LEMMA PressingKeeps == IInv /\ Counters' /\ Pressing => IInv'
  <1>. SUFFICES ASSUME IInv, Counters', Pressing PROVE IInv'
    OBVIOUS
  <1>. USE SessionAssumption DEF IInv, TypeOK, Covered, PagesAreMine, ActsAsItsUser, Steps,
           Counters, firebase, screen, waiting, counts
  <1>1. CASE logOut
    BY <1>1 DEF logOut
  <1>2. CASE btnRegisterPressed
    BY <1>2 DEF btnRegisterPressed
  <1>3. CASE btnHaveAccountPressed
    BY <1>3 DEF btnHaveAccountPressed
  <1>4. ASSUME NEW a \in Accounts, btnSignInPressed(a) PROVE IInv'
    BY <1>4 DEF btnSignInPressed
  <1>5. ASSUME NEW a \in Accounts, btnSignUpPressed(a) PROVE IInv'
    BY <1>5 DEF btnSignUpPressed
  <1>. QED
    BY <1>1, <1>2, <1>3, <1>4, <1>5 DEF Pressing

\* What Firebase answers.
LEMMA AnsweringKeeps == IInv /\ Counters' /\ Answering => IInv'
  <1>. SUFFICES ASSUME IInv, Counters', Answering PROVE IInv'
    OBVIOUS
  <1>. USE SessionAssumption DEF IInv, TypeOK, Covered, PagesAreMine, ActsAsItsUser, Steps,
           Counters, firebase, screen, waiting, counts
  <1>1. CASE SignInDone
    <2>1. signing \in Accounts /\ signing # Nobody
      BY <1>1 DEF SignInDone
    <2>. QED
      BY <1>1, <2>1 DEF SignInDone
  <1>2. CASE SignInFails
    BY <1>2 DEF SignInFails
  <1>3. CASE CreateDone
    BY <1>3 DEF CreateDone
  <1>4. ASSUME NEW made \in {{}, {regWho}}, CreateFails(made) PROVE IInv'
    BY <1>4 DEF CreateFails
  <1>5. CASE PutDone
    BY <1>5 DEF PutDone
  <1>6. CASE UrlDone
    BY <1>6 DEF UrlDone
  <1>7. CASE StepFails
    BY <1>7 DEF StepFails
  <1>8. ASSUME NEW a \in Accounts, SaveDone(a) PROVE IInv'
    BY <1>8 DEF SaveDone
  <1>9. ASSUME NEW a \in Accounts, SaveRefused(a) PROVE IInv'
    BY <1>9 DEF SaveRefused
  <1>. QED
    BY <1>1, <1>2, <1>3, <1>4, <1>5, <1>6, <1>7, <1>8, <1>9 DEF Answering

LEMMA Inductive == IInv /\ [Next]_vars => IInv'
  <1>. SUFFICES ASSUME IInv, [Next]_vars PROVE IInv'
    OBVIOUS
  <1>0. Counters'
    <2>1. Counters
      BY DEF IInv, TypeOK, Counters
    <2>. QED
      BY <2>1, CountersNext
  <1>1. CASE Pressing
    BY <1>0, <1>1, PressingKeeps
  <1>2. CASE Answering
    BY <1>0, <1>2, AnsweringKeeps
  <1>. USE SessionAssumption DEF IInv, TypeOK, Covered, PagesAreMine, ActsAsItsUser, Steps,
           Counters, firebase, screen, waiting, counts
  <1>3. CASE PresentSignIn
    BY <1>0, <1>3 DEF PresentSignIn
  <1>4. CASE Relaunch
    BY <1>0, <1>4 DEF Relaunch
  <1>5. CASE Nap
    BY <1>0, <1>5 DEF Nap
  <1>6. CASE WakeUp
    BY <1>0, <1>6 DEF WakeUp
  <1>7. CASE UNCHANGED vars
    BY <1>0, <1>7 DEF vars
  <1>. QED
    BY <1>1, <1>2, <1>3, <1>4, <1>5, <1>6, <1>7 DEF Next

\* Every value the session holds has its type.
THEOREM TypeCorrect == Spec => []TypeOK
  <1>1. IInv => TypeOK
    BY DEF IInv
  <1>. QED
    BY <1>1, Initially, Inductive, PTL DEF Spec

\* The pages that can be seen were created for the user who is signed in.
THEOREM OwnPages == Spec => []PagesAreMine
  <1>1. IInv => PagesAreMine
    BY DEF IInv
  <1>. QED
    BY <1>1, Initially, Inductive, PTL DEF Spec

\* Between the answers of a registration Auth's user is the one being registered.
THEOREM RegistersItself == Spec => []ActsAsItsUser
  <1>1. IInv => ActsAsItsUser
    BY DEF IInv
  <1>. QED
    BY <1>1, Initially, Inductive, PTL DEF Spec

----------------------------------------------------------------------------
(* Who is in has a Users document. *)

\* The account a registration has made and has yet to write a document for.
Owed == IF regStep \in {"put", "url"} THEN {regWho} ELSE {}

\* Only accounts that Auth knows sign in; and unless a call has failed or a process
\* has ended, those have a document, or one queued, or a registration that owes it.
Findable ==
    /\ me # Nobody => me \in registered
    /\ failures = 0 /\ relaunches = 0 => registered \subseteq profiles \cup queue \cup Owed

LEMMA FindableNext == IInv /\ Findable /\ [Next]_vars => Findable'
  <1>. SUFFICES ASSUME IInv, Findable, [Next]_vars PROVE Findable'
    OBVIOUS
  <1>. USE DEF Findable, Owed, firebase, screen, waiting, counts
  <1>0. failures \in Nat /\ relaunches \in Nat
    BY DEF IInv, TypeOK
  <1>1. CASE Pressing
    <2>1. CASE logOut
      BY <2>1 DEF logOut
    <2>2. CASE btnRegisterPressed \/ btnHaveAccountPressed
      BY <2>2 DEF btnRegisterPressed, btnHaveAccountPressed
    <2>3. ASSUME NEW a \in Accounts, btnSignInPressed(a) PROVE Findable'
      BY <2>3 DEF btnSignInPressed
    <2>4. ASSUME NEW a \in Accounts, btnSignUpPressed(a) PROVE Findable'
      <3>1. regStep = "none"
        BY <2>4 DEF btnSignUpPressed, IInv, Covered
      <3>. QED
        BY <2>4, <3>1 DEF btnSignUpPressed
    <2>. QED
      BY <1>1, <2>1, <2>2, <2>3, <2>4 DEF Pressing
  <1>2. CASE SignInDone
    BY <1>2 DEF SignInDone
  <1>3. CASE SignInFails
    BY <1>0, <1>3 DEF SignInFails
  <1>4. CASE CreateDone
    BY <1>4 DEF CreateDone
  <1>5. ASSUME NEW made \in {{}, {regWho}}, CreateFails(made) PROVE Findable'
    BY <1>0, <1>5 DEF CreateFails
  <1>6. CASE PutDone
    BY <1>6 DEF PutDone
  <1>7. CASE UrlDone
    BY <1>7 DEF UrlDone
  <1>8. CASE StepFails
    BY <1>0, <1>8 DEF StepFails
  <1>9. ASSUME NEW a \in Accounts, SaveDone(a) PROVE Findable'
    BY <1>9 DEF SaveDone
  <1>10. ASSUME NEW a \in Accounts, SaveRefused(a) PROVE Findable'
    BY <1>0, <1>10 DEF SaveRefused
  <1>11. CASE Relaunch
    BY <1>0, <1>11 DEF Relaunch
  <1>12. CASE PresentSignIn \/ Nap \/ WakeUp
    BY <1>12 DEF PresentSignIn, Nap, WakeUp
  <1>13. CASE UNCHANGED vars
    BY <1>13 DEF vars
  <1>. QED
    BY <1>1, <1>2, <1>3, <1>4, <1>5, <1>6, <1>7, <1>8, <1>9, <1>10, <1>11, <1>12, <1>13
    DEF Next, Answering

\* RegisterController.createUser: whoever is in has a Users document, at least
\* queued, unless a call has failed or a process has ended: no way in goes past
\* the last step of a registration.
THEOREM EntersFindable == Spec => []EnteredCanBeFound
  <1>1. Init => Findable
    BY SessionAssumption DEF Init, Findable
  <1>2. IInv /\ Findable => EnteredCanBeFound
    BY DEF IInv, Covered, PagesAreMine, Findable, Owed, EnteredCanBeFound
  <1>. QED
    BY <1>1, <1>2, Initially, Inductive, FindableNext, PTL DEF Spec
=============================================================================
