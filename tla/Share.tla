------------------------------- MODULE Share -------------------------------
(***************************************************************************)
(* Sharing a photo (AddPhoto/SharePhotoController.swift), with the modal   *)
(* it lives in and the account it is shared from.                          *)
(*                                                                         *)
(* A press of Share puts the photo in Firebase Storage, asks for its URL   *)
(* and adds a document to the user's Photo_Posts, each step started by the *)
(* callback of the one before.  The button is the only record that one is  *)
(* under way.  The message and Auth's current user are read by the second  *)
(* callback, not by the press; meanwhile the user can type, go back, share *)
(* another photo, leave, sign out and sign in as somebody else.            *)
(***************************************************************************)
EXTENDS Naturals

CONSTANTS
    Forms,         \* instances of SharePhotoController
    Accounts,      \* users of this device
    Nobody,        \* Auth.auth().currentUser == nil
    MaxFailures,   \* bound: uploads, URL requests and writes that fail
    MaxSignOuts,   \* bound: times somebody logs out
    MaxRelaunches  \* bound: restarts of the application

ASSUME ShareAssumption ==
    /\ Nobody \notin Accounts
    /\ {"closed", "chooser"} \cap Forms = {}

VARIABLES
    me,        \* the signed-in account
    top,       \* what the photo modal shows: nothing, the chooser or a form
    form,      \* form[f]: not made yet, of this process, or of an earlier one
    photo,     \* the forms whose chosenPhoto is not nil
    message,   \* the forms whose txtMessage holds more than white space
    enabled,   \* the forms whose Share button is enabled
    hud,       \* hud[f]: what the HUD of the latest press says
    puts,      \* puts[f]: putData calls without an answer
    urls,      \* urls[f]: downloadURL calls without an answer
    saves,     \* saves[f]: documents in the SDK's queue of writes
    stored,    \* stored[f]: photos in Storage put there by f
    posts,     \* posts[f]: documents of Photo_Posts added by f
    (* history *)
    sharer,    \* sharer[f]: who pressed Share
    owner,     \* owner[f]: whose Photo_Posts the document was added to
    failures, signOuts, relaunches

nav     == <<me, top>>
screen  == <<form, photo, message, enabled, hud>>
calls   == <<puts, urls, saves>>
backend == <<stored, posts>>
people  == <<sharer, owner>>
counts  == <<failures, signOuts, relaunches>>
vars    == <<nav, screen, calls, backend, people, counts>>

Huds == {"none", "Post Uploading", "Photo not uploaded", "Post Uploaded..."}

Init ==
    /\ me \in Accounts
    /\ top = "closed"
    /\ form = [f \in Forms |-> "new"]
    /\ photo = {}
    /\ message = {}
    /\ enabled = Forms
    /\ hud = [f \in Forms |-> "none"]
    /\ puts = [f \in Forms |-> 0]
    /\ urls = [f \in Forms |-> 0]
    /\ saves = [f \in Forms |-> 0]
    /\ stored = [f \in Forms |-> 0]
    /\ posts = [f \in Forms |-> 0]
    /\ sharer = [f \in Forms |-> Nobody]
    /\ owner = [f \in Forms |-> Nobody]
    /\ failures = 0 /\ signOuts = 0 /\ relaunches = 0

----------------------------------------------------------------------------
(* The tab bar, the photo chooser and the navigation bar. *)

OpenChooser ==
    /\ me # Nobody /\ top = "closed"
    /\ top' = "chooser"
    /\ UNCHANGED <<me, screen, calls, backend, people, counts>>

\* btnNextPressed: a form for the photo in the header, if there is one.
NextPressed(f, chosen) ==
    /\ top = "chooser" /\ form[f] = "new"
    /\ top' = f
    /\ form' = [form EXCEPT ![f] = "open"]
    /\ photo' = photo \cup chosen
    /\ UNCHANGED <<me, message, enabled, hud, calls, backend, people, counts>>

\* The HUD covers the form but not the navigation bar.
Back ==
    /\ top \in Forms
    /\ top' = "chooser"
    /\ UNCHANGED <<me, screen, calls, backend, people, counts>>

Cancel ==
    /\ top = "chooser"
    /\ top' = "closed"
    /\ UNCHANGED <<me, screen, calls, backend, people, counts>>

\* The HUD does not cover the keyboard either.
Type(f) ==
    /\ top = f
    /\ message' = IF f \in message THEN message \ {f} ELSE message \cup {f}
    /\ UNCHANGED <<nav, form, photo, enabled, hud, calls, backend, people, counts>>

LogOut ==
    /\ me # Nobody /\ top = "closed" /\ signOuts < MaxSignOuts
    /\ me' = Nobody
    /\ signOuts' = signOuts + 1
    /\ UNCHANGED <<top, screen, calls, backend, people, failures, relaunches>>

SignIn(a) ==
    /\ me = Nobody
    /\ me' = a
    /\ UNCHANGED <<top, screen, calls, backend, people, counts>>

----------------------------------------------------------------------------
\* Mutant: the button stays enabled while the photo is uploaded.
PressedEnabled(f) ==
    /\ top = f /\ f \in enabled /\ puts[f] < 2
    /\ hud' = [hud EXCEPT ![f] = "Post Uploading"]
    /\ sharer' = [sharer EXCEPT ![f] = me]
    /\ puts' = [puts EXCEPT ![f] = @ + IF f \in photo THEN 1 ELSE 0]
    /\ UNCHANGED <<nav, form, photo, message, enabled, urls, saves, backend, owner, counts>>

\* btnSharePressed: the button and the HUD change before chosenPhoto is looked at.
btnSharePressed(f) ==
    /\ top = f /\ f \in enabled
    /\ enabled' = enabled \ {f}
    /\ hud' = [hud EXCEPT ![f] = "Post Uploading"]
    /\ sharer' = [sharer EXCEPT ![f] = me]
    /\ puts' = [puts EXCEPT ![f] = @ + IF f \in photo THEN 1 ELSE 0]
    /\ UNCHANGED <<nav, form, photo, message, urls, saves, backend, owner, counts>>

\* Mutant: the upload is taken for done before Storage has the photo.
PutAssumed(f) ==
    /\ puts[f] > 0
    /\ puts' = [puts EXCEPT ![f] = @ - 1]
    /\ urls' = [urls EXCEPT ![f] = @ + 1]
    /\ UNCHANGED <<nav, screen, saves, backend, people, counts>>

\* Storage has the photo, and its URL is asked for.
PutDone(f) ==
    /\ puts[f] > 0
    /\ puts' = [puts EXCEPT ![f] = @ - 1]
    /\ urls' = [urls EXCEPT ![f] = @ + 1]
    /\ stored' = [stored EXCEPT ![f] = @ + 1]
    /\ UNCHANGED <<nav, screen, saves, posts, people, counts>>

\* The upload fails, or only its answer does: the photo may be there all the same.
PutFails(f, kept) ==
    /\ puts[f] > 0 /\ failures < MaxFailures
    /\ puts' = [puts EXCEPT ![f] = @ - 1]
    /\ stored' = [stored EXCEPT ![f] = @ + kept]
    /\ enabled' = enabled \cup {f}
    /\ hud' = [hud EXCEPT ![f] = "Photo not uploaded"]
    /\ failures' = failures + 1
    /\ UNCHANGED <<nav, form, photo, message, urls, saves, posts, people, signOuts, relaunches>>

\* Mutant: no document is added.
UrlIgnored(f) ==
    /\ urls[f] > 0
    /\ urls' = [urls EXCEPT ![f] = @ - 1]
    /\ hud' = [hud EXCEPT ![f] = "Post Uploaded..."]
    /\ UNCHANGED <<nav, form, photo, message, enabled, puts, saves, backend, people, counts>>

\* downloadURL answers, savePostFS reads the message and the user of this moment.
UrlDone(f) ==
    /\ urls[f] > 0
    /\ urls' = [urls EXCEPT ![f] = @ - 1]
    /\ hud' = [hud EXCEPT ![f] = "Post Uploaded..."]
    /\ IF f \in message /\ me # Nobody
       THEN /\ saves' = [saves EXCEPT ![f] = @ + 1]
            /\ owner' = [owner EXCEPT ![f] = me]
       ELSE UNCHANGED <<saves, owner>>
    /\ UNCHANGED <<nav, form, photo, message, enabled, puts, backend, sharer, counts>>

\* Here and in SaveRefused the code sets isEnabled = false, which it already is.
UrlFails(f) ==
    /\ urls[f] > 0 /\ failures < MaxFailures
    /\ urls' = [urls EXCEPT ![f] = @ - 1]
    /\ hud' = [hud EXCEPT ![f] = "Post Uploaded..."]
    /\ failures' = failures + 1
    /\ UNCHANGED <<nav, form, photo, message, enabled, puts, saves, backend, people, signOuts,
                   relaunches>>

\* Mutant: the completion closes the modal whatever it shows.
SaveClosesModal(f) ==
    /\ saves[f] > 0 /\ me = owner[f]
    /\ saves' = [saves EXCEPT ![f] = @ - 1]
    /\ posts' = [posts EXCEPT ![f] = @ + 1]
    /\ top' = "closed"
    /\ UNCHANGED <<me, screen, puts, urls, stored, people, counts>>

\* The backend has the document, which the SDK sends while its author is signed
\* in.  The form closes the modal if it is still the one shown; popped from the
\* navigation controller it has nothing to dismiss.
SaveDone(f) ==
    /\ saves[f] > 0 /\ me = owner[f]
    /\ saves' = [saves EXCEPT ![f] = @ - 1]
    /\ posts' = [posts EXCEPT ![f] = @ + 1]
    /\ top' = IF top = f THEN "closed" ELSE top
    /\ UNCHANGED <<me, screen, puts, urls, stored, people, counts>>

SaveRefused(f) ==
    /\ saves[f] > 0 /\ me = owner[f] /\ failures < MaxFailures
    /\ saves' = [saves EXCEPT ![f] = @ - 1]
    /\ failures' = failures + 1
    /\ UNCHANGED <<nav, screen, puts, urls, backend, people, signOuts, relaunches>>

\* hud.dismiss(afterDelay: 2), which only the answers ask for.
HudGone(f) ==
    /\ hud[f] \in {"Photo not uploaded", "Post Uploaded..."}
    /\ hud' = [hud EXCEPT ![f] = "none"]
    /\ UNCHANGED <<nav, form, photo, message, enabled, calls, backend, people, counts>>

\* The process ends and starts again: uploads die with it, the queue of writes
\* and Auth's user are on disk.
Relaunch ==
    /\ relaunches < MaxRelaunches
    /\ relaunches' = relaunches + 1
    /\ top' = "closed"
    /\ form' = [f \in Forms |-> IF form[f] = "open" THEN "ended" ELSE form[f]]
    /\ puts' = [f \in Forms |-> 0]
    /\ urls' = [f \in Forms |-> 0]
    /\ hud' = [f \in Forms |-> "none"]
    /\ UNCHANGED <<me, photo, message, enabled, saves, backend, people, failures, signOuts>>

----------------------------------------------------------------------------
Navigating ==
    \/ OpenChooser \/ Back \/ Cancel \/ LogOut
    \/ \E f \in Forms : \E chosen \in SUBSET {f} : NextPressed(f, chosen)
    \/ \E a \in Accounts : SignIn(a)

Answering(f) ==
    \/ PutDone(f) \/ \E kept \in {0, 1} : PutFails(f, kept)
    \/ UrlDone(f) \/ UrlFails(f)
    \/ SaveDone(f) \/ SaveRefused(f)

Next ==
    \/ Navigating
    \/ \E f \in Forms : Type(f) \/ btnSharePressed(f) \/ Answering(f) \/ HudGone(f)
    \/ Relaunch

Spec == Init /\ [][Next]_vars

\* Storage and Firestore answer; the queue is sent while its author is signed in.
Fairness ==
    \A f \in Forms : WF_vars(PutDone(f)) /\ WF_vars(UrlDone(f)) /\ WF_vars(SaveDone(f))

FairSpec == Spec /\ Fairness

----------------------------------------------------------------------------
TypeOK ==
    /\ me \in Accounts \cup {Nobody}
    /\ top \in {"closed", "chooser"} \cup Forms
    /\ form \in [Forms -> {"new", "open", "ended"}]
    /\ photo \in SUBSET Forms
    /\ message \in SUBSET Forms
    /\ enabled \in SUBSET Forms
    /\ hud \in [Forms -> Huds]
    /\ puts \in [Forms -> Nat] /\ urls \in [Forms -> Nat] /\ saves \in [Forms -> Nat]
    /\ stored \in [Forms -> Nat] /\ posts \in [Forms -> Nat]
    /\ sharer \in [Forms -> Accounts \cup {Nobody}]
    /\ owner \in [Forms -> Accounts \cup {Nobody}]
    /\ failures \in Nat /\ signOuts \in Nat /\ relaunches \in Nat

\* The disabled button is the only lock: however presses, failures, retries, pops
\* and restarts interleave, a form has at most one upload under way or turned
\* into a document, and none while its button can be pressed.
Underway(f) == puts[f] + urls[f] + saves[f]
OnePostPerForm ==
    \A f \in Forms : /\ Underway(f) + posts[f] <= 1
                     /\ f \in enabled => Underway(f) + posts[f] = 0

\* A document, queued or saved, points to a photo that is in Storage.
PhotoBehindPost ==
    \A f \in Forms : urls[f] + saves[f] + posts[f] <= stored[f]

\* The modal closes under a form only because that form's post has been saved, not
\* because an upload the user left behind has come to its end.
ClosesWhenSaved ==
    [][\A f \in Forms : top = f /\ top' = "closed" =>
           posts'[f] > posts[f] \/ relaunches' > relaunches]_vars

\* A press of Share with a photo becomes a post, if Firebase fails nothing, the
\* application lives on, and the message and the user are still there.
SharingSucceeds ==
    \A f \in Forms :
        puts[f] > 0 ~> \/ posts[f] > 0
                       \/ f \notin message \/ me # sharer[f]
                       \/ failures > 0 \/ relaunches > 0

(* What README.md promises and the code does not do. *)

\* "You can select photos from your phone and share them with the people
\* following you": the post is added for the user who pressed Share.
PostedByItsSharer == \A f \in Forms : owner[f] # Nobody => owner[f] = sharer[f]

=============================================================================
