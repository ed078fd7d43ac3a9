------------------------------ MODULE Comments ------------------------------
(***************************************************************************)
(* The comments of a post (MainPage/CommentController.swift) on one device.*)
(*                                                                         *)
(* A listener reports changes of the post's comments; EVERY change, a      *)
(* removal as well, reads the author's Users document, and the answer      *)
(* appends a row.  Sending writes a new document, which the listener       *)
(* reports at once, before the backend has it; if the backend refuses it,  *)
(* the listener reports its removal.  The text field is emptied by the     *)
(* completion of the write, whatever it holds by then.                     *)
(***************************************************************************)
EXTENDS Naturals, Sequences, FiniteSets

CONSTANTS
    Comments,     \* documents of Comments/{post}/Adding_Comments
    Author,       \* the user who writes a comment
    Me,           \* the signed-in user
    Profiles,     \* users with a Users document
    MaxTyped,     \* bound: changes of the text field by the keyboard
    MaxFailures,  \* bound: failed reads and listens, refused writes
    MaxRestarts   \* bound: restarts of the application

VARIABLES
    stored,    \* the comments the backend has
    sent,      \* the comments that have been written, by anybody
    queue,     \* the SDK's queue of writes: my comments, oldest first
    waiting,   \* the queued comments whose sender this process still is
    done,      \* completions of stored comments that have not run
    listener,  \* "fresh" before its first snapshot, "on", or "off" after an error
    view,      \* the comments reported to the listener
    reads,     \* reads[c]: reads of c's author without an answer
    comments,  \* the rows
    text,      \* txtComment holds a text
    refused,   \* history of the process: the comments removed again
    typed, failures, restarts

firebase == <<stored, sent, queue, waiting>>
page     == <<comments, text>>
counts   == <<typed, failures, restarts>>
vars     == <<firebase, done, listener, view, reads, page, refused, counts>>

Queued == {queue[i] : i \in DOMAIN queue}
LocalComments == stored \cup Queued
Unused == Comments \ sent

\* viewDidLoad
PageLoaded ==
    /\ listener = "fresh" /\ view = {}
    /\ reads = [c \in Comments |-> 0]
    /\ comments = <<>> /\ text = FALSE
    /\ done = 0 /\ refused = {}

Init ==
    /\ PageLoaded
    /\ stored \in SUBSET Comments
    /\ sent = stored
    /\ queue = <<>> /\ waiting = {}
    /\ typed = 0 /\ failures = 0 /\ restarts = 0

----------------------------------------------------------------------------
\* One read of the author for each of the changes.
ReadAuthors(changed) ==
    reads' = [c \in Comments |-> reads[c] + IF c \in changed THEN 1 ELSE 0]

\* Mutant: the page asks once and does not listen.
ListedOnce ==
    /\ listener = "fresh"
    /\ listener' = "off"
    /\ view' = LocalComments
    /\ ReadAuthors(view')
    /\ UNCHANGED <<firebase, done, page, refused, counts>>

FirstSnapshot ==
    /\ listener = "fresh"
    /\ listener' = "on"
    /\ view' = LocalComments
    /\ ReadAuthors(view')
    /\ UNCHANGED <<firebase, done, page, refused, counts>>

\* Mutant: every document of the snapshot instead of its changes.
AllListed ==
    /\ listener = "on" /\ view # LocalComments
    /\ view' = LocalComments
    /\ ReadAuthors(view')
    /\ UNCHANGED <<firebase, done, listener, page, refused, counts>>

\* Comments of other users arrive.
CommentsChanged ==
    /\ listener = "on" /\ view # LocalComments
    /\ view' = LocalComments
    /\ ReadAuthors(view' \ view)
    /\ UNCHANGED <<firebase, done, listener, page, refused, counts>>

ListenFails ==
    /\ listener # "off" /\ failures < MaxFailures
    /\ listener' = "off"
    /\ failures' = failures + 1
    /\ UNCHANGED <<firebase, done, view, reads, page, refused, typed, restarts>>

\* createUser answers: a row, if the author has a document.
AuthorRead(c) ==
    /\ reads[c] > 0
    /\ reads' = [reads EXCEPT ![c] = @ - 1]
    /\ comments' = IF Author[c] \in Profiles THEN Append(comments, c) ELSE comments
    /\ UNCHANGED <<firebase, done, listener, view, text, refused, counts>>

AuthorReadFails(c) ==
    /\ reads[c] > 0 /\ failures < MaxFailures
    /\ reads' = [reads EXCEPT ![c] = @ - 1]
    /\ failures' = failures + 1
    /\ UNCHANGED <<firebase, done, listener, view, page, refused, typed, restarts>>

\* Somebody else comments.
Publish(c) ==
    /\ c \in Unused /\ Author[c] # Me
    /\ stored' = stored \cup {c}
    /\ sent' = sent \cup {c}
    /\ UNCHANGED <<queue, waiting, done, listener, view, reads, page, refused, counts>>

----------------------------------------------------------------------------
\* A text is typed, or deleted.
Type ==
    /\ typed < MaxTyped
    /\ text' = ~text
    /\ typed' = typed + 1
    /\ UNCHANGED <<firebase, done, listener, view, reads, comments, refused, failures, restarts>>

\* btnSendCommentPressed: a document of its own for every press; the field keeps
\* its text.
Send(c) ==
    /\ text
    /\ c \in Unused /\ Author[c] = Me
    /\ sent' = sent \cup {c}
    /\ queue' = Append(queue, c)
    /\ waiting' = waiting \cup {c}
    /\ IF listener = "on"
       THEN view' = view \cup {c} /\ ReadAuthors({c})
       ELSE UNCHANGED <<view, reads>>
    /\ UNCHANGED <<stored, done, listener, page, refused, counts>>

Dequeue ==
    /\ queue # <<>>
    /\ queue' = Tail(queue)
    /\ waiting' = waiting \ {Head(queue)}

\* The backend has the oldest comment; its sender, if alive, is called back.
Saved ==
    /\ Dequeue
    /\ stored' = stored \cup {Head(queue)}
    /\ done' = IF Head(queue) \in waiting THEN done + 1 ELSE done
    /\ UNCHANGED <<sent, listener, view, reads, page, refused, counts>>

\* The backend refuses it: the SDK takes it back, which is one more change.
Refused ==
    /\ Dequeue
    /\ failures < MaxFailures
    /\ failures' = failures + 1
    /\ IF listener = "on" /\ Head(queue) \in view
       THEN /\ view' = view \ {Head(queue)}
            /\ ReadAuthors({Head(queue)})
            /\ refused' = refused \cup {Head(queue)}
       ELSE UNCHANGED <<view, reads, refused>>
    /\ UNCHANGED <<stored, sent, done, listener, page, typed, restarts>>

\* The completion of a saved comment empties the field.
Cleared ==
    /\ done > 0
    /\ done' = done - 1
    /\ text' = FALSE
    /\ UNCHANGED <<firebase, listener, view, reads, comments, refused, counts>>

\* The process ends, and the page is opened again in the next; the queue of writes
\* is on disk.
Restart ==
    /\ restarts < MaxRestarts
    /\ restarts' = restarts + 1
    /\ listener' = "fresh" /\ view' = {}
    /\ reads' = [c \in Comments |-> 0]
    /\ comments' = <<>> /\ text' = FALSE
    /\ waiting' = {} /\ done' = 0 /\ refused' = {}
    /\ UNCHANGED <<stored, sent, queue, typed, failures>>

Next ==
    \/ FirstSnapshot \/ CommentsChanged \/ ListenFails
    \/ \E c \in Comments : AuthorRead(c) \/ AuthorReadFails(c) \/ Publish(c) \/ Send(c)
    \/ Type \/ Saved \/ Refused \/ Cleared
    \/ Restart

Spec == Init /\ [][Next]_vars

\* The SDK reports and answers; people and failures do as they like.
Fairness ==
    /\ WF_vars(FirstSnapshot) /\ WF_vars(CommentsChanged)
    /\ WF_vars(Saved) /\ WF_vars(Cleared)
    /\ \A c \in Comments : WF_vars(AuthorRead(c))

FairSpec == Spec /\ Fairness

----------------------------------------------------------------------------
TypeOK ==
    /\ stored \in SUBSET Comments
    /\ sent \in SUBSET Comments
    /\ queue \in Seq(Comments)
    /\ waiting \in SUBSET Comments
    /\ done \in Nat
    /\ listener \in {"fresh", "on", "off"}
    /\ view \in SUBSET Comments
    /\ reads \in [Comments -> Nat]
    /\ comments \in Seq(Comments)
    /\ text \in BOOLEAN
    /\ refused \in SUBSET Comments
    /\ typed \in Nat /\ failures \in Nat /\ restarts \in Nat

\* Counting rows and answers on their way, a comment is on the page once, and one
\* that was refused after it was shown at most twice: nothing else makes a second
\* row, however sends, snapshots, answers and restarts interleave.
Copies(c) == Cardinality({i \in DOMAIN comments : comments[i] = c})
Allowed(c) == IF c \in refused THEN 2 ELSE IF c \in view THEN 1 ELSE 0
CopiesPerChange == \A c \in Comments : Copies(c) + reads[c] <= Allowed(c)

\* README.md, "leave comments": a comment that is sent is stored and shown in the
\* end, on the page open now or after a restart, if nothing fails and its author
\* has a Users document.
Shown(c) == \E i \in DOMAIN comments : comments[i] = c
CommentsAppear ==
    \A c \in Comments :
        c \in sent ~> (c \in stored /\ (Shown(c) \/ Author[c] \notin Profiles))
                              \/ failures > 0
=============================================================================
