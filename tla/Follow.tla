------------------------------- MODULE Follow -------------------------------
(***************************************************************************)
(* The follow button of the profile pages (UserProfileHeader.swift) and    *)
(* the document Follows/Me it writes.                                      *)
(*                                                                         *)
(* The button's title is its state: a press means unfollow when it says    *)
(* Unfollow, and follow whatever else it says, no title included.  The     *)
(* title is set by a read of Follows/Me whenever the page is reloaded, and *)
(* by the completions of the writes.  A follow reads the document first    *)
(* and chooses updateData or setData by what it saw.  An answer is worked  *)
(* out on the SDK's queue and handled on the main queue: between the two,  *)
(* other callbacks run.                                                    *)
(***************************************************************************)
EXTENDS Naturals, Sequences, SequencesExt

CONSTANTS
    Users,       \* users whose profile pages are open on this device
    Me,          \* the signed-in user, whose own page has the same button
    MaxUses,     \* bound: reloads of pages and presses of their buttons
    MaxTroubles  \* bound: failed reads, refused writes and restarts

ASSUME FollowAssumption == Me \in Users

VARIABLES
    doc,      \* Follows/Me in the backend: is it there, and its keys (each 1)
    queue,    \* the SDK's queue of writes, oldest first
    looks,    \* looks[u]: reads of followButton without an answer
    presses,  \* presses[u]: reads of presses without an answer
    main,     \* answered callbacks waiting on the main queue
    known,    \* pages whose header has been given its user
    title,    \* title[u]: the button's title on u's page
    replaced, \* history: a setData was issued over a document that is there by now
    uses, failures, restarts

counts == <<uses, failures, restarts>>
vars   == <<doc, queue, looks, presses, main, known, title, replaced, counts>>

Document == [exists : BOOLEAN, keys : SUBSET Users]
Write    == [kind : {"set", "update", "delete"}, user : Users, live : BOOLEAN]
Callback == [what : {"look"}, user : Users, saw : {"nothing", "key", "no key"}]
            \cup [what : {"press"}, user : Users, saw : {"nothing", "document"}]
            \cup [what : {"done"}, user : Users, saw : {"set", "update", "delete"}]
Titles   == {"", "Follow", "Unfollow", "Edit Profile"}

\* A document after a write: setData replaces it, updateData changes one key of a
\* document that is there.
Written(d, w) ==
    CASE w.kind = "set" -> [exists |-> TRUE, keys |-> {w.user}]
      [] w.kind = "update" /\ d.exists -> [d EXCEPT !.keys = @ \cup {w.user}]
      [] w.kind = "delete" /\ d.exists -> [d EXCEPT !.keys = @ \ {w.user}]
      [] OTHER -> d

\* A document after writes, in their order.
Replayed(d, writes) ==
    LET after[i \in 0..Len(writes)] == IF i = 0 THEN d ELSE Written(after[i - 1], writes[i])
    IN  after[Len(writes)]

\* Follows/Me as a read on this device sees it.
Local == Replayed(doc, queue)

Init ==
    /\ doc \in Document /\ (~doc.exists => doc.keys = {})
    /\ queue = <<>> /\ main = <<>>
    /\ looks = [u \in Users |-> 0] /\ presses = [u \in Users |-> 0]
    /\ known = {} /\ title = [u \in Users |-> ""]
    /\ replaced = FALSE
    /\ uses = 0 /\ failures = 0 /\ restarts = 0

----------------------------------------------------------------------------
(* The main queue: taps and reloads between callbacks, callbacks in order. *)

Used ==
    /\ uses < MaxUses
    /\ uses' = uses + 1

\* A snapshot of the page's posts reloads it: the header gets its user again, and
\* followButton reads Follows/Me, or titles the button on Me's own page.
Reload(u) ==
    /\ Used
    /\ known' = known \cup {u}
    /\ IF u = Me
       THEN /\ title' = [title EXCEPT ![u] = "Edit Profile"]
            /\ UNCHANGED looks
       ELSE /\ looks' = [looks EXCEPT ![u] = @ + 1]
            /\ UNCHANGED title
    /\ UNCHANGED <<doc, queue, presses, main, replaced, failures, restarts>>

\* btnProfile_Follow_Edit
Press(u) ==
    /\ u \in known
    /\ Used
    /\ IF title[u] = "Unfollow"
       THEN /\ queue' = Append(queue, [kind |-> "delete", user |-> u, live |-> TRUE])
            /\ UNCHANGED presses
       ELSE /\ presses' = [presses EXCEPT ![u] = @ + 1]
            /\ UNCHANGED queue
    /\ UNCHANGED <<doc, looks, main, known, title, replaced, failures, restarts>>

NextCallback(what) ==
    /\ main # <<>> /\ Head(main).what = what
    /\ main' = Tail(main)

\* followButton's answer; a missing document leaves the title as it is.
LookRuns ==
    LET look == Head(main)
    IN  /\ NextCallback("look")
        /\ title' = IF look.saw = "nothing"
                    THEN title
                    ELSE [title EXCEPT ![look.user] =
                              IF look.saw = "key" THEN "Unfollow" ELSE "Follow"]
        /\ UNCHANGED <<doc, queue, looks, presses, known, replaced, counts>>

\* Mutant: the whole document is written whether or not there is one.
PressAlwaysSets ==
    LET press == Head(main)
    IN  /\ NextCallback("press")
        /\ queue' = Append(queue, [kind |-> "set", user |-> press.user, live |-> TRUE])
        /\ replaced' = (replaced \/ (press.saw = "nothing" /\ Local.exists))
        /\ UNCHANGED <<doc, looks, presses, known, title, counts>>

\* The answer to a press: the write it calls for.
PressRuns ==
    LET press == Head(main)
    IN  /\ NextCallback("press")
        /\ queue' = Append(queue, [kind |-> IF press.saw = "document" THEN "update" ELSE "set",
                                   user |-> press.user, live |-> TRUE])
        /\ replaced' = (replaced \/ (press.saw = "nothing" /\ Local.exists))
        /\ UNCHANGED <<doc, looks, presses, known, title, counts>>

\* Mutant: unfollowing does not turn the title back.
DoneKeepsTitle ==
    LET done == Head(main)
    IN  /\ NextCallback("done")
        /\ title' = IF done.saw = "update" THEN [title EXCEPT ![done.user] = "Unfollow"] ELSE title
        /\ UNCHANGED <<doc, queue, looks, presses, known, replaced, counts>>

\* A completion without an error: the one of setData only prints.
DoneRuns ==
    LET done == Head(main)
    IN  /\ NextCallback("done")
        /\ title' = IF done.saw = "set"
                    THEN title
                    ELSE [title EXCEPT ![done.user] =
                              IF done.saw = "update" THEN "Unfollow" ELSE "Follow"]
        /\ UNCHANGED <<doc, queue, looks, presses, known, replaced, counts>>

----------------------------------------------------------------------------
(* The SDK and the backend. *)

LookSees(u) ==
    IF ~Local.exists THEN "nothing" ELSE IF u \in Local.keys THEN "key" ELSE "no key"

LookAnswered(u) ==
    /\ looks[u] > 0
    /\ looks' = [looks EXCEPT ![u] = @ - 1]
    /\ main' = Append(main, [what |-> "look", user |-> u, saw |-> LookSees(u)])
    /\ UNCHANGED <<doc, queue, presses, known, title, replaced, counts>>

PressAnswered(u) ==
    /\ presses[u] > 0
    /\ presses' = [presses EXCEPT ![u] = @ - 1]
    /\ main' = Append(main, [what |-> "press", user |-> u,
                             saw |-> IF Local.exists THEN "document" ELSE "nothing"])
    /\ UNCHANGED <<doc, queue, looks, known, title, replaced, counts>>

\* The backend takes the oldest write, or finds no document to update; its
\* completion, if the process still has it and there is no error, goes to main.
Committed ==
    LET w == Head(queue)
    IN  /\ queue # <<>>
        /\ queue' = Tail(queue)
        /\ doc' = Written(doc, w)
        /\ main' = IF w.live /\ (w.kind = "set" \/ doc.exists)
                   THEN Append(main, [what |-> "done", user |-> w.user, saw |-> w.kind])
                   ELSE main
        /\ UNCHANGED <<looks, presses, known, title, replaced, counts>>

\* A read or the oldest write fails: its callback only prints.
Fails ==
    /\ failures + restarts < MaxTroubles
    /\ failures' = failures + 1
    /\ \/ \E u \in Users :
              \/ looks[u] > 0 /\ looks' = [looks EXCEPT ![u] = @ - 1]
                 /\ UNCHANGED <<presses, queue>>
              \/ presses[u] > 0 /\ presses' = [presses EXCEPT ![u] = @ - 1]
                 /\ UNCHANGED <<looks, queue>>
       \/ queue # <<>> /\ queue' = Tail(queue) /\ UNCHANGED <<looks, presses>>
    /\ UNCHANGED <<doc, main, known, title, replaced, uses, restarts>>

\* The process ends and starts again: the queue is on disk, callbacks are gone.
Restart ==
    /\ failures + restarts < MaxTroubles
    /\ restarts' = restarts + 1
    /\ queue' = [i \in DOMAIN queue |-> [queue[i] EXCEPT !.live = FALSE]]
    /\ main' = <<>>
    /\ looks' = [u \in Users |-> 0] /\ presses' = [u \in Users |-> 0]
    /\ known' = {} /\ title' = [u \in Users |-> ""]
    /\ UNCHANGED <<doc, replaced, uses, failures>>

Next ==
    \/ \E u \in Users : Reload(u) \/ Press(u) \/ LookAnswered(u) \/ PressAnswered(u)
    \/ LookRuns \/ PressRuns \/ DoneRuns
    \/ Committed \/ Fails \/ Restart

Spec == Init /\ [][Next]_vars

\* The main queue runs, the SDK answers and the backend takes writes.
Fairness ==
    /\ WF_vars(LookRuns) /\ WF_vars(PressRuns) /\ WF_vars(DoneRuns)
    /\ WF_vars(Committed)
    /\ \A u \in Users : WF_vars(LookAnswered(u)) /\ WF_vars(PressAnswered(u))

FairSpec == Spec /\ Fairness

----------------------------------------------------------------------------
TypeOK ==
    /\ doc \in Document
    /\ queue \in Seq(Write)
    /\ looks \in [Users -> Nat] /\ presses \in [Users -> Nat]
    /\ main \in Seq(Callback)
    /\ known \in SUBSET Users
    /\ title \in [Users -> Titles]
    /\ replaced \in BOOLEAN
    /\ uses \in Nat /\ failures \in Nat /\ restarts \in Nat

\* When nothing of a page is under way, its button tells what the backend holds:
\* through double presses, reads overtaken by presses, reloads and restarts.  Not
\* after a failure, and not once a setData has been issued over a document: it takes
\* two first follows whose reads were both answered before either was written.
Quiet(u) ==
    /\ looks[u] = 0 /\ presses[u] = 0
    /\ \A i \in DOMAIN queue : queue[i].user # u
    /\ \A i \in DOMAIN main : main[i].user # u
TitleTells ==
    ~replaced /\ failures = 0 =>
        \A u \in Users : Quiet(u) => /\ title[u] = "Unfollow" => u \in doc.keys
                                     /\ title[u] = "Follow" => u \notin doc.keys

\* A step changes the key of the user whose write the backend takes, and no other.
OthersKept ==
    \A u \in Users : (u \in doc.keys) # (u \in doc'.keys) => queue # <<>> /\ u = Head(queue).user

\* Following or unfollowing one user leaves the follows of all others alone, through
\* refused writes, updates of a document that is not there and restarts: unless a
\* setData has been issued over a document that is there.
FollowsApart == [][~replaced => OthersKept]_vars

\* A press that asks to follow ends with the user in the document for good.  It is
\* excused by a failure or a restart after it, by an unfollow of the same user, and
\* by replaced: the setData of another first follow erases this one.
Unfollowing(u) == \E i \in DOMAIN queue : queue[i].kind = "delete" /\ queue[i].user = u
FollowsStay ==
    \A u \in Users, n \in 0..MaxTroubles :
        [](presses[u] > 0 /\ failures + restarts = n =>
              \/ <>(failures + restarts > n \/ Unfollowing(u) \/ replaced)
              \/ <>[](u \in doc.keys))
=============================================================================
