------------------------------- MODULE Profile -------------------------------
(***************************************************************************)
(* The profile pages (UserProfileController.swift) over their follow       *)
(* buttons: getUser, the listener of the user's posts, and the reloads of  *)
(* the page, each of which makes the header of Follow read Follows/Me.     *)
(*                                                                         *)
(* Posts come in the order of their dates, oldest first, are appended, and *)
(* then the whole array is reversed, whatever it held: the first snapshot  *)
(* leaves it newest first, every other one turns it over once more.        *)
(***************************************************************************)
EXTENDS Follow

CONSTANT MaxPosts   \* bound: MaxPosts[u], posts of u, named by their dates

ASSUME ProfileAssumption == MaxPosts \in [Users -> Nat]

VARIABLES
    stage,   \* stage[u]: how far u's page is, "header" once its user is known
    view,    \* view[u]: posts in the view of the page's listener, kept by the SDK
    refused, \* refused[u]: posts of u that the backend has refused
    posts    \* posts[u]: the array of the page, kept by the controller

pages       == <<stage, view, refused, posts>>
profileVars == <<vars, pages>>

Dates(u) == 1..MaxPosts[u]
Stages == {"asked", "header", "listening", "deaf", "over"}

ProfileInit ==
    /\ Init
    /\ stage = [u \in Users |-> "asked"]
    /\ view = [u \in Users |-> {}]
    /\ refused = [u \in Users |-> {}]
    /\ posts = [u \in Users |-> <<>>]

----------------------------------------------------------------------------
\* getUser: the user is kept, the posts are listened to.  Nothing is reloaded yet.
UserAnswered(u) ==
    /\ stage[u] = "asked"
    /\ stage' = [stage EXCEPT ![u] = "header"]
    /\ UNCHANGED <<vars, view, refused, posts>>

\* The read of the user fails or finds nothing, or the listener ends with an error.
PageFails(u) ==
    /\ stage[u] \notin {"deaf", "over"}
    /\ failures + restarts < MaxTroubles
    /\ failures' = failures + 1
    /\ stage' = [stage EXCEPT ![u] = IF @ = "asked" THEN "over" ELSE "deaf"]
    /\ UNCHANGED <<doc, queue, looks, presses, main, known, title, replaced, uses, restarts,
                   view, refused, posts>>

\* What a snapshot can report as added: posts that are not in the listener's view, in
\* the order of the query.  A refused post is not there any more.
Added(u) ==
    {batch \in SeqOf(Dates(u) \ (view[u] \cup refused[u]), MaxPosts[u]) :
        \A i, j \in DOMAIN batch : i < j => batch[i] < batch[j]}

\* The added posts behind the rows, and all of it reversed.
Turned(rows, added) == Reverse(rows \o added)

\* Mutant: the type of a change is not looked at.
SnapshotOfChanges(u, added, removed) ==
    /\ Reload(u)
    /\ view' = [view EXCEPT ![u] = (@ \cup Range(added)) \ removed]
    /\ refused' = [refused EXCEPT ![u] = @ \cup removed]
    /\ posts' = [posts EXCEPT ![u] = Turned(@, SetToSeq(removed) \o added)]

\* A snapshot: what is removed stays in the array, and the page is reloaded.
Snapshot(u, added, removed) ==
    /\ Reload(u)
    /\ view' = [view EXCEPT ![u] = (@ \cup Range(added)) \ removed]
    /\ refused' = [refused EXCEPT ![u] = @ \cup removed]
    /\ posts' = [posts EXCEPT ![u] = Turned(@, added)]

\* The first snapshot has everything there is, from the cache or from the backend.
FirstSnapshot(u) ==
    /\ stage[u] = "header"
    /\ stage' = [stage EXCEPT ![u] = "listening"]
    /\ \E all \in Added(u) : Snapshot(u, all, {})

\* Later ones have what is new; a post of Me that the backend refuses is removed.
PostsChanged(u) ==
    /\ stage[u] = "listening"
    /\ UNCHANGED stage
    /\ \E added \in Added(u), removed \in SUBSET view[u] :
           /\ added # <<>> \/ removed # {}
           /\ removed # {} => u = Me
           /\ Snapshot(u, added, removed)

\* changeGridView and changeListView reload the page as well.
ChangeView(u) ==
    /\ stage[u] \in {"header", "listening", "deaf"}
    /\ Reload(u)
    /\ UNCHANGED pages

----------------------------------------------------------------------------
(* The button and the SDK go on as in Follow. *)

PagesRestart ==
    /\ Restart
    /\ stage' = [u \in Users |-> "asked"]
    /\ view' = [u \in Users |-> {}]
    /\ posts' = [u \in Users |-> <<>>]
    /\ UNCHANGED refused

Buttons ==
    /\ \/ \E u \in Users : Press(u) \/ LookAnswered(u) \/ PressAnswered(u)
       \/ LookRuns \/ PressRuns \/ DoneRuns \/ Committed \/ Fails
    /\ UNCHANGED pages

ProfileNext ==
    \/ \E u \in Users : \/ UserAnswered(u) \/ PageFails(u)
                        \/ FirstSnapshot(u) \/ PostsChanged(u) \/ ChangeView(u)
    \/ Buttons
    \/ PagesRestart

ProfileSpec == ProfileInit /\ [][ProfileNext]_profileVars

ProfileFairSpec == ProfileSpec /\ Fairness

----------------------------------------------------------------------------
PagesTypeOK ==
    /\ TypeOK
    /\ stage \in [Users -> Stages]
    /\ \A u \in Users : /\ view[u] \subseteq Dates(u)
                        /\ refused[u] \subseteq Dates(u)
                        /\ posts[u] \in Seq(Dates(u))
    /\ DOMAIN view = Users /\ DOMAIN refused = Users /\ DOMAIN posts = Users

\* README.md, "your own profile page where you can see your photos".  The array only
\* grows while the listener's view also shrinks, and it is turned over each time: it
\* still has every post in the view, no post twice, and of those that have left the
\* view only what the backend refused.
PageHasItsPosts ==
    \A u \in Users : /\ IsInjective(posts[u])
                     /\ view[u] \subseteq Range(posts[u])
                     /\ Range(posts[u]) \subseteq view[u] \cup refused[u]
=============================================================================
