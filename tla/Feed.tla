-------------------------------- MODULE Feed --------------------------------
(***************************************************************************)
(* The home page of Foti (MainPage/MainController.swift) for one signed-in *)
(* user Me: the rows it shows, the Firestore listeners and document reads  *)
(* that fill them, and the like button on a row.                           *)
(*                                                                         *)
(* The page never keeps a list of what it listens to.  It registers a      *)
(* listener on Follows/Me, and on every snapshot of it reads the Users     *)
(* document of every followed person and registers one more listener on    *)
(* that person's posts; every post a listener reports is given a read of   *)
(* its Likes document, and only the answer of that read appends the row.   *)
(* All of these answers run on the main queue in any order, mixed with     *)
(* taps and refreshes; the like button keeps the INDEX of the row it was   *)
(* tapped on across two of them.                                           *)
(***************************************************************************)
EXTENDS Naturals, Sequences, SequencesExt, FiniteSets

CONSTANTS
    Users,          \* accounts
    Me,             \* Auth.auth().currentUser, the user of this device
    Posts,          \* documents of all the Posts/{user}/Photo_Posts collections
    Owner,          \* the user whose collection holds a post
    Date,           \* PostDate of a post
    Profiles,       \* users who have a Users document (a failed registration leaves none)
    LikeOps,        \* taps on like buttons that can be in progress at the same time
    MaxRefreshes,   \* bound: calls of refreshPosts
    MaxFollowEdits, \* bound: changes of Follows/Me
    MaxFailures,    \* bound: reads, listens and writes the backend fails
    MaxRelaunches   \* bound: restarts of the application

ASSUME FeedAssumption ==
    /\ Me \in Users
    /\ Owner \in [Posts -> Users]
    /\ Date \in [Posts -> Nat]
    /\ Profiles \subseteq Users

VARIABLES
    (* Firestore, as this device's SDK presents it *)
    published,   \* the posts that exist
    follows,     \* the keys of the document Follows/Me
    stored,      \* stored[p]: the backend's Likes/p holds Me |-> 1
    writeQ,      \* the SDK's mutation queue: like operations, oldest first
    (* listeners and reads of the page that have not answered, or will again *)
    followFresh, \* listeners on Follows/Me without a first snapshot
    followSubs,  \* listeners on Follows/Me past their first snapshot
    userGets,    \* userGets[u]: reads of Users/u in flight
    postFresh,   \* postFresh[u]: listeners on u's posts without a first snapshot
    postSubs,    \* postSubs[u]: listeners on u's posts past their first snapshot
    view,        \* view[u]: the posts of u already reported to those listeners
    likeGets,    \* likeGets[p]: reads of Likes/p, each ready to append a row
    (* the page *)
    posts,       \* the rows, first on top
    refreshing,  \* the refresh control is spinning
    running,     \* FALSE once an index out of range has ended the process
    op,          \* op[o]: what tap o is waiting for, and what it captured
    (* history, read by no guard but the bounds *)
    everFollowed,\* who was ever a key of Follows/Me
    listens,     \* listens[u]: calls of getPosts(u) since the application started
    misplaced,   \* since the last refresh, a like has replaced another post's row
    refreshes, edits, failures, relaunches

server  == <<published, follows, stored, writeQ>>
reads   == <<followFresh, followSubs, userGets, postFresh, postSubs, view, likeGets, listens>>
page    == <<posts, refreshing, running, misplaced>>
counts  == <<refreshes, edits, failures, relaunches>>
vars    == <<server, reads, page, op, everFollowed, counts>>

Row     == [id : Posts, liked : BOOLEAN]
Idle    == [stage |-> "idle"]
InFlight == [stage : {"get", "write"}, row : Nat \ {0}, post : Row]

\* Mutant: a collectionGroup query, which ignores whose posts are asked for.
EverybodysPosts(u) == {p \in published : u \in Users}
ServerPosts(u) == {p \in published : Owner[p] = u}

\* The value a tap writes for Me: the opposite of the heart it was tapped on.
WrittenHeart(o) == ~op[o].post.liked

\* Likes/p as a read on this device answers it: the backend's value under the
\* writes that are still in the mutation queue.
QueuedFor(p) == {i \in DOMAIN writeQ : op[writeQ[i]].post.id = p}
LocalHeart(p) ==
    IF QueuedFor(p) = {}
    THEN stored[p]
    ELSE WrittenHeart(writeQ[CHOOSE i \in QueuedFor(p) : \A j \in QueuedFor(p) : j <= i])

\* posts.sort by PostDate, newest first; rows of equal date keep their order.
Before(s, j, i) == \/ Date[s[j].id] > Date[s[i].id]
                   \/ Date[s[j].id] = Date[s[i].id] /\ j < i
Rank(s, i) == 1 + Cardinality({j \in DOMAIN s : Before(s, j, i)})
\* Mutant: the sort is left out.
RowsAsTheyCome(s) == [k \in DOMAIN s |-> s[k]]
SortRows(s) == [k \in DOMAIN s |-> s[CHOOSE i \in DOMAIN s : Rank(s, i) = k]]

Copies(p) == Cardinality({i \in DOMAIN posts : posts[i].id = p})

----------------------------------------------------------------------------
(* viewDidLoad: nothing shown, getUser and getFollowedUserValue under way. *)
PageLoaded ==
    /\ followFresh = 1 /\ followSubs = 0
    /\ userGets = [u \in Users |-> IF u = Me THEN 1 ELSE 0]
    /\ postFresh = [u \in Users |-> 0]
    /\ postSubs = [u \in Users |-> 0]
    /\ view = [u \in Users |-> {}]
    /\ likeGets = [p \in Posts |-> 0]
    /\ listens = [u \in Users |-> 0]
    /\ posts = <<>>
    /\ refreshing = FALSE /\ running = TRUE /\ misplaced = FALSE
    /\ op = [o \in LikeOps |-> Idle]

Init ==
    /\ PageLoaded
    /\ published \in SUBSET Posts
    /\ follows \in SUBSET Users
    /\ stored \in [Posts -> BOOLEAN]
    /\ \A p \in Posts : stored[p] => p \in published
    /\ writeQ = <<>>
    /\ everFollowed = follows
    /\ refreshes = 0 /\ edits = 0 /\ failures = 0 /\ relaunches = 0

----------------------------------------------------------------------------
(* getFollowedUserValue: every snapshot of Follows/Me, whatever changed in *)
(* it, reads the Users document of EVERY key.                              *)

\* The first snapshot of a new listener.
RaiseFollows ==
    /\ running /\ followFresh > 0
    /\ followFresh' = followFresh - 1
    /\ followSubs' = followSubs + 1
    /\ userGets' = [u \in Users |-> userGets[u] + IF u \in follows THEN 1 ELSE 0]
    /\ UNCHANGED <<server, postFresh, postSubs, view, likeGets, listens, page, op,
                   everFollowed, counts>>

\* Me follows or unfollows u on a profile page, u = Me included: the listeners
\* past their first snapshot report the new document at once.
EditFollows(u) ==
    /\ running /\ edits < MaxFollowEdits
    /\ follows' = IF u \in follows THEN follows \ {u} ELSE follows \cup {u}
    /\ everFollowed' = everFollowed \cup follows'
    /\ userGets' = [v \in Users |-> userGets[v] + IF v \in follows' THEN followSubs ELSE 0]
    /\ edits' = edits + 1
    /\ UNCHANGED <<published, stored, writeQ, followFresh, followSubs, postFresh, postSubs,
                   view, likeGets, listens, page, op, refreshes, failures, relaunches>>

\* The SDK drops every listener of a query that fails; the page only prints.
FollowListenFails ==
    /\ running /\ failures < MaxFailures
    /\ followFresh + followSubs > 0
    /\ followFresh' = 0 /\ followSubs' = 0
    /\ failures' = failures + 1
    /\ UNCHANGED <<server, userGets, postFresh, postSubs, view, likeGets, listens, page, op,
                   everFollowed, refreshes, edits, relaunches>>

\* Users/u answers createUser, or getUser when u = Me: getPosts(u) adds a
\* listener; without a document nothing more happens.
UserLoaded(u) ==
    /\ running /\ userGets[u] > 0
    /\ userGets' = [userGets EXCEPT ![u] = @ - 1]
    /\ IF u \in Profiles
       THEN /\ postFresh' = [postFresh EXCEPT ![u] = @ + 1]
            /\ listens' = [listens EXCEPT ![u] = @ + 1]
       ELSE UNCHANGED <<postFresh, listens>>
    /\ UNCHANGED <<server, followFresh, followSubs, postSubs, view, likeGets, page, op,
                   everFollowed, counts>>

UserGetFails(u) ==
    /\ running /\ failures < MaxFailures
    /\ userGets[u] > 0
    /\ userGets' = [userGets EXCEPT ![u] = @ - 1]
    /\ failures' = failures + 1
    /\ UNCHANGED <<server, followFresh, followSubs, postFresh, postSubs, view, likeGets, listens,
                   page, op, everFollowed, refreshes, edits, relaunches>>

----------------------------------------------------------------------------
(* getPosts: one read of Likes for every post a snapshot ADDS.             *)

ReadLikes(added, n) ==
    likeGets' = [p \in Posts |-> likeGets[p] + IF p \in added THEN n ELSE 0]

\* Mutant: endRefreshing only for the changes after the first snapshot.
RaisePostsSpinning(u) ==
    /\ running /\ postFresh[u] > 0
    /\ view' = [view EXCEPT ![u] = IF postSubs[u] = 0 THEN ServerPosts(u) ELSE @]
    /\ ReadLikes(view'[u], 1)
    /\ postFresh' = [postFresh EXCEPT ![u] = @ - 1]
    /\ postSubs' = [postSubs EXCEPT ![u] = @ + 1]
    /\ UNCHANGED <<server, followFresh, followSubs, userGets, listens, page, op, everFollowed,
                   counts>>

\* Mutant: a new listener makes all the listeners of the query report again.
RaisePostsToAll(u) ==
    /\ running /\ postFresh[u] > 0
    /\ view' = [view EXCEPT ![u] = IF postSubs[u] = 0 THEN ServerPosts(u) ELSE @]
    /\ ReadLikes(view'[u], postSubs[u] + 1)
    /\ postFresh' = [postFresh EXCEPT ![u] = @ - 1]
    /\ postSubs' = [postSubs EXCEPT ![u] = @ + 1]
    /\ refreshing' = FALSE
    /\ UNCHANGED <<server, followFresh, followSubs, userGets, listens, posts, running, misplaced,
                   op, everFollowed, counts>>

\* The first snapshot of a new listener reports everything in the query's view:
\* the backend's posts when it is the query's first listener, otherwise what the
\* other listeners have been told.
RaisePosts(u) ==
    /\ running /\ postFresh[u] > 0
    /\ view' = [view EXCEPT ![u] = IF postSubs[u] = 0 THEN ServerPosts(u) ELSE @]
    /\ ReadLikes(view'[u], 1)
    /\ postFresh' = [postFresh EXCEPT ![u] = @ - 1]
    /\ postSubs' = [postSubs EXCEPT ![u] = @ + 1]
    /\ refreshing' = FALSE
    /\ UNCHANGED <<server, followFresh, followSubs, userGets, listens, posts, running, misplaced,
                   op, everFollowed, counts>>

\* New posts of u: the SDK reports them to all the listeners of the query.
PostsChanged(u) ==
    /\ running /\ postSubs[u] > 0
    /\ view[u] # ServerPosts(u)
    /\ ReadLikes(ServerPosts(u) \ view[u], postSubs[u])
    /\ view' = [view EXCEPT ![u] = ServerPosts(u)]
    /\ refreshing' = FALSE
    /\ UNCHANGED <<server, followFresh, followSubs, userGets, postFresh, postSubs, listens, posts,
                   running, misplaced, op, everFollowed, counts>>

PostsListenFails(u) ==
    /\ running /\ failures < MaxFailures
    /\ postFresh[u] + postSubs[u] > 0
    /\ postFresh' = [postFresh EXCEPT ![u] = 0]
    /\ postSubs' = [postSubs EXCEPT ![u] = 0]
    /\ view' = [view EXCEPT ![u] = {}]
    /\ refreshing' = FALSE
    /\ failures' = failures + 1
    /\ UNCHANGED <<server, followFresh, followSubs, userGets, likeGets, listens, posts, running,
                   misplaced, op, everFollowed, refreshes, edits, relaunches>>

\* The answer of a read of Likes/p: append, reverse, sort.
PostShown(p) ==
    /\ running /\ likeGets[p] > 0
    /\ likeGets' = [likeGets EXCEPT ![p] = @ - 1]
    /\ posts' = SortRows(Reverse(Append(posts, [id |-> p, liked |-> LocalHeart(p)])))
    /\ UNCHANGED <<server, followFresh, followSubs, userGets, postFresh, postSubs, view, listens,
                   refreshing, running, misplaced, op, everFollowed, counts>>

\* A failed read of Likes/p drops the post itself.
PostDropped(p) ==
    /\ running /\ failures < MaxFailures
    /\ likeGets[p] > 0
    /\ likeGets' = [likeGets EXCEPT ![p] = @ - 1]
    /\ failures' = failures + 1
    /\ UNCHANGED <<server, followFresh, followSubs, userGets, postFresh, postSubs, view, listens,
                   page, op, everFollowed, refreshes, edits, relaunches>>

\* Somebody shares a post.
Publish(p) ==
    /\ p \notin published
    /\ published' = published \cup {p}
    /\ UNCHANGED <<follows, stored, writeQ, reads, page, op, everFollowed, counts>>

----------------------------------------------------------------------------
\* Mutant: refreshPosts without getUser.
RefreshFollowedOnly(pulled) ==
    /\ running /\ refreshes < MaxRefreshes
    /\ pulled => ~refreshing
    /\ refreshing' = (refreshing \/ pulled)
    /\ posts' = <<>>
    /\ misplaced' = FALSE
    /\ followFresh' = followFresh + 1
    /\ refreshes' = refreshes + 1
    /\ UNCHANGED <<server, followSubs, userGets, postFresh, postSubs, view, likeGets, listens,
                   running, op, everFollowed, edits, failures, relaunches>>

\* refreshPosts, pulled (the control spins until a snapshot of posts) or called
\* by the notification of SharePhotoController.  No listener is removed.
Refresh(pulled) ==
    /\ running /\ refreshes < MaxRefreshes
    /\ pulled => ~refreshing
    /\ refreshing' = (refreshing \/ pulled)
    /\ posts' = <<>>
    /\ misplaced' = FALSE
    /\ followFresh' = followFresh + 1
    /\ userGets' = [userGets EXCEPT ![Me] = @ + 1]
    /\ refreshes' = refreshes + 1
    /\ UNCHANGED <<server, followSubs, postFresh, postSubs, view, likeGets, listens, running, op,
                   everFollowed, edits, failures, relaunches>>

----------------------------------------------------------------------------
(* postLiked: a tap captures the row's index and a copy of its post, reads *)
(* the Likes document, writes it, and on success puts its copy of the post *)
(* back at the captured index.                                             *)

postLiked(o, row) ==
    /\ running /\ op[o] = Idle
    /\ op' = [op EXCEPT ![o] = [stage |-> "get", row |-> row, post |-> posts[row]]]
    /\ UNCHANGED <<server, reads, page, everFollowed, counts>>

\* The Likes document answers: updateData when it exists, setData when not; for
\* the value of Me they do the same.
LikeRead(o) ==
    /\ running /\ op[o] # Idle /\ op[o].stage = "get"
    /\ op' = [op EXCEPT ![o].stage = "write"]
    /\ writeQ' = Append(writeQ, o)
    /\ UNCHANGED <<published, follows, stored, reads, page, everFollowed, counts>>

LikeReadFails(o) ==
    /\ running /\ failures < MaxFailures
    /\ op[o] # Idle /\ op[o].stage = "get"
    /\ op' = [op EXCEPT ![o] = Idle]
    /\ failures' = failures + 1
    /\ UNCHANGED <<server, reads, page, everFollowed, refreshes, edits, relaunches>>

\* Mutant: the completion turns the heart of the row as it is now, not of the
\* copy captured by the tap.
LikeDoneToggling(o) ==
    LET post == op[o].post
        row  == op[o].row
    IN  /\ running /\ writeQ # <<>> /\ Head(writeQ) = o
        /\ writeQ' = Tail(writeQ)
        /\ stored' = [stored EXCEPT ![post.id] = WrittenHeart(o)]
        /\ op' = [op EXCEPT ![o] = Idle]
        /\ IF row \in DOMAIN posts
           THEN /\ posts' = [posts EXCEPT ![row].liked = ~@]
                /\ misplaced' = (misplaced \/ posts[row].id # post.id)
                /\ UNCHANGED running
           ELSE /\ running' = FALSE
                /\ UNCHANGED <<posts, misplaced>>
        /\ UNCHANGED <<published, follows, reads, refreshing, everFollowed, counts>>

\* The backend accepts the oldest write.
LikeDone(o) ==
    LET post == [op[o].post EXCEPT !.liked = WrittenHeart(o)]
        row  == op[o].row
    IN  /\ running /\ writeQ # <<>> /\ Head(writeQ) = o
        /\ writeQ' = Tail(writeQ)
        /\ stored' = [stored EXCEPT ![post.id] = WrittenHeart(o)]
        /\ op' = [op EXCEPT ![o] = Idle]
        /\ IF row \in DOMAIN posts
           THEN /\ posts' = [posts EXCEPT ![row] = post]
                /\ misplaced' = (misplaced \/ posts[row].id # post.id)
                /\ UNCHANGED running
           ELSE /\ running' = FALSE
                /\ UNCHANGED <<posts, misplaced>>
        /\ UNCHANGED <<published, follows, reads, refreshing, everFollowed, counts>>

\* The backend rejects the oldest write; the page only prints.
LikeRejected(o) ==
    /\ running /\ failures < MaxFailures
    /\ writeQ # <<>> /\ Head(writeQ) = o
    /\ writeQ' = Tail(writeQ)
    /\ op' = [op EXCEPT ![o] = Idle]
    /\ failures' = failures + 1
    /\ UNCHANGED <<published, follows, stored, reads, page, everFollowed, refreshes, edits,
                   relaunches>>

----------------------------------------------------------------------------
\* The application ends, crashed or closed, and is started again.  Its queue of
\* writes is on disk and reaches the backend; its callbacks are gone.
Relaunch ==
    /\ relaunches < MaxRelaunches
    /\ relaunches' = relaunches + 1
    /\ stored' = [p \in Posts |-> LocalHeart(p)]
    /\ writeQ' = <<>>
    /\ followFresh' = 1 /\ followSubs' = 0
    /\ userGets' = [u \in Users |-> IF u = Me THEN 1 ELSE 0]
    /\ postFresh' = [u \in Users |-> 0]
    /\ postSubs' = [u \in Users |-> 0]
    /\ view' = [u \in Users |-> {}]
    /\ likeGets' = [p \in Posts |-> 0]
    /\ listens' = [u \in Users |-> 0]
    /\ posts' = <<>>
    /\ refreshing' = FALSE /\ running' = TRUE /\ misplaced' = FALSE
    /\ op' = [o \in LikeOps |-> Idle]
    /\ UNCHANGED <<published, follows, everFollowed, refreshes, edits, failures>>

Loading ==
    \/ RaiseFollows
    \/ \E u \in Users : UserLoaded(u) \/ RaisePosts(u) \/ PostsChanged(u)
    \/ \E p \in Posts : PostShown(p)

Failing ==
    \/ FollowListenFails
    \/ \E u \in Users : UserGetFails(u) \/ PostsListenFails(u)
    \/ \E p \in Posts : PostDropped(p)
    \/ \E o \in LikeOps : LikeReadFails(o) \/ LikeRejected(o)

Liking ==
    \E o \in LikeOps :
        \/ \E row \in DOMAIN posts : postLiked(o, row)
        \/ LikeRead(o)
        \/ LikeDone(o)

Next ==
    \/ Loading
    \/ Failing
    \/ Liking
    \/ \E u \in Users : EditFollows(u)
    \/ \E p \in Posts : Publish(p)
    \/ \E pulled \in BOOLEAN : Refresh(pulled)
    \/ Relaunch

Spec == Init /\ [][Next]_vars

\* The SDK answers every read and reports every snapshot; people are free to stop.
Fairness ==
    /\ WF_vars(RaiseFollows)
    /\ \A u \in Users : /\ WF_vars(UserLoaded(u))
                        /\ WF_vars(RaisePosts(u))
                        /\ WF_vars(PostsChanged(u))
    /\ \A p \in Posts : WF_vars(PostShown(p))
    /\ \A o \in LikeOps : WF_vars(LikeRead(o)) /\ WF_vars(LikeDone(o))

FairSpec == Spec /\ Fairness

----------------------------------------------------------------------------
TypeOK ==
    /\ published \in SUBSET Posts
    /\ follows \in SUBSET Users
    /\ stored \in [Posts -> BOOLEAN]
    /\ writeQ \in Seq(LikeOps)
    /\ followFresh \in Nat /\ followSubs \in Nat
    /\ userGets \in [Users -> Nat]
    /\ postFresh \in [Users -> Nat]
    /\ postSubs \in [Users -> Nat]
    /\ view \in [Users -> SUBSET Posts]
    /\ likeGets \in [Posts -> Nat]
    /\ listens \in [Users -> Nat]
    /\ posts \in Seq(Row)
    /\ refreshing \in BOOLEAN /\ running \in BOOLEAN /\ misplaced \in BOOLEAN
    /\ op \in [LikeOps -> {Idle} \cup InFlight]
    /\ everFollowed \in SUBSET Users
    /\ refreshes \in Nat /\ edits \in Nat /\ failures \in Nat /\ relaunches \in Nat

\* The mutation queue holds every like that waits for its write, once.
QueueOK ==
    /\ \A i, j \in DOMAIN writeQ : writeQ[i] = writeQ[j] => i = j
    /\ \A i \in DOMAIN writeQ : op[writeQ[i]] # Idle /\ op[writeQ[i]].stage = "write"

Known(u) == u = Me \/ u \in everFollowed

\* Provenance.  Whatever is read, listened to, on its way to the page or on it
\* belongs to Me or to somebody Me has followed: the chain Follows -> Users ->
\* Photo_Posts -> Likes of asynchronous callbacks brings in nobody else's posts.
OnlyKnownPeople ==
    /\ \A u \in Users : userGets[u] + postFresh[u] + postSubs[u] > 0 => Known(u)
    /\ \A p \in Posts : likeGets[p] > 0 => Known(Owner[p])
    /\ \A i \in DOMAIN posts : Known(Owner[posts[i].id])
    /\ \A o \in LikeOps : op[o] # Idle => Known(Owner[op[o].post.id])

\* A listener reports a post once: counting the rows and the answers still on
\* their way, a post is on the page at most as often as getPosts has listened to
\* its owner, through refreshes, follows, failed listeners and new posts in any
\* order.  (A like that lands on another row makes a copy: not counted here.)
CopiesPerListener ==
    ~misplaced => \A p \in Posts : Copies(p) + likeGets[p] <= listens[Owner[p]]

\* Whatever order the Likes answers come in, the newest post is on top.
NewestFirst ==
    ~misplaced => \A i, j \in DOMAIN posts : i < j => Date[posts[i].id] >= Date[posts[j].id]

\* When no like is in progress and nothing has failed, the heart of a post shown
\* once is the value in its Likes document, whatever double taps, refreshes and
\* restarts came before and in whatever order the reads of the taps answered.
IdleHeartsAgree ==
    (running /\ failures = 0 /\ ~misplaced /\ \A o \in LikeOps : op[o] = Idle) =>
        \A i \in DOMAIN posts :
            Copies(posts[i].id) = 1 => posts[i].liked = stored[posts[i].id]

\* Without failures, a post of somebody who stays followed, or of Me, ends up on
\* the page for good, although refreshes, follows and new posts interleave.
OnPage(p) == \E i \in DOMAIN posts : posts[i].id = p
MeantForPage(p) ==
    p \in published /\ Owner[p] \in Profiles /\ (Owner[p] \in follows \/ Owner[p] = Me)
EventuallyShown ==
    \A p \in Posts : <>[](MeantForPage(p) /\ failures = 0) => <>[]OnPage(p)

\* The spinner of a pulled refresh stops, because some snapshot of posts comes.
SpinnerStops == refreshing ~> (~refreshing \/ failures > 0)

(* What README.md promises and the code does not do. *)

\* Liking a photo does not end the application.
LikingIsSafe == running

=============================================================================
