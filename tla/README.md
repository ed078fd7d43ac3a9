# Foti in TLA+

Foti is an iOS client for sharing photos. Its own code is about 2,500 lines of
Swift under `src/Foti/Foti`; everything else in the repository is vendored
(Firebase, gRPC, BoringSSL, JGProgressHUD and others). There is no server code:
the state of the system lives in Firebase (Auth, Firestore, Storage), and the
application is a set of view controllers whose methods start asynchronous calls
and whose closures, all run on the main queue, carry on from the answers. What
can go wrong is the order of those answers among themselves and among the
user's taps, and that is what is modelled here.

Of the vendored code one part decides what the application sees: the Firestore
client, which keeps the queue of writes, the local views and the two streams to
the backend. Everything the application's models assume of reads, listeners and
writes is what that client does, so its write path and its read path are
modelled as well, each with a model of its own.

Paths below are relative to `src/Foti/Foti`; `MC:38` is
`MainPage/MainController.swift` line 38. Paths that start with `remote/`,
`core/` and `local/` are relative to
`src/Foti/Pods/FirebaseFirestore/Firestore/core/src`.

## 1. The system

### Components

| Component | State | Operations | What makes it correct |
|---|---|---|---|
| **Home page**, `MainPage/MainController.swift` | `posts` (the rows), the refresh control, and, held by nobody, the listeners and reads under way | `viewDidLoad`, `refreshPosts`, `getUser`, `getFollowedUserValue`, `getPosts`, `postLiked` | rows are those of the people followed, newest first, not more often than asked for; what is meant to be there comes; the spinner stops; a like changes its own row |
| **Likes document**, the same file from line 136 | `Likes/{post}` in Firestore, a map of users to 0 or 1, written by every user's device | read, then `setData` or `updateData` | users' likes are independent; what a device shows is what is stored |
| **Sharing**, `AddPhoto/SharePhotoController.swift` | the Share button, the message, the photo, the HUD; upload, URL request and document under way | `btnSharePressed`, `savePostFS` | one post per press, its photo first, for the user who pressed, and the screen closes when it is saved |
| **Registration**, `RegisterController.swift` | HUD, `signedUserId`, chain of four calls | `btnSignUpPressed`, `btnHaveAccountPressed`, `dataChange`, picker | the account ends up with a Users document, written as itself |
| **Sign-in, log-out, tab bar**, `SignIn/SignInController.swift`, `UserProfile/UserProfileController.swift:55`, `MainTabBarController.swift` | Auth's current user (on disk), the pages, the modal over them | `btnSignInPressed`, `logOut`, `createView`, `viewDidLoad` | the pages in sight are the signed-in user's |
| **Follow button**, `UserProfile/UserProfileHeader.swift` | its title, `Follows/{user}` | read, then `setData` or `updateData` | the title says what is stored; nobody's follows are lost |
| **Profile page**, `UserProfile/UserProfileController.swift` | `posts`, grid or list | `getUser`, `getPostFS` | the posts of the user shown, each once; the first snapshot leaves them newest first, and every later one turns the array over (`UserProfileController.swift:45`) |
| **Comments**, `MainPage/CommentController.swift` | `comments`, the text field | snapshot, read of an author per comment, `document().setData` | every comment once, in order, sent once |
| **Search**, `Search/SearchUserController.swift` | `users`, `filteredUsers` | one read, sort, filter | shows what the text asks for |
| **Photo chooser**, `AddPhoto/PhotoChooseController.swift` | `photos`, `assets`, `chosenPhoto`, the header's image | background enumeration, image requests | the photo shared is the one chosen |
| **Camera**, `Camera/` | preview image | capture, save to the library | device I/O |
| **Models and extensions**, `Model/`, `Extension/` | - | `Post`, `User`, `Comment`, `createUser`, `timeBefore` | pure functions |
| **Delegates, cells, animations** | - | layout, template methods | - |
| **Firestore client: writes**, `core/sync_engine.cc`, `local/leveldb_mutation_queue.cc`, `local/local_store.cc`, `remote/remote_store.cc`, `remote/stream.cc`, `core/view.cc` | one queue of batches per user on disk, the next batch id, callbacks, the write pipeline, the write stream with its timers, the cached document and its view | `WriteMutations`, `HandleCredentialChange`, the events of the stream, `PopulateDocumentChanges` | queued writes reach the backend in their order and once the stream lives; callers are told about their own write; a listener never falls back |
| **Firestore client: reads and listeners**, `core/event_manager.cc`, `core/query_listener.cc`, `core/sync_engine.cc`, `remote/remote_store.cc`, `remote/online_state_tracker.cc`, `remote/remote_event.cc` | queries and their listeners, views, targets and the aggregator's counts, the watch stream, the online state and its timer | `AddQueryListener`, `RemoveQueryListener`, the events of the stream, the timer | a read is answered once, also when nobody answers; no listener misses a change; answers are about the listen they are taken for |

### How they interact

- *Firestore*. Every page listens to and reads Firestore through one SDK
  instance, so pages share the local view and the persisted queue of writes.
  The follow button's write is what the home page's listener on `Follows/{me}`
  reports (`MC:30-44`).
- *Notifications*. A post that has been saved is announced as `UpdatePosts`
  (`SharePhotoController.swift:123`), which the home page observes with
  `refreshPosts` (`MC:11`).
- *Auth*. `Auth.auth().currentUser` is read where it is needed, in callbacks
  too, never passed along.
- *The modal stack*. Sign-in, registration and sharing are modals over the tab
  bar; log-out presents sign-in over pages that stay alive underneath until
  `createView` replaces them.

### What is hard about it

In the application there is one thread of interest, the main queue, and no lock. What is hard:
listeners are added and never removed; a closure captures an index or reads
`self` and Auth many answers later; a document's existence is read in one call
and relied on in the next; any of a chain of calls can fail, and the process
can end between any two of them while the queue of writes survives it. In the
client all state belongs to one worker queue: what is hard there is that an
answer on a stream does not name its request, that a stream breaks, idles and is
tried again at any time, that a target is removed and added again while answers
to the first time are on their way, and that a timer must run exactly while
somebody waits. The list, line by line, is under `hazards` in `PROJECT.json`.

## 2. The modules

| Module | Models | State, in the code's terms | Actions |
|---|---|---|---|
| `Feed` | the home page of one user `Me` | `posts`, `refreshing` and `running` are the page; `followFresh`/`followSubs`, `postFresh`/`postSubs` count listeners before and after their first snapshot, `userGets`/`likeGets` reads in flight; `op[o]` is what the closures of one tap captured; `published`, `follows`, `stored`, `writeQ` are Firestore as the device sees it | `RaiseFollows`, `EditFollows` (snapshots of `Follows`, `MC:29-45`), `UserLoaded` (`getUser` and `Firestore.createUser`), `RaisePosts`, `PostsChanged`, `PostShown` (`getPosts`, `MC:46-93`), `Refresh` (`MC:22-28`), `postLiked`, `LikeRead`, `LikeDone` (`MC:136-181`), a failing form of each, `Relaunch` |
| `LikeBook` | abstract: the likes of one post | one register per user and the values the user has written that are undecided | `Ask`, `Save`, `Refuse` |
| `Likes` | the Likes document under all devices | `exists` and `val` are the document, `queue[u]` the writes queued on u's device, `reading` its reads under way, `main` the answers and completions in the order its main queue runs them, `shown` its row | `Tap`, `ReadAnswered`, `ReadRuns`, `ReadFails`, `CommitSet`, `CommitUpdate`, `UpdateNotFound`, `Refused`, `Ack`, `Restart` |
| `Share` | the sharing form, the navigation around it and who is signed in | per form: `photo`, `message`, `enabled`, `hud`, calls under way (`puts`, `urls`, `saves`), photos and documents made (`stored`, `posts`) | `btnSharePressed`, `PutDone`, `UrlDone`, `SaveDone`, a failing form of each, `Type`, `Back`, `Cancel`, `LogOut`, `SignIn`, `Relaunch` |
| `Session` | Auth's user, the pages and the screens over them, registration and sign-in | `me`, `tabs`, `modal`, `hud`, `scene`; `regStep` is the answer a registration waits for, `signing` the account a sign-in waits for | the buttons, `SignInDone`, `CreateDone`, `PutDone`, `UrlDone`, `SaveDone`, failing forms, `Nap`, `WakeUp`, `logOut`, `Relaunch` |
| `Follow` | the follow button on the open profile pages | `doc` is `Follows/Me`, `queue` the writes not sent yet, `looks` and `presses` the reads of `followButton` and of presses, `main` the answered callbacks in the order the main queue runs them, `title` the button | `Reload`, `Press`, `LookAnswered`, `PressAnswered`, `LookRuns`, `PressRuns`, `DoneRuns`, `Committed`, `Fails`, `Restart` |
| `Profile` | the profile pages over `Follow` | `stage` is how far a page is, `view` what its listener has reported, `refused` what the backend has refused of them, `posts` the array | `UserAnswered`, `FirstSnapshot`, `PostsChanged` (`UserProfileController.swift:29-51`), `ChangeView`, `PageFails`, and the actions of `Follow`; every snapshot is also its `Reload` |
| `Comments` | the comments of a post | `stored` and `queue` are Firestore, `view` what the listener has reported, `reads` the authors being read, `comments` the rows, `text` whether the field holds one | `FirstSnapshot`, `CommentsChanged`, `AuthorRead`, `Send`, `Saved`, `Refused`, `Cleared`, failing forms, `Publish`, `Restart` |
| `WriteQueue` | abstract: what the client promises of a device's writes | one queue per user, what the backend has applied, what was decided | `Issue`, `Apply`, `Decide` |
| `Writes` | the write path of the client | `queue`, `nextId` are on disk; `callbacks`, `pipeline`, `conn`, `ready` (handshake done), `idle` (idle timer) are the worker queue's; `up`, `down` what the stream carries; `cache`, `shown` the document; `log` the backend | `Write`, `SwitchUser`, `Restart`, `OnStreamStart`, `OnWriteStreamHandshakeComplete`, `OnWriteStreamMutationResult`, `OnWriteRefused`, `OnWriteOperationFailed`, `OnWriteStreamBroken`, `OnConnectivityChange`, `BackoffElapsed`, `IdleTimeout`, `ApplyRemoteEvent`, and the backend's |
| `Listeners` | the read path of the client | `listening` stands for queries, views and targets; `current`, `results`, `raised` are the views', `inbox` the events on the main queue, `state`, `failed`, `timer` the online state, `target`, `fresh` the aggregator, `up`, `down` the watch stream | `AddQueryListener`, `RemoveQueryListener`, `EventRuns`, `OnWatchStreamOpen`, `OnWatchStreamBroken`, `IdleTimeout`, `OnConnectivityChange`, `OnlineStateTimeout`, one action per message, and the backend's |
| `MCFeed`, `MCLikes`, `MCComments`, `MCProfile`, `MCWrites`, `MCListeners` | instances for TLC | values of functions such as `Owner` and `Date`, narrower initial states, symmetry | - |
| `FeedProofs`, `LikesProofs`, `ShareProofs`, `SessionProofs`, `CommentsProofs`, `ProfileProofs`, `WritesProofs`, `ListenersProofs` | theorems | - | - |

`Feed` and `Likes` look at a like from two sides. `Feed` has one device, its
rows and the captured index; there the two kinds of write do the same for the
value of `Me`. `Likes` has many devices and one row on each; there the kind of
write is the point. `Refresh(FALSE)` of `Feed` is what a share ends in.

Each module holds, before some actions, a variant marked *Mutant*: the action
with one plausible mistake. `PROJECT.json` pairs it with the property that fails
when the variant takes the action's place. No action uses them.

## 3. What is abstracted, and the environment

- *Posts, users, messages and photos* are model values; a message is there or
  is only white space, a photo is chosen or not.
- *Firestore listeners* in the application's models. All listeners of one query
  share one view, so a change
  is delivered to all of them in one step; a new listener's first snapshot is
  a step of its own and reports everything in the view as added. That is what
  `Listeners` finds the client to do (`ListenersKnow`); a snapshot from
  the cache, which it may raise first, appears as posts published later.
  A query that fails drops its listeners.
- *Reads* answer with the backend's value under the writes still queued on the
  device, as of the moment they answer.
  Every read is answered, which is `ReadsAreAnswered` of `Listeners`.
  In `Likes` and `Follow` an answer is worked out in one step and handled in a
  later one, because there the write is chosen by an answer that may be out of
  date: a document it missed may have come in between, by another user's `setData`
  (`MC:168`) or by one of the same page (`UserProfileHeader.swift:115`).
- *Writes* of one user are sent in order, survive the process, and lose their
  completion with it: `WriteQueue`, which `Writes` implements. In `Feed` the commit and the completion are one step; in
  `Likes` they are two. The queue is sent only while its user is signed in.
- *One device per user* in `Likes`, and one device that writes `Follows/Me` in
  `Follow`, with one page and one header per user shown.
- *Comments* of Me are sent from this device. What a text says is left out.
- *Dismissing* a form that has been popped from its navigation controller does
  nothing; the HUD covers a form but not the navigation bar or the keyboard.
- *Left out of `Session`*: form validity and the image picker, which only gate a
  press and choose a picture. A photo upload and its URL are steps that succeed
  or fail.
- *The backend of the client* is external: it handles the requests of a stream
  in their order, each once, and no more once the client has given the stream up;
  a permanent error ends the write stream, and an OK never does. On the watch
  stream a target's document, CURRENT and a snapshot come together, and
  documents change but are not deleted. In `Writes` every write is a setData of
  one document, and the watch stream brings it as of any version, late perhaps.
- *One variable for three maps* in `Listeners`: the queries of `EventManager`,
  the views of `SyncEngine` and the targets of `RemoteStore` are changed together
  by every call on the worker queue and stay equal. Two details of the
  aggregator are left out: a target's CURRENT that outlives an ADDED which
  answers a listen after a removal still pending, and limbo documents.
- *A restart* in `Feed` sends the whole queue at once, so that a new process
  starts from its outcome; `Likes` lets the queue live on, write by write.
- *Bounds*. `MaxRefreshes`, `MaxFollowEdits`, `MaxFailures`, `MaxRelaunches`,
  `MaxTaps`, `MaxRestarts`, `MaxSignOuts`, `MaxNaps`, `MaxLogOuts`, `MaxUses`,
  `MaxTroubles`, `MaxTyped`, `MaxWrites`, `MaxRefusals`, `MaxVersion` are guards
  that keep runs finite, `MaxPosts` and `MaxWrites` also the names there are. The
  proofs hold for every value of them. `Limit` of `Writes` is no bound but the
  client's `kMaxPendingWrites`, 10 in the code and 3 in the run.

*Fairness* is weak fairness of the answers only: the SDK, Storage and Auth
answer every call and report every snapshot. People are not fair: they may
never tap again, type again or sign in again. So the system may stop in every
state where nothing is under way, and the runs do not check for deadlock.
Failing actions are never fair: a call may fail whenever the bound still
allows it, and need not. In `Writes` credentials come, backoffs elapse, answers
are read and the backend answers what it is sent, refusals apart. In `Listeners`
less is assumed, since that is the point there: the two queues run and the
online timer fires, but a stream need not open and a backend that has said
nothing on it need never do; only one that has spoken goes on.

## 4. The runs

| Run | Question | Instance |
|---|---|---|
| `feed_load` | Do rows come only from people Me has followed, once per listener, newest first, whatever the order of callbacks? Is everything meant for the page shown for good, and does the spinner stop? | 2 users, 2 posts of different dates and owners, 1 refresh, 1 follow or unfollow, 1 failure or 1 restart; 318,779 states |
| `feed_hearts` | Do hearts and stored values agree once nothing is under way? | 2 posts of one person, 2 taps at a time without a limit on their number, 1 refresh, 1 failure, 1 restart; Me has no Users document, which leaves out the listeners on Me's own posts, of which there are none; 5,031,981 states |
| `likes` | Is the Likes document, once it exists, the answers that missed it are handled and their writes decided, a book of independent likes, and do idle devices show it unless a setData has erased a like? | 3 devices, 4 taps, 1 failure, 1 restart, from any document or none; 187,197 states |
| `share` | One post per form, photo first, the modal closed only by its own post, and a press becomes a post? | 2 forms, 2 accounts, 2 failures, 1 sign-out, 1 restart; 578,774 states |
| `session` | Are the pages in sight the signed-in user's, does a registration act as itself to the end, has who is in a Users document, does the HUD go away? | 2 accounts, 2 failures, 2 interruptions, 2 restarts, 2 log-outs; 26,866 states |
| `profile` | Does a page have the posts of its listener's view, each once? Does an idle button tell what is stored, do follows leave one another alone, and does a follow stay stored? | Me's page with 2 posts and one other with 1, nobody followed before, 5 reloads and presses, 1 failure or restart, answers waiting on the main queue; 650,858 states |
| `comments` | Is a comment on the page once, and is every comment sent stored and shown? | 2 comments of Me, one of Ann, one of Bob, who has no Users document (`Profiles`), 3 changes of the field, 2 failures, 1 restart; 198,547 states |
| `writes` | Is every answer about the front of the pipeline, is every caller told about its own write, does the listener never fall back, and is every write of a user who stays signed in decided? Does the client implement `WriteQueue`? | 4 writes of 2 users, a limit of 3, 1 refusal, 2 troubles (broken streams, connectivity changes, changes of user, restarts, writes of another device); 359,922 states |
| `listeners` | Is every read answered once, although the backend may say nothing, does every listener come to know every change, and do the timers run exactly when they should? | 2 reads and 1 listener of a document that changes once, 1 trouble (a broken stream, a connectivity change, a rejected target), a silent backend; 603,655 states |

Why these are enough: two rows are the fewest that can be out of order, and two
listeners on one person, which one refresh or one more follow gives, the fewest
that can duplicate a row. Two
taps are the fewest that interleave on one heart; two devices the fewest that
overwrite each other; four taps give each device two. Two forms are the fewest
for which a left upload can meet another form, and one failure each for an
upload and its retry's later step is what the button has to survive. Two
log-outs give two sessions after the first, with different or equal users.
Two pages are the fewest whose first follows meet, and five uses leave three
presses after the reloads: a follow, its repetition and an unfollow. Two posts
are the fewest of which one can be refused while the other is shown. Four writes over a limit of three are the
fewest for which one waits behind a full pipeline, and two troubles are a break
on top of a change of user or a restart. Two reads and a listener of one
document meet every case of a shared view: first, later, and removed while an
answer is on its way. Two comments of Me make
a queue in which one is refused and the other not.

The properties that say *"unless a like was misplaced"* (`misplaced` in `Feed`)
except the one thing the code really does wrong with rows: see below.

### What the code does not do

Three runs show the code breaking what its README promises; each stops at a
counterexample.

- `feed_stale_index` (`MC:164`): a like completes after a refresh has emptied
  `posts`; the captured index is out of range and the process ends.
- `likes_first` (`MC:168`): two users like a fresh photo at the same time; both
  reads miss, both write the whole document, and the later erases the earlier,
  whose user goes on seeing a red heart.
- `share_account` (`SharePhotoController.swift:103`): the post goes to whoever
  is signed in when the URL answers, not to who pressed Share.

The models show more of the kind, which no run repeats. Of the client:

- `remote/remote_store.cc:188`: `StopListening` of the last target, while the
  stream is still being tried, sets the online state back and clears its timer; a
  listen after that does not set it again, since the stream has been started.
  Until the stream opens or breaks, a read waits without limit, which
  `remote/online_state_tracker.cc:47` means to exclude. `SomethingEndsTheWait` and
  `ReadsAreAnswered` except it by `orphaned`.
- `remote/remote_event.cc`: a rejection of a target that has been removed, or that
  has another request without an answer, sets the count of pending answers to
  zero or leaves it too high: a later listen may take old answers for its own, or
  wait for good. `PendingCounted`, `SyncedIsNotStale` and `ReadsAreAnswered`
  except it by `crossed`.
- `remote/grpc_stream.cc:312`: a write operation that fails cancels the read that
  holds the next answer. If that answer says saved, and a refusal is behind it,
  the refusal is attributed to the write that was saved: its caller is told an
  error. `ToldItsOutcome` excepts it by `overtaken`.

In `Feed`: a post
inserted above a liked row makes the completion replace another photo's row (the
`misplaced` case, same line as `feed_stale_index`), and one more follow
listens again to everybody, so that every photo is on the page once more
(`CopiesPerListener` counts exactly that); after an unfollow the listener is
still there and new photos of that person go on arriving (`MC:38`). In `Share`: "Post Uploaded..." is
shown before the message is looked at, and the error branches at
`SharePhotoController.swift:82` and `115` leave the button disabled for good. In `Session`:
an answer that arrives while no scene is active leaves the HUD over the screen
(`SignInController.swift:94`), which `HudGoesAway` excepts by `naps > 0`; and
when a step after `createUser` fails, or the process ends before the last
(`RegisterController.swift:119`), the next start enters with a user who has no
Users document and whom search will never list, which `EnteredCanBeFound` excepts. In
`Follow`: the completion of `setData` leaves the title as it was
(`UserProfileHeader.swift:121`), Me can follow Me by the button titled Edit
Profile, and two first follows can replace one another
(`UserProfileHeader.swift:115`): when both reads miss the document before either
follow is written, both write the whole document, and the later erases the
earlier for good, after "Follow Successful". It is the mistake of `likes_first`;
`TitleTells`, `FollowsApart` and `FollowsStay` except what comes after such a
`setData` (`replaced`). In `Profile`: a post that the backend refuses stays on the page, and
every snapshot after the first turns the page upside down
(`UserProfileController.swift:45`). In `Comments`: a refused comment gets a second row, and a completion empties a
field that may hold the next comment by then.

## 5. The proofs

Each holds for all users, posts, dates, forms, accounts, documents, writes and
calls and for every bound, from the named assumptions of the modules (types of
the constants; `Nobody` is not an account; "closed" and "chooser" are not forms;
there are finitely many documents). The type invariant of every module but
`LikeBook` and `WriteQueue`, which have no types to keep, is a theorem; the runs
check it where an action could break it by what it takes from a queue or a
stream (`Writes`, `Listeners`).

**Feed.** `TypeCorrect`: `[]TypeOK`. `TypeOK` alone is not inductive: a
completion writes back the post captured by its tap, so it must be known that
every write in the queue belongs to a tap in its `write` stage, once; `Typed ==
TypeOK /\ QueueOK` is. `OnlyKnown`: `[]OnlyKnownPeople`, strengthened by what
the views hold (`Provenance`), since a snapshot passes a view on to reads and a
read to a row. `CopiesBounded`: `[]CopiesPerListener`, by counting the listeners a
call of `getPosts` still owes: listeners before their first snapshot may each add
one copy of a post, listeners past it one more copy only of posts not in the
view (`Accounts`). `NewestOnTop`: `[]NewestFirst`, from lemmas that
`SortRows` permutes the rows and orders them for any length, which rest on
ranks being distinct. `HeartsAgree`: `[]IdleHeartsAgree`, from `HeartsFollow`: the
only row of a post has the stored heart unless a write of the post is queued. A
read that adds a row answers with the queue's last value, and with a write of the
post queued nothing is claimed; the completion of a write puts the value it stores
into the row its tap captured, which is the post's only one, or else another row
stands there by now (`misplaced`) or none (the process ends).

**Likes.** `TypeCorrect`; `WarmForever`: no setData once the document exists, the
answers that missed it have been handled and the setData calls they led to are
decided. All three parts of `Warm` are needed: an answer "missing" may be handled,
and its `setData` be queued, long after the document has come. `WarmIsABook`: `WarmSpec => IsABook`, the
refinement of `LikeBook` that maps a document to registers and a queue to the
values in it; `BookFromThen`: `Spec => BookOnceWarm`, the same from any
document, step by step from the moment it is warm. It holds because under `Warm`
every commit is an `updateData` of one key; the map of a restart is a stutter.
`IdleRowsAreSaved`: `[]HeartsAgreeUnlessErased`, from `Sound`: an empty queue
means that the last completion among the callbacks, or else the row, has the stored
value; a queue whose last write came back from disk, which nobody will be told of,
means that the row shows that write's value already; writes restored from disk
are in front of those of the running process; and every `updateData` finds a
document or waits behind the `setData` that creates it, as does an answer "there"
that waits to be handled (`Backed`), so that none is refused.

**Share.** `TypeCorrect`; `SharesOnce`: calls and documents of a form sum up to
at most one and to none while its button is enabled; `PhotoFirst`;
`ClosesForItsPost`. The counters are typed in lemmas of their own, and the sum
is shown form by form.

**Session.** `TypeCorrect`; `OwnPages` and `RegistersItself`, from one
invariant, `Covered`: a registration waits only under its HUD over the
registration screen, a sign-in only under its own over the sign-in screen. So
two are never under way, nobody can log out meanwhile, and the user a
registration was started for is the user every later step finds.
`EntersFindable`: `[]EnteredCanBeFound`, with `Findable`: only accounts Auth knows
sign in, and without failures and restarts each of those has a document, one
queued, or the registration under way, whose screen covers the tab bar.

**Comments.** `TypeCorrect`; `CopiesOnce`: `[]CopiesPerChange`, counting rows
and reads under way. What a change can add a second time depends on what
Firestore still has: the queue holds a comment once and none that is stored, and
one that was refused is in neither (`Kept`).

**Profile.** `TypeCorrect` (pages, buttons, queue and callbacks); `PagesHavePosts`:
`[]PageHasItsPosts`. What a snapshot adds is new to the listener's view, which the
SDK keeps, and not to the array, which the controller keeps; that it is not on the
page yet follows from the property itself, since all rows are in the view or
refused, and a listener starts with an empty array (`Paged`). `TurnedFacts` says
that appending and reversing loses and doubles nothing. `TitlesTrue`: `[]TitleTells`, from `Told`. Titles are compared
with `Local`, what this device reads: the document behind the queue, which a
commit does not change (`ReplayFirst`). The newest write of a user tells what
`Local` has; the newest callback of a page tells it too unless a write is still
to be completed, and the title where no callback waits. That a commit finds
nothing newer needs the order of the queue: writes whose completion is lost are
in front (`LiveLast`), and no `updateData` precedes the `setData` that founds the
document (`Founded`). `FollowsAreApart`: `[][~replaced => OthersKept]_vars`: failures included, a
step of the backend changes the key of its own user only, unless a `setData` has
been issued over a document that is there (`replaced`). A first follow waits
only where there is no document (`OneFounder`), because a read finds one as soon
as a `setData` is queued (`ReplayExists`).

`Replayed`, the document behind the queue, is a recursive function, and what it
makes of a longer queue is an induction over its length. The library's induction
theorems take an operator as a parameter, which no installed prover can
instantiate; `LeastNumber` gets around them. It is well-foundedness of `<`, which
is about a set and not an operator; `UpTo` draws from it that a set of numbers
with 0 and every successor has all of them, and `RowExists` that a recursive
function over a sequence has the values its definition says.

**Writes.** Every property of the run but its liveness: `TypeCorrect`,
`PipelineHolds`, `StreamStays`, `AnswersCorrelate`, `OutcomesTold`,
`ReadsHold`, `NeverOlder` and the refinement `PromiseKept`:
`Spec => Promise!Spec`. The invariant, `Kept`, has four parts that are shown
one after the other, each over the ones before. `Core`: ids rise along every
queue and stay below `nextId`, so that `FillWritePipeline`, which looks for the
first batch with an id above the last one it took, takes the very next; the
pipeline is the front of the queue; and what the stream carries, answers before
requests, is the pipeline in its order. `Truthful`: an answer that says saved
names the place of its write in the backend's log, a refusal is of a write the
backend has refused. `Told`: every callback waits for a batch of its user's
queue and the other way round, but for processes that are gone; this is where
ids that come back after a removal could harm. `Issued`: writes are new when
issued, which the abstract queue asks for. Without any one of them the others
are not inductive: an outcome is right because the answer is about the front,
which needs the order of the stream, which needs the order of the ids.

**Listeners.** Every property of the run but its liveness: `TypeCorrect`,
`OnlineStateHolds`, `StreamThere`, `WaitsEnd`, `OneAnswer`, `NothingMissed`,
`CountsAgree`, `NeverStale`, from four invariants. `Connected`: a listen behind a failure sets
no timer, which is right because a failure leaves the client offline, where
nobody waits; a listen on a stream under way sets none, which is right because
such a stream has one, has been heard of or has failed, unless its timer was
orphaned. `Delivered`: an error is the last event of a listener that is gone, and
the last event of one that is there shows the document of its view. `Counted`:
the aggregator's count of a document is the number of its requests in `up` plus
its answers in `down`, by finite-set arithmetic on positions of the two queues.
`Recent`: where no request of a document is without its answer, a document
message in `down` behind the last answer is about the present listen and not
older than its call (`Fits`), and CURRENT has such a message before it (`Led`);
so a view is synchronized by a version its listener asked for or a later one.
`NeverStale` is the action property `SyncedIsNotStale`: of each event as it is
raised, and not of the events a listener has kept, because those may be older
than the end of `crossed`: two rejections that cross a listen mislead the
aggregator, and when the idle timer closes the stream later, the counts are
right again while the wrong event is still in the inbox.

*Model-checked only.* Liveness (`EventuallyShown`, `SpinnerStops`,
`SharingSucceeds`, `HudGoesAway`, `FollowsStay`, `CommentsAppear`,
`EventuallySettled`, `ReadsAreAnswered`), which is beyond the prover. Every
safety invariant, action property and refinement of the passing runs is a theorem.

## 6. Not modelled, and the plan

Done, in order of importance: `Feed`; `LikeBook` and `Likes`; `Share`;
`Session`; `Follow` and `Profile`; `Comments`; `WriteQueue` and `Writes`;
`Listeners`. What could follow:

1. Compositions: `Session` with `Feed` and `Profile` of two users (what old pages
   and their listeners do after a log-out), `Share` with `Feed` (the
   notification), `Follow` with `Feed` (`EditFollows` implemented by the button).
2. `Writes` and `Listeners` together over one online state and one cache; queries
   of many documents with limbo documents.

Not modelled, and why:

- *The photo chooser's loading* (`PhotoChooseController.swift:37-64`). A
  background thread appends to two Swift arrays while the main thread counts and
  indexes them. That is a data race whose outcome Swift leaves undefined, the end
  of the process included, so that no invariant of the chooser would survive the
  first step. The late images of its header come in an order the photo library
  decides. `Share` takes any photo or none from the header, which covers both.
- *Search*: one read of Users, then a sort and a filter on the main queue; no state
  that a second step could find changed.
- *`timeBefore`*: a pure function that formats an age.
- *Form validity, the image pickers, the camera, animations, cells and layout*:
  device input and display.
- *The rest of the client*: transactions, batches of several documents and bundles,
  which the application does not use; patches and their preconditions, whose
  effect is in `Likes` and `Follow` (`updateData` on a document that is not there);
  deletions, and with them what the aggregator concludes of a document that is not
  there, from an existence filter (`remote/remote_event.cc:220`) or from CURRENT
  without a document (`remote/remote_event.cc:262`): the application deletes no
  document, and `Likes` and `Follow` take "missing" as an answer like any other;
  existence filters of queries of many documents, garbage
  collection and limbo resolution.
- *The other vendored libraries* (Auth, Storage, gRPC, BoringSSL, the HUD, image
  loading): third-party code that `Session` and `Share` know by its answers.
