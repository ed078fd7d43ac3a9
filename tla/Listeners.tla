------------------------------ MODULE Listeners ------------------------------
(***************************************************************************)
(* How the Firestore SDK answers reads and listeners of documents:         *)
(* EventManager, QueryListener and the views of SyncEngine, the watch      *)
(* stream with its aggregator, and the OnlineStateTracker with the timer   *)
(* that keeps a read from waiting for a backend that says nothing.         *)
(*                                                                         *)
(* All of it runs on the worker queue, one action at a time; events cross  *)
(* to the main queue, and the removal a read ends with crosses back.  The  *)
(* backend answers the requests of a stream in their order, each once, and *)
(* tells a target's document, CURRENT and a snapshot together.  Documents  *)
(* change but are not deleted.                                             *)
(*                                                                         *)
(* Between two actions the queries of EventManager, the views of SyncEngine*)
(* and the targets of RemoteStore are of the same documents, those that    *)
(* have a listener: one variable stands for all three.                     *)
(***************************************************************************)
EXTENDS Integers, Sequences, FiniteSets

CONSTANTS
    Docs,           \* documents
    Listeners,      \* calls of getDocument and of addSnapshotListener
    Gets,           \* those of getDocument
    Doc,            \* Doc[l]: the document l is about
    MaxVersion,     \* bound: changes of a document
    MaxTroubles     \* bound: broken streams, connectivity changes and rejected targets

ASSUME ListenersAssumption ==
    /\ Gets \subseteq Listeners /\ Doc \in [Listeners -> Docs]
    /\ IsFiniteSet(Docs) /\ MaxVersion \in Nat

VARIABLES
    docs,       \* docs[d]: the document at the backend, 0 while there is none
    cache,      \* cache[d]: the document in the local store, and in d's view
    tokens,     \* documents whose target has a resume token
    asked,      \* calls that have been made
    listening,  \* listening[d]: listeners, in calls, of d
    current,    \* documents whose view is in sync with the backend
    results,    \* documents whose last snapshot has has_cached_results
    raised,     \* listeners that have raised their initial event
    inbox,      \* inbox[l]: events for l on the main queue
    told,       \* told[l]: the last event l has been given
    answers,    \* answers[l]: how many it has been given
    leaving,    \* reads whose RemoveListener is on the worker queue
    state,      \* the online state
    failed,     \* watch_stream_failures_ is not zero
    timer,      \* online_state_timer_ is set
    conn,       \* state of the watch stream
    idle,       \* its idleness_timer_ is set
    target,     \* target[d]: the aggregator's state of d's target
    fresh,      \* fresh[d]: d's document not yet in a snapshot, or 0
    up, down,   \* requests and messages of the present stream
    watched,    \* documents the backend watches for this stream
    (* history *)
    floor,      \* floor[l]: the backend's document when l's call listened to it
    crossed,    \* documents with a rejection that met other requests
    orphaned,   \* the timer of an attempt to connect has gone with the last target
    troubles

store    == <<cache, tokens>>
views    == <<listening, current, results, raised>>
main     == <<told, answers, leaving>>
online   == <<state, failed, timer, orphaned>>
stream   == <<conn, idle, target, fresh, up, down, watched, crossed>>
vars     == <<docs, store, asked, views, inbox, main, online, stream, floor, troubles>>

States   == {"initial", "starting", "open", "error", "backoff"}
Started  == {"starting", "open", "backoff"}
Versions == 0..MaxVersion
Nothing  == [kind |-> "none", doc |-> 0, cached |-> FALSE]
Event(doc, cached) == [kind |-> "value", doc |-> doc, cached |-> cached]
Failure  == [kind |-> "error", doc |-> 0, cached |-> FALSE]
NewTarget == [pending |-> 0, current |-> FALSE, changed |-> FALSE]

Targets(lists) == {d \in Docs : lists[d] # {}}

Init ==
    /\ docs \in [Docs -> Versions]
    /\ cache \in [Docs -> Versions] /\ \A d \in Docs : cache[d] <= docs[d]
    /\ tokens \in SUBSET Docs
    /\ asked = {}
    /\ listening = [d \in Docs |-> {}]
    /\ current = {} /\ results = {} /\ raised = {}
    /\ inbox = [l \in Listeners |-> <<>>]
    /\ told = [l \in Listeners |-> Nothing] /\ answers = [l \in Listeners |-> 0]
    /\ leaving = {}
    /\ state = "Unknown" /\ failed = FALSE /\ timer = FALSE
    /\ conn = "initial" /\ idle = FALSE
    /\ target = [d \in Docs |-> NewTarget] /\ fresh = [d \in Docs |-> 0]
    /\ up = <<>> /\ down = <<>> /\ watched = {}
    /\ floor = [l \in Listeners |-> 0] /\ crossed = {} /\ orphaned = FALSE
    /\ troubles = 0

----------------------------------------------------------------------------
(* Views and listeners. *)

\* ShouldRaiseInitialEvent: a read waits for the backend while it may be reached, a
\* listener only as long as it has nothing to show.
ShouldRaiseInitialEvent(l, onlineState, isCurrent, doc, cached) ==
    \/ isCurrent
    \/ onlineState = "Offline"
    \/ l \notin Gets /\ (doc # 0 \/ cached)

\* SetAndBroadcast(Offline): views are not in sync any more, which reads are told,
\* and everybody who still waits gets the initial event.
GoOffline ==
    LET waiting == {l \in Listeners : l \in listening[Doc[l]] /\ l \notin raised}
        synced  == {l \in raised \cap Gets : l \in listening[Doc[l]] /\ Doc[l] \in current}
    IN  /\ state' = "Offline"
        /\ current' = {}
        /\ results' = results \ current
        /\ raised' = raised \cup waiting
        /\ inbox' = [l \in Listeners |->
                        IF l \in waiting \cup synced
                        THEN Append(inbox[l], Event(cache[Doc[l]], TRUE))
                        ELSE inbox[l]]

\* SetAndBroadcast of another state: nobody raises an event for it who has not
\* raised one before.
Announce(onlineState) ==
    /\ state' = onlineState
    /\ UNCHANGED <<current, results, raised, inbox>>

----------------------------------------------------------------------------
(* The watch stream and the online state. *)

Request(listen, d) == [listen |-> listen, doc |-> d]
Message(kind, d)   == [kind |-> kind, doc |-> d, version |-> 0]

\* SendWatchRequest and SendUnwatchRequest, on an open stream.
Send(listen, d) ==
    /\ target' = [target EXCEPT ![d].pending = @ + 1]
    /\ up' = Append(up, Request(listen, d))

\* The stream and its aggregator are gone.
Closed ==
    /\ idle' = FALSE
    /\ target' = [d \in Docs |-> NewTarget] /\ fresh' = [d \in Docs |-> 0]
    /\ up' = <<>> /\ down' = <<>> /\ watched' = {} /\ crossed' = {}
    /\ orphaned' = FALSE

\* Mutant: a listen does not start the timer.
ListenWithoutTimer(d) ==
    IF conn \notin Started
    THEN /\ conn' = IF conn = "error" THEN "backoff" ELSE "starting"
         /\ Closed
         /\ state' = IF failed THEN state ELSE "Unknown"
         /\ UNCHANGED <<timer, failed>>
    ELSE /\ IF conn = "open"
            THEN Send(TRUE, d) /\ idle' = FALSE
            ELSE UNCHANGED <<target, up, idle>>
         /\ UNCHANGED <<conn, fresh, down, watched, crossed, online>>

\* Mutant: a request does not cancel the idle timer.
ListenStaysIdle(d) ==
    IF conn \notin Started
    THEN /\ conn' = IF conn = "error" THEN "backoff" ELSE "starting"
         /\ Closed
         /\ state' = IF failed THEN state ELSE "Unknown"
         /\ timer' = (timer \/ ~failed)
         /\ UNCHANGED failed
    ELSE /\ IF conn = "open" THEN Send(TRUE, d) ELSE UNCHANGED <<target, up>>
         /\ UNCHANGED <<conn, idle, fresh, down, watched, crossed, online>>

\* RemoteStore::Listen, for a document that is no target yet: the stream is started,
\* through a backoff after an error, and HandleWatchStreamStart sets the timer; or
\* the request is sent; or it will be when the stream opens.
Listen(d) ==
    IF conn \notin Started
    THEN /\ conn' = IF conn = "error" THEN "backoff" ELSE "starting"
         /\ Closed
         /\ state' = IF failed THEN state ELSE "Unknown"
         /\ timer' = (timer \/ ~failed)
         /\ UNCHANGED failed
    ELSE /\ IF conn = "open"
            THEN Send(TRUE, d) /\ idle' = FALSE
            ELSE UNCHANGED <<target, up, idle>>
         /\ UNCHANGED <<conn, fresh, down, watched, crossed, online>>

\* RemoteStore::StopListening, with the targets left: an open stream without targets
\* is marked idle; without an open stream the online state starts anew, and the
\* timer of the attempt under way is cleared.
StopListening(d, left) ==
    IF conn = "open"
    THEN /\ Send(FALSE, d)
         /\ idle' = (left = {})
         /\ UNCHANGED <<conn, fresh, down, watched, crossed, online>>
    ELSE /\ UNCHANGED stream
         /\ IF left = {}
            THEN /\ state' = "Unknown" /\ failed' = FALSE /\ timer' = FALSE
                 /\ orphaned' = (conn \in Started)
            ELSE UNCHANGED online

----------------------------------------------------------------------------
(* Calls of the application, on the worker queue. *)

\* AddQueryListener: the first listener of a document starts its target and its
\* view, a later one is shown the last snapshot.
AddQueryListener(l) ==
    LET d     == Doc[l]
        first == listening[d] = {}
    IN  /\ l \notin asked
        /\ asked' = asked \cup {l}
        /\ listening' = [listening EXCEPT ![d] = @ \cup {l}]
        /\ IF first
           THEN /\ Listen(d)
                /\ current' = current \ {d}
                /\ results' = IF d \in tokens THEN results \cup {d} ELSE results \ {d}
                /\ floor' = [floor EXCEPT ![l] = docs[d]]
           ELSE UNCHANGED <<online, stream, current, results, floor>>
        /\ IF ShouldRaiseInitialEvent(l, state', d \in current', cache[d], d \in results')
           THEN /\ raised' = raised \cup {l}
                /\ inbox' = [inbox EXCEPT ![l] = Append(@, Event(cache[d], d \notin current'))]
           ELSE UNCHANGED <<raised, inbox>>
        /\ UNCHANGED <<docs, store, main, troubles>>

\* RemoveQueryListener, for a read that has been answered.
RemoveQueryListener(l) ==
    LET d    == Doc[l]
        rest == [listening EXCEPT ![d] = @ \ {l}]
    IN  /\ l \in leaving
        /\ leaving' = leaving \ {l}
        /\ listening' = rest
        /\ IF listening[d] = {l}
           THEN StopListening(d, Targets(rest))
           ELSE UNCHANGED <<online, stream>>
        /\ UNCHANGED <<docs, store, asked, current, results, raised, inbox, told, answers, floor,
                       troubles>>

\* Mutant: a read is removed but not muted.
RunsUnmuted(l) ==
    /\ inbox[l] # <<>>
    /\ inbox' = [inbox EXCEPT ![l] = Tail(@)]
    /\ told' = [told EXCEPT ![l] = Head(inbox[l])]
    /\ answers' = [answers EXCEPT ![l] = @ + 1]
    /\ leaving' = IF l \in Gets /\ Head(inbox[l]).kind = "value" THEN leaving \cup {l} ELSE leaving
    /\ UNCHANGED <<docs, store, asked, views, online, stream, floor, troubles>>

\* Mutant: every listener removes itself with its first event.
RunsOnceForAll(l) ==
    /\ inbox[l] # <<>>
    /\ inbox' = [inbox EXCEPT ![l] = Tail(@)]
    /\ told' = [told EXCEPT ![l] = Head(inbox[l])]
    /\ answers' = [answers EXCEPT ![l] = @ + 1]
    /\ leaving' = leaving \cup {l}
    /\ UNCHANGED <<docs, store, asked, views, online, stream, floor, troubles>>

\* An event runs on the main queue: ListenOnce mutes and removes its listener
\* before it answers the read, and a muted listener drops what is behind.
EventRuns(l) ==
    /\ inbox[l] # <<>>
    /\ inbox' = [inbox EXCEPT ![l] = Tail(@)]
    /\ IF l \in Gets /\ told[l].kind = "value"
       THEN UNCHANGED main
       ELSE /\ told' = [told EXCEPT ![l] = Head(inbox[l])]
            /\ answers' = [answers EXCEPT ![l] = @ + 1]
            /\ leaving' = IF l \in Gets /\ Head(inbox[l]).kind = "value"
                          THEN leaving \cup {l} ELSE leaving
    /\ UNCHANGED <<docs, store, asked, views, online, stream, floor, troubles>>

----------------------------------------------------------------------------
(* The life of the stream. *)

Trouble ==
    /\ troubles < MaxTroubles
    /\ troubles' = troubles + 1

\* OnWatchStreamOpen: every target is asked for.
OnWatchStreamOpen ==
    /\ conn = "starting"
    /\ conn' = "open"
    /\ \E order \in [1..Cardinality(Targets(listening)) -> Targets(listening)] :
           /\ \A i, j \in DOMAIN order : i # j => order[i] # order[j]
           /\ up' = [i \in DOMAIN order |-> Request(TRUE, order[i])]
    /\ target' = [d \in Docs |-> [target[d] EXCEPT !.pending =
                                     @ + IF d \in Targets(listening) THEN 1 ELSE 0]]
    /\ UNCHANGED <<docs, store, asked, views, inbox, main, online, idle, fresh, down, watched,
                   crossed, floor, troubles>>

\* OnWatchStreamClose with an error: with targets left, a client that was online
\* gives the backend another timer, any other goes offline, and the stream is
\* started again after a backoff.
OnWatchStreamBroken ==
    /\ conn \in {"starting", "open"}
    /\ Trouble
    /\ Closed
    /\ IF Targets(listening) = {}
       THEN /\ conn' = "error"
            /\ Announce("Unknown")
            /\ failed' = FALSE /\ timer' = FALSE
       ELSE /\ conn' = "backoff"
            /\ IF state = "Online"
               THEN Announce("Unknown") /\ timer' = TRUE /\ UNCHANGED failed
               ELSE GoOffline /\ timer' = FALSE /\ failed' = TRUE
    /\ UNCHANGED <<docs, store, asked, listening, main, floor>>

BackoffElapsed ==
    /\ conn = "backoff"
    /\ conn' = "starting"
    /\ UNCHANGED <<docs, store, asked, views, inbox, main, online, idle, target, fresh, up, down,
                   watched, crossed, floor, troubles>>

\* The idle timer stops the stream.
IdleTimeout ==
    /\ idle
    /\ conn' = "initial"
    /\ Closed
    /\ Announce("Unknown")
    /\ failed' = FALSE /\ timer' = FALSE
    /\ UNCHANGED <<docs, store, asked, listening, main, floor, troubles>>

\* RestartNetwork, called when the connectivity changes.
OnConnectivityChange ==
    /\ Trouble
    /\ Closed
    /\ Announce("Unknown")
    /\ failed' = FALSE
    /\ timer' = (Targets(listening) # {})
    /\ conn' = IF Targets(listening) = {} THEN "initial" ELSE "starting"
    /\ UNCHANGED <<docs, store, asked, listening, main, floor>>

\* Mutant: the timer only changes the state.
TimeoutUnheard ==
    /\ timer
    /\ timer' = FALSE
    /\ Announce("Offline")
    /\ UNCHANGED <<docs, store, asked, listening, main, failed, orphaned, stream, floor, troubles>>

\* The backend has not said anything in time.
OnlineStateTimeout ==
    /\ timer
    /\ timer' = FALSE
    /\ GoOffline
    /\ UNCHANGED <<docs, store, asked, listening, main, failed, orphaned, stream, floor, troubles>>

----------------------------------------------------------------------------
(* Messages of the backend. *)

\* Mutant: messages count from the first answer on.
ActiveAnyway(d) == listening[d] # {}

\* A target whose requests are all answered, and which is still wanted.
IsActiveTarget(d) == listening[d] # {} /\ target[d].pending = 0

\* Mutant: the message does not clear the timer.
HeardInTime(kind) ==
    /\ down # <<>> /\ Head(down).kind = kind
    /\ down' = Tail(down)
    /\ state' = "Online" /\ failed' = FALSE /\ orphaned' = FALSE /\ UNCHANGED timer
    /\ UNCHANGED <<docs, asked, main, conn, idle, up, watched, floor, troubles>>

\* The first message of every kind makes the client online.
Heard(kind) ==
    /\ down # <<>> /\ Head(down).kind = kind
    /\ down' = Tail(down)
    /\ state' = "Online" /\ failed' = FALSE /\ timer' = FALSE /\ orphaned' = FALSE
    /\ UNCHANGED <<docs, asked, main, conn, idle, up, watched, floor, troubles>>

\* The answer to a listen.
OnAdded ==
    LET d == Head(down).doc
    IN  /\ Heard("added")
        /\ target' = [target EXCEPT
                         ![d].pending = target[d].pending - 1,
                         ![d].changed = target[d].changed /\ target[d].pending # 1]
        /\ UNCHANGED <<store, views, inbox, fresh, crossed>>

\* Mutant: an unlisten's answer ends the target, whatever was asked since.
RemovedForGood ==
    /\ Heard("removed")
    /\ target' = [target EXCEPT ![Head(down).doc] = NewTarget]
    /\ UNCHANGED <<store, views, inbox, fresh, crossed>>

\* The answer to an unlisten.
OnRemoved ==
    LET d == Head(down).doc
    IN  /\ Heard("removed")
        /\ target' = IF target[d].pending = 1
                     THEN [target EXCEPT ![d] = NewTarget]
                     ELSE [target EXCEPT ![d].pending = @ - 1]
        /\ UNCHANGED <<store, views, inbox, fresh, crossed>>

OnCurrent ==
    LET d == Head(down).doc
    IN  /\ Heard("current")
        /\ target' = IF IsActiveTarget(d)
                     THEN [target EXCEPT ![d].current = TRUE, ![d].changed = TRUE]
                     ELSE target
        /\ UNCHANGED <<store, views, inbox, fresh, crossed>>

OnDocument ==
    LET d == Head(down).doc
    IN  /\ Heard("document")
        /\ IF IsActiveTarget(d)
           THEN /\ fresh' = [fresh EXCEPT ![d] = Head(down).version]
                /\ target' = [target EXCEPT ![d].changed = TRUE]
           ELSE UNCHANGED <<fresh, target>>
        /\ UNCHANGED <<store, views, inbox, crossed>>

\* Requests of d that are not answered yet.
Unanswered(d) ==
    Cardinality({i \in DOMAIN up : up[i].doc = d})
    + Cardinality({i \in DOMAIN down :
                       down[i].doc = d /\ down[i].kind \in {"added", "removed", "rejected"}})

\* ProcessTargetError: the listeners of the document get the error and are gone.
\* A target that is not wanted any more is passed over, its count with it.
OnRejected ==
    LET d == Head(down).doc
    IN  /\ Heard("rejected")
        /\ crossed' = IF Unanswered(d) > 1 \/ listening[d] = {} THEN crossed \cup {d} ELSE crossed
        /\ target' = [target EXCEPT ![d] = IF listening[d] = {} THEN @ ELSE NewTarget]
        /\ listening' = [listening EXCEPT ![d] = {}]
        /\ current' = current \ {d}
        /\ inbox' = [l \in Listeners |-> IF l \in listening[d] THEN Append(inbox[l], Failure)
                                         ELSE inbox[l]]
        /\ UNCHANGED <<store, results, raised, fresh>>

\* Mutant: a change of a listener's document is told only with a change of its
\* synchronization.
EventsOnSync(l, before, after, doc) ==
    /\ l \in listening[Doc[l]]
    /\ (Doc[l] \in after) # (Doc[l] \in before)
    /\ l \in raised => l \in Gets

\* Whether a snapshot that turns the cache into doc makes an event for l: OnViewSnapshot.
HasEvent(l, before, after, doc) ==
    LET d       == Doc[l]
        changes == doc[d] # cache[d]
        syncs   == (d \in after) # (d \in before)
    IN  /\ l \in listening[d]
        /\ changes \/ syncs
        /\ IF l \in raised
           THEN changes \/ l \in Gets
           ELSE ShouldRaiseInitialEvent(l, "Online", d \in after, doc[d], d \in results)

\* RaiseWatchSnapshot: documents go to the cache, targets to their views.
OnSnapshot ==
    LET changed == {d \in Docs : IsActiveTarget(d) /\ target[d].changed}
        synced  == {d \in changed : target[d].current}
        after   == (current \ changed) \cup synced
        doc     == [d \in Docs |-> IF fresh[d] > cache[d] THEN fresh[d] ELSE cache[d]]
        events  == {l \in Listeners : HasEvent(l, current, after, doc)}
    IN  /\ Heard("snapshot")
        /\ cache' = doc
        /\ tokens' = tokens \cup synced
        /\ current' = after
        /\ results' = results \cup synced
        /\ raised' = raised \cup events
        /\ inbox' = [l \in Listeners |->
                        IF l \in events
                        THEN Append(inbox[l], Event(doc[Doc[l]], Doc[l] \notin after))
                        ELSE inbox[l]]
        /\ target' = [d \in Docs |-> [target[d] EXCEPT !.changed = @ /\ d \notin changed]]
        /\ fresh' = [d \in Docs |-> 0]
        /\ UNCHANGED <<listening, crossed>>

OnWatchStreamChange ==
    OnAdded \/ OnRemoved \/ OnCurrent \/ OnDocument \/ OnRejected \/ OnSnapshot

----------------------------------------------------------------------------
(* The backend. *)

BackendReads(listen) ==
    /\ up # <<>> /\ Head(up).listen = listen
    /\ up' = Tail(up)
    /\ UNCHANGED <<docs, store, asked, views, inbox, main, online, conn, idle, target, fresh,
                   crossed, floor>>

Update(d, version) == [kind |-> "document", doc |-> d, version |-> version]

\* A target is added: its document, if there is one, CURRENT and a snapshot follow.
BackendWatches ==
    LET d == Head(up).doc
    IN  /\ BackendReads(TRUE)
        /\ watched' = watched \cup {d}
        /\ down' = down \o <<Message("added", d)>>
                        \o (IF docs[d] = 0 THEN <<>> ELSE <<Update(d, docs[d])>>)
                        \o <<Message("current", d), Message("snapshot", d)>>
        /\ UNCHANGED troubles

BackendRejects ==
    /\ BackendReads(TRUE)
    /\ Trouble
    /\ down' = Append(down, Message("rejected", Head(up).doc))
    /\ UNCHANGED watched

BackendForgets ==
    /\ BackendReads(FALSE)
    /\ watched' = watched \ {Head(up).doc}
    /\ down' = Append(down, Message("removed", Head(up).doc))
    /\ UNCHANGED troubles

\* Somebody writes the document.
DocumentChanges(d) ==
    /\ docs[d] < MaxVersion
    /\ docs' = [docs EXCEPT ![d] = @ + 1]
    /\ down' = IF d \in watched
               THEN down \o <<Update(d, docs'[d]), Message("snapshot", d)>>
               ELSE down
    /\ UNCHANGED <<store, asked, views, inbox, main, online, conn, idle, target, fresh, up,
                   watched, crossed, floor, troubles>>

----------------------------------------------------------------------------
Calls     == \E l \in Listeners : AddQueryListener(l) \/ RemoveQueryListener(l) \/ EventRuns(l)
Streaming == \/ OnWatchStreamOpen \/ OnWatchStreamBroken \/ BackoffElapsed \/ IdleTimeout
             \/ OnConnectivityChange \/ OnlineStateTimeout
Backend   == \/ BackendWatches \/ BackendRejects \/ BackendForgets
             \/ \E d \in Docs : DocumentChanges(d)

Next == Calls \/ Streaming \/ OnWatchStreamChange \/ Backend

Spec == Init /\ [][Next]_vars

\* The queues run and the timer fires.  A backend that has spoken on this stream
\* goes on to answer; one that has not need never do, nor need a stream open.
Fairness ==
    /\ \A l \in Listeners : WF_vars(RemoveQueryListener(l)) /\ WF_vars(EventRuns(l))
    /\ WF_vars(OnlineStateTimeout)
    /\ WF_vars(state = "Online" /\ OnWatchStreamChange)
    /\ WF_vars(state = "Online" /\ (BackendWatches \/ BackendRejects \/ BackendForgets))

FairSpec == Spec /\ Fairness

----------------------------------------------------------------------------
TypeOK ==
    /\ docs \in [Docs -> Nat] /\ cache \in [Docs -> Nat] /\ tokens \subseteq Docs
    /\ asked \subseteq Listeners /\ raised \subseteq Listeners /\ leaving \subseteq Gets
    /\ listening \in [Docs -> SUBSET Listeners]
    /\ \A l \in Listeners, d \in Docs : l \in listening[d] => Doc[l] = d
    /\ current \subseteq Docs /\ results \subseteq Docs
    /\ inbox \in [Listeners -> Seq([kind : {"value", "error"}, doc : Nat, cached : BOOLEAN])]
    /\ told \in [Listeners -> [kind : {"none", "value", "error"}, doc : Nat, cached : BOOLEAN]]
    /\ answers \in [Listeners -> Nat]
    /\ state \in {"Unknown", "Online", "Offline"}
    /\ failed \in BOOLEAN /\ timer \in BOOLEAN /\ idle \in BOOLEAN /\ orphaned \in BOOLEAN
    /\ conn \in States
    /\ target \in [Docs -> [pending : Int, current : BOOLEAN, changed : BOOLEAN]]
    /\ fresh \in [Docs -> Nat]
    /\ up \in Seq([listen : BOOLEAN, doc : Docs])
    /\ down \in Seq([kind : {"added", "removed", "current", "document", "rejected", "snapshot"},
                     doc : Docs, version : Nat])
    /\ watched \subseteq Docs /\ crossed \subseteq Docs
    /\ floor \in [Listeners -> Nat]
    /\ troubles \in Nat

\* The assertions of OnlineStateTracker: the timer runs only while the state is
\* Unknown, no stream has failed and one is being tried, so that no start finds it
\* running, and a client that is online has no failures.  And no view passes for
\* synchronized while the client is offline.
OnlineStateAgrees ==
    /\ timer => state = "Unknown" /\ ~failed /\ conn \in Started
    /\ state = "Online" => ~failed
    /\ state = "Offline" => current = {}

\* online_state_tracker.cc, "rather than waiting indefinitely": while somebody waits
\* for a backend that may be there, either the backend has spoken or the timer
\* runs.  Except when the last target was removed while the stream was being
\* tried: that clears the timer, and the next listen does not set it.
SomethingEndsTheWait ==
    \A l \in Gets :
        l \in listening[Doc[l]] \ raised => state = "Online" \/ timer \/ orphaned

\* "Watch stream was stopped gracefully while still needed": the idle timer runs
\* only on a stream without targets, and with targets there is always a stream.
StreamIfNeeded ==
    /\ idle => conn = "open" /\ Targets(listening) = {}
    /\ Targets(listening) # {} => conn \in Started

\* The aggregator waits for as many answers as there are requests without one,
\* through listens and unlistens that cross the answers to earlier ones.
\* A rejection that crosses another request of its document upsets the count.
PendingCounted ==
    \A d \in Docs \ crossed : target[d].pending = Unanswered(d)

\* The event that l gets in a step, if any, is from the cache or not older than l's call.
NotStale(l) ==
    LET event == inbox'[l][Len(inbox'[l])]
    IN  Len(inbox'[l]) > Len(inbox[l]) /\ event.kind = "value" /\ ~event.cached
            => event.doc >= floor'[l] \/ Doc[l] \in crossed

\* What the first listener of a document is told as not from the cache is not older
\* than its call: answers meant for an earlier listen of the document are not taken
\* for answers to this one.  A rejection that crosses another request of the document
\* does mislead the aggregator, until the stream is closed.
SyncedIsNotStale == [][\A l \in Listeners : NotStale(l)]_vars

\* A read is answered once, whatever becomes of its document and of the stream
\* before it is removed.
AnsweredOnce == \A l \in Gets : answers[l] <= 1

\* No change is lost on the way to a listener that has been told anything: the last
\* event on its way, or else the last it had, shows the document of the view.
LastWord(l) == IF inbox[l] = <<>> THEN told[l] ELSE inbox[l][Len(inbox[l])]
ListenersKnow ==
    \A l \in Listeners \ Gets :
        l \in listening[Doc[l]] \cap raised => LastWord(l).doc = cache[Doc[l]]

\* Every read is answered, if need be from the cache or with an error, although the
\* backend may never say a word; with the exceptions named above.
ReadsAreAnswered ==
    \A l \in Gets :
        l \in asked ~> (answers[l] > 0 \/ orphaned \/ Doc[l] \in crossed)
=============================================================================
